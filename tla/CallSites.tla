------------------------------ MODULE CallSites ------------------------------
(***************************************************************************)
(* The identity of run-time state: state_id_for_call and state_id_py_expr  *)
(* (ast2python/state.py), the call-site ids of call_dispatch.py and the    *)
(* temporary series of _translate_series_source_argument (calls.py).       *)
(*                                                                         *)
(* First a program is translated, one call after the other, functions      *)
(* before the body of _process_bar; then the generated code runs.  `code'  *)
(* holds the rendered calls.  A chain of calls is a sequence of positions  *)
(* in `code': calls of user functions, each in the body of the one before, *)
(* and at the end a stateful call.  The runtime keeps one state per key    *)
(* string, which is the pair of the call-site prefix and the id here.      *)
(* x[1] of a local variable is a stateful call whose id is the variable's: *)
(* every reference to the history of x in one function has the same id.    *)
(***************************************************************************)
EXTENDS Naturals, Sequences

CONSTANTS
  LastFunction,   \* user functions are 1 .. LastFunction, as they are declared
  Locations,      \* source positions (line and column)
  Builtins,       \* stateful builtins
  Locals,         \* Python names of local variables and parameters
  MaxCalls,       \* bound: calls in the program
  MaxEvaluations, \* bound: evaluations of one run
  Uses            \* what programs do beyond calling functions from the body: a
                  \* subset of {"nested", "method", "temp", "unlocated"}

ASSUME CallSitesAssumption ==
  /\ LastFunction \in Nat /\ MaxCalls \in Nat /\ MaxEvaluations \in Nat
  /\ Uses \subseteq {"nested", "method", "temp", "unlocated"}

Functions == 1 .. LastFunction
Body      == LastFunction + 1   \* _process_bar, lowered after the functions
Bodies    == 1 .. Body

Kinds == {"state", "function", "method"}
LocalIds == {"local"} \X {"function", "block"} \X Locals
Ids   == ({"located"} \X Locations \X Builtins \X (1 .. MaxCalls))
           \union ({"hash"} \X Builtins)
           \union ({"temp"} \X (1 .. MaxCalls))
           \union LocalIds
NoId  == <<"none">>
Sites == Functions \X (1 .. MaxCalls)
NoSite == <<0, 0>>

Call == [ in : Bodies, kind : Kinds, callee : Functions \union {Body},
          id : Ids \union {NoId}, site : Sites \union {NoSite} ]

Keys == (Sites \union {NoSite}) \X Ids

VARIABLES
  owner,   \* current_function while translating
  counts,  \* ctx.state_id_counts
  sites,   \* ctx.function_call_site_ids
  temps,   \* _temp_series_index
  code,    \* the rendered calls, in the order they are translated
  running, \* the program is translated and runs
  path,    \* the calls in progress, outermost first
  states   \* per key, how many values the runtime's state has seen

translator == <<owner, counts, sites, temps, code>>
vars == <<owner, counts, sites, temps, code, running, path, states>>
-----------------------------------------------------------------------------
(* Chains of calls.                                                        *)
IsUserCall(i) == code[i].kind \in {"function", "method"}

\* The body that runs after the calls of p.
Reached(p) == IF p = << >> THEN Body ELSE code[p[Len(p)]].callee

Paths == UNION {[1 .. n -> 1 .. MaxCalls] : n \in 1 .. LastFunction + 1}

IsCallPath(p) ==
  /\ \A k \in 1 .. Len(p) :
       /\ p[k] \in 1 .. Len(code)
       /\ code[p[k]].in = Reached(SubSeq(p, 1, k - 1))
       /\ IsUserCall(p[k]) <=> k < Len(p)

CallPaths == {p \in Paths : IsCallPath(p)}

\* The value of _cs_id in a body: the literal of the innermost call, or its
\* default.
CallSiteId(p) == IF p = << >> THEN NoSite ELSE code[p[Len(p)]].site

\* Mutant: no prefix inside a function.
StateKeyBare(p) == <<NoSite, code[p[Len(p)]].id>>

\* state_id_py_expr: inside a function the id is prefixed with _cs_id.  A
\* temporary series is an attribute of the generated object.
StateKey(p) ==
  LET call == code[p[Len(p)]]
  IN IF call.in = Body \/ call.id[1] = "temp"
     THEN <<NoSite, call.id>>
     ELSE <<CallSiteId(SubSeq(p, 1, Len(p) - 1)), call.id>>
-----------------------------------------------------------------------------
CallSitesInit ==
  /\ owner = 1
  /\ counts = [k \in Locations \X Builtins |-> 0]
  /\ sites = [f \in Functions |-> 0]
  /\ temps = 0
  /\ code = << >>
  /\ running = FALSE
  /\ path = << >>
  /\ states = [k \in Keys |-> 0]

Rendered(kind, callee, id, site) ==
  /\ ~ running /\ Len(code) < MaxCalls
  /\ code' = Append(code, [in |-> owner, kind |-> kind, callee |-> callee,
                           id |-> id, site |-> site])
  /\ UNCHANGED <<owner, running, path, states>>

\* The next function, at last the body of _process_bar, is translated.
NextBody ==
  /\ ~ running /\ owner < Body
  /\ owner' = owner + 1
  /\ UNCHANGED <<counts, sites, temps, code, running, path, states>>

\* Mutant: an ordinal that starts over in every function.
OrdinalInBody(loc, builtin) ==
  1 + Len(SelectSeq(code, LAMBDA c : c.in = owner /\ c.id[1] = "located"
                                       /\ c.id[2] = loc /\ c.id[3] = builtin))

\* Mutant: the count is raised before the ordinal is computed from it.
OrdinalCountedTwice(loc, builtin) == counts[<<loc, builtin>>] + 2

\* state_id_for_call: calls at one position are numbered.
Ordinal(loc, builtin) == counts[<<loc, builtin>>] + 1

RenderStateful(loc, builtin) ==
  /\ Rendered("state", Body, <<"located", loc, builtin, Ordinal(loc, builtin)>>, NoSite)
  /\ counts' = [counts EXCEPT ![<<loc, builtin>>] = @ + 1]
  /\ UNCHANGED <<sites, temps>>

\* A node without a source position: a hash of its text.
RenderUnlocated(builtin) ==
  /\ "unlocated" \in Uses
  /\ Rendered("state", Body, <<"hash", builtin>>, NoSite)
  /\ UNCHANGED <<counts, sites, temps>>

\* _translate_history_reference of a local variable: "<scope_id>_<py_name>_history".
\* A local's Python name is reserved, so that a nested block's variable has its
\* name to itself.  A parameter's is not (declarations.py:95), and the scope of
\* every function is "function_1": two functions may use one id.  A global is a
\* series and keeps its own history.
RenderLocalHistory(scope, name) ==
  LET id == <<"local", scope, name>>
  IN /\ scope = "function" => owner # Body
     /\ scope = "block" => \A i \in 1 .. Len(code) : code[i].id = id => code[i].in = owner
     /\ Rendered("state", Body, id, NoSite)
     /\ UNCHANGED <<counts, sites, temps>>

\* A computed source of a window function: a temporary series.
RenderTemporary ==
  /\ "temp" \in Uses
  /\ Rendered("state", Body, <<"temp", temps + 1>>, NoSite)
  /\ temps' = temps + 1
  /\ UNCHANGED <<counts, sites>>

\* Mutant: the ordinal is read before the site is counted.
SiteUncounted(f) == <<f, IF sites[f] = 0 THEN 1 ELSE sites[f]>>

\* dispatch_fallback_call of f(...): the calls of a function are numbered over
\* the whole program.  Pine lets a body call the functions declared before it.
Site(f) == <<f, sites[f] + 1>>

RenderFunctionCall(f) ==
  /\ f < owner /\ (owner # Body => "nested" \in Uses)
  /\ Rendered("function", f, NoId, Site(f))
  /\ sites' = [sites EXCEPT ![f] = @ + 1]
  /\ UNCHANGED <<counts, temps>>

\* dispatch_fallback_call of obj.f(...): no call-site id is passed.
RenderMethodCall(f) ==
  /\ "method" \in Uses /\ f < owner /\ (owner # Body => "nested" \in Uses)
  /\ Rendered("method", f, NoId, NoSite)
  /\ UNCHANGED <<counts, sites, temps>>

Run ==
  /\ ~ running /\ owner = Body
  /\ running' = TRUE
  /\ UNCHANGED <<translator, path, states>>

\* The running body calls a function.
Enter(i) ==
  /\ running /\ code[i].in = Reached(path) /\ IsUserCall(i)
  /\ path' = Append(path, i)
  /\ UNCHANGED <<translator, running, states>>

\* The running body evaluates a stateful call, any number of times and on any
\* bar: loops, branches and bars only decide how often.
Evaluate(i) ==
  /\ running /\ code[i].in = Reached(path) /\ code[i].kind = "state"
  /\ states[StateKey(Append(path, i))] < MaxEvaluations
  /\ states' = [states EXCEPT ![StateKey(Append(path, i))] = @ + 1]
  /\ UNCHANGED <<translator, running, path>>

Return ==
  /\ running /\ path # << >>
  /\ path' = SubSeq(path, 1, Len(path) - 1)
  /\ UNCHANGED <<translator, running, states>>

CallSitesNext ==
  \/ NextBody \/ Run \/ Return \/ RenderTemporary
  \/ \E loc \in Locations, b \in Builtins : RenderStateful(loc, b)
  \/ \E b \in Builtins : RenderUnlocated(b)
  \/ \E scope \in {"function", "block"}, name \in Locals : RenderLocalHistory(scope, name)
  \/ \E f \in Functions : RenderFunctionCall(f) \/ RenderMethodCall(f)
  \/ \E i \in 1 .. Len(code) : Enter(i) \/ Evaluate(i)

CallSitesSpec == CallSitesInit /\ [][CallSitesNext]_vars
-----------------------------------------------------------------------------
\* Every rendered call and every counter is what the code makes it, and the
\* calls in progress form a chain.
CallSitesTypeOK ==
  /\ owner \in Bodies
  /\ counts \in [Locations \X Builtins -> 0 .. MaxCalls]
  /\ sites \in [Functions -> 0 .. MaxCalls]
  /\ temps \in 0 .. MaxCalls
  /\ code \in Seq(Call) /\ Len(code) <= MaxCalls
  /\ running \in BOOLEAN
  /\ path \in Seq(1 .. MaxCalls) /\ Len(path) <= LastFunction
  /\ states \in [Keys -> 0 .. MaxEvaluations]

(* Whose history a chain of calls leads to: that of a stateful call or of  *)
(* a local variable, of one invocation of the function it is in.           *)
Subject(i) == IF code[i].id[1] = "local"
              THEN <<"variable", code[i].in, code[i].id>>
              ELSE <<"call", i>>

HistoryOf(p) == <<SubSeq(p, 1, Len(p) - 1), Subject(p[Len(p)])>>

Histories ==
  (UNION {[1 .. n -> 1 .. MaxCalls] : n \in 0 .. LastFunction})
    \X (({"call"} \X (1 .. MaxCalls)) \union ({"variable"} \X Bodies \X LocalIds))

\* Two chains of calls never share a state unless they read one history, that of
\* a local variable of one invocation: each call site of a user function has its
\* own isolated stateful series (state.py, state_id_py_expr), and a local one
\* stable state id (expressions.py:387).
Isolated ==
  \A p, q \in CallPaths : StateKey(p) = StateKey(q) => HistoryOf(p) = HistoryOf(q)

\* Chains share a state for one of these reasons only: their stateful calls
\* have no source position; they read variables of one name in functions called
\* as methods; or they end in one stateful call, or in references to one local
\* variable, and it is a temporary series, or in a function called as a method,
\* or called by one and the same call, so that what differs is further out than
\* _cs_id reaches.
InnerCall(p) == p[Len(p) - 1]
IsTemporary(p)   == code[p[Len(p)]].id[1] = "temp"
IsUnlocated(p)   == code[p[Len(p)]].id[1] = "hash"
IsLocal(p)       == code[p[Len(p)]].id[1] = "local"
SameSubject(p, q) == Subject(p[Len(p)]) = Subject(q[Len(q)])
CalledAsMethod(p) == Len(p) > 1 /\ code[InnerCall(p)].kind = "method"
SameInnerCall(p, q) ==
  IF Len(p) = 1 THEN Len(q) = 1 ELSE Len(q) > 1 /\ InnerCall(p) = InnerCall(q)

SharedForAReason ==
  \A p, q \in CallPaths :
     StateKey(p) = StateKey(q) =>
       \/ IsUnlocated(p) /\ IsUnlocated(q)
       \/ IsLocal(p) /\ IsLocal(q) /\ CalledAsMethod(p) /\ CalledAsMethod(q)
       \/ /\ SameSubject(p, q)
          /\ \/ IsTemporary(p)
             \/ CalledAsMethod(p) /\ CalledAsMethod(q)
             \/ SameInnerCall(p, q)

\* The generated code keeps Pine's histories: an evaluation extends the history
\* its own chain of calls leads to and no other.
Readers(h) ==
  {i \in 1 .. Len(code) : Subject(i) = h[2] /\ IsCallPath(Append(h[1], i))}

History ==
  [h \in Histories |->
     IF Readers(h) = {} THEN 0
     ELSE states[StateKey(Append(h[1], CHOOSE i \in Readers(h) : TRUE))]]

Pine == INSTANCE PineStates WITH history <- History

KeepsHistories == Pine!Spec
=============================================================================
