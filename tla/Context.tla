------------------------------ MODULE Context ------------------------------
(***************************************************************************)
(* TranslationContext and NamingRegistry (ast2python/context.py and        *)
(* ast2python/naming.py): the lexical scope stack every emitter pushes and *)
(* pops, the VariableInfo objects created in it, and the Python names      *)
(* handed out for them.                                                    *)
(*                                                                         *)
(* The context is one record value, and each method of the class is an     *)
(* operator from a context to a context, so that an emitter that calls     *)
(* several of them in one go (enter_scope, then declare_var, ...) composes *)
(* them in one step.  The heap holds every VariableInfo ever created: a    *)
(* scope refers to them by position, which is the identity of the Python   *)
(* object, and 0 stands for "not declared here".                           *)
(*                                                                         *)
(* Python names are values of an arbitrary set.  snake_case, keyword       *)
(* escaping and the "_2" suffix are operators: several Pine names may      *)
(* share a base and a suffixed name may be another name's base, which is   *)
(* all that allocation can tell apart.                                     *)
(***************************************************************************)
EXTENDS Naturals, Sequences

CONSTANTS
  Names,            \* Pine identifiers
  PyNames,          \* Python identifiers
  Snake(_),         \* snake_case of a Pine identifier
  Base(_),          \* escape_python_name of snake_case
  LoopBase(_),      \* escape_python_name of the identifier as written
  Candidate(_, _),  \* base itself for ordinal 1, base_<ordinal> above it
  Guard,            \* the preferred name "_guard" of a while counter
  Attributes,       \* attributes the generated class uses: rt, ctx, params...
  MaxOrdinal,       \* naming.py gives up above 10000
  Kinds,            \* declaration kinds that programs use (modes and inputs)
  MaxScopes,        \* bound: depth of the scope stack
  MaxDecls          \* bound: VariableInfo objects created

Bases == {Base(n) : n \in Names} \union {LoopBase(n) : n \in Names} \union {Guard}

\* Escaping appends "_" to a keyword or a builtin; no keyword or builtin is
\* another identifier followed by an underscore and a number.
ASSUME ContextAssumption ==
  /\ MaxOrdinal \in Nat /\ MaxScopes \in Nat /\ MaxDecls \in Nat
  /\ Kinds \subseteq {"normal", "var", "varip", "input"}
  /\ \A n \in Names : Snake(n) \in PyNames
  /\ \A b \in Bases, k \in 1 .. MaxOrdinal : Candidate(b, k) \in PyNames
  /\ \A n \in Names : Base(n) = Snake(n) => Candidate(Base(n), 1) = Snake(n)
  /\ \A n \in Names : Base(n) # Snake(n) =>
        \A b \in Bases, k \in 1 .. MaxOrdinal : Candidate(b, k) # Snake(n)

ScopeKinds == {"global", "block", "loop", "function"}
DeclKinds  == {"normal", "var", "varip", "input", "loop", "param"}
ScopeIds   == ScopeKinds \X (0 .. MaxScopes)

VarInfo == [pine : Names, py : PyNames, kind : DeclKinds,
            series : BOOLEAN, scope : ScopeIds]
Scope   == [id : ScopeIds, vars : [Names -> Nat]]

NoVars   == [n \in Names |-> 0]
GlobalId == <<"global", 0>>

EmptyContext ==
  [ scopes |-> << [id |-> GlobalId, vars |-> NoVars] >>,
    used   |-> {},
    heap   |-> << >>,
    index  |-> [k \in ScopeIds \X Names |-> 0] ]

Depth(c)        == Len(c.scopes)
CurrentScope(c) == c.scopes[Depth(c)]

WithScopes(c, scopes) ==
  [scopes |-> scopes, used |-> c.used, heap |-> c.heap, index |-> c.index]

\* Mutant: scopes numbered by kind alone, whatever their depth.
ScopeIdFlat(c, kind) == <<kind, 1>>

\* enter_scope: the identifier is made of the kind and the depth alone.
ScopeId(c, kind) == <<kind, Depth(c)>>
Entered(c, kind) ==
  WithScopes(c, Append(c.scopes, [id |-> ScopeId(c, kind), vars |-> NoVars]))

\* Mutant: exit_scope pops down to the scope around the parent.
ExitedTwice(c) == WithScopes(c, SubSeq(c.scopes, 1, Depth(c) - 2))

\* exit_scope never pops the global scope.
Exited(c) ==
  IF Depth(c) > 1
  THEN WithScopes(c, SubSeq(c.scopes, 1, Depth(c) - 1))
  ELSE c

\* NamingRegistry.reserve: the first candidate not handed out yet.  It raises
\* NameCollisionError, and changes nothing, when every one is taken.
IsFree(used, base, k) == Candidate(base, k) \notin used
IsLeastFree(used, base, k) ==
  /\ IsFree(used, base, k)
  /\ \A l \in 1 .. MaxOrdinal : l < k => Candidate(base, l) \in used

CanReserve(c, base) == \E k \in 1 .. MaxOrdinal : IsLeastFree(c.used, base, k)

\* Mutant: the second candidate is taken without looking whether it is free.
ReservedUnsearched(c, base) ==
  Candidate(base, IF IsFree(c.used, base, 1) THEN 1 ELSE 2)

\* Mutant: a name is free again once its scope is left.
ReservedInScope(c, base) ==
  LET open == {c.scopes[d].vars[m] : d \in 1 .. Len(c.scopes), m \in Names} \ {0}
  IN Candidate(base, CHOOSE k \in 1 .. MaxOrdinal :
                        IsLeastFree({c.heap[i].py : i \in open}, base, k))

Reserved(c, base) ==
  Candidate(base, CHOOSE k \in 1 .. MaxOrdinal : IsLeastFree(c.used, base, k))

\* reserve("while_guard", prefer="_guard"): a name without a VariableInfo.
GuardReserved(c) ==
  [ scopes |-> c.scopes, used |-> c.used \union {Reserved(c, Guard)},
    heap |-> c.heap, index |-> c.index ]

\* The name declare_var prefers: a loop variable asks for its own spelling,
\* any other one for its snake_case.
Preferred(n, kind) == IF kind = "loop" THEN LoopBase(n) ELSE Base(n)

\* Mutant: the unescaped, unreserved spelling is written for loop variables
\* too.
EmittedNameOverridden(c, n, kind) ==
  IF kind \in {"param", "loop"} THEN Snake(n)
  ELSE Reserved(c, Preferred(n, kind))

\* The name the emitters write.  A parameter's py_name is overwritten after
\* declare_var with the unescaped snake_case name, and what was reserved for
\* it stays reserved.
EmittedName(c, n, kind) ==
  IF kind = "param" THEN Snake(n) ELSE Reserved(c, Preferred(n, kind))

NewInfo(c, n, kind, series) ==
  [ pine   |-> n,
    py     |-> EmittedName(c, n, kind),
    kind   |-> kind,
    series |-> series,
    scope  |-> CurrentScope(c).id ]

\* declare_var: a name already declared in this very scope keeps its
\* VariableInfo; otherwise a new one enters the scope, ctx.variables and
\* ctx.type_metadata (one index here: they have the same key).
Declared(c, n, kind, series) ==
  IF CurrentScope(c).vars[n] # 0
  THEN c
  ELSE LET i == Len(c.heap) + 1 IN
       [ scopes |-> [c.scopes EXCEPT ![Depth(c)] =
                       [id |-> @.id, vars |-> [@.vars EXCEPT ![n] = i]]],
         used   |-> c.used \union {Reserved(c, Preferred(n, kind))},
         heap   |-> Append(c.heap, NewInfo(c, n, kind, series)),
         index  |-> [c.index EXCEPT ![<<CurrentScope(c).id, n>>] = i] ]

\* resolve_var: the innermost scope of the stack that declares the name; 0 is
\* the ScopeResolutionError.
DeclaringDepths(c, n) == {d \in 1 .. Depth(c) : c.scopes[d].vars[n] # 0}

Resolve(c, n) ==
  IF DeclaringDepths(c, n) = {}
  THEN 0
  ELSE LET d == CHOOSE d \in DeclaringDepths(c, n) :
                   \A e \in DeclaringDepths(c, n) : e <= d
       IN c.scopes[d].vars[n]

\* The VariableInfo objects some scope of the stack still refers to.
IsLive(c, i) == \E d \in 1 .. Depth(c), n \in Names : c.scopes[d].vars[n] = i
Live(c) == {i \in 1 .. Len(c.heap) : IsLive(c, i)}
-----------------------------------------------------------------------------
VARIABLE ctx

ContextInit == ctx = EmptyContext

CanDeclare(n, kind) ==
  /\ Len(ctx.heap) < MaxDecls
  /\ CanReserve(ctx, Preferred(n, kind))

EnterBlock ==
  /\ Depth(ctx) < MaxScopes
  /\ ctx' = Entered(ctx, "block")

\* A function scope is only ever pushed on the global one: function
\* declarations are lowered from the program's top-level items.
EnterFunction ==
  /\ Depth(ctx) = 1 /\ MaxScopes > 1
  /\ ctx' = Entered(ctx, "function")

\* The parameters of a function are declared right after its scope is
\* entered, before anything else is declared in it.
DeclareParam(n) ==
  /\ CurrentScope(ctx).id[1] = "function"
  /\ \A m \in Names :
        LET i == CurrentScope(ctx).vars[m]
        IN i # 0 => ctx.heap[i].kind = "param"
  /\ CanDeclare(n, "param")
  /\ ctx' = Declared(ctx, n, "param", FALSE)

\* collect_globals calls declare_var for every top-level declaration, which
\* is a series on the generated object.
DeclareGlobal(n, kind) ==
  /\ Depth(ctx) = 1
  /\ CanDeclare(n, kind)
  /\ ctx' = Declared(ctx, n, kind, TRUE)

\* _resolve_or_declare_var in a body declares only what does not resolve, and
\* what it declares is a Python local.  An input declaration returns before.
DeclareLocal(n, kind) ==
  /\ Depth(ctx) > 1
  /\ kind # "input"
  /\ Resolve(ctx, n) = 0
  /\ CanDeclare(n, kind)
  /\ ctx' = Declared(ctx, n, kind, FALSE)

\* The variables of a loop are declared in the loop's fresh scope, whatever
\* they shadow.
EnterLoop(n) ==
  /\ Depth(ctx) < MaxScopes
  /\ CanDeclare(n, "loop")
  /\ ctx' = Declared(Entered(ctx, "loop"), n, "loop", FALSE)

\* A while loop reserves its counter and pushes a scope without variables.
EnterWhile ==
  /\ Depth(ctx) < MaxScopes
  /\ CanReserve(ctx, Guard)
  /\ ctx' = Entered(GuardReserved(ctx), "loop")

ExitScope == Depth(ctx) > 1 /\ ctx' = Exited(ctx)

ContextNext ==
  \/ EnterBlock
  \/ EnterFunction
  \/ EnterWhile
  \/ ExitScope
  \/ \E n \in Names : DeclareParam(n) \/ EnterLoop(n)
  \/ \E n \in Names, kind \in Kinds :
        DeclareGlobal(n, kind) \/ DeclareLocal(n, kind)

ContextSpec == ContextInit /\ [][ContextNext]_ctx
-----------------------------------------------------------------------------
\* The context is a stack of one scope at least over a heap of well-formed
\* VariableInfo objects, and a scope refers only to objects of the heap
\* (context.py's dataclasses).
ContextTypeOK ==
  /\ ctx \in [ scopes : Seq(Scope), used : SUBSET PyNames, heap : Seq(VarInfo),
               index : [ScopeIds \X Names -> Nat] ]
  /\ Len(ctx.scopes) \in 1 .. MaxScopes + 1
  /\ \A d \in 1 .. Len(ctx.scopes), n \in Names :
        ctx.scopes[d].vars[n] \in 0 .. Len(ctx.heap)

\* No Python name is handed out twice, over the whole translation and whatever
\* scopes were left in between: two variables that share one are told apart by
\* no generated line.  Parameters are excepted, their name is not the reserved
\* one (naming.py, NamingRegistry.reserve).
UniqueNames ==
  \A i, j \in 1 .. Len(ctx.heap) :
     /\ i # j
     /\ ctx.heap[i].kind # "param"
     /\ ctx.heap[j].kind # "param"
     => ctx.heap[i].py # ctx.heap[j].py

\* Two Python locals that are visible together, a parameter and a local of
\* its function among them, have different names: an assignment to one never
\* writes the other.  Only two parameters of one snake_case spelling may
\* coincide (declarations.py overwrites their py_name).
LiveLocalsDistinct ==
  \A i, j \in Live(ctx) :
     /\ i # j
     /\ ~ ctx.heap[i].series /\ ~ ctx.heap[j].series
     /\ ctx.heap[i].py = ctx.heap[j].py
     => /\ ctx.heap[i].kind = "param" /\ ctx.heap[j].kind = "param"
        /\ Snake(ctx.heap[i].pine) = Snake(ctx.heap[j].pine)

\* The key "<scope id>:<name>" of a visible variable, under which its type
\* metadata and its varip state are kept, still leads to that variable although
\* scope ids are reused: no inner scope, open or left, has taken it over.
IndexCurrent ==
  \A i \in Live(ctx) : ctx.index[<<ctx.heap[i].scope, ctx.heap[i].pine>>] = i

\* The parameters of one function are distinct Python arguments.
ArgumentsDistinct ==
  \A i, j \in Live(ctx) :
     i # j /\ ctx.heap[i].kind = "param" /\ ctx.heap[j].kind = "param"
     => ctx.heap[i].py # ctx.heap[j].py

\* No series stored on the generated object replaces an attribute that the
\* generated class itself uses on every bar.
AttributesIntact ==
  \A i \in 1 .. Len(ctx.heap) :
     ctx.heap[i].series => ctx.heap[i].py \notin Attributes
=============================================================================
