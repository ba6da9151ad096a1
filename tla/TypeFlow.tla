------------------------------ MODULE TypeFlow ------------------------------
(***************************************************************************)
(* The types that AST2Python infers (translator_mixins/type_inference.py,  *)
(* types.py) and what it does with them: the calls that the binder lets    *)
(* through (binder.py), the types in the metadata and the dtype of each    *)
(* generated series.  Types are inferred three times: when the globals are *)
(* collected, for the bodies of functions, and again, statement by         *)
(* statement, for the body of the script.                                  *)
(*                                                                         *)
(* An expression has one operator; deeper ones go through variables.  With *)
(* each variable goes, as history, its type in Pine and the doubts about   *)
(* it: the places where the inference knows less than Pine.                *)
(***************************************************************************)
EXTENDS Naturals, Sequences, FiniteSets

CONSTANTS
  Names,        \* global variables
  BuiltinNames, \* those with the name of a builtin float series, such as hl2
  Atoms,        \* operands that are no variables of the script
  Locals,       \* parameters and loop variables, for calls only
  Operators,    \* operators of expressions, and initializers of tuple declarations
  MaxGlobals    \* bound: global declarations

\* dayofweek and user_call: a name or a call whose type nobody infers (ta.hma, too).
AllAtoms  == {"five", "half", "true", "na", "close", "bar_index", "mintick",
              "dayofweek", "user_call"}
AllLocals == {"param", "int_param", "loop"}

\* ta: a call of ta.* that is float in Pine and here; round: math.floor and ceil too;
\* arith: +, - and *; max: math.min too; nz: fixnan too.
UnaryOps  == {"read", "history", "ta", "security", "int", "float", "round", "abs", "sqrt"}
BinaryOps == {"arith", "compare", "max", "nz", "if_const", "if_series"}

\* What a target of a tuple is unpacked from: ta.bb or ta.macd, also in request.security;
\* the two elements of ta.supertrend, and the second one in request.security; a list
\* in request.security; ta.kc; a call nobody infers (ta.dmi, a user function) or an
\* if structure, and such a call in request.security; a list.
TypedTuples == {"bb", "trend", "direction", "security_direction", "security_list"}
TupleOps    == TypedTuples \union {"kc", "call", "security_call", "list"}

ASSUME TypeFlowAssumption ==
  /\ Atoms \subseteq AllAtoms /\ Locals \subseteq AllLocals /\ BuiltinNames \subseteq Names
  /\ Operators \subseteq UnaryOps \union BinaryOps \union TupleOps
  /\ Names \intersect (AllAtoms \union AllLocals) = {}
  /\ \A x \in Names : x \in STRING
  /\ MaxGlobals \in Nat

VARIABLES
  phase,  \* "collect", "functions", "body", "done" or "refused"
  script, \* the global declarations, in order
  types,  \* type_info of each variable, and its type_metadata
  dtypes, \* global_series: the dtype of each generated series
  next,   \* the statement of the body to come
  pine    \* history: per variable its type in Pine, and the doubts

vars == <<phase, script, types, dtypes, next, pine>>

\* QUALIFIER_ORDER
Const  == 0
Input  == 1
Simple == 2
Series == 3

Bases == {"int", "float", "bool", "object", "tuple"}
Type  == [base : Bases, qual : Const .. Series]

T(b, q) == [base |-> b, qual |-> q]

Undeclared == [base |-> "none"]
Kinds      == {"var", "tuple", "input"}
Refs       == {"none", "float"} \* the declared type

\* Mutant: the last qualifier decides.
JoinLast(p, q) == q

\* join_qualifiers
Join(p, q) == IF p >= q THEN p ELSE q
-----------------------------------------------------------------------------
(* infer_type_info.                                                        *)
AtomType(a) ==
  CASE a = "five"      -> T("int", Const)
    [] a = "half"      -> T("float", Const)
    [] a = "true"      -> T("bool", Const)
    [] a = "na"        -> T("object", Const)
    [] a = "close"     -> T("float", Series)
    [] a = "bar_index" -> T("int", Series)
    [] a = "mintick"   -> T("float", Simple)
    [] a = "int_param" -> T("int", Simple)
    [] a = "loop"      -> T("int", Simple)
    [] a \in {"param", "dayofweek", "user_call"} -> T("object", Simple)

Declaration(x) == script[CHOOSE i \in 1 .. Len(script) : script[i].name = x]

\* A variable: an input is "input", the declared type stands in for that of na.
VariableType(x) ==
  LET d == Declaration(x)
  IN IF d.kind = "input" THEN T(types[x].base, Input)
     ELSE IF types[x].base = "object" /\ d.ref # "none" THEN T(d.ref, Series)
     ELSE types[x]

\* The names of builtins are taken before those of variables.
OperandType(a) ==
  IF a \in BuiltinNames THEN T("float", Series)
  ELSE IF a \in Names THEN VariableType(a)
  ELSE AtomType(a)

Numeric(s, t) == IF "float" \in {s.base, t.base} THEN "float" ELSE s.base

\* math.* and the casts.
CastType(op, t) ==
  CASE op \in {"round", "abs", "sqrt"} -> T("float", t.qual)
    [] op = "int"                      -> T("int", t.qual)
    [] op = "float"                    -> T("float", Series)

UnaryType(op, t) ==
  CASE op = "read"     -> t
    [] op = "history"  -> T(t.base, Series)
    [] op = "ta"       -> T("float", Series)
    [] op = "security" -> T(t.base, Series)
    [] OTHER           -> CastType(op, t)

BinaryType(op, s, t) ==
  CASE op = "arith"     -> T(Numeric(s, t), Join(s.qual, t.qual))
    [] op = "compare"   -> T("bool", Join(s.qual, t.qual))
    [] op = "if_const"  -> T(Numeric(s, t), Join(s.qual, t.qual))
    [] op = "if_series" -> T(Numeric(s, t), Join(Series, Join(s.qual, t.qual)))
    [] op = "max"       -> T(IF s.base = "int" /\ t.base = "int" THEN "int" ELSE "float",
                             Join(s.qual, t.qual))
    [] op = "nz"        -> T(IF s.base = "object" THEN "float" ELSE s.base, s.qual)

Inferred(e) ==
  IF e.op \in UnaryOps THEN UnaryType(e.op, OperandType(e.args[1]))
  ELSE BinaryType(e.op, OperandType(e.args[1]), OperandType(e.args[2]))

\* The initializer of a tuple declaration; t is the type of an element of a list.
TupleType(op, t) ==
  CASE op \in {"bb", "security_direction", "security_list"} -> T("tuple", Series)
    [] op = "list"                         -> T("tuple", t.qual)
    [] op = "kc"                           -> T("float", Series)
    [] op = "security_call"                -> T("object", Series)
    [] op \in {"trend", "direction", "call"} -> T("object", Simple)

TupleInferred(e) == TupleType(e.op, OperandType(e.args[1]))

\* TUPLE_RETURNING_BUILTINS, and float for every element of a list in request.security.
ElementBase(op) == IF op \in {"direction", "security_direction"} THEN "int" ELSE "float"

\* The type of a target after its statement.
TargetType(op, t) == IF op \in TypedTuples THEN T(ElementBase(op), Series) ELSE TupleType(op, t)
-----------------------------------------------------------------------------
(* Pine's own types, with the doubts about what was inferred.  An operand  *)
(* is unresolved when nothing infers its type: a name or a call nobody     *)
(* knows, a target unpacked from such a call or from a list, a variable    *)
(* that a builtin hides.  It is widened when an int is inferred as float.  *)
P(b, q, d) == [base |-> b, qual |-> q, doubts |-> d]

AtomInPine(a) ==
  CASE a = "dayofweek" -> P("int", Series, {"unresolved"})
    [] a = "user_call" -> P("float", Series, {"unresolved"})
    [] a \in {"param", "int_param"} -> P("int", Series, {"param"})
    [] a = "loop"      -> P("int", Series, {"loop"})
    [] OTHER           -> P(AtomType(a).base, AtomType(a).qual, {})

Doubted(u, doubts) == P(u.base, u.qual, u.doubts \union doubts)

OperandInPine(a) ==
  IF a \in BuiltinNames THEN Doubted(pine[a], {"unresolved"})
  ELSE IF a \in Names THEN pine[a]
  ELSE AtomInPine(a)

UnaryInPine(op, t) ==
  CASE op = "round" -> P("int", t.qual, t.doubts \union {"widened"})
    [] op = "abs"   -> IF t.base = "int" THEN P("int", t.qual, t.doubts \union {"widened"})
                                         ELSE P("float", t.qual, t.doubts)
    [] op = "float" -> P("float", t.qual, t.doubts \union {"series"})
    [] OTHER -> LET u == UnaryType(op, t) IN P(u.base, u.qual, t.doubts)

\* na takes the type of the other operand.
Promoted(s, t) ==
  IF s.base = "object" THEN t.base ELSE Numeric(s, t)

BinaryInPine(op, s, t) ==
  LET both == s.doubts \union t.doubts
      unclear == IF s.base = "object" \/ (op = "max" /\ t.base = "object") THEN {"na"} ELSE {}
      join == IF s.qual >= t.qual THEN s.qual ELSE t.qual
  IN CASE op = "compare"   -> P("bool", join, both)
       [] op = "max"       -> P(Promoted(s, t), join, both \union unclear)
       [] op = "nz"        -> P(Promoted(s, t), join, both \union unclear \union {"nz"})
       [] op = "if_series" -> P(Promoted(s, t), Series, both \union unclear)
       [] op \in {"arith", "if_const"} -> P(Promoted(s, t), join, both \union unclear)

InPine(e) ==
  IF e.op \in UnaryOps THEN UnaryInPine(e.op, OperandInPine(e.args[1]))
  ELSE BinaryInPine(e.op, OperandInPine(e.args[1]), OperandInPine(e.args[2]))

\* The element of a tuple; u is that of a list, or what the call returns.  A tuple is
\* one until it is unpacked, or late: not even known as a tuple.
TupleInPine(op, u) ==
  CASE op = "bb"                 -> P("float", Series, {"tuple"})
    [] op = "trend"              -> P("float", Series, {"tuple", "late"})
    [] op = "direction"          -> P("int", Series, {"tuple", "late"})
    [] op = "security_direction" -> P("int", Series, {"tuple"})
    [] op = "security_list"      ->
         P(u.base, Series, u.doubts \union {"tuple"} \union
             (CASE u.base = "int"  -> {"widened"}
                [] u.base = "bool" -> {"element"}
                [] OTHER           -> {}))
    [] op = "kc"                 -> P("float", Series, {})
    [] op = "list"               -> Doubted(u, {"tuple", "unresolved"})
    [] op \in {"call", "security_call"} -> Doubted(u, {"unresolved"})

Declared == {x \in Names : types[x] # Undeclared}

\* Pine: only numbers, or na, are operands of anything but read and history.
Usable(a) == OperandInPine(a).base \in {"int", "float", "object"}

Expressions ==
  LET operands == Atoms \union Declared
      numbers  == {a \in operands : Usable(a)}
      mixed    == {p \in numbers \X numbers :
                     {OperandInPine(p[1]).base, OperandInPine(p[2]).base} # {"object"}}
      Ops(S)   == Operators \intersect S
  IN {[op |-> o, args |-> <<a>>] : o \in Ops({"read", "history"}), a \in operands} \union
     {[op |-> o, args |-> <<a>>] : o \in Ops(UnaryOps \ {"read", "history"}),
                                   a \in numbers} \union
     {[op |-> o, args |-> p] : o \in Ops(BinaryOps), p \in mixed}

\* The builtins get the same arguments always; na has no type to be unpacked.
Tuples ==
  LET elements == {a \in Atoms \union Declared : OperandInPine(a).base \in {"int", "float", "bool"}}
      free     == {"security_list", "list", "call", "security_call"}
  IN {[op |-> o, args |-> <<a>>] : o \in Operators \intersect free, a \in elements} \union
     {[op |-> o, args |-> <<"close">>] : o \in Operators \intersect (TupleOps \ free)}
-----------------------------------------------------------------------------
(* The binder, for the two parameters of most ta.* signatures.  What is    *)
(* more than an operand reaches a call through a variable.                 *)
Parameters == {"source", "length"}

AcceptedTypes(p) == IF p = "length" THEN {"int"} ELSE {"int", "float"}
QualifierMax(p)  == IF p = "length" THEN Simple ELSE Series

Arguments == Atoms \union Locals \union Declared

Matches(p, t) == t.base \in AcceptedTypes(p)

\* An untyped parameter of a function may be a source or a length.
UntypedParameter(a) == a = "param"

\* Mutant: below the highest qualifier, not up to it.
BindsBelow(p, a) ==
  /\ Matches(p, OperandType(a)) \/ UntypedParameter(a)
  /\ OperandType(a).qual < QualifierMax(p)

Binds(p, a) ==
  /\ Matches(p, OperandType(a)) \/ UntypedParameter(a)
  /\ OperandType(a).qual <= QualifierMax(p)

\* The calls of ta functions in an expression itself.
Lowers(e) == e.op = "ta" => Binds("source", e.args[1])
-----------------------------------------------------------------------------
TypeFlowInit ==
  /\ phase = "collect" /\ script = << >> /\ next = 1
  /\ types = [x \in Names |-> Undeclared] /\ pine = [x \in Names |-> Undeclared]
  /\ dtypes = [x \in Names |-> "none"]

CanCollect == phase = "collect" /\ Len(script) < MaxGlobals

\* Mutant: a name that is declared is declared again.
NewNameAny(names) == CHOOSE x \in names : TRUE

\* The names come in any one order: nothing tells those of one kind apart.
NewName(names) == CHOOSE x \in names : x \notin Declared

Collected(d, t, dtype, actual) ==
  /\ script' = Append(script, d)
  /\ types' = [types EXCEPT ![d.name] = t]
  /\ dtypes' = [dtypes EXCEPT ![d.name] = dtype]
  /\ pine' = [pine EXCEPT ![d.name] = actual]
  /\ UNCHANGED <<phase, next>>

\* The type of the initializer is recorded; a reassignment below does not change it.
CollectVar(x, e, ref, reassigned) ==
  LET i == InPine(e)
      declared == IF ref # "none" /\ i.base \notin {ref, "object"} THEN {"declared"} ELSE {}
      later    == IF reassigned THEN {"reassigned"} ELSE {}
      of_na    == IF i.base = "object" THEN {"series"} ELSE {}
  IN /\ i.base = "object" => ref # "none"
     /\ ref # "none" => i.base \in {"int", "float", "object"}
     /\ Collected([name |-> x, kind |-> "var", init |-> e, ref |-> ref],
                  Inferred(e), Inferred(e).base,
                  P(IF ref = "none" THEN i.base ELSE ref,
                    IF reassigned THEN Series ELSE i.qual,
                    i.doubts \union declared \union of_na \union later))

\* One target of a tuple: what is inferred for the initializer is recorded for it.
CollectTuple(x, e) ==
  Collected([name |-> x, kind |-> "tuple", init |-> e, ref |-> "none"],
            TupleInferred(e), TupleInferred(e).base,
            TupleInPine(e.op, OperandInPine(e.args[1])))

CollectInput(x, base) ==
  Collected([ name |-> x, kind |-> "input", init |-> [op |-> "read", args |-> <<"five">>],
              ref |-> "none" ],
            T(base, Series), base, P(base, Input, {}))

EndCollect ==
  /\ phase = "collect" /\ phase' = "functions"
  /\ UNCHANGED <<script, types, dtypes, next, pine>>

EndFunctions ==
  /\ phase = "functions" /\ phase' = "body"
  /\ UNCHANGED <<script, types, dtypes, next, pine>>

\* A call in the body of a function or in a statement: refused, or it leaves no
\* trace in the types.
Refuse(p, a) ==
  /\ phase \in {"functions", "body"} /\ ~ Binds(p, a)
  /\ phase' = "refused"
  /\ UNCHANGED <<script, types, dtypes, next, pine>>

AtStatement(kind) == phase = "body" /\ next <= Len(script) /\ script[next].kind = kind
Statement == script[next]

\* Mutant: the type of the collection is kept.
ReinferredNot(x, e) == types

\* _resolve_or_declare_var of a variable that exists.
Reinferred(x, e) == [types EXCEPT ![x] = Inferred(e)]

EmitVar ==
  /\ AtStatement("var")
  /\ types' = Reinferred(Statement.name, Statement.init)
  /\ IF Lowers(Statement.init) THEN next' = next + 1 /\ UNCHANGED phase
                               ELSE phase' = "refused" /\ UNCHANGED next
  /\ UNCHANGED <<script, dtypes, pine>>

\* Mutant: the dtype is left as collected.
OverriddenNot(x, op) == dtypes

Overridden(x, op) ==
  IF op \in TypedTuples THEN [dtypes EXCEPT ![x] = ElementBase(op)] ELSE dtypes

\* Inferred again, and set to the type of the element where that is known.
EmitTuple ==
  /\ AtStatement("tuple")
  /\ LET x == Statement.name
         e == Statement.init
     IN /\ types' = [types EXCEPT ![x] = TargetType(e.op, OperandType(e.args[1]))]
        /\ dtypes' = Overridden(x, e.op)
  /\ next' = next + 1
  /\ UNCHANGED <<phase, script, pine>>

EmitInput ==
  /\ AtStatement("input")
  /\ next' = next + 1
  /\ UNCHANGED <<phase, script, types, dtypes, pine>>

EndBody ==
  /\ phase = "body" /\ next > Len(script)
  /\ phase' = "done"
  /\ UNCHANGED <<script, types, dtypes, next, pine>>

TypeFlowNext ==
  \/ \E names \in {Names \ BuiltinNames, BuiltinNames} :
       /\ CanCollect /\ ~ names \subseteq Declared
       /\ LET x == NewName(names)
          IN \/ \E e \in Expressions, ref \in Refs, r \in BOOLEAN : CollectVar(x, e, ref, r)
             \/ \E e \in Tuples : CollectTuple(x, e)
             \/ \E b \in {"int", "float"} : CollectInput(x, b)
  \/ EndCollect \/ EndFunctions
  \/ \E p \in Parameters, a \in Arguments : Refuse(p, a)
  \/ EmitVar \/ EmitTuple \/ EmitInput \/ EndBody

TypeFlowSpec == TypeFlowInit /\ [][TypeFlowNext]_vars
-----------------------------------------------------------------------------
Doubts == {"unresolved", "param", "loop", "reassigned", "declared", "nz", "na",
           "widened", "series", "tuple", "late", "element"}

\* The state is well formed: the variables collected are those of the script, each
\* but an input with a series that has a dtype.
TypeFlowTypeOK ==
  /\ phase \in {"collect", "functions", "body", "done", "refused"}
  /\ Len(script) <= MaxGlobals /\ next \in 1 .. Len(script) + 1
  /\ \A i \in 1 .. Len(script) :
       /\ script[i].name \in Declared /\ script[i].kind \in Kinds /\ script[i].ref \in Refs
       /\ \A j \in 1 .. Len(script) : script[i].name = script[j].name => i = j
  /\ \A x \in Names :
       IF x \in Declared
       THEN /\ types[x] \in Type /\ dtypes[x] \in Bases
            /\ pine[x] \in [base : Bases, qual : Const .. Series, doubts : SUBSET Doubts]
            /\ \E i \in 1 .. Len(script) : script[i].name = x
       ELSE dtypes[x] = "none" /\ pine[x] = Undeclared

Emitted == {x \in Names : \E i \in 1 .. next - 1 : script[i].name = x}

Allowed(p, t) == t.base \in AcceptedTypes(p) /\ t.qual <= QualifierMax(p)

\* A call that the binder lets through is one that Pine allows, in every phase,
\* unless the argument goes back to an operand whose type nobody infers, a parameter or
\* loop variable, a variable that is reassigned or declared with another type than its
\* initializer's, the replacement of nz, a bool unpacked from a list in
\* request.security, or (before its statement) to ta.supertrend.
AcceptsOnlyAllowed ==
  \A p \in Parameters, a \in Arguments :
    Binds(p, a) /\ ~ Allowed(p, OperandInPine(a)) =>
      LET doubts == OperandInPine(a).doubts
      IN \/ doubts \intersect
              {"unresolved", "param", "loop", "reassigned", "declared", "nz", "element"} # {}
         \/ "late" \in doubts /\ a \notin Emitted

\* A call that Pine allows is let through, unless an operand's type was lost: nobody
\* infers it, na on the left; for a length math.round, floor, ceil or abs, or float();
\* or, before its statement (so in the body of any function), what goes back to a
\* target of a tuple.
RefusesOnlyDisallowed ==
  \A p \in Parameters, a \in Arguments :
    ~ Binds(p, a) /\ Allowed(p, OperandInPine(a)) =>
      \/ OperandInPine(a).doubts \intersect {"unresolved", "na"} # {}
      \/ p = "length" /\ OperandInPine(a).doubts \intersect {"widened", "series"} # {}
      \/ "tuple" \in OperandInPine(a).doubts /\ a \notin Emitted

\* Once its statement is emitted, a variable is read with its type in Pine, also when
\* it is, or was computed from, a target of ta.bb, ta.macd or ta.supertrend, or a float
\* listed in request.security; the qualifier may be higher.  Nothing is said of what
\* goes back to ta.dmi, a user function or a list: those targets never get a type.
ReadsTrue ==
  \A x \in Emitted :
    OperandInPine(x).doubts \subseteq {"tuple", "late", "series"} =>
      /\ OperandType(x).base = OperandInPine(x).base
      /\ OperandType(x).qual >= OperandInPine(x).qual

\* A generated series has the dtype of its variable's type, except that what is
\* computed from a target of a tuple keeps the dtype of the collection.
SeriesTyped ==
  \A x \in Emitted :
    dtypes[x] # types[x].base => Declaration(x).kind = "var" /\ "tuple" \in pine[x].doubts
=============================================================================
