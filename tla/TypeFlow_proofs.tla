--------------------------- MODULE TypeFlow_proofs ---------------------------
(***************************************************************************)
(* Proofs about TypeFlow: what the binder lets through and refuses, and    *)
(* what the generated series are declared with, for every script, whatever *)
(* its length.                                                             *)
(***************************************************************************)
EXTENDS TypeFlow, TLAPS

(***************************************************************************)
(* Agreement of an inferred type with the type in Pine.  Which of the two  *)
(* may differ, and how, depends on the doubts; a settled type is one that  *)
(* no target of a tuple waits behind any more.                             *)
(***************************************************************************)
Quals    == Const .. Series
PineType == [base : Bases, qual : Quals, doubts : SUBSET Doubts]
Numbers  == {"int", "float"}

Trusted(ds) ==
  /\ "unresolved" \notin ds /\ "param" \notin ds /\ "loop" \notin ds
  /\ "reassigned" \notin ds /\ "declared" \notin ds /\ "nz" \notin ds
  /\ "element" \notin ds

Resolved(ds) == "unresolved" \notin ds /\ "na" \notin ds

\* In Pine na has no type but with a declaration, and nothing but a bool is inferred
\* as one.
SameShape(t, u) ==
  /\ u.base = "object" => t.base = "object"
  /\ t.base = "bool" => u.base = "bool"

\* Nothing is inferred that is lower, or another number, than the type in Pine: at
\* once, but for what goes back to ta.supertrend.
NotBelow(t, u, settled) ==
  Trusted(u.doubts) /\ ("late" \notin u.doubts \/ settled) =>
    /\ u.qual <= t.qual
    /\ t.qual <= Simple /\ u.base = "float" => t.base = "float"
    /\ t.base \in Numbers => u.base \in Numbers

\* Nor anything higher, once the type is settled.
NotAbove(t, u, settled) ==
  Resolved(u.doubts) =>
    /\ "series" \notin u.doubts => t.qual <= u.qual
    /\ t.base = "object" => u.base = "object" \/ u.qual = Series
    /\ "tuple" \notin u.doubts \/ settled =>
         /\ t.base = "object" => u.base = "object"
         /\ u.base \in Numbers => t.base \in Numbers
         /\ u.base = "int" /\ "widened" \notin u.doubts => t.base = "int"

SameBase(t, u, settled) ==
  settled /\ Trusted(u.doubts) /\ Resolved(u.doubts) /\ "widened" \notin u.doubts
  => t.base = u.base

Agrees(t, u, settled) ==
  /\ t \in Type /\ u \in PineType
  /\ SameShape(t, u) /\ SameBase(t, u, settled)
  /\ NotBelow(t, u, settled) /\ NotAbove(t, u, settled)

LEMMA Qualifiers == Const = 0 /\ Input = 1 /\ Simple = 2 /\ Series = 3 /\ Quals = 0 .. 3
BY DEF Const, Input, Simple, Series, Quals

LEMMA TypeFields ==
  /\ \A b \in Bases, q \in Quals : T(b, q) \in Type /\ T(b, q).base = b /\ T(b, q).qual = q
  /\ \A t \in Type : t.base \in Bases /\ t.qual \in Quals /\ t = T(t.base, t.qual)
  /\ \A b \in Bases, q \in Quals, ds \in SUBSET Doubts :
       /\ P(b, q, ds) \in PineType
       /\ P(b, q, ds).base = b /\ P(b, q, ds).qual = q /\ P(b, q, ds).doubts = ds
  /\ \A u \in PineType : u.base \in Bases /\ u.qual \in Quals /\ u.doubts \in SUBSET Doubts
BY DEF T, P, Type, PineType, Quals

\* Settled is the stronger agreement.
LEMMA AgreesWeaker ==
  ASSUME NEW t, NEW u, Agrees(t, u, TRUE), NEW settled \in BOOLEAN
  PROVE  Agrees(t, u, settled)
BY DEF Agrees, NotBelow, NotAbove, SameBase

\* The operands that are no variables.
AnyAtom == AllAtoms \union AllLocals

LEMMA AtomsAgree ==
  ASSUME NEW a \in AnyAtom, a # "param"
  PROVE  Agrees(AtomType(a), AtomInPine(a), TRUE)
<1> DEFINE t == AtomType(a)
           u == AtomInPine(a)
<1>1. t \in Type /\ u \in PineType
  <2>1. \E b \in Bases, q \in Quals : t = T(b, q)
    <3>1. {"int", "float", "bool", "object"} \subseteq Bases
          /\ {Const, Simple, Series} \subseteq Quals
      BY Qualifiers DEF Bases
    <3>2. t \in {T("int", Const), T("float", Const), T("bool", Const), T("object", Const),
                 T("float", Series), T("int", Series), T("float", Simple), T("int", Simple),
                 T("object", Simple)}
      BY DEF AnyAtom, AllAtoms, AllLocals, AtomType
    <3> HIDE DEF t
    <3> QED BY <3>1, <3>2
  <2>2. t \in Type /\ t.base \in Bases /\ t.qual \in Quals
    BY <2>1, TypeFields
  <2>3. \E b \in Bases, q \in Quals, ds \in SUBSET Doubts : u = P(b, q, ds)
    <3>1. CASE a \in {"dayofweek", "user_call", "int_param", "loop"}
      BY <3>1, Qualifiers DEF AtomInPine, Bases, Doubts
    <3>2. CASE a \notin {"dayofweek", "user_call", "int_param", "loop"}
      <4>1. u = P(t.base, t.qual, {})
        BY <3>2 DEF AtomInPine
      <4> HIDE DEF t, u
      <4> QED BY <2>2, <4>1
    <3> QED BY <3>1, <3>2
  <2> QED BY <2>2, <2>3, TypeFields
<1>2. CASE a \in {"five", "half", "true", "na", "close", "bar_index", "mintick"}
  <2>1. t.base = u.base /\ t.qual = u.qual /\ u.doubts = {}
    BY <1>2 DEF AtomType, AtomInPine, T, P
  <2> HIDE DEF t, u
  <2>2. u.qual <= t.qual /\ t.qual <= u.qual
    BY <1>1, <2>1, Qualifiers DEF Type
  <2>3. SameShape(t, u) /\ SameBase(t, u, TRUE)
    BY <2>1 DEF SameShape, SameBase
  <2>4. NotBelow(t, u, TRUE) /\ NotAbove(t, u, TRUE)
    BY <2>1, <2>2 DEF NotBelow, NotAbove, Numbers
  <2> QED BY <1>1, <2>3, <2>4 DEF Agrees, t, u
<1>3. CASE a \in {"dayofweek", "user_call"}
  <2>1. u.base \in {"int", "float"} /\ t.base = "object" /\ u.doubts = {"unresolved"}
    BY <1>3 DEF AtomType, AtomInPine, T, P
  <2> HIDE DEF t, u
  <2> QED BY <1>1, <2>1
          DEF Agrees, SameShape, SameBase, NotBelow, NotAbove, Trusted, Resolved, t, u
<1>4. CASE a \in {"int_param", "loop"}
  <2>1. /\ u.base = "int" /\ u.qual = Series /\ t.base = "int" /\ t.qual = Simple
        /\ u.doubts \in {{"param"}, {"loop"}}
    BY <1>4 DEF AtomType, AtomInPine, T, P
  <2>2. t.qual <= u.qual /\ ~ Trusted(u.doubts)
    BY <2>1, Qualifiers DEF Trusted
  <2> HIDE DEF t, u
  <2>3. t.base = "int" /\ u.base = "int" /\ t.qual <= u.qual /\ ~ Trusted(u.doubts)
    BY <2>1, <2>2
  <2>4. SameShape(t, u) /\ SameBase(t, u, TRUE)
    BY <2>3 DEF SameShape, SameBase
  <2>5. NotBelow(t, u, TRUE) /\ NotAbove(t, u, TRUE)
    BY <2>3 DEF NotBelow, NotAbove, Numbers
  <2>6. t \in Type /\ u \in PineType
    BY <1>1
  <2>7. Agrees(t, u, TRUE)
    BY <2>4, <2>5, <2>6 DEF Agrees
  <2> QED BY <2>7 DEF t, u
<1> QED BY <1>2, <1>3, <1>4 DEF AnyAtom, AllAtoms, AllLocals
-----------------------------------------------------------------------------
(***************************************************************************)
(* Every operator keeps the agreement of its operands.                     *)
(***************************************************************************)
LEMMA UnaryAgrees ==
  ASSUME NEW settled \in BOOLEAN, NEW t, NEW u, Agrees(t, u, settled),
         NEW op \in UnaryOps, op \in {"read", "history"} \/ u.base \in {"int", "float", "object"}
  PROVE  Agrees(UnaryType(op, t), UnaryInPine(op, u), settled)
<1> DEFINE r == UnaryType(op, t)
           v == UnaryInPine(op, u)
<1>1. /\ t.base \in Bases /\ t.qual \in 0 .. 3 /\ u.base \in Bases /\ u.qual \in 0 .. 3
      /\ u.doubts \in SUBSET Doubts /\ t \in Type /\ u \in PineType
  BY TypeFields, Qualifiers DEF Agrees
<1>2. {"int", "float", "bool", "object", "tuple"} \subseteq Bases /\ Series \in Quals
      /\ u.doubts \union {"widened"} \in SUBSET Doubts
      /\ u.doubts \union {"series"} \in SUBSET Doubts
  BY <1>1, Qualifiers DEF Bases, Doubts
<1>3. /\ op = "read" => r = t
      /\ op # "read" => r.base = (CASE op \in {"ta", "float", "round", "abs", "sqrt"} -> "float"
                                    [] op = "int" -> "int"
                                    [] OTHER -> t.base)
      /\ op \in {"history", "ta", "security", "float"} => r.qual = 3
      /\ op \in {"int", "round", "abs", "sqrt"} => r.qual = t.qual
      /\ r \in Type
  BY <1>1, <1>2, TypeFields, Qualifiers DEF UnaryOps, UnaryType, CastType
<1>4. /\ v.base = (CASE op \in {"ta", "float", "sqrt"} -> "float"
                     [] op \in {"int", "round"} -> "int"
                     [] op = "abs" -> IF u.base = "int" THEN "int" ELSE "float"
                     [] OTHER -> u.base)
      /\ op \in {"history", "ta", "security"} => v.qual = 3
      /\ op \in {"read", "int", "float", "round", "abs", "sqrt"} => v.qual = u.qual
      /\ v.doubts = (CASE op = "round" \/ (op = "abs" /\ u.base = "int") -> u.doubts \union {"widened"}
                       [] op = "float" -> u.doubts \union {"series"}
                       [] OTHER -> u.doubts)
      /\ v \in PineType
  BY <1>1, <1>2, TypeFields, Qualifiers DEF UnaryOps, UnaryInPine, UnaryType, CastType
<1> HIDE DEF r, v
<1>5. SameShape(t, u) /\ NotBelow(t, u, settled) /\ NotAbove(t, u, settled) /\ SameBase(t, u, settled)
  BY DEF Agrees
<1>6. SameShape(r, v)
  BY <1>3, <1>4, <1>5 DEF SameShape, UnaryOps
<1>7. NotBelow(r, v, settled)
  BY <1>1, <1>3, <1>4, <1>5, Qualifiers DEF NotBelow, Trusted, Numbers, UnaryOps, SameShape
<1>8. NotAbove(r, v, settled)
  BY <1>1, <1>3, <1>4, <1>5, Qualifiers DEF NotAbove, Resolved, Numbers, UnaryOps, SameShape
<1>9. SameBase(r, v, settled)
  BY <1>3, <1>4, <1>5 DEF SameBase, Trusted, Resolved, UnaryOps
<1> QED BY <1>3, <1>4, <1>6, <1>7, <1>8, <1>9 DEF Agrees, r, v

Number(u) == u.base \in {"int", "float", "object"}

LEMMA BinaryAgrees ==
  ASSUME NEW settled \in BOOLEAN,
         NEW s, NEW us, Agrees(s, us, settled), Number(us),
         NEW t, NEW ut, Agrees(t, ut, settled), Number(ut),
         ~ (us.base = "object" /\ ut.base = "object"),
         NEW op \in BinaryOps
  PROVE  Agrees(BinaryType(op, s, t), BinaryInPine(op, us, ut), settled)
<1> DEFINE r == BinaryType(op, s, t)
           v == BinaryInPine(op, us, ut)
           both == us.doubts \union ut.doubts
           unclear == IF us.base = "object" \/ (op = "max" /\ ut.base = "object") THEN {"na"} ELSE {}
<1>1. /\ s.base \in Bases /\ s.qual \in 0 .. 3 /\ us.base \in Bases /\ us.qual \in 0 .. 3
      /\ t.base \in Bases /\ t.qual \in 0 .. 3 /\ ut.base \in Bases /\ ut.qual \in 0 .. 3
      /\ us.doubts \in SUBSET Doubts /\ ut.doubts \in SUBSET Doubts
  BY TypeFields, Qualifiers DEF Agrees
<1>2. /\ {"int", "float", "bool"} \subseteq Bases /\ Series \in Quals
      /\ Numeric(s, t) \in Bases /\ Numeric(us, ut) \in Bases /\ Promoted(us, ut) \in Bases
      /\ both \in SUBSET Doubts /\ both \union unclear \in SUBSET Doubts
      /\ both \union unclear \union {"nz"} \in SUBSET Doubts
  BY <1>1, Qualifiers DEF Bases, Doubts, Numeric, Promoted
<1>3. /\ Join(s.qual, t.qual) \in Quals /\ Join(us.qual, ut.qual) \in Quals
      /\ Join(s.qual, t.qual) >= s.qual /\ Join(s.qual, t.qual) >= t.qual
      /\ Join(us.qual, ut.qual) >= us.qual /\ Join(us.qual, ut.qual) >= ut.qual
      /\ us.qual <= s.qual /\ ut.qual <= t.qual => Join(us.qual, ut.qual) <= Join(s.qual, t.qual)
      /\ s.qual <= us.qual /\ t.qual <= ut.qual => Join(s.qual, t.qual) <= Join(us.qual, ut.qual)
      /\ Join(Series, Join(s.qual, t.qual)) = 3
  BY <1>1, Qualifiers DEF Join
<1>4. /\ op = "compare" => r.base = "bool"
      /\ op \in {"arith", "if_const", "if_series"} => r.base = Numeric(s, t)
      /\ op = "max" => r.base = IF s.base = "int" /\ t.base = "int" THEN "int" ELSE "float"
      /\ op = "nz" => r.base = IF s.base = "object" THEN "float" ELSE s.base
      /\ op \in {"compare", "arith", "if_const", "max"} => r.qual = Join(s.qual, t.qual)
      /\ op = "if_series" => r.qual = 3
      /\ op = "nz" => r.qual = s.qual
      /\ r \in Type
  BY <1>1, <1>2, <1>3, TypeFields, Qualifiers DEF BinaryOps, BinaryType
<1>5. /\ op = "compare" => v.base = "bool" /\ v.doubts = both
      /\ op # "compare" => v.base = Promoted(us, ut)
      /\ op \in {"arith", "if_const", "if_series", "max"} => v.doubts = both \union unclear
      /\ op = "nz" => v.doubts = both \union unclear \union {"nz"}
      /\ op # "if_series" => v.qual = Join(us.qual, ut.qual)
      /\ op = "if_series" => v.qual = 3
      /\ v \in PineType
  BY <1>1, <1>2, <1>3, TypeFields, Qualifiers DEF BinaryOps, BinaryInPine, Join
<1> HIDE DEF r, v
<1>6. /\ SameShape(s, us) /\ NotBelow(s, us, settled) /\ NotAbove(s, us, settled) /\ SameBase(s, us, settled)
      /\ SameShape(t, ut) /\ NotBelow(t, ut, settled) /\ NotAbove(t, ut, settled) /\ SameBase(t, ut, settled)
  BY DEF Agrees
<1>7. SameShape(r, v)
  BY <1>4, <1>5, <1>6 DEF SameShape, BinaryOps, Number, Numeric, Promoted
<1>8. NotBelow(r, v, settled)
  BY <1>1, <1>3, <1>4, <1>5, <1>6, Qualifiers
     DEF NotBelow, Trusted, Numbers, BinaryOps, SameShape, Number, Numeric, Promoted
<1>9. NotAbove(r, v, settled)
  BY <1>1, <1>3, <1>4, <1>5, <1>6, Qualifiers
     DEF NotAbove, Resolved, Numbers, BinaryOps, SameShape, Number, Numeric, Promoted
<1>10. SameBase(r, v, settled)
  BY <1>4, <1>5, <1>6 DEF SameBase, Trusted, Resolved, BinaryOps, Number, Numeric, Promoted
<1> QED BY <1>4, <1>5, <1>7, <1>8, <1>9, <1>10 DEF Agrees, r, v
-----------------------------------------------------------------------------
(***************************************************************************)
(* What is known of a script and of the types of its variables: s, ty, dt, *)
(* k and pn stand for script, types, dtypes, next and pine.                *)
(***************************************************************************)
DeclType(d, t) ==
  IF d.kind = "input" THEN T(t.base, Input)
  ELSE IF t.base = "object" /\ d.ref # "none" THEN T(d.ref, Series)
  ELSE t

At(s, x) == CHOOSE i \in 1 .. Len(s) : s[i].name = x

TypeOf(s, ty, a) ==
  IF a \in BuiltinNames THEN T("float", Series)
  ELSE IF a \in Names THEN DeclType(s[At(s, a)], ty[a])
  ELSE AtomType(a)

PineOf(pn, a) ==
  IF a \in BuiltinNames THEN Doubted(pn[a], {"unresolved"})
  ELSE IF a \in Names THEN pn[a]
  ELSE AtomInPine(a)

ExprType(s, ty, e) ==
  IF e.op \in UnaryOps THEN UnaryType(e.op, TypeOf(s, ty, e.args[1]))
  ELSE BinaryType(e.op, TypeOf(s, ty, e.args[1]), TypeOf(s, ty, e.args[2]))

ExprPine(pn, e) ==
  IF e.op \in UnaryOps THEN UnaryInPine(e.op, PineOf(pn, e.args[1]))
  ELSE BinaryInPine(e.op, PineOf(pn, e.args[1]), PineOf(pn, e.args[2]))

\* What is recorded for a variable whose initializer is u in Pine.
Recorded(u, ref, reassigned) ==
  P(IF ref = "none" THEN u.base ELSE ref,
    IF reassigned THEN Series ELSE u.qual,
    u.doubts \union (IF ref # "none" /\ u.base \notin {ref, "object"} THEN {"declared"} ELSE {})
             \union (IF u.base = "object" THEN {"series"} ELSE {})
             \union (IF reassigned THEN {"reassigned"} ELSE {}))

Exprs == [op : UnaryOps \union BinaryOps \union TupleOps, args : Seq(Names \union AllAtoms)]
Decl  == [name : Names, kind : Kinds, init : Exprs, ref : Refs]

\* An operand of the declaration at i: an atom, or a variable declared before it.
IsOperand(s, i, a) ==
  \/ a \in AllAtoms
  \/ a \in Names /\ \E j \in 1 .. i - 1 : s[j].name = a

Formed(s, pn, i, e) ==
  /\ e.op \in UnaryOps \union BinaryOps
  /\ IsOperand(s, i, e.args[1])
  /\ e.op \in {"read", "history"} \/ Number(PineOf(pn, e.args[1]))
  /\ e.op \in BinaryOps =>
       /\ IsOperand(s, i, e.args[2]) /\ Number(PineOf(pn, e.args[2]))
       /\ ~ (PineOf(pn, e.args[1]).base = "object" /\ PineOf(pn, e.args[2]).base = "object")

InputGood(x, ty, dt, pn) ==
  \E b \in Numbers : ty[x] = T(b, Series) /\ dt[x] = b /\ pn[x] = P(b, Input, {})

Elements == {"int", "float", "bool"}

\* A target of a tuple, whose element has the type t here and u in Pine.
TupleGood(d, ty, dt, pn, settled) ==
  /\ d.ref = "none" /\ d.init.op \in TupleOps
  /\ \E t \in Type, u \in PineType :
       LET r == IF settled THEN TargetType(d.init.op, t) ELSE TupleType(d.init.op, t)
       IN /\ u.base \in Elements /\ pn[d.name] = TupleInPine(d.init.op, u)
          /\ ty[d.name] = r /\ dt[d.name] = r.base

VarGood(s, ty, dt, pn, i, settled) ==
  LET d == s[i]
      x == d.name
      u == ExprPine(pn, d.init)
  IN /\ Formed(s, pn, i, d.init)
     /\ \E r \in BOOLEAN : pn[x] = Recorded(u, d.ref, r)
     /\ u.base = "object" => d.ref # "none"
     /\ d.ref # "none" => Number(u)
     /\ Agrees(ty[x], u, settled) /\ dt[x] \in Bases
     /\ "tuple" \notin pn[x].doubts => ty[x] = ExprType(s, ty, d.init) /\ dt[x] = ty[x].base

Good(s, ty, dt, k, pn, i) ==
  /\ s[i].kind = "input" => InputGood(s[i].name, ty, dt, pn)
  /\ s[i].kind = "tuple" =>
       IsOperand(s, i, s[i].init.args[1]) /\ TupleGood(s[i], ty, dt, pn, i < k)
  /\ s[i].kind = "var"   => VarGood(s, ty, dt, pn, i, i < k)

IsName(s, x) == \E i \in 1 .. Len(s) : s[i].name = x

TypeTable  == [Names -> Type \union {Undeclared}]
DtypeTable == [Names -> Bases \union {"none"}]
PineTable  == [Names -> PineType \union {Undeclared}]

Flow(s, ty, dt, k, pn) ==
  /\ s \in Seq(Decl) /\ k \in 1 .. Len(s) + 1
  /\ \A i, j \in 1 .. Len(s) : s[i].name = s[j].name => i = j
  /\ ty \in TypeTable /\ dt \in DtypeTable /\ pn \in PineTable
  /\ \A x \in Names :
       ~ IsName(s, x) => ty[x] = Undeclared /\ dt[x] = "none" /\ pn[x] = Undeclared
  /\ \A i \in 1 .. Len(s) : Good(s, ty, dt, k, pn, i)

LEMMA AtName ==
  ASSUME NEW s, \A i, j \in 1 .. Len(s) : s[i].name = s[j].name => i = j,
         NEW i \in 1 .. Len(s)
  PROVE  At(s, s[i].name) = i
<1>1. \E j \in 1 .. Len(s) : s[j].name = s[i].name
  OBVIOUS
<1>2. At(s, s[i].name) \in 1 .. Len(s) /\ s[At(s, s[i].name)].name = s[i].name
  BY <1>1 DEF At
<1> QED BY <1>2

LEMMA DeclFields ==
  ASSUME NEW s \in Seq(Decl), NEW i \in 1 .. Len(s)
  PROVE  s[i].name \in Names /\ s[i].kind \in Kinds /\ s[i].ref \in Refs
<1>1. s[i] \in Decl
  <2> HIDE DEF Decl
  <2> QED OBVIOUS
<1> QED BY <1>1 DEF Decl

\* The declared type and the reassignments of a variable.
LEMMA RecordedAgrees ==
  ASSUME NEW settled \in BOOLEAN, NEW t, NEW u, Agrees(t, u, settled),
         NEW d, d.kind = "var", d.ref \in Refs, NEW r \in BOOLEAN,
         u.base = "object" => d.ref # "none", d.ref # "none" => Number(u)
  PROVE  Agrees(DeclType(d, t), Recorded(u, d.ref, r), settled)
<1> DEFINE w == DeclType(d, t)
           v == Recorded(u, d.ref, r)
           declared == IF d.ref # "none" /\ u.base \notin {d.ref, "object"} THEN {"declared"} ELSE {}
           of_na == IF u.base = "object" THEN {"series"} ELSE {}
           later == IF r THEN {"reassigned"} ELSE {}
<1>1. /\ t.base \in Bases /\ t.qual \in 0 .. 3 /\ u.base \in Bases /\ u.qual \in 0 .. 3
      /\ u.doubts \in SUBSET Doubts /\ t \in Type /\ u \in PineType
  BY TypeFields, Qualifiers DEF Agrees
<1>2. u.doubts \union declared \union of_na \union later \in SUBSET Doubts
  BY <1>1 DEF Doubts
<1>3. /\ d.ref = "none" \/ d.ref = "float"
      /\ "float" \in Bases /\ Series \in Quals /\ d.kind # "input"
  BY Qualifiers DEF Refs, Bases
<1>4. /\ w = IF t.base = "object" /\ d.ref # "none" THEN T(d.ref, Series) ELSE t
      /\ t.base = "object" /\ d.ref # "none" => w.base = "float" /\ w.qual = 3
      /\ w \in Type
  BY <1>1, <1>3, TypeFields, Qualifiers DEF DeclType
<1>5. /\ v.base = IF d.ref = "none" THEN u.base ELSE d.ref
      /\ v.qual = IF r THEN 3 ELSE u.qual
      /\ v.doubts = u.doubts \union declared \union of_na \union later
      /\ v \in PineType
  BY <1>1, <1>2, <1>3, TypeFields, Qualifiers DEF Recorded
<1> HIDE DEF w, v
<1>6. SameShape(t, u) /\ NotBelow(t, u, settled) /\ NotAbove(t, u, settled) /\ SameBase(t, u, settled)
  BY DEF Agrees
<1>7. SameShape(w, v)
  BY <1>3, <1>4, <1>5, <1>6 DEF SameShape, Number
<1>8. NotBelow(w, v, settled)
  BY <1>1, <1>3, <1>4, <1>5, <1>6, Qualifiers DEF NotBelow, Trusted, Numbers, SameShape, Number
<1>9. NotAbove(w, v, settled)
  BY <1>1, <1>3, <1>4, <1>5, <1>6, Qualifiers DEF NotAbove, Resolved, Numbers, SameShape, Number
<1>10. SameBase(w, v, settled)
  BY <1>3, <1>4, <1>5, <1>6 DEF SameBase, Trusted, Resolved, SameShape, Number
<1> QED BY <1>4, <1>5, <1>7, <1>8, <1>9, <1>10 DEF Agrees, w, v
-----------------------------------------------------------------------------
(***************************************************************************)
(* Variables, operands and expressions agree with Pine.                    *)
(***************************************************************************)
LEMMA InputAgrees ==
  ASSUME NEW b \in Numbers, NEW settled \in BOOLEAN
  PROVE  Agrees(T(b, Input), P(b, Input, {}), settled)
<1> DEFINE t == T(b, Input)
           u == P(b, Input, {})
<1>1. b \in Bases /\ Input \in Quals /\ {} \in SUBSET Doubts
  BY Qualifiers DEF Numbers, Bases
<1>2. /\ t \in Type /\ t.base = b /\ t.qual = 1
      /\ u \in PineType /\ u.base = b /\ u.qual = 1 /\ u.doubts = {}
  BY <1>1, TypeFields, Qualifiers
<1> HIDE DEF t, u
<1>3. SameShape(t, u) /\ NotBelow(t, u, settled) /\ NotAbove(t, u, settled) /\ SameBase(t, u, settled)
  BY <1>2 DEF SameShape, NotBelow, NotAbove, SameBase, Numbers
<1> QED BY <1>2, <1>3 DEF Agrees, t, u

\* What is known of the type of a tuple and of its element, by the initializer.
LEMMA TupleTypes ==
  ASSUME NEW t \in Type, NEW op \in TupleOps
  PROVE  /\ TupleType(op, t) \in Type /\ TargetType(op, t) \in Type
         /\ TupleType(op, t).base = (CASE op \in {"bb", "security_direction", "security_list", "list"}
                                          -> "tuple"
                                      [] op = "kc" -> "float"
                                      [] OTHER -> "object")
         /\ TupleType(op, t).qual = (CASE op = "list" -> t.qual
                                      [] op \in {"trend", "direction", "call"} -> 2
                                      [] OTHER -> 3)
         /\ op \in TypedTuples => /\ TargetType(op, t) = T(ElementBase(op), Series)
                                 /\ TargetType(op, t).base = ElementBase(op)
                                 /\ TargetType(op, t).qual = 3
         /\ op \notin TypedTuples => TargetType(op, t) = TupleType(op, t)
<1>1. /\ t.qual \in Quals /\ {Simple, Series} \subseteq Quals /\ Simple = 2 /\ Series = 3
      /\ {"tuple", "float", "object", "int"} \subseteq Bases
  BY TypeFields, Qualifiers DEF Bases
<1>2. \A b \in {"tuple", "float", "object", "int"}, q \in {t.qual, Simple, Series} :
        T(b, q) \in Type /\ T(b, q).base = b /\ T(b, q).qual = q
  BY <1>1, TypeFields
<1>3. TupleType(op, t) = T(CASE op \in {"bb", "security_direction", "security_list", "list"} -> "tuple"
                             [] op = "kc" -> "float"
                             [] OTHER -> "object",
                           CASE op = "list" -> t.qual
                             [] op \in {"trend", "direction", "call"} -> Simple
                             [] OTHER -> Series)
  BY DEF TupleType, TupleOps, TypedTuples
<1>4. ElementBase(op) \in {"int", "float"}
  BY DEF ElementBase
<1>5. TargetType(op, t) = IF op \in TypedTuples THEN T(ElementBase(op), Series) ELSE TupleType(op, t)
  BY DEF TargetType
<1> QED BY <1>1, <1>2, <1>3, <1>4, <1>5

LEMMA ElementInPine ==
  ASSUME NEW u \in PineType, u.base \in Elements, NEW op \in TupleOps
  PROVE  LET v == TupleInPine(op, u)
         IN /\ v \in PineType /\ v.base \in Elements
            /\ v.base = (CASE op \in {"bb", "trend", "kc"} -> "float"
                           [] op \in {"direction", "security_direction"} -> "int"
                           [] OTHER -> u.base)
            /\ op \in TypedTuples \union {"kc"} => v.qual = 3
            /\ op \in TypedTuples \union {"list"} => "tuple" \in v.doubts
            /\ op \in {"trend", "direction"} => "late" \in v.doubts
            /\ op \in {"list", "call", "security_call"} => "unresolved" \in v.doubts
            /\ op = "security_list" /\ u.base = "bool" => "element" \in v.doubts
            /\ op = "security_list" /\ u.base = "int" => "widened" \in v.doubts
<1> DEFINE v == TupleInPine(op, u)
           more == CASE u.base = "int" -> {"widened"} [] u.base = "bool" -> {"element"} [] OTHER -> {}
           ds == CASE op \in {"bb", "security_direction"} -> {"tuple"}
                   [] op \in {"trend", "direction"} -> {"tuple", "late"}
                   [] op = "security_list" -> u.doubts \union {"tuple"} \union more
                   [] op = "list" -> u.doubts \union {"tuple", "unresolved"}
                   [] op = "kc" -> {}
                   [] OTHER -> u.doubts \union {"unresolved"}
           b == CASE op \in {"bb", "trend", "kc"} -> "float"
                  [] op \in {"direction", "security_direction"} -> "int"
                  [] OTHER -> u.base
           q == IF op \in TypedTuples \union {"kc"} THEN Series ELSE u.qual
<1>1. /\ u.base \in Bases /\ u.qual \in Quals /\ u.doubts \in SUBSET Doubts
      /\ {"float", "int"} \subseteq Bases /\ Series \in Quals /\ Series = 3
  BY TypeFields, Qualifiers DEF Bases
<1>2. b \in Bases /\ b \in Elements /\ q \in Quals
  BY <1>1 DEF Elements
<1>3. more \in {{"widened"}, {"element"}, {}}
  OBVIOUS
<1>4. ds \in SUBSET Doubts
  <2> HIDE DEF more
  <2> QED BY <1>1, <1>3 DEF Doubts
<1>5. v = P(b, q, ds)
  BY DEF TupleInPine, Doubted, TupleOps, TypedTuples
<1>6. v \in PineType /\ v.base = b /\ v.qual = q /\ v.doubts = ds
  <2> HIDE DEF v, b, q, ds
  <2> QED BY <1>2, <1>4, <1>5, TypeFields
<1> HIDE DEF v
<1>7. /\ op \in TypedTuples \union {"kc"} => v.qual = 3
      /\ op \in TypedTuples \union {"list"} => "tuple" \in v.doubts
  BY <1>1, <1>6 DEF TypedTuples
<1>8. /\ op \in {"trend", "direction"} => "late" \in v.doubts
      /\ op \in {"list", "call", "security_call"} => "unresolved" \in v.doubts
      /\ op = "security_list" /\ u.base = "bool" => "element" \in v.doubts
      /\ op = "security_list" /\ u.base = "int" => "widened" \in v.doubts
  BY <1>6
<1> QED BY <1>2, <1>6, <1>7, <1>8 DEF v

\* A target agrees with its element: before its statement, and after it for good.
LEMMA TupleAgrees ==
  ASSUME NEW t \in Type, NEW u \in PineType, u.base \in Elements, NEW op \in TupleOps
  PROVE  /\ Agrees(TupleType(op, t), TupleInPine(op, u), FALSE)
         /\ Agrees(TargetType(op, t), TupleInPine(op, u), TRUE)
<1> DEFINE r == TupleType(op, t)
           w == TargetType(op, t)
           v == TupleInPine(op, u)
<1>1. /\ r \in Type /\ w \in Type /\ t.qual \in 0 .. 3
      /\ r.base = (CASE op \in {"bb", "security_direction", "security_list", "list"} -> "tuple"
                     [] op = "kc" -> "float"
                     [] OTHER -> "object")
      /\ r.qual = (CASE op = "list" -> t.qual
                     [] op \in {"trend", "direction", "call"} -> 2
                     [] OTHER -> 3)
      /\ op \in TypedTuples => w.base = ElementBase(op) /\ w.qual = 3
      /\ op \notin TypedTuples => w = r
  BY TupleTypes, TypeFields, Qualifiers
<1>2. /\ v \in PineType /\ v.base \in Elements
      /\ v.base = (CASE op \in {"bb", "trend", "kc"} -> "float"
                     [] op \in {"direction", "security_direction"} -> "int"
                     [] OTHER -> u.base)
      /\ op \in TypedTuples \union {"kc"} => v.qual = 3
      /\ op \in TypedTuples \union {"list"} => "tuple" \in v.doubts
      /\ op \in {"trend", "direction"} => "late" \in v.doubts
      /\ op \in {"list", "call", "security_call"} => "unresolved" \in v.doubts
      /\ op = "security_list" /\ u.base = "bool" => "element" \in v.doubts
      /\ op = "security_list" /\ u.base = "int" => "widened" \in v.doubts
  BY ElementInPine
<1> HIDE DEF r, w, v
<1>3. CASE op \in {"list", "call", "security_call"}
  <2>1. "unresolved" \in v.doubts /\ w = r /\ r.base \in {"tuple", "object"}
    BY <1>1, <1>2, <1>3 DEF TypedTuples
  <2>2. ~ Trusted(v.doubts) /\ ~ Resolved(v.doubts)
    BY <2>1 DEF Trusted, Resolved
  <2>3. SameShape(r, v)
    BY <1>2, <2>1 DEF SameShape, Elements
  <2>4. \A settled \in BOOLEAN :
          NotBelow(r, v, settled) /\ NotAbove(r, v, settled) /\ SameBase(r, v, settled)
    BY <2>2 DEF NotBelow, NotAbove, SameBase
  <2> QED BY <1>1, <1>2, <2>1, <2>3, <2>4 DEF Agrees, r, w, v
<1>4. CASE op = "kc"
  <2>1. w = r /\ r.base = "float" /\ r.qual = 3 /\ v.base = "float" /\ v.qual = 3
    BY <1>1, <1>2, <1>4 DEF TypedTuples
  <2>2. \A settled \in BOOLEAN :
          /\ SameShape(r, v) /\ SameBase(r, v, settled)
          /\ NotBelow(r, v, settled) /\ NotAbove(r, v, settled)
    BY <2>1, Qualifiers DEF SameShape, SameBase, NotBelow, NotAbove, Numbers
  <2> QED BY <1>1, <1>2, <2>1, <2>2 DEF Agrees, r, w, v
<1>5. CASE op \in TypedTuples
  <2>1. /\ v.qual = 3 /\ "tuple" \in v.doubts /\ w.base = ElementBase(op) /\ w.qual = 3
        /\ r.base \in {"tuple", "object"} /\ r.qual \in {2, 3}
        /\ r.qual = 3 \/ "late" \in v.doubts
    BY <1>1, <1>2, <1>5 DEF TypedTuples
  <2>2. SameShape(r, v) /\ SameBase(r, v, FALSE)
    BY <1>2, <2>1 DEF SameShape, SameBase, Elements
  <2>3. NotBelow(r, v, FALSE) /\ NotAbove(r, v, FALSE)
    BY <2>1, Qualifiers DEF NotBelow, NotAbove, Numbers
  <2>4. Trusted(v.doubts) /\ "widened" \notin v.doubts => w.base = v.base
    BY <1>2, <1>5, <2>1 DEF Trusted, ElementBase, TypedTuples, Elements
  <2>5. /\ w.base \in Numbers /\ v.base = "int" /\ "widened" \notin v.doubts => w.base = "int"
        /\ Trusted(v.doubts) => v.base \in Numbers
        /\ w.base \in Numbers
    BY <1>2, <1>5, <2>1 DEF Trusted, ElementBase, TypedTuples, Elements, Numbers
  <2>6. SameShape(w, v) /\ SameBase(w, v, TRUE)
    BY <1>2, <2>4, <2>5 DEF SameShape, SameBase, Elements, Numbers
  <2>7. NotBelow(w, v, TRUE) /\ NotAbove(w, v, TRUE)
    BY <1>2, <2>1, <2>5, Qualifiers DEF NotBelow, NotAbove, Numbers
  <2> QED BY <1>1, <1>2, <2>2, <2>3, <2>6, <2>7 DEF Agrees, r, w, v
<1> QED BY <1>3, <1>4, <1>5 DEF TupleOps

LEMMA VariableAgrees ==
  ASSUME NEW s, NEW ty, NEW dt, NEW k, NEW pn, Flow(s, ty, dt, k, pn), NEW i \in 1 .. Len(s)
  PROVE  Agrees(DeclType(s[i], ty[s[i].name]), pn[s[i].name], i < k)
<1> DEFINE d == s[i]
           x == s[i].name
           settled == i < k
<1>1. /\ d.name \in Names /\ d.kind \in Kinds /\ d.ref \in Refs /\ settled \in BOOLEAN
      /\ Good(s, ty, dt, k, pn, i)
  BY DeclFields DEF Flow
<1> HIDE DEF settled
<1>2. CASE d.kind = "input"
  <2>1. PICK b \in Numbers : ty[x] = T(b, Series) /\ pn[x] = P(b, Input, {})
    BY <1>1, <1>2 DEF Good, InputGood
  <2>2. T(b, Series).base = b
    BY DEF T
  <2>3. DeclType(d, ty[x]) = T(b, Input)
    BY <1>2, <2>1, <2>2 DEF DeclType
  <2> QED BY <1>1, <2>1, <2>3, InputAgrees DEF settled
<1>3. CASE d.kind = "tuple"
  <2> DEFINE op == d.init.op
  <2>1. /\ d.ref = "none" /\ op \in TupleOps
        /\ \E r \in Type, v \in PineType :
             /\ v.base \in Elements /\ pn[x] = TupleInPine(op, v)
             /\ ty[x] = IF settled THEN TargetType(op, r) ELSE TupleType(op, r)
    BY <1>1, <1>3 DEF Good, TupleGood, settled
  <2>2. DeclType(d, ty[x]) = ty[x]
    BY <1>3, <2>1 DEF DeclType
  <2> DEFINE t == DeclType(d, ty[x])
             u == pn[x]
  <2>3. Agrees(t, u, settled)
    <3>1. CASE settled
      <4>1. Agrees(t, u, TRUE)
        BY <2>1, <2>2, <3>1, TupleAgrees
      <4> HIDE DEF t, u
      <4> QED BY <1>1, <4>1, AgreesWeaker
    <3>2. CASE ~ settled
      <4>1. Agrees(t, u, FALSE)
        BY <2>1, <2>2, <3>2, TupleAgrees
      <4> HIDE DEF t, u
      <4> QED BY <1>1, <3>2, <4>1 DEF Agrees, NotBelow, NotAbove, SameBase
    <3> QED BY <3>1, <3>2
  <2> QED BY <2>3 DEF settled
<1>4. CASE d.kind = "var"
  <2> DEFINE u == ExprPine(pn, d.init)
             t == ty[x]
  <2>1. /\ \E r \in BOOLEAN : pn[x] = Recorded(u, d.ref, r)
        /\ u.base = "object" => d.ref # "none"
        /\ d.ref # "none" => Number(u)
        /\ Agrees(t, u, settled)
    BY <1>1, <1>4 DEF Good, VarGood, settled
  <2> HIDE DEF u, t
  <2>2. PICK r \in BOOLEAN : pn[x] = Recorded(u, d.ref, r)
    BY <2>1
  <2>3. Agrees(DeclType(d, t), Recorded(u, d.ref, r), settled)
    BY <1>1, <1>4, <2>1, RecordedAgrees
  <2> QED BY <2>2, <2>3 DEF t, settled
<1> QED BY <1>1, <1>2, <1>3, <1>4 DEF Kinds

\* A variable is not na in Pine, whatever it is initialized with.
LEMMA VariableNotNa ==
  ASSUME NEW s, NEW ty, NEW dt, NEW k, NEW pn, Flow(s, ty, dt, k, pn), NEW i \in 1 .. Len(s)
  PROVE  pn[s[i].name].base # "object"
<1> DEFINE x == s[i].name
<1>1. Good(s, ty, dt, k, pn, i) /\ s[i].kind \in Kinds /\ s[i].ref \in Refs
  BY DeclFields DEF Flow
<1>2. CASE s[i].kind = "input"
  <2>1. PICK b \in Numbers : pn[x] = P(b, Input, {})
    BY <1>1, <1>2 DEF Good, InputGood
  <2> QED BY <2>1 DEF P, Numbers
<1>3. CASE s[i].kind = "tuple"
  <2>1. PICK v \in PineType : v.base \in Elements /\ pn[x] = TupleInPine(s[i].init.op, v)
                             /\ s[i].init.op \in TupleOps
    BY <1>1, <1>3 DEF Good, TupleGood
  <2> QED BY <2>1, ElementInPine DEF Elements
<1>4. CASE s[i].kind = "var"
  <2> DEFINE u == ExprPine(pn, s[i].init)
  <2>1. /\ \E r \in BOOLEAN : pn[x] = Recorded(u, s[i].ref, r)
        /\ u.base = "object" => s[i].ref # "none"
    BY <1>1, <1>4 DEF Good, VarGood
  <2> HIDE DEF u
  <2>2. pn[x].base = IF s[i].ref = "none" THEN u.base ELSE s[i].ref
    BY <2>1 DEF Recorded, P
  <2> QED BY <1>1, <2>1, <2>2 DEF Refs
<1> QED BY <1>1, <1>2, <1>3, <1>4 DEF Kinds

\* What the name of a builtin is read as agrees with anything: it is doubted.
LEMMA HiddenAgrees ==
  ASSUME NEW u \in PineType, u.base # "object", NEW settled \in BOOLEAN
  PROVE  Agrees(T("float", Series), Doubted(u, {"unresolved"}), settled)
<1> DEFINE t == T("float", Series)
           v == Doubted(u, {"unresolved"})
<1>1. /\ u.base \in Bases /\ u.qual \in Quals /\ u.doubts \union {"unresolved"} \in SUBSET Doubts
      /\ "float" \in Bases /\ Series \in Quals
  BY TypeFields, Qualifiers DEF Bases, Doubts
<1>2. /\ t \in Type /\ t.base = "float"
      /\ v \in PineType /\ v.base = u.base /\ "unresolved" \in v.doubts
  BY <1>1, TypeFields DEF Doubted
<1> HIDE DEF t, v
<1>3. ~ Trusted(v.doubts) /\ ~ Resolved(v.doubts)
  BY <1>2 DEF Trusted, Resolved
<1>4. SameShape(t, v) /\ SameBase(t, v, settled) /\ NotBelow(t, v, settled) /\ NotAbove(t, v, settled)
  BY <1>2, <1>3 DEF SameShape, SameBase, NotBelow, NotAbove
<1> QED BY <1>2, <1>4 DEF Agrees, t, v

LEMMA OperandAgrees ==
  ASSUME NEW s, NEW ty, NEW dt, NEW k, NEW pn, Flow(s, ty, dt, k, pn),
         NEW i \in 1 .. Len(s) + 1, NEW settled \in BOOLEAN, settled => i <= k,
         NEW a, IsOperand(s, i, a)
  PROVE  Agrees(TypeOf(s, ty, a), PineOf(pn, a), settled)
<1>1. /\ \A p, q \in 1 .. Len(s) : s[p].name = s[q].name => p = q
      /\ Len(s) \in Nat /\ k \in Nat
  BY DEF Flow
<1>2. CASE a \in BuiltinNames
  <2>1. PICK j \in 1 .. Len(s) : s[j].name = a
    BY <1>1, <1>2, TypeFlowAssumption DEF IsOperand
  <2>2. pn[a] \in PineType /\ pn[a].base # "object"
    BY <2>1, VariableAgrees, VariableNotNa DEF Agrees
  <2> QED BY <1>2, <2>2, HiddenAgrees DEF TypeOf, PineOf
<1>3. CASE a \in Names /\ a \notin BuiltinNames
  <2>1. PICK j \in 1 .. i - 1 : s[j].name = a
    BY <1>3, TypeFlowAssumption DEF IsOperand
  <2>2. j \in 1 .. Len(s) /\ (settled => j < k)
    BY <1>1
  <2>3. At(s, a) = j
    BY <1>1, <2>1, <2>2, AtName
  <2> DEFINE t == DeclType(s[j], ty[a])
             u == pn[a]
             before == j < k
  <2>4. Agrees(t, u, before)
    BY <2>1, <2>2, VariableAgrees
  <2>5. TypeOf(s, ty, a) = t /\ PineOf(pn, a) = u
    BY <1>3, <2>3 DEF TypeOf, PineOf
  <2>6. settled => before
    BY <2>2
  <2> HIDE DEF t, u, before
  <2>7. Agrees(t, u, settled)
    BY <2>4, <2>6 DEF Agrees, NotBelow, NotAbove, SameBase
  <2> QED BY <2>5, <2>7
<1>4. CASE a \notin Names
  <2>1. a \in AnyAtom /\ a # "param" /\ a \notin BuiltinNames
    BY <1>4, TypeFlowAssumption DEF IsOperand, AnyAtom, AllAtoms
  <2>2. Agrees(AtomType(a), AtomInPine(a), settled)
    BY <2>1, AtomsAgree, AgreesWeaker
  <2> QED BY <1>4, <2>1, <2>2 DEF TypeOf, PineOf
<1> QED BY <1>2, <1>3, <1>4

LEMMA ExprAgrees ==
  ASSUME NEW s, NEW ty, NEW dt, NEW k, NEW pn, Flow(s, ty, dt, k, pn),
         NEW i \in 1 .. Len(s) + 1, NEW settled \in BOOLEAN, settled => i <= k,
         NEW e, Formed(s, pn, i, e)
  PROVE  Agrees(ExprType(s, ty, e), ExprPine(pn, e), settled)
<1> DEFINE a == e.args[1]
           b == e.args[2]
<1>1. IsOperand(s, i, a) /\ (e.op \in BinaryOps => IsOperand(s, i, b))
  BY DEF Formed
<1>2. Agrees(TypeOf(s, ty, a), PineOf(pn, a), settled)
  BY <1>1, OperandAgrees
<1>3. CASE e.op \in UnaryOps
  <2>1. e.op \in {"read", "history"} \/ PineOf(pn, a).base \in {"int", "float", "object"}
    BY DEF Formed, Number
  <2>2. Agrees(UnaryType(e.op, TypeOf(s, ty, a)), UnaryInPine(e.op, PineOf(pn, a)), settled)
    BY <1>2, <1>3, <2>1, UnaryAgrees
  <2> QED BY <1>3, <2>2 DEF ExprType, ExprPine
<1>4. CASE e.op \notin UnaryOps
  <2>1. e.op \in BinaryOps
    BY <1>4 DEF Formed
  <2>2. Agrees(TypeOf(s, ty, b), PineOf(pn, b), settled)
    BY <1>1, <2>1, OperandAgrees
  <2>3. /\ Number(PineOf(pn, a)) /\ Number(PineOf(pn, b))
        /\ ~ (PineOf(pn, a).base = "object" /\ PineOf(pn, b).base = "object")
    BY <1>4, <2>1 DEF Formed, UnaryOps
  <2>4. Agrees(BinaryType(e.op, TypeOf(s, ty, a), TypeOf(s, ty, b)),
               BinaryInPine(e.op, PineOf(pn, a), PineOf(pn, b)), settled)
    BY <1>2, <2>1, <2>2, <2>3, BinaryAgrees
  <2> QED BY <1>4, <2>4 DEF ExprType, ExprPine
<1> QED BY <1>3, <1>4
-----------------------------------------------------------------------------
(***************************************************************************)
(* What a step changes of what is inferred.  No type changes that a tuple  *)
(* is not behind, so the dtype that was collected stays the right one.     *)
(***************************************************************************)
TupleFree(u) == "tuple" \notin u.doubts

LEMMA DoubtsStay ==
  /\ \A op \in UnaryOps : \A u : TupleFree(UnaryInPine(op, u)) => TupleFree(u)
  /\ \A op \in BinaryOps : \A u, v : TupleFree(BinaryInPine(op, u, v)) => TupleFree(u) /\ TupleFree(v)
  /\ \A u, ref, r : TupleFree(Recorded(u, ref, r)) => TupleFree(u)
<1>1. \A op \in UnaryOps : \A u : TupleFree(UnaryInPine(op, u)) => TupleFree(u)
  BY DEF TupleFree, UnaryInPine, P
<1>2. \A op \in BinaryOps : \A u, v : TupleFree(BinaryInPine(op, u, v)) => TupleFree(u) /\ TupleFree(v)
  BY DEF TupleFree, BinaryInPine, BinaryOps, P
<1>3. \A u, ref, r : TupleFree(Recorded(u, ref, r)) => TupleFree(u)
  BY DEF TupleFree, Recorded, P
<1> QED BY <1>1, <1>2, <1>3

\* The type of one variable changes, behind which there is a tuple.
LEMMA ExprStays ==
  ASSUME NEW s, NEW ty, NEW ty2, NEW pn,
         NEW x \in Names, \A y \in Names : y # x => ty2[y] = ty[y],
         ~ TupleFree(pn[x]),
         NEW i, NEW e, Formed(s, pn, i, e), TupleFree(ExprPine(pn, e))
  PROVE  ExprType(s, ty2, e) = ExprType(s, ty, e)
<1> DEFINE a == e.args[1]
           b == e.args[2]
<1>1. ASSUME NEW c, TupleFree(PineOf(pn, c)) PROVE TypeOf(s, ty2, c) = TypeOf(s, ty, c)
  <2>1. c \in BuiltinNames \/ c # x
    BY <1>1 DEF PineOf
  <2>2. c \in Names \ BuiltinNames => ty2[c] = ty[c]
    BY <2>1
  <2> QED BY <2>2 DEF TypeOf
<1>2. CASE e.op \in UnaryOps
  <2>1. TupleFree(PineOf(pn, a))
    BY <1>2, DoubtsStay DEF ExprPine
  <2>2. TypeOf(s, ty2, a) = TypeOf(s, ty, a)
    BY <1>1, <2>1
  <2> QED BY <1>2, <2>2 DEF ExprType
<1>3. CASE e.op \notin UnaryOps
  <2>1. TupleFree(PineOf(pn, a)) /\ TupleFree(PineOf(pn, b))
    BY <1>3, DoubtsStay DEF ExprPine, Formed
  <2>2. TypeOf(s, ty2, a) = TypeOf(s, ty, a) /\ TypeOf(s, ty2, b) = TypeOf(s, ty, b)
    BY <1>1, <2>1
  <2> QED BY <1>3, <2>2 DEF ExprType
<1> QED BY <1>2, <1>3

\* s2 is Append(s, d).
Extends(s2, s, d) ==
  Len(s2) = Len(s) + 1 /\ s2[Len(s) + 1] = d /\ \A j \in 1 .. Len(s) : s2[j] = s[j]

\* A declaration is appended: nothing changes for those before it.
LEMMA ScriptGrows ==
  ASSUME NEW s, NEW ty, NEW dt, NEW k, NEW pn, Flow(s, ty, dt, k, pn),
         NEW d \in Decl, ~ IsName(s, d.name),
         NEW s2 \in Seq(Decl), Extends(s2, s, d),
         NEW ty2, NEW pn2,
         \A y \in Names : y # d.name => ty2[y] = ty[y] /\ pn2[y] = pn[y],
         NEW i \in 1 .. Len(s) + 1
  PROVE  \A e : Formed(s, pn, i, e) =>
           /\ Formed(s2, pn2, i, e)
           /\ ExprType(s2, ty2, e) = ExprType(s, ty, e)
           /\ ExprPine(pn2, e) = ExprPine(pn, e)
<1>1. /\ s \in Seq(Decl) /\ Len(s) \in Nat
      /\ \A p, q \in 1 .. Len(s) : s[p].name = s[q].name => p = q
  BY DEF Flow
<1>2. /\ Len(s2) = Len(s) + 1 /\ s2[Len(s) + 1] = d /\ \A j \in 1 .. Len(s) : s2[j] = s[j]
  BY DEF Extends
<1>3. \A j \in 1 .. Len(s) : s[j].name # d.name
  BY DEF IsName
<1>4. \A p, q \in 1 .. Len(s2) : s2[p].name = s2[q].name => p = q
  BY <1>1, <1>2, <1>3
<1>5. ASSUME NEW a, IsOperand(s, i, a)
      PROVE  /\ IsOperand(s2, i, a)
             /\ TypeOf(s2, ty2, a) = TypeOf(s, ty, a) /\ PineOf(pn2, a) = PineOf(pn, a)
  <2>1. CASE a \in Names
    <3>1. PICK j \in 1 .. i - 1 : s[j].name = a
      BY <1>5, <2>1, TypeFlowAssumption DEF IsOperand
    <3>2. j \in 1 .. Len(s) /\ j \in 1 .. Len(s2)
      BY <1>1, <1>2
    <3>3. s2[j] = s[j] /\ s2[j].name = a /\ a # d.name
      BY <1>2, <1>3, <3>1, <3>2
    <3>4. At(s, a) = j
      BY <1>1, <3>1, <3>2, AtName
    <3>5. At(s2, a) = j
      BY <1>4, <3>2, <3>3, AtName
    <3>6. ty2[a] = ty[a] /\ pn2[a] = pn[a]
      BY <2>1, <3>3
    <3>7. IsOperand(s2, i, a)
      BY <2>1, <3>3 DEF IsOperand
    <3> QED BY <2>1, <3>3, <3>4, <3>5, <3>6, <3>7 DEF TypeOf, PineOf
  <2>2. CASE a \notin Names
    <3>1. IsOperand(s2, i, a) /\ a \notin BuiltinNames
      BY <1>5, <2>2, TypeFlowAssumption DEF IsOperand
    <3>2. TypeOf(s2, ty2, a) = TypeOf(s, ty, a)
      BY <2>2, <3>1 DEF TypeOf
    <3>3. PineOf(pn2, a) = PineOf(pn, a)
      BY <2>2, <3>1 DEF PineOf
    <3> QED BY <3>1, <3>2, <3>3
  <2> QED BY <2>1, <2>2
<1>6. ASSUME NEW e, Formed(s, pn, i, e)
      PROVE  /\ Formed(s2, pn2, i, e)
             /\ ExprType(s2, ty2, e) = ExprType(s, ty, e)
             /\ ExprPine(pn2, e) = ExprPine(pn, e)
  <2> DEFINE a == e.args[1]
             b == e.args[2]
  <2>1. /\ IsOperand(s, i, a) /\ IsOperand(s2, i, a)
        /\ TypeOf(s2, ty2, a) = TypeOf(s, ty, a) /\ PineOf(pn2, a) = PineOf(pn, a)
    BY <1>5, <1>6 DEF Formed
  <2>2. e.op \in BinaryOps =>
          /\ IsOperand(s, i, b) /\ IsOperand(s2, i, b)
          /\ TypeOf(s2, ty2, b) = TypeOf(s, ty, b) /\ PineOf(pn2, b) = PineOf(pn, b)
    BY <1>5, <1>6 DEF Formed
  <2>3. e.op \in UnaryOps \/ e.op \in BinaryOps
    BY <1>6 DEF Formed
  <2>4. Formed(s2, pn2, i, e)
    BY <1>6, <2>1, <2>2 DEF Formed
  <2>5. ExprType(s2, ty2, e) = ExprType(s, ty, e) /\ ExprPine(pn2, e) = ExprPine(pn, e)
    BY <2>1, <2>2, <2>3 DEF ExprType, ExprPine
  <2> QED BY <2>4, <2>5
<1> QED BY <1>6

\* A variable of the script has a type, a dtype and a type in Pine; no other has.
LEMMA NamesTyped ==
  ASSUME NEW s, NEW ty, NEW dt, NEW k, NEW pn, Flow(s, ty, dt, k, pn), NEW i \in 1 .. Len(s)
  PROVE  ty[s[i].name] \in Type /\ dt[s[i].name] \in Bases /\ pn[s[i].name] \in PineType
<1>1. Good(s, ty, dt, k, pn, i) /\ s[i].kind \in Kinds /\ s[i].ref \in Refs
  BY DeclFields DEF Flow
<1>2. pn[s[i].name] \in PineType
  BY VariableAgrees DEF Agrees
<1>3. CASE s[i].kind = "input"
  <2>1. PICK b \in Numbers : ty[s[i].name] = T(b, Series) /\ dt[s[i].name] = b
    BY <1>1, <1>3 DEF Good, InputGood
  <2>2. b \in Bases /\ Series \in Quals
    BY Qualifiers DEF Numbers, Bases
  <2> QED BY <1>2, <2>1, <2>2, TypeFields
<1>4. CASE s[i].kind = "tuple"
  <2> DEFINE t == ty[s[i].name]
  <2>1. PICK r \in Type : /\ s[i].init.op \in TupleOps /\ dt[s[i].name] = t.base
                         /\ t \in {TupleType(s[i].init.op, r), TargetType(s[i].init.op, r)}
    BY <1>1, <1>4 DEF Good, TupleGood
  <2>2. t \in Type
    BY <2>1, TupleTypes
  <2>3. t.base \in Bases
    BY <2>2, TypeFields
  <2> QED BY <1>2, <2>1, <2>2, <2>3
<1>5. CASE s[i].kind = "var"
  BY <1>1, <1>2, <1>5 DEF Good, VarGood, Agrees
<1> QED BY <1>1, <1>3, <1>4, <1>5 DEF Kinds

LEMMA UndeclaredNoType ==
  ASSUME NEW t \in Type
  PROVE  t # Undeclared
BY DEF Type, Undeclared, Bases

LEMMA NamedIsDeclared ==
  ASSUME NEW s, NEW ty, NEW dt, NEW k, NEW pn, Flow(s, ty, dt, k, pn), NEW x \in Names
  PROVE  IsName(s, x) <=> ty[x] # Undeclared
<1>1. IsName(s, x) => ty[x] # Undeclared
  BY NamesTyped, UndeclaredNoType DEF IsName
<1>2. ~ IsName(s, x) => ty[x] = Undeclared
  BY DEF Flow
<1> QED BY <1>1, <1>2

LEMMA FlowGrows ==
  ASSUME NEW s, NEW ty, NEW dt, NEW k, NEW pn, Flow(s, ty, dt, k, pn),
         NEW d \in Decl, ~ IsName(s, d.name),
         NEW s2 \in Seq(Decl), Extends(s2, s, d),
         NEW ty2 \in TypeTable, NEW dt2 \in DtypeTable, NEW pn2 \in PineTable,
         \A y \in Names : y # d.name => ty2[y] = ty[y] /\ dt2[y] = dt[y] /\ pn2[y] = pn[y],
         Good(s2, ty2, dt2, k, pn2, Len(s) + 1)
  PROVE  Flow(s2, ty2, dt2, k, pn2)
<1>1. /\ s \in Seq(Decl) /\ Len(s) \in Nat /\ k \in 1 .. Len(s) + 1
      /\ \A p, q \in 1 .. Len(s) : s[p].name = s[q].name => p = q
      /\ \A x \in Names :
           ~ IsName(s, x) => ty[x] = Undeclared /\ dt[x] = "none" /\ pn[x] = Undeclared
  BY DEF Flow
<1>2. /\ Len(s2) = Len(s) + 1 /\ s2[Len(s) + 1] = d
      /\ \A j \in 1 .. Len(s) : s2[j] = s[j]
  BY DEF Extends
<1>3. d.name \in Names /\ \A j \in 1 .. Len(s) : s[j].name # d.name /\ s[j].name \in Names
  BY <1>1, DeclFields DEF IsName, Decl
<1>4. \A p, q \in 1 .. Len(s2) : s2[p].name = s2[q].name => p = q
  BY <1>1, <1>2, <1>3
<1>6. ASSUME NEW x \in Names, ~ IsName(s2, x)
      PROVE  ty2[x] = Undeclared /\ dt2[x] = "none" /\ pn2[x] = Undeclared
  <2>1. x # d.name
    <3>1. Len(s) + 1 \in 1 .. Len(s2)
      BY <1>1, <1>2
    <3> QED BY <1>2, <1>6, <3>1 DEF IsName
  <2>2. ~ IsName(s, x)
    BY <1>1, <1>2, <1>6 DEF IsName
  <2> QED BY <1>1, <2>1, <2>2
<1>7. ASSUME NEW i \in 1 .. Len(s) PROVE Good(s2, ty2, dt2, k, pn2, i)
  <2>1. Good(s, ty, dt, k, pn, i) /\ s2[i] = s[i]
    BY <1>2 DEF Flow
  <2> DEFINE x == s[i].name
  <2>2. ty2[x] = ty[x] /\ dt2[x] = dt[x] /\ pn2[x] = pn[x]
    BY <1>3
  <2>3. ASSUME s[i].kind = "input" PROVE InputGood(x, ty2, dt2, pn2)
    BY <2>1, <2>2, <2>3 DEF Good, InputGood
  <2>4. ASSUME s[i].kind = "tuple"
        PROVE  IsOperand(s2, i, s[i].init.args[1]) /\ TupleGood(s[i], ty2, dt2, pn2, i < k)
    <3>1. IsOperand(s, i, s[i].init.args[1]) /\ TupleGood(s[i], ty, dt, pn, i < k)
      BY <2>1, <2>4 DEF Good
    <3>2. \A j \in 1 .. i - 1 : s2[j] = s[j]
      BY <1>1, <1>2
    <3>3. IsOperand(s2, i, s[i].init.args[1])
      BY <3>1, <3>2 DEF IsOperand
    <3> QED BY <2>2, <3>1, <3>3 DEF TupleGood
  <2>5. ASSUME s[i].kind = "var" PROVE VarGood(s2, ty2, dt2, pn2, i, i < k)
    <3> DEFINE e == s[i].init
    <3>1. VarGood(s, ty, dt, pn, i, i < k)
      BY <2>1, <2>5 DEF Good
    <3>2. /\ Formed(s2, pn2, i, e)
          /\ ExprType(s2, ty2, e) = ExprType(s, ty, e)
          /\ ExprPine(pn2, e) = ExprPine(pn, e)
      <4>1. i \in 1 .. Len(s) + 1
        BY <1>1
      <4>2. Formed(s, pn, i, e)
        BY <3>1 DEF VarGood
      <4>3. \A y \in Names : y # d.name => ty2[y] = ty[y] /\ pn2[y] = pn[y]
        OBVIOUS
      <4> HIDE DEF e
      <4> QED BY <4>1, <4>2, <4>3, ScriptGrows
    <3> QED BY <2>1, <2>2, <3>1, <3>2 DEF VarGood
  <2> QED BY <2>1, <2>3, <2>4, <2>5 DEF Good
<1>8. ASSUME NEW i \in 1 .. Len(s2) PROVE Good(s2, ty2, dt2, k, pn2, i)
  <2>1. i \in 1 .. Len(s) \/ i = Len(s) + 1
    BY <1>1, <1>2
  <2> QED BY <1>7, <2>1
<1>9. k \in 1 .. Len(s2) + 1
  BY <1>1, <1>2
<1> QED BY <1>2, <1>4, <1>6, <1>8, <1>9 DEF Flow

\* A statement is emitted: the type and the dtype of its variable are set again,
\* to what they were unless there is a tuple behind it.
LEMMA FlowEmits ==
  ASSUME NEW s, NEW ty, NEW dt, NEW k, NEW pn, Flow(s, ty, dt, k, pn), k <= Len(s),
         NEW ty2 \in TypeTable, NEW dt2 \in DtypeTable,
         \A y \in Names : y # s[k].name => ty2[y] = ty[y] /\ dt2[y] = dt[y],
         TupleFree(pn[s[k].name]) =>
           ty2[s[k].name] = ty[s[k].name] /\ dt2[s[k].name] = dt[s[k].name],
         NEW k2 \in {k, k + 1},
         Good(s, ty2, dt2, k2, pn, k)
  PROVE  Flow(s, ty2, dt2, k2, pn)
<1> DEFINE x == s[k].name
<1>1. /\ s \in Seq(Decl) /\ Len(s) \in Nat /\ k \in 1 .. Len(s) + 1
      /\ \A p, q \in 1 .. Len(s) : s[p].name = s[q].name => p = q
      /\ \A y \in Names :
           ~ IsName(s, y) => ty[y] = Undeclared /\ dt[y] = "none" /\ pn[y] = Undeclared
  BY DEF Flow
<1>2. k \in 1 .. Len(s) /\ k2 \in 1 .. Len(s) + 1
  BY <1>1
<1>3. x \in Names
  BY <1>1, <1>2, DeclFields
<1>5. ASSUME NEW y \in Names, ~ IsName(s, y)
      PROVE  ty2[y] = Undeclared /\ dt2[y] = "none" /\ pn[y] = Undeclared
  <2>1. y # x
    BY <1>2, <1>5 DEF IsName
  <2> QED BY <1>1, <1>5, <2>1
<1>6. TupleFree(pn[x]) => \A y \in Names : ty2[y] = ty[y]
  OBVIOUS
<1>7. ASSUME NEW i \in 1 .. Len(s), i # k PROVE Good(s, ty2, dt2, k2, pn, i)
  <2> DEFINE y == s[i].name
  <2>1. Good(s, ty, dt, k, pn, i) /\ y \in Names /\ y # x
    BY <1>1, <1>2, <1>7, DeclFields DEF Flow
  <2>2. ty2[y] = ty[y] /\ dt2[y] = dt[y]
    BY <2>1
  <2>3. i < k2 <=> i < k
    BY <1>1, <1>7
  <2>4. ASSUME s[i].kind = "input" PROVE InputGood(y, ty2, dt2, pn)
    BY <2>1, <2>2, <2>4 DEF Good, InputGood
  <2>5. ASSUME s[i].kind = "tuple"
        PROVE  IsOperand(s, i, s[i].init.args[1]) /\ TupleGood(s[i], ty2, dt2, pn, i < k2)
    <3>1. IsOperand(s, i, s[i].init.args[1]) /\ TupleGood(s[i], ty, dt, pn, i < k)
      BY <2>1, <2>5 DEF Good
    <3> DEFINE before == i < k
               after == i < k2
    <3>2. after <=> before
      BY <2>3
    <3> HIDE DEF before, after
    <3>3. TupleGood(s[i], ty2, dt2, pn, after)
      BY <2>2, <3>1, <3>2 DEF TupleGood, before
    <3> QED BY <3>1, <3>3 DEF after
  <2>6. ASSUME s[i].kind = "var" PROVE VarGood(s, ty2, dt2, pn, i, i < k2)
    <3> DEFINE e == s[i].init
               before == i < k
               after == i < k2
    <3>1. VarGood(s, ty, dt, pn, i, before)
      BY <2>1, <2>6 DEF Good
    <3>2. TupleFree(pn[y]) => ExprType(s, ty2, e) = ExprType(s, ty, e)
      <4>1. CASE TupleFree(pn[x])
        BY <1>6, <4>1 DEF ExprType, TypeOf
      <4>2. CASE ~ TupleFree(pn[x])
        <5>1. TupleFree(pn[y]) => TupleFree(ExprPine(pn, e))
          BY <3>1, DoubtsStay DEF VarGood
        <5>2. Formed(s, pn, i, e)
          BY <3>1 DEF VarGood
        <5>3. \A z \in Names : z # x => ty2[z] = ty[z]
          OBVIOUS
        <5> HIDE DEF e, x
        <5> QED BY <1>3, <4>2, <5>1, <5>2, <5>3, ExprStays
      <4> QED BY <4>1, <4>2
    <3>3. (after <=> before) /\ after \in BOOLEAN /\ before \in BOOLEAN
      BY <2>3
    <3> HIDE DEF before, after
    <3>4. Agrees(ty[y], ExprPine(pn, e), before) => Agrees(ty[y], ExprPine(pn, e), after)
      BY <3>3
    <3>5. VarGood(s, ty2, dt2, pn, i, after)
      BY <2>2, <3>1, <3>2, <3>4 DEF VarGood, TupleFree
    <3> QED BY <3>5 DEF after
  <2> QED BY <2>4, <2>5, <2>6 DEF Good
<1>8. \A i \in 1 .. Len(s) : Good(s, ty2, dt2, k2, pn, i)
  BY <1>7
<1> QED BY <1>1, <1>2, <1>5, <1>8 DEF Flow
-----------------------------------------------------------------------------
(***************************************************************************)
(* The inductive invariant.                                                *)
(***************************************************************************)
FlowInv ==
  /\ Flow(script, types, dtypes, next, pine)
  /\ phase \in {"collect", "functions", "body", "done", "refused"}
  /\ Len(script) <= MaxGlobals

LEMMA DeclaredNamed ==
  ASSUME FlowInv
  PROVE  /\ \A x \in Names : x \in Declared <=> IsName(script, x)
         /\ \A x \in Declared : pine[x] \in PineType
<1>1. \A x \in Names : x \in Declared <=> IsName(script, x)
  BY NamedIsDeclared DEF FlowInv, Declared
<1>2. \A i \in 1 .. Len(script) : pine[script[i].name] \in PineType
  BY NamesTyped DEF FlowInv
<1>3. Declared \subseteq Names
  BY DEF Declared
<1> QED BY <1>1, <1>2, <1>3 DEF IsName

\* The operands as the lemmas above see them.
LEMMA Operands ==
  /\ \A a : OperandType(a) = TypeOf(script, types, a)
  /\ \A a : OperandInPine(a) = PineOf(pine, a)
BY DEF OperandType, OperandInPine, TypeOf, PineOf, VariableType, Declaration, DeclType, At

LEMMA ExpressionFormed ==
  ASSUME FlowInv, NEW e \in Expressions
  PROVE  /\ e \in Exprs /\ Formed(script, pine, Len(script) + 1, e)
         /\ Inferred(e) = ExprType(script, types, e) /\ InPine(e) = ExprPine(pine, e)
<1> DEFINE operands == Atoms \union Declared
           i == Len(script) + 1
<1>1. Len(script) \in Nat /\ Declared \subseteq Names /\ Atoms \subseteq AllAtoms
      /\ BuiltinNames \subseteq Names
  BY TypeFlowAssumption DEF FlowInv, Flow, Declared
<1>2. \A a \in operands : IsOperand(script, i, a)
  <2> SUFFICES ASSUME NEW a \in Declared PROVE IsOperand(script, i, a)
    BY <1>1 DEF IsOperand
  <2>1. a \in Names /\ IsName(script, a)
    BY <1>1, DeclaredNamed
  <2> QED BY <1>1, <2>1 DEF IsName, IsOperand
<1>3. \A a : Usable(a) <=> Number(PineOf(pine, a))
  BY Operands DEF Usable, Number
<1>4. Inferred(e) = ExprType(script, types, e) /\ InPine(e) = ExprPine(pine, e)
  BY Operands DEF Inferred, InPine, ExprType, ExprPine
<1>5. CASE \E o \in {"read", "history"}, a \in operands : e = [op |-> o, args |-> <<a>>]
  <2>1. PICK o \in {"read", "history"}, a \in operands : e = [op |-> o, args |-> <<a>>]
    BY <1>5
  <2>2. e.op = o /\ e.args[1] = a
    BY <2>1
  <2>3. o \in UnaryOps /\ o \notin BinaryOps
    BY DEF UnaryOps, BinaryOps
  <2>4. <<a>> \in Seq(Names \union AllAtoms)
    BY <1>1
  <2>5. e \in Exprs
    BY <2>1, <2>3, <2>4 DEF Exprs
  <2>6. Formed(script, pine, i, e)
    BY <1>2, <2>2, <2>3 DEF Formed
  <2> QED BY <1>4, <2>5, <2>6
<1>6. CASE \E o \in UnaryOps, a \in operands : Usable(a) /\ e = [op |-> o, args |-> <<a>>]
  <2>1. PICK o \in UnaryOps, a \in operands : Usable(a) /\ e = [op |-> o, args |-> <<a>>]
    BY <1>6
  <2>2. e.op = o /\ e.args[1] = a
    BY <2>1
  <2>3. o \notin BinaryOps
    BY DEF UnaryOps, BinaryOps
  <2>4. <<a>> \in Seq(Names \union AllAtoms)
    BY <1>1
  <2>5. e \in Exprs
    BY <2>1, <2>4 DEF Exprs
  <2>6. Formed(script, pine, i, e)
    BY <1>2, <1>3, <2>1, <2>2, <2>3 DEF Formed
  <2> QED BY <1>4, <2>5, <2>6
<1>7. CASE \E o \in BinaryOps, a \in operands, b \in operands :
             /\ Usable(a) /\ Usable(b) /\ e = [op |-> o, args |-> <<a, b>>]
             /\ {OperandInPine(a).base, OperandInPine(b).base} # {"object"}
  <2>1. PICK o \in BinaryOps, a \in operands, b \in operands :
             /\ Usable(a) /\ Usable(b) /\ e = [op |-> o, args |-> <<a, b>>]
             /\ {OperandInPine(a).base, OperandInPine(b).base} # {"object"}
    BY <1>7
  <2>2. e.op = o /\ e.args[1] = a /\ e.args[2] = b
    BY <2>1
  <2>3. ~ (PineOf(pine, a).base = "object" /\ PineOf(pine, b).base = "object")
    BY <2>1, Operands
  <2>4. <<a, b>> \in Seq(Names \union AllAtoms)
    BY <1>1
  <2>5. e \in Exprs
    BY <2>1, <2>4 DEF Exprs
  <2>6. Formed(script, pine, i, e)
    BY <1>2, <1>3, <2>1, <2>2, <2>3 DEF Formed
  <2> QED BY <1>4, <2>5, <2>6
<1>8. \/ \E o \in {"read", "history"}, a \in operands : e = [op |-> o, args |-> <<a>>]
      \/ \E o \in UnaryOps, a \in operands : Usable(a) /\ e = [op |-> o, args |-> <<a>>]
      \/ \E o \in BinaryOps, a \in operands, b \in operands :
             /\ Usable(a) /\ Usable(b) /\ e = [op |-> o, args |-> <<a, b>>]
             /\ {OperandInPine(a).base, OperandInPine(b).base} # {"object"}
  BY DEF Expressions
<1> QED BY <1>5, <1>6, <1>7, <1>8

LEMMA TupleFormed ==
  ASSUME FlowInv, NEW e \in Tuples
  PROVE  /\ e \in Exprs /\ e.op \in TupleOps
         /\ IsOperand(script, Len(script) + 1, e.args[1])
         /\ OperandType(e.args[1]) \in Type
         /\ OperandInPine(e.args[1]) \in PineType /\ OperandInPine(e.args[1]).base \in Elements
<1>1. Flow(script, types, dtypes, next, pine) /\ Len(script) \in Nat
      /\ Declared \subseteq Names /\ Atoms \subseteq AllAtoms /\ "close" \in AllAtoms
  BY TypeFlowAssumption DEF FlowInv, Flow, Declared, AllAtoms
<1>2. PICK a \in Atoms \union Declared \union {"close"}, o \in TupleOps :
        e = [op |-> o, args |-> <<a>>] /\ (a # "close" => OperandInPine(a).base \in Elements)
  BY DEF Tuples, TupleOps, TypedTuples, Elements
<1>3. e.op = o /\ e.args[1] = a /\ e \in Exprs
  <2>1. <<a>> \in Seq(Names \union AllAtoms)
    BY <1>1
  <2> QED BY <1>2, <2>1 DEF Exprs
<1>4. IsOperand(script, Len(script) + 1, a)
  <2>1. a \in Declared => IsName(script, a)
    BY <1>1, DeclaredNamed
  <2> QED BY <1>1, <1>2, <2>1 DEF IsName, IsOperand
<1>5. Agrees(OperandType(a), OperandInPine(a), FALSE)
  <2>1. Len(script) + 1 \in 1 .. Len(script) + 1
    BY <1>1
  <2>2. Agrees(TypeOf(script, types, a), PineOf(pine, a), FALSE)
    BY <1>1, <1>4, <2>1, OperandAgrees
  <2> QED BY <2>2, Operands
<1>6. OperandInPine("close").base = "float"
  <2>1. "close" \notin Names /\ "close" \notin BuiltinNames
    BY <1>1, TypeFlowAssumption
  <2> QED BY <2>1 DEF OperandInPine, AtomInPine, AtomType, T, P
<1> QED BY <1>2, <1>3, <1>4, <1>5, <1>6 DEF Agrees, Elements

LEMMA NewNameFree ==
  ASSUME FlowInv, NEW names \in SUBSET Names, ~ names \subseteq Declared
  PROVE  NewName(names) \in Names /\ ~ IsName(script, NewName(names))
<1>1. \E x \in names : x \notin Declared
  OBVIOUS
<1>2. NewName(names) \in names /\ NewName(names) \notin Declared
  BY <1>1 DEF NewName
<1> QED BY <1>2, DeclaredNamed
-----------------------------------------------------------------------------
(***************************************************************************)
(* Each action preserves it: first the collection.                         *)
(***************************************************************************)
LEMMA Collects ==
  ASSUME FlowInv, CanCollect, NEW d \in Decl, ~ IsName(script, d.name),
         NEW t \in Type, NEW b \in Bases, NEW u \in PineType, Collected(d, t, b, u),
         Good(script', types', dtypes', next, pine', Len(script) + 1)
  PROVE  FlowInv'
<1>1. /\ script \in Seq(Decl) /\ Len(script) \in Nat
      /\ types \in TypeTable /\ dtypes \in DtypeTable /\ pine \in PineTable
      /\ Flow(script, types, dtypes, next, pine) /\ Len(script) < MaxGlobals /\ MaxGlobals \in Nat
  BY TypeFlowAssumption DEF FlowInv, Flow, CanCollect
<1>2. script' = Append(script, d)
  BY DEF Collected
<1>3. script' \in Seq(Decl) /\ Extends(script', script, d) /\ Len(script') = Len(script) + 1
  <2> HIDE DEF Decl
  <2> QED BY <1>1, <1>2 DEF Extends
<1>4. d.name \in Names
  BY DEF Decl
<1>5. /\ types' \in TypeTable /\ dtypes' \in DtypeTable /\ pine' \in PineTable
      /\ \A y \in Names :
           y # d.name => types'[y] = types[y] /\ dtypes'[y] = dtypes[y] /\ pine'[y] = pine[y]
  BY <1>1, <1>4 DEF Collected, TypeTable, DtypeTable, PineTable
<1>6. Flow(script', types', dtypes', next, pine')
  BY <1>1, <1>3, <1>5, FlowGrows
<1>7. phase' = phase /\ next' = next
  BY DEF Collected
<1>8. Len(script') <= MaxGlobals
  BY <1>1, <1>3
<1> QED BY <1>6, <1>7, <1>8 DEF FlowInv

\* The new variable has what Collected gave it.
LEMMA CollectedValues ==
  ASSUME FlowInv, NEW d \in Decl, NEW t, NEW b, NEW u, Collected(d, t, b, u)
  PROVE  /\ script'[Len(script) + 1] = d
         /\ types'[d.name] = t /\ dtypes'[d.name] = b /\ pine'[d.name] = u
<1>1. script \in Seq(Decl) /\ types \in TypeTable /\ dtypes \in DtypeTable /\ pine \in PineTable
  BY DEF FlowInv, Flow
<1>2. script'[Len(script) + 1] = d
  <2> HIDE DEF Decl
  <2> QED BY <1>1 DEF Collected
<1>3. d.name \in Names
  BY DEF Decl
<1> QED BY <1>1, <1>2, <1>3 DEF Collected, TypeTable, DtypeTable, PineTable

LEMMA CollectTupleFlows ==
  ASSUME FlowInv, CanCollect, NEW x \in Names, ~ IsName(script, x),
         NEW e \in Tuples, CollectTuple(x, e)
  PROVE  FlowInv'
<1> DEFINE d == [name |-> x, kind |-> "tuple", init |-> e, ref |-> "none"]
           r == OperandType(e.args[1])
           v == OperandInPine(e.args[1])
           t == TupleType(e.op, r)
           u == TupleInPine(e.op, v)
<1>1. /\ e \in Exprs /\ e.op \in TupleOps /\ IsOperand(script, Len(script) + 1, e.args[1])
      /\ r \in Type /\ v \in PineType /\ v.base \in Elements
  BY TupleFormed
<1>2. /\ d \in Decl /\ d.name = x /\ d.kind = "tuple" /\ d.ref = "none" /\ d.init = e
  BY <1>1 DEF Decl, Kinds, Refs
<1>3. Collected(d, t, t.base, u)
  BY DEF CollectTuple, TupleInferred
<1> HIDE DEF d, r, v
<1>4. t \in Type /\ t.base \in Bases /\ u \in PineType
  BY <1>1, TupleTypes, ElementInPine, TypeFields
<1> HIDE DEF t, u
<1>5. script'[Len(script) + 1] = d /\ types'[x] = t /\ dtypes'[x] = t.base /\ pine'[x] = u
  BY <1>2, <1>3, CollectedValues
<1>6. ~ (Len(script) + 1 < next)
  BY DEF FlowInv, Flow
<1>7. TupleGood(d, types', dtypes', pine', Len(script) + 1 < next)
  BY <1>1, <1>2, <1>5, <1>6 DEF TupleGood, t, u
<1>8. IsOperand(script', Len(script) + 1, e.args[1])
  <2>1. script \in Seq(Decl) /\ script' = Append(script, d)
    BY <1>3 DEF FlowInv, Flow, Collected
  <2>2. \A j \in 1 .. Len(script) : script'[j] = script[j]
    <3> HIDE DEF Decl
    <3> QED BY <2>1
  <2>3. Len(script) \in Nat
    BY DEF FlowInv, Flow
  <2> QED BY <1>1, <2>2, <2>3 DEF IsOperand
<1>9. Good(script', types', dtypes', next, pine', Len(script) + 1)
  BY <1>2, <1>5, <1>7, <1>8 DEF Good
<1> QED BY <1>2, <1>3, <1>4, <1>9, Collects

LEMMA CollectInputFlows ==
  ASSUME FlowInv, CanCollect, NEW x \in Names, ~ IsName(script, x),
         NEW b \in Numbers, CollectInput(x, b)
  PROVE  FlowInv'
<1> DEFINE i == [op |-> "read", args |-> <<"five">>]
           d == [name |-> x, kind |-> "input", init |-> i, ref |-> "none"]
           t == T(b, Series)
           u == P(b, Input, {})
<1>1. d \in Decl /\ d.name = x /\ d.kind = "input"
  <2>1. i \in Exprs
    BY DEF Exprs, UnaryOps, AllAtoms
  <2> HIDE DEF i
  <2> QED BY <2>1 DEF Decl, Kinds, Refs
<1>2. t \in Type /\ b \in Bases /\ u \in PineType
  <2>1. b \in Bases /\ {Series, Input} \subseteq Quals /\ {} \in SUBSET Doubts
    BY Qualifiers DEF Bases, Numbers
  <2> QED BY <2>1, TypeFields
<1>3. Collected(d, t, b, u)
  BY DEF CollectInput
<1> HIDE DEF d
<1>4. script'[Len(script) + 1] = d /\ types'[x] = t /\ dtypes'[x] = b /\ pine'[x] = u
  BY <1>1, <1>3, CollectedValues
<1>5. InputGood(x, types', dtypes', pine')
  BY <1>4 DEF InputGood
<1>6. Good(script', types', dtypes', next, pine', Len(script) + 1)
  BY <1>1, <1>4, <1>5 DEF Good
<1> QED BY <1>1, <1>2, <1>3, <1>6, Collects

LEMMA CollectVarFlows ==
  ASSUME FlowInv, CanCollect, NEW x \in Names, ~ IsName(script, x),
         NEW e \in Expressions, NEW ref \in Refs, NEW r \in BOOLEAN, CollectVar(x, e, ref, r)
  PROVE  FlowInv'
<1> DEFINE d == [name |-> x, kind |-> "var", init |-> e, ref |-> ref]
           n == Len(script) + 1
           t == ExprType(script, types, e)
           u == ExprPine(pine, e)
           w == Recorded(u, ref, r)
<1>1. /\ e \in Exprs /\ Formed(script, pine, n, e) /\ Inferred(e) = t /\ InPine(e) = u
  BY ExpressionFormed
<1>2. d \in Decl /\ d.name = x /\ d.kind = "var" /\ d.init = e /\ d.ref = ref
  BY <1>1 DEF Decl, Kinds
<1>3. Flow(script, types, dtypes, next, pine) /\ next \in 1 .. n /\ Len(script) \in Nat
  BY DEF FlowInv, Flow
<1>4. Agrees(t, u, FALSE)
  <2>1. n \in 1 .. Len(script) + 1 /\ Formed(script, pine, n, e)
    BY <1>1, <1>3
  <2> HIDE DEF n
  <2> QED BY <1>3, <2>1, ExprAgrees
<1>5. /\ u.base = "object" => ref # "none"
      /\ ref # "none" => Number(u)
      /\ Collected(d, t, t.base, w)
  BY <1>1 DEF CollectVar, Recorded, Number
<1>6. t \in Type /\ t.base \in Bases
  BY <1>4, TypeFields DEF Agrees
<1>7. w \in PineType
  <2> HIDE DEF t, u, w
  <2>1. Agrees(DeclType(d, t), Recorded(u, d.ref, r), FALSE)
    BY <1>2, <1>4, <1>5, RecordedAgrees
  <2> QED BY <1>2, <2>1 DEF Agrees, w
<1> HIDE DEF d, t, u, w
<1>8. script'[n] = d /\ types'[x] = t /\ dtypes'[x] = t.base /\ pine'[x] = w
  BY <1>2, <1>5, CollectedValues
<1>9. script' \in Seq(Decl) /\ Extends(script', script, d)
  <2>1. script \in Seq(Decl) /\ script' = Append(script, d)
    BY <1>3, <1>5 DEF Collected, Flow
  <2> HIDE DEF Decl
  <2> QED BY <1>2, <2>1 DEF Extends
<1>10. \A y \in Names : y # d.name => types'[y] = types[y] /\ pine'[y] = pine[y]
  BY <1>3, <1>5 DEF Collected, Flow, TypeTable, PineTable
<1>11. /\ Formed(script', pine', n, e)
       /\ ExprType(script', types', e) = t
       /\ ExprPine(pine', e) = u
  <2>1. n \in 1 .. Len(script) + 1
    BY <1>3
  <2> QED BY <1>1, <1>2, <1>3, <1>9, <1>10, <2>1, ScriptGrows DEF t, u
<1>12. ~ (n < next)
  BY <1>3
<1>13. VarGood(script', types', dtypes', pine', n, FALSE)
  BY <1>2, <1>4, <1>5, <1>6, <1>8, <1>11 DEF VarGood, w
<1>14. Good(script', types', dtypes', next, pine', n)
  <2> DEFINE before == n < next
  <2>1. before = FALSE
    BY <1>12
  <2> HIDE DEF before
  <2>2. VarGood(script', types', dtypes', pine', n, before)
    BY <1>13, <2>1
  <2> QED BY <1>2, <1>8, <2>2 DEF Good, before
<1> QED BY <1>2, <1>5, <1>6, <1>7, <1>14, Collects
-----------------------------------------------------------------------------
(***************************************************************************)
(* The statements of the body, and the other actions.                      *)
(***************************************************************************)
LEMMA StatementGood ==
  ASSUME FlowInv, NEW kind, AtStatement(kind)
  PROVE  /\ next \in 1 .. Len(script) /\ Statement = script[next] /\ Statement.kind = kind
         /\ Statement.name \in Names
         /\ Flow(script, types, dtypes, next, pine)
         /\ Good(script, types, dtypes, next, pine, next)
<1>1. Flow(script, types, dtypes, next, pine)
  BY DEF FlowInv
<1>2. next \in 1 .. Len(script) /\ script \in Seq(Decl) /\ Good(script, types, dtypes, next, pine, next)
  BY <1>1 DEF AtStatement, Flow
<1>3. script[next].name \in Names
  BY <1>2, DeclFields
<1> QED BY <1>1, <1>2, <1>3 DEF AtStatement, Statement

\* A statement is emitted, or was refused.
LEMMA Emits ==
  ASSUME FlowInv, next <= Len(script),
         types' \in TypeTable, dtypes' \in DtypeTable,
         \A y \in Names : y # script[next].name => types'[y] = types[y] /\ dtypes'[y] = dtypes[y],
         TupleFree(pine[script[next].name]) =>
           /\ types'[script[next].name] = types[script[next].name]
           /\ dtypes'[script[next].name] = dtypes[script[next].name],
         Good(script, types', dtypes', next', pine, next),
         next' \in {next, next + 1}, UNCHANGED <<script, pine>>, phase' \in {"body", "refused"}
  PROVE  FlowInv'
<1>1. Flow(script, types, dtypes, next, pine) /\ Len(script) <= MaxGlobals
  BY DEF FlowInv
<1>2. Flow(script, types', dtypes', next', pine)
  BY <1>1, FlowEmits
<1>3. script' = script /\ pine' = pine
  OBVIOUS
<1> QED BY <1>1, <1>2, <1>3 DEF FlowInv

LEMMA EmitVarFlows ==
  ASSUME FlowInv, EmitVar
  PROVE  FlowInv'
<1> DEFINE d == script[next]
           x == script[next].name
           e == script[next].init
           u == ExprPine(pine, e)
           t == ExprType(script, types, e)
           after == next < next'
<1>1. /\ next \in 1 .. Len(script) /\ Statement = d /\ d.kind = "var" /\ x \in Names
      /\ Flow(script, types, dtypes, next, pine)
      /\ Good(script, types, dtypes, next, pine, next)
  BY StatementGood DEF EmitVar
<1>2. /\ types' = [types EXCEPT ![x] = t] /\ dtypes' = dtypes
      /\ next' \in {next, next + 1} /\ UNCHANGED <<script, pine>> /\ phase' \in {"body", "refused"}
  <2>1. Inferred(e) = t
    BY Operands DEF Inferred, ExprType
  <2>2. phase = "body"
    BY DEF EmitVar, AtStatement
  <2> HIDE DEF t
  <2> QED BY <1>1, <2>1, <2>2 DEF EmitVar, Reinferred
<1>3. types \in TypeTable /\ dtypes \in DtypeTable
  BY <1>1 DEF Flow
<1>4. VarGood(script, types, dtypes, pine, next, FALSE)
  <2> DEFINE before == next < next
  <2>1. VarGood(script, types, dtypes, pine, next, before)
    BY <1>1 DEF Good
  <2>2. before = FALSE
    BY <1>1
  <2> HIDE DEF before
  <2> QED BY <2>1, <2>2
<1>5. /\ Formed(script, pine, next, e)
      /\ \E r \in BOOLEAN : pine[x] = Recorded(u, d.ref, r)
      /\ u.base = "object" => d.ref # "none"
      /\ d.ref # "none" => Number(u)
      /\ dtypes[x] \in Bases
      /\ TupleFree(pine[x]) => types[x] = t /\ dtypes[x] = types[x].base
  BY <1>4 DEF VarGood, TupleFree
<1>6. Agrees(t, u, TRUE)
  <2>1. next \in 1 .. Len(script) + 1 /\ next <= next
    BY <1>1
  <2> HIDE DEF e
  <2> QED BY <1>1, <1>5, <2>1, ExprAgrees
<1> HIDE DEF t, u, d, x, e
<1>7. t \in Type
  BY <1>6 DEF Agrees
<1>8. /\ types' \in TypeTable /\ types'[x] = t
      /\ \A y \in Names : y # x => types'[y] = types[y]
  BY <1>1, <1>2, <1>3, <1>7 DEF TypeTable
<1>9. TupleFree(pine[x]) => types' = types
  BY <1>1, <1>2, <1>3, <1>5 DEF TypeTable
<1>10. TupleFree(pine[x]) => types'[x] = ExprType(script, types', e) /\ dtypes'[x] = types'[x].base
  BY <1>2, <1>5, <1>8, <1>9 DEF t
<1>11. VarGood(script, types', dtypes', pine, next, after)
  <2>1. Agrees(t, u, after)
    <3>1. after \in BOOLEAN
      OBVIOUS
    <3> HIDE DEF after
    <3> QED BY <1>6, <3>1, AgreesWeaker
  <2> HIDE DEF after
  <2> QED BY <1>2, <1>5, <1>8, <1>10, <2>1 DEF VarGood, TupleFree, d, x, e, u
<1>12. Good(script, types', dtypes', next', pine, next)
  BY <1>1, <1>11 DEF Good, d
<1> QED BY <1>1, <1>2, <1>3, <1>5, <1>8, <1>9, <1>12, Emits DEF x

LEMMA EmitTupleFlows ==
  ASSUME FlowInv, EmitTuple
  PROVE  FlowInv'
<1> DEFINE d == script[next]
           x == script[next].name
           op == script[next].init.op
           r == OperandType(script[next].init.args[1])
           t == TargetType(op, r)
<1>1. /\ next \in 1 .. Len(script) /\ Statement = d /\ d.kind = "tuple" /\ x \in Names
      /\ Flow(script, types, dtypes, next, pine)
      /\ Good(script, types, dtypes, next, pine, next)
  BY StatementGood DEF EmitTuple
<1>2. /\ types' = [types EXCEPT ![x] = t]
      /\ dtypes' = IF op \in TypedTuples THEN [dtypes EXCEPT ![x] = ElementBase(op)] ELSE dtypes
      /\ next' = next + 1 /\ UNCHANGED <<script, pine>> /\ phase' = "body"
  BY <1>1 DEF EmitTuple, Overridden, AtStatement
<1>3. d.ref = "none" /\ op \in TupleOps
  BY <1>1 DEF Good, TupleGood
<1>4. PICK c \in Type, v \in PineType :
        /\ v.base \in Elements /\ pine[x] = TupleInPine(op, v)
        /\ types[x] = TupleType(op, c) /\ dtypes[x] = TupleType(op, c).base
  <2> DEFINE before == next < next
  <2>1. before = FALSE
    BY <1>1
  <2>2. TupleGood(d, types, dtypes, pine, before)
    BY <1>1 DEF Good
  <2> HIDE DEF before
  <2> QED BY <2>1, <2>2 DEF TupleGood
<1>5. IsOperand(script, next, script[next].init.args[1]) /\ r \in Type
  <2> DEFINE a == script[next].init.args[1]
  <2>1. IsOperand(script, next, a) /\ next \in 1 .. Len(script) + 1
    BY <1>1 DEF Good
  <2> HIDE DEF a
  <2>2. Agrees(TypeOf(script, types, a), PineOf(pine, a), FALSE)
    BY <1>1, <2>1, OperandAgrees
  <2> QED BY <2>1, <2>2, Operands DEF Agrees, a
<1> HIDE DEF d, x, op, r, t
<1>6. /\ TupleType(op, c) \in Type /\ TupleType(op, r).base = TupleType(op, c).base
      /\ op # "list" => TupleType(op, r) = TupleType(op, c)
      /\ t \in Type
      /\ op \in TypedTuples => t = T(ElementBase(op), Series) /\ t.base = ElementBase(op)
      /\ op \notin TypedTuples => t = TupleType(op, r)
  <2>1. /\ TupleType(op, c) \in Type /\ TupleType(op, r) \in Type
        /\ TupleType(op, r).base = TupleType(op, c).base
        /\ op # "list" => TupleType(op, r).qual = TupleType(op, c).qual
    BY <1>3, <1>4, <1>5, TupleTypes
  <2>2. op # "list" => TupleType(op, r) = TupleType(op, c)
    BY <2>1, TypeFields
  <2> QED BY <1>3, <1>5, <2>1, <2>2, TupleTypes DEF t
<1>7. t.base \in Bases
  BY <1>6, TypeFields
<1>8. /\ types' \in TypeTable /\ types'[x] = t /\ dtypes' \in DtypeTable /\ dtypes'[x] = t.base
      /\ \A y \in Names : y # x => types'[y] = types[y] /\ dtypes'[y] = dtypes[y]
  BY <1>1, <1>2, <1>4, <1>6, <1>7 DEF Flow, TypeTable, DtypeTable
<1>9. op \in TypedTuples \union {"list"} => ~ TupleFree(pine[x])
  BY <1>3, <1>4, ElementInPine DEF TupleFree
<1>10. TupleFree(pine[x]) => types'[x] = types[x] /\ dtypes'[x] = dtypes[x]
  BY <1>4, <1>6, <1>8, <1>9
<1>11. next < next' /\ next \in Nat
  BY <1>1, <1>2
<1>12. TupleGood(d, types', dtypes', pine, next < next')
  BY <1>3, <1>4, <1>5, <1>8, <1>11 DEF TupleGood, d, x, op, t
<1>13. Good(script, types', dtypes', next', pine, next)
  BY <1>1, <1>5, <1>12 DEF Good, d
<1> QED BY <1>1, <1>2, <1>8, <1>10, <1>13, Emits DEF x

LEMMA EmitInputFlows ==
  ASSUME FlowInv, EmitInput
  PROVE  FlowInv'
<1>1. /\ next \in 1 .. Len(script) /\ script[next].kind = "input"
      /\ Flow(script, types, dtypes, next, pine)
      /\ Good(script, types, dtypes, next, pine, next)
  BY StatementGood DEF EmitInput
<1>2. types' = types /\ dtypes' = dtypes /\ next' = next + 1 /\ UNCHANGED <<script, pine>>
      /\ phase' = "body"
  BY DEF EmitInput, AtStatement
<1>3. Good(script, types', dtypes', next', pine, next)
  BY <1>1, <1>2 DEF Good
<1>4. types' \in TypeTable /\ dtypes' \in DtypeTable
  BY <1>1, <1>2 DEF Flow
<1> QED BY <1>1, <1>2, <1>3, <1>4, Emits

LEMMA InitFlows ==
  ASSUME TypeFlowInit
  PROVE  FlowInv
<1>1. /\ script = << >> /\ Len(script) = 0 /\ next = 1 /\ script \in Seq(Decl)
      /\ types = [x \in Names |-> Undeclared] /\ pine = [x \in Names |-> Undeclared]
      /\ dtypes = [x \in Names |-> "none"]
  <2> HIDE DEF Decl
  <2> QED BY DEF TypeFlowInit
<1>2. types \in TypeTable /\ dtypes \in DtypeTable /\ pine \in PineTable
  BY <1>1 DEF TypeTable, DtypeTable, PineTable
<1>3. /\ \A i, j \in 1 .. Len(script) : script[i].name = script[j].name => i = j
      /\ \A i \in 1 .. Len(script) : Good(script, types, dtypes, next, pine, i)
      /\ next \in 1 .. Len(script) + 1
  BY <1>1
<1>4. \A x \in Names : types[x] = Undeclared /\ dtypes[x] = "none" /\ pine[x] = Undeclared
  BY <1>1
<1>5. Flow(script, types, dtypes, next, pine)
  BY <1>1, <1>2, <1>3, <1>4 DEF Flow
<1>6. phase = "collect" /\ Len(script) <= MaxGlobals
  BY <1>1, TypeFlowAssumption DEF TypeFlowInit
<1> QED BY <1>5, <1>6 DEF FlowInv

LEMMA StepFlows ==
  ASSUME FlowInv, [TypeFlowNext]_vars
  PROVE  FlowInv'
<1>1. ASSUME UNCHANGED <<script, types, dtypes, next, pine>>,
             phase' \in {"collect", "functions", "body", "done", "refused"}
      PROVE  FlowInv'
  BY <1>1 DEF FlowInv
<1>2. CASE UNCHANGED vars
  BY <1>2 DEF FlowInv, vars
<1>3. ASSUME NEW names \in {Names \ BuiltinNames, BuiltinNames}, CanCollect, ~ names \subseteq Declared
      PROVE  LET x == NewName(names)
             IN /\ \A e \in Expressions, ref \in Refs, r \in BOOLEAN : CollectVar(x, e, ref, r) => FlowInv'
                /\ \A e \in Tuples : CollectTuple(x, e) => FlowInv'
                /\ \A b \in {"int", "float"} : CollectInput(x, b) => FlowInv'
  <2> DEFINE x == NewName(names)
  <2>1. x \in Names /\ ~ IsName(script, x)
    BY <1>3, NewNameFree, TypeFlowAssumption
  <2> HIDE DEF x
  <2>2. ASSUME NEW e \in Expressions, NEW ref \in Refs, NEW r \in BOOLEAN,
               CollectVar(x, e, ref, r)
        PROVE  FlowInv'
    BY <1>3, <2>1, <2>2, CollectVarFlows
  <2>3. ASSUME NEW e \in Tuples, CollectTuple(x, e) PROVE FlowInv'
    BY <1>3, <2>1, <2>3, CollectTupleFlows
  <2>4. ASSUME NEW b \in {"int", "float"}, CollectInput(x, b) PROVE FlowInv'
    BY <1>3, <2>1, <2>4, CollectInputFlows DEF Numbers
  <2> QED BY <2>2, <2>3, <2>4 DEF x
<1>4. ASSUME EndCollect \/ EndFunctions \/ EndBody PROVE FlowInv'
  BY <1>1, <1>4 DEF EndCollect, EndFunctions, EndBody
<1>5. ASSUME NEW p \in Parameters, NEW a \in Arguments, Refuse(p, a) PROVE FlowInv'
  BY <1>1, <1>5 DEF Refuse
<1>6. CASE TypeFlowNext
  BY <1>3, <1>4, <1>5, <1>6, EmitVarFlows, EmitTupleFlows, EmitInputFlows DEF TypeFlowNext
<1> QED BY <1>2, <1>6

LEMMA FlowInvariant == TypeFlowSpec => []FlowInv
<1>1. TypeFlowInit => FlowInv
  BY InitFlows
<1>2. FlowInv /\ [TypeFlowNext]_vars => FlowInv'
  BY StepFlows
<1> QED BY <1>1, <1>2, PTL DEF TypeFlowSpec
-----------------------------------------------------------------------------
(***************************************************************************)
(* The properties.                                                         *)
(***************************************************************************)
LEMMA TypeOKHolds ==
  ASSUME FlowInv
  PROVE  TypeFlowTypeOK
<1>1. /\ Flow(script, types, dtypes, next, pine) /\ script \in Seq(Decl)
      /\ next \in 1 .. Len(script) + 1
      /\ \A i, j \in 1 .. Len(script) : script[i].name = script[j].name => i = j
  BY DEF FlowInv, Flow
<1>2. ASSUME NEW i \in 1 .. Len(script)
      PROVE  script[i].name \in Declared /\ script[i].kind \in Kinds /\ script[i].ref \in Refs
  BY <1>1, DeclFields, DeclaredNamed DEF IsName
<1>3. ASSUME NEW x \in Names, x \in Declared
      PROVE  /\ types[x] \in Type /\ dtypes[x] \in Bases
             /\ pine[x] \in [base : Bases, qual : Const .. Series, doubts : SUBSET Doubts]
             /\ \E i \in 1 .. Len(script) : script[i].name = x
  <2>1. PICK i \in 1 .. Len(script) : script[i].name = x
    BY <1>3, DeclaredNamed DEF IsName
  <2>2. types[x] \in Type /\ dtypes[x] \in Bases /\ pine[x] \in PineType
    BY <1>1, <2>1, NamesTyped
  <2> QED BY <2>1, <2>2 DEF PineType, Quals
<1>4. ASSUME NEW x \in Names, x \notin Declared
      PROVE  dtypes[x] = "none" /\ pine[x] = Undeclared
  BY <1>1, <1>4, DeclaredNamed DEF Flow
<1> QED BY <1>1, <1>2, <1>3, <1>4 DEF TypeFlowTypeOK, FlowInv

\* The state is well formed: the variables collected are those of the
\* script, each with a type, a dtype and a type in Pine (global_series, type_info).
THEOREM TypesTypeCorrect == TypeFlowSpec => []TypeFlowTypeOK
<1>1. FlowInv => TypeFlowTypeOK
  BY TypeOKHolds
<1> QED BY <1>1, FlowInvariant, PTL

\* What a call is made with, as the inference and as Pine see it.
LEMMA ArgumentAgrees ==
  ASSUME FlowInv, NEW a \in Arguments, a # "param"
  PROVE  \E settled \in BOOLEAN :
           /\ Agrees(OperandType(a), OperandInPine(a), settled)
           /\ a \in Emitted => settled
<1>1. CASE a \in Names /\ a \notin BuiltinNames
  <2>1. a \in Declared
    BY <1>1, TypeFlowAssumption DEF Arguments, AllAtoms, AllLocals
  <2>2. PICK i \in 1 .. Len(script) : script[i].name = a
    BY <1>1, <2>1, DeclaredNamed DEF IsName
  <2>3. Flow(script, types, dtypes, next, pine)
        /\ \A p, q \in 1 .. Len(script) : script[p].name = script[q].name => p = q
        /\ next \in 1 .. Len(script) + 1 /\ Len(script) \in Nat
    BY DEF FlowInv, Flow
  <2>4. At(script, a) = i
    BY <2>2, <2>3, AtName
  <2> DEFINE before == i < next
             t == OperandType(a)
             u == OperandInPine(a)
  <2>5. t = DeclType(script[i], types[a]) /\ u = pine[a]
    BY <1>1, <2>4, Operands DEF TypeOf, PineOf
  <2>6. Agrees(t, u, before)
    BY <2>2, <2>3, <2>5, VariableAgrees
  <2>7. a \in Emitted => before
    <3> SUFFICES ASSUME NEW j \in 1 .. next - 1, script[j].name = a PROVE before
      BY DEF Emitted
    <3> QED BY <2>2, <2>3
  <2>8. before \in BOOLEAN
    OBVIOUS
  <2> HIDE DEF before
  <2> QED BY <2>6, <2>7, <2>8
<1>2. CASE a \in BuiltinNames
  <2>1. a \in Names /\ a \in Declared /\ Flow(script, types, dtypes, next, pine)
    BY <1>2, TypeFlowAssumption DEF Arguments, AllAtoms, AllLocals, FlowInv
  <2>2. PICK i \in 1 .. Len(script) : script[i].name = a
    BY <2>1, DeclaredNamed DEF IsName
  <2>3. pine[a] \in PineType /\ pine[a].base # "object"
    BY <2>1, <2>2, VariableAgrees, VariableNotNa DEF Agrees
  <2>4. Agrees(OperandType(a), OperandInPine(a), TRUE)
    BY <1>2, <2>3, HiddenAgrees DEF OperandType, OperandInPine
  <2> QED BY <2>4
<1>3. CASE a \notin Names
  <2>1. a \in AnyAtom /\ a \notin BuiltinNames
    BY <1>3, TypeFlowAssumption DEF Arguments, AnyAtom, Declared
  <2>2. Agrees(OperandType(a), OperandInPine(a), TRUE)
    BY <1>3, <2>1, AtomsAgree DEF OperandType, OperandInPine
  <2> QED BY <2>2
<1> QED BY <1>1, <1>2, <1>3

\* What the binder makes of two types that agree.
LEMMA BindsAllowed ==
  ASSUME NEW settled, NEW t, NEW u, Agrees(t, u, settled), NEW p \in Parameters,
         Trusted(u.doubts), "late" \notin u.doubts \/ settled,
         Matches(p, t), t.qual <= QualifierMax(p)
  PROVE  Allowed(p, u)
<1>1. /\ t.base \in Bases /\ t.qual \in 0 .. 3 /\ u.base \in Bases /\ u.qual \in 0 .. 3
      /\ NotBelow(t, u, settled)
  BY TypeFields, Qualifiers DEF Agrees
<1> QED BY <1>1, Qualifiers
        DEF NotBelow, Numbers, Parameters, Matches, AcceptedTypes, QualifierMax, Allowed

LEMMA AllowedBinds ==
  ASSUME NEW settled, NEW t, NEW u, Agrees(t, u, settled), NEW p \in Parameters,
         Resolved(u.doubts), "tuple" \notin u.doubts \/ settled,
         p = "length" => "widened" \notin u.doubts /\ "series" \notin u.doubts,
         Allowed(p, u)
  PROVE  Matches(p, t) /\ t.qual <= QualifierMax(p)
<1>1. /\ t.base \in Bases /\ t.qual \in 0 .. 3 /\ u.base \in Bases /\ u.qual \in 0 .. 3
      /\ NotAbove(t, u, settled)
  BY TypeFields, Qualifiers DEF Agrees
<1> QED BY <1>1, Qualifiers
        DEF NotAbove, Numbers, Parameters, Matches, AcceptedTypes, QualifierMax, Allowed

\* An untyped parameter binds to both, and is doubted.
LEMMA ParameterBinds ==
  ASSUME NEW p \in Parameters
  PROVE  Binds(p, "param") /\ OperandInPine("param").doubts = {"param"}
<1>1. "param" \notin Names /\ "param" \notin BuiltinNames
  BY TypeFlowAssumption DEF AllLocals
<1>2. OperandType("param") = T("object", Simple) /\ OperandInPine("param") = P("int", Series, {"param"})
  BY <1>1 DEF OperandType, OperandInPine, AtomType, AtomInPine
<1>3. T("object", Simple).qual = 2 /\ P("int", Series, {"param"}).doubts = {"param"}
  BY DEF T, P, Simple
<1>4. QualifierMax(p) \in {2, 3}
  BY DEF QualifierMax, Simple, Series
<1>5. OperandType("param").qual <= QualifierMax(p)
  BY <1>2, <1>3, <1>4
<1> QED BY <1>2, <1>3, <1>5 DEF Binds, UntypedParameter

LEMMA AcceptsHolds ==
  ASSUME FlowInv
  PROVE  AcceptsOnlyAllowed
<1> SUFFICES ASSUME NEW p \in Parameters, NEW a \in Arguments, Binds(p, a),
                    ~ Allowed(p, OperandInPine(a)), Trusted(OperandInPine(a).doubts),
                    "late" \notin OperandInPine(a).doubts \/ a \in Emitted
             PROVE  FALSE
  BY DEF AcceptsOnlyAllowed, Trusted
<1>1. a # "param"
  BY ParameterBinds DEF Trusted
<1>2. PICK settled \in BOOLEAN :
        Agrees(OperandType(a), OperandInPine(a), settled) /\ (a \in Emitted => settled)
  BY <1>1, ArgumentAgrees
<1>3. Matches(p, OperandType(a)) /\ OperandType(a).qual <= QualifierMax(p)
  BY <1>1 DEF Binds, UntypedParameter
<1> QED BY <1>2, <1>3, BindsAllowed

\* A call that the binder lets through is one that Pine allows, in every
\* phase of the translation and for scripts of any length, but for the doubts the
\* property names (validate_function_args on the types of type_inference.py).
THEOREM BinderAcceptsOnlyAllowed == TypeFlowSpec => []AcceptsOnlyAllowed
<1>1. FlowInv => AcceptsOnlyAllowed
  BY AcceptsHolds
<1> QED BY <1>1, FlowInvariant, PTL

LEMMA RefusesHolds ==
  ASSUME FlowInv
  PROVE  RefusesOnlyDisallowed
<1> SUFFICES ASSUME NEW p \in Parameters, NEW a \in Arguments, ~ Binds(p, a),
                    Allowed(p, OperandInPine(a)), Resolved(OperandInPine(a).doubts),
                    p = "length" => /\ "widened" \notin OperandInPine(a).doubts
                                    /\ "series" \notin OperandInPine(a).doubts,
                    "tuple" \notin OperandInPine(a).doubts \/ a \in Emitted
             PROVE  FALSE
  BY DEF RefusesOnlyDisallowed, Resolved
<1>1. a # "param"
  BY ParameterBinds
<1>2. PICK settled \in BOOLEAN :
        Agrees(OperandType(a), OperandInPine(a), settled) /\ (a \in Emitted => settled)
  BY <1>1, ArgumentAgrees
<1>3. Matches(p, OperandType(a)) /\ OperandType(a).qual <= QualifierMax(p)
  BY <1>2, AllowedBinds
<1> QED BY <1>3 DEF Binds

\* A call that Pine allows is not refused, but where the property says an
\* operand's type was lost, for scripts of any length.
THEOREM BinderRefusesOnlyDisallowed == TypeFlowSpec => []RefusesOnlyDisallowed
<1>1. FlowInv => RefusesOnlyDisallowed
  BY RefusesHolds
<1> QED BY <1>1, FlowInvariant, PTL

\* The declaration of an emitted variable.
LEMMA EmittedAt ==
  ASSUME FlowInv, NEW x \in Emitted
  PROVE  \E i \in 1 .. Len(script) :
           /\ i < next /\ script[i].name = x /\ Declaration(x) = script[i]
           /\ Good(script, types, dtypes, next, pine, i)
<1>1. /\ Flow(script, types, dtypes, next, pine) /\ next \in 1 .. Len(script) + 1 /\ Len(script) \in Nat
      /\ \A p, q \in 1 .. Len(script) : script[p].name = script[q].name => p = q
      /\ \A i \in 1 .. Len(script) : Good(script, types, dtypes, next, pine, i)
  BY DEF FlowInv, Flow
<1>2. PICK i \in 1 .. next - 1 : script[i].name = x
  BY DEF Emitted
<1>3. i \in 1 .. Len(script) /\ i < next
  BY <1>1
<1>4. At(script, x) = i
  BY <1>1, <1>2, <1>3, AtName
<1> QED BY <1>1, <1>2, <1>3, <1>4 DEF Declaration, At

LEMMA ReadsHold ==
  ASSUME FlowInv
  PROVE  ReadsTrue
<1> SUFFICES ASSUME NEW x \in Emitted,
                    OperandInPine(x).doubts \subseteq {"tuple", "late", "series"}
             PROVE  /\ OperandType(x).base = OperandInPine(x).base
                    /\ OperandType(x).qual >= OperandInPine(x).qual
  BY DEF ReadsTrue
<1> DEFINE t == OperandType(x)
           u == OperandInPine(x)
<1>1. x \in Arguments /\ x # "param"
  <2>1. x \in Names /\ IsName(script, x)
    BY EmittedAt DEF IsName, Emitted
  <2> QED BY <2>1, DeclaredNamed, TypeFlowAssumption DEF Arguments, AllLocals
<1>2. Agrees(t, u, TRUE)
  <2>1. PICK settled \in BOOLEAN : Agrees(t, u, settled) /\ (x \in Emitted => settled)
    BY <1>1, ArgumentAgrees
  <2>2. settled = TRUE
    BY <2>1
  <2> HIDE DEF t, u
  <2> QED BY <2>1, <2>2
<1>3. Trusted(u.doubts) /\ Resolved(u.doubts) /\ "widened" \notin u.doubts
  BY DEF Trusted, Resolved
<1> HIDE DEF t, u
<1>4. t.base = u.base /\ u.qual <= t.qual /\ t.qual \in 0 .. 3 /\ u.qual \in 0 .. 3
  BY <1>2, <1>3, TypeFields, Qualifiers DEF Agrees, SameBase, NotBelow
<1> QED BY <1>4 DEF t, u

\* Once its statement is emitted, a variable is read with its type in Pine, also
\* when it is, or was computed from, a target of a tuple whose elements the code knows;
\* nothing is said of the targets that never get a type (_emit_tuple_declaration).
THEOREM EmittedReadsTrue == TypeFlowSpec => []ReadsTrue
<1>1. FlowInv => ReadsTrue
  BY ReadsHold
<1> QED BY <1>1, FlowInvariant, PTL

LEMMA SeriesHold ==
  ASSUME FlowInv
  PROVE  SeriesTyped
<1> SUFFICES ASSUME NEW x \in Emitted, dtypes[x] # types[x].base
             PROVE  Declaration(x).kind = "var" /\ "tuple" \in pine[x].doubts
  BY DEF SeriesTyped
<1>1. PICK i \in 1 .. Len(script) :
        /\ i < next /\ script[i].name = x /\ Declaration(x) = script[i]
        /\ Good(script, types, dtypes, next, pine, i)
  BY EmittedAt
<1>2. script[i].kind \in Kinds
  BY <1>1, DeclFields DEF FlowInv, Flow
<1>3. script[i].kind # "input"
  <2> SUFFICES ASSUME script[i].kind = "input" PROVE FALSE
    OBVIOUS
  <2>1. PICK b \in Numbers : types[x] = T(b, Series) /\ dtypes[x] = b
    BY <1>1 DEF Good, InputGood
  <2> QED BY <2>1 DEF T
<1>4. script[i].kind # "tuple"
  <2> SUFFICES ASSUME script[i].kind = "tuple" PROVE FALSE
    OBVIOUS
  <2> QED BY <1>1 DEF Good, TupleGood
<1>5. script[i].kind = "var"
  BY <1>2, <1>3, <1>4 DEF Kinds
<1>6. "tuple" \notin pine[x].doubts => dtypes[x] = types[x].base
  BY <1>1, <1>5 DEF Good, VarGood
<1> QED BY <1>1, <1>5, <1>6

\* The dtype that a series is generated with is that of its variable, but
\* for what is computed from a target of a tuple.
THEOREM SeriesKeepTheirType == TypeFlowSpec => []SeriesTyped
<1>1. FlowInv => SeriesTyped
  BY SeriesHold
<1> QED BY <1>1, FlowInvariant, PTL
=============================================================================
