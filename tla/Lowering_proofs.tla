--------------------------- MODULE Lowering_proofs ---------------------------
(***************************************************************************)
(* Proofs about Lowering, for any names, naming functions, programs and    *)
(* nesting of structures: the state of the handlers, the depth of          *)
(* everything that is pushed and popped with them, the Python they write   *)
(* and the cells of the variables.                                         *)
(***************************************************************************)
EXTENDS Lowering, Context_proofs, FiniteSetTheorems, SequenceTheorems,
        WellFoundedInduction

(***************************************************************************)
(* The stack of handlers.                                                  *)
(***************************************************************************)
OwnKinds == FrameKinds \ {"leaf", "bar"}

\* How many handlers of some kinds are running.
CountOf(fs, S) == Cardinality({k \in 1 .. Len(fs) : fs[k].kind \in S})

LEMMA CountNone == \A S : CountOf(<< >>, S) = 0
BY FS_EmptySet DEF CountOf

LEMMA CountType ==
  ASSUME NEW fs \in Seq(Frame), NEW S
  PROVE  CountOf(fs, S) \in Nat
<1>1. Len(fs) \in Nat
  OBVIOUS
<1>2. IsFiniteSet(1 .. Len(fs))
  BY <1>1, FS_Interval
<1>3. {k \in 1 .. Len(fs) : fs[k].kind \in S} \subseteq 1 .. Len(fs)
  OBVIOUS
<1> QED BY <1>2, <1>3, FS_Subset, FS_CardinalityType DEF CountOf

\* Stacks with the same kinds have the same counts.
LEMMA CountSame ==
  ASSUME NEW fs, NEW gs, NEW S, Len(fs) = Len(gs),
         \A k \in 1 .. Len(fs) : fs[k].kind = gs[k].kind
  PROVE  CountOf(fs, S) = CountOf(gs, S)
<1>1. {k \in 1 .. Len(fs) : fs[k].kind \in S} = {k \in 1 .. Len(gs) : gs[k].kind \in S}
  OBVIOUS
<1> QED BY <1>1 DEF CountOf

\* One handler more.
LEMMA CountMore ==
  ASSUME NEW fs \in Seq(Frame), NEW gs \in Seq(Frame), NEW S,
         Len(gs) = Len(fs) + 1, \A k \in 1 .. Len(fs) : gs[k].kind = fs[k].kind
  PROVE  CountOf(gs, S) = CountOf(fs, S) + IF gs[Len(gs)].kind \in S THEN 1 ELSE 0
<1> DEFINE K == {k \in 1 .. Len(fs) : fs[k].kind \in S}
           n == Len(gs)
           M == {k \in 1 .. n : gs[k].kind \in S}
<1>1. Len(fs) \in Nat /\ n = Len(fs) + 1
  OBVIOUS
<1>2. IsFiniteSet(K)
  <2>1. IsFiniteSet(1 .. Len(fs))
    BY <1>1, FS_Interval
  <2>2. K \subseteq 1 .. Len(fs)
    OBVIOUS
  <2> HIDE DEF K
  <2> QED BY <2>1, <2>2, FS_Subset
<1>3. n \notin K
  BY <1>1
<1>4. M = IF gs[n].kind \in S THEN K \union {n} ELSE K
  <2>1. \A k : k \in 1 .. n <=> k \in 1 .. Len(fs) \/ k = n
    BY <1>1
  <2> QED BY <1>1, <2>1
<1>5. Cardinality(K \union {n}) = Cardinality(K) + 1
  <2> HIDE DEF K, n
  <2> QED BY <1>2, <1>3, FS_AddElement
<1>6. Cardinality(K) \in Nat
  BY <1>2, FS_CardinalityType
<1>7. CountOf(gs, S) = Cardinality(M) /\ CountOf(fs, S) = Cardinality(K)
  BY DEF CountOf
<1> HIDE DEF K, M
<1> QED BY <1>4, <1>5, <1>6, <1>7

LEMMA FramedIsFrame ==
  ASSUME NEW kind \in FrameKinds
  PROVE  /\ Framed(kind) \in Frame /\ Framed(kind).kind = kind
         /\ Framed(kind).empty = TRUE /\ Framed(kind).var = FALSE
BY DEF Framed, Frame

\* The stack with another handler on top.
LEMMA PushedFrame ==
  ASSUME NEW fs \in Seq(Frame), NEW f \in Frame
  PROVE  /\ Append(fs, f) \in Seq(Frame)
         /\ Len(fs) \in Nat /\ Len(Append(fs, f)) = Len(fs) + 1
         /\ \A k \in 1 .. Len(fs) : Append(fs, f)[k] = fs[k]
         /\ Append(fs, f)[Len(fs) + 1] = f
OBVIOUS

LEMMA PoppedFrame ==
  ASSUME NEW fs \in Seq(Frame), fs # << >>
  PROVE  /\ Front(fs) \in Seq(Frame)
         /\ Len(fs) \in Nat \ {0} /\ Len(Front(fs)) = Len(fs) - 1
         /\ \A k \in 1 .. Len(fs) - 1 : Front(fs)[k] = fs[k]
<1>1. Len(fs) \in Nat \ {0}
  OBVIOUS
<1>2. \A k \in 1 .. Len(fs) - 1 : fs[k] \in Frame
  BY <1>1
<1>3. Front(fs) = SubSeq(fs, 1, Len(fs) - 1)
  BY DEF Front
<1> DEFINE n == Len(fs) - 1
<1>4. n \in Nat /\ n \in Int /\ 1 \in Int /\ n = IF 1 <= n THEN n - 1 + 1 ELSE 0
  <2>1. n \in Nat
    BY <1>1
  <2> HIDE DEF n
  <2> QED BY <2>1
<1>5. /\ SubSeq(fs, 1, n) \in Seq(Frame)
      /\ Len(SubSeq(fs, 1, n)) = IF 1 <= n THEN n - 1 + 1 ELSE 0
      /\ \A i \in 1 .. n - 1 + 1 : SubSeq(fs, 1, n)[i] = fs[1 + i - 1]
  <2> HIDE DEF n, Frame
  <2> QED BY <1>2, <1>4, SubSeqProperties DEF n
<1>6. \A i \in 1 .. n : i \in 1 .. n - 1 + 1 /\ 1 + i - 1 = i
  BY <1>4
<1> HIDE DEF n
<1> QED BY <1>1, <1>3, <1>4, <1>5, <1>6 DEF n

LEMMA NotedFrame ==
  ASSUME frames \in Seq(Frame), frames # << >>, NEW v \in BOOLEAN
  PROVE  /\ Noted(v) \in Seq(Frame) /\ Len(Noted(v)) = Len(frames)
         /\ \A k \in 1 .. Len(frames) - 1 : Noted(v)[k] = frames[k]
         /\ Noted(v)[Len(frames)].empty = FALSE
         /\ \A k \in 1 .. Len(frames) : Noted(v)[k].kind = frames[k].kind
<1> DEFINE n == Len(frames)
           one == [frames EXCEPT ![n].empty = FALSE]
           f == [frames[n] EXCEPT !.empty = FALSE]
           g == [f EXCEPT !.var = v]
<1>1. n \in Nat \ {0} /\ n \in 1 .. n /\ \A k \in 1 .. n : frames[k] \in Frame
  OBVIOUS
<1>2. f \in Frame /\ f.kind = frames[n].kind /\ f.empty = FALSE
  BY <1>1 DEF Frame
<1> HIDE DEF f
<1>3. g \in Frame /\ g.kind = f.kind /\ g.empty = f.empty
  BY <1>2 DEF Frame
<1> HIDE DEF g
<1>4. /\ one \in Seq(Frame) /\ Len(one) = n
      /\ \A k \in 1 .. n : one[k] = IF k = n THEN f ELSE frames[k]
  <2>1. one = [frames EXCEPT ![n] = f]
    BY DEF f
  <2> HIDE DEF Frame, n, one
  <2> QED BY <1>1, <1>2, <2>1, ExceptSeq DEF n
<1>5. Noted(v) = [one EXCEPT ![n].var = v]
  BY DEF Noted
<1> HIDE DEF one
<1>6. Noted(v) = [one EXCEPT ![n] = g]
  <2>1. one[n] = f
    BY <1>1, <1>4
  <2> QED BY <1>5, <2>1 DEF g
<1> HIDE DEF n, Frame
<1>7. /\ Noted(v) \in Seq(Frame) /\ Len(Noted(v)) = n
      /\ \A k \in 1 .. n : Noted(v)[k] = IF k = n THEN g ELSE one[k]
  BY <1>1, <1>3, <1>4, <1>6, ExceptSeq
<1>8. \A k \in 1 .. n - 1 : k \in 1 .. n /\ k # n
  BY <1>1
<1> QED BY <1>1, <1>2, <1>3, <1>4, <1>7, <1>8 DEF n
-----------------------------------------------------------------------------
(***************************************************************************)
(* The emitter.                                                            *)
(***************************************************************************)
Blocks == Seq(LastStatements)
Module == [blocks : Blocks, ok : BOOLEAN]
Output == [indent : Nat, py : Module]

LEMMA OutputFields ==
  ASSUME NEW o \in Output
  PROVE  /\ o.indent \in Nat /\ o.py \in Module
         /\ o.py.blocks \in Blocks /\ o.py.ok \in BOOLEAN
         /\ Len(o.py.blocks) \in Nat
BY DEF Output, Module, Blocks

\* The blocks after a line: those around it, its own and the one it opens.
LEMMA LineBlocks ==
  ASSUME NEW b \in Blocks, NEW i \in Nat, i + 1 <= Len(b), NEW x \in LastStatements,
         NEW t \in {<< >>, <<"none">>}
  PROVE  LET r == Append(SubSeq(b, 1, i), x) \o t
         IN /\ r \in Blocks /\ Len(r) = i + 1 + Len(t)
            /\ \A j \in 1 .. i : r[j] = b[j]
            /\ r[i + 1] = x
            /\ \A j \in 1 .. Len(t) : r[i + 1 + j] = t[j]
<1> DEFINE p == SubSeq(b, 1, i)
           q == Append(p, x)
           r == q \o t
<1>1. Len(b) \in Nat /\ \A j \in 1 .. i : b[j] \in LastStatements
  BY DEF Blocks
<1>2. p \in Blocks /\ Len(p) = i /\ \A j \in 1 .. i : p[j] = b[j]
  <2> HIDE DEF LastStatements
  <2>1. /\ p \in Seq(LastStatements)
        /\ Len(p) = IF 1 <= i THEN i - 1 + 1 ELSE 0
        /\ \A j \in 1 .. i - 1 + 1 : p[j] = b[1 + j - 1]
    BY <1>1, SubSeqProperties
  <2>2. i - 1 + 1 = i /\ (~ (1 <= i) => i = 0) /\ \A j \in 1 .. i : 1 + j - 1 = j
    OBVIOUS
  <2> QED BY <2>1, <2>2 DEF Blocks
<1> HIDE DEF p
<1>3. /\ q \in Blocks /\ Len(q) = i + 1 /\ \A j \in 1 .. i : q[j] = p[j]
      /\ q[i + 1] = x
  BY <1>2 DEF Blocks
<1> HIDE DEF q
<1>4. t \in Blocks /\ Len(t) \in Nat
  <2>1. CASE t = << >>
    BY <2>1 DEF Blocks
  <2>2. CASE t = <<"none">>
    <3>1. "none" \in LastStatements
      BY DEF LastStatements
    <3> HIDE DEF LastStatements
    <3> QED BY <2>2, <3>1 DEF Blocks
  <2> QED BY <2>1, <2>2
<1>5. /\ r \in Blocks /\ Len(r) = Len(q) + Len(t)
      /\ \A j \in 1 .. Len(q) + Len(t) :
           r[j] = IF j <= Len(q) THEN q[j] ELSE t[j - Len(q)]
  <2> HIDE DEF LastStatements
  <2> QED BY <1>3, <1>4, ConcatProperties DEF Blocks
<1> HIDE DEF r
<1>6. \A j \in 1 .. i : r[j] = b[j]
  BY <1>2, <1>3, <1>4, <1>5
<1>7. r[i + 1] = x
  BY <1>3, <1>4, <1>5
<1>8. ASSUME NEW j \in 1 .. Len(t) PROVE r[i + 1 + j] = t[j]
  <2>1. i + 1 + j \in 1 .. Len(q) + Len(t) /\ ~ (i + 1 + j <= Len(q)) /\ i + 1 + j - Len(q) = j
    BY <1>3, <1>4
  <2> QED BY <1>5, <2>1
<1> QED BY <1>3, <1>5, <1>6, <1>7, <1>8 DEF r, q, p

\* Whatever came before, a line leaves an output.
LEMMA LineTyped ==
  ASSUME NEW o \in Output, NEW op \in LineOps
  PROVE  Line(o, op) \in Output /\ Line(o, op).indent = o.indent
<1> DEFINE w == WithLine(o.py, o.indent, op)
<1>1. w \in Module
  <2>1. CASE ~ o.py.ok \/ ~ LineAllowed(o.py, o.indent, op)
    <3>1. w = [o.py EXCEPT !.ok = FALSE]
      BY <2>1 DEF WithLine
    <3> QED BY <3>1, OutputFields DEF Module
  <2>2. CASE ~ (~ o.py.ok \/ ~ LineAllowed(o.py, o.indent, op))
    <3> DEFINE x == IF op \in {"if", "elif"} THEN "chain" ELSE "other"
               t == IF op \in Headers THEN <<"none">> ELSE << >>
               r == Append(SubSeq(o.py.blocks, 1, o.indent), x) \o t
    <3>1. w = [blocks |-> r, ok |-> TRUE]
      BY <2>2 DEF WithLine
    <3>2. o.indent + 1 <= Len(o.py.blocks)
      BY <2>2 DEF LineAllowed
    <3>3. x \in LastStatements /\ t \in {<< >>, <<"none">>}
      BY DEF LastStatements
    <3>4. r \in Blocks
      <4> HIDE DEF x, t
      <4> QED BY <3>2, <3>3, LineBlocks, OutputFields
    <3> HIDE DEF r
    <3> QED BY <3>1, <3>4 DEF Module
  <2> QED BY <2>1, <2>2
<1>2. Line(o, op) = [o EXCEPT !.py = w]
  BY DEF Line
<1> HIDE DEF w
<1> QED BY <1>1, <1>2 DEF Output

LEMMA IndentTyped ==
  ASSUME NEW o \in Output
  PROVE  /\ Indented(o) \in Output /\ Indented(o).indent = o.indent + 1
         /\ Dedented(o) \in Output
         /\ Dedented(o).indent = IF o.indent = 0 THEN 0 ELSE o.indent - 1
         /\ Indented(o).py = o.py /\ Dedented(o).py = o.py
<1> HIDE DEF Module
<1>1. o.indent \in Nat
  BY OutputFields
<1>2. o.indent + 1 \in Nat /\ (IF o.indent = 0 THEN 0 ELSE o.indent - 1) \in Nat
  BY <1>1
<1> QED BY <1>2 DEF Output, Indented, Dedented

LEMMA EmittersTyped ==
  ASSUME NEW o \in Output
  PROVE  /\ Simple(o) \in Output /\ Simple(o).indent = o.indent
         /\ \A op \in LineOps : /\ Opened(o, op) \in Output
                                /\ Opened(o, op).indent = o.indent + 1
                                /\ Block(o, op) \in Output
                                /\ Block(o, op).indent = o.indent
         /\ \A h \in BOOLEAN : Hoisted(o, h) \in Output /\ Hoisted(o, h).indent = o.indent
         /\ \A f : /\ Closed(o, f) \in Output
                   /\ Closed(o, f).indent = IF o.indent = 0 THEN 0 ELSE o.indent - 1
<1>0. "simple" \in LineOps
  BY DEF LineOps
<1>1. \A p \in Output : Simple(p) \in Output /\ Simple(p).indent = p.indent
  BY <1>0, LineTyped DEF Simple
<1>2. ASSUME NEW op \in LineOps
      PROVE  Opened(o, op) \in Output /\ Opened(o, op).indent = o.indent + 1
  BY LineTyped, IndentTyped DEF Opened
<1>3. ASSUME NEW op \in LineOps
      PROVE  Block(o, op) \in Output /\ Block(o, op).indent = o.indent
  <2> DEFINE p == Simple(Opened(o, op))
  <2>1. p \in Output /\ p.indent = o.indent + 1 /\ o.indent \in Nat
    BY <1>1, <1>2, OutputFields
  <2>2. Block(o, op) = Dedented(p)
    BY DEF Block
  <2> HIDE DEF p
  <2>3. Dedented(p) \in Output /\ Dedented(p).indent = IF p.indent = 0 THEN 0 ELSE p.indent - 1
    BY <2>1, IndentTyped
  <2> QED BY <2>1, <2>2, <2>3
<1>4. ASSUME NEW h \in BOOLEAN
      PROVE  Hoisted(o, h) \in Output /\ Hoisted(o, h).indent = o.indent
  BY <1>1 DEF Hoisted
<1>5. ASSUME NEW f
      PROVE  /\ Closed(o, f) \in Output
             /\ Closed(o, f).indent = IF o.indent = 0 THEN 0 ELSE o.indent - 1
  <2> DEFINE p == IF ClosesWithLine(f) THEN Simple(o) ELSE o
  <2>1. p \in Output /\ p.indent = o.indent
    BY <1>1
  <2>2. Closed(o, f) = Dedented(p)
    BY DEF Closed
  <2> HIDE DEF p
  <2> QED BY <2>1, <2>2, IndentTyped
<1> QED BY <1>1, <1>2, <1>3, <1>4, <1>5
-----------------------------------------------------------------------------
(***************************************************************************)
(* What the handlers push and pop together: the frames, the branch depth   *)
(* (l), the open Pine scopes (h), the scope stack (d) and the indentation  *)
(* (i).  A Translator used again may be left deeper than its handlers.     *)
(***************************************************************************)
OneIf(p) == IF p THEN 1 ELSE 0

Rooted(fs, p) ==
  /\ fs # << >> => p \in {"functions", "body"}
  /\ p = "body" <=> (fs # << >> /\ fs[1].kind = "bar")

Stacked(fs) ==
  /\ fs \in Seq(Frame) /\ Len(fs) <= MaxFrames
  /\ \A k \in 1 .. Len(fs) : k = 1 <=> fs[k].kind \in {"def", "bar"}
  /\ \A k \in 1 .. Len(fs) - 1 : fs[k].kind # "leaf"

Deep(fs, l, h, d, i) ==
  /\ fs # << >> /\ fs[Len(fs)].kind = "leaf" => d <= MaxScopes
  /\ l = CountOf(fs, BranchKinds)
  /\ h = 1 + CountOf(fs, OwnKinds)
  /\ d \in Nat /\ h <= d
  /\ i \in Nat /\ Len(fs) <= i
  /\ ~ Retranslates => h = d /\ i = Len(fs)

LEMMA StackEmpty ==
  ASSUME NEW d \in Nat \ {0}, NEW i \in Nat, ~ Retranslates => d = 1 /\ i = 0
  PROVE  Stacked(<< >>) /\ Deep(<< >>, 0, 1, d, i)
<1>1. CountOf(<< >>, BranchKinds) = 0 /\ CountOf(<< >>, OwnKinds) = 0
  BY CountNone
<1>2. << >> \in Seq(Frame) /\ Len(<< >>) = 0
  OBVIOUS
<1>3. Stacked(<< >>)
  BY <1>2, LoweringAssumption DEF Stacked
<1> QED BY <1>1, <1>2, <1>3 DEF Deep

\* A handler starts, under the others or as the first one.
LEMMA StackPush ==
  ASSUME NEW fs, Stacked(fs), NEW l, NEW h, NEW d, NEW i, Deep(fs, l, h, d, i),
         Len(fs) < MaxFrames, fs # << >> => fs[Len(fs)].kind # "leaf",
         NEW f \in Frame, fs = << >> <=> f.kind \in {"def", "bar"},
         f.kind = "leaf" => d <= MaxScopes
  PROVE  /\ Stacked(Append(fs, f))
         /\ Deep(Append(fs, f), l + OneIf(f.kind \in BranchKinds),
                 h + OneIf(f.kind \in OwnKinds), d + OneIf(f.kind \in OwnKinds), i + 1)
<1> DEFINE gs == Append(fs, f)
           n == Len(fs)
<1>1. /\ gs \in Seq(Frame) /\ n \in Nat /\ Len(gs) = n + 1
      /\ \A k \in 1 .. n : gs[k] = fs[k]
      /\ gs[n + 1] = f
  BY PushedFrame DEF Stacked
<1>2. n = 0 <=> fs = << >>
  BY DEF Stacked
<1>3. /\ fs \in Seq(Frame) /\ n <= MaxFrames
      /\ \A k \in 1 .. n : k = 1 <=> fs[k].kind \in {"def", "bar"}
      /\ \A k \in 1 .. n - 1 : fs[k].kind # "leaf"
  BY DEF Stacked
<1>4. /\ CountOf(gs, BranchKinds) = CountOf(fs, BranchKinds) + OneIf(f.kind \in BranchKinds)
      /\ CountOf(gs, OwnKinds) = CountOf(fs, OwnKinds) + OneIf(f.kind \in OwnKinds)
  <2>1. \A k \in 1 .. n : gs[k].kind = fs[k].kind
    BY <1>1
  <2>2. \A S : CountOf(gs, S) = CountOf(fs, S) + IF gs[Len(gs)].kind \in S THEN 1 ELSE 0
    <3> HIDE DEF gs, Frame
    <3> QED BY <1>1, <1>3, <2>1, CountMore
  <2>3. gs[Len(gs)] = f
    BY <1>1
  <2> HIDE DEF gs
  <2> QED BY <2>2, <2>3 DEF OneIf
<1>5. CountOf(fs, BranchKinds) \in Nat /\ CountOf(fs, OwnKinds) \in Nat
  BY <1>3, CountType
<1> HIDE DEF gs, n
<1>6. Stacked(gs)
  <2>1. \A k \in 1 .. n + 1 : k = 1 <=> gs[k].kind \in {"def", "bar"}
    BY <1>1, <1>2, <1>3
  <2>2. \A k \in 1 .. n + 1 - 1 : gs[k].kind # "leaf"
    <3>1. \A k \in 1 .. n : fs[k].kind # "leaf"
      BY <1>1, <1>2, <1>3 DEF n
    <3> QED BY <1>1, <3>1
  <2>3. n + 1 <= MaxFrames
    BY <1>1, LoweringAssumption DEF n
  <2> QED BY <1>1, <2>1, <2>2, <2>3 DEF Stacked
<1>7. Deep(gs, l + OneIf(f.kind \in BranchKinds), h + OneIf(f.kind \in OwnKinds),
           d + OneIf(f.kind \in OwnKinds), i + 1)
  <2> DEFINE b == OneIf(f.kind \in BranchKinds)
             w == OneIf(f.kind \in OwnKinds)
  <2>1. b \in {0, 1} /\ w \in {0, 1} /\ (f.kind = "leaf" => w = 0)
    BY DEF OneIf, OwnKinds
  <2>2. /\ l = CountOf(fs, BranchKinds) /\ h = 1 + CountOf(fs, OwnKinds)
        /\ d \in Nat /\ h <= d /\ i \in Nat /\ n <= i
        /\ ~ Retranslates => h = d /\ i = n
    BY DEF Deep, n
  <2>3. gs[Len(gs)].kind = "leaf" => d + w <= MaxScopes
    BY <1>1, <2>1, <2>2
  <2> HIDE DEF b, w
  <2>4. /\ l + b = CountOf(gs, BranchKinds) /\ h + w = 1 + CountOf(gs, OwnKinds)
        /\ d + w \in Nat /\ h + w <= d + w /\ i + 1 \in Nat /\ Len(gs) <= i + 1
        /\ ~ Retranslates => h + w = d + w /\ i + 1 = Len(gs)
    BY <1>1, <1>4, <1>5, <2>1, <2>2 DEF b, w
  <2> QED BY <2>3, <2>4 DEF Deep, b, w
<1> QED BY <1>6, <1>7 DEF gs

\* A handler ends.
LEMMA StackPop ==
  ASSUME NEW fs, Stacked(fs), NEW l, NEW h, NEW d, NEW i, Deep(fs, l, h, d, i),
         fs # << >>, d <= MaxScopes + 1, NEW kind, kind = fs[Len(fs)].kind
  PROVE  /\ Stacked(Front(fs))
         /\ Deep(Front(fs), l - OneIf(kind \in BranchKinds), h - OneIf(kind \in OwnKinds),
                 d - OneIf(kind \in OwnKinds), i - 1)
         /\ i > 0 /\ i - 1 \in Nat /\ l \in Nat /\ h \in Nat
         /\ d - OneIf(kind \in OwnKinds) > 0
         /\ kind \in BranchKinds => l > 0
         /\ kind \in OwnKinds => h > 1 /\ d > 1
         /\ kind # "bar" => d - OneIf(kind \in OwnKinds) <= MaxScopes
         /\ Front(fs) = << >> <=> kind \in {"def", "bar"}
         /\ Front(fs) # << >> => /\ Front(fs)[Len(Front(fs))].kind # "leaf"
                                 /\ Front(fs)[1] = fs[1]
<1> DEFINE gs == Front(fs)
           n == Len(fs)
           b == OneIf(kind \in BranchKinds)
           w == OneIf(kind \in OwnKinds)
<1>1. /\ fs \in Seq(Frame) /\ n \in Nat \ {0} /\ n <= MaxFrames
      /\ \A k \in 1 .. n : k = 1 <=> fs[k].kind \in {"def", "bar"}
      /\ \A k \in 1 .. n - 1 : fs[k].kind # "leaf"
  BY DEF Stacked
<1>2. /\ gs \in Seq(Frame) /\ Len(gs) = n - 1 /\ \A k \in 1 .. n - 1 : gs[k] = fs[k]
  BY <1>1, PoppedFrame
<1>3. /\ fs[n].kind = "leaf" => d <= MaxScopes
      /\ l = CountOf(fs, BranchKinds) /\ h = 1 + CountOf(fs, OwnKinds)
      /\ d \in Nat /\ h <= d /\ i \in Nat /\ n <= i
      /\ ~ Retranslates => h = d /\ i = n
  BY DEF Deep
<1>4. b \in {0, 1} /\ w \in {0, 1}
  BY DEF OneIf
<1>5. kind \in FrameKinds
  <2>1. fs[n] \in Frame
    <3> HIDE DEF Frame
    <3> QED BY <1>1
  <2> QED BY <2>1 DEF Frame
<1> HIDE DEF gs
<1>6. /\ CountOf(fs, BranchKinds) = CountOf(gs, BranchKinds) + b
      /\ CountOf(fs, OwnKinds) = CountOf(gs, OwnKinds) + w
      /\ CountOf(gs, BranchKinds) \in Nat /\ CountOf(gs, OwnKinds) \in Nat
  <2>1. n = Len(gs) + 1 /\ \A k \in 1 .. Len(gs) : fs[k].kind = gs[k].kind
    BY <1>1, <1>2
  <2>2. \A S : CountOf(fs, S) = CountOf(gs, S) + IF fs[n].kind \in S THEN 1 ELSE 0
    <3> HIDE DEF Frame
    <3> QED BY <1>1, <1>2, <2>1, CountMore
  <2>3. CountOf(gs, BranchKinds) \in Nat /\ CountOf(gs, OwnKinds) \in Nat
    BY <1>2, CountType
  <2> QED BY <2>2, <2>3 DEF OneIf
<1>7. n = 1 <=> kind \in {"def", "bar"}
  <2>1. n \in 1 .. n
    BY <1>1
  <2> QED BY <1>1, <2>1
<1>8. gs = << >> <=> n = 1
  BY <1>1, <1>2
<1>9. kind \notin {"leaf", "bar"} => w = 1
  BY <1>5 DEF OneIf, OwnKinds
<1>10. (kind \in BranchKinds => b = 1) /\ (kind \in OwnKinds => w = 1)
  BY DEF OneIf
<1>11. gs # << >> => gs[Len(gs)].kind # "leaf" /\ gs[1] = fs[1]
  <2>1. ASSUME gs # << >> PROVE n - 1 \in 1 .. n - 1 /\ 1 \in 1 .. n - 1
    <3>1. n # 1 /\ n - 1 \in Nat
      BY <1>1, <1>8, <2>1
    <3> HIDE DEF n
    <3> QED BY <1>1, <3>1
  <2> QED BY <1>1, <1>2, <2>1
<1>12. Stacked(gs)
  <2>1. \A k \in 1 .. n - 1 : k \in 1 .. n
    BY <1>1
  <2>2. \A k \in 1 .. n - 1 - 1 : k \in 1 .. n - 1
    BY <1>1
  <2>3. n - 1 <= MaxFrames
    BY <1>1, LoweringAssumption
  <2> QED BY <1>1, <1>2, <2>1, <2>2, <2>3 DEF Stacked
<1> HIDE DEF b, w, n
<1>13. kind # "bar" => d - w <= MaxScopes
  <2>1. CASE kind = "leaf"
    BY <1>3, <1>4, <2>1, ContextAssumption DEF n
  <2>2. CASE kind \notin {"leaf", "bar"}
    BY <1>3, <1>9, <2>2, ContextAssumption
  <2> QED BY <2>1, <2>2
<1>14. /\ l - b = CountOf(gs, BranchKinds) /\ h - w = 1 + CountOf(gs, OwnKinds)
       /\ d - w \in Nat /\ h - w <= d - w /\ d - w > 0 /\ i - 1 \in Nat /\ n - 1 <= i - 1 /\ i > 0
       /\ l \in Nat /\ h \in Nat
       /\ w = 1 => h > 1 /\ d > 1
       /\ b = 1 => l > 0
       /\ ~ Retranslates => h - w = d - w /\ i - 1 = n - 1
  BY <1>1, <1>3, <1>4, <1>6, SMTT(30)
<1>15. Deep(gs, l - b, h - w, d - w, i - 1)
  BY <1>2, <1>11, <1>14 DEF Deep
<1> QED BY <1>7, <1>8, <1>10, <1>11, <1>12, <1>13, <1>14, <1>15 DEF b, w, gs

\* A handler has lowered a statement.
LEMMA StackNoted ==
  ASSUME Stacked(frames), frames # << >>, NEW v \in BOOLEAN
  PROVE  /\ Stacked(Noted(v)) /\ Len(Noted(v)) = Len(frames) /\ Noted(v) # << >>
         /\ Noted(v)[Len(frames)].kind = frames[Len(frames)].kind
         /\ Noted(v)[1].kind = frames[1].kind
         /\ \A l, h, d, i : Deep(frames, l, h, d, i) => Deep(Noted(v), l, h, d, i)
<1> DEFINE gs == Noted(v)
           n == Len(frames)
<1>1. /\ frames \in Seq(Frame) /\ n \in Nat \ {0} /\ n <= MaxFrames
      /\ \A k \in 1 .. n : k = 1 <=> frames[k].kind \in {"def", "bar"}
      /\ \A k \in 1 .. n - 1 : frames[k].kind # "leaf"
  BY DEF Stacked
<1>2. /\ gs \in Seq(Frame) /\ Len(gs) = n
      /\ \A k \in 1 .. n : gs[k].kind = frames[k].kind
  BY <1>1, NotedFrame
<1> HIDE DEF gs
<1>3. gs # << >> /\ 1 \in 1 .. n /\ n \in 1 .. n /\ \A k \in 1 .. n - 1 : k \in 1 .. n
  BY <1>1, <1>2
<1>4. Stacked(gs)
  BY <1>1, <1>2, <1>3 DEF Stacked
<1>5. \A S : CountOf(gs, S) = CountOf(frames, S)
  BY <1>2, CountSame
<1>6. ASSUME NEW l, NEW h, NEW d, NEW i, Deep(frames, l, h, d, i) PROVE Deep(gs, l, h, d, i)
  BY <1>2, <1>3, <1>5, <1>6 DEF Deep
<1> QED BY <1>2, <1>3, <1>4, <1>6 DEF gs
-----------------------------------------------------------------------------
(***************************************************************************)
(* The context under the handlers.                                         *)
(***************************************************************************)
\* A set of positions has a last one.
LEMMA LastPosition ==
  ASSUME NEW n \in Nat, NEW S, S \subseteq 1 .. n, S # {}
  PROVE  \E j \in S : \A i \in S : i <= j
<1> DEFINE T == {n - j : j \in S}
<1>1. T \subseteq Nat /\ T # {}
  <2>1. \A j \in S : j \in Int /\ n - j \in Nat
    OBVIOUS
  <2> QED BY <2>1
<1>2. \E x \in T : \A y \in T : ~ (<<y, x>> \in OpToRel(<, Nat))
  <2> HIDE DEF T
  <2> QED BY <1>1, WFMin, NatLessThanWellFounded, Zenon
<1>3. PICK x \in T : \A y \in T : ~ (y < x)
  <2>1. \A x, y \in T : y < x => <<y, x>> \in OpToRel(<, Nat)
    BY <1>1, Zenon DEF OpToRel
  <2> QED BY <1>2, <2>1
<1>4. PICK j \in S : x = n - j
  OBVIOUS
<1>5. \A i \in S : ~ (n - i < n - j)
  BY <1>3, <1>4
<1> QED BY <1>5

\* resolve_var finds the innermost declaration, or nothing.
LEMMA ResolveFinds ==
  ASSUME NEW c, Typed(c), NEW n \in Names
  PROVE  /\ Resolve(c, n) \in 0 .. Len(c.heap)
         /\ Resolve(c, n) = 0 => \A d \in 1 .. Len(c.scopes) : c.scopes[d].vars[n] = 0
         /\ \A d \in 1 .. Len(c.scopes) :
              /\ c.scopes[d].vars[n] # 0
              /\ \A e \in 1 .. Len(c.scopes) : d < e => c.scopes[e].vars[n] = 0
              => Resolve(c, n) = c.scopes[d].vars[n]
<1> DEFINE D == DeclaringDepths(c, n)
           last == CHOOSE d \in D : \A e \in D : e <= d
<1>1. /\ Len(c.scopes) \in Nat
      /\ \A d \in 1 .. Len(c.scopes) : c.scopes[d].vars[n] \in 0 .. Len(c.heap)
  BY DEF Typed, Context
<1>2. D = {d \in 1 .. Len(c.scopes) : c.scopes[d].vars[n] # 0}
  BY DEF DeclaringDepths, Depth
<1>3. Resolve(c, n) = IF D = {} THEN 0 ELSE c.scopes[last].vars[n]
  BY DEF Resolve
<1> HIDE DEF D
<1>4. CASE D = {}
  <2>1. Len(c.heap) \in Nat
    BY DEF Typed, Context
  <2>2. Resolve(c, n) = 0
    BY <1>3, <1>4
  <2>3. Resolve(c, n) \in 0 .. Len(c.heap)
    BY <2>1, <2>2
  <2>4. \A d \in 1 .. Len(c.scopes) : c.scopes[d].vars[n] = 0
    BY <1>2, <1>4
  <2> QED BY <2>3, <2>4, Zenon
<1>5. CASE D # {}
  <2>1. D \subseteq 1 .. Len(c.scopes)
    BY <1>2
  <2>2. \E d \in D : \A e \in D : e <= d
    BY <1>1, <1>5, <2>1, LastPosition
  <2>3. last \in D /\ \A e \in D : e <= last
    BY <2>2
  <2> HIDE DEF last
  <2>4. last \in 1 .. Len(c.scopes) /\ c.scopes[last].vars[n] # 0
    BY <1>2, <2>3
  <2>5. ASSUME NEW d \in 1 .. Len(c.scopes), c.scopes[d].vars[n] # 0,
               \A e \in 1 .. Len(c.scopes) : d < e => c.scopes[e].vars[n] = 0
        PROVE  d = last
    <3>1. d <= last
      BY <1>2, <2>3, <2>5
    <3>2. ~ (d < last)
      BY <2>4, <2>5
    <3> QED BY <1>1, <2>4, <3>1, <3>2
  <2>6. Resolve(c, n) = c.scopes[last].vars[n]
    BY <1>3, <1>5
  <2>7. Resolve(c, n) \in 0 .. Len(c.heap) /\ Resolve(c, n) # 0
    BY <1>1, <2>4, <2>6
  <2>8. ASSUME NEW d \in 1 .. Len(c.scopes), c.scopes[d].vars[n] # 0,
               \A e \in 1 .. Len(c.scopes) : d < e => c.scopes[e].vars[n] = 0
        PROVE  Resolve(c, n) = c.scopes[d].vars[n]
    BY <2>5, <2>6, <2>8, Zenon
  <2> QED BY <2>7, <2>8, Zenon
<1> QED BY <1>4, <1>5

LEMMA ResolveTop ==
  ASSUME NEW c, Typed(c), NEW n \in Names, CurrentScope(c).vars[n] # 0
  PROVE  Resolve(c, n) = CurrentScope(c).vars[n]
<1>1. /\ Len(c.scopes) \in Nat \ {0}
      /\ CurrentScope(c) = c.scopes[Len(c.scopes)]
  BY DEF Typed, Context, CurrentScope, Depth
<1>2. /\ Len(c.scopes) \in 1 .. Len(c.scopes)
      /\ \A e \in 1 .. Len(c.scopes) : ~ (Len(c.scopes) < e)
  BY <1>1
<1> QED BY <1>1, <1>2, ResolveFinds

Sound(c) == Typed(c) /\ NamesInv(c)

\* A context in which names of a set were declared in the current scope.
Grown(c, c2, N) ==
  /\ Sound(c2)
  /\ Len(c2.scopes) = Len(c.scopes)
  /\ Len(c.heap) <= Len(c2.heap)
  /\ \A i \in 1 .. Len(c.heap) : c2.heap[i] = c.heap[i]
  /\ \A d \in 1 .. Len(c.scopes), m \in Names :
       c.scopes[d].vars[m] # 0 \/ d # Len(c.scopes) \/ m \notin N
       => c2.scopes[d].vars[m] = c.scopes[d].vars[m]

LEMMA GrownSame ==
  ASSUME NEW c, Sound(c), NEW N
  PROVE  Grown(c, c, N)
<1>1. Len(c.heap) \in Nat
  BY DEF Sound, Typed, Context
<1> QED BY <1>1, SMTT(30) DEF Grown

LEMMA GrownMore ==
  ASSUME NEW a, Sound(a), NEW b, NEW c, NEW N, NEW M, Grown(a, b, N), Grown(b, c, M)
  PROVE  Grown(a, c, N \union M)
<1>1. Len(a.heap) \in Nat /\ Len(b.heap) \in Nat /\ Len(c.heap) \in Nat
  BY DEF Grown, Sound, Typed, Context
<1>2. Len(a.heap) <= Len(c.heap) /\ \A i \in 1 .. Len(a.heap) : c.heap[i] = a.heap[i]
  BY <1>1 DEF Grown
<1>3. ASSUME NEW d \in 1 .. Len(a.scopes), NEW m \in Names,
             a.scopes[d].vars[m] # 0 \/ d # Len(a.scopes) \/ m \notin N \union M
      PROVE  c.scopes[d].vars[m] = a.scopes[d].vars[m]
  BY <1>3 DEF Grown
<1> QED BY <1>2, <1>3 DEF Grown

LEMMA DeclaredGrown ==
  ASSUME NEW c, Sound(c), NEW n \in Names, NEW kind \in DeclKinds, NEW series \in BOOLEAN,
         CurrentScope(c).vars[n] = 0 => CanReserve(c, Preferred(n, kind))
  PROVE  /\ Grown(c, Declared(c, n, kind, series), {n})
         /\ CurrentScope(Declared(c, n, kind, series)).vars[n] # 0
<1> DEFINE c2 == Declared(c, n, kind, series)
<1>1. CASE CurrentScope(c).vars[n] # 0
  <2>1. c2 = c
    BY <1>1 DEF Declared
  <2> HIDE DEF c2
  <2> QED BY <1>1, <2>1, GrownSame DEF c2
<1>2. CASE CurrentScope(c).vars[n] = 0
  <2>1. IsDeclaration(c, c2, n, kind, series)
    BY <1>2 DEF IsDeclaration
  <2> HIDE DEF c2
  <2>2. Typed(c2) /\ NamesInv(c2)
    BY <2>1, DeclarationTyped, DeclarationNames DEF Sound
  <2>3. /\ Len(c.heap) \in Nat /\ Len(c2.heap) = Len(c.heap) + 1
        /\ \A i \in 1 .. Len(c.heap) : c2.heap[i] = c.heap[i]
    BY <2>1, NewHeap DEF Sound
  <2>4. /\ Len(c2.scopes) = Len(c.scopes)
        /\ \A d \in 1 .. Len(c.scopes), m \in Names :
             c2.scopes[d].vars[m] =
               IF d = Len(c.scopes) /\ m = n THEN Len(c.heap) + 1
               ELSE c.scopes[d].vars[m]
    BY <2>1, NewScopes DEF Sound
  <2>5. c.scopes[Len(c.scopes)].vars[n] = 0 /\ Len(c.scopes) \in 1 .. Len(c.scopes)
    BY <1>2 DEF Sound, Typed, Context, CurrentScope, Depth
  <2>6. ASSUME NEW d \in 1 .. Len(c.scopes), NEW m \in Names,
               c.scopes[d].vars[m] # 0 \/ d # Len(c.scopes) \/ m \notin {n}
        PROVE  c2.scopes[d].vars[m] = c.scopes[d].vars[m]
    BY <2>4, <2>5, <2>6
  <2>7. c2.scopes[Len(c2.scopes)].vars[n] # 0
    <3>1. Len(c.heap) + 1 # 0
      BY <2>3
    <3> QED BY <2>4, <2>5, <3>1
  <2>8. Len(c.heap) <= Len(c2.heap)
    BY <2>3
  <2>9. Grown(c, c2, {n})
    BY <2>2, <2>3, <2>4, <2>6, <2>8 DEF Grown, Sound
  <2> QED BY <2>7, <2>9 DEF c2, CurrentScope, Depth
<1> QED BY <1>1, <1>2

\* What is visible stays visible.
LEMMA GrownResolve ==
  ASSUME NEW c, Sound(c), NEW c2, NEW N, Grown(c, c2, N), NEW m \in Names, Resolve(c, m) # 0
  PROVE  Resolve(c2, m) # 0
<1>1. Typed(c) /\ Typed(c2)
  BY DEF Grown, Sound
<1>2. ASSUME \A d \in 1 .. Len(c.scopes) : c.scopes[d].vars[m] = 0 PROVE FALSE
  <2>1. DeclaringDepths(c, m) = {}
    BY <1>2 DEF DeclaringDepths, Depth
  <2> QED BY <2>1 DEF Resolve
<1>3. PICK d \in 1 .. Len(c.scopes) : c.scopes[d].vars[m] # 0
  BY <1>2
<1>4. d \in 1 .. Len(c2.scopes) /\ c2.scopes[d].vars[m] # 0
  BY <1>3 DEF Grown
<1> QED BY <1>1, <1>4, ResolveFinds

LEMMA ResolvedGrown ==
  ASSUME NEW c, Sound(c), NEW n \in Names, NEW kind \in DeclKinds, MayResolve(c, n, kind)
  PROVE  /\ Grown(c, ResolvedOrDeclared(c, n, kind), {n})
         /\ Resolve(ResolvedOrDeclared(c, n, kind), n) # 0
<1> DEFINE s == IsSeriesHere(c)
           c2 == Declared(c, n, kind, s)
<1>1. CASE Resolve(c, n) # 0
  BY <1>1, GrownSame DEF ResolvedOrDeclared
<1>2. CASE Resolve(c, n) = 0
  <2>1. s \in BOOLEAN /\ CanReserve(c, Preferred(n, kind))
    BY <1>2 DEF MayResolve, IsSeriesHere
  <2> HIDE DEF s
  <2>2. Grown(c, c2, {n}) /\ CurrentScope(c2).vars[n] # 0
    BY <2>1, DeclaredGrown
  <2>3. ResolvedOrDeclared(c, n, kind) = c2
    BY <1>2 DEF ResolvedOrDeclared, s
  <2> HIDE DEF c2
  <2>4. Resolve(c2, n) # 0
    BY <2>2, ResolveTop DEF Grown, Sound
  <2> QED BY <2>2, <2>3, <2>4
<1> QED BY <1>1, <1>2

LEMMA BothGrown ==
  ASSUME NEW c, Sound(c), NEW ns \in NameLists, NEW kind \in DeclKinds,
         MayDeclareBoth(c, ns, kind)
  PROVE  /\ Grown(c, DeclaredBoth(c, ns, kind), {ns[1], ns[2]})
         /\ \A n \in {ns[1], ns[2]} : CurrentScope(DeclaredBoth(c, ns, kind)).vars[n] # 0
<1> DEFINE one == Declared(c, ns[1], kind, FALSE)
           two == Declared(one, ns[2], kind, FALSE)
<1>1. ns[1] \in Names /\ ns[2] \in Names /\ CanReserve(c, Preferred(ns[1], kind))
  BY DEF NameLists, MayDeclareBoth
<1>2. Grown(c, one, {ns[1]}) /\ CurrentScope(one).vars[ns[1]] # 0
  BY <1>1, DeclaredGrown
<1>3. CurrentScope(one).vars[ns[2]] = 0 => CanReserve(one, Preferred(ns[2], kind))
  <2> SUFFICES ASSUME CurrentScope(one).vars[ns[2]] = 0
               PROVE  CanReserve(one, Preferred(ns[2], kind))
    OBVIOUS
  <2>1. ns[1] # ns[2]
    BY <1>2
  <2> QED BY <2>1 DEF MayDeclareBoth
<1>4. DeclaredBoth(c, ns, kind) = two
  BY DEF DeclaredBoth
<1> HIDE DEF one
<1>5. Sound(one)
  BY <1>2 DEF Grown
<1>6. Grown(one, two, {ns[2]}) /\ CurrentScope(two).vars[ns[2]] # 0
  BY <1>1, <1>3, <1>5, DeclaredGrown
<1> HIDE DEF two
<1>7. Grown(c, two, {ns[1], ns[2]})
  <2>1. {ns[1], ns[2]} = {ns[1]} \union {ns[2]}
    OBVIOUS
  <2> QED BY <1>2, <1>6, <2>1, GrownMore
<1>8. CurrentScope(two).vars[ns[1]] # 0
  <2>1. /\ Len(two.scopes) = Len(one.scopes)
        /\ Len(one.scopes) \in 1 .. Len(one.scopes)
    BY <1>5, <1>6 DEF Grown, Sound, Typed, Context
  <2> QED BY <1>1, <1>2, <1>6, <2>1 DEF Grown, CurrentScope, Depth
<1> QED BY <1>4, <1>6, <1>7, <1>8
-----------------------------------------------------------------------------
(***************************************************************************)
(* The inductive invariant of the handlers, for all constants.             *)
(***************************************************************************)
HomeTable == [Names -> Cells \union {NoCell}]
Phases == {"start", "collect", "functions", "body", "done", "raised"}

Handlers(c, fs, l, o, h, p) ==
  /\ Sound(c)
  /\ o \in Output
  /\ h \in Seq(HomeTable) /\ h # << >>
  /\ p \in Phases
  /\ Rooted(fs, p)
  /\ p = "raised" => fs = << >> /\ l = 0
  /\ p # "raised" => Stacked(fs) /\ Deep(fs, l, Len(h), Len(c.scopes), o.indent)

HandlersInv == Handlers(ctx, frames, lazy, out, homes, phase)

\* What the invariant says while a handler is running.
LEMMA Running ==
  ASSUME HandlersInv, frames # << >>
  PROVE  /\ Sound(ctx) /\ out \in Output /\ homes \in Seq(HomeTable) /\ homes # << >>
         /\ phase \in {"functions", "body"} /\ phase \in Phases /\ phase # "raised"
         /\ phase = "body" <=> frames[1].kind = "bar"
         /\ Stacked(frames) /\ Deep(frames, lazy, Len(homes), Len(ctx.scopes), out.indent)
         /\ Top.kind \in FrameKinds /\ Len(frames) \in Nat \ {0}
         /\ Len(homes) \in Nat /\ Len(ctx.scopes) \in 1 .. MaxScopes + 1
<1>1. /\ Sound(ctx) /\ out \in Output /\ homes \in Seq(HomeTable) /\ homes # << >>
      /\ phase \in {"functions", "body"} /\ phase \in Phases /\ phase # "raised"
      /\ phase = "body" <=> frames[1].kind = "bar"
      /\ Stacked(frames) /\ Deep(frames, lazy, Len(homes), Len(ctx.scopes), out.indent)
  BY DEF HandlersInv, Handlers, Rooted
<1>2. Top.kind \in FrameKinds /\ Len(frames) \in Nat \ {0}
  <2>1. frames \in Seq(Frame)
    BY <1>1 DEF Stacked
  <2>2. Len(frames) \in Nat \ {0} /\ frames[Len(frames)] \in Frame
    <3> HIDE DEF Frame
    <3> QED BY <2>1
  <2> QED BY <2>2 DEF Top, Frame
<1>3. Len(homes) \in Nat
  BY <1>1
<1>4. Len(ctx.scopes) \in 1 .. MaxScopes + 1
  BY <1>1 DEF Sound, Typed
<1> QED BY <1>1, <1>2, <1>3, <1>4

\* Between the handlers there is one scope open.
LEMMA Resting ==
  ASSUME HandlersInv, frames = << >>, phase # "raised"
  PROVE  /\ Sound(ctx) /\ out \in Output /\ homes \in Seq(HomeTable) /\ Len(homes) = 1
         /\ Len(ctx.scopes) \in Nat \ {0} /\ out.indent \in Nat /\ lazy = 0
         /\ ~ Retranslates => Len(ctx.scopes) = 1 /\ out.indent = 0
<1>1. /\ Sound(ctx) /\ out \in Output /\ homes \in Seq(HomeTable)
      /\ Deep(<< >>, lazy, Len(homes), Len(ctx.scopes), out.indent)
  BY DEF HandlersInv, Handlers
<1>2. CountOf(<< >>, BranchKinds) = 0 /\ CountOf(<< >>, OwnKinds) = 0
  BY CountNone
<1>3. Len(ctx.scopes) \in Nat \ {0}
  BY <1>1 DEF Sound, Typed, Context
<1>4. /\ lazy = 0 /\ Len(homes) = 1 /\ out.indent \in Nat
      /\ ~ Retranslates => Len(ctx.scopes) = 1 /\ out.indent = 0
  <2>1. /\ lazy = CountOf(<< >>, BranchKinds) /\ Len(homes) = 1 + CountOf(<< >>, OwnKinds)
        /\ out.indent \in Nat
        /\ ~ Retranslates => Len(homes) = Len(ctx.scopes) /\ out.indent = Len(<< >>)
    BY <1>1, Zenon DEF Deep
  <2>2. Len(<< >>) = 0
    OBVIOUS
  <2>3. lazy = 0 /\ Len(homes) = 1 + 0
    BY <1>2, <2>1, Zenon
  <2>4. ~ Retranslates => Len(ctx.scopes) = Len(homes) /\ out.indent = 0
    BY <2>1, <2>2, Zenon
  <2>5. Len(homes) = 1
    BY <2>3
  <2> QED BY <2>1, <2>3, <2>4, <2>5, Zenon
<1> QED BY <1>1, <1>3, <1>4

LEMMA HandlersRest ==
  ASSUME NEW c, Sound(c), NEW o \in Output, NEW h \in Seq(HomeTable), Len(h) = 1,
         NEW p \in Phases \ {"body"}, ~ Retranslates => Len(c.scopes) = 1 /\ o.indent = 0
  PROVE  Handlers(c, << >>, 0, o, h, p)
<1>1. Rooted(<< >>, p)
  BY DEF Rooted
<1>2. Len(c.scopes) \in Nat \ {0} /\ o.indent \in Nat
  BY OutputFields DEF Sound, Typed, Context
<1>3. Stacked(<< >>) /\ Deep(<< >>, 0, 1, Len(c.scopes), o.indent)
  BY <1>2, StackEmpty
<1>4. h # << >> /\ p \in Phases /\ p # "body"
  <2>1. Len(<< >>) = 0
    OBVIOUS
  <2>2. Len(h) # Len(<< >>)
    BY <2>1
  <2> QED BY <2>2, Zenon
<1> HIDE DEF Phases
<1> QED BY <1>1, <1>3, <1>4 DEF Handlers

\* A statement of the running handler's block.
LEMMA HandlersNoted ==
  ASSUME HandlersInv, frames # << >>, NEW v \in BOOLEAN,
         NEW c, Sound(c), Len(c.scopes) = Len(ctx.scopes),
         NEW o \in Output, o.indent = out.indent,
         NEW h \in Seq(HomeTable), Len(h) = Len(homes)
  PROVE  Handlers(c, Noted(v), lazy, o, h, phase)
<1>1. /\ phase \in Phases /\ phase # "raised" /\ phase \in {"functions", "body"}
      /\ phase = "body" <=> frames[1].kind = "bar"
      /\ Stacked(frames) /\ Deep(frames, lazy, Len(homes), Len(ctx.scopes), out.indent)
      /\ homes \in Seq(HomeTable) /\ homes # << >>
  BY Running
<1>2. /\ Stacked(Noted(v)) /\ Noted(v) # << >> /\ Noted(v)[1].kind = frames[1].kind
      /\ Deep(Noted(v), lazy, Len(homes), Len(ctx.scopes), out.indent)
  BY <1>1, StackNoted
<1>3. Rooted(Noted(v), phase)
  BY <1>1, <1>2 DEF Rooted
<1>4. h # << >>
  BY <1>1
<1> QED BY <1>1, <1>2, <1>3, <1>4 DEF Handlers

\* A structure starts in the running handler's block.
LEMMA HandlersNest ==
  ASSUME HandlersInv, MayNest, NEW kind \in FrameKinds \ {"def", "bar"},
         kind = "leaf" => Len(ctx.scopes) <= MaxScopes,
         NEW c, Sound(c), Len(c.scopes) = Len(ctx.scopes) + OneIf(kind \in OwnKinds),
         NEW o \in Output, o.indent = out.indent + 1,
         NEW h \in Seq(HomeTable), Len(h) = Len(homes) + OneIf(kind \in OwnKinds)
  PROVE  Handlers(c, Append(Noted(FALSE), Framed(kind)),
                  lazy + OneIf(kind \in BranchKinds), o, h, phase)
<1> DEFINE fs == Noted(FALSE)
           gs == Append(fs, Framed(kind))
<1>0. frames # << >> /\ Top.kind # "leaf" /\ Len(frames) < MaxFrames
  BY DEF MayNest, AtStatement
<1>1. /\ phase \in Phases /\ phase # "raised" /\ phase \in {"functions", "body"}
      /\ phase = "body" <=> frames[1].kind = "bar"
      /\ Stacked(frames) /\ Deep(frames, lazy, Len(homes), Len(ctx.scopes), out.indent)
      /\ homes \in Seq(HomeTable) /\ homes # << >>
  BY <1>0, Running
<1>2. /\ Stacked(fs) /\ fs # << >> /\ fs[1].kind = frames[1].kind /\ Len(fs) = Len(frames)
      /\ fs[Len(fs)].kind = Top.kind
      /\ Deep(fs, lazy, Len(homes), Len(ctx.scopes), out.indent)
  BY <1>0, <1>1, StackNoted DEF Top
<1> HIDE DEF fs
<1>3. Framed(kind) \in Frame /\ Framed(kind).kind = kind
  BY FramedIsFrame
<1>4. /\ Stacked(gs)
      /\ Deep(gs, lazy + OneIf(kind \in BranchKinds), Len(homes) + OneIf(kind \in OwnKinds),
              Len(ctx.scopes) + OneIf(kind \in OwnKinds), out.indent + 1)
  <2>1. fs = << >> <=> kind \in {"def", "bar"}
    BY <1>2
  <2> DEFINE f == Framed(kind)
  <2>2. f \in Frame /\ f.kind = kind
    BY <1>3
  <2> HIDE DEF f, Frame
  <2> QED BY <1>0, <1>2, <2>1, <2>2, StackPush DEF f
<1>5. gs # << >> /\ gs[1] = fs[1]
  <2>1. fs \in Seq(Frame)
    BY <1>2 DEF Stacked
  <2>2. Len(fs) \in Nat \ {0} /\ Len(gs) = Len(fs) + 1 /\ \A k \in 1 .. Len(fs) : gs[k] = fs[k]
    BY <1>2, <1>3, <2>1, PushedFrame
  <2> QED BY <2>2
<1> HIDE DEF gs
<1>6. Rooted(gs, phase)
  BY <1>1, <1>2, <1>5 DEF Rooted
<1>7. h # << >>
  <2>1. Len(homes) \in Nat \ {0} /\ OneIf(kind \in OwnKinds) \in {0, 1}
    BY <1>1 DEF OneIf
  <2> QED BY <2>1
<1> QED BY <1>1, <1>4, <1>6, <1>7 DEF Handlers, gs, fs

\* The state under a running handler: what its end leaves.
LEMMA HandlersEnd ==
  ASSUME HandlersInv, frames # << >>, Top.kind \notin {"def", "bar"},
         NEW c, Sound(c), Len(c.scopes) = Len(ctx.scopes) - OneIf(Top.kind \in OwnKinds),
         NEW o \in Output, o.indent = out.indent - 1,
         NEW h \in Seq(HomeTable), Len(h) = Len(homes) - OneIf(Top.kind \in OwnKinds)
  PROVE  Handlers(c, Front(frames), lazy - OneIf(Top.kind \in BranchKinds), o, h, phase)
<1> DEFINE kind == Top.kind
           gs == Front(frames)
<1>1. /\ phase \in Phases /\ phase # "raised" /\ phase \in {"functions", "body"}
      /\ phase = "body" <=> frames[1].kind = "bar"
      /\ Stacked(frames) /\ Deep(frames, lazy, Len(homes), Len(ctx.scopes), out.indent)
      /\ Len(ctx.scopes) \in 1 .. MaxScopes + 1 /\ Len(homes) \in Nat
  BY Running
<1>2. kind = frames[Len(frames)].kind
  BY DEF Top
<1>3. /\ Stacked(gs) /\ gs # << >> /\ gs[1] = frames[1]
      /\ Deep(gs, lazy - OneIf(kind \in BranchKinds), Len(homes) - OneIf(kind \in OwnKinds),
              Len(ctx.scopes) - OneIf(kind \in OwnKinds), out.indent - 1)
      /\ kind \in OwnKinds => Len(homes) > 1
  <2>1. Len(ctx.scopes) <= MaxScopes + 1
    BY <1>1, ContextAssumption
  <2> HIDE DEF kind
  <2> QED BY <1>1, <1>2, <2>1, StackPop DEF kind
<1> HIDE DEF gs
<1>4. Rooted(gs, phase)
  BY <1>1, <1>3 DEF Rooted
<1>5. h # << >>
  <2>1. Len(h) > 0
    <3>1. CASE kind \in OwnKinds
      BY <1>1, <1>3, <3>1 DEF OneIf
    <3>2. CASE kind \notin OwnKinds
      <4>1. homes \in Seq(HomeTable) /\ homes # << >>
        BY Running
      <4>2. Len(h) = Len(homes)
        BY <1>1, <3>2 DEF OneIf
      <4> QED BY <4>1, <4>2
    <3> QED BY <3>1, <3>2
  <2> QED BY <2>1
<1> HIDE DEF kind
<1> QED BY <1>1, <1>3, <1>4, <1>5 DEF Handlers, gs, kind

\* The next branch starts where the one before it ends.
LEMMA HandlersNext ==
  ASSUME HandlersInv, frames # << >>, Top.kind \in BranchKinds, NEW kind \in BranchKinds,
         NEW c, Sound(c),
         Len(c.scopes) = Len(ctx.scopes) - OneIf(Top.kind \in OwnKinds) + OneIf(kind \in OwnKinds),
         NEW o \in Output, o.indent = out.indent,
         NEW h \in Seq(HomeTable),
         Len(h) = Len(homes) - OneIf(Top.kind \in OwnKinds) + OneIf(kind \in OwnKinds)
  PROVE  Handlers(c, Append(Front(frames), Framed(kind)), lazy - 1 + 1, o, h, phase)
<1> DEFINE old == Top.kind
           fs == Front(frames)
           gs == Append(fs, Framed(kind))
           w == OneIf(kind \in OwnKinds)
           u == OneIf(old \in OwnKinds)
           d == Len(ctx.scopes) - u
           e == Len(homes) - u
<1>1. /\ phase \in Phases /\ phase # "raised" /\ phase \in {"functions", "body"}
      /\ phase = "body" <=> frames[1].kind = "bar"
      /\ Stacked(frames) /\ Deep(frames, lazy, Len(homes), Len(ctx.scopes), out.indent)
      /\ Len(ctx.scopes) \in 1 .. MaxScopes + 1 /\ Len(homes) \in Nat
  BY Running
<1>2. old = frames[Len(frames)].kind /\ OneIf(old \in BranchKinds) = 1
      /\ OneIf(kind \in BranchKinds) = 1 /\ old \notin {"def", "bar"}
      /\ kind \notin {"def", "bar"} /\ w \in {0, 1} /\ u \in {0, 1}
  BY DEF Top, BranchKinds, OneIf
<1>3. /\ Stacked(fs) /\ fs # << >> /\ fs[1] = frames[1] /\ fs[Len(fs)].kind # "leaf"
      /\ Deep(fs, lazy - 1, e, d, out.indent - 1)
      /\ d <= MaxScopes /\ (old \in OwnKinds => Len(homes) > 1)
      /\ out.indent - 1 \in Nat /\ d > 0 /\ Len(homes) \in Nat
  <2>1. Len(ctx.scopes) <= MaxScopes + 1
    BY <1>1, ContextAssumption
  <2> HIDE DEF old
  <2> QED BY <1>1, <1>2, <2>1, StackPop DEF old
<1>4. Framed(kind) \in Frame /\ Framed(kind).kind = kind /\ kind \in FrameKinds
  BY FramedIsFrame DEF FrameKinds
<1>5. Len(fs) < MaxFrames
  <2>1. frames \in Seq(Frame) /\ Len(frames) <= MaxFrames
    BY <1>1 DEF Stacked
  <2>2. Len(frames) \in Nat \ {0} /\ Len(fs) = Len(frames) - 1
    BY <2>1, PoppedFrame
  <2> HIDE DEF fs
  <2> QED BY <2>1, <2>2, LoweringAssumption
<1> HIDE DEF fs, old
<1>6. /\ Stacked(gs)
      /\ Deep(gs, lazy - 1 + 1, e + w, d + w, out.indent - 1 + 1)
  <2> DEFINE f == Framed(kind)
  <2>1. f \in Frame /\ f.kind = kind /\ (fs = << >> <=> kind \in {"def", "bar"})
    BY <1>2, <1>3, <1>4
  <2> HIDE DEF f, Frame, d, e
  <2> QED BY <1>2, <1>3, <1>5, <2>1, StackPush DEF f
<1>7. gs # << >> /\ gs[1] = fs[1]
  <2>1. fs \in Seq(Frame)
    BY <1>3 DEF Stacked
  <2>2. Len(fs) \in Nat \ {0} /\ Len(gs) = Len(fs) + 1 /\ \A k \in 1 .. Len(fs) : gs[k] = fs[k]
    BY <1>3, <1>4, <2>1, PushedFrame
  <2> QED BY <2>2
<1> HIDE DEF gs
<1>8. Rooted(gs, phase)
  BY <1>1, <1>3, <1>7 DEF Rooted
<1>9. out.indent - 1 + 1 = out.indent
  <2>1. out.indent \in Nat
    BY OutputFields DEF HandlersInv, Handlers
  <2> QED BY <2>1
<1>10. Len(h) = e + w /\ Len(c.scopes) = d + w
  BY DEF d, e, w, u, old
<1>11. h # << >>
  <2>1. Len(h) > 0
    <3>1. CASE old \in OwnKinds
      <4>1. u = 1
        BY <3>1 DEF OneIf
      <4> HIDE DEF u, w
      <4> QED BY <1>1, <1>2, <1>3, <1>10, <3>1, <4>1
    <3>2. CASE old \notin OwnKinds
      <4>1. homes \in Seq(HomeTable) /\ homes # << >>
        BY Running
      <4>2. u = 0 /\ Len(homes) \in Nat \ {0}
        BY <3>2, <4>1 DEF OneIf
      <4> HIDE DEF u, w
      <4> QED BY <1>2, <1>10, <4>2
    <3> QED BY <3>1, <3>2
  <2> QED BY <2>1
<1> HIDE DEF d, e, w
<1> QED BY <1>1, <1>6, <1>8, <1>9, <1>10, <1>11 DEF Handlers, gs, fs
-----------------------------------------------------------------------------
(***************************************************************************)
(* What the actions do to the context and to the table of cells.           *)
(***************************************************************************)
LEMMA EnteredSound ==
  ASSUME NEW c, Sound(c), Len(c.scopes) <= MaxScopes, NEW kind \in ScopeKinds
  PROVE  /\ Sound(Entered(c, kind))
         /\ Len(Entered(c, kind).scopes) = Len(c.scopes) + 1
         /\ Entered(c, kind).heap = c.heap
         /\ \A n \in Names : CurrentScope(Entered(c, kind)).vars[n] = 0
         /\ CurrentScope(Entered(c, kind)).id = <<kind, Len(c.scopes)>>
         /\ \A d \in 1 .. Len(c.scopes) : Entered(c, kind).scopes[d] = c.scopes[d]
<1> DEFINE e == Entered(c, kind)
           s == [id |-> ScopeId(c, kind), vars |-> NoVars]
<1>1. /\ Typed(e) /\ e.scopes = Append(c.scopes, s)
      /\ e.used = c.used /\ e.heap = c.heap
  BY EnteredTyped DEF Sound, Depth
<1> HIDE DEF e
<1>2. c.scopes \in Seq(Scope) /\ Len(c.scopes) \in Nat
  BY DEF Sound, Typed, Context
<1>3. s.id = <<kind, Len(c.scopes)>> /\ \A n \in Names : s.vars[n] = 0
  BY DEF ScopeId, Depth, NoVars
<1> HIDE DEF s
<1>4. Len(e.scopes) = Len(c.scopes) + 1 /\ e.scopes[Len(e.scopes)] = s
      /\ \A d \in 1 .. Len(c.scopes) : e.scopes[d] = c.scopes[d]
  BY <1>1, <1>2
<1>5. Sound(e)
  BY <1>1 DEF Sound, NamesInv
<1> QED BY <1>1, <1>3, <1>4, <1>5 DEF CurrentScope, Depth, e

LEMMA GuardSound ==
  ASSUME NEW c, Sound(c), CanReserve(c, Guard)
  PROVE  Sound(GuardReserved(c)) /\ GuardReserved(c).scopes = c.scopes
<1> DEFINE g == GuardReserved(c)
<1>1. Typed(g) /\ g.scopes = c.scopes /\ c.used \subseteq g.used /\ g.heap = c.heap
  BY GuardTyped DEF Sound
<1> HIDE DEF g
<1>2. NamesInv(g)
  BY <1>1 DEF Sound, NamesInv
<1> QED BY <1>1, <1>2 DEF Sound, g

\* A frame's scope is left with the frame.
LEMMA LeftSound ==
  ASSUME NEW c, Sound(c), NEW kind \in FrameKinds, kind \in OwnKinds => Len(c.scopes) > 1
  PROVE  /\ Sound(Left(c, kind))
         /\ Len(Left(c, kind).scopes) = Len(c.scopes) - OneIf(kind \in OwnKinds)
<1>1. OwnsScope(kind) <=> kind \in OwnKinds
  BY DEF OwnsScope, OwnKinds
<1>2. Len(c.scopes) \in Nat
  BY DEF Sound, Typed, Context
<1>3. CASE kind \in OwnKinds
  <2> DEFINE e == Exited(c)
  <2>1. /\ Typed(e) /\ Len(e.scopes) = Len(c.scopes) - 1
        /\ e.used = c.used /\ e.heap = c.heap
    BY <1>3, ExitedTyped DEF Sound, Depth
  <2>2. Left(c, kind) = e
    BY <1>1, <1>3 DEF Left
  <2> HIDE DEF e
  <2>3. Sound(e)
    BY <2>1 DEF Sound, NamesInv
  <2> QED BY <1>3, <2>1, <2>2, <2>3 DEF OneIf
<1>4. CASE kind \notin OwnKinds
  BY <1>1, <1>2, <1>4 DEF Left, OneIf
<1> QED BY <1>3, <1>4

LEMMA CellTyped ==
  ASSUME NEW c, Sound(c), NEW n \in Names, Resolve(c, n) # 0
  PROVE  /\ c.heap[Resolve(c, n)] \in VarInfo
         /\ CellOf(c.heap[Resolve(c, n)]) \in Cells
         /\ DeclaredCell(c, c.heap[Resolve(c, n)]) \in Cells
<1>1. Resolve(c, n) \in 1 .. Len(c.heap) /\ c.heap \in Seq(VarInfo)
  <2>1. Resolve(c, n) \in 0 .. Len(c.heap) /\ c.heap \in Seq(VarInfo) /\ Len(c.heap) \in Nat
    <3>1. Typed(c) /\ c.heap \in Seq(VarInfo)
      BY DEF Sound, Typed, Context
    <3>2. Len(c.heap) \in Nat
      <4> HIDE DEF VarInfo
      <4> QED BY <3>1
    <3> QED BY <3>1, <3>2, ResolveFinds, Zenon
  <2> QED BY <2>1
<1> DEFINE info == c.heap[Resolve(c, n)]
<1>2. info \in VarInfo
  <2> HIDE DEF VarInfo
  <2> QED BY <1>1
<1> HIDE DEF info
<1>3. info.py \in PyNames
  BY <1>2 DEF VarInfo
<1>4. CellOf(info) \in Cells /\ DeclaredCell(c, info) \in Cells
  BY <1>3 DEF CellOf, DeclaredCell, Cells
<1> QED BY <1>2, <1>4 DEF info

LEMMA ListMembers ==
  ASSUME NEW ns \in NameLists
  PROVE  ToSet(ns) = {ns[1], ns[2]} /\ ns[1] \in Names /\ ns[2] \in Names
<1>1. ns[1] \in Names /\ ns[2] \in Names /\ DOMAIN ns = {1, 2}
  BY DEF NameLists
<1> QED BY <1>1 DEF ToSet

LEMMA TableOf ==
  ASSUME NEW c, Sound(c), NEW ns \in NameLists, \A n \in ToSet(ns) : Resolve(c, n) # 0
  PROVE  HomesOf(c, ns) \in HomeTable
<1>1. \A n \in Names : n \in ToSet(ns) => CellOf(c.heap[Resolve(c, n)]) \in Cells
  BY CellTyped
<1> QED BY <1>1 DEF HomesOf, HomeTable

LEMMA NoTable == NoHomes \in HomeTable
BY DEF NoHomes, HomeTable

LEMMA TablePushed ==
  ASSUME NEW h \in Seq(HomeTable), NEW t \in HomeTable
  PROVE  Append(h, t) \in Seq(HomeTable) /\ Len(Append(h, t)) = Len(h) + 1
OBVIOUS

LEMMA TableLeft ==
  ASSUME NEW h \in Seq(HomeTable), h # << >>, NEW kind \in FrameKinds
  PROVE  /\ LeftHomes(h, kind) \in Seq(HomeTable)
         /\ Len(LeftHomes(h, kind)) = Len(h) - OneIf(kind \in OwnKinds)
<1>1. OwnsScope(kind) <=> kind \in OwnKinds
  BY DEF OwnsScope, OwnKinds
<1>2. Len(h) \in Nat \ {0}
  OBVIOUS
<1> DEFINE n == Len(h) - 1
<1>3. n \in Nat /\ n \in Int /\ 1 \in Int /\ n = IF 1 <= n THEN n - 1 + 1 ELSE 0
  <2>1. n \in Nat
    BY <1>2
  <2> HIDE DEF n
  <2> QED BY <2>1
<1>4. SubSeq(h, 1, n) \in Seq(HomeTable) /\ Len(SubSeq(h, 1, n)) = n
  <2>1. \A k \in 1 .. n : h[k] \in HomeTable
    BY <1>2
  <2>2. /\ SubSeq(h, 1, n) \in Seq(HomeTable)
        /\ Len(SubSeq(h, 1, n)) = IF 1 <= n THEN n - 1 + 1 ELSE 0
    <3> HIDE DEF n, HomeTable
    <3> QED BY <1>3, <2>1, SubSeqProperties
  <2> HIDE DEF n
  <2> QED BY <1>3, <2>2
<1>5. CASE kind \in OwnKinds
  BY <1>1, <1>4, <1>5 DEF LeftHomes, Front, OneIf
<1>6. CASE kind \notin OwnKinds
  BY <1>1, <1>2, <1>6 DEF LeftHomes, OneIf
<1> QED BY <1>5, <1>6

\* One cell written in a table of the stack.
LEMMA TableSet ==
  ASSUME NEW h \in Seq(HomeTable), NEW d \in 1 .. Len(h), NEW n \in Names, NEW x \in Cells
  PROVE  /\ [h EXCEPT ![d][n] = x] \in Seq(HomeTable)
         /\ Len([h EXCEPT ![d][n] = x]) = Len(h)
<1> DEFINE t == [h[d] EXCEPT ![n] = x]
<1>1. h[d] \in HomeTable
  OBVIOUS
<1>2. t \in HomeTable
  BY <1>1 DEF HomeTable
<1>3. [h EXCEPT ![d][n] = x] = [h EXCEPT ![d] = t]
  OBVIOUS
<1> HIDE DEF t, HomeTable
<1> QED BY <1>2, <1>3, ExceptSeq
-----------------------------------------------------------------------------
(***************************************************************************)
(* Every action keeps the invariant.                                       *)
(***************************************************************************)
HandlersAfter == Handlers(ctx', frames', lazy', out', homes', phase')

LEMMA BothEmitted ==
  ASSUME NEW o \in Output, NEW h \in BOOLEAN
  PROVE  /\ Simple(Hoisted(o, h)) \in Output /\ Simple(Hoisted(o, h)).indent = o.indent
         /\ \A op \in LineOps : /\ Opened(Hoisted(o, h), op) \in Output
                                /\ Opened(Hoisted(o, h), op).indent = o.indent + 1
<1> DEFINE p == Hoisted(o, h)
<1>1. p \in Output /\ p.indent = o.indent
  BY EmittersTyped
<1> HIDE DEF p
<1> QED BY <1>1, EmittersTyped DEF p

LEMMA HeaderOps == {"if", "elif", "else", "block"} \subseteq LineOps
BY DEF LineOps, Headers

LEMMA EmitSimpleHandlers ==
  ASSUME HandlersInv, NEW h \in BOOLEAN, EmitSimple(h)
  PROVE  HandlersAfter
<1>1. frames # << >>
  BY DEF EmitSimple, AtStatement
<1>2. out \in Output /\ Sound(ctx) /\ homes \in Seq(HomeTable)
  BY <1>1, Running
<1>3. out' \in Output /\ out'.indent = out.indent
  BY <1>2, BothEmitted DEF EmitSimple
<1>4. Handlers(ctx, Noted(FALSE), lazy, out', homes, phase)
  BY <1>1, <1>2, <1>3, HandlersNoted
<1> QED BY <1>4 DEF EmitSimple, HandlersAfter

LEMMA EmitGlobalHandlers ==
  ASSUME HandlersInv, NEW n \in Names, NEW h \in BOOLEAN, EmitGlobalDeclaration(n, h)
  PROVE  HandlersAfter
<1> DEFINE info == ctx.heap[Resolve(ctx, n)]
           p == Hoisted(out, h)
<1>1. frames # << >> /\ Resolve(ctx, n) # 0
  BY DEF EmitGlobalDeclaration, AtStatement
<1>2. out \in Output /\ Sound(ctx) /\ homes \in Seq(HomeTable) /\ homes # << >>
  BY <1>1, Running
<1>3. p \in Output /\ p.indent = out.indent
  BY <1>2, EmittersTyped
<1>4. out' \in Output /\ out'.indent = out.indent
  <2> DEFINE once == Block(p, "if")
  <2>1. /\ Simple(p) \in Output /\ Simple(p).indent = out.indent
        /\ once \in Output /\ once.indent = out.indent
    <3> HIDE DEF p
    <3> QED BY <1>3, EmittersTyped, HeaderOps
  <2>2. Block(once, "else") \in Output /\ Block(once, "else").indent = out.indent
    <3> HIDE DEF once
    <3> QED BY <2>1, EmittersTyped, HeaderOps
  <2>3. out' = GlobalLines(p, info.kind) \/ out' = Simple(p)
    BY DEF EmitGlobalDeclaration
  <2>4. out' \in {p, Simple(p), once, Block(once, "else")}
    <3> HIDE DEF p
    <3> QED BY <2>3 DEF GlobalLines
  <2> QED BY <1>3, <2>1, <2>2, <2>4
<1>5. 1 \in 1 .. Len(homes)
  BY <1>2
<1>6. DeclaredCell(ctx, info) \in Cells
  BY <1>1, <1>2, CellTyped
<1>7. homes' = [homes EXCEPT ![1][n] = DeclaredCell(ctx, info)]
  BY DEF EmitGlobalDeclaration
<1> HIDE DEF info
<1>8. homes' \in Seq(HomeTable) /\ Len(homes') = Len(homes)
  BY <1>2, <1>5, <1>6, <1>7, TableSet
<1>9. Handlers(ctx, Noted(TRUE), lazy, out', homes', phase)
  BY <1>1, <1>2, <1>4, <1>8, HandlersNoted
<1> QED BY <1>9 DEF EmitGlobalDeclaration, HandlersAfter

LEMMA EmitLocalHandlers ==
  ASSUME HandlersInv, NEW n \in Names, NEW kind \in Kinds, NEW h \in BOOLEAN,
         EmitLocalDeclaration(n, kind, h)
  PROVE  HandlersAfter
<1>1. frames # << >> /\ MayResolve(ctx, n, kind) /\ ctx' = ResolvedOrDeclared(ctx, n, kind)
  BY DEF EmitLocalDeclaration, AtStatement
<1>2. out \in Output /\ Sound(ctx) /\ homes \in Seq(HomeTable) /\ homes # << >>
  BY <1>1, Running
<1>3. out' \in Output /\ out'.indent = out.indent
  BY <1>2, BothEmitted DEF EmitLocalDeclaration
<1>4. kind \in DeclKinds
  BY ContextAssumption DEF DeclKinds
<1>5. Sound(ctx') /\ Len(ctx'.scopes) = Len(ctx.scopes) /\ Resolve(ctx', n) # 0
  BY <1>1, <1>2, <1>4, ResolvedGrown DEF Grown
<1> DEFINE x == DeclaredCell(ctx', ctx'.heap[Resolve(ctx', n)])
<1>6. x \in Cells
  BY <1>5, CellTyped
<1>7. homes' = [homes EXCEPT ![Len(homes)][n] = x]
  BY DEF EmitLocalDeclaration
<1> HIDE DEF x
<1>8. homes' \in Seq(HomeTable) /\ Len(homes') = Len(homes)
  <2>1. Len(homes) \in 1 .. Len(homes)
    BY <1>2
  <2> QED BY <1>2, <1>6, <1>7, <2>1, TableSet
<1>9. Handlers(ctx', Noted(TRUE), lazy, out', homes', phase)
  BY <1>1, <1>2, <1>3, <1>5, <1>8, HandlersNoted
<1> QED BY <1>9 DEF EmitLocalDeclaration, HandlersAfter

LEMMA EmitTupleHandlers ==
  ASSUME HandlersInv, NEW ns \in NameLists, NEW g \in BOOLEAN, NEW h \in BOOLEAN,
         EmitTuple(ns, g, h)
  PROVE  HandlersAfter
<1> DEFINE p == Hoisted(out, h)
           first == ResolvedOrDeclared(ctx, ns[1], "normal")
           t == [n \in Names |-> IF n \in ToSet(ns)
                                 THEN CellOf(ctx'.heap[Resolve(ctx', n)])
                                 ELSE homes[Len(homes)][n]]
<1>1. /\ frames # << >> /\ MayResolve(ctx, ns[1], "normal")
      /\ MayResolve(first, ns[2], "normal")
      /\ ctx' = ResolvedOrDeclared(first, ns[2], "normal")
      /\ homes' = [homes EXCEPT ![Len(homes)] = t]
  BY DEF EmitTuple, AtStatement
<1>2. /\ out \in Output /\ Sound(ctx) /\ homes \in Seq(HomeTable)
      /\ Len(homes) \in 1 .. Len(homes)
  <2>1. out \in Output /\ Sound(ctx) /\ homes \in Seq(HomeTable) /\ homes # << >>
    BY <1>1, Running
  <2> QED BY <2>1
<1>3. p \in Output /\ p.indent = out.indent
  BY <1>2, EmittersTyped
<1>4. out' \in Output /\ out'.indent = out.indent
  <2> DEFINE q == Unpacked(p, g)
             one == Simple(p)
             two == Block(one, "if")
  <2>1. one \in Output /\ one.indent = out.indent
    <3> HIDE DEF p
    <3> QED BY <1>3, EmittersTyped
  <2>2. two \in Output /\ two.indent = out.indent
    <3> HIDE DEF one
    <3> QED BY <2>1, EmittersTyped, HeaderOps
  <2>3. Block(two, "else") \in Output /\ Block(two, "else").indent = out.indent
    <3> HIDE DEF two
    <3> QED BY <2>2, EmittersTyped, HeaderOps
  <2>4. q \in Output /\ q.indent = out.indent
    <3>1. q = IF g THEN Block(two, "else") ELSE one
      BY DEF Unpacked
    <3> HIDE DEF q, two, one
    <3> QED BY <2>1, <2>3, <3>1
  <2>5. out' = Simple(q)
    BY DEF EmitTuple
  <2> HIDE DEF q
  <2> QED BY <2>4, <2>5, EmittersTyped
<1>5. ns[1] \in Names /\ ns[2] \in Names /\ ToSet(ns) = {ns[1], ns[2]}
  BY ListMembers
<1>6. "normal" \in DeclKinds
  BY DEF DeclKinds
<1>7. Grown(ctx, first, {ns[1]}) /\ Resolve(first, ns[1]) # 0 /\ Sound(first)
  BY <1>1, <1>2, <1>5, <1>6, ResolvedGrown DEF Grown
<1> HIDE DEF first
<1>8. Grown(first, ctx', {ns[2]}) /\ Resolve(ctx', ns[2]) # 0 /\ Sound(ctx')
  BY <1>1, <1>5, <1>6, <1>7, ResolvedGrown DEF Grown
<1>9. \A n \in ToSet(ns) : Resolve(ctx', n) # 0
  BY <1>5, <1>7, <1>8, GrownResolve
<1>10. t \in HomeTable
  <2>1. \A n \in Names : n \in ToSet(ns) => CellOf(ctx'.heap[Resolve(ctx', n)]) \in Cells
    BY <1>8, <1>9, CellTyped
  <2>2. homes[Len(homes)] \in HomeTable
    <3> HIDE DEF HomeTable
    <3> QED BY <1>2
  <2> QED BY <2>1, <2>2 DEF HomeTable
<1> HIDE DEF t
<1>11. homes' \in Seq(HomeTable) /\ Len(homes') = Len(homes)
  <2> HIDE DEF HomeTable
  <2> QED BY <1>1, <1>2, <1>10, ExceptSeq
<1>12. Len(ctx'.scopes) = Len(ctx.scopes)
  BY <1>7, <1>8 DEF Grown
<1>13. Handlers(ctx', Noted(FALSE), lazy, out', homes', phase)
  BY <1>1, <1>4, <1>8, <1>11, <1>12, HandlersNoted
<1> QED BY <1>13 DEF EmitTuple, HandlersAfter

\* The scope of a branch.
LEMMA BranchState ==
  ASSUME NEW under, NEW c, Sound(c), NEW h \in Seq(HomeTable), NEW kind \in BranchKinds, NEW l,
         kind \in OwnKinds => Len(c.scopes) <= MaxScopes, Branch(under, c, h, kind, l)
  PROVE  /\ frames' = Append(under, Framed(kind)) /\ lazy' = l + 1
         /\ Sound(ctx') /\ Len(ctx'.scopes) = Len(c.scopes) + OneIf(kind \in OwnKinds)
         /\ homes' \in Seq(HomeTable) /\ Len(homes') = Len(h) + OneIf(kind \in OwnKinds)
<1>1. OwnsScope(kind) <=> kind \in OwnKinds
  BY DEF OwnsScope, OwnKinds, FrameKinds, BranchKinds
<1>2. Len(c.scopes) \in Nat /\ Len(h) \in Nat
  BY DEF Sound, Typed, Context
<1>3. "block" \in ScopeKinds
  BY DEF ScopeKinds
<1>4. CASE kind \in OwnKinds
  <2>1. OneIf(kind \in OwnKinds) = 1 /\ ctx' = Entered(c, "block") /\ homes' = Append(h, NoHomes)
    BY <1>1, <1>4 DEF Branch, OneIf
  <2>2. Sound(ctx') /\ Len(ctx'.scopes) = Len(c.scopes) + 1
    BY <1>3, <1>4, <2>1, EnteredSound
  <2>3. homes' \in Seq(HomeTable) /\ Len(homes') = Len(h) + 1
    BY <2>1, NoTable, TablePushed
  <2> QED BY <2>1, <2>2, <2>3 DEF Branch
<1>5. CASE kind \notin OwnKinds
  <2>1. OneIf(kind \in OwnKinds) = 0 /\ ctx' = c /\ homes' = h
    BY <1>1, <1>5 DEF Branch, OneIf
  <2> QED BY <1>2, <2>1 DEF Branch
<1> QED BY <1>4, <1>5

\* An if or a switch starts.
LEMMA BranchBegins ==
  ASSUME HandlersInv, MayNest, Depth(ctx) < MaxScopes, NEW kind \in BranchKinds,
         out' \in Output, out'.indent = out.indent + 1,
         Branch(Noted(FALSE), ctx, homes, kind, lazy), phase' = phase
  PROVE  HandlersAfter
<1>1. frames # << >>
  BY DEF MayNest, AtStatement
<1>2. Sound(ctx) /\ homes \in Seq(HomeTable) /\ Len(ctx.scopes) \in 1 .. MaxScopes + 1
  BY <1>1, Running
<1>3. Len(ctx.scopes) <= MaxScopes
  BY <1>2, ContextAssumption DEF Depth
<1>4. /\ frames' = Append(Noted(FALSE), Framed(kind)) /\ lazy' = lazy + 1
      /\ Sound(ctx') /\ Len(ctx'.scopes) = Len(ctx.scopes) + OneIf(kind \in OwnKinds)
      /\ homes' \in Seq(HomeTable) /\ Len(homes') = Len(homes) + OneIf(kind \in OwnKinds)
  <2> DEFINE under == Noted(FALSE)
  <2>1. Branch(under, ctx, homes, kind, lazy)
    OBVIOUS
  <2> HIDE DEF under
  <2>2. /\ frames' = Append(under, Framed(kind)) /\ lazy' = lazy + 1
        /\ Sound(ctx') /\ Len(ctx'.scopes) = Len(ctx.scopes) + OneIf(kind \in OwnKinds)
        /\ homes' \in Seq(HomeTable) /\ Len(homes') = Len(homes) + OneIf(kind \in OwnKinds)
    BY <1>2, <1>3, <2>1, BranchState
  <2> QED BY <2>2 DEF under
<1>5. OneIf(kind \in BranchKinds) = 1 /\ kind \in FrameKinds \ {"def", "bar"}
  BY DEF OneIf, BranchKinds, FrameKinds
<1>6. Handlers(ctx', Append(Noted(FALSE), Framed(kind)),
               lazy + OneIf(kind \in BranchKinds), out', homes', phase)
  BY <1>3, <1>4, <1>5, HandlersNest
<1> QED BY <1>4, <1>5, <1>6 DEF HandlersAfter

\* The state that a running handler leaves.
LEMMA LeftState ==
  ASSUME HandlersInv, frames # << >>, Top.kind # "bar"
  PROVE  LET c == Left(ctx, Top.kind)
             h == LeftHomes(homes, Top.kind)
         IN /\ Sound(c) /\ Len(c.scopes) = Len(ctx.scopes) - OneIf(Top.kind \in OwnKinds)
            /\ h \in Seq(HomeTable) /\ Len(h) = Len(homes) - OneIf(Top.kind \in OwnKinds)
            /\ Len(c.scopes) <= MaxScopes /\ lazy \in Nat /\ out.indent \in Nat \ {0}
            /\ \A f : Closed(out, f) \in Output /\ Closed(out, f).indent = out.indent - 1
<1>1. /\ Stacked(frames) /\ Deep(frames, lazy, Len(homes), Len(ctx.scopes), out.indent)
      /\ Len(ctx.scopes) \in 1 .. MaxScopes + 1 /\ Sound(ctx) /\ homes \in Seq(HomeTable)
      /\ homes # << >> /\ Top.kind \in FrameKinds /\ out \in Output
  BY Running
<1>2. /\ Top.kind \in OwnKinds => Len(ctx.scopes) > 1
      /\ Len(ctx.scopes) - OneIf(Top.kind \in OwnKinds) <= MaxScopes
      /\ lazy \in Nat /\ out.indent > 0 /\ out.indent - 1 \in Nat
  <2>1. Len(ctx.scopes) <= MaxScopes + 1 /\ Top.kind = frames[Len(frames)].kind
    BY <1>1, ContextAssumption DEF Top
  <2> QED BY <1>1, <2>1, StackPop
<1>3. /\ Sound(Left(ctx, Top.kind))
      /\ Len(Left(ctx, Top.kind).scopes) = Len(ctx.scopes) - OneIf(Top.kind \in OwnKinds)
  BY <1>1, <1>2, LeftSound
<1>4. /\ LeftHomes(homes, Top.kind) \in Seq(HomeTable)
      /\ Len(LeftHomes(homes, Top.kind)) = Len(homes) - OneIf(Top.kind \in OwnKinds)
  BY <1>1, TableLeft
<1>5. out.indent \in Nat \ {0}
  BY <1>1, <1>2, OutputFields
<1>6. \A f : Closed(out, f) \in Output /\ Closed(out, f).indent = out.indent - 1
  BY <1>1, <1>5, EmittersTyped
<1> QED BY <1>2, <1>3, <1>4, <1>5, <1>6

\* The next branch of an if or a switch.
LEMMA BranchFollows ==
  ASSUME HandlersInv, frames # << >>, Top.kind \in BranchKinds, NEW kind \in BranchKinds,
         out' \in Output, out'.indent = out.indent,
         Branch(Front(frames), Left(ctx, Top.kind), LeftHomes(homes, Top.kind), kind, lazy - 1),
         phase' = phase
  PROVE  HandlersAfter
<1> DEFINE c == Left(ctx, Top.kind)
           h == LeftHomes(homes, Top.kind)
           under == Front(frames)
           l == lazy - 1
<1>1. Top.kind # "bar"
  BY DEF BranchKinds
<1>2. /\ Sound(c) /\ Len(c.scopes) = Len(ctx.scopes) - OneIf(Top.kind \in OwnKinds)
      /\ h \in Seq(HomeTable) /\ Len(h) = Len(homes) - OneIf(Top.kind \in OwnKinds)
      /\ Len(c.scopes) <= MaxScopes
  BY <1>1, LeftState
<1>3. Branch(under, c, h, kind, l)
  OBVIOUS
<1> HIDE DEF c, h, under, l
<1>4. /\ frames' = Append(under, Framed(kind)) /\ lazy' = l + 1
      /\ Sound(ctx') /\ Len(ctx'.scopes) = Len(c.scopes) + OneIf(kind \in OwnKinds)
      /\ homes' \in Seq(HomeTable) /\ Len(homes') = Len(h) + OneIf(kind \in OwnKinds)
  BY <1>2, <1>3, BranchState
<1>5. Handlers(ctx', Append(Front(frames), Framed(kind)), lazy - 1 + 1, out', homes', phase)
  BY <1>2, <1>4, HandlersNext
<1> QED BY <1>4, <1>5 DEF HandlersAfter, under, l

LEMMA CaseOpenedTyped ==
  ASSUME NEW o \in Output, NEW op \in {"if", "elif"}, NEW kind
  PROVE  CaseOpened(o, op, kind) \in Output /\ CaseOpened(o, op, kind).indent = o.indent + 1
<1> DEFINE p == Opened(o, op)
<1>1. p \in Output /\ p.indent = o.indent + 1
  BY EmittersTyped, HeaderOps
<1>2. CaseOpened(o, op, kind) = IF kind = "leaf" THEN Simple(p) ELSE p
  BY DEF CaseOpened
<1> HIDE DEF p
<1> QED BY <1>1, <1>2, EmittersTyped

LEMMA BeginIfHandlers ==
  ASSUME HandlersInv, NEW h \in BOOLEAN, BeginIf(h)
  PROVE  HandlersAfter
<1>1. /\ MayNest /\ Depth(ctx) < MaxScopes /\ frames # << >> /\ phase' = phase
      /\ Branch(Noted(FALSE), ctx, homes, "if", lazy)
  BY DEF BeginIf, MayNest, AtStatement
<1>2. out \in Output
  BY <1>1, Running
<1>3. out' \in Output /\ out'.indent = out.indent + 1
  BY <1>2, BothEmitted, HeaderOps DEF BeginIf
<1>4. "if" \in BranchKinds
  BY DEF BranchKinds
<1> QED BY <1>1, <1>3, <1>4, BranchBegins

LEMMA BeginSwitchHandlers ==
  ASSUME HandlersInv, NEW kind \in {"case", "leaf"}, NEW h \in BOOLEAN, BeginSwitch(kind, h)
  PROVE  HandlersAfter
<1> DEFINE p == Hoisted(out, h)
<1>1. /\ MayNest /\ Depth(ctx) < MaxScopes /\ frames # << >> /\ phase' = phase
      /\ Branch(Noted(FALSE), ctx, homes, kind, lazy) /\ out' = CaseOpened(p, "if", kind)
  BY DEF BeginSwitch, MayNest, AtStatement
<1>2. out \in Output
  BY <1>1, Running
<1>3. p \in Output /\ p.indent = out.indent
  BY <1>2, EmittersTyped
<1> HIDE DEF p
<1>4. out' \in Output /\ out'.indent = out.indent + 1
  BY <1>1, <1>3, CaseOpenedTyped
<1>5. kind \in BranchKinds
  BY DEF BranchKinds
<1> QED BY <1>1, <1>4, <1>5, BranchBegins

\* The output at the end of a branch.
LEMMA BranchClosed ==
  ASSUME HandlersInv, frames # << >>, Top.kind \in BranchKinds, NEW h \in BOOLEAN
  PROVE  /\ Closed(out, Top) \in Output /\ out.indent \in Nat \ {0}
         /\ Closed(out, Top).indent = out.indent - 1
         /\ Hoisted(Closed(out, Top), h) \in Output
         /\ Hoisted(Closed(out, Top), h).indent = out.indent - 1
<1> DEFINE p == Closed(out, Top)
<1>1. p \in Output /\ p.indent = out.indent - 1 /\ out.indent \in Nat \ {0}
  BY LeftState DEF BranchKinds
<1> HIDE DEF p
<1> QED BY <1>1, EmittersTyped DEF p

LEMMA ElseIfHandlers ==
  ASSUME HandlersInv, NEW h \in BOOLEAN, ElseIf(h)
  PROVE  HandlersAfter
<1> DEFINE p == Hoisted(Closed(out, Top), h)
<1>1. /\ frames # << >> /\ Top.kind \in {"if", "elif"} /\ phase' = phase
      /\ Branch(Front(frames), Left(ctx, Top.kind), LeftHomes(homes, Top.kind), "elif", lazy - 1)
      /\ out' = Opened(p, "elif")
  BY DEF ElseIf, MayClose
<1>2. Top.kind \in BranchKinds /\ "elif" \in BranchKinds
  BY <1>1 DEF BranchKinds
<1>3. p \in Output /\ p.indent = out.indent - 1 /\ out.indent \in Nat \ {0}
  BY <1>1, <1>2, BranchClosed
<1> HIDE DEF p
<1>4. out' \in Output /\ out'.indent = out.indent - 1 + 1
  BY <1>1, <1>3, EmittersTyped, HeaderOps
<1>5. out.indent - 1 + 1 = out.indent
  BY <1>3
<1> QED BY <1>1, <1>2, <1>4, <1>5, BranchFollows

LEMMA ElseHandlers ==
  ASSUME HandlersInv, Else \/ DefaultCase
  PROVE  HandlersAfter
<1> DEFINE p == Closed(out, Top)
<1>1. /\ frames # << >> /\ Top.kind \in {"if", "elif", "case", "leaf"} /\ phase' = phase
      /\ Branch(Front(frames), Left(ctx, Top.kind), LeftHomes(homes, Top.kind), "else", lazy - 1)
      /\ out' = Opened(p, "else")
  BY DEF Else, DefaultCase, MayClose
<1>2. Top.kind \in BranchKinds /\ "else" \in BranchKinds
  BY <1>1 DEF BranchKinds
<1>3. p \in Output /\ p.indent = out.indent - 1 /\ out.indent \in Nat \ {0}
  BY <1>1, <1>2, BranchClosed
<1> HIDE DEF p
<1>4. out' \in Output /\ out'.indent = out.indent - 1 + 1
  BY <1>1, <1>3, EmittersTyped, HeaderOps
<1>5. out.indent - 1 + 1 = out.indent
  BY <1>3
<1> QED BY <1>1, <1>2, <1>4, <1>5, BranchFollows

LEMMA NextCaseHandlers ==
  ASSUME HandlersInv, NEW kind \in {"case", "leaf"}, NEW h \in BOOLEAN, NextCase(kind, h)
  PROVE  HandlersAfter
<1> DEFINE p == Hoisted(Closed(out, Top), h)
<1>1. /\ frames # << >> /\ Top.kind \in {"case", "leaf"} /\ phase' = phase
      /\ Branch(Front(frames), Left(ctx, Top.kind), LeftHomes(homes, Top.kind), kind, lazy - 1)
      /\ out' = CaseOpened(p, "elif", kind)
  BY DEF NextCase, MayClose
<1>2. Top.kind \in BranchKinds /\ kind \in BranchKinds
  BY <1>1 DEF BranchKinds
<1>3. p \in Output /\ p.indent = out.indent - 1 /\ out.indent \in Nat \ {0}
  BY <1>1, <1>2, BranchClosed
<1> HIDE DEF p
<1>4. out' \in Output /\ out'.indent = out.indent - 1 + 1
  BY <1>1, <1>3, CaseOpenedTyped
<1>5. out.indent - 1 + 1 = out.indent
  BY <1>3
<1> QED BY <1>1, <1>2, <1>4, <1>5, BranchFollows

LEMMA EndHandlers ==
  ASSUME HandlersInv, EndBranches \/ EndLoop
  PROVE  HandlersAfter
<1> DEFINE c == Left(ctx, Top.kind)
           h == LeftHomes(homes, Top.kind)
           o == Closed(out, Top)
<1>1. /\ frames # << >> /\ Top.kind \in BranchKinds \union {"for", "while"}
      /\ phase' = phase /\ out' = o /\ ctx' = c /\ homes' = h /\ frames' = Front(frames)
      /\ Top.kind \in BranchKinds => lazy' = lazy - 1
      /\ Top.kind \notin BranchKinds => lazy' = lazy
  BY DEF EndBranches, EndLoop, MayClose, BranchKinds
<1>2. Top.kind \notin {"def", "bar"}
  BY <1>1 DEF BranchKinds
<1>3. /\ Sound(c) /\ Len(c.scopes) = Len(ctx.scopes) - OneIf(Top.kind \in OwnKinds)
      /\ h \in Seq(HomeTable) /\ Len(h) = Len(homes) - OneIf(Top.kind \in OwnKinds)
      /\ lazy \in Nat /\ o \in Output /\ o.indent = out.indent - 1
  BY <1>1, <1>2, LeftState
<1> HIDE DEF c, h, o
<1>4. Handlers(c, Front(frames), lazy - OneIf(Top.kind \in BranchKinds), o, h, phase)
  BY <1>1, <1>2, <1>3, HandlersEnd
<1>5. lazy' = lazy - OneIf(Top.kind \in BranchKinds)
  BY <1>1, <1>3 DEF OneIf
<1> QED BY <1>1, <1>4, <1>5 DEF HandlersAfter

LEMMA BeginForHandlers ==
  ASSUME HandlersInv, NEW ns \in NameLists, NEW h \in BOOLEAN, BeginFor(ns, h)
  PROVE  HandlersAfter
<1> DEFINE e == Entered(ctx, "loop")
<1>1. /\ MayNest /\ Depth(ctx) < MaxScopes /\ frames # << >> /\ phase' = phase /\ lazy' = lazy
      /\ MayDeclareBoth(e, ns, "loop") /\ ctx' = DeclaredBoth(e, ns, "loop")
      /\ homes' = Append(homes, HomesOf(ctx', ns))
      /\ frames' = Append(Noted(FALSE), Framed("for"))
  BY DEF BeginFor, MayNest, AtStatement
<1>2. /\ out \in Output /\ Sound(ctx) /\ homes \in Seq(HomeTable) /\ Len(homes) \in Nat
      /\ Deep(frames, lazy, Len(homes), Len(ctx.scopes), out.indent)
      /\ Len(ctx.scopes) \in 1 .. MaxScopes + 1 /\ Stacked(frames)
  BY <1>1, Running
<1>3. out' \in Output /\ out'.indent = out.indent + 1
  BY <1>2, BothEmitted, HeaderOps DEF BeginFor
<1>4. Sound(e) /\ Len(e.scopes) = Len(ctx.scopes) + 1
  <2>1. Len(ctx.scopes) <= MaxScopes /\ "loop" \in ScopeKinds
    BY <1>1, <1>2, ContextAssumption DEF Depth, ScopeKinds
  <2> QED BY <1>2, <2>1, EnteredSound
<1> HIDE DEF e
<1>5. /\ Grown(e, ctx', {ns[1], ns[2]})
      /\ \A n \in {ns[1], ns[2]} : CurrentScope(ctx').vars[n] # 0
  <2>1. "loop" \in DeclKinds
    BY DEF DeclKinds
  <2> QED BY <1>1, <1>4, <2>1, BothGrown
<1>6. ToSet(ns) = {ns[1], ns[2]} /\ ns[1] \in Names /\ ns[2] \in Names
  BY ListMembers
<1>7. Sound(ctx') /\ Len(ctx'.scopes) = Len(ctx.scopes) + 1
  BY <1>4, <1>5 DEF Grown
<1>8. \A n \in ToSet(ns) : Resolve(ctx', n) # 0
  BY <1>5, <1>6, <1>7, ResolveTop DEF Sound
<1>9. homes' \in Seq(HomeTable) /\ Len(homes') = Len(homes) + 1
  BY <1>1, <1>2, <1>7, <1>8, TableOf, TablePushed
<1>10. /\ "for" \in FrameKinds \ {"def", "bar"} /\ "for" # "leaf"
       /\ OneIf("for" \in OwnKinds) = 1 /\ OneIf("for" \in BranchKinds) = 0
  BY DEF FrameKinds, OwnKinds, BranchKinds, OneIf
<1>11. Handlers(ctx', Append(Noted(FALSE), Framed("for")),
                lazy + OneIf("for" \in BranchKinds), out', homes', phase)
  BY <1>1, <1>3, <1>7, <1>9, <1>10, HandlersNest
<1>12. lazy + OneIf("for" \in BranchKinds) = lazy
  <2>1. CountOf(frames, BranchKinds) \in Nat
    BY <1>2, CountType DEF Stacked
  <2> QED BY <1>2, <1>10, <2>1 DEF Deep
<1> QED BY <1>1, <1>11, <1>12 DEF HandlersAfter

LEMMA BeginWhileHandlers ==
  ASSUME HandlersInv, NEW h \in BOOLEAN, BeginWhile(h)
  PROVE  HandlersAfter
<1> DEFINE g == GuardReserved(ctx)
           p == Simple(out)
           q == Opened(Hoisted(p, h), "block")
           r == Simple(q)
<1>1. /\ MayNest /\ Depth(ctx) < MaxScopes /\ frames # << >> /\ phase' = phase /\ lazy' = lazy
      /\ CanReserve(ctx, Guard) /\ ctx' = Entered(g, "loop")
      /\ homes' = Append(homes, NoHomes) /\ out' = Block(r, "if")
      /\ frames' = Append(Noted(FALSE), Framed("while"))
  BY DEF BeginWhile, MayNest, AtStatement
<1>2. /\ out \in Output /\ Sound(ctx) /\ homes \in Seq(HomeTable) /\ Len(homes) \in Nat
      /\ Deep(frames, lazy, Len(homes), Len(ctx.scopes), out.indent)
      /\ Len(ctx.scopes) \in 1 .. MaxScopes + 1 /\ Stacked(frames)
  BY <1>1, Running
<1>3. out' \in Output /\ out'.indent = out.indent + 1
  <2>1. p \in Output /\ p.indent = out.indent
    BY <1>2, EmittersTyped
  <2> HIDE DEF p
  <2>2. q \in Output /\ q.indent = out.indent + 1
    BY <2>1, BothEmitted, HeaderOps, SMTT(30)
  <2> HIDE DEF q
  <2>3. r \in Output /\ r.indent = out.indent + 1
    BY <2>2, EmittersTyped
  <2> HIDE DEF r
  <2> QED BY <1>1, <2>3, EmittersTyped, HeaderOps
<1>4. Sound(ctx') /\ Len(ctx'.scopes) = Len(ctx.scopes) + 1
  <2>1. Len(ctx.scopes) <= MaxScopes /\ "loop" \in ScopeKinds
    BY <1>1, <1>2, ContextAssumption DEF Depth, ScopeKinds
  <2>2. Sound(g) /\ g.scopes = ctx.scopes
    BY <1>1, <1>2, GuardSound
  <2> HIDE DEF g
  <2> QED BY <1>1, <2>1, <2>2, EnteredSound
<1>5. homes' \in Seq(HomeTable) /\ Len(homes') = Len(homes) + 1
  BY <1>1, <1>2, NoTable, TablePushed
<1>6. /\ "while" \in FrameKinds \ {"def", "bar"} /\ "while" # "leaf"
      /\ OneIf("while" \in OwnKinds) = 1 /\ OneIf("while" \in BranchKinds) = 0
  BY DEF FrameKinds, OwnKinds, BranchKinds, OneIf
<1>7. Handlers(ctx', Append(Noted(FALSE), Framed("while")),
               lazy + OneIf("while" \in BranchKinds), out', homes', phase)
  BY <1>1, <1>3, <1>4, <1>5, <1>6, HandlersNest
<1>8. lazy + OneIf("while" \in BranchKinds) = lazy
  <2>1. CountOf(frames, BranchKinds) \in Nat
    BY <1>2, CountType DEF Stacked
  <2> QED BY <1>2, <1>6, <2>1 DEF Deep
<1> QED BY <1>1, <1>7, <1>8 DEF HandlersAfter

LEMMA CollectHandlers ==
  ASSUME HandlersInv, NEW n \in Names, NEW kind \in Kinds, CollectGlobal(n, kind)
  PROVE  HandlersAfter
<1>1. /\ phase \in {"start", "collect"} /\ CanReserve(ctx, Preferred(n, kind))
      /\ ctx' = Declared(ctx, n, kind, TRUE) /\ phase' = "collect"
      /\ frames' = frames /\ lazy' = lazy /\ out' = out
      /\ homes' = [homes EXCEPT ![1][n] = CellOf(ctx'.heap[Resolve(ctx', n)])]
  BY DEF CollectGlobal, CanDeclare
<1>2. frames = << >> /\ phase # "raised"
  BY <1>1 DEF HandlersInv, Handlers, Rooted
<1>3. /\ Sound(ctx) /\ out \in Output /\ homes \in Seq(HomeTable) /\ Len(homes) = 1 /\ lazy = 0
      /\ ~ Retranslates => Len(ctx.scopes) = 1 /\ out.indent = 0
  BY <1>2, Resting
<1>4. kind \in DeclKinds
  BY ContextAssumption DEF DeclKinds
<1>5. /\ Sound(ctx') /\ Len(ctx'.scopes) = Len(ctx.scopes)
      /\ CurrentScope(ctx').vars[n] # 0
  <2> DEFINE c == Declared(ctx, n, kind, TRUE)
  <2>1. Grown(ctx, c, {n}) /\ CurrentScope(c).vars[n] # 0
    BY <1>1, <1>3, <1>4, DeclaredGrown
  <2>2. ctx' = c
    BY <1>1
  <2> HIDE DEF c
  <2> QED BY <2>1, <2>2 DEF Grown
<1>6. Resolve(ctx', n) # 0
  BY <1>5, ResolveTop DEF Sound
<1>7. homes' \in Seq(HomeTable) /\ Len(homes') = 1
  <2> DEFINE x == CellOf(ctx'.heap[Resolve(ctx', n)])
  <2>1. x \in Cells
    BY <1>5, <1>6, CellTyped
  <2>2. homes' = [homes EXCEPT ![1][n] = x]
    BY <1>1
  <2>3. homes \in Seq(HomeTable) /\ 1 \in 1 .. Len(homes)
    BY <1>3
  <2> HIDE DEF x
  <2>4. homes' \in Seq(HomeTable) /\ Len(homes') = Len(homes)
    BY <2>1, <2>2, <2>3, TableSet
  <2> QED BY <1>3, <2>4
<1>8. Handlers(ctx', << >>, 0, out, homes', "collect")
  <2>1. "collect" \in Phases \ {"body"}
    BY DEF Phases
  <2> QED BY <1>3, <1>5, <1>7, <2>1, HandlersRest
<1> QED BY <1>1, <1>2, <1>3, <1>8 DEF HandlersAfter

\* The first handler of a function or of _process_bar.
LEMMA HandlersRoot ==
  ASSUME HandlersInv, frames = << >>, phase # "raised",
         NEW f \in Frame, f.kind \in {"def", "bar"},
         NEW c, Sound(c), Len(c.scopes) = Len(ctx.scopes) + OneIf(f.kind \in OwnKinds),
         NEW o \in Output, o.indent = out.indent + 1,
         NEW h \in Seq(HomeTable), Len(h) = 1 + OneIf(f.kind \in OwnKinds)
  PROVE  Handlers(c, <<f>>, lazy, o, h, IF f.kind = "bar" THEN "body" ELSE "functions")
<1> DEFINE fs == Append(<< >>, f)
           w == OneIf(f.kind \in OwnKinds)
           p == IF f.kind = "bar" THEN "body" ELSE "functions"
<1>1. /\ Len(ctx.scopes) \in Nat \ {0} /\ out.indent \in Nat /\ lazy = 0
      /\ ~ Retranslates => Len(ctx.scopes) = 1 /\ out.indent = 0
  BY Resting
<1>2. Stacked(<< >>) /\ Deep(<< >>, 0, 1, Len(ctx.scopes), out.indent)
  BY <1>1, StackEmpty
<1>3. /\ Stacked(fs)
      /\ Deep(fs, 0 + OneIf(f.kind \in BranchKinds), 1 + w, Len(ctx.scopes) + w, out.indent + 1)
  <2>1. /\ Len(<< >>) < MaxFrames /\ f.kind # "leaf"
        /\ << >> = << >> <=> f.kind \in {"def", "bar"}
    BY LoweringAssumption
  <2> HIDE DEF Frame
  <2> QED BY <1>1, <1>2, <2>1, StackPush
<1>4. 0 + OneIf(f.kind \in BranchKinds) = 0 /\ w \in {0, 1}
  BY DEF OneIf, BranchKinds
<1>5. fs = <<f>> /\ <<f>> # << >> /\ <<f>>[1] = f
  OBVIOUS
<1>6. Rooted(<<f>>, p) /\ p \in Phases /\ p # "raised"
  BY <1>5 DEF Rooted, Phases
<1>7. h # << >>
  <2>1. Len(h) # 0
    BY <1>4
  <2>2. Len(<< >>) = 0
    OBVIOUS
  <2> QED BY <2>1, <2>2, Zenon
<1> HIDE DEF fs, w, p, Frame
<1>8. Deep(<<f>>, lazy, Len(h), Len(c.scopes), o.indent)
  BY <1>1, <1>3, <1>4, <1>5, Zenon DEF w
<1>9. Handlers(c, <<f>>, lazy, o, h, p)
  BY <1>3, <1>5, <1>6, <1>7, <1>8, Zenon DEF Handlers
<1> QED BY <1>9 DEF p

LEMMA BeginFunctionHandlers ==
  ASSUME HandlersInv, NEW ns \in NameLists \union {<< >>}, BeginFunction(ns)
  PROVE  HandlersAfter
<1> DEFINE e == Entered(ctx, "function")
<1>1. /\ phase \in {"start", "collect", "functions"} /\ frames = << >> /\ Depth(ctx) < MaxScopes
      /\ out' = Opened(out, "block") /\ frames' = <<Framed("def")>> /\ phase' = "functions"
      /\ lazy' = lazy
  BY DEF BeginFunction
<1>2. /\ Sound(ctx) /\ out \in Output /\ homes \in Seq(HomeTable) /\ Len(homes) = 1
      /\ Len(ctx.scopes) \in Nat \ {0}
  BY <1>1, Resting
<1>3. out' \in Output /\ out'.indent = out.indent + 1
  BY <1>1, <1>2, EmittersTyped, HeaderOps
<1>4. Sound(e) /\ Len(e.scopes) = Len(ctx.scopes) + 1
  <2>1. Len(ctx.scopes) <= MaxScopes /\ "function" \in ScopeKinds
    BY <1>1, <1>2, ContextAssumption DEF Depth, ScopeKinds
  <2> QED BY <1>2, <2>1, EnteredSound
<1>5. /\ Sound(ctx') /\ Len(ctx'.scopes) = Len(ctx.scopes) + 1
      /\ homes' \in Seq(HomeTable) /\ Len(homes') = 1 + 1
  <2>1. CASE ns = << >>
    <3>1. ctx' = e /\ homes' = Append(homes, NoHomes)
      BY <2>1 DEF BeginFunction
    <3> QED BY <1>2, <1>4, <3>1, NoTable, TablePushed
  <2>2. CASE ns # << >>
    <3>1. ns \in NameLists
      BY <2>2
    <3>2. /\ MayDeclareBoth(e, ns, "param") /\ ctx' = DeclaredBoth(e, ns, "param")
          /\ homes' = Append(homes, HomesOf(ctx', ns))
      BY <2>2 DEF BeginFunction
    <3> HIDE DEF e
    <3>3. /\ Grown(e, ctx', {ns[1], ns[2]})
          /\ \A n \in {ns[1], ns[2]} : CurrentScope(ctx').vars[n] # 0
      <4>1. "param" \in DeclKinds
        BY DEF DeclKinds
      <4> QED BY <1>4, <3>1, <3>2, <4>1, BothGrown
    <3>4. ToSet(ns) = {ns[1], ns[2]} /\ ns[1] \in Names /\ ns[2] \in Names
      BY <3>1, ListMembers
    <3>5. Sound(ctx') /\ Len(ctx'.scopes) = Len(ctx.scopes) + 1
      BY <1>4, <3>3 DEF Grown
    <3>6. \A n \in ToSet(ns) : Resolve(ctx', n) # 0
      BY <3>3, <3>4, <3>5, ResolveTop DEF Sound
    <3> QED BY <1>2, <3>1, <3>2, <3>5, <3>6, TableOf, TablePushed
  <2> QED BY <2>1, <2>2
<1> DEFINE f == Framed("def")
<1>6. /\ f \in Frame /\ f.kind = "def"
      /\ OneIf(f.kind \in OwnKinds) = 1
  <2>1. "def" \in FrameKinds /\ "def" \in OwnKinds
    BY DEF FrameKinds, OwnKinds
  <2>2. f \in Frame /\ f.kind = "def"
    <3> HIDE DEF Frame
    <3> QED BY <2>1, FramedIsFrame
  <2> HIDE DEF f
  <2> QED BY <2>1, <2>2 DEF OneIf
<1>7. frames' = <<f>>
  BY <1>1
<1> HIDE DEF f, e, Frame
<1>8. Handlers(ctx', <<f>>, lazy, out', homes', IF f.kind = "bar" THEN "body" ELSE "functions")
  BY <1>1, <1>3, <1>5, <1>6, HandlersRoot
<1> QED BY <1>1, <1>6, <1>7, <1>8 DEF HandlersAfter

LEMMA BeginBarHandlers ==
  ASSUME HandlersInv, BeginProcessBar
  PROVE  HandlersAfter
<1> DEFINE f == [Framed("bar") EXCEPT !.empty = FALSE]
           p == Opened(out, "block")
<1>1. /\ phase \in {"start", "collect", "functions"} /\ frames = << >>
      /\ out' = Block(p, "if") /\ frames' = <<f>> /\ homes' = <<NoHomes>>
      /\ phase' = "body" /\ ctx' = ctx /\ lazy' = lazy
  BY DEF BeginProcessBar
<1>2. Sound(ctx) /\ out \in Output /\ Len(ctx.scopes) \in Nat
  BY <1>1, Resting
<1>3. out' \in Output /\ out'.indent = out.indent + 1
  <2>1. p \in Output /\ p.indent = out.indent + 1
    BY <1>2, EmittersTyped, HeaderOps
  <2> HIDE DEF p
  <2> QED BY <1>1, <2>1, EmittersTyped, HeaderOps
<1>4. f \in Frame /\ f.kind = "bar" /\ OneIf(f.kind \in OwnKinds) = 0
  BY DEF Framed, Frame, FrameKinds, OwnKinds, OneIf
<1>5. homes' \in Seq(HomeTable) /\ Len(homes') = 1
  <2> HIDE DEF HomeTable
  <2> QED BY <1>1, NoTable
<1> HIDE DEF f, Frame
<1>6. Len(ctx'.scopes) = Len(ctx.scopes) + 0 /\ Len(homes') = 1 + 0
  BY <1>1, <1>2, <1>5
<1>7. Handlers(ctx', <<f>>, lazy, out', homes', IF f.kind = "bar" THEN "body" ELSE "functions")
  BY <1>1, <1>2, <1>3, <1>4, <1>5, <1>6, HandlersRoot
<1> QED BY <1>1, <1>4, <1>7 DEF HandlersAfter

\* The end of the first handler.
LEMMA EndRootHandlers ==
  ASSUME HandlersInv, frames # << >>, Top.kind \in {"def", "bar"}
  PROVE  /\ lazy = 0 /\ out.indent \in Nat \ {0}
         /\ Len(homes) = 1 + OneIf(Top.kind \in OwnKinds)
         /\ ~ Retranslates => /\ Len(ctx.scopes) = 1 + OneIf(Top.kind \in OwnKinds)
                              /\ out.indent = 1
<1> DEFINE kind == Top.kind
           fs == Front(frames)
           w == OneIf(kind \in OwnKinds)
           i == out.indent - 1
           b == OneIf(kind \in BranchKinds)
<1>1. /\ Stacked(frames) /\ Deep(frames, lazy, Len(homes), Len(ctx.scopes), out.indent)
      /\ Len(ctx.scopes) \in 1 .. MaxScopes + 1 /\ Len(homes) \in Nat /\ out \in Output
  BY Running
<1>2. out.indent \in Nat
  BY <1>1, OutputFields
<1>3. /\ fs = << >> /\ Deep(fs, lazy - b, Len(homes) - w, Len(ctx.scopes) - w, i)
      /\ out.indent > 0 /\ lazy \in Nat
  <2>1. Len(ctx.scopes) <= MaxScopes + 1 /\ kind = frames[Len(frames)].kind
    BY <1>1, ContextAssumption DEF Top
  <2> HIDE DEF kind
  <2> QED BY <1>1, <2>1, StackPop DEF kind
<1>4. Deep(<< >>, lazy - b, Len(homes) - w, Len(ctx.scopes) - w, i)
  BY <1>3, Zenon
<1>5. b = 0 /\ w \in {0, 1}
  BY DEF OneIf, BranchKinds
<1> HIDE DEF w, b, fs, i
<1>6. /\ lazy - b = 0 /\ Len(homes) - w = 1 + 0
      /\ ~ Retranslates => Len(homes) - w = Len(ctx.scopes) - w /\ i = 0
  <2>1. CountOf(<< >>, BranchKinds) = 0 /\ CountOf(<< >>, OwnKinds) = 0 /\ Len(<< >>) = 0
    BY CountNone
  <2> QED BY <1>4, <2>1, Zenon DEF Deep
<1>7. lazy = 0 /\ Len(homes) = 1 + w /\ out.indent \in Nat \ {0}
  BY <1>1, <1>2, <1>3, <1>5, <1>6
<1>8. ASSUME ~ Retranslates PROVE Len(ctx.scopes) = 1 + w /\ out.indent = 1
  <2>1. Len(homes) - w = Len(ctx.scopes) - w /\ i = 0 /\ Len(homes) - w = 1
    BY <1>6, <1>8
  <2> QED BY <1>1, <1>2, <1>5, <2>1 DEF i
<1> QED BY <1>7, <1>8 DEF w

LEMMA EndFunctionHandlers ==
  ASSUME HandlersInv, NEW h \in BOOLEAN, EndFunction(h)
  PROVE  HandlersAfter
<1> DEFINE p == Hoisted(out, h)
<1>1. /\ frames # << >> /\ Top.kind = "def" /\ out' = Closed(p, Top)
      /\ ctx' = Left(ctx, "def") /\ homes' = LeftHomes(homes, "def")
      /\ frames' = << >> /\ lazy' = lazy /\ phase' = phase
  BY DEF EndFunction
<1>2. /\ out \in Output /\ phase \in {"functions", "body"}
      /\ phase = "body" <=> frames[1].kind = "bar"
      /\ Stacked(frames)
  BY <1>1, Running
<1>3. OneIf("def" \in OwnKinds) = 1
  BY DEF OneIf, OwnKinds, FrameKinds
<1>4. /\ lazy = 0 /\ out.indent \in Nat \ {0} /\ Len(homes) = 1 + 1
      /\ ~ Retranslates => Len(ctx.scopes) = 1 + 1 /\ out.indent = 1
  BY <1>1, <1>3, EndRootHandlers
<1>5. phase = "functions"
  <2>1. Len(frames) \in Nat \ {0} /\ Len(frames) \in 1 .. Len(frames)
        /\ \A k \in 1 .. Len(frames) : k = 1 <=> frames[k].kind \in {"def", "bar"}
    BY <1>1, <1>2 DEF Stacked
  <2>2. Len(frames) = 1 /\ frames[1].kind = "def"
    BY <1>1, <2>1 DEF Top
  <2> QED BY <1>2, <2>2
<1>6. /\ Sound(ctx') /\ Len(ctx'.scopes) = Len(ctx.scopes) - 1
      /\ homes' \in Seq(HomeTable) /\ Len(homes') = Len(homes) - 1
  <2>1. Top.kind # "bar"
    BY <1>1
  <2> QED BY <1>1, <1>3, <2>1, LeftState
<1>7. out' \in Output /\ out'.indent = out.indent - 1
  <2>1. p \in Output /\ p.indent = out.indent
    BY <1>2, EmittersTyped
  <2> HIDE DEF p
  <2> QED BY <1>1, <1>4, <2>1, EmittersTyped
<1>8. Handlers(ctx', << >>, 0, out', homes', "functions")
  <2>1. "functions" \in Phases \ {"body"}
    BY DEF Phases
  <2>2. Len(homes') = 1 /\ (~ Retranslates => Len(ctx'.scopes) = 1 /\ out'.indent = 0)
    BY <1>4, <1>6, <1>7
  <2> QED BY <1>6, <1>7, <2>1, <2>2, HandlersRest
<1> QED BY <1>1, <1>4, <1>5, <1>8 DEF HandlersAfter

LEMMA EndModuleHandlers ==
  ASSUME HandlersInv, EndModule
  PROVE  HandlersAfter
<1> DEFINE p == Dedented(out)
<1>1. /\ phase = "body" /\ Len(frames) = 1 /\ out' = Block(p, "block")
      /\ ctx' = ctx /\ homes' = homes
      /\ frames' = << >> /\ lazy' = lazy /\ phase' = "done"
  BY DEF EndModule
<1>2. frames # << >> /\ Top.kind = "bar"
  BY <1>1 DEF HandlersInv, Handlers, Rooted, Top
<1>3. out \in Output /\ Sound(ctx) /\ homes \in Seq(HomeTable)
  BY <1>2, Running
<1>4. OneIf("bar" \in OwnKinds) = 0
  BY DEF OneIf, OwnKinds
<1>5. /\ lazy = 0 /\ out.indent \in Nat \ {0} /\ Len(homes) = 1 + 0
      /\ ~ Retranslates => Len(ctx.scopes) = 1 + 0 /\ out.indent = 1
  BY <1>2, <1>4, EndRootHandlers
<1>6. out' \in Output /\ out'.indent = out.indent - 1
  <2>1. p \in Output /\ p.indent = out.indent - 1
    BY <1>3, <1>5, IndentTyped
  <2> HIDE DEF p
  <2> QED BY <1>1, <2>1, EmittersTyped, HeaderOps
<1>7. Handlers(ctx, << >>, 0, out', homes, "done")
  <2>1. "done" \in Phases \ {"body"}
    BY DEF Phases
  <2>2. Len(homes) = 1 /\ (~ Retranslates => Len(ctx.scopes) = 1 /\ out'.indent = 0)
    BY <1>5, <1>6
  <2> QED BY <1>3, <1>6, <2>1, <2>2, HandlersRest
<1> QED BY <1>1, <1>5, <1>7 DEF HandlersAfter

\* An error leaves the branch depth as it was before the program.
LEMMA RaiseHandlers ==
  ASSUME HandlersInv, Raise
  PROVE  HandlersAfter
<1>1. /\ phase \in {"collect", "functions", "body"} /\ lazy' = lazy - Cardinality(LazyFrames)
      /\ frames' = << >> /\ phase' = "raised" /\ ctx' = ctx /\ out' = out /\ homes' = homes
  BY DEF Raise, Unwound
<1>2. /\ Sound(ctx) /\ out \in Output /\ homes \in Seq(HomeTable) /\ homes # << >>
      /\ Stacked(frames) /\ Deep(frames, lazy, Len(homes), Len(ctx.scopes), out.indent)
  BY <1>1 DEF HandlersInv, Handlers
<1>3. Cardinality(LazyFrames) = CountOf(frames, BranchKinds)
  BY DEF LazyFrames, CountOf
<1>4. lazy' = 0
  <2>1. CountOf(frames, BranchKinds) \in Nat
    BY <1>2, CountType DEF Stacked
  <2> QED BY <1>1, <1>2, <1>3, <2>1 DEF Deep
<1>5. "raised" \in Phases /\ Rooted(<< >>, "raised")
  BY DEF Phases, Rooted
<1> QED BY <1>1, <1>2, <1>4, <1>5 DEF HandlersAfter, Handlers

LEMMA AgainHandlers ==
  ASSUME HandlersInv, TranslateAgain
  PROVE  HandlersAfter
<1>1. /\ Retranslates /\ phase \in {"raised", "done"} /\ phase' = "start"
      /\ homes' = <<NoHomes>> /\ ctx' = ctx /\ frames' = frames /\ lazy' = lazy /\ out' = out
  BY DEF TranslateAgain
<1>2. Sound(ctx) /\ out \in Output
  BY DEF HandlersInv, Handlers
<1>3. frames = << >> /\ lazy = 0
  <2>1. CASE phase = "raised"
    BY <2>1 DEF HandlersInv, Handlers
  <2>2. CASE phase = "done"
    <3>1. frames = << >> /\ phase # "raised"
      BY <2>2 DEF HandlersInv, Handlers, Rooted
    <3> QED BY <3>1, Resting
  <2> QED BY <1>1, <2>1, <2>2
<1>4. homes' \in Seq(HomeTable) /\ Len(homes') = 1
  <2> HIDE DEF HomeTable
  <2> QED BY <1>1, NoTable
<1>5. Handlers(ctx, << >>, 0, out, homes', "start")
  <2>1. "start" \in Phases \ {"body"}
    BY DEF Phases
  <2> QED BY <1>1, <1>2, <1>4, <2>1, HandlersRest
<1> QED BY <1>1, <1>3, <1>5 DEF HandlersAfter

LEMMA HoistsAreFlags ==
  ASSUME NEW place
  PROVE  MayHoist(place) \subseteq BOOLEAN
BY DEF MayHoist

LEMMA ActionHandlers ==
  ASSUME HandlersInv, LoweringNext
  PROVE  HandlersAfter
<1>1. CASE LowerModule
  BY <1>1, HoistsAreFlags, CollectHandlers, BeginFunctionHandlers, EndFunctionHandlers,
     BeginBarHandlers, EndModuleHandlers, RaiseHandlers, AgainHandlers DEF LowerModule
<1>2. CASE LowerStatement
  BY <1>2, HoistsAreFlags, EmitSimpleHandlers, EmitGlobalHandlers, EmitLocalHandlers,
     EmitTupleHandlers DEF LowerStatement
<1>3. CASE LowerStructure
  BY <1>3, HoistsAreFlags, BeginIfHandlers, BeginSwitchHandlers, ElseIfHandlers,
     NextCaseHandlers, ElseHandlers, EndHandlers, BeginWhileHandlers, BeginForHandlers
     DEF LowerStructure
<1> QED BY <1>1, <1>2, <1>3 DEF LoweringNext

LEMMA AfterIsPrimed == HandlersAfter => HandlersInv'
BY DEF HandlersAfter, HandlersInv, Handlers, Sound, Typed, NamesInv, Output, Module, Rooted,
       Stacked, Deep, CountOf, Context, Blocks

LEMMA StepHandlers == HandlersInv /\ [LoweringNext]_vars => HandlersInv'
<1>1. CASE LoweringNext
  BY <1>1, ActionHandlers, AfterIsPrimed
<1>2. CASE UNCHANGED vars
  <2> SUFFICES ASSUME HandlersInv PROVE HandlersAfter
    BY AfterIsPrimed
  <2> QED BY <1>2 DEF vars, HandlersInv, HandlersAfter
<1> QED BY <1>1, <1>2

LEMMA InitHandlers == LoweringInit => HandlersInv
<1> SUFFICES ASSUME LoweringInit PROVE HandlersInv
  OBVIOUS
<1>1. /\ ctx = EmptyContext /\ frames = << >> /\ lazy = 0
      /\ out = [indent |-> 0, py |-> EmptyModule]
      /\ homes = <<NoHomes>> /\ phase = "start"
  BY DEF LoweringInit, ContextInit
<1>2. Sound(ctx)
  <2>1. Len(ctx.heap) = 0
    BY <1>1 DEF EmptyContext
  <2>2. Typed(ctx)
    BY InitTyped DEF LoweringInit
  <2> QED BY <2>1, <2>2 DEF Sound, NamesInv
<1>3. out \in Output /\ out.indent = 0
  <2>1. <<"other">> \in Blocks
    <3>1. "other" \in LastStatements
      BY DEF LastStatements
    <3> HIDE DEF LastStatements
    <3> QED BY <3>1 DEF Blocks
  <2> DEFINE b == <<"other">>
  <2>2. EmptyModule = [blocks |-> b, ok |-> TRUE] /\ b \in Blocks
    BY <2>1 DEF EmptyModule
  <2> HIDE DEF b
  <2>3. EmptyModule \in Module
    BY <2>2 DEF Module
  <2> QED BY <1>1, <2>3 DEF Output
<1>4. homes \in Seq(HomeTable) /\ Len(homes) = 1
  <2> HIDE DEF HomeTable
  <2> QED BY <1>1, NoTable
<1>5. "start" \in Phases \ {"body"} /\ Len(ctx.scopes) = 1
  BY <1>1 DEF Phases, EmptyContext
<1>6. Handlers(ctx, << >>, 0, out, homes, "start")
  BY <1>2, <1>3, <1>4, <1>5, HandlersRest
<1> QED BY <1>1, <1>6 DEF HandlersInv

LEMMA AlwaysHandlers == LoweringSpec => []HandlersInv
BY InitHandlers, StepHandlers, PTL DEF LoweringSpec

LEMMA HandlersDepth ==
  ASSUME HandlersInv
  PROVE  /\ frames \in Seq(Frame) /\ Len(frames) <= MaxFrames /\ lazy \in Nat
         /\ phase \in {"raised", "done", "start"} => lazy = 0
<1>1. CASE phase = "raised"
  <2>1. frames = << >> /\ lazy = 0
    BY <1>1 DEF HandlersInv, Handlers
  <2>2. Len(<< >>) = 0 /\ << >> \in Seq(Frame)
    OBVIOUS
  <2> QED BY <2>1, <2>2, LoweringAssumption
<1>2. CASE phase # "raised"
  <2>1. Stacked(frames) /\ Deep(frames, lazy, Len(homes), Len(ctx.scopes), out.indent)
    BY <1>2 DEF HandlersInv, Handlers
  <2>2. frames \in Seq(Frame) /\ Len(frames) <= MaxFrames
    BY <2>1 DEF Stacked
  <2>3. lazy \in Nat
    BY <2>1, <2>2, CountType DEF Deep
  <2>4. ASSUME phase \in {"done", "start"} PROVE lazy = 0
    <3>1. frames = << >>
      BY <2>4 DEF HandlersInv, Handlers, Rooted
    <3> QED BY <1>2, <3>1, Resting
  <2> QED BY <1>2, <2>2, <2>3, <2>4
<1> QED BY <1>1, <1>2

\* Type correctness of the statement lowering, for every program and every
\* nesting of structures (TranslatorStatementMixin over CodeEmitter).
THEOREM LoweringTypeCorrect == LoweringSpec => []LoweringTypeOK
<1>1. HandlersInv => LoweringTypeOK
  <2> SUFFICES ASSUME HandlersInv PROVE LoweringTypeOK
    OBVIOUS
  <2>1. ContextTypeOK
    BY TypedIsTypeOK DEF HandlersInv, Handlers, Sound
  <2>2. frames \in Seq(Frame) /\ Len(frames) <= MaxFrames /\ lazy \in Nat
    BY HandlersDepth
  <2>3. /\ out.indent \in Nat /\ out.py.ok \in BOOLEAN
        /\ out.py.blocks \in Seq(LastStatements)
    BY OutputFields DEF HandlersInv, Handlers, Blocks
  <2>4. homes \in Seq([Names -> Cells \union {NoCell}])
    BY DEF HandlersInv, Handlers, HomeTable
  <2>5. phase \in {"start", "collect", "functions", "body", "done", "raised"}
    BY DEF HandlersInv, Handlers, Phases
  <2> QED BY <2>1, <2>2, <2>3, <2>4, <2>5, Zenon DEF LoweringTypeOK
<1> QED BY <1>1, AlwaysHandlers, PTL

\* An error under any nesting of branches, loops and functions leaves the branch
\* depth at zero (the try/finally of _exit_lazy_branch, statements.py), also for
\* the next program of the same Translator.
THEOREM BranchDepthAlwaysRestored == LoweringSpec => []BranchDepthRestored
<1>1. HandlersInv => BranchDepthRestored
  BY HandlersDepth DEF BranchDepthRestored
<1> QED BY <1>1, AlwaysHandlers, PTL

\* No Python name is handed out twice by any lowering, a Translator used for
\* several programs included (NamingRegistry is never reset).
THEOREM LoweredNamesUnique == LoweringSpec => []UniqueNames
<1>1. HandlersInv => UniqueNames
  BY DEF HandlersInv, Handlers, Sound, NamesInv, UniqueNames
<1> QED BY <1>1, AlwaysHandlers, PTL

\* No path through a handler forgets a dedent, an exit_scope or an
\* _exit_lazy_branch: while a Translator lowers its first program, its
\* indentation, its scope stack and its branch depth are those of the running
\* handlers (statements.py, declarations.py).
THEOREM HandlersBalanced ==
  ASSUME ~ Retranslates
  PROVE  LoweringSpec => []Balanced
<1>1. HandlersInv => Balanced
  <2> SUFFICES ASSUME HandlersInv, phase # "raised" PROVE Balanced
    BY DEF Balanced
  <2>1. Stacked(frames) /\ Deep(frames, lazy, Len(homes), Len(ctx.scopes), out.indent)
    BY DEF HandlersInv, Handlers
  <2>2. /\ lazy = CountOf(frames, BranchKinds) /\ Len(homes) = 1 + CountOf(frames, OwnKinds)
        /\ Len(homes) = Len(ctx.scopes) /\ out.indent = Len(frames)
    BY <2>1 DEF Deep
  <2>3. \A k \in 1 .. Len(frames) : OwnsScope(frames[k].kind) <=> frames[k].kind \in OwnKinds
    <3>1. \A k \in 1 .. Len(frames) : frames[k].kind \in FrameKinds
      <4>1. \A k \in 1 .. Len(frames) : frames[k] \in Frame
        BY <2>1 DEF Stacked
      <4> QED BY <4>1 DEF Frame
    <3> QED BY <3>1 DEF OwnsScope, OwnKinds
  <2>4. {k \in 1 .. Len(frames) : OwnsScope(frames[k].kind)}
          = {k \in 1 .. Len(frames) : frames[k].kind \in OwnKinds}
    BY <2>3
  <2> QED BY <2>2, <2>4 DEF Balanced, CountOf, LazyFrames, Depth
<1> QED BY <1>1, AlwaysHandlers, PTL
-----------------------------------------------------------------------------
(***************************************************************************)
(* The Python that is written.  An output is ready for the next line when  *)
(* its indentation is that of an open block, and that of the header above  *)
(* if that is the last line; it is settled when no header is.              *)
(***************************************************************************)
Ready(o) ==
  /\ o \in Output /\ o.py.ok
  /\ o.indent + 1 <= Len(o.py.blocks)
  /\ Last(o.py.blocks) = "none" => Len(o.py.blocks) = o.indent + 1

Settled(o) == Ready(o) /\ Last(o.py.blocks) # "none"

\* The blocks around a position are as they were.
Keeps(o, p, m) == \A j \in 1 .. m : p.py.blocks[j] = o.py.blocks[j]

LEMMA LineReady ==
  ASSUME NEW o, Ready(o), NEW op \in LineOps,
         op \in {"elif", "else"} => o.py.blocks[o.indent + 1] = "chain"
  PROVE  LET q == Line(o, op)
         IN /\ q \in Output /\ q.indent = o.indent /\ q.py.ok
            /\ Keeps(o, q, o.indent)
            /\ q.py.blocks[o.indent + 1] = IF op \in {"if", "elif"} THEN "chain" ELSE "other"
            /\ op \in Headers => /\ Len(q.py.blocks) = o.indent + 2
                                 /\ Last(q.py.blocks) = "none"
            /\ op \notin Headers => /\ Len(q.py.blocks) = o.indent + 1
                                    /\ Last(q.py.blocks) # "none"
<1> DEFINE q == Line(o, op)
           x == IF op \in {"if", "elif"} THEN "chain" ELSE "other"
           t == IF op \in Headers THEN <<"none">> ELSE << >>
           b == o.py.blocks
           i == o.indent
           r == Append(SubSeq(b, 1, i), x) \o t
<1>1. /\ o \in Output /\ o.py.ok /\ i + 1 <= Len(b) /\ (Last(b) = "none" => Len(b) = i + 1)
      /\ i \in Nat /\ b \in Blocks /\ Len(b) \in Nat
  BY OutputFields DEF Ready
<1>2. LineAllowed(o.py, i, op)
  BY <1>1 DEF LineAllowed
<1>3. q.py = [blocks |-> r, ok |-> TRUE] /\ q \in Output /\ q.indent = i
  <2>1. WithLine(o.py, i, op) = [blocks |-> r, ok |-> TRUE]
    BY <1>1, <1>2 DEF WithLine
  <2> DEFINE w == WithLine(o.py, i, op)
  <2>2. q = [o EXCEPT !.py = w]
    BY DEF Line
  <2>3. q.py = w
    <3>1. o \in [indent : Nat, py : Module]
      BY <1>1 DEF Output
    <3> HIDE DEF w, q
    <3> QED BY <2>2, <3>1
  <2> HIDE DEF r, q, i
  <2> QED BY <1>1, <2>1, <2>3, LineTyped DEF q, i
<1>4. q.py.blocks = r /\ q.py.ok
  <2> HIDE DEF r, q
  <2> QED BY <1>3
<1>5. /\ x \in LastStatements /\ x # "none" /\ t \in {<< >>, <<"none">>}
      /\ op \in Headers => t = <<"none">>
      /\ op \notin Headers => t = << >>
  BY DEF LastStatements
<1>6. Len(t) = IF op \in Headers THEN 1 ELSE 0
  BY DEF t
<1> HIDE DEF x, t
<1>7. /\ Len(r) = i + 1 + Len(t) /\ \A j \in 1 .. i : r[j] = b[j]
      /\ r[i + 1] = x /\ \A j \in 1 .. Len(t) : r[i + 1 + j] = t[j]
  <2> HIDE DEF b, i
  <2> QED BY <1>1, <1>5, LineBlocks
<1> HIDE DEF r, q
<1>8. ASSUME op \in Headers
      PROVE  Len(q.py.blocks) = i + 2 /\ Last(q.py.blocks) = "none"
  <2>1. Len(t) = 1 /\ t[1] = "none"
    BY <1>5, <1>6, <1>8
  <2>2. Len(r) = i + 2 /\ r[i + 1 + 1] = "none" /\ i + 1 + 1 = i + 2
    <3>1. Len(r) = i + 1 + 1 /\ 1 \in 1 .. Len(t)
      BY <1>7, <2>1
    <3>2. r[i + 1 + 1] = "none"
      BY <1>7, <2>1, <3>1
    <3>3. i + 1 + 1 = i + 2
      BY <1>1
    <3> QED BY <3>1, <3>2, <3>3
  <2> QED BY <1>4, <2>2 DEF Last
<1>9. ASSUME op \notin Headers
      PROVE  Len(q.py.blocks) = i + 1 /\ Last(q.py.blocks) # "none"
  <2>1. Len(r) = i + 1
    <3>1. Len(r) = i + 1 + 0
      BY <1>6, <1>7, <1>9
    <3> QED BY <1>1, <3>1
  <2> QED BY <1>4, <1>5, <1>7, <2>1 DEF Last
<1>10. Keeps(o, q, i) /\ q.py.blocks[i + 1] = x
  BY <1>4, <1>7 DEF Keeps, b
<1> QED BY <1>3, <1>4, <1>8, <1>9, <1>10 DEF q, x, i

LEMMA SimpleSettled ==
  ASSUME NEW o, Ready(o)
  PROVE  /\ Settled(Simple(o)) /\ Simple(o).indent = o.indent
         /\ Keeps(o, Simple(o), o.indent)
<1> DEFINE q == Line(o, "simple")
<1>1. "simple" \in LineOps /\ "simple" \notin Headers /\ "simple" \notin {"elif", "else"}
  BY DEF LineOps, Headers
<1>2. /\ q \in Output /\ q.indent = o.indent /\ q.py.ok /\ Keeps(o, q, o.indent)
      /\ Len(q.py.blocks) = o.indent + 1 /\ Last(q.py.blocks) # "none"
  BY <1>1, LineReady
<1>3. Simple(o) = q
  BY DEF Simple
<1> HIDE DEF q
<1>4. o.indent \in Nat
  BY OutputFields DEF Ready
<1>5. q.indent + 1 <= Len(q.py.blocks)
  BY <1>2, <1>4
<1> QED BY <1>2, <1>3, <1>5 DEF Settled, Ready

LEMMA OpenedReady ==
  ASSUME NEW o, Ready(o), NEW op \in Headers,
         op \in {"elif", "else"} => o.py.blocks[o.indent + 1] = "chain"
  PROVE  /\ Ready(Opened(o, op)) /\ Opened(o, op).indent = o.indent + 1
         /\ Keeps(o, Opened(o, op), o.indent)
         /\ Opened(o, op).py.blocks[o.indent + 1] =
              IF op \in {"if", "elif"} THEN "chain" ELSE "other"
<1> DEFINE q == Line(o, op)
           x == IF op \in {"if", "elif"} THEN "chain" ELSE "other"
<1>1. /\ q \in Output /\ q.indent = o.indent /\ q.py.ok /\ Keeps(o, q, o.indent)
      /\ q.py.blocks[o.indent + 1] = x
      /\ Len(q.py.blocks) = o.indent + 2 /\ Last(q.py.blocks) = "none"
  BY LineReady DEF LineOps
<1>2. Opened(o, op) = Indented(q)
  BY DEF Opened
<1> HIDE DEF q, x
<1>3. Indented(q) \in Output /\ Indented(q).indent = o.indent + 1 /\ Indented(q).py = q.py
  BY <1>1, IndentTyped
<1>4. o.indent \in Nat
  BY OutputFields DEF Ready
<1>5. /\ o.indent + 1 + 1 <= Len(q.py.blocks)
      /\ Len(q.py.blocks) = o.indent + 1 + 1
  BY <1>1, <1>4
<1> QED BY <1>1, <1>2, <1>3, <1>5 DEF Ready, Keeps, x

LEMMA DedentedSettled ==
  ASSUME NEW o, Settled(o), o.indent > 0
  PROVE  /\ Settled(Dedented(o)) /\ Dedented(o).indent = o.indent - 1
         /\ Dedented(o).py = o.py
<1>1. /\ o \in Output /\ o.py.ok /\ o.indent + 1 <= Len(o.py.blocks)
      /\ Last(o.py.blocks) # "none" /\ o.indent \in Nat /\ Len(o.py.blocks) \in Nat
  BY OutputFields DEF Settled, Ready
<1>2. /\ Dedented(o) \in Output /\ Dedented(o).indent = o.indent - 1
      /\ Dedented(o).py = o.py
  BY <1>1, IndentTyped
<1>3. o.indent - 1 + 1 <= Len(o.py.blocks)
  BY <1>1
<1> QED BY <1>1, <1>2, <1>3 DEF Settled, Ready

LEMMA BlockSettled ==
  ASSUME NEW o, Ready(o), NEW op \in Headers,
         op \in {"elif", "else"} => o.py.blocks[o.indent + 1] = "chain"
  PROVE  /\ Settled(Block(o, op)) /\ Block(o, op).indent = o.indent
         /\ Keeps(o, Block(o, op), o.indent)
         /\ op = "if" => Block(o, op).py.blocks[o.indent + 1] = "chain"
<1> DEFINE p == Opened(o, op)
           q == Simple(p)
<1>1. /\ Ready(p) /\ p.indent = o.indent + 1 /\ Keeps(o, p, o.indent)
      /\ op = "if" => p.py.blocks[o.indent + 1] = "chain"
  BY OpenedReady
<1>2. Block(o, op) = Dedented(q)
  BY DEF Block
<1> HIDE DEF p
<1>3. Settled(q) /\ q.indent = o.indent + 1 /\ Keeps(p, q, o.indent + 1)
  BY <1>1, SimpleSettled
<1> HIDE DEF q
<1>4. o.indent \in Nat
  BY OutputFields DEF Ready
<1>5. /\ Settled(Dedented(q)) /\ Dedented(q).indent = o.indent /\ Dedented(q).py = q.py
  <2>1. q.indent > 0 /\ q.indent - 1 = o.indent
    BY <1>3, <1>4
  <2> QED BY <1>3, <2>1, DedentedSettled
<1>6. \A j \in 1 .. o.indent : j \in 1 .. o.indent + 1
  BY <1>4
<1>7. o.indent + 1 \in 1 .. o.indent + 1
  BY <1>4
<1> QED BY <1>1, <1>2, <1>3, <1>5, <1>6, <1>7 DEF Keeps

LEMMA HoistedReady ==
  ASSUME NEW o, Ready(o), NEW h \in BOOLEAN
  PROVE  /\ Ready(Hoisted(o, h)) /\ Hoisted(o, h).indent = o.indent
         /\ Keeps(o, Hoisted(o, h), o.indent)
         /\ Settled(o) => Settled(Hoisted(o, h))
BY SimpleSettled DEF Hoisted, Settled, Keeps

LEMMA ClosedSettled ==
  ASSUME NEW o, Ready(o), o.indent > 0, NEW f, Last(o.py.blocks) = "none" => ClosesWithLine(f)
  PROVE  /\ Settled(Closed(o, f)) /\ Closed(o, f).indent = o.indent - 1
         /\ Keeps(o, Closed(o, f), o.indent)
<1> DEFINE p == IF ClosesWithLine(f) THEN Simple(o) ELSE o
<1>1. Settled(p) /\ p.indent = o.indent /\ Keeps(o, p, o.indent)
  BY SimpleSettled DEF Settled, Keeps
<1>2. Closed(o, f) = Dedented(p)
  BY DEF Closed
<1> HIDE DEF p
<1> QED BY <1>1, <1>2, DedentedSettled DEF Keeps

\* The handlers whose header the next branch continues.
Chained == {"if", "elif", "case", "leaf"}

\* What the text is to the running handlers: a header without its block belongs
\* to the innermost one, which has to write something yet, and a branch that may
\* be continued is still the last statement of the block it stands in.
Written(fs, o) ==
  /\ Ready(o)
  /\ fs # << >> /\ Last(o.py.blocks) = "none" =>
       fs[Len(fs)].empty /\ fs[Len(fs)].kind \notin {"leaf", "bar"}
  /\ \A k \in 1 .. Len(fs) :
       fs[k].kind \in Chained => o.py.blocks[o.indent - Len(fs) + k] = "chain"

\* The handlers and the text change above the first m frames only.
LEMMA WrittenAbove ==
  ASSUME NEW fs \in Seq(Frame), NEW o, Written(fs, o), Len(fs) <= o.indent,
         NEW gs \in Seq(Frame), NEW m \in Nat, m <= Len(fs),
         Len(gs) = m \/ Len(gs) = m + 1,
         \A k \in 1 .. m : gs[k].kind = fs[k].kind,
         NEW p, Ready(p), p.indent - Len(gs) = o.indent - Len(fs),
         Keeps(o, p, o.indent - Len(fs) + m),
         Len(gs) = m + 1 /\ gs[m + 1].kind \in Chained => p.py.blocks[p.indent] = "chain",
         Last(p.py.blocks) = "none" =>
           gs[Len(gs)].empty /\ gs[Len(gs)].kind \notin {"leaf", "bar"}
  PROVE  Written(gs, p)
<1> DEFINE i == o.indent
           j == p.indent
           n == Len(fs)
           l == Len(gs)
<1>1. i \in Nat /\ j \in Nat /\ n \in Nat /\ l \in Nat /\ (l = m \/ l = m + 1)
      /\ n <= i
  BY OutputFields DEF Written, Ready
<1>2. ASSUME NEW k \in 1 .. l, gs[k].kind \in Chained
      PROVE  p.py.blocks[j - l + k] = "chain"
  <2>1. CASE k <= m
    <3>1. k \in 1 .. m /\ k \in 1 .. n
      BY <1>1, <2>1
    <3>2. fs[k].kind \in Chained
      BY <1>2, <3>1
    <3>3. o.py.blocks[i - n + k] = "chain"
      BY <3>1, <3>2 DEF Written
    <3>4. i - n + k \in 1 .. i - n + m
      <4> HIDE DEF i, n
      <4> QED BY <1>1, <2>1, <3>1
    <3>5. p.py.blocks[i - n + k] = o.py.blocks[i - n + k]
      BY <3>4 DEF Keeps
    <3> QED BY <3>3, <3>5
  <2>2. CASE ~ (k <= m)
    <3> HIDE DEF l, j
    <3>1. k = m + 1 /\ l = m + 1 /\ j - l + k = j
      BY <1>1, <2>2
    <3> QED BY <1>2, <3>1 DEF l, j
  <2> QED BY <2>1, <2>2
<1> QED BY <1>2 DEF Written

\* Facts of a running handler that the steps need.
LEMMA RunningWritten ==
  ASSUME HandlersInv, frames # << >>, Written(frames, out)
  PROVE  /\ Ready(out) /\ out \in Output /\ out.indent \in Nat \ {0}
         /\ frames \in Seq(Frame) /\ Len(frames) \in Nat \ {0} /\ Len(frames) <= out.indent
         /\ Top.empty = FALSE \/ Top.kind \in {"leaf", "bar"} => Settled(out)
         /\ Top.kind \in Chained => out.py.blocks[out.indent] = "chain"
<1>1. /\ Stacked(frames) /\ Deep(frames, lazy, Len(homes), Len(ctx.scopes), out.indent)
      /\ Len(frames) \in Nat \ {0} /\ out \in Output
  BY Running
<1>2. Len(frames) <= out.indent /\ out.indent \in Nat /\ frames \in Seq(Frame)
  BY <1>1 DEF Deep, Stacked
<1>3. Ready(out) /\ (Top.empty = FALSE \/ Top.kind \in {"leaf", "bar"} => Settled(out))
  BY DEF Written, Settled, Top
<1>4. Top.kind \in Chained => out.py.blocks[out.indent] = "chain"
  <2>1. Len(frames) \in 1 .. Len(frames) /\ out.indent - Len(frames) + Len(frames) = out.indent
    BY <1>1, <1>2
  <2> QED BY <2>1 DEF Written, Top
<1> QED BY <1>1, <1>2, <1>3, <1>4

LEMMA WrittenNoted ==
  ASSUME HandlersInv, frames # << >>, Written(frames, out), NEW v \in BOOLEAN,
         NEW p, Settled(p), p.indent = out.indent, Keeps(out, p, out.indent)
  PROVE  Written(Noted(v), p)
<1> DEFINE gs == Noted(v)
           n == Len(frames)
<1>1. /\ frames \in Seq(Frame) /\ n \in Nat \ {0} /\ n <= out.indent /\ out.indent \in Nat
  BY RunningWritten
<1>2. /\ gs \in Seq(Frame) /\ Len(gs) = n
      /\ \A k \in 1 .. n : gs[k].kind = frames[k].kind
  BY <1>1, NotedFrame
<1> HIDE DEF gs, n, Frame
<1>3. /\ Ready(p) /\ Last(p.py.blocks) # "none"
      /\ p.indent - Len(gs) = out.indent - n
      /\ out.indent - n + n = out.indent
      /\ n <= n /\ Len(gs) # n + 1
  BY <1>1, <1>2 DEF Settled
<1>4. Written(gs, p)
  BY <1>1, <1>2, <1>3, WrittenAbove DEF n
<1> QED BY <1>4 DEF gs

LEMMA WrittenNest ==
  ASSUME HandlersInv, frames # << >>, Written(frames, out), NEW kind \in FrameKinds,
         NEW p, Ready(p), p.indent = out.indent + 1, Keeps(out, p, out.indent),
         kind \in Chained => p.py.blocks[out.indent + 1] = "chain",
         Last(p.py.blocks) = "none" => kind \notin {"leaf", "bar"}
  PROVE  Written(Append(Noted(FALSE), Framed(kind)), p)
<1> DEFINE fs == Noted(FALSE)
           f == Framed(kind)
           gs == Append(fs, f)
           n == Len(frames)
<1>1. /\ frames \in Seq(Frame) /\ n \in Nat \ {0} /\ n <= out.indent /\ out.indent \in Nat
  BY RunningWritten
<1>2. /\ fs \in Seq(Frame) /\ Len(fs) = n
      /\ \A k \in 1 .. n : fs[k].kind = frames[k].kind
  BY <1>1, NotedFrame
<1>3. f \in Frame /\ f.kind = kind /\ f.empty = TRUE
  BY FramedIsFrame
<1> HIDE DEF fs, f, n, Frame
<1>4. /\ gs \in Seq(Frame) /\ Len(gs) = n + 1 /\ gs[n + 1] = f
      /\ \A k \in 1 .. n : gs[k] = fs[k]
  BY <1>2, <1>3, PushedFrame
<1> HIDE DEF gs
<1>5. /\ p.indent - Len(gs) = out.indent - n /\ out.indent - n + n = out.indent
      /\ n <= n /\ n \in Nat
  BY <1>1, <1>4
<1>6. \A k \in 1 .. n : gs[k].kind = frames[k].kind
  BY <1>2, <1>4
<1>7. gs[n + 1].kind \in Chained => p.py.blocks[p.indent] = "chain"
  BY <1>3, <1>4
<1>8. Last(p.py.blocks) = "none" => gs[Len(gs)].empty /\ gs[Len(gs)].kind \notin {"leaf", "bar"}
  BY <1>3, <1>4
<1>9. Keeps(out, p, out.indent - n + n)
  BY <1>5
<1>10. Written(gs, p)
  BY <1>1, <1>4, <1>5, <1>6, <1>7, <1>8, <1>9, WrittenAbove, ZenonT(30) DEF n
<1> QED BY <1>10 DEF gs, fs, f

LEMMA WrittenEnd ==
  ASSUME HandlersInv, frames # << >>, Written(frames, out),
         NEW p, Settled(p), p.indent = out.indent - 1, Keeps(out, p, out.indent - 1)
  PROVE  Written(Front(frames), p)
<1> DEFINE gs == Front(frames)
           n == Len(frames)
           m == n - 1
<1>1. /\ frames \in Seq(Frame) /\ n \in Nat \ {0} /\ n <= out.indent /\ out.indent \in Nat
  BY RunningWritten
<1>2. /\ gs \in Seq(Frame) /\ Len(gs) = m /\ \A k \in 1 .. m : gs[k] = frames[k]
  BY <1>1, PoppedFrame
<1>3. m \in Nat /\ m <= n /\ m # m + 1 /\ out.indent - n + m = out.indent - 1
      /\ out.indent - 1 - m = out.indent - n
  BY <1>1
<1> HIDE DEF gs, n, m, Frame
<1>4. p.indent - Len(gs) = out.indent - n /\ Len(gs) # m + 1
  BY <1>2, <1>3
<1>5. Ready(p) /\ Last(p.py.blocks) # "none"
  BY DEF Settled
<1>6. Written(gs, p)
  BY <1>1, <1>2, <1>3, <1>4, <1>5, WrittenAbove DEF n
<1> QED BY <1>6 DEF gs

LEMMA WrittenNext ==
  ASSUME HandlersInv, frames # << >>, Written(frames, out), NEW kind \in BranchKinds,
         NEW p, Ready(p), p.indent = out.indent, Keeps(out, p, out.indent - 1),
         kind \in Chained => p.py.blocks[out.indent] = "chain",
         Last(p.py.blocks) = "none" => kind # "leaf"
  PROVE  Written(Append(Front(frames), Framed(kind)), p)
<1> DEFINE fs == Front(frames)
           f == Framed(kind)
           gs == Append(fs, f)
           n == Len(frames)
           m == n - 1
<1>1. /\ frames \in Seq(Frame) /\ n \in Nat \ {0} /\ n <= out.indent /\ out.indent \in Nat
  BY RunningWritten
<1>2. /\ fs \in Seq(Frame) /\ Len(fs) = m /\ \A k \in 1 .. m : fs[k] = frames[k]
  BY <1>1, PoppedFrame
<1>3. f \in Frame /\ f.kind = kind /\ f.empty = TRUE /\ kind # "bar"
  BY FramedIsFrame DEF FrameKinds, BranchKinds
<1>4. m \in Nat /\ m <= n /\ m + 1 = n /\ out.indent - n + m = out.indent - 1
  BY <1>1
<1> HIDE DEF fs, f, n, m, Frame
<1>5. /\ gs \in Seq(Frame) /\ Len(gs) = m + 1 /\ gs[m + 1] = f
      /\ \A k \in 1 .. m : gs[k] = fs[k]
  BY <1>2, <1>3, PushedFrame
<1> HIDE DEF gs
<1>6. p.indent - Len(gs) = out.indent - n
  BY <1>4, <1>5
<1>7. \A k \in 1 .. m : gs[k].kind = frames[k].kind
  BY <1>2, <1>5
<1>8. gs[m + 1].kind \in Chained => p.py.blocks[p.indent] = "chain"
  BY <1>3, <1>5
<1>9. Last(p.py.blocks) = "none" => gs[Len(gs)].empty /\ gs[Len(gs)].kind \notin {"leaf", "bar"}
  BY <1>3, <1>5
<1>10. Written(gs, p)
  BY <1>1, <1>4, <1>5, <1>6, <1>7, <1>8, <1>9, WrittenAbove, ZenonT(30) DEF n
<1> QED BY <1>10 DEF gs, fs, f

\* Without a handler only the text has to be ready.
LEMMA WrittenNone ==
  ASSUME NEW p, Ready(p)
  PROVE  Written(<< >>, p)
<1>1. Len(<< >>) = 0
  OBVIOUS
<1> QED BY <1>1 DEF Written
-----------------------------------------------------------------------------
(***************************************************************************)
(* Every action writes Python that goes on from what is there, when the    *)
(* condition of an else-if needs no temporary series and its block is not  *)
(* empty.                                                                  *)
(***************************************************************************)
PlainElseIfs == ~ EmptyElseIf /\ "elif" \notin HoistPlaces

WrittenAfter == Written(frames', out')

\* An output that goes on from another one at the same indentation.
Follows(o, p) == Settled(p) /\ p.indent = o.indent /\ Keeps(o, p, o.indent)

LEMMA KeepsMore ==
  ASSUME NEW a, NEW b, NEW c, NEW i \in Nat, NEW j \in Nat, i <= j,
         Keeps(a, b, i), Keeps(b, c, j)
  PROVE  Keeps(a, c, i)
<1>1. \A k \in 1 .. i : k \in 1 .. j
  OBVIOUS
<1> QED BY <1>1 DEF Keeps

LEMMA SimpleFollows ==
  ASSUME NEW o, Ready(o), NEW h \in BOOLEAN
  PROVE  Follows(o, Simple(Hoisted(o, h)))
<1> DEFINE p == Hoisted(o, h)
<1>1. Ready(p) /\ p.indent = o.indent /\ Keeps(o, p, o.indent) /\ o.indent \in Nat
  BY HoistedReady, OutputFields DEF Ready
<1> HIDE DEF p
<1>2. Settled(Simple(p)) /\ Simple(p).indent = o.indent /\ Keeps(p, Simple(p), o.indent)
  BY <1>1, SimpleSettled
<1> QED BY <1>1, <1>2, KeepsMore DEF Follows, p

LEMMA OpensReady ==
  ASSUME NEW o, Ready(o), NEW h \in BOOLEAN, NEW op \in {"if", "block"}
  PROVE  LET p == Opened(Hoisted(o, h), op)
         IN /\ Ready(p) /\ p.indent = o.indent + 1 /\ Keeps(o, p, o.indent)
            /\ op = "if" => p.py.blocks[o.indent + 1] = "chain"
<1> DEFINE q == Hoisted(o, h)
           p == Opened(q, op)
<1>1. Ready(q) /\ q.indent = o.indent /\ Keeps(o, q, o.indent) /\ o.indent \in Nat
  BY HoistedReady, OutputFields DEF Ready
<1> HIDE DEF q
<1>2. /\ Ready(p) /\ p.indent = o.indent + 1 /\ Keeps(q, p, o.indent)
      /\ op = "if" => p.py.blocks[o.indent + 1] = "chain"
  BY <1>1, OpenedReady DEF Headers
<1> HIDE DEF p
<1> QED BY <1>1, <1>2, KeepsMore DEF p, q

LEMMA BlocksFollow ==
  ASSUME NEW o, Ready(o)
  PROVE  /\ Follows(o, Block(o, "if")) /\ Follows(o, Block(o, "block"))
         /\ Follows(o, Block(Block(o, "if"), "else"))
<1> DEFINE p == Block(o, "if")
           q == Block(p, "else")
<1>1. "if" \in Headers /\ "else" \in Headers /\ "block" \in Headers /\ o.indent \in Nat
  BY OutputFields DEF Headers, Ready
<1>2. /\ Settled(p) /\ p.indent = o.indent /\ Keeps(o, p, o.indent)
      /\ p.py.blocks[o.indent + 1] = "chain"
  BY <1>1, BlockSettled
<1>3. Follows(o, Block(o, "block"))
  BY <1>1, BlockSettled DEF Follows
<1> HIDE DEF p
<1>4. Settled(q) /\ q.indent = o.indent /\ Keeps(p, q, o.indent)
  BY <1>1, <1>2, BlockSettled DEF Settled
<1> HIDE DEF q
<1>5. Keeps(o, q, o.indent)
  BY <1>1, <1>2, <1>4, KeepsMore
<1> QED BY <1>2, <1>3, <1>4, <1>5 DEF Follows, p, q

LEMMA FollowsMore ==
  ASSUME NEW a, Ready(a), NEW b, NEW c, Follows(a, b), Follows(b, c)
  PROVE  Follows(a, c)
<1>1. a.indent \in Nat
  BY OutputFields DEF Ready
<1> QED BY <1>1, KeepsMore DEF Follows

LEMMA EmitSimpleWritten ==
  ASSUME HandlersInv, Written(frames, out), NEW h \in BOOLEAN, EmitSimple(h)
  PROVE  WrittenAfter
<1>1. frames # << >> /\ frames' = Noted(FALSE) /\ out' = Simple(Hoisted(out, h))
  BY DEF EmitSimple, AtStatement
<1>2. Follows(out, out')
  BY <1>1, RunningWritten, SimpleFollows
<1> QED BY <1>1, <1>2, WrittenNoted DEF WrittenAfter, Follows

LEMMA EmitLocalWritten ==
  ASSUME HandlersInv, Written(frames, out), NEW n \in Names, NEW kind \in Kinds,
         NEW h \in BOOLEAN, EmitLocalDeclaration(n, kind, h)
  PROVE  WrittenAfter
<1>1. frames # << >> /\ frames' = Noted(TRUE) /\ out' = Simple(Hoisted(out, h))
  BY DEF EmitLocalDeclaration, AtStatement
<1>2. Follows(out, out')
  BY <1>1, RunningWritten, SimpleFollows
<1> QED BY <1>1, <1>2, WrittenNoted DEF WrittenAfter, Follows

LEMMA EmitGlobalWritten ==
  ASSUME HandlersInv, Written(frames, out), NEW n \in Names, NEW h \in BOOLEAN,
         EmitGlobalDeclaration(n, h)
  PROVE  WrittenAfter
<1> DEFINE info == ctx.heap[Resolve(ctx, n)]
           p == Hoisted(out, h)
<1>1. frames # << >> /\ Top.kind = "bar" /\ frames' = Noted(TRUE)
  BY DEF EmitGlobalDeclaration, AtStatement
<1>2. Ready(out) /\ Settled(out)
  BY <1>1, RunningWritten
<1>3. Follows(out, p) /\ Ready(p)
  BY <1>2, HoistedReady DEF Follows, Settled
<1>4. out' = GlobalLines(p, info.kind) \/ out' = Simple(p)
  BY DEF EmitGlobalDeclaration
<1> HIDE DEF p
<1>5. Follows(p, Simple(p))
  BY <1>3, SimpleSettled DEF Follows
<1>6. Follows(p, Block(p, "if")) /\ Follows(p, Block(Block(p, "if"), "else"))
  BY <1>3, BlocksFollow
<1>7. out' = p \/ Follows(p, out')
  BY <1>4, <1>5, <1>6 DEF GlobalLines
<1>8. Follows(out, out')
  BY <1>2, <1>3, <1>7, FollowsMore
<1> QED BY <1>1, <1>8, WrittenNoted DEF WrittenAfter, Follows

LEMMA EmitTupleWritten ==
  ASSUME HandlersInv, Written(frames, out), NEW ns \in NameLists, NEW g \in BOOLEAN,
         NEW h \in BOOLEAN, EmitTuple(ns, g, h)
  PROVE  WrittenAfter
<1> DEFINE p == Hoisted(out, h)
           one == Simple(p)
           q == Unpacked(p, g)
<1>1. frames # << >> /\ frames' = Noted(FALSE) /\ out' = Simple(q)
  BY DEF EmitTuple, AtStatement
<1>2. Ready(out)
  BY <1>1, RunningWritten
<1>3. Follows(out, one)
  BY <1>2, SimpleFollows
<1>4. q = IF g THEN Block(Block(one, "if"), "else") ELSE one
  BY DEF Unpacked
<1> HIDE DEF p, one, q
<1>5. Follows(out, q)
  <2>1. Ready(one) /\ Follows(one, Block(Block(one, "if"), "else"))
    BY <1>3, BlocksFollow DEF Follows, Settled
  <2> QED BY <1>2, <1>3, <1>4, <2>1, FollowsMore
<1>6. Follows(q, out')
  BY <1>1, <1>5, SimpleSettled DEF Follows, Settled
<1>7. Follows(out, out')
  BY <1>2, <1>5, <1>6, FollowsMore
<1> QED BY <1>1, <1>7, WrittenNoted DEF WrittenAfter, Follows

LEMMA BeginIfWritten ==
  ASSUME HandlersInv, Written(frames, out), NEW h \in BOOLEAN, BeginIf(h)
  PROVE  WrittenAfter
<1>1. /\ frames # << >> /\ frames' = Append(Noted(FALSE), Framed("if"))
      /\ out' = Opened(Hoisted(out, h), "if")
  BY DEF BeginIf, Branch, MayNest, AtStatement
<1>2. /\ Ready(out') /\ out'.indent = out.indent + 1 /\ Keeps(out, out', out.indent)
      /\ out'.py.blocks[out.indent + 1] = "chain"
  BY <1>1, RunningWritten, OpensReady
<1>3. "if" \in FrameKinds
  BY DEF FrameKinds, BranchKinds
<1> QED BY <1>1, <1>2, <1>3, WrittenNest DEF WrittenAfter

\* A case: the bare expression of a leaf is its block.
LEMMA CaseReady ==
  ASSUME NEW o, Ready(o), NEW op \in {"if", "elif"}, NEW kind \in {"case", "leaf"},
         op = "elif" => o.py.blocks[o.indent + 1] = "chain"
  PROVE  LET p == CaseOpened(o, op, kind)
         IN /\ Ready(p) /\ p.indent = o.indent + 1 /\ Keeps(o, p, o.indent)
            /\ p.py.blocks[o.indent + 1] = "chain"
            /\ Last(p.py.blocks) = "none" => kind # "leaf"
<1> DEFINE q == Opened(o, op)
           p == CaseOpened(o, op, kind)
<1>1. /\ Ready(q) /\ q.indent = o.indent + 1 /\ Keeps(o, q, o.indent)
      /\ q.py.blocks[o.indent + 1] = "chain" /\ o.indent \in Nat
  <2>1. op \in Headers /\ (op \in {"elif", "else"} => o.py.blocks[o.indent + 1] = "chain")
    BY DEF Headers
  <2>2. o.indent \in Nat
    BY OutputFields DEF Ready
  <2> QED BY <2>1, <2>2, OpenedReady
<1>2. p = IF kind = "leaf" THEN Simple(q) ELSE q
  BY DEF CaseOpened
<1> HIDE DEF p, q
<1>3. CASE kind = "leaf"
  <2>1. Settled(p) /\ p.indent = o.indent + 1 /\ Keeps(q, p, o.indent + 1)
    BY <1>1, <1>2, <1>3, SimpleSettled
  <2>2. Keeps(o, p, o.indent)
    <3>1. o.indent <= o.indent + 1 /\ o.indent + 1 \in Nat
      BY <1>1
    <3> QED BY <1>1, <2>1, <3>1, KeepsMore
  <2>3. p.py.blocks[o.indent + 1] = "chain"
    <3>1. o.indent + 1 \in 1 .. o.indent + 1
      BY <1>1
    <3> QED BY <1>1, <2>1, <3>1 DEF Keeps
  <2> QED BY <2>1, <2>2, <2>3 DEF Settled, p
<1>4. CASE kind # "leaf"
  BY <1>1, <1>2, <1>4 DEF p
<1> QED BY <1>3, <1>4

LEMMA BeginSwitchWritten ==
  ASSUME HandlersInv, Written(frames, out), NEW kind \in {"case", "leaf"}, NEW h \in BOOLEAN,
         BeginSwitch(kind, h)
  PROVE  WrittenAfter
<1> DEFINE p == Hoisted(out, h)
<1>1. /\ frames # << >> /\ frames' = Append(Noted(FALSE), Framed(kind))
      /\ out' = CaseOpened(p, "if", kind)
  BY DEF BeginSwitch, Branch, MayNest, AtStatement
<1>2. Ready(p) /\ p.indent = out.indent /\ Keeps(out, p, out.indent) /\ out.indent \in Nat
  BY <1>1, RunningWritten, HoistedReady
<1> HIDE DEF p
<1>3. /\ Ready(out') /\ out'.indent = out.indent + 1 /\ Keeps(p, out', out.indent)
      /\ out'.py.blocks[out.indent + 1] = "chain"
      /\ Last(out'.py.blocks) = "none" => kind # "leaf"
  BY <1>1, <1>2, CaseReady
<1>4. Keeps(out, out', out.indent)
  BY <1>2, <1>3, KeepsMore
<1>5. kind \in FrameKinds /\ kind # "bar"
  BY DEF FrameKinds, BranchKinds
<1> QED BY <1>1, <1>3, <1>4, <1>5, WrittenNest DEF WrittenAfter

LEMMA BeginForWritten ==
  ASSUME HandlersInv, Written(frames, out), NEW ns \in NameLists, NEW h \in BOOLEAN,
         BeginFor(ns, h)
  PROVE  WrittenAfter
<1>1. /\ frames # << >> /\ frames' = Append(Noted(FALSE), Framed("for"))
      /\ out' = Opened(Hoisted(out, h), "block")
  BY DEF BeginFor, MayNest, AtStatement
<1>2. Ready(out') /\ out'.indent = out.indent + 1 /\ Keeps(out, out', out.indent)
  BY <1>1, RunningWritten, OpensReady
<1>3. "for" \in FrameKinds /\ "for" \notin Chained
  BY DEF FrameKinds, Chained
<1> QED BY <1>1, <1>2, <1>3, WrittenNest DEF WrittenAfter

LEMMA BeginWhileWritten ==
  ASSUME HandlersInv, Written(frames, out), NEW h \in BOOLEAN, BeginWhile(h)
  PROVE  WrittenAfter
<1> DEFINE p == Simple(out)
           q == Opened(Hoisted(p, h), "block")
           r == Simple(q)
<1>1. /\ frames # << >> /\ frames' = Append(Noted(FALSE), Framed("while"))
      /\ out' = Block(r, "if")
  BY DEF BeginWhile, MayNest, AtStatement
<1>2. Ready(p) /\ p.indent = out.indent /\ Keeps(out, p, out.indent) /\ out.indent \in Nat
  BY <1>1, RunningWritten, SimpleSettled DEF Settled
<1> HIDE DEF p
<1>3. Ready(q) /\ q.indent = out.indent + 1 /\ Keeps(p, q, out.indent)
  BY <1>2, OpensReady
<1> HIDE DEF q
<1>4. Ready(r) /\ r.indent = out.indent + 1 /\ Keeps(q, r, out.indent + 1)
  BY <1>3, SimpleSettled DEF Settled
<1> HIDE DEF r
<1>5. Settled(out') /\ out'.indent = out.indent + 1 /\ Keeps(r, out', out.indent + 1)
  BY <1>1, <1>4, BlocksFollow DEF Follows
<1>6. Keeps(out, out', out.indent)
  <2>1. out.indent <= out.indent + 1 /\ out.indent + 1 \in Nat /\ out.indent <= out.indent
    BY <1>2
  <2>2. Keeps(out, q, out.indent)
    BY <1>2, <1>3, <2>1, KeepsMore
  <2>3. Keeps(out, r, out.indent)
    BY <1>2, <1>4, <2>1, <2>2, KeepsMore
  <2> QED BY <1>2, <1>5, <2>1, <2>3, KeepsMore
<1>7. "while" \in FrameKinds /\ "while" \notin Chained
  BY DEF FrameKinds, Chained
<1> QED BY <1>1, <1>5, <1>6, <1>7, WrittenNest DEF WrittenAfter, Settled

\* A handler leaves its block with a statement in it.
LEMMA ClosedTop ==
  ASSUME PlainElseIfs, HandlersInv, Written(frames, out), MayClose
  PROVE  /\ Settled(Closed(out, Top)) /\ Closed(out, Top).indent = out.indent - 1
         /\ Keeps(out, Closed(out, Top), out.indent)
         /\ frames # << >> /\ out.indent \in Nat \ {0}
<1>1. /\ frames # << >> /\ (Top.kind = "elif" => ~ Top.empty)
  BY DEF MayClose, PlainElseIfs
<1>2. Ready(out) /\ out.indent \in Nat \ {0} /\ out.indent > 0
  BY <1>1, RunningWritten
<1>3. Last(out.py.blocks) = "none" => ClosesWithLine(Top)
  BY <1>1 DEF Written, ClosesWithLine, Top
<1> QED BY <1>1, <1>2, <1>3, ClosedSettled

LEMMA EndWritten ==
  ASSUME PlainElseIfs, HandlersInv, Written(frames, out), EndBranches \/ EndLoop
  PROVE  WrittenAfter
<1> DEFINE p == Closed(out, Top)
<1>1. MayClose /\ frames' = Front(frames) /\ out' = p
  BY DEF EndBranches, EndLoop
<1>2. /\ Settled(p) /\ p.indent = out.indent - 1 /\ Keeps(out, p, out.indent)
      /\ frames # << >> /\ out.indent \in Nat \ {0}
  BY <1>1, ClosedTop
<1> HIDE DEF p
<1>3. Keeps(out, p, out.indent - 1)
  <2>1. \A j \in 1 .. out.indent - 1 : j \in 1 .. out.indent
    BY <1>2
  <2> QED BY <1>2, <2>1 DEF Keeps
<1> QED BY <1>1, <1>2, <1>3, WrittenEnd DEF WrittenAfter

\* What the next branch finds: the header it continues is the last statement of
\* the block around.
LEMMA BranchLeft ==
  ASSUME PlainElseIfs, HandlersInv, Written(frames, out), MayClose, Top.kind \in Chained
  PROVE  LET p == Closed(out, Top)
         IN /\ Ready(p) /\ p.indent = out.indent - 1 /\ Keeps(out, p, out.indent - 1)
            /\ p.py.blocks[p.indent + 1] = "chain" /\ p.indent + 1 = out.indent
            /\ frames # << >> /\ p.indent \in Nat
<1> DEFINE p == Closed(out, Top)
<1>1. /\ Ready(p) /\ p.indent = out.indent - 1 /\ Keeps(out, p, out.indent)
      /\ frames # << >> /\ out.indent \in Nat \ {0}
  BY ClosedTop DEF Settled
<1>2. out.py.blocks[out.indent] = "chain"
  BY <1>1, RunningWritten
<1> HIDE DEF p
<1>3. /\ \A j \in 1 .. out.indent - 1 : j \in 1 .. out.indent
      /\ out.indent \in 1 .. out.indent
  BY <1>1
<1>4. p.indent + 1 = out.indent /\ p.indent \in Nat
  BY <1>1
<1> QED BY <1>1, <1>2, <1>3, <1>4 DEF Keeps, p

LEMMA ElseIfWritten ==
  ASSUME PlainElseIfs, HandlersInv, Written(frames, out), NEW h \in MayHoist("elif"), ElseIf(h)
  PROVE  WrittenAfter
<1> DEFINE p == Closed(out, Top)
<1>1. /\ MayClose /\ Top.kind \in {"if", "elif"} /\ h = FALSE
      /\ frames' = Append(Front(frames), Framed("elif")) /\ out' = Opened(Hoisted(p, h), "elif")
  BY DEF ElseIf, Branch, MayHoist, PlainElseIfs
<1>2. out' = Opened(p, "elif")
  BY <1>1 DEF Hoisted
<1>3. /\ Ready(p) /\ p.indent = out.indent - 1 /\ Keeps(out, p, out.indent - 1)
      /\ p.py.blocks[p.indent + 1] = "chain" /\ p.indent + 1 = out.indent
      /\ frames # << >> /\ p.indent \in Nat
  BY <1>1, BranchLeft DEF Chained
<1> HIDE DEF p
<1>4. /\ Ready(out') /\ out'.indent = out.indent /\ Keeps(p, out', out.indent - 1)
      /\ out'.py.blocks[out.indent] = "chain"
  BY <1>2, <1>3, OpenedReady DEF Headers
<1>5. Keeps(out, out', out.indent - 1)
  BY <1>3, <1>4, KeepsMore
<1>6. "elif" \in BranchKinds
  BY DEF BranchKinds
<1> QED BY <1>1, <1>3, <1>4, <1>5, <1>6, WrittenNext DEF WrittenAfter

LEMMA ElseWritten ==
  ASSUME PlainElseIfs, HandlersInv, Written(frames, out), Else \/ DefaultCase
  PROVE  WrittenAfter
<1> DEFINE p == Closed(out, Top)
<1>1. /\ MayClose /\ Top.kind \in {"if", "elif", "case", "leaf"}
      /\ frames' = Append(Front(frames), Framed("else")) /\ out' = Opened(p, "else")
  BY DEF Else, DefaultCase, Branch
<1>2. /\ Ready(p) /\ p.indent = out.indent - 1 /\ Keeps(out, p, out.indent - 1)
      /\ p.py.blocks[p.indent + 1] = "chain" /\ p.indent + 1 = out.indent
      /\ frames # << >> /\ p.indent \in Nat
  BY <1>1, BranchLeft DEF Chained
<1> HIDE DEF p
<1>3. Ready(out') /\ out'.indent = out.indent /\ Keeps(p, out', out.indent - 1)
  BY <1>1, <1>2, OpenedReady DEF Headers
<1>4. Keeps(out, out', out.indent - 1)
  BY <1>2, <1>3, KeepsMore
<1>5. "else" \in BranchKinds /\ "else" \notin Chained
  BY DEF BranchKinds, Chained
<1> QED BY <1>1, <1>2, <1>3, <1>4, <1>5, WrittenNext DEF WrittenAfter

LEMMA NextCaseWritten ==
  ASSUME PlainElseIfs, HandlersInv, Written(frames, out), NEW kind \in {"case", "leaf"},
         NEW h \in MayHoist("elif"), NextCase(kind, h)
  PROVE  WrittenAfter
<1> DEFINE p == Closed(out, Top)
<1>1. /\ MayClose /\ Top.kind \in {"case", "leaf"} /\ h = FALSE
      /\ frames' = Append(Front(frames), Framed(kind))
      /\ out' = CaseOpened(Hoisted(p, h), "elif", kind)
  BY DEF NextCase, Branch, MayHoist, PlainElseIfs
<1>2. out' = CaseOpened(p, "elif", kind)
  BY <1>1 DEF Hoisted
<1>3. /\ Ready(p) /\ p.indent = out.indent - 1 /\ Keeps(out, p, out.indent - 1)
      /\ p.py.blocks[p.indent + 1] = "chain" /\ p.indent + 1 = out.indent
      /\ frames # << >> /\ p.indent \in Nat
  BY <1>1, BranchLeft DEF Chained
<1> HIDE DEF p
<1>4. /\ Ready(out') /\ out'.indent = out.indent /\ Keeps(p, out', out.indent - 1)
      /\ out'.py.blocks[out.indent] = "chain"
      /\ Last(out'.py.blocks) = "none" => kind # "leaf"
  BY <1>2, <1>3, CaseReady
<1>5. Keeps(out, out', out.indent - 1)
  BY <1>3, <1>4, KeepsMore
<1>6. kind \in BranchKinds
  BY DEF BranchKinds
<1> QED BY <1>1, <1>3, <1>4, <1>5, <1>6, WrittenNext DEF WrittenAfter

\* The first handler continues nothing.
LEMMA WrittenRoot ==
  ASSUME NEW f, f.kind \notin Chained, NEW p, Ready(p),
         Last(p.py.blocks) = "none" => f.empty /\ f.kind \notin {"leaf", "bar"}
  PROVE  Written(<<f>>, p)
<1> DEFINE gs == <<f>>
<1>1. Len(gs) = 1 /\ gs[1] = f
  OBVIOUS
<1> HIDE DEF gs
<1>2. \A k \in 1 .. Len(gs) : gs[k] = f
  BY <1>1
<1>3. gs[Len(gs)] = f
  BY <1>1
<1>4. Written(gs, p)
  BY <1>2, <1>3 DEF Written
<1> QED BY <1>4 DEF gs

LEMMA BeginFunctionWritten ==
  ASSUME Written(frames, out), NEW ns \in NameLists \union {<< >>}, BeginFunction(ns)
  PROVE  WrittenAfter
<1> DEFINE f == Framed("def")
<1>1. out' = Opened(out, "block") /\ frames' = <<f>>
  BY DEF BeginFunction
<1>2. Ready(out) /\ "block" \in Headers
  BY DEF Written, Headers
<1>3. Ready(out')
  BY <1>1, <1>2, OpenedReady
<1>4. f.kind = "def" /\ f.empty = TRUE /\ "def" \notin Chained
  BY DEF Framed, Chained
<1> HIDE DEF f
<1> QED BY <1>1, <1>3, <1>4, WrittenRoot DEF WrittenAfter

LEMMA BeginBarWritten ==
  ASSUME Written(frames, out), BeginProcessBar
  PROVE  WrittenAfter
<1> DEFINE f == [Framed("bar") EXCEPT !.empty = FALSE]
           p == Opened(out, "block")
<1>1. out' = Block(p, "if") /\ frames' = <<f>>
  BY DEF BeginProcessBar
<1>2. Ready(p)
  BY OpenedReady DEF Written, Headers
<1>3. f.kind = "bar" /\ "bar" \notin Chained
  BY DEF Framed, Chained
<1> HIDE DEF f, p
<1>4. Settled(out')
  BY <1>1, <1>2, BlocksFollow DEF Follows
<1> QED BY <1>1, <1>3, <1>4, WrittenRoot DEF WrittenAfter, Settled

LEMMA EndFunctionWritten ==
  ASSUME HandlersInv, Written(frames, out), NEW h \in BOOLEAN, EndFunction(h)
  PROVE  WrittenAfter
<1> DEFINE p == Hoisted(out, h)
<1>1. frames # << >> /\ Top.kind = "def" /\ out' = Closed(p, Top) /\ frames' = << >>
  BY DEF EndFunction
<1>2. /\ Ready(out) /\ out.indent \in Nat \ {0}
      /\ Last(out.py.blocks) = "none" => Top.empty
  BY <1>1, RunningWritten DEF Written, Top
<1>3. Ready(p) /\ p.indent = out.indent /\ (Settled(out) => Settled(p))
  BY <1>2, HoistedReady
<1>4. Last(p.py.blocks) = "none" => ClosesWithLine(Top)
  BY <1>1, <1>2, <1>3 DEF Settled, ClosesWithLine
<1> HIDE DEF p
<1>5. Ready(out')
  BY <1>1, <1>2, <1>3, <1>4, ClosedSettled DEF Settled
<1> QED BY <1>1, <1>5, WrittenNone DEF WrittenAfter

LEMMA EndModuleWritten ==
  ASSUME HandlersInv, Written(frames, out), EndModule
  PROVE  WrittenAfter
<1> DEFINE p == Dedented(out)
<1>1. phase = "body" /\ Len(frames) = 1 /\ out' = Block(p, "block") /\ frames' = << >>
  BY DEF EndModule
<1>2. frames # << >> /\ Top.kind = "bar"
  BY <1>1 DEF HandlersInv, Handlers, Rooted, Top
<1>3. Settled(out) /\ out.indent > 0
  BY <1>2, RunningWritten
<1>4. Ready(p)
  BY <1>3, DedentedSettled DEF Settled
<1> HIDE DEF p
<1>5. Ready(out')
  BY <1>1, <1>4, BlocksFollow DEF Follows, Settled
<1> QED BY <1>1, <1>5, WrittenNone DEF WrittenAfter

LEMMA RestWritten ==
  ASSUME Written(frames, out), Raise \/ TranslateAgain \/ (\E n \in Names, k \in Kinds : CollectGlobal(n, k))
  PROVE  WrittenAfter
<1>1. out' = out /\ (frames' = frames \/ frames' = << >>)
  BY DEF Raise, TranslateAgain, CollectGlobal
<1>2. Ready(out)
  BY DEF Written
<1> QED BY <1>1, <1>2, WrittenNone DEF WrittenAfter

LEMMA ActionWritten ==
  ASSUME PlainElseIfs, HandlersInv, Written(frames, out), LoweringNext
  PROVE  WrittenAfter
<1>1. CASE LowerModule
  BY <1>1, HoistsAreFlags, BeginFunctionWritten, EndFunctionWritten, BeginBarWritten,
     EndModuleWritten, RestWritten DEF LowerModule
<1>2. CASE LowerStatement
  BY <1>2, HoistsAreFlags, EmitSimpleWritten, EmitGlobalWritten, EmitLocalWritten,
     EmitTupleWritten DEF LowerStatement
<1>3. CASE LowerStructure
  BY <1>3, HoistsAreFlags, BeginIfWritten, BeginSwitchWritten, ElseIfWritten,
     NextCaseWritten, ElseWritten, EndWritten, BeginWhileWritten, BeginForWritten
     DEF LowerStructure
<1> QED BY <1>1, <1>2, <1>3 DEF LoweringNext

WrittenInv == Written(frames, out)

LEMMA StepWritten ==
  PlainElseIfs /\ HandlersInv /\ WrittenInv /\ [LoweringNext]_vars => WrittenInv'
<1>1. WrittenAfter => WrittenInv'
  BY DEF WrittenAfter, WrittenInv, Written, Ready, Output, Module, Blocks
<1>2. CASE LoweringNext
  BY <1>1, <1>2, ActionWritten DEF WrittenInv
<1>3. CASE UNCHANGED vars
  BY <1>1, <1>3 DEF vars, WrittenInv, WrittenAfter
<1> QED BY <1>2, <1>3

LEMMA InitWritten == LoweringInit => WrittenInv
<1> SUFFICES ASSUME LoweringInit PROVE WrittenInv
  OBVIOUS
<1>1. frames = << >> /\ out = [indent |-> 0, py |-> EmptyModule]
  BY DEF LoweringInit
<1> DEFINE b == <<"other">>
<1>2. b \in Blocks /\ Len(b) = 1 /\ Last(b) = "other"
  BY DEF Blocks, LastStatements, Last
<1>3. EmptyModule = [blocks |-> b, ok |-> TRUE]
  BY DEF EmptyModule
<1> HIDE DEF b
<1>4. Ready(out)
  BY <1>1, <1>2, <1>3 DEF Ready, Output, Module
<1> QED BY <1>1, <1>4, WrittenNone DEF WrittenInv

(* WellFormedPython: as long as the condition of an else-if needs no temporary *)
(* series and the block of an else-if is not empty, every line that the        *)
(* statement handlers write follows the lines before it in Python's block      *)
(* structure, after an error and a second program too.                         *)
THEOREM PythonIsWellFormed ==
  ASSUME PlainElseIfs
  PROVE  LoweringSpec => []WellFormedPython
<1>1. LoweringInit => WrittenInv
  BY InitWritten
<1>2. HandlersInv /\ WrittenInv /\ [LoweringNext]_vars => WrittenInv'
  BY StepWritten
<1>3. WrittenInv => WellFormedPython
  BY DEF WrittenInv, Written, Ready, WellFormedPython
<1> QED BY <1>1, <1>2, <1>3, AlwaysHandlers, PTL DEF LoweringSpec
=============================================================================
