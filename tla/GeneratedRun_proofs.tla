------------------------ MODULE GeneratedRun_proofs ------------------------
(***************************************************************************)
(* Proofs about GeneratedRun, for every script, set of bars and mix of     *)
(* faults: the type invariant, the agreement of the two homes of a varip,  *)
(* and that the generated object implements PineScript.                    *)
(***************************************************************************)
EXTENDS GeneratedRun, FiniteSetTheorems, SequenceTheorems, TLAPS

(***************************************************************************)
(* The inductive invariant, in parts.                                      *)
(***************************************************************************)
\* An open bar and the orders of the rest of a pass are within the bounds.
WithinBars(r) == r.bar # NoBar => r.bar_index < MaxBars

OrdersFrom(l) == Cardinality({i \in l .. Len(Script) : Script[i].op = "order"})

NextLine == IF line = 0 THEN 1 ELSE line

Bounded ==
  /\ WithinBars(rt)
  /\ checkpoint # NoCheckpoint => WithinBars(checkpoint.runtime)
  /\ Inside => orders + OrdersFrom(NextLine) <= MaxOrders

\* A flag is set by a declaration only, and no declaration is executed before the
\* series are initialized; behind the line in progress, all flags are set.
NoneSet(flags) == \A x \in Names : flags[x] # "yes"

Guarded(s) == s.op = "declare" /\ s.kind # "series"

FlagsFollow ==
  /\ ~ seriesInitialized => NoneSet(varInitialized)
  /\ checkpoint # NoCheckpoint /\ ~ checkpoint.series_initialized
       => NoneSet(checkpoint.var_initialized)
  /\ line > 0 => seriesInitialized
  /\ \A j \in 1 .. line - 1 : Guarded(Script[j]) => Initialized(Script[j].name)

\* VaripAgrees, of a runtime and its flags.
Agrees(r, flags) ==
  \A x \in Names :
    IsVarip(x) => r.varip[x] = IF flags[x] = "yes" THEN r.current[x] ELSE Unset

Agreement ==
  /\ ~ mixed => Agrees(rt, varInitialized)
  /\ checkpoint # NoCheckpoint /\ ~ checkpoint.mixed
       => Agrees(checkpoint.runtime, checkpoint.var_initialized)

IInv == GeneratedTypeOK /\ Bounded /\ FlagsFollow /\ Agreement
-----------------------------------------------------------------------------
(* Facts about scripts and runtimes.                                       *)
LEMMA Sizes ==
  /\ MaxBars \in Nat /\ MaxOrders \in Nat /\ Len(Script) \in Nat /\ Last \in Nat
  /\ Last = Len(Script) + 1 /\ NA \in Values /\ NoBar \notin Bars
BY GeneratedAssumption DEF GeneratedAssumption, Last

\* Each statement is a declaration, an assignment or an order.
LEMMA Statements ==
  ASSUME NEW i \in 1 .. Len(Script)
  PROVE  /\ Script[i].op \in {"declare", "assign", "order"}
         /\ Script[i].op # "order" => Script[i].name \in Names /\ Script[i].kind \in Kinds
<1>1. Script \in Seq(Declare \union Assign \union Order)
  BY GeneratedAssumption DEF GeneratedAssumption
<1>2. Script[i] \in Declare \union Assign \union Order
  BY <1>1, ElementOfSeq
<1> QED BY <1>2 DEF Declare, Assign, Order

\* Pine's rules: an assigned name has a declaration above it, of the same kind; a
\* name is declared once.
LEMMA Declarations ==
  /\ \A i \in 1 .. Len(Script) : Script[i].op = "assign" =>
       \E j \in 1 .. i - 1 : /\ Script[j].op = "declare"
                             /\ Script[j].name = Script[i].name
                             /\ Script[j].kind = Script[i].kind
  /\ \A i, j \in 1 .. Len(Script) :
       /\ Script[i].op = "declare" /\ Script[j].op = "declare"
       /\ Script[i].name = Script[j].name
       => i = j
BY GeneratedAssumption DEF GeneratedAssumption

LEMMA EvalTyped ==
  ASSUME NEW i \in 1 .. Len(Script), NEW b \in Bars, NEW c \in [Names -> Values]
  PROVE  Eval(i, b, c) \in Values
BY GeneratedAssumption DEF GeneratedAssumption

\* The orders that remain shrink by one with each order statement.
LEMMA OrdersRemain ==
  /\ OrdersFrom(1) = OrdersOfPass
  /\ \A l \in 1 .. Last : OrdersFrom(l) \in Nat
  /\ \A l \in 1 .. Len(Script) :
       OrdersFrom(l) = OrdersFrom(l + 1) + IF Script[l].op = "order" THEN 1 ELSE 0
<1> USE Sizes
<1> DEFINE S(l) == {i \in l .. Len(Script) : Script[i].op = "order"}
<1>1. ASSUME NEW l \in 1 .. Last
      PROVE  IsFiniteSet(S(l)) /\ Cardinality(S(l)) \in Nat
  <2>1. IsFiniteSet(l .. Len(Script))
    BY FS_Interval
  <2>2. S(l) \in SUBSET (l .. Len(Script))
    OBVIOUS
  <2>3. IsFiniteSet(S(l))
    BY <2>1, <2>2, FS_Subset
  <2> QED BY <2>3, FS_CardinalityType
<1>2. ASSUME NEW l \in 1 .. Len(Script)
      PROVE  OrdersFrom(l) = OrdersFrom(l + 1) + IF Script[l].op = "order" THEN 1 ELSE 0
  <2>0. l + 1 \in 1 .. Last
    OBVIOUS
  <2>1. IsFiniteSet(S(l + 1)) /\ Cardinality(S(l + 1)) \in Nat
    <3> HIDE DEF S
    <3> QED BY <1>1, <2>0
  <2>2. l \notin S(l + 1)
    OBVIOUS
  <2>3. CASE Script[l].op = "order"
    <3>1. S(l) = S(l + 1) \union {l}
      BY <2>3
    <3>2. Cardinality(S(l)) = Cardinality(S(l + 1)) + 1
      BY <2>1, <2>2, <3>1, FS_AddElement
    <3> QED BY <2>3, <3>2 DEF OrdersFrom
  <2>4. CASE Script[l].op # "order"
    <3>1. S(l) = S(l + 1)
      BY <2>4
    <3>2. OrdersFrom(l) = OrdersFrom(l + 1) /\ OrdersFrom(l + 1) \in Nat
      BY <2>1, <3>1 DEF OrdersFrom
    <3> QED BY <2>4, <3>2
  <2> QED BY <2>3, <2>4
<1> QED BY <1>1, <1>2 DEF OrdersFrom, OrdersOfPass

LEMMA NewRuntimeOK == NewRuntime \in Runtimes /\ NewRuntime.bar = NoBar
<1>1. << >> \in Seq(Values)
  BY EmptySeq
<1> QED BY <1>1, Sizes DEF NewRuntime, Runtimes

\* What end_bar and the assignments of a pass make of a runtime.
LEMMA EndedOK ==
  ASSUME NEW r \in Runtimes, r.bar_index < MaxBars
  PROVE  /\ Ended(r) \in Runtimes
         /\ Ended(r).bar = NoBar /\ Ended(r).current = r.current
         /\ Ended(r).varip = r.varip
         /\ Ended(r).committed = [x \in Names |-> Append(r.committed[x], r.current[x])]
<1>1. \A x \in Names : Append(r.committed[x], r.current[x]) \in Seq(Values)
  BY AppendProperties DEF Runtimes
<1>2. ASSUME NEW h, NEW n
      PROVE  [r EXCEPT !.committed = h, !.bar = NoBar, !.bar_index = n]
             = [ current |-> r.current, committed |-> h, varip |-> r.varip,
                 bar |-> NoBar, bar_index |-> n ]
  <2> DEFINE s == [r EXCEPT !.committed = h]
             t == [s EXCEPT !.bar = NoBar]
  <2>1. s = [ current |-> r.current, committed |-> h, varip |-> r.varip, bar |-> r.bar,
              bar_index |-> r.bar_index ]
    BY DEF Runtimes
  <2> HIDE DEF s
  <2>2. t = [ current |-> r.current, committed |-> h, varip |-> r.varip, bar |-> NoBar,
              bar_index |-> r.bar_index ]
    BY <2>1
  <2> HIDE DEF t
  <2>3. [t EXCEPT !.bar_index = n]
        = [ current |-> r.current, committed |-> h, varip |-> r.varip, bar |-> NoBar,
            bar_index |-> n ]
    BY <2>2
  <2> QED BY <2>3 DEF s, t
<1>3. Ended(r) = [ current |-> r.current,
                   committed |-> [x \in Names |-> Append(r.committed[x], r.current[x])],
                   varip |-> r.varip, bar |-> NoBar, bar_index |-> r.bar_index + 1 ]
  BY <1>2 DEF Ended
<1>4. r.bar_index + 1 \in 0 .. MaxBars
  BY Sizes DEF Runtimes
<1>5. [x \in Names |-> Append(r.committed[x], r.current[x])] \in [Names -> Seq(Values)]
  BY <1>1
<1> QED BY <1>3, <1>4, <1>5 DEF Runtimes

LEMMA OpenedOK ==
  ASSUME NEW r \in Runtimes, NEW b \in Bars
  PROVE  /\ [r EXCEPT !.bar = b] \in Runtimes
         /\ [r EXCEPT !.bar = b].bar = b /\ [r EXCEPT !.bar = b].varip = r.varip
         /\ [r EXCEPT !.bar = b].current = r.current
         /\ [r EXCEPT !.bar = b].committed = r.committed
         /\ [r EXCEPT !.bar = b].bar_index = r.bar_index
BY DEF Runtimes

LEMMA WrittenOK ==
  ASSUME NEW r \in Runtimes, NEW c, NEW v
  PROVE  /\ [r EXCEPT !.current = c]
            = [ current |-> c, committed |-> r.committed, varip |-> r.varip,
                bar |-> r.bar, bar_index |-> r.bar_index ]
         /\ [r EXCEPT !.current = c, !.varip = v]
            = [ current |-> c, committed |-> r.committed, varip |-> v,
                bar |-> r.bar, bar_index |-> r.bar_index ]
<1> DEFINE s == [r EXCEPT !.current = c]
<1>1. s = [ current |-> c, committed |-> r.committed, varip |-> r.varip,
            bar |-> r.bar, bar_index |-> r.bar_index ]
  BY DEF Runtimes
<1> HIDE DEF s
<1>2. [s EXCEPT !.varip = v]
      = [ current |-> c, committed |-> r.committed, varip |-> v,
          bar |-> r.bar, bar_index |-> r.bar_index ]
  BY <1>1
<1> QED BY <1>1, <1>2 DEF s
-----------------------------------------------------------------------------
(* The invariant at the start and after a step that leaves the runtime, the *)
(* object and the checkpoint alone.                                        *)
LEMMA InitOK == GeneratedInit => IInv
<1> SUFFICES ASSUME GeneratedInit PROVE IInv
  OBVIOUS
<1> USE DEF GeneratedInit
<1>1. rt \in Runtimes /\ rt.bar = NoBar /\ rt.varip = [x \in Names |-> Unset]
  BY NewRuntimeOK DEF NewRuntime
<1>2. GeneratedTypeOK
  <2>1. varInitialized \in Flags /\ orders \in 0 .. MaxOrders /\ line \in 0 .. Last
    BY Sizes DEF Flags
  <2>2. seriesInitialized \in BOOLEAN /\ missing \in BOOLEAN /\ mixed \in BOOLEAN
    BY Zenon
  <2>3. ~ line > 0 /\ caller # "driver" /\ bound \in SUBSET Names
        /\ caller \in {"none", "run", "driver"} /\ checkpoint = NoCheckpoint
    OBVIOUS
  <2> HIDE DEF GeneratedInit
  <2> QED BY <1>1, <2>1, <2>2, <2>3 DEF GeneratedTypeOK
<1>3. Bounded
  BY <1>1 DEF Bounded, WithinBars, Inside
<1>4. FlagsFollow
  BY DEF FlagsFollow, NoneSet
<1>5. Agreement
  BY <1>1 DEF Agreement, Agrees
<1> QED BY <1>2, <1>3, <1>4, <1>5 DEF IInv

LEMMA CallerOK ==
  ASSUME IInv, CallRun \/ ReturnRun \/ OnBar
  PROVE  IInv'
<1> USE DEF IInv, CallRun, ReturnRun, OnBar, object
<1>1. caller = "none" => line = 0
  BY DEF GeneratedTypeOK, Inside
<1>2. rt.bar = NoBar => line = 0
  BY DEF GeneratedTypeOK, Inside
<1>3. GeneratedTypeOK'
  BY <1>1, <1>2 DEF GeneratedTypeOK, Inside
<1>4. Bounded'
  BY <1>1, <1>2, OrdersRemain DEF Bounded, CanOrder, Inside, NextLine
<1>5. FlagsFollow'
  BY DEF FlagsFollow, Initialized
<1>6. Agreement'
  BY DEF Agreement
<1> QED BY <1>3, <1>4, <1>5, <1>6

LEMMA OpenBarOK ==
  ASSUME IInv, NEW b \in Bars, BeginBar(b) \/ DriverBegins(b)
  PROVE  IInv'
<1> USE DEF IInv, BeginBar, DriverBegins, object
<1>1. line = 0
  BY DEF GeneratedTypeOK, Inside, CanOpen
<1>2. /\ rt' \in Runtimes /\ rt'.bar = b /\ rt'.varip = rt.varip
      /\ rt'.current = rt.current /\ rt'.bar_index = rt.bar_index
  <2>1. rt' = [rt EXCEPT !.bar = b] /\ rt \in Runtimes
    BY DEF GeneratedTypeOK
  <2> HIDE DEF IInv, BeginBar, DriverBegins
  <2> QED BY <2>1, OpenedOK
<1>3. GeneratedTypeOK'
  BY <1>1, <1>2, Sizes DEF GeneratedTypeOK, CanOpen, Inside
<1>4. Bounded'
  BY <1>1, <1>2, OrdersRemain DEF Bounded, CanOpen, CanOrder, Inside, NextLine, WithinBars
<1>5. FlagsFollow'
  BY DEF FlagsFollow, Initialized
<1>6. Agreement'
  BY <1>2 DEF Agreement, Agrees
<1> QED BY <1>3, <1>4, <1>5, <1>6

\* A bar that is open can be ended.
LEMMA EndNow ==
  ASSUME IInv, rt.bar # NoBar
  PROVE  /\ Ended(rt) \in Runtimes
         /\ Ended(rt).bar = NoBar /\ Ended(rt).current = rt.current
         /\ Ended(rt).varip = rt.varip
         /\ Ended(rt).committed = [x \in Names |-> Append(rt.committed[x], rt.current[x])]
<1>1. rt \in Runtimes /\ rt.bar_index < MaxBars
  BY DEF IInv, GeneratedTypeOK, Bounded, WithinBars
<1> QED BY <1>1, EndedOK

LEMMA DriverEndsOK ==
  ASSUME IInv, DriverEnds
  PROVE  IInv'
<1> USE DEF IInv, DriverEnds, object
<1>1. line = 0
  BY DEF GeneratedTypeOK, Inside
<1>2. /\ rt' \in Runtimes /\ rt'.bar = NoBar /\ rt'.varip = rt.varip
      /\ rt'.current = rt.current
  BY EndNow
<1>3. GeneratedTypeOK'
  BY <1>1, <1>2 DEF GeneratedTypeOK
<1>4. Bounded'
  BY <1>2 DEF Bounded, Inside, WithinBars
<1>5. FlagsFollow'
  BY DEF FlagsFollow, Initialized
<1>6. Agreement'
  BY <1>2 DEF Agreement, Agrees
<1> QED BY <1>3, <1>4, <1>5, <1>6

LEMMA NewObjectOK ==
  ASSUME IInv, NewObject
  PROVE  IInv'
<1> USE DEF IInv, NewObject
<1>1. line = 0
  BY DEF GeneratedTypeOK, Inside
<1>2. rt' \in Runtimes /\ rt'.bar = NoBar /\ rt'.varip = [x \in Names |-> Unset]
  BY NewRuntimeOK DEF NewRuntime
<1>3. GeneratedTypeOK'
  <2>1. varInitialized' \in Flags /\ orders' \in 0 .. MaxOrders
    BY Sizes DEF Flags
  <2>2. seriesInitialized' \in BOOLEAN /\ missing' \in BOOLEAN /\ mixed' \in BOOLEAN
    BY Zenon
  <2>3. caller' = "none" /\ line' = 0 /\ bound' = {} /\ UNCHANGED checkpoint
    BY <1>1
  <2>4. checkpoint = NoCheckpoint \/ checkpoint \in Checkpoints
    BY DEF GeneratedTypeOK
  <2> HIDE DEF NewObject, IInv
  <2> QED BY <1>2, <2>1, <2>2, <2>3, <2>4, Sizes DEF GeneratedTypeOK
<1>4. Bounded'
  BY <1>2 DEF Bounded, Inside, WithinBars
<1>5. FlagsFollow'
  BY <1>1 DEF FlagsFollow, NoneSet
<1>6. Agreement'
  BY <1>2 DEF Agreement, Agrees
<1> QED BY <1>3, <1>4, <1>5, <1>6
-----------------------------------------------------------------------------
(* The steps of a pass.                                                    *)
LEMMA RaisedFacts ==
  ASSUME IInv, Inside, Raised
  PROVE  /\ rt' \in Runtimes /\ WithinBars(rt') /\ caller' = "none" /\ line' = 0
         /\ rt'.current = rt.current /\ rt'.varip = rt.varip
BY EndNow DEF IInv, GeneratedTypeOK, Bounded, WithinBars, Inside, Raised

\* The flags of a pass that initializes: none is set before or after, or all stay.
LEMMA CreatedFacts ==
  ASSUME IInv, NEW done \in SUBSET Names, Created(done),
         seriesInitialized => done = {}
  PROVE  /\ bound' \in SUBSET Names /\ varInitialized' \in Flags
         /\ \A x \in Names : varInitialized'[x] = "yes" <=> varInitialized[x] = "yes"
         /\ ~ seriesInitialized => NoneSet(varInitialized')
BY DEF IInv, GeneratedTypeOK, FlagsFollow, NoneSet, Created, Flags

LEMMA InitSeriesOK ==
  ASSUME IInv, InitSeries
  PROVE  IInv'
<1> USE DEF IInv, InitSeries
<1>1. /\ bound' \in SUBSET Names /\ varInitialized' \in Flags
      /\ \A x \in Names : varInitialized'[x] = "yes" <=> varInitialized[x] = "yes"
  <2>1. SeriesToInit \in SUBSET Names /\ (seriesInitialized => SeriesToInit = {})
    BY DEF SeriesToInit
  <2> QED BY <2>1, CreatedFacts
<1>2. GeneratedTypeOK'
  BY <1>1, Sizes DEF GeneratedTypeOK, Inside
<1>3. Bounded'
  BY DEF Bounded, Inside, NextLine
<1>4. FlagsFollow'
  BY DEF FlagsFollow
<1>5. Agreement'
  BY <1>1 DEF Agreement, Agrees
<1> QED BY <1>2, <1>3, <1>4, <1>5

LEMMA InitSeriesRaisesOK ==
  ASSUME IInv, InitSeriesRaises
  PROVE  IInv'
<1> USE DEF IInv, InitSeriesRaises
<1>1. PICK i \in 1 .. Len(Script) : Created(DeclaredBefore(i))
  OBVIOUS
<1>2. DeclaredBefore(i) \in SUBSET Names
  BY Statements, Sizes DEF DeclaredBefore
<1>3. /\ bound' \in SUBSET Names /\ varInitialized' \in Flags
      /\ \A x \in Names : varInitialized'[x] = "yes" <=> varInitialized[x] = "yes"
      /\ NoneSet(varInitialized')
  BY <1>1, <1>2, CreatedFacts
<1>4. /\ rt' \in Runtimes /\ WithinBars(rt') /\ caller' = "none" /\ line' = 0
      /\ rt'.current = rt.current /\ rt'.varip = rt.varip
  BY RaisedFacts
<1>5. GeneratedTypeOK'
  BY <1>3, <1>4, Sizes DEF GeneratedTypeOK, Raised
<1>6. Bounded'
  BY <1>4 DEF Bounded, Inside, Raised
<1>7. FlagsFollow'
  BY <1>3, <1>4 DEF FlagsFollow, Raised
<1>8. Agreement'
  BY <1>3, <1>4 DEF Agreement, Agrees, Raised
<1> QED BY <1>5, <1>6, <1>7, <1>8

LEMMA PassStopsOK ==
  ASSUME IInv, AttributeError \/ BodyRaises \/ PassEnds
  PROVE  IInv'
<1> USE DEF IInv, object
<1>1. /\ rt' \in Runtimes /\ WithinBars(rt') /\ line' = 0
      /\ rt'.current = rt.current /\ rt'.varip = rt.varip
      /\ caller' = "none" \/ (caller' = caller /\ caller = "run" /\ rt'.bar = NoBar)
  <2>1. CASE AttributeError \/ BodyRaises
    BY <2>1, RaisedFacts DEF AttributeError, BodyRaises, AtStatement
  <2>2. CASE PassEnds
    BY <2>2, EndNow DEF PassEnds, Inside, GeneratedTypeOK, Bounded, WithinBars
  <2> QED BY <2>1, <2>2
<1>2. /\ UNCHANGED <<orders, bound, varInitialized, seriesInitialized, checkpoint, mixed>>
      /\ missing' \in BOOLEAN
  BY DEF AttributeError, BodyRaises, PassEnds, Raised, GeneratedTypeOK
<1>3. GeneratedTypeOK'
  BY <1>1, <1>2, Sizes DEF GeneratedTypeOK
<1>4. Bounded'
  BY <1>1, <1>2 DEF Bounded, Inside
<1>5. FlagsFollow'
  BY <1>1, <1>2 DEF FlagsFollow
<1>6. Agreement'
  BY <1>1, <1>2 DEF Agreement, Agrees
<1> QED BY <1>3, <1>4, <1>5, <1>6

\* A statement leaves the series alone, or writes one value to the one it names.
Skips ==
  \/ Statement.op = "order"
  \/ /\ Statement.op = "declare" /\ Statement.kind = "var"
     /\ Initialized(Statement.name)

Written ==
  IF Statement.op = "declare" /\ Statement.kind = "varip"
  THEN VaripState(Statement.name, IF Initialized(Statement.name)
                                  THEN rt.current[Statement.name] ELSE ValueNow)
  ELSE ValueNow

LEMMA Writes ==
  ASSUME IInv, Execute
  PROVE  /\ orders' = orders + IF Statement.op = "order" THEN 1 ELSE 0
         /\ Skips => UNCHANGED <<rt, varInitialized>>
         /\ ~ Skips =>
              /\ Statement.op # "order" /\ Written \in Values
              /\ rt' = [ current   |-> [rt.current EXCEPT ![Statement.name] = Written],
                         committed |-> rt.committed,
                         varip     |-> IF Statement.kind = "varip"
                                       THEN [rt.varip EXCEPT ![Statement.name] = Written]
                                       ELSE rt.varip,
                         bar       |-> rt.bar,
                         bar_index |-> rt.bar_index ]
              /\ varInitialized' = IF Guarded(Statement)
                                   THEN [varInitialized EXCEPT ![Statement.name] = "yes"]
                                   ELSE varInitialized
<1>1. /\ rt \in Runtimes /\ line \in 1 .. Len(Script) /\ rt.bar \in Bars
      /\ varInitialized \in Flags
  BY DEF IInv, GeneratedTypeOK, Execute, AtStatement, Inside, Runtimes
<1>2. rt.current \in [Names -> Values] /\ rt.varip \in [Names -> Values \union {Unset}]
  BY <1>1 DEF Runtimes
<1>0. orders \in Nat
  BY Sizes DEF IInv, GeneratedTypeOK
<1>3. ValueNow \in Values
  BY <1>1, <1>2, EvalTyped DEF ValueNow
<1> DEFINE x == Statement.name
<1>4. Statement.op # "order" => x \in Names /\ Statement.kind \in Kinds
  BY <1>1, Statements DEF Statement
<1>5. CASE PlaceOrder
  BY <1>5 DEF PlaceOrder, Skips
<1>6. CASE DeclareSeries
  <2>1. rt' = [rt EXCEPT !.current = [rt.current EXCEPT ![x] = ValueNow]]
    BY <1>6 DEF DeclareSeries, Assigned
  <2>2. rt' = [ current |-> [rt.current EXCEPT ![x] = ValueNow],
                committed |-> rt.committed, varip |-> rt.varip,
                bar |-> rt.bar, bar_index |-> rt.bar_index ]
    BY <1>1, <2>1, WrittenOK
  <2> QED BY <1>0, <1>3, <1>6, <2>2 DEF DeclareSeries, Guarded, Skips, Written
<1>7. CASE DeclareVar
  <2>1. CASE Initialized(x)
    BY <1>0, <1>7, <2>1 DEF DeclareVar, Skips
  <2>2. CASE ~ Initialized(x)
    <3>1. rt' = [rt EXCEPT !.current = [rt.current EXCEPT ![x] = ValueNow]]
      BY <1>7, <2>2 DEF DeclareVar, Assigned
    <3>2. rt' = [ current |-> [rt.current EXCEPT ![x] = ValueNow],
                  committed |-> rt.committed, varip |-> rt.varip,
                  bar |-> rt.bar, bar_index |-> rt.bar_index ]
      BY <1>1, <3>1, WrittenOK
    <3> QED BY <1>0, <1>3, <1>7, <2>2, <3>2 DEF DeclareVar, Guarded, Skips, Written
  <2> QED BY <2>1, <2>2
<1>8. CASE DeclareVarip
  <2> DEFINE v == VaripState(x, IF Initialized(x) THEN rt.current[x] ELSE ValueNow)
  <2>1. v \in Values
    BY <1>2, <1>3, <1>4, <1>8 DEF VaripState, DeclareVarip
  <2>2. rt' = [rt EXCEPT !.current = [rt.current EXCEPT ![x] = v],
                         !.varip = [rt.varip EXCEPT ![x] = v]]
    BY <1>8 DEF DeclareVarip
  <2> HIDE DEF v
  <2>3. rt' = [ current |-> [rt.current EXCEPT ![x] = v], committed |-> rt.committed,
                varip |-> [rt.varip EXCEPT ![x] = v],
                bar |-> rt.bar, bar_index |-> rt.bar_index ]
    BY <1>1, <2>2, WrittenOK
  <2>4. v = Written
    BY <1>8 DEF DeclareVarip, Written, v
  <2>5. /\ Statement.op = "declare" /\ Statement.kind = "varip" /\ orders' = orders
        /\ varInitialized' = [varInitialized EXCEPT ![x] = "yes"]
    BY <1>8 DEF DeclareVarip
  <2>6. rt' = [ current |-> [rt.current EXCEPT ![x] = Written],
                committed |-> rt.committed,
                varip |-> IF Statement.kind = "varip"
                          THEN [rt.varip EXCEPT ![x] = Written] ELSE rt.varip,
                bar |-> rt.bar, bar_index |-> rt.bar_index ]
    BY <2>3, <2>4, <2>5
  <2> QED BY <1>0, <2>1, <2>4, <2>5, <2>6 DEF Guarded, Skips
<1>9. CASE Reassign
  <2> DEFINE w == IF Statement.kind = "varip" THEN [rt.varip EXCEPT ![x] = ValueNow]
                  ELSE rt.varip
  <2>1. rt' = [rt EXCEPT !.current = [rt.current EXCEPT ![x] = ValueNow], !.varip = w]
    BY <1>9 DEF Reassign
  <2> HIDE DEF w
  <2>2. rt' = [ current |-> [rt.current EXCEPT ![x] = ValueNow],
                committed |-> rt.committed, varip |-> w,
                bar |-> rt.bar, bar_index |-> rt.bar_index ]
    BY <1>1, <2>1, WrittenOK
  <2>3. /\ Statement.op = "assign" /\ orders' = orders /\ Written = ValueNow
        /\ varInitialized' = varInitialized
    BY <1>9 DEF Reassign, Written
  <2>4. w = IF Statement.kind = "varip" THEN [rt.varip EXCEPT ![x] = Written] ELSE rt.varip
    BY <2>3 DEF w
  <2>5. rt' = [ current |-> [rt.current EXCEPT ![x] = Written],
                committed |-> rt.committed,
                varip |-> IF Statement.kind = "varip"
                          THEN [rt.varip EXCEPT ![x] = Written] ELSE rt.varip,
                bar |-> rt.bar, bar_index |-> rt.bar_index ]
    BY <2>2, <2>3, <2>4
  <2> QED BY <1>0, <1>3, <2>3, <2>5 DEF Guarded, Skips
<1> QED BY <1>5, <1>6, <1>7, <1>8, <1>9 DEF Execute

LEMMA ExecuteOK ==
  ASSUME IInv, Execute
  PROVE  IInv'
<1>1. /\ GeneratedTypeOK /\ rt \in Runtimes /\ line \in 1 .. Len(Script) /\ Inside
      /\ line' = line + 1 /\ varInitialized \in Flags
      /\ UNCHANGED <<bound, seriesInitialized, caller, missing, checkpoint, mixed>>
  BY DEF IInv, GeneratedTypeOK, Execute, AtStatement
<1>2. /\ Statement \in {Script[line]} /\ Statement.op \in {"declare", "assign", "order"}
      /\ Statement.op # "order" => Statement.name \in Names /\ Statement.kind \in Kinds
  BY <1>1, Statements DEF Statement
<1>3. /\ rt' \in Runtimes /\ rt'.bar = rt.bar /\ rt'.bar_index = rt.bar_index
      /\ varInitialized' \in Flags
  <2>1. CASE Skips
    BY <1>1, <2>1, Writes
  <2>2. CASE ~ Skips
    <3>1. rt.current \in [Names -> Values] /\ rt.varip \in [Names -> Values \union {Unset}]
      BY <1>1 DEF Runtimes
    <3> DEFINE c == [rt.current EXCEPT ![Statement.name] = Written]
               g == IF Statement.kind = "varip"
                    THEN [rt.varip EXCEPT ![Statement.name] = Written] ELSE rt.varip
    <3>2. Statement.name \in Names /\ Written \in Values
      BY <1>2, <2>2, Writes
    <3>3. c \in [Names -> Values] /\ g \in [Names -> Values \union {Unset}]
      BY <3>1, <3>2
    <3>4. rt' = [ current |-> c, committed |-> rt.committed, varip |-> g, bar |-> rt.bar,
                  bar_index |-> rt.bar_index ]
      BY <2>2, Writes
    <3> HIDE DEF c, g
    <3>5. rt' \in Runtimes /\ rt'.bar = rt.bar /\ rt'.bar_index = rt.bar_index
      BY <1>1, <3>3, <3>4 DEF Runtimes
    <3>6. varInitialized' \in Flags
      BY <1>1, <2>2, <3>2, Writes DEF Flags
    <3> QED BY <3>5, <3>6
  <2> QED BY <2>1, <2>2
<1>4. orders' \in 0 .. MaxOrders /\ orders' + OrdersFrom(line') <= MaxOrders
  <2>1. orders \in Nat /\ orders + OrdersFrom(line) <= MaxOrders
    BY <1>1, Sizes DEF IInv, GeneratedTypeOK, Bounded, NextLine
  <2>2. OrdersFrom(line') \in Nat /\ line' \in 1 .. Last
    BY <1>1, OrdersRemain, Sizes
  <2>3. OrdersFrom(line)
        = OrdersFrom(line') + IF Script[line].op = "order" THEN 1 ELSE 0
    BY <1>1, OrdersRemain
  <2>4. orders' = orders + IF Script[line].op = "order" THEN 1 ELSE 0
    BY Writes DEF Statement
  <2> QED BY <2>1, <2>2, <2>3, <2>4, Sizes
<1>5. GeneratedTypeOK'
  BY <1>1, <1>3, <1>4, Sizes DEF GeneratedTypeOK, Inside
<1>6. Bounded'
  BY <1>1, <1>3, <1>4 DEF IInv, Bounded, Inside, NextLine, WithinBars
<1>7. FlagsFollow'
  <2>1. seriesInitialized /\ seriesInitialized' /\ line' - 1 = line
    BY <1>1 DEF IInv, FlagsFollow
  <2>2. \A x \in Names : Initialized(x) => Initialized(x)'
    BY <1>1, <1>2, Writes DEF Initialized, Flags
  <2>3. Guarded(Script[line]) => varInitialized'[Script[line].name] = "yes"
    BY <1>1, <1>2, Writes DEF Initialized, Flags, Guarded, Skips, Statement, Kinds
  <2>4. ASSUME NEW j \in 1 .. line, Guarded(Script[j])
        PROVE  Initialized(Script[j].name)'
    <3>1. CASE j = line
      BY <2>3, <2>4, <3>1 DEF Initialized
    <3>2. CASE j # line
      <4>1. j \in 1 .. line - 1 /\ j \in 1 .. Len(Script)
        BY <1>1, <3>2, Sizes
      <4>2. Initialized(Script[j].name)
        BY <2>4, <4>1 DEF IInv, FlagsFollow
      <4>3. Script[j].name \in Names
        BY <2>4, <4>1, Statements DEF Guarded
      <4> QED BY <2>2, <4>2, <4>3
    <3> QED BY <3>1, <3>2
  <2>5. \A j \in 1 .. line' - 1 : Guarded(Script[j]) => Initialized(Script[j].name)'
    BY <2>1, <2>4
  <2> QED BY <1>1, <2>1, <2>5 DEF IInv, FlagsFollow
<1>8. Agreement'
  <2>1. ASSUME ~ mixed, NEW x \in Names, IsVarip(x)
        PROVE  rt'.varip[x] = IF varInitialized'[x] = "yes" THEN rt'.current[x] ELSE Unset
    <3>1. rt.varip[x] = IF varInitialized[x] = "yes" THEN rt.current[x] ELSE Unset
      BY <2>1 DEF IInv, Agreement, Agrees
    <3>2. CASE Skips \/ Statement.name # x
      BY <1>1, <1>2, <3>1, <3>2, Writes DEF Runtimes, Flags
    <3>3. CASE ~ Skips /\ Statement.name = x
      \* Below or at the only declaration of x, which is a varip: it is, or gets, set.
      <4>1. PICK i \in 1 .. Len(Script) : /\ Script[i].op = "declare" /\ Script[i].name = x
                                          /\ Script[i].kind = "varip"
        BY <2>1 DEF IsVarip
      <4>2. Statement.op # "order"
        BY <3>3, Writes
      <4>3. CASE Statement.op = "declare"
        <5>1. Statement.kind = "varip"
          BY <1>1, <3>3, <4>1, <4>3, Declarations DEF Statement
        <5> QED BY <1>1, <1>2, <3>3, <4>3, <5>1, Writes DEF Guarded, Runtimes, Flags
      <4>4. CASE Statement.op = "assign"
        <5>1. PICK j \in 1 .. line - 1 : /\ Script[j].op = "declare" /\ Script[j].name = x
                                         /\ Script[j].kind = Statement.kind
          BY <1>1, <3>3, <4>4, Declarations DEF Statement
        <5>2. j \in 1 .. Len(Script)
          BY <1>1, Sizes
        <5>3. Statement.kind = "varip"
          BY <4>1, <5>1, <5>2, Declarations
        <5>4. Initialized(x)
          BY <5>1, <5>3 DEF IInv, FlagsFollow, Guarded
        <5> QED BY <1>1, <1>2, <3>3, <4>4, <5>3, <5>4, Writes
                DEF Guarded, Initialized, Runtimes, Flags
      <4> QED BY <1>2, <4>2, <4>3, <4>4
    <3> QED BY <3>2, <3>3
  <2> QED BY <1>1, <2>1 DEF IInv, Agreement, Agrees
<1> QED BY <1>5, <1>6, <1>7, <1>8 DEF IInv
-----------------------------------------------------------------------------
(* Checkpoints.                                                            *)
LEMMA ExportedOK ==
  ASSUME IInv, ExportCheckpoint
  PROVE  IInv'
<1> USE DEF ExportCheckpoint, object
<1>1. /\ checkpoint'.runtime = rt /\ checkpoint'.var_initialized = varInitialized
      /\ checkpoint'.series_initialized = seriesInitialized /\ checkpoint'.mixed = mixed
  BY DEF Exported
<1>2. checkpoint' \in Checkpoints
  BY DEF IInv, GeneratedTypeOK, Exported, Checkpoints
<1>3. GeneratedTypeOK'
  BY <1>2 DEF IInv, GeneratedTypeOK, Inside
<1>4. Bounded'
  BY <1>1 DEF IInv, Bounded, Inside, NextLine
<1>5. FlagsFollow'
  BY <1>1 DEF IInv, FlagsFollow, Initialized
<1>6. Agreement'
  BY <1>1 DEF IInv, Agreement
<1> QED BY <1>3, <1>4, <1>5, <1>6 DEF IInv

LEMMA RestoredOK ==
  ASSUME IInv, RestoreCheckpoint \/ RestoreRaises
  PROVE  IInv'
<1> USE DEF RestoreCheckpoint, RestoreRaises, object
<1>1. line = 0 /\ line' = 0 /\ caller' = "none" /\ UNCHANGED <<bound, missing, checkpoint>>
  BY DEF IInv, GeneratedTypeOK, Inside
<1>2. /\ checkpoint # NoCheckpoint /\ checkpoint \in Checkpoints
      /\ rt' = checkpoint.runtime
  BY DEF IInv, GeneratedTypeOK
<1>3. GeneratedTypeOK'
  <2>1. rt' \in Runtimes /\ orders' \in 0 .. MaxOrders /\ varInitialized' \in Flags
    BY <1>2 DEF IInv, GeneratedTypeOK, Checkpoints
  <2>2. seriesInitialized' \in BOOLEAN /\ mixed' \in BOOLEAN
    BY <1>2 DEF IInv, GeneratedTypeOK, Checkpoints
  <2> QED BY <1>1, <2>1, <2>2, Sizes DEF IInv, GeneratedTypeOK
<1>4. Bounded'
  BY <1>1, <1>2 DEF IInv, Bounded, Inside
<1>5. FlagsFollow'
  BY <1>1, <1>2 DEF IInv, FlagsFollow
<1>6. Agreement'
  BY <1>1, <1>2 DEF IInv, Agreement
<1> QED BY <1>3, <1>4, <1>5, <1>6 DEF IInv
-----------------------------------------------------------------------------
LEMMA StepOK == IInv /\ [GeneratedNext]_vars => IInv'
<1> SUFFICES ASSUME IInv, [GeneratedNext]_vars PROVE IInv'
  OBVIOUS
<1>1. CASE UNCHANGED vars
  BY <1>1 DEF vars, object, IInv, GeneratedTypeOK, Bounded, FlagsFollow, Agreement,
              Inside, NextLine, Initialized
<1>2. CASE GeneratedNext
  BY <1>2, CallerOK, OpenBarOK, DriverEndsOK, NewObjectOK, InitSeriesOK,
     InitSeriesRaisesOK, ExecuteOK, PassStopsOK, ExportedOK, RestoredOK
     DEF GeneratedNext, Pass
<1> QED BY <1>1, <1>2

LEMMA Invariant == GeneratedSpec => []IInv
BY InitOK, StepOK, PTL DEF GeneratedSpec

\* The generated object's state is well formed through every mix of calls and
\* faults: within its bounds, never inside a pass without a bar.
THEOREM GeneratedTypeCorrect == GeneratedSpec => []GeneratedTypeOK
<1>1. IInv => GeneratedTypeOK
  BY DEF IInv
<1> QED BY Invariant, <1>1, PTL

\* Series and varip state of an initialised varip agree, and an uninitialised one
\* has no varip state, whatever is executed, restored or cut short.
THEOREM VaripsAgree == GeneratedSpec => []VaripAgrees
<1>1. IInv => VaripAgrees
  BY DEF IInv, Agreement, Agrees, VaripAgrees, Initialized
<1> QED BY Invariant, <1>1, PTL
-----------------------------------------------------------------------------
(* The refinement of PineScript: what script and saved stand for.          *)
Now == StateOf(rt, orders, varInitialized, line)

LEMMA StatesAreKnown ==
  \A r, o, f, l : StateOf(r, o, f, l) # [lost |-> TRUE]
<1> SUFFICES ASSUME NEW r, NEW o, NEW f, NEW l, StateOf(r, o, f, l) = [lost |-> TRUE]
             PROVE  FALSE
  OBVIOUS
<1>1. "line" \in DOMAIN StateOf(r, o, f, l)
  BY DEF StateOf
<1>2. "line" \notin DOMAIN [lost |-> TRUE]
  OBVIOUS
<1> QED BY <1>1, <1>2

State(c, h, b, l, o, i) ==
  [current |-> c, committed |-> h, bar |-> b, line |-> l, orders |-> o, initialised |-> i]

\* The updates of PineScript, and what they make of a state.
WithLine(s, l)           == [s EXCEPT !.line = l]
WithOrders(s, o)         == [s EXCEPT !.orders = o]
WithCurrent(s, c)        == [s EXCEPT !.current = c]
WithBarLine(s, b, l)     == [s EXCEPT !.bar = b, !.line = l]
WithFirst(s, c, i)       == [s EXCEPT !.current = c, !.initialised = i]
WithHistory(s, h, b, l)  == [s EXCEPT !.committed = h, !.bar = b, !.line = l]

LEMMA OneField ==
  ASSUME NEW c, NEW h, NEW b, NEW l, NEW o, NEW i, NEW v
  PROVE  /\ WithLine(State(c, h, b, l, o, i), v) = State(c, h, b, v, o, i)
         /\ WithOrders(State(c, h, b, l, o, i), v) = State(c, h, b, l, v, i)
         /\ WithCurrent(State(c, h, b, l, o, i), v) = State(v, h, b, l, o, i)
BY DEF State, WithLine, WithOrders, WithCurrent

LEMMA BarAndLine ==
  ASSUME NEW c, NEW h, NEW b, NEW l, NEW o, NEW i, NEW b2, NEW l2
  PROVE  WithBarLine(State(c, h, b, l, o, i), b2, l2) = State(c, h, b2, l2, o, i)
<1> DEFINE t == [State(c, h, b, l, o, i) EXCEPT !.bar = b2]
<1>1. t = State(c, h, b2, l, o, i)
  BY DEF State
<1> HIDE DEF t
<1>2. [t EXCEPT !.line = l2] = State(c, h, b2, l2, o, i)
  BY <1>1 DEF State
<1> QED BY <1>2 DEF WithBarLine, t

LEMMA FirstValue ==
  ASSUME NEW c, NEW h, NEW b, NEW l, NEW o, NEW i, NEW c2, NEW i2
  PROVE  WithFirst(State(c, h, b, l, o, i), c2, i2) = State(c2, h, b, l, o, i2)
<1> DEFINE t == [State(c, h, b, l, o, i) EXCEPT !.current = c2]
<1>1. t = State(c2, h, b, l, o, i)
  BY DEF State
<1> HIDE DEF t
<1>2. [t EXCEPT !.initialised = i2] = State(c2, h, b, l, o, i2)
  BY <1>1 DEF State
<1> QED BY <1>2 DEF WithFirst, t

LEMMA History ==
  ASSUME NEW c, NEW h, NEW b, NEW l, NEW o, NEW i, NEW h2, NEW b2, NEW l2
  PROVE  WithHistory(State(c, h, b, l, o, i), h2, b2, l2) = State(c, h2, b2, l2, o, i)
<1> DEFINE t == [State(c, h, b, l, o, i) EXCEPT !.committed = h2]
<1>1. t = State(c, h2, b, l, o, i)
  BY DEF State
<1> HIDE DEF t
<1>2. WithBarLine(t, b2, l2) = State(c, h2, b2, l2, o, i)
  BY <1>1, BarAndLine
<1> QED BY <1>2 DEF WithHistory, WithBarLine, t

\* The script's state in the object.
Flagged(flags) == {x \in Names : flags[x] = "yes"}

LEMMA NowIs ==
  /\ Now = State(rt.current, rt.committed, rt.bar, line, orders, Flagged(varInitialized))
  /\ Now' = State(rt'.current, rt'.committed, rt'.bar, line', orders',
                  Flagged(varInitialized'))
BY DEF Now, StateOf, State, Flagged

LEMMA NowReads ==
  /\ Now.current = rt.current /\ Now.committed = rt.committed /\ Now.bar = rt.bar
  /\ Now.line = line /\ Now.orders = orders /\ Now.initialised = Flagged(varInitialized)
  /\ Now # [lost |-> TRUE]
BY StatesAreKnown DEF Now, StateOf, Flagged

LEMMA IsInProgress ==
  /\ mixed => InProgress = [lost |-> TRUE]
  /\ ~ mixed => InProgress = Now
  /\ mixed' => InProgress' = [lost |-> TRUE]
  /\ ~ mixed' => InProgress' = Now'
BY DEF InProgress, Now

\* What a step leaves alone.
LEMMA SavedStays == UNCHANGED checkpoint => UNCHANGED InCheckpoint
BY DEF InCheckpoint

LEMMA StaysLost ==
  ASSUME mixed, mixed', UNCHANGED checkpoint
  PROVE  UNCHANGED <<InProgress, InCheckpoint>>
BY IsInProgress, SavedStays

LEMMA StaysSame ==
  ASSUME UNCHANGED <<rt, orders, line, mixed, checkpoint>>,
         Flagged(varInitialized') = Flagged(varInitialized)
  PROVE  UNCHANGED <<InProgress, InCheckpoint>>
<1>1. Now' = Now
  BY NowIs
<1> QED BY <1>1, IsInProgress, SavedStays

\* A bar is opened, by run or by a driver.
LEMMA PineBegins ==
  ASSUME IInv, NEW b \in Bars, BeginBar(b) \/ DriverBegins(b), ~ mixed
  PROVE  Pine!Begin(b)
<1>1. rt \in Runtimes /\ line = 0 /\ rt.bar = NoBar /\ rt' = [rt EXCEPT !.bar = b]
      /\ UNCHANGED <<orders, varInitialized, line, checkpoint, mixed>>
  BY DEF IInv, GeneratedTypeOK, Inside, BeginBar, DriverBegins, CanOpen, object
<1>2. rt'.bar = b /\ rt'.current = rt.current /\ rt'.committed = rt.committed
  BY <1>1, OpenedOK
<1>3. Now' = State(rt.current, rt.committed, b, 0, orders, Flagged(varInitialized))
  BY <1>1, <1>2, NowIs
<1>4. InProgress' = WithBarLine(InProgress, b, 0) /\ InProgress = Now
  BY <1>1, <1>3, NowIs, IsInProgress, BarAndLine
<1> QED BY <1>1, <1>4, NowReads, SavedStays
    DEF Pine!Begin, Pine!Known, Pine!Lost, WithBarLine

\* A bar is ended, with or without an error.
LEMMA PineEnds ==
  ASSUME IInv, rt.bar # NoBar, rt' = Ended(rt), line' = 0, ~ mixed,
         UNCHANGED <<orders, mixed, checkpoint>>,
         Flagged(varInitialized') = Flagged(varInitialized)
  PROVE  Pine!End
<1> DEFINE h == [x \in Names |-> Append(rt.committed[x], rt.current[x])]
<1>1. rt'.bar = NoBar /\ rt'.current = rt.current /\ rt'.committed = h
  BY EndNow
<1>2. h = [x \in Names |-> Append(InProgress.committed[x], InProgress.current[x])]
  BY IsInProgress, NowReads
<1> HIDE DEF h
<1>3. Now' = State(rt.current, h, NoBar, 0, orders, Flagged(varInitialized))
  BY <1>1, NowIs
<1>4. InProgress' = WithHistory(InProgress, h, NoBar, 0) /\ InProgress = Now
  BY <1>3, NowIs, IsInProgress, History
<1>5. InProgress' = Pine!Committed(InProgress)
  BY <1>2, <1>4 DEF Pine!Committed, WithHistory
<1> QED BY <1>4, <1>5, NowReads, SavedStays DEF Pine!End, Pine!Known, Pine!Lost

\* A pass ends and leaves its bar open.
LEMMA PineStops ==
  ASSUME line > 0, line' = 0, ~ mixed, UNCHANGED <<rt, orders, mixed, checkpoint>>,
         Flagged(varInitialized') = Flagged(varInitialized)
  PROVE  Pine!Stop
<1>1. Now' = WithLine(Now, 0)
  BY NowIs, OneField
<1> QED BY <1>1, NowReads, IsInProgress, SavedStays
    DEF Pine!Stop, Pine!Known, Pine!Lost, WithLine

\* _init_series sets no flag.
LEMMA PineStarts ==
  ASSUME IInv, InitSeries, ~ mixed
  PROVE  Pine!Start
<1>1. Flagged(varInitialized') = Flagged(varInitialized)
  <2>1. SeriesToInit \in SUBSET Names /\ (seriesInitialized => SeriesToInit = {})
    BY DEF SeriesToInit
  <2> QED BY <2>1, CreatedFacts DEF InitSeries, Flagged
<1>2. line = 0 /\ line' = 1 /\ UNCHANGED <<rt, orders, mixed, checkpoint>>
  BY DEF InitSeries
<1>3. Now' = WithLine(Now, 1)
  BY <1>1, <1>2, NowIs, OneField
<1> QED BY <1>2, <1>3, NowReads, IsInProgress, SavedStays
    DEF Pine!Start, Pine!Known, Pine!Lost, WithLine, InitSeries, Inside

\* A statement is executed.  A varip that is initialised takes its value from the
\* runtime's varip state, which is the one it has; any other, from its expression.
LEMMA PineExecutes ==
  ASSUME IInv, Execute, ~ mixed
  PROVE  Pine!Execute
<1>1. /\ GeneratedTypeOK /\ rt \in Runtimes /\ line \in 1 .. Len(Script)
      /\ line' = line + 1 /\ varInitialized \in Flags
      /\ UNCHANGED <<mixed, checkpoint>>
  BY DEF IInv, GeneratedTypeOK, Execute, AtStatement
<1>2. InProgress = Now /\ InProgress' = Now' /\ UNCHANGED InCheckpoint
  BY <1>1, IsInProgress, SavedStays
<1>3. /\ InProgress.line = line /\ InProgress # [lost |-> TRUE]
      /\ Script[InProgress.line] = Statement /\ Pine!Value = ValueNow
      /\ InProgress.initialised = Flagged(varInitialized)
      /\ InProgress.current = rt.current /\ InProgress.orders = orders
  BY <1>2, NowReads DEF Statement, ValueNow, Pine!Value
<1> DEFINE x == Statement.name
           c == [rt.current EXCEPT ![x] = ValueNow]
<1>4. /\ Statement.op \in {"declare", "assign", "order"}
      /\ Statement.op # "order" => x \in Names /\ Statement.kind \in Kinds
  BY <1>1, Statements DEF Statement
<1>5. rt.current \in [Names -> Values] /\ rt.varip \in [Names -> Values \union {Unset}]
  BY <1>1 DEF Runtimes
<1>6. CASE Statement.op = "order"
  <2> DEFINE t == WithOrders(InProgress, orders + 1)
  <2>1. UNCHANGED <<rt, varInitialized>> /\ orders' = orders + 1
    BY <1>6, Writes DEF Skips
  <2>2. t = State(rt.current, rt.committed, rt.bar, line, orders + 1,
                  Flagged(varInitialized))
    BY <1>2, NowIs, OneField
  <2>3. t.line = line
    BY <2>2 DEF State
  <2>4. InProgress' = WithLine(t, t.line + 1)
    BY <1>1, <1>2, <2>1, <2>2, <2>3, NowIs, OneField
  <2>5. t = [InProgress EXCEPT !.orders = @ + 1]
    BY <1>3 DEF WithOrders
  <2> HIDE DEF t
  <2>6. InProgress' = [t EXCEPT !.line = @ + 1]
    BY <2>4 DEF WithLine
  <2> QED BY <1>1, <1>2, <1>3, <1>6, <2>5, <2>6 DEF Pine!Execute, Pine!Known, Pine!Lost
<1>7. CASE Statement.op = "assign" \/ (Statement.op = "declare" /\ Statement.kind = "series")
  <2> DEFINE t == WithCurrent(InProgress, c)
  <2>1. /\ rt'.current = c /\ rt'.committed = rt.committed /\ rt'.bar = rt.bar
        /\ UNCHANGED <<varInitialized, orders>>
    BY <1>1, <1>7, Writes, Sizes DEF Skips, Written, Guarded, GeneratedTypeOK
  <2>2. t = State(c, rt.committed, rt.bar, line, orders, Flagged(varInitialized))
    BY <1>2, NowIs, OneField
  <2>3. t.line = line
    BY <2>2 DEF State
  <2>4. InProgress' = WithLine(t, t.line + 1)
    BY <1>1, <1>2, <2>1, <2>2, <2>3, NowIs, OneField
  <2>5. t = [InProgress EXCEPT !.current[x] = ValueNow]
    BY <1>3 DEF WithCurrent
  <2> HIDE DEF t
  <2>6. InProgress' = [t EXCEPT !.line = @ + 1]
    BY <2>4 DEF WithLine
  <2> QED BY <1>1, <1>2, <1>3, <1>7, <2>5, <2>6 DEF Pine!Execute, Pine!Known, Pine!Lost
<1>8. CASE Statement.op = "declare" /\ Statement.kind # "series"
  <2>1. x \in Names /\ Guarded(Statement) /\ orders' = orders
    BY <1>1, <1>4, <1>8, Writes, Sizes DEF Guarded, GeneratedTypeOK
  <2>2. Statement.kind = "varip" =>
          rt.varip[x] = IF varInitialized[x] = "yes" THEN rt.current[x] ELSE Unset
    BY <1>1, <1>8, <2>1 DEF IInv, Agreement, Agrees, IsVarip, Statement
  <2>3. Unset \notin Values
    BY GeneratedAssumption DEF GeneratedAssumption
  <2>4. CASE Initialized(x)
    <3>1. rt'.current = rt.current /\ rt'.committed = rt.committed /\ rt'.bar = rt.bar
      <4>1. CASE Skips
        BY <4>1, Writes
      <4>2. CASE ~ Skips
        <5>1. Statement.kind = "varip"
          BY <1>4, <1>8, <2>4, <4>2 DEF Skips, Kinds
        <5>2. Written = rt.current[x]
          BY <1>5, <1>8, <2>1, <2>2, <2>4, <5>1 DEF Written, VaripState, Initialized
        <5>3. /\ rt'.current = [rt.current EXCEPT ![x] = rt.current[x]]
              /\ rt'.committed = rt.committed /\ rt'.bar = rt.bar
          BY <4>2, <5>2, Writes
        <5> QED BY <1>5, <5>3
      <4> QED BY <4>1, <4>2
    <3>2. Flagged(varInitialized') = Flagged(varInitialized)
      BY <1>1, <2>1, <2>4, Writes DEF Flagged, Flags, Initialized
    <3>3. InProgress' = WithLine(InProgress, InProgress.line + 1)
      BY <1>1, <1>2, <1>3, <2>1, <3>1, <3>2, NowIs, OneField
    <3>4. x \in InProgress.initialised
      BY <1>3, <2>1, <2>4 DEF Flagged, Initialized
    <3> QED BY <1>1, <1>2, <1>3, <1>8, <3>3, <3>4
        DEF Pine!Execute, Pine!Known, Pine!Lost, WithLine
  <2>5. CASE ~ Initialized(x)
    <3> DEFINE i == InProgress.initialised \union {x}
               t == WithFirst(InProgress, c, i)
    <3>1. ~ Skips /\ Written = ValueNow
      BY <1>8, <2>1, <2>2, <2>5 DEF Skips, Written, VaripState, Initialized
    <3>2. /\ rt'.current = c /\ rt'.committed = rt.committed /\ rt'.bar = rt.bar
          /\ varInitialized' = [varInitialized EXCEPT ![x] = "yes"]
      BY <2>1, <3>1, Writes
    <3>3. Flagged(varInitialized') = i
      BY <1>1, <1>3, <2>1, <3>2 DEF Flagged, Flags
    <3>4. t = State(c, rt.committed, rt.bar, line, orders, i)
      BY <1>2, NowIs, FirstValue
    <3>5. t.line = line
      BY <3>4 DEF State
    <3>6. InProgress' = WithLine(t, t.line + 1)
      BY <1>1, <1>2, <2>1, <3>2, <3>3, <3>4, <3>5, NowIs, OneField
    <3>7. t = [InProgress EXCEPT !.current[x] = ValueNow, !.initialised = @ \union {x}]
      BY <1>3 DEF WithFirst
    <3>8. x \notin InProgress.initialised
      BY <1>3, <2>5 DEF Flagged, Initialized
    <3> HIDE DEF t
    <3>9. InProgress' = [t EXCEPT !.line = @ + 1]
      BY <3>6 DEF WithLine
    <3> QED BY <1>1, <1>2, <1>3, <1>8, <3>7, <3>8, <3>9
        DEF Pine!Execute, Pine!Known, Pine!Lost
  <2> QED BY <2>4, <2>5
<1> QED BY <1>4, <1>6, <1>7, <1>8

\* A checkpoint holds the script's state between two passes, or says it is lost.
LEMMA PineSaves ==
  ASSUME IInv, ExportCheckpoint
  PROVE  Pine!Save
<1>1. line = 0 /\ UNCHANGED <<rt, orders, varInitialized, line, mixed>>
  BY DEF IInv, GeneratedTypeOK, Inside, ExportCheckpoint, object
<1>2. checkpoint' = Exported /\ checkpoint' # NoCheckpoint
  <2>1. "mixed" \in DOMAIN Exported /\ "mixed" \notin DOMAIN NoCheckpoint
    BY DEF Exported, NoCheckpoint
  <2> QED BY <2>1 DEF ExportCheckpoint
<1>3. /\ checkpoint'.runtime = rt /\ checkpoint'.strategy = orders
      /\ checkpoint'.var_initialized = varInitialized /\ checkpoint'.mixed = mixed
  BY <1>2 DEF Exported
<1>4. ~ mixed => InCheckpoint' = Now
  BY <1>1, <1>2, <1>3 DEF InCheckpoint, Now
<1>5. mixed => InCheckpoint' = [lost |-> TRUE]
  BY <1>3 DEF InCheckpoint
<1>6. InCheckpoint' = InProgress
  BY <1>4, <1>5, IsInProgress
<1>7. UNCHANGED InProgress
  <2>1. Now' = Now
    BY <1>1, NowIs
  <2> QED BY <1>1, <2>1, IsInProgress
<1>8. InProgress # [lost |-> TRUE] => InProgress.line = 0
  BY <1>1, IsInProgress, NowReads
<1> QED BY <1>6, <1>7, <1>8 DEF Pine!Save, Pine!Known, Pine!Lost

\* A whole restore takes up what was saved.
LEMMA PineRestores ==
  ASSUME IInv, RestoreCheckpoint
  PROVE  Pine!TakeUp \/ Pine!Lose
<1>1. line' = 0 /\ UNCHANGED checkpoint /\ checkpoint # NoCheckpoint
  BY DEF IInv, GeneratedTypeOK, Inside, RestoreCheckpoint
<1>2. /\ rt' = checkpoint.runtime /\ orders' = checkpoint.strategy
      /\ varInitialized' = checkpoint.var_initialized /\ mixed' = checkpoint.mixed
  BY DEF RestoreCheckpoint
<1>3. CASE checkpoint.mixed
  BY <1>1, <1>2, <1>3, IsInProgress, SavedStays DEF Pine!Lose, Pine!Lost
<1>4. CASE ~ checkpoint.mixed
  <2>1. InCheckpoint = StateOf(checkpoint.runtime, checkpoint.strategy,
                               checkpoint.var_initialized, 0)
    BY <1>1, <1>4 DEF InCheckpoint
  <2>2. InProgress' = InCheckpoint /\ InCheckpoint # [lost |-> TRUE]
    BY <1>1, <1>2, <1>4, <2>1, IsInProgress, StatesAreKnown DEF Now
  <2> QED BY <1>1, <2>2, SavedStays DEF Pine!TakeUp, Pine!Lost
<1> QED BY <1>3, <1>4

LEMMA PineLoses ==
  ASSUME RestoreRaises
  PROVE  Pine!Lose
BY IsInProgress, SavedStays DEF RestoreRaises, Pine!Lose, Pine!Lost

LEMMA NewIsFresh ==
  StateOf(NewRuntime, 0, [x \in Names |-> "absent"], 0) = Pine!Fresh
<1>1. {x \in Names : [y \in Names |-> "absent"][x] = "yes"} = {}
  OBVIOUS
<1>2. StateOf(NewRuntime, 0, [x \in Names |-> "absent"], 0)
      = [ current |-> NewRuntime.current, committed |-> NewRuntime.committed,
          bar |-> NewRuntime.bar, line |-> 0, orders |-> 0, initialised |-> {} ]
  BY <1>1 DEF StateOf
<1>3. /\ NewRuntime.current = [x \in Names |-> NA]
      /\ NewRuntime.committed = [x \in Names |-> << >>] /\ NewRuntime.bar = NoBar
  BY DEF NewRuntime
<1> QED BY <1>2, <1>3, Zenon DEF Pine!Fresh

LEMMA PineRestarts ==
  ASSUME IInv, NewObject
  PROVE  Pine!Restart
<1>1. /\ line' = 0 /\ ~ mixed' /\ UNCHANGED checkpoint
      /\ rt' = NewRuntime /\ orders' = 0
      /\ varInitialized' = [x \in Names |-> "absent"]
  BY DEF IInv, GeneratedTypeOK, Inside, NewObject
<1>2. InProgress' = Pine!Fresh
  BY <1>1, NewIsFresh, IsInProgress DEF Now
<1> QED BY <1>1, <1>2, SavedStays DEF Pine!Restart

LEMMA PineStartsFresh == GeneratedInit => Pine!PineInit
<1> SUFFICES ASSUME GeneratedInit PROVE Pine!PineInit
  OBVIOUS
<1>1. ~ mixed /\ Now = Pine!Fresh
  BY NewIsFresh DEF GeneratedInit, Now
<1>2. InCheckpoint = [lost |-> TRUE]
  BY DEF GeneratedInit, InCheckpoint
<1> QED BY <1>1, <1>2, IsInProgress DEF Pine!PineInit, Pine!Lost

LEMMA PineSteps ==
  ASSUME IInv, [GeneratedNext]_vars
  PROVE  [Pine!PineNext]_<<InProgress, InCheckpoint>>
<1> DEFINE Same == UNCHANGED <<InProgress, InCheckpoint>>
<1>1. ASSUME NEW b \in Bars, BeginBar(b) \/ DriverBegins(b)
      PROVE  Pine!PineNext \/ Same
  <2>1. CASE mixed
    <3>1. mixed' /\ UNCHANGED checkpoint
      BY <1>1, <2>1 DEF BeginBar, DriverBegins
    <3> QED BY <2>1, <3>1, StaysLost
  <2> QED BY <1>1, <2>1, PineBegins DEF Pine!PineNext
<1>2. CASE UNCHANGED vars \/ CallRun \/ ReturnRun \/ OnBar
  <2>1. UNCHANGED <<rt, orders, line, mixed, checkpoint, varInitialized>>
    BY <1>2 DEF vars, object, CallRun, ReturnRun, OnBar
  <2> QED BY <2>1, StaysSame
<1>3. ASSUME DriverEnds \/ AttributeError \/ BodyRaises \/ PassEnds \/ InitSeriesRaises
             \/ InitSeries \/ Execute
      PROVE  Pine!PineNext \/ Same
  <2>1. mixed' = mixed /\ UNCHANGED checkpoint
    BY <1>3 DEF DriverEnds, AttributeError, BodyRaises, PassEnds, InitSeriesRaises,
                InitSeries, Execute, Raised
  <2>2. CASE mixed
    <3>1. mixed'
      BY <2>1, <2>2
    <3> QED BY <2>1, <2>2, <3>1, StaysLost
  <2>3. CASE ~ mixed /\ InitSeries
    BY <2>3, PineStarts DEF Pine!PineNext
  <2>4. CASE ~ mixed /\ Execute
    BY <2>4, PineExecutes DEF Pine!PineNext
  <2>5. CASE ~ mixed /\ DriverEnds
    <3>1. line = 0
      BY <2>5 DEF IInv, GeneratedTypeOK, Inside, DriverEnds
    <3> QED BY <2>5, <3>1, PineEnds DEF DriverEnds, object, Pine!PineNext
  <2>6. CASE ~ mixed /\ (AttributeError \/ BodyRaises \/ PassEnds)
    <3>1. /\ Inside /\ line > 0 /\ line' = 0
          /\ UNCHANGED <<varInitialized, orders, mixed, checkpoint>>
          /\ rt' = Ended(rt) \/ rt' = rt
      BY <2>6, Sizes DEF AttributeError, BodyRaises, PassEnds, AtStatement, Raised, object,
                         Last
    <3> QED BY <2>6, <3>1, PineEnds, PineStops DEF Inside, Pine!PineNext
  <2>7. CASE ~ mixed /\ InitSeriesRaises
    <3>1. PICK i \in 1 .. Len(Script) : Created(DeclaredBefore(i))
      BY <2>7 DEF InitSeriesRaises
    <3>2. DeclaredBefore(i) \in SUBSET Names
      BY Statements, Sizes DEF DeclaredBefore
    <3>3. Flagged(varInitialized') = Flagged(varInitialized)
      BY <2>7, <3>1, <3>2, CreatedFacts DEF InitSeriesRaises, Flagged
    <3>4. /\ Inside /\ line = 0 /\ line' = 0
          /\ UNCHANGED <<orders, mixed, checkpoint>>
          /\ rt' = Ended(rt) \/ rt' = rt
      BY <2>7 DEF InitSeriesRaises, Raised
    <3> QED BY <2>7, <3>3, <3>4, PineEnds, StaysSame DEF Inside, Pine!PineNext
  <2> QED BY <1>3, <2>2, <2>3, <2>4, <2>5, <2>6, <2>7
<1>4. CASE NewObject \/ ExportCheckpoint \/ RestoreCheckpoint \/ RestoreRaises
  BY <1>4, PineRestarts, PineSaves, PineRestores, PineLoses DEF Pine!PineNext
<1> QED BY <1>1, <1>2, <1>3, <1>4 DEF GeneratedNext, Pass

\* The generated object carries out its script: through run, on_bar, errors, restarts
\* and restores it takes PineScript's steps on series, histories, orders and what is
\* initialised, and a restore that fails half-way is the only way to lose them.
THEOREM ObjectFollowsPine == GeneratedSpec => FollowsPine
BY PineStartsFresh, PineSteps, Invariant, PTL DEF GeneratedSpec, FollowsPine, Pine!PineSpec
=============================================================================
