---------------------------- MODULE GeneratedRun ----------------------------
(***************************************************************************)
(* The object of a generated class over its life (translator_parts/        *)
(* module.py): construction, bars by run or by a driver that calls on_bar, *)
(* the lazy _init_series, the guards of var and varip (statements.py),     *)
(* errors anywhere, checkpoints and their restoration, in the same object  *)
(* or after a restart in a new one.                                        *)
(*                                                                         *)
(* The runtime and the strategy context are PineLib's.  Of the runtime is  *)
(* kept what the generated code reaches: the series it registers by name,  *)
(* whose current value end_bar appends to their history, the varip states  *)
(* and the bar in progress; of the strategy context, how many orders were  *)
(* placed.  Both export and restore their state as a whole.                *)
(***************************************************************************)
EXTENDS Naturals, Sequences, FiniteSets

CONSTANTS
  Names, Values, NA, Script, Eval(_, _, _), Bars, NoBar,
  Unset,     \* no varip state under a name
  MaxBars,   \* bound: bars of one runtime
  MaxOrders, \* bound: orders of one strategy context
  Faults     \* what goes wrong: a subset of {"body", "init", "half",
             \* "restart", "save_mixed"}

Kinds   == {"var", "varip", "series"}
Declare == [op : {"declare"}, name : Names, kind : Kinds]
Assign  == [op : {"assign"}, name : Names, kind : Kinds]
Order   == [op : {"order"}]

\* Pine: a name has one declaration, and is assigned below it.
ASSUME GeneratedAssumption ==
  /\ NA \in Values /\ Unset \notin Values /\ NoBar \notin Bars
  /\ MaxBars \in Nat /\ MaxOrders \in Nat
  /\ Script \in Seq(Declare \union Assign \union Order)
  /\ \A i \in 1 .. Len(Script), b \in Bars, c \in [Names -> Values] :
       Eval(i, b, c) \in Values
  /\ \A i \in 1 .. Len(Script) : Script[i].op = "assign" =>
       \E j \in 1 .. i - 1 : /\ Script[j].op = "declare"
                             /\ Script[j].name = Script[i].name
                             /\ Script[j].kind = Script[i].kind
  /\ \A i, j \in 1 .. Len(Script) :
       /\ Script[i].op = "declare" /\ Script[j].op = "declare"
       /\ Script[i].name = Script[j].name
       => i = j

Last == Len(Script) + 1

OrdersOfPass == Cardinality({i \in 1 .. Len(Script) : Script[i].op = "order"})

VARIABLES
  rt,                \* runtime: current, committed, varip, bar, bar_index
  orders,            \* ctx: orders placed
  bound,             \* the series attributes that the object has
  varInitialized,    \* _var_initialized: "absent", "no" or "yes"
  seriesInitialized, \* _series_initialized
  caller,            \* who is inside the object: "none", "run" or "driver"
  line,              \* the statement of _process_bar to come; 0 before it
  missing,           \* history: the last pass met a series attribute not bound
  checkpoint,        \* the last exported checkpoint, or NoCheckpoint
  mixed              \* history: a restore failed after the runtime's state

object == <<bound, varInitialized, seriesInitialized>>
vars == <<rt, orders, object, caller, line, missing, checkpoint, mixed>>

NoCheckpoint == [none |-> TRUE]

Runtimes == [ current : [Names -> Values], committed : [Names -> Seq(Values)],
              varip : [Names -> Values \union {Unset}],
              bar : Bars \union {NoBar}, bar_index : 0 .. MaxBars ]
-----------------------------------------------------------------------------
NewRuntime ==
  [ current |-> [x \in Names |-> NA], committed |-> [x \in Names |-> << >>],
    varip |-> [x \in Names |-> Unset], bar |-> NoBar, bar_index |-> 0 ]

GeneratedInit ==
  /\ rt = NewRuntime /\ orders = 0
  /\ bound = {} /\ varInitialized = [x \in Names |-> "absent"]
  /\ seriesInitialized = FALSE
  /\ caller = "none" /\ line = 0 /\ missing = FALSE
  /\ checkpoint = NoCheckpoint /\ mixed = FALSE

\* A process starts over: a new runtime, strategy context and object.
NewObject ==
  /\ "restart" \in Faults /\ caller = "none"
  /\ rt' = NewRuntime /\ orders' = 0
  /\ bound' = {} /\ varInitialized' = [x \in Names |-> "absent"]
  /\ seriesInitialized' = FALSE
  /\ missing' = FALSE /\ mixed' = FALSE
  /\ UNCHANGED <<caller, line, checkpoint>>

CanOpen  == rt.bar = NoBar /\ rt.bar_index < MaxBars
CanOrder == orders + OrdersOfPass <= MaxOrders

\* run: the next bar of its argument.  Line 0 with a caller is the start of
\* _process_bar.
BeginBar(b) ==
  /\ caller = "run" /\ CanOpen /\ CanOrder
  /\ rt' = [rt EXCEPT !.bar = b]
  /\ UNCHANGED <<orders, object, caller, line, missing, checkpoint, mixed>>

CallRun ==
  /\ caller = "none" /\ rt.bar = NoBar
  /\ caller' = "run" /\ missing' = FALSE
  /\ UNCHANGED <<rt, orders, object, line, checkpoint, mixed>>

ReturnRun ==
  /\ caller = "run" /\ rt.bar = NoBar
  /\ caller' = "none"
  /\ UNCHANGED <<rt, orders, object, line, missing, checkpoint, mixed>>

\* A driver opens and ends bars itself and calls on_bar in between, once or, on
\* every tick, several times; without a bar on_bar raises.
DriverBegins(b) ==
  /\ caller = "none" /\ CanOpen
  /\ rt' = [rt EXCEPT !.bar = b]
  /\ UNCHANGED <<orders, object, caller, line, missing, checkpoint, mixed>>

\* Mutant: on_bar without its check for an active bar.
OnBarAnytime ==
  /\ caller = "none" /\ CanOrder
  /\ caller' = "driver" /\ missing' = FALSE
  /\ UNCHANGED <<rt, orders, object, line, checkpoint, mixed>>

OnBar ==
  /\ caller = "none" /\ rt.bar # NoBar /\ CanOrder
  /\ caller' = "driver" /\ missing' = FALSE
  /\ UNCHANGED <<rt, orders, object, line, checkpoint, mixed>>

\* rt.end_bar
Ended(r) ==
  [r EXCEPT !.committed = [x \in Names |-> Append(r.committed[x], r.current[x])],
            !.bar = NoBar, !.bar_index = @ + 1]

DriverEnds ==
  /\ caller = "none" /\ rt.bar # NoBar
  /\ rt' = Ended(rt)
  /\ UNCHANGED <<orders, object, caller, line, missing, checkpoint, mixed>>
-----------------------------------------------------------------------------
(* _process_bar.                                                           *)
Inside == caller # "none" /\ rt.bar # NoBar

\* Mutant: an error leaves run without the finally block.
RaisedPastFinally ==
  /\ caller' = "none" /\ line' = 0
  /\ UNCHANGED <<rt, orders, checkpoint, mixed>>

\* An error leaves the pass.  run's finally block ends the bar.
Raised ==
  /\ caller' = "none" /\ line' = 0
  /\ rt' = IF caller = "run" THEN Ended(rt) ELSE rt
  /\ UNCHANGED <<orders, checkpoint, mixed>>

\* The series that _init_series creates.
SeriesToInit == IF seriesInitialized THEN {} ELSE Names

Created(done) ==
  /\ bound' = bound \union done
  /\ varInitialized' = [x \in Names |-> IF x \in done THEN "no" ELSE varInitialized[x]]

InitSeries ==
  /\ Inside /\ line = 0
  /\ Created(SeriesToInit)
  /\ seriesInitialized' = TRUE /\ line' = 1
  /\ UNCHANGED <<rt, orders, caller, missing, checkpoint, mixed>>

\* The runtime refuses a series: those declared before it exist already.
DeclaredBefore(i) ==
  {Script[j].name : j \in {k \in 1 .. i - 1 : Script[k].op = "declare"}}

InitSeriesRaises ==
  /\ "init" \in Faults /\ Inside /\ line = 0 /\ ~ seriesInitialized
  /\ \E i \in 1 .. Len(Script) : /\ Script[i].op = "declare"
                                 /\ Created(DeclaredBefore(i))
  /\ Raised /\ UNCHANGED <<seriesInitialized, missing>>

AtStatement == Inside /\ line \in 1 .. Len(Script)
Statement   == Script[line]
ValueNow    == Eval(line, rt.bar, rt.current)
Initialized(x) == varInitialized[x] = "yes"

\* A guarded declaration that is initialised reads no attribute but a varip's.
TouchesSeries ==
  /\ Statement.op # "order"
  /\ ~ (/\ Statement.op = "declare" /\ Statement.kind = "var"
        /\ Initialized(Statement.name))

Assigned(x, v) == rt' = [rt EXCEPT !.current[x] = v]

PlaceOrder ==
  /\ Statement.op = "order"
  /\ orders' = orders + 1
  /\ UNCHANGED <<rt, varInitialized>>

DeclareSeries ==
  /\ Statement.op = "declare" /\ Statement.kind = "series"
  /\ Assigned(Statement.name, ValueNow)
  /\ UNCHANGED <<orders, varInitialized>>

DeclareVar ==
  /\ Statement.op = "declare" /\ Statement.kind = "var"
  /\ IF Initialized(Statement.name)
     THEN UNCHANGED <<rt, varInitialized>>
     ELSE /\ Assigned(Statement.name, ValueNow)
          /\ varInitialized' = [varInitialized EXCEPT ![Statement.name] = "yes"]
  /\ UNCHANGED orders

\* rt.get_varip_state(key, default): the state under the key, made if missing.
VaripState(x, default) ==
  IF rt.varip[x] = Unset THEN default ELSE rt.varip[x]

DeclareVarip ==
  /\ Statement.op = "declare" /\ Statement.kind = "varip"
  /\ LET x == Statement.name
         v == VaripState(x, IF Initialized(x) THEN rt.current[x] ELSE ValueNow)
     IN /\ rt' = [rt EXCEPT !.current[x] = v, !.varip[x] = v]
        /\ varInitialized' = [varInitialized EXCEPT ![x] = "yes"]
  /\ UNCHANGED orders

\* Mutant: the varip state is not written by an assignment.
ReassignCurrent ==
  /\ Statement.op = "assign"
  /\ Assigned(Statement.name, ValueNow)
  /\ UNCHANGED <<orders, varInitialized>>

Reassign ==
  /\ Statement.op = "assign"
  /\ rt' = [rt EXCEPT !.current[Statement.name] = ValueNow,
                      !.varip = IF Statement.kind = "varip"
                                THEN [@ EXCEPT ![Statement.name] = ValueNow]
                                ELSE @]
  /\ UNCHANGED <<orders, varInitialized>>

Execute ==
  /\ AtStatement /\ (TouchesSeries => Statement.name \in bound)
  /\ \/ PlaceOrder \/ DeclareSeries \/ DeclareVar \/ DeclareVarip \/ Reassign
  /\ line' = line + 1
  /\ UNCHANGED <<bound, seriesInitialized, caller, missing, checkpoint, mixed>>

\* self.<name> of a series that was never bound.
AttributeError ==
  /\ AtStatement /\ TouchesSeries /\ Statement.name \notin bound
  /\ missing' = TRUE /\ Raised /\ UNCHANGED object

BodyRaises ==
  /\ "body" \in Faults /\ AtStatement
  /\ Raised /\ UNCHANGED <<object, missing>>

\* The pass is through: run ends the bar, a driver does so itself.
PassEnds ==
  /\ Inside /\ line = Last
  /\ line' = 0
  /\ IF caller = "run" THEN rt' = Ended(rt) /\ UNCHANGED caller
                       ELSE caller' = "none" /\ UNCHANGED rt
  /\ UNCHANGED <<orders, object, missing, checkpoint, mixed>>
-----------------------------------------------------------------------------
(* Checkpoints.                                                            *)
\* Mutant: a checkpoint without the flags of the vars.
ExportedWithoutFlags ==
  [ runtime |-> rt, strategy |-> orders,
    var_initialized |-> [x \in Names |-> "no"],
    series_initialized |-> seriesInitialized, mixed |-> mixed ]

Exported ==
  [ runtime |-> rt, strategy |-> orders, var_initialized |-> varInitialized,
    series_initialized |-> seriesInitialized,
    mixed |-> mixed ] \* history

ExportCheckpoint ==
  /\ caller = "none" /\ (mixed => "save_mixed" \in Faults)
  /\ checkpoint' = Exported
  /\ UNCHANGED <<rt, orders, object, caller, line, missing, mixed>>

RestoreCheckpoint ==
  /\ caller = "none" /\ checkpoint # NoCheckpoint
  /\ rt' = checkpoint.runtime /\ orders' = checkpoint.strategy
  /\ varInitialized' = checkpoint.var_initialized
  /\ seriesInitialized' = checkpoint.series_initialized
  /\ mixed' = checkpoint.mixed
  /\ UNCHANGED <<bound, caller, line, missing, checkpoint>>

\* The strategy context refuses its part, after the runtime took its own.
RestoreRaises ==
  /\ "half" \in Faults /\ caller = "none" /\ checkpoint # NoCheckpoint
  /\ rt' = checkpoint.runtime
  /\ mixed' = TRUE
  /\ UNCHANGED <<orders, object, caller, line, missing, checkpoint>>
-----------------------------------------------------------------------------
Pass == InitSeries \/ InitSeriesRaises \/ Execute \/ AttributeError \/ BodyRaises
          \/ PassEnds

GeneratedNext ==
  \/ NewObject \/ CallRun \/ ReturnRun \/ OnBar \/ DriverEnds \/ Pass
  \/ ExportCheckpoint \/ RestoreCheckpoint \/ RestoreRaises
  \/ \E b \in Bars : BeginBar(b) \/ DriverBegins(b)

\* Once inside a pass, Python carries on by itself; its callers may stop.
GeneratedSpec == GeneratedInit /\ [][GeneratedNext]_vars /\ WF_vars(Pass)
-----------------------------------------------------------------------------
Flags == [Names -> {"absent", "no", "yes"}]

Checkpoints == [ runtime : Runtimes, strategy : 0 .. MaxOrders, var_initialized : Flags,
                 series_initialized : BOOLEAN, mixed : BOOLEAN ]

\* The state is well formed, and nobody is inside a pass without a bar.
GeneratedTypeOK ==
  /\ rt \in Runtimes /\ orders \in 0 .. MaxOrders
  /\ bound \in SUBSET Names /\ varInitialized \in Flags
  /\ seriesInitialized \in BOOLEAN
  /\ caller \in {"none", "run", "driver"} /\ line \in 0 .. Last
  /\ missing \in BOOLEAN /\ mixed \in BOOLEAN
  /\ checkpoint = NoCheckpoint \/ checkpoint \in Checkpoints
  /\ line > 0 => Inside
  /\ caller = "driver" => rt.bar # NoBar

\* The object carries out its script: whatever the mix of run, on_bar, errors,
\* restarts and restores, series, histories, orders and what is initialised are
\* those of PineScript on the same bars, except between a restore that failed
\* half-way and the next whole one.
StateOf(r, o, flags, l) ==
  [ current |-> r.current, committed |-> r.committed, bar |-> r.bar, line |-> l,
    orders |-> o, initialised |-> {x \in Names : flags[x] = "yes"} ]

InProgress ==
  IF mixed THEN [lost |-> TRUE] ELSE StateOf(rt, orders, varInitialized, line)

InCheckpoint ==
  IF checkpoint = NoCheckpoint \/ checkpoint.mixed THEN [lost |-> TRUE]
  ELSE StateOf(checkpoint.runtime, checkpoint.strategy, checkpoint.var_initialized, 0)

Pine == INSTANCE PineScript WITH script <- InProgress, saved <- InCheckpoint

FollowsPine == Pine!PineSpec

\* A varip has two homes, the series and the runtime's varip state: outside a
\* half-way restore they agree once it is initialised, and before that there is
\* no state from which a declaration could take a stale value.
IsVarip(x) == \E i \in 1 .. Len(Script) : /\ Script[i].op = "declare"
                                          /\ Script[i].name = x
                                          /\ Script[i].kind = "varip"

VaripAgrees ==
  ~ mixed => \A x \in Names :
    IsVarip(x) => rt.varip[x] = IF Initialized(x) THEN rt.current[x] ELSE Unset

\* A bar that run has begun is ended, however its pass goes (the finally block).
BarEnds == (caller = "run" /\ rt.bar # NoBar) ~> rt.bar = NoBar

\* A script that is restored from a checkpoint runs: no series of it is missing
\* (tests/unit/test_rc4_wave0_semantic_blockers.py:200, the round trip "restores
\* all owned state").
RestoredScriptRuns == ~ missing
=============================================================================
