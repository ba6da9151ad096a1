----------------------------- MODULE PineScript -----------------------------
(***************************************************************************)
(* What a Pine script promises over a sequence of bars, without the object *)
(* that carries it out: on each bar its statements are executed in order,  *)
(* a var or varip is initialised by the first execution of its declaration *)
(* only, an error ends the pass, and a saved state can be taken up again   *)
(* as a whole.  A state that was taken up in part is lost until a saved    *)
(* one is taken up whole.                                                  *)
(***************************************************************************)
EXTENDS Naturals, Sequences

CONSTANTS
  Names,         \* global series
  NA,            \* Pine's na
  Script,        \* the statements of the body, in order: records with op "declare"
                 \* or "assign", a name and a kind, or with op "order"
  Eval(_, _, _), \* the value of a statement's expression: statement, bar, series
  Bars,
  NoBar

VARIABLES
  script, \* the state of the script, or Lost
  saved   \* a saved state, Lost before the first one

Lost  == [lost |-> TRUE]
Fresh == [ current |-> [x \in Names |-> NA], committed |-> [x \in Names |-> << >>],
           bar |-> NoBar, line |-> 0, orders |-> 0, initialised |-> {} ]

PineInit == script = Fresh /\ saved = Lost

Known == script # Lost

\* A bar opens, and a pass over the body may start with it.
Begin(b) ==
  /\ Known /\ script.bar = NoBar
  /\ \E l \in {0, 1} : script' = [script EXCEPT !.bar = b, !.line = l]
  /\ UNCHANGED saved

Start ==
  /\ Known /\ script.bar # NoBar /\ script.line = 0
  /\ script' = [script EXCEPT !.line = 1]
  /\ UNCHANGED saved

Value == Eval(script.line, script.bar, script.current)

Execute ==
  /\ Known /\ script.line \in 1 .. Len(Script)
  /\ LET s    == Script[script.line]
         Next(t) == [t EXCEPT !.line = @ + 1]
     IN \/ /\ s.op = "order"
           /\ script' = Next([script EXCEPT !.orders = @ + 1])
        \/ /\ s.op = "assign" \/ (s.op = "declare" /\ s.kind = "series")
           /\ script' = Next([script EXCEPT !.current[s.name] = Value])
        \/ /\ s.op = "declare" /\ s.kind # "series"
           /\ script' = IF s.name \in script.initialised
                        THEN Next(script)
                        ELSE Next([script EXCEPT !.current[s.name] = Value,
                                                 !.initialised = @ \union {s.name}])
  /\ UNCHANGED saved

\* The series of a bar that ends become its history.
Committed(t) ==
  [t EXCEPT !.committed = [x \in Names |-> Append(t.committed[x], t.current[x])],
            !.bar = NoBar, !.line = 0]

\* A pass ends, by an error anywhere or at the end of the body; the bar ends
\* with it, stays open, or ends by itself.
Stop ==
  /\ Known /\ script.line > 0
  /\ script' = [script EXCEPT !.line = 0]
  /\ UNCHANGED saved

End ==
  /\ Known /\ script.bar # NoBar
  /\ script' = Committed(script)
  /\ UNCHANGED saved

\* A lost state is saved as such.
Save == (Known => script.line = 0) /\ saved' = script /\ UNCHANGED script

TakeUp == saved # Lost /\ script' = saved /\ UNCHANGED saved

Restart == script' = Fresh /\ UNCHANGED saved

Lose == script' = Lost /\ UNCHANGED saved

PineNext ==
  \/ \E b \in Bars : Begin(b)
  \/ Start \/ Execute \/ Stop \/ End \/ Save \/ TakeUp \/ Restart \/ Lose

PineSpec == PineInit /\ [][PineNext]_<<script, saved>>
=============================================================================
