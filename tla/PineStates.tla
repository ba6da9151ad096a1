----------------------------- MODULE PineStates -----------------------------
(***************************************************************************)
(* What a Pine program promises of its histories, those of stateful calls  *)
(* (ta.ema, ta.lowest, (a + b)[1], ...) and of local variables (x[1]):     *)
(* there is one for every chain of calls that leads to the call or the     *)
(* variable, and evaluating a call or a reference at the end of one chain  *)
(* extends that history and no other.  state_id_py_expr                    *)
(* (ast2python/state.py) says the same of the generated code: each call    *)
(* site gets its own isolated stateful series.                             *)
(***************************************************************************)
EXTENDS Naturals

CONSTANT Histories  \* chains of calls, each with what it leads to

VARIABLE history  \* how many values each history has seen

Init == history = [h \in Histories |-> 0]

Evaluate(h) ==
  /\ history'[h] = history[h] + 1
  /\ \A g \in Histories \ {h} : history'[g] = history[g]

Next == \E h \in Histories : Evaluate(h)

Spec == Init /\ [][Next]_history
=============================================================================
