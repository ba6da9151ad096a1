----------------------------- MODULE MCOutputs -----------------------------
(* Two files with one stem and one with its own; documents that are all     *)
(* there, none, or all with one that differs.                              *)
EXTENDS Outputs

MCStem(i) == IF i = "c.json" THEN "c" ELSE "a"

MCQueues == {<<"a.json", "x/a.json">>, <<"c.json", "a.json", "x/a.json">>}

Plain     == [ source |-> "empty", frontend |-> "none", support |-> "none",
               ast |-> "none", commits |-> "absent", env |-> "unset", git |-> TRUE ]
Canonical == [ source |-> "given", frontend |-> "canonical", support |-> "canonical",
               ast |-> "canonical", commits |-> "given", env |-> "unset", git |-> TRUE ]

\* The requests that differ from r in one field.
Near(r) ==
  {q \in Request : Cardinality({k \in DOMAIN Plain : q[k] # r[k]}) <= 1
                   /\ q.support # "foreign" /\ q.ast # "foreign"}

MCRequests ==
  Near(Canonical) \union {Plain, [Plain EXCEPT !.env = "invalid"], [Plain EXCEPT !.git = FALSE]}
=============================================================================
