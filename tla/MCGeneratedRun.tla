--------------------------- MODULE MCGeneratedRun ---------------------------
(* A script with a var, a varip and a plain series, an assignment and an    *)
(* order, over equal bars: a var that is initialised again takes the plain  *)
(* series' value of the bar before, which has grown.                        *)
EXTENDS GeneratedRun

MCNames  == {"x", "v", "s"}
MCBars   == {1}
MCValues == 0 .. 2

D(n, k) == [op |-> "declare", name |-> n, kind |-> k]
A(n, k) == [op |-> "assign", name |-> n, kind |-> k]

MCScript == << D("x", "var"), D("v", "varip"), D("s", "series"),
               A("v", "varip"), [op |-> "order"] >>

MCEval(i, b, c) ==
  LET add(n) == IF c[n] = 2 THEN 2 ELSE c[n] + b
  IN IF MCScript[i].op # "order" /\ MCScript[i].name = "v" THEN add("v") ELSE add("s")
=============================================================================
