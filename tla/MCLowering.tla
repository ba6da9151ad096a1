----------------------------- MODULE MCLowering -----------------------------
(***************************************************************************)
(* Values for Lowering: the spellings of MCContext.                        *)
(***************************************************************************)
EXTENDS Lowering, TLC

MCSnake(n) == IF n = "X" THEN "x" ELSE n
MCBase(n) == MCSnake(n)
MCLoopBase(n) == n
MCCandidate(b, k) == IF k = 1 THEN b ELSE b \o "_" \o ToString(k)
MCPyNames ==
  Bases \union {Snake(n) : n \in Names}
        \union {MCCandidate(b, k) : b \in Bases, k \in 1 .. MaxOrdinal}
=============================================================================
