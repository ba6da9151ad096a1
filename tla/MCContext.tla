----------------------------- MODULE MCContext -----------------------------
(***************************************************************************)
(* Values for the constants of Context: spellings chosen so that two Pine  *)
(* names share a base ("x" and "X"), one name is another one's second      *)
(* candidate ("x_2"), one is a builtin that is escaped ("len") and one is  *)
(* an attribute of the generated class ("rt").                             *)
(***************************************************************************)
EXTENDS Context, TLC

MCSnake(n) == IF n = "X" THEN "x" ELSE n
MCEscape(p) == IF p = "len" THEN "len_" ELSE p
MCBase(n) == MCEscape(MCSnake(n))
MCLoopBase(n) == MCEscape(n)
MCCandidate(b, k) == IF k = 1 THEN b ELSE b \o "_" \o ToString(k)

MCPyNames ==
  Bases \union {Snake(n) : n \in Names}
        \union {MCCandidate(b, k) : b \in Bases, k \in 1 .. MaxOrdinal}
=============================================================================
