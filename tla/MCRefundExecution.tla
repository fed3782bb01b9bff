------------------------- MODULE MCRefundExecution -------------------------
(* Small instances of RefundExecution for TLC. *)
EXTENDS RefundExecution, TLC

CONSTANTS s1, s2, r1, r2

MCSessions == {s1, s2}
MCRequests == {r1, r2}
MCAmounts  == -1 .. 2

Perms == Permutations(MCSessions) \cup Permutations(MCRequests)
=============================================================================
