------------------------- MODULE MCPunchOutTransfer -------------------------
(* PunchOutTransfer on small instances. *)
EXTENDS PunchOutTransfer, TLC

CONSTANTS u1, s1, s2, i1, r1, r2

Symmetry == Permutations(Sessions) \cup Permutations(Requests)
=============================================================================
