---------------------------- MODULE MCApiProcess ----------------------------
(* Small instances of ApiProcess for TLC.                                  *)
EXTENDS ApiProcess, TLC

CONSTANTS r1, r2, r3

RequestSymmetry == Permutations(Requests)

=============================================================================
