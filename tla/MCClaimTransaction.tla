------------------------- MODULE MCClaimTransaction -------------------------
(* Small instances of ClaimTransaction for TLC.                            *)
EXTENDS ClaimTransaction, TLC

CONSTANTS o1, o2, w1, w2

Place(a) == IF a = o1 THEN 0 ELSE 1
RowRank == [e \in Aggregates \X (1 .. MaxVersion) |-> 2 * e[2] + Place(e[1])]

WorkerSymmetry == Permutations(Workers)

=============================================================================
