---------------------------- MODULE MCOutboxRelay ----------------------------
(* Small instances of OutboxRelay for TLC.                                 *)
EXTENDS OutboxRelay, TLC

CONSTANTS o1, o2, w1, w2

(***************************************************************************)
(* Rows are ranked by version first: the row of a first version is older   *)
(* than that of any second version; among equals the aggregate decides.    *)
(***************************************************************************)
Place(a) == IF a = o1 THEN 0 ELSE 1
VersionMajorRank == [e \in Aggregates \X (1 .. MaxVersion) |-> 2 * e[2] + Place(e[1])]

WorkerSymmetry == Permutations(Workers)

=============================================================================
