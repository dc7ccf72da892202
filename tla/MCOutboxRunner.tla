--------------------------- MODULE MCOutboxRunner ---------------------------
(* Small instances of OutboxRunner for TLC.                                *)
EXTENDS OutboxRunner, TLC

CONSTANTS o1, w1, w2

VersionRank == [e \in Aggregates \X (1 .. MaxVersion) |-> e[2]]

RunnerSymmetry == Permutations(Workers)

=============================================================================
