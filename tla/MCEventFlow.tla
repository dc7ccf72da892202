----------------------------- MODULE MCEventFlow -----------------------------
(* Small instances of EventFlow for TLC.                                   *)
EXTENDS EventFlow

CONSTANTS o1, poison, elsewhere, p, q

\* A poisoned record among the events of the order, and one in the other partition.
MCPartitionOf == [k \in Aggregates \cup Foreign |-> IF k = elsewhere THEN q ELSE p]

=============================================================================
