--------------------------- MODULE MCOrderActivity ---------------------------
(***************************************************************************)
(* Values of the constants of OrderActivity for TLC.                       *)
(***************************************************************************)
EXTENDS OrderActivity, TLC

CONSTANTS p, created1, created2, other, poison

MCPartitionOf == [m \in Messages |-> p]

MCKind ==
    [m \in Messages |->
        CASE m = other -> "other"
          [] m = poison -> "poison"
          [] OTHER -> "created"]

=============================================================================
