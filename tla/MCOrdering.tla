------------------------------ MODULE MCOrdering ------------------------------
(* Small instances of Ordering for TLC.                                    *)
EXTENDS Ordering

CONSTANTS r1, r2, r3

\* Every kind of request and input, for one of two orders.
AllAsks == [kind : {"create", "get", "confirm", "cancel"}, order : {r1, r2},
            input : {"valid", "blank", "malformed"}]

=============================================================================
