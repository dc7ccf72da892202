-------------------------- MODULE MCOrderContract --------------------------
(***************************************************************************)
(* Doubles with a significand of three bits for TLC.                       *)
(***************************************************************************)
EXTENDS OrderContract

MCSafe == 7

(***************************************************************************)
(* Round to the next multiple of the step, ties to the even multiple.      *)
(***************************************************************************)
Nearest(n, step) ==
    LET k == n \div step
        r == n % step
    IN step * (IF 2 * r > step \/ (2 * r = step /\ k % 2 = 1) THEN k + 1 ELSE k)

MCRounded(n) ==
    CASE n < 8 -> n
      [] n \in 8 .. 15 -> Nearest(n, 2)
      [] n \in 16 .. 31 -> Nearest(n, 4)

\* All amounts of up to two items, and all texts with amounts that are valid.
Amounts ==
    [sku : {"plain"}, quantity : {0, 1, 2, 3, 4}, unitPriceMinor : {-1, 0, 1, 3, 4, 7, 8}]

MCBodies ==
    [customerId : {"plain"}, currency : {"upper"},
     items : {<<>>} \cup {<<i>> : i \in Amounts} \cup {<<i, j>> : i, j \in Amounts}]
    \cup
    [customerId : Texts, currency : Currencies,
     items : {<<[sku |-> s, quantity |-> 3, unitPriceMinor |-> 2]>> : s \in Texts}]

\* A created order as another producer may write it, with one thing changed.
Good ==
    [eventId |-> "uuid", eventType |-> "created", aggregateType |-> "order",
     aggregateId |-> "uuid", aggregateVersion |-> 1, occurredAt |-> "time",
     payload |-> [kind |-> "object", customerId |-> "plain", currency |-> "upper",
                  totalAmountMinor |-> MCSafe]]

MCForeign ==
    {Good, NoEnvelope}
    \cup {[Good EXCEPT !.eventId = x] : x \in {"text", "missing"}}
    \cup {[Good EXCEPT !.eventType = x] : x \in {"other", "missing"}}
    \cup {[Good EXCEPT !.aggregateType = x] : x \in {"other", "missing"}}
    \cup {[Good EXCEPT !.aggregateId = x] : x \in {"text", "missing"}}
    \cup {[Good EXCEPT !.aggregateVersion = -1]}
    \cup {[Good EXCEPT !.occurredAt = x] : x \in {"text", "missing"}}
    \cup {[Good EXCEPT !.payload.kind = x] : x \in {"scalar", "missing"}}
    \cup {[Good EXCEPT !.payload.customerId = x] : x \in Texts \cup {"missing"}}
    \cup {[Good EXCEPT !.payload.currency = x] : x \in Currencies \cup {"missing"}}
    \cup {[Good EXCEPT !.payload.totalAmountMinor = x] : x \in {-1, 0, MCSafe}}

=============================================================================
