--------------------------- MODULE OrderedDelivery ---------------------------
(***************************************************************************)
(* What the outbox relay promises to those who write to it and to those    *)
(* who read the topic: a channel per aggregate that delivers its events at *)
(* least once, a bounded number of times, in the order of their first      *)
(* copies, or gives up and holds back what comes after.                    *)
(*                                                                         *)
(* There are no workers, claims, leases or requests in flight here.        *)
(*                                                                         *)
(* An operator "Mistake" defined before the operator it imitates is not    *)
(* part of the specification: it is a bug the properties must notice.      *)
(***************************************************************************)
EXTENDS Naturals, Sequences

CONSTANTS
    Aggregates,   \* keys of the channel
    MaxVersion,   \* bound: events of an aggregate
    CopyCap       \* how often an event may be delivered

ASSUME DeliveryAssumption == MaxVersion \in Nat /\ CopyCap \in Nat

Events == Aggregates \X (1 .. MaxVersion)

Earlier(e) == {f \in Events : f[1] = e[1] /\ f[2] < e[2]}

Copies == [event : Events, attempt : 1 .. CopyCap]

VARIABLES
    state,   \* "absent", "waiting", "confirmed" (to the writer) or "failed"
    log      \* per aggregate, the delivered copies

vars == <<state, log>>

TypeOK ==
    /\ state \in [Events -> {"absent", "waiting", "confirmed", "failed"}]
    /\ log \in [Aggregates -> Seq(Copies)]

Init ==
    /\ state = [e \in Events |-> "absent"]
    /\ log = [a \in Aggregates |-> <<>>]

Delivered(e) == \E i \in DOMAIN log[e[1]] : log[e[1]][i].event = e

(***************************************************************************)
(* The writer hands over the next event of an aggregate.                   *)
(***************************************************************************)
Accept(e) ==
    /\ state[e] = "absent"
    /\ \A f \in Earlier(e) : state[f] # "absent"
    /\ state' = [state EXCEPT ![e] = "waiting"]
    /\ UNCHANGED log

DeliverMistakeOutOfOrder(c) ==
    /\ state[c.event] # "absent"
    /\ \A i \in DOMAIN log[c.event[1]] : log[c.event[1]][i] # c
    /\ log' = [log EXCEPT ![c.event[1]] = Append(@, c)]
    /\ UNCHANGED state

(***************************************************************************)
(* A copy reaches the log, each at most once, after the events before it   *)
(* are confirmed.  It may come late: after the event is confirmed, or      *)
(* failed.                                                                 *)
(***************************************************************************)
Deliver(c) ==
    /\ state[c.event] # "absent"
    /\ \A f \in Earlier(c.event) : state[f] = "confirmed"
    /\ \A i \in DOMAIN log[c.event[1]] : log[c.event[1]][i] # c
    /\ log' = [log EXCEPT ![c.event[1]] = Append(@, c)]
    /\ UNCHANGED state

Confirm(e) ==
    /\ state[e] = "waiting"
    /\ \A f \in Earlier(e) : state[f] = "confirmed"
    /\ Delivered(e)
    /\ state' = [state EXCEPT ![e] = "confirmed"]
    /\ UNCHANGED log

(***************************************************************************)
(* Some events whose turn it was are given up, together.                   *)
(***************************************************************************)
GiveUp(given) ==
    /\ \A e \in given :
          state[e] = "waiting" /\ \A f \in Earlier(e) : state[f] = "confirmed"
    /\ state' = [e \in Events |-> IF e \in given THEN "failed" ELSE state[e]]
    /\ UNCHANGED log

(***************************************************************************)
(* An operator asks for another try.                                       *)
(***************************************************************************)
Retry(e) ==
    /\ state[e] = "failed"
    /\ state' = [state EXCEPT ![e] = "waiting"]
    /\ UNCHANGED log

Next ==
    \/ \E e \in Events : Accept(e) \/ Confirm(e) \/ Retry(e)
    \/ \E given \in SUBSET Events : given # {} /\ GiveUp(given)
    \/ \E c \in Copies : Deliver(c)

Spec == Init /\ [][Next]_vars

-----------------------------------------------------------------------------
(***************************************************************************)
(* The readers of the topic: the versions of an aggregate, each at its     *)
(* first copy, come in order and without a gap.  A reader that ignores     *)
(* what it has seen before reads the history of the aggregate.             *)
(***************************************************************************)
NoGapBeforeFirstCopy ==
    \A a \in Aggregates : \A i \in DOMAIN log[a] :
        \A v \in 1 .. (log[a][i].event[2] - 1) :
            \E j \in 1 .. (i - 1) : log[a][j].event = <<a, v>>

(***************************************************************************)
(* Events are confirmed or given up strictly one after the other.          *)
(***************************************************************************)
OneAtATime ==
    \A e \in Events :
        state[e] \in {"confirmed", "failed"} =>
            \A f \in Earlier(e) : state[f] = "confirmed" /\ Delivered(f)

=============================================================================
