------------------------------ MODULE EventFlow ------------------------------
(***************************************************************************)
(* From the outbox to the projection: the channel that the relay is to its *)
(* readers (OrderedDelivery, which OutboxRelay implements) writes to the   *)
(* partitions that the consumer group reads (OrderActivity), where records *)
(* of other orders and of other producers come between.                    *)
(*                                                                         *)
(* The key of a record is the id of the order, so that all events of an    *)
(* order are in one partition.  The creation of an order is its version 1, *)
(* and OrderContract shows that its record is never a poisoned one.        *)
(***************************************************************************)
EXTENDS OrderedDelivery

CONSTANTS
    Partitions, Consumers,
    PartitionOf,   \* the partition of a key: of an order, or of a foreign record
    Foreign,       \* records of other producers that cannot be processed
    MaxLog         \* bound: records in a partition

ASSUME FlowAssumption ==
    /\ Foreign \cap (Aggregates \cup Events) = {}
    /\ PartitionOf \in [Aggregates \cup Foreign -> Partitions]
    /\ MaxLog \in Nat

\* The consumer group; its log is the topic.
VARIABLES topic, committed, activity, skipped, owner, running, assigned, position, paused, handler

Records == Events \cup Foreign

Key(m) == IF m \in Foreign THEN m ELSE m[1]

RecordKind(m) ==
    IF m \in Foreign THEN "poison" ELSE IF m[2] = 1 THEN "created" ELSE "other"

Group == INSTANCE OrderActivity WITH
    log <- topic,
    Messages <- Records,
    PartitionOf <- [m \in Records |-> PartitionOf[Key(m)]],
    Kind <- [m \in Records |-> RecordKind(m)]

group == <<topic, committed, activity, skipped, owner, running, assigned, position, paused, handler>>
flow == <<vars, group>>

FlowInit == Init /\ Group!Init

\* A copy of an event reaches the topic.
Publish(c) == Deliver(c) /\ Group!Produce(c.event)

\* The events of the relay that readers do not see.
Bookkeeping ==
    /\ \/ \E e \in Events : Accept(e) \/ Confirm(e) \/ Retry(e)
       \/ \E given \in SUBSET Events : given # {} /\ GiveUp(given)
    /\ UNCHANGED group

Others == \E m \in Foreign : Group!Produce(m) /\ UNCHANGED vars

Consumer(c) ==
    /\ \/ Group!Start(c)
       \/ Group!Stop(c)
       \/ \E p \in Partitions : Group!Assign(c, p) \/ Group!Revoke(c, p) \/ Group!Deliver(c, p)
       \/ \E h \in handler[c] : Group!ProcessMessage(c, h) \/ Group!CallFails(c, h)
    /\ UNCHANGED vars

Operator == (\E p \in Partitions : Group!OperatorSkips(p)) /\ UNCHANGED vars

FlowNext ==
    \/ \E c \in Copies : Publish(c)
    \/ Bookkeeping \/ Others \/ Operator
    \/ \E c \in Consumers : Consumer(c)

FlowSpec == FlowInit /\ [][FlowNext]_flow

(***************************************************************************)
(* The fairness of the consumer group.  Nothing is asked of the relay.     *)
(***************************************************************************)
FlowFairSpec == FlowSpec /\ Group!Fairness

-----------------------------------------------------------------------------
\* The order of a record is in the projection, or the operator has skipped its creation.
CreationKnown(p, i) ==
    \/ topic[p][i] \in Foreign
    \/ <<topic[p][i][1], 1>> \in activity
    \/ \E j \in 1 .. i : topic[p][j] = <<topic[p][i][1], 1>> /\ <<p, j>> \in skipped

(***************************************************************************)
(* The consumer group never settles a later event of an order, and no      *)
(* consumer has one in its hands, before the creation of the order is in   *)
(* the projection, whatever is delivered again or late, and whoever of the *)
(* group had which record, also one that was replaced meanwhile - unless   *)
(* the operator has skipped the creation.                                  *)
(***************************************************************************)
CreationIsKnownFirst ==
    /\ \A p \in Partitions : \A i \in 1 .. committed[p] : CreationKnown(p, i)
    /\ \A c \in Consumers : \A h \in handler[c] :
          Group!Message(h) \in Foreign \/ Group!Message(h)[2] = 1
              \/ CreationKnown(h.partition, h.offset + 1)

(***************************************************************************)
(* Once an event of an order is PUBLISHED, the order gets into the         *)
(* projection, unless its record follows one that nobody can process.      *)
(***************************************************************************)
PublishedIsProjected ==
    \A a \in Aggregates :
        state[<<a, 1>>] = "confirmed" ~>
            \/ <<a, 1>> \in activity
            \/ \E i \in DOMAIN topic[PartitionOf[a]] :
                  /\ topic[PartitionOf[a]][i] = <<a, 1>>
                  /\ Group!BehindPoison(PartitionOf[a], i) \/ <<PartitionOf[a], i>> \in skipped

=============================================================================
