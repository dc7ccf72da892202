--------------------------- MODULE EventFlowProofs ---------------------------
(***************************************************************************)
(* From the outbox to the projection, for any orders, versions, copies,    *)
(* partitions, consumers and records of other producers.                   *)
(*                                                                         *)
(* The argument: the composition is a behaviour of the channel and one of  *)
(* the consumer group, so that what is proved of each holds.  What is in   *)
(* the log of the channel is in the topic (CopiesAreRecords), so that the  *)
(* order of first copies is an order of records of one partition           *)
(* (CreationsComeFirst), and a group that settles records in their order   *)
(* has settled the creation of an order before anything else of it.        *)
(***************************************************************************)
EXTENDS EventFlow, TLAPS, SequenceTheorems

-----------------------------------------------------------------------------
(* The channel: what readers of OrderedDelivery may rely on, for any      *)
(* number of aggregates, versions and copies.                             *)

ConfirmedIsDelivered == \A e \in Events : state[e] = "confirmed" => Delivered(e)

IndInv == TypeOK /\ ConfirmedIsDelivered /\ OneAtATime /\ NoGapBeforeFirstCopy

LEMMA CopyParts ==
    ASSUME NEW c \in Copies
    PROVE  /\ c.event \in Events /\ c.event[1] \in Aggregates
           /\ c.event[2] \in 1 .. MaxVersion /\ c.event = <<c.event[1], c.event[2]>>
<1>1. c.event \in Events
  BY DEF Copies
<1> QED
  BY <1>1, DeliveryAssumption DEF Events

LEMMA LogAfterDeliver ==
    ASSUME TypeOK, NEW c \in Copies, Deliver(c), NEW a \in Aggregates
    PROVE  /\ log'[a] \in Seq(Copies)
           /\ DOMAIN log[a] = 1 .. Len(log[a]) /\ Len(log[a]) \in Nat
           /\ \A i \in DOMAIN log[a] :
                 i \in DOMAIN log'[a] /\ log'[a][i] = log[a][i] /\ log[a][i] \in Copies
           /\ a # c.event[1] => log'[a] = log[a]
           /\ a = c.event[1] => /\ DOMAIN log'[a] = 1 .. (Len(log[a]) + 1)
                                /\ log'[a][Len(log[a]) + 1] = c
<1>1. log[a] \in Seq(Copies)
  BY DEF TypeOK
<1>2. /\ DOMAIN log[a] = 1 .. Len(log[a]) /\ Len(log[a]) \in Nat
      /\ \A i \in DOMAIN log[a] : log[a][i] \in Copies
  BY <1>1, LenProperties
<1>3. CASE a # c.event[1]
  <2>1. log'[a] = log[a]
    BY <1>3 DEF Deliver, TypeOK
  <2> QED
    BY <1>1, <1>2, <1>3, <2>1
<1>4. CASE a = c.event[1]
  <2>1. log'[a] = Append(log[a], c)
    BY <1>4 DEF Deliver, TypeOK
  <2>2. /\ Append(log[a], c) \in Seq(Copies)
        /\ Len(Append(log[a], c)) = Len(log[a]) + 1
        /\ \A i \in 1 .. Len(log[a]) : Append(log[a], c)[i] = log[a][i]
        /\ Append(log[a], c)[Len(log[a]) + 1] = c
    BY <1>1, AppendProperties
  <2>3. DOMAIN Append(log[a], c) = 1 .. (Len(log[a]) + 1)
    BY <2>2, LenProperties
  <2>4. \A i \in DOMAIN log[a] : i \in DOMAIN log'[a] /\ log'[a][i] = log[a][i]
    BY <1>2, <2>1, <2>2, <2>3
  <2> QED
    BY <1>2, <1>4, <2>1, <2>2, <2>3, <2>4
<1> QED
  BY <1>3, <1>4

LEMMA DeliveredStays ==
    ASSUME TypeOK, NEW c \in Copies, Deliver(c), NEW e \in Events, Delivered(e)
    PROVE  Delivered(e)'
<1>1. e[1] \in Aggregates
  BY DEF Events
<1> QED
  BY <1>1, LogAfterDeliver DEF Delivered

LEMMA DeliverStep ==
    ASSUME IndInv, NEW c \in Copies, Deliver(c)
    PROVE  IndInv'
<1>1. TypeOK /\ ConfirmedIsDelivered /\ OneAtATime /\ NoGapBeforeFirstCopy /\ state' = state
  BY DEF IndInv, Deliver
<1>2. TypeOK'
  <2>1. \A a \in Aggregates : log'[a] \in Seq(Copies)
    BY <1>1, LogAfterDeliver
  <2>2. log' \in [Aggregates -> Seq(Copies)]
    BY <1>1, <2>1 DEF Deliver, TypeOK
  <2> QED
    BY <1>1, <2>2 DEF TypeOK
<1>3. ConfirmedIsDelivered'
  BY <1>1, DeliveredStays DEF ConfirmedIsDelivered
<1>4. OneAtATime'
  <2> SUFFICES ASSUME NEW e \in Events, state[e] \in {"confirmed", "failed"}, NEW f \in Earlier(e)
               PROVE  state[f] = "confirmed" /\ Delivered(f)'
    BY <1>1 DEF OneAtATime
  <2>1. f \in Events /\ state[f] = "confirmed" /\ Delivered(f)
    BY <1>1 DEF OneAtATime, Earlier
  <2> QED
    BY <1>1, <2>1, DeliveredStays
<1>5. NoGapBeforeFirstCopy'
  <2> SUFFICES ASSUME NEW a \in Aggregates, NEW i \in DOMAIN log'[a],
                      NEW v \in 1 .. (log'[a][i].event[2] - 1)
               PROVE  \E j \in 1 .. (i - 1) : log'[a][j].event = <<a, v>>
    BY DEF NoGapBeforeFirstCopy
  <2>1. CASE i \in DOMAIN log[a]
    <3>1. log'[a][i] = log[a][i] /\ i \in 1 .. Len(log[a]) /\ Len(log[a]) \in Nat
          /\ DOMAIN log[a] = 1 .. Len(log[a])
      BY <1>1, <2>1, LogAfterDeliver
    <3>2. PICK j \in 1 .. (i - 1) : log[a][j].event = <<a, v>>
      BY <1>1, <2>1, <3>1 DEF NoGapBeforeFirstCopy
    <3>3. j \in DOMAIN log[a]
      BY <3>1
    <3> QED
      BY <1>1, <3>2, <3>3, LogAfterDeliver
  <2>2. CASE i \notin DOMAIN log[a]
    <3>1. /\ a = c.event[1] /\ Len(log[a]) \in Nat /\ i = Len(log[a]) + 1 /\ log'[a][i] = c
          /\ DOMAIN log[a] = 1 .. Len(log[a])
      BY <1>1, <2>2, LogAfterDeliver
    <3>2. <<a, v>> \in Earlier(c.event)
      BY <3>1, CopyParts, DeliveryAssumption DEF Earlier, Events
    <3>3. <<a, v>> \in Events /\ Delivered(<<a, v>>)
      BY <1>1, <3>2 DEF Deliver, Earlier, ConfirmedIsDelivered
    <3>4. PICK j \in DOMAIN log[a] : log[a][j].event = <<a, v>>
      BY <3>3 DEF Delivered
    <3>5. j \in 1 .. (i - 1) /\ log'[a][j] = log[a][j]
      BY <1>1, <3>1, <3>4, LogAfterDeliver
    <3> QED
      BY <3>4, <3>5
  <2> QED
    BY <2>1, <2>2
<1> QED
  BY <1>2, <1>3, <1>4, <1>5 DEF IndInv

(***************************************************************************)
(* The steps that leave the log alone.                                     *)
(***************************************************************************)
LEMMA StateStep ==
    ASSUME IndInv,
           \/ \E e \in Events : Accept(e) \/ Confirm(e) \/ Retry(e)
           \/ \E given \in SUBSET Events : GiveUp(given)
           \/ UNCHANGED vars
    PROVE  IndInv'
<1>1. TypeOK /\ ConfirmedIsDelivered /\ OneAtATime /\ NoGapBeforeFirstCopy /\ log' = log
  BY DEF IndInv, Accept, Confirm, Retry, GiveUp, vars
<1>2. TypeOK'
  BY <1>1 DEF TypeOK, Accept, Confirm, Retry, GiveUp, vars
<1>3. NoGapBeforeFirstCopy'
  BY <1>1 DEF NoGapBeforeFirstCopy
<1>4. \A e \in Events : Delivered(e)' <=> Delivered(e)
  BY <1>1 DEF Delivered
<1>5. ConfirmedIsDelivered'
  <2> SUFFICES ASSUME NEW e \in Events, state'[e] = "confirmed"
               PROVE  Delivered(e)
    BY <1>4 DEF ConfirmedIsDelivered
  <2>1. state[e] = "confirmed" \/ Delivered(e)
    BY <1>1 DEF TypeOK, Accept, Confirm, Retry, GiveUp, vars
  <2> QED
    BY <1>1, <2>1 DEF ConfirmedIsDelivered
<1>6. OneAtATime'
  <2> SUFFICES ASSUME NEW e \in Events, state'[e] \in {"confirmed", "failed"}, NEW f \in Earlier(e)
               PROVE  state'[f] = "confirmed" /\ Delivered(f)
    BY <1>4 DEF OneAtATime, Earlier
  <2>1. f \in Events
    BY DEF Earlier
  <2>2. state[f] = "confirmed"
    <3>1. state[e] \in {"confirmed", "failed"} \/ \A g \in Earlier(e) : state[g] = "confirmed"
      BY <1>1 DEF TypeOK, Accept, Confirm, Retry, GiveUp, vars
    <3> QED
      BY <1>1, <3>1 DEF OneAtATime
  <2>3. state'[f] = "confirmed"
    BY <1>1, <2>1, <2>2 DEF TypeOK, Accept, Confirm, Retry, GiveUp, vars
  <2> QED
    BY <1>1, <2>1, <2>2, <2>3 DEF ConfirmedIsDelivered
<1> QED
  BY <1>2, <1>3, <1>5, <1>6 DEF IndInv

LEMMA Inductive == Spec => []IndInv
<1>1. Init => IndInv
  <2> SUFFICES ASSUME Init PROVE IndInv
    OBVIOUS
  <2>1. TypeOK
    BY DEF Init, TypeOK
  <2>2. ConfirmedIsDelivered /\ OneAtATime
    BY DEF Init, ConfirmedIsDelivered, OneAtATime
  <2>3. NoGapBeforeFirstCopy
    BY DEF Init, NoGapBeforeFirstCopy
  <2> QED
    BY <2>1, <2>2, <2>3 DEF IndInv
<1>2. IndInv /\ [Next]_vars => IndInv'
  BY StateStep, DeliverStep DEF Next
<1> QED
  BY <1>1, <1>2, PTL DEF Spec

(***************************************************************************)
(* A reader that ignores the events it has seen reads the versions of an   *)
(* aggregate from 1 on, in order and without a gap.                        *)
(***************************************************************************)
THEOREM ReadersSeeNoGap == Spec => []NoGapBeforeFirstCopy
<1>1. IndInv => NoGapBeforeFirstCopy
  BY DEF IndInv
<1> QED
  BY <1>1, Inductive, PTL

(***************************************************************************)
(* Events are confirmed or given up one after the other.                   *)
(***************************************************************************)
THEOREM WritersSeeOrder == Spec => []OneAtATime
<1>1. IndInv => OneAtATime
  BY DEF IndInv
<1> QED
  BY <1>1, Inductive, PTL

-----------------------------------------------------------------------------
(* The composition.                                                       *)

GroupProofs == INSTANCE OrderActivityProofs WITH
    log <- topic,
    Messages <- Records,
    PartitionOf <- [m \in Records |-> PartitionOf[Key(m)]],
    Kind <- [m \in Records |-> RecordKind(m)]

-----------------------------------------------------------------------------
(* The two parts.                                                          *)

LEMMA KeyOfRecord ==
    ASSUME NEW m \in Records
    PROVE  /\ Key(m) \in Aggregates \cup Foreign
           /\ PartitionOf[Key(m)] \in Partitions
           /\ RecordKind(m) \in {"created", "other", "poison"}
BY FlowAssumption DEF Records, Key, Events, RecordKind

\* The consumer group may assume of the records what it assumes of messages.
LEMMA GroupAssumption == GroupProofs!OrderActivityAssumption
BY KeyOfRecord, FlowAssumption DEF GroupProofs!OrderActivityAssumption

LEMMA ChannelStep == [FlowNext]_flow => [Next]_vars
BY DEF FlowNext, flow, vars, Next, Publish, Bookkeeping, Others, Operator, Consumer

(***************************************************************************)
(* The two instances of OrderActivity, of the model and of its proofs, are *)
(* the same specification.                                                 *)
(***************************************************************************)
LEMMA SameInit == Group!Init => GroupProofs!Init
BY DEF Group!Init, GroupProofs!Init

LEMMA SameProduce == \A m : Group!Produce(m) => GroupProofs!Produce(m)
BY DEF Group!Produce, GroupProofs!Produce, Group!group, Group!client, GroupProofs!group,
       GroupProofs!client

LEMMA SameSkip == \A p : Group!OperatorSkips(p) => GroupProofs!OperatorSkips(p)
BY DEF Group!OperatorSkips, GroupProofs!OperatorSkips, Group!group, Group!client,
       GroupProofs!group, GroupProofs!client

LEMMA SameMembers ==
    ASSUME NEW c
    PROVE  /\ Group!Start(c) => GroupProofs!Start(c)
           /\ Group!Stop(c) => GroupProofs!Stop(c)
           /\ \A p : Group!Assign(c, p) => GroupProofs!Assign(c, p)
           /\ \A p : Group!Revoke(c, p) => GroupProofs!Revoke(c, p)
           /\ \A p : Group!Deliver(c, p) => GroupProofs!Deliver(c, p)
BY DEF Group!Start, Group!Stop, Group!Assign, Group!Revoke, Group!Deliver, Group!Owns,
       Group!group, Group!client, Group!topic, GroupProofs!Start, GroupProofs!Stop,
       GroupProofs!Assign, GroupProofs!Revoke, GroupProofs!Deliver, GroupProofs!Owns,
       GroupProofs!group, GroupProofs!client, GroupProofs!topic

LEMMA SameProject ==
    ASSUME NEW c, NEW h
    PROVE  /\ Group!Project(c, h) => GroupProofs!Project(c, h)
           /\ Group!Rejects(c, h) => GroupProofs!Rejects(c, h)
           /\ Group!InsertThrows(c, h) => GroupProofs!InsertThrows(c, h)
BY DEF Group!Project, Group!Rejects, Group!InsertThrows, Group!Projecting, Group!Message,
       Group!Inserted, Group!Fails, Group!SeekBack, Group!group, Group!topic,
       GroupProofs!Project, GroupProofs!Rejects, GroupProofs!InsertThrows,
       GroupProofs!Projecting, GroupProofs!Message, GroupProofs!Inserted, GroupProofs!Fails,
       GroupProofs!SeekBack, GroupProofs!group, GroupProofs!topic

LEMMA SameCommit ==
    ASSUME NEW c, NEW h
    PROVE  /\ Group!CommitOffset(c, h) => GroupProofs!CommitOffset(c, h)
           /\ Group!CommitRefused(c, h) => GroupProofs!CommitRefused(c, h)
           /\ Group!CommitThrows(c, h) => GroupProofs!CommitThrows(c, h)
BY DEF Group!CommitOffset, Group!CommitRefused, Group!CommitThrows, Group!Committing,
       Group!Acknowledge, Group!SeekBack, Group!group, Group!topic,
       GroupProofs!CommitOffset, GroupProofs!CommitRefused, GroupProofs!CommitThrows,
       GroupProofs!Committing, GroupProofs!Acknowledge, GroupProofs!SeekBack,
       GroupProofs!group, GroupProofs!topic

LEMMA GroupStep == [FlowNext]_flow => [GroupProofs!Next]_(GroupProofs!vars)
<1> SUFFICES ASSUME [FlowNext]_flow PROVE [GroupProofs!Next]_(GroupProofs!vars)
  OBVIOUS
<1>1. ASSUME NEW c \in Copies, Publish(c) PROVE GroupProofs!Next
  <2>1. c.event \in Records /\ Group!Produce(c.event)
    BY <1>1 DEF Publish, Copies, Records
  <2> QED
    BY <2>1, SameProduce DEF GroupProofs!Next
<1>2. ASSUME NEW m \in Foreign, Group!Produce(m) PROVE GroupProofs!Next
  BY <1>2, SameProduce DEF Records, GroupProofs!Next
<1>3. CASE Operator
  BY <1>3, SameSkip DEF Operator, GroupProofs!Next
<1>4. ASSUME NEW c \in Consumers, Consumer(c) PROVE GroupProofs!Next
  <2>1. CASE Group!Start(c) \/ Group!Stop(c)
    BY <2>1, SameMembers DEF GroupProofs!Next
  <2>2. CASE \E p \in Partitions : Group!Assign(c, p) \/ Group!Revoke(c, p) \/ Group!Deliver(c, p)
    BY <2>2, SameMembers DEF GroupProofs!Next
  <2>3. ASSUME NEW h \in handler[c], Group!ProcessMessage(c, h) \/ Group!CallFails(c, h)
        PROVE  GroupProofs!Next
    <3>1. GroupProofs!ProcessMessage(c, h) \/ GroupProofs!CallFails(c, h)
      BY <2>3, SameProject, SameCommit
         DEF Group!ProcessMessage, Group!CallFails, GroupProofs!ProcessMessage, GroupProofs!CallFails
    <3> QED
      BY <3>1 DEF GroupProofs!Next
  <2> QED
    BY <1>4, <2>1, <2>2, <2>3 DEF Consumer
<1>5. CASE UNCHANGED group
  BY <1>5 DEF group, GroupProofs!vars, GroupProofs!topic, GroupProofs!group, GroupProofs!client
<1> QED
  BY <1>1, <1>2, <1>3, <1>4, <1>5 DEF FlowNext, Others, Bookkeeping, flow

(***************************************************************************)
(* The composition implements the channel that OutboxRelay implements.     *)
(***************************************************************************)
THEOREM FlowIsChannel == FlowSpec => Spec
BY ChannelStep, PTL DEF FlowSpec, FlowInit, Spec

(***************************************************************************)
(* The composition is a behaviour of the consumer group: what the relay    *)
(* writes are records that OrderActivity has reckoned with.                *)
(***************************************************************************)
LEMMA FlowIsGroup == FlowSpec => GroupProofs!Spec
BY SameInit, GroupStep, PTL DEF FlowSpec, FlowInit, GroupProofs!Spec

LEMMA GroupHolds == FlowSpec => []GroupProofs!IndInv
BY FlowIsGroup, GroupAssumption, GroupProofs!Inductive, PTL

-----------------------------------------------------------------------------
(* What couples them: log of the channel and topic of the group.           *)

TopicTyped == topic \in [Partitions -> Seq(Records)]

CopiesAreRecords ==
    \A a \in Aggregates : \A i \in DOMAIN log[a] :
        \E k \in DOMAIN topic[PartitionOf[a]] : topic[PartitionOf[a]][k] = log[a][i].event

CreationBefore(p, i) ==
    \/ topic[p][i] \in Foreign
    \/ \E j \in 1 .. i : topic[p][j] = <<topic[p][i][1], 1>>

CreationsComeFirst == \A p \in Partitions : \A i \in DOMAIN topic[p] : CreationBefore(p, i)

Coupling == TopicTyped /\ CopiesAreRecords /\ CreationsComeFirst

(***************************************************************************)
(* A record is appended to the partition of its key.                       *)
(***************************************************************************)
LEMMA Appended ==
    ASSUME TopicTyped, NEW m \in Records, Group!Produce(m), NEW p \in Partitions
    PROVE  /\ topic'[p] \in Seq(Records)
           /\ DOMAIN topic[p] = 1 .. Len(topic[p]) /\ Len(topic[p]) \in Nat
           /\ \A i \in DOMAIN topic[p] :
                 i \in DOMAIN topic'[p] /\ topic'[p][i] = topic[p][i] /\ topic[p][i] \in Records
           /\ p # PartitionOf[Key(m)] => topic'[p] = topic[p]
           /\ p = PartitionOf[Key(m)] =>
                 /\ DOMAIN topic'[p] = 1 .. (Len(topic[p]) + 1)
                 /\ topic'[p][Len(topic[p]) + 1] = m
<1>1. topic' = [topic EXCEPT ![PartitionOf[Key(m)]] = Append(@, m)]
  BY DEF Group!Produce
<1>2. topic[p] \in Seq(Records)
  BY DEF TopicTyped
<1>3. /\ DOMAIN topic[p] = 1 .. Len(topic[p]) /\ Len(topic[p]) \in Nat
      /\ \A i \in DOMAIN topic[p] : topic[p][i] \in Records
  BY <1>2, LenProperties
<1>4. CASE p # PartitionOf[Key(m)]
  <2>1. topic'[p] = topic[p]
    BY <1>1, <1>4 DEF TopicTyped
  <2> QED
    BY <1>2, <1>3, <1>4, <2>1
<1>5. CASE p = PartitionOf[Key(m)]
  <2>1. topic'[p] = Append(topic[p], m)
    BY <1>1, <1>5 DEF TopicTyped
  <2>2. /\ Append(topic[p], m) \in Seq(Records)
        /\ Len(Append(topic[p], m)) = Len(topic[p]) + 1
        /\ \A i \in 1 .. Len(topic[p]) : Append(topic[p], m)[i] = topic[p][i]
        /\ Append(topic[p], m)[Len(topic[p]) + 1] = m
    BY <1>2, AppendProperties
  <2>3. DOMAIN Append(topic[p], m) = 1 .. (Len(topic[p]) + 1)
    BY <2>2, LenProperties
  <2>4. \A i \in DOMAIN topic[p] : i \in DOMAIN topic'[p] /\ topic'[p][i] = topic[p][i]
    BY <1>3, <2>1, <2>2, <2>3
  <2> QED
    BY <1>3, <1>5, <2>1, <2>2, <2>3, <2>4
<1> QED
  BY <1>4, <1>5

LEMMA TopicStaysTyped ==
    ASSUME TopicTyped, NEW m \in Records, Group!Produce(m)
    PROVE  TopicTyped'
<1>1. topic' = [topic EXCEPT ![PartitionOf[Key(m)]] = Append(@, m)]
  BY DEF Group!Produce
<1>2. DOMAIN topic' = Partitions /\ \A p \in Partitions : topic'[p] \in Seq(Records)
  BY <1>1, Appended DEF TopicTyped
<1>3. topic' = [p \in Partitions |-> topic'[p]]
  BY <1>1 DEF TopicTyped
<1> QED
  BY <1>2, <1>3 DEF TopicTyped

\* Records of the channel stay where they are.
LEMMA CreationStays ==
    ASSUME TopicTyped, NEW m \in Records, Group!Produce(m), NEW p \in Partitions,
           NEW i \in DOMAIN topic[p], CreationBefore(p, i)
    PROVE  CreationBefore(p, i)'
<1>1. DOMAIN topic[p] = 1 .. Len(topic[p]) /\ Len(topic[p]) \in Nat
  BY Appended
<1>2. \A j \in 1 .. i : j \in DOMAIN topic[p] /\ topic'[p][j] = topic[p][j]
  BY <1>1, Appended
<1>3. topic'[p][i] = topic[p][i]
  BY Appended
<1> QED
  BY <1>2, <1>3 DEF CreationBefore

(***************************************************************************)
(* Only a new record can be without the creation of its order.             *)
(***************************************************************************)
LEMMA CreationsStep ==
    ASSUME Coupling, NEW m \in Records, Group!Produce(m),
           \/ m \in Foreign
           \/ m[2] = 1 /\ m = <<m[1], m[2]>>
           \/ \E k \in DOMAIN topic[PartitionOf[Key(m)]] :
                 topic[PartitionOf[Key(m)]][k] = <<m[1], 1>>
    PROVE  CreationsComeFirst'
<1> SUFFICES ASSUME NEW p \in Partitions, NEW i \in DOMAIN topic'[p] PROVE CreationBefore(p, i)'
  BY DEF CreationsComeFirst
<1> DEFINE n == Len(topic[p]) + 1
<1>1. n \in Nat /\ DOMAIN topic[p] = 1 .. (n - 1) /\ n - 1 \in Nat
  BY Appended DEF Coupling
<1>2. CASE i \in DOMAIN topic[p]
  BY <1>2, CreationStays DEF Coupling, CreationsComeFirst
<1>3. CASE i \notin DOMAIN topic[p]
  <2>1. p = PartitionOf[Key(m)]
    BY <1>3, Appended DEF Coupling
  <2>2. DOMAIN topic'[p] = 1 .. n /\ topic'[p][n] = m
    BY <2>1, Appended DEF Coupling
  <2>3. i = n
    <3> HIDE DEF n
    <3> QED
      BY <1>1, <1>3, <2>2
  <2>4. CASE m \in Foreign
    BY <2>2, <2>3, <2>4 DEF CreationBefore
  <2>5. CASE m[2] = 1 /\ m = <<m[1], m[2]>>
    <3>1. n \in 1 .. n
      BY <1>1
    <3> QED
      BY <2>2, <2>3, <2>5, <3>1 DEF CreationBefore
  <2>6. CASE \E k \in DOMAIN topic[p] : topic[p][k] = <<m[1], 1>>
    <3>1. PICK k \in DOMAIN topic[p] : topic[p][k] = <<m[1], 1>>
      BY <2>6
    <3>2. topic'[p][k] = <<m[1], 1>>
      BY <3>1, Appended DEF Coupling
    <3>3. k \in 1 .. n
      <4> HIDE DEF n
      <4> QED
        BY <1>1
    <3> QED
      BY <2>2, <2>3, <3>2, <3>3 DEF CreationBefore
  <2> QED
    BY <2>1, <2>4, <2>5, <2>6
<1> QED
  BY <1>2, <1>3

\* What was in the topic is in it.
LEMMA RecordStays ==
    ASSUME TopicTyped, NEW m \in Records, Group!Produce(m), NEW a \in Aggregates, NEW e,
           \E k \in DOMAIN topic[PartitionOf[a]] : topic[PartitionOf[a]][k] = e
    PROVE  \E k \in DOMAIN topic'[PartitionOf[a]] : topic'[PartitionOf[a]][k] = e
<1>1. PartitionOf[a] \in Partitions
  BY FlowAssumption
<1> QED
  BY <1>1, Appended

LEMMA EventIsRecord ==
    ASSUME NEW e \in Events
    PROVE  e \in Records /\ e \notin Foreign /\ Key(e) = e[1]
BY FlowAssumption DEF Records, Key

(***************************************************************************)
(* A copy gets into the log and into the topic in one step.                *)
(***************************************************************************)
LEMMA CopiesStep ==
    ASSUME IndInv, Coupling, NEW c \in Copies, Publish(c)
    PROVE  CopiesAreRecords'
<1> SUFFICES ASSUME NEW a \in Aggregates, NEW i \in DOMAIN log'[a]
             PROVE  \E k \in DOMAIN topic'[PartitionOf[a]] :
                       topic'[PartitionOf[a]][k] = log'[a][i].event
  BY DEF CopiesAreRecords
<1>1. Deliver(c) /\ Group!Produce(c.event)
  BY DEF Publish
<1>2. /\ c.event \in Records /\ c.event \notin Foreign /\ Key(c.event) = c.event[1]
      /\ c.event[1] \in Aggregates
  BY CopyParts, EventIsRecord
<1>3. CASE i \in DOMAIN log[a]
  <2>1. log'[a][i] = log[a][i]
    BY <1>1, <1>3, LogAfterDeliver DEF IndInv
  <2>2. \E k \in DOMAIN topic[PartitionOf[a]] : topic[PartitionOf[a]][k] = log[a][i].event
    BY <1>3 DEF Coupling, CopiesAreRecords
  <2> QED
    BY <1>1, <1>2, <2>1, <2>2, RecordStays DEF Coupling
<1>4. CASE i \notin DOMAIN log[a]
  <2>1. a = c.event[1] /\ log'[a][i] = c
    <3>1. a = c.event[1]
      BY <1>1, <1>4, LogAfterDeliver DEF IndInv
    <3>2. /\ DOMAIN log[a] = 1 .. Len(log[a]) /\ Len(log[a]) \in Nat
          /\ DOMAIN log'[a] = 1 .. (Len(log[a]) + 1) /\ log'[a][Len(log[a]) + 1] = c
      BY <1>1, <3>1, LogAfterDeliver DEF IndInv
    <3> QED
      BY <1>4, <3>1, <3>2
  <2>2. PartitionOf[a] \in Partitions
    BY FlowAssumption
  <2> DEFINE n == Len(topic[PartitionOf[a]]) + 1
  <2>3. /\ n \in Nat /\ n >= 1 /\ DOMAIN topic'[PartitionOf[a]] = 1 .. n
        /\ topic'[PartitionOf[a]][n] = c.event
    BY <1>1, <1>2, <2>1, <2>2, Appended DEF Coupling
  <2>4. n \in 1 .. n
    <3> HIDE DEF n
    <3> QED
      BY <2>3
  <2> QED
    BY <2>1, <2>3, <2>4
<1> QED
  BY <1>3, <1>4

(***************************************************************************)
(* The events before a delivered one are confirmed, so their copies are in *)
(* the log and, by CopiesAreRecords, in the topic.                         *)
(***************************************************************************)
LEMMA PublishCouples ==
    ASSUME IndInv, Coupling, NEW c \in Copies, Publish(c)
    PROVE  Coupling'
<1> DEFINE e == c.event
<1>1. Deliver(c) /\ Group!Produce(e)
  BY DEF Publish
<1>2. /\ e \in Events /\ e[1] \in Aggregates /\ e[2] \in 1 .. MaxVersion
      /\ e = <<e[1], e[2]>>
      /\ e \in Records /\ Key(e) = e[1]
  BY CopyParts, EventIsRecord
<1>3. ASSUME e[2] = 1 PROVE CreationsComeFirst'
  BY <1>1, <1>2, <1>3, CreationsStep
<1>4. ASSUME e[2] # 1 PROVE CreationsComeFirst'
  <2> DEFINE first == <<e[1], 1>>
  <2>1. first \in Events /\ first \in Earlier(e)
    BY <1>2, <1>4, DeliveryAssumption DEF Events, Earlier
  <2>2. Delivered(first)
    BY <1>1, <2>1 DEF Deliver, IndInv, ConfirmedIsDelivered
  <2>3. PICK i \in DOMAIN log[e[1]] : log[e[1]][i].event = first
    BY <2>2 DEF Delivered
  <2>4. \E k \in DOMAIN topic[PartitionOf[e[1]]] : topic[PartitionOf[e[1]]][k] = first
    BY <1>2, <2>3 DEF Coupling, CopiesAreRecords
  <2> QED
    BY <1>1, <1>2, <2>4, CreationsStep
<1>5. TopicTyped'
  BY <1>1, <1>2, TopicStaysTyped DEF Coupling
<1>6. CopiesAreRecords'
  BY CopiesStep
<1> QED
  BY <1>2, <1>3, <1>4, <1>5, <1>6 DEF Coupling

LEMMA ForeignCouples ==
    ASSUME Coupling, NEW m \in Foreign, Group!Produce(m), UNCHANGED vars
    PROVE  Coupling'
<1>1. m \in Records /\ log' = log
  BY DEF Records, vars
<1>2. CreationsComeFirst'
  BY <1>1, CreationsStep
<1>3. TopicTyped'
  BY <1>1, TopicStaysTyped DEF Coupling
<1>4. CopiesAreRecords'
  BY <1>1, RecordStays DEF Coupling, CopiesAreRecords
<1> QED
  BY <1>2, <1>3, <1>4 DEF Coupling

LEMMA CouplingStep == IndInv /\ Coupling /\ [FlowNext]_flow => Coupling'
<1> SUFFICES ASSUME IndInv, Coupling, [FlowNext]_flow PROVE Coupling'
  OBVIOUS
<1>1. CASE UNCHANGED <<log, topic>>
  BY <1>1 DEF Coupling, TopicTyped, CopiesAreRecords, CreationsComeFirst, CreationBefore
<1>2. CASE \E c \in Copies : Publish(c)
  BY <1>2, PublishCouples
<1>3. CASE Others
  BY <1>3, ForeignCouples DEF Others
<1>4. CASE Bookkeeping
  BY <1>1, <1>4 DEF Bookkeeping, group, Accept, Confirm, Retry, GiveUp
<1>5. CASE Operator
  BY <1>1, <1>5 DEF Operator, vars, Group!OperatorSkips
<1>6. ASSUME NEW c \in Consumers, Consumer(c) PROVE Coupling'
  <2>1. topic' = topic
    BY <1>6 DEF Consumer, Group!Start, Group!Stop, Group!Assign, Group!Revoke, Group!Deliver,
         Group!ProcessMessage, Group!CallFails, Group!Project, Group!Rejects,
         Group!InsertThrows, Group!CommitOffset, Group!CommitRefused, Group!CommitThrows,
         Group!topic
  <2> QED
    BY <1>1, <1>6, <2>1 DEF Consumer, vars
<1> QED
  BY <1>1, <1>2, <1>3, <1>4, <1>5, <1>6 DEF FlowNext, flow, vars, group

LEMMA CouplingInit == FlowInit => Coupling
<1> SUFFICES ASSUME FlowInit PROVE Coupling
  OBVIOUS
<1>1. topic = [p \in Partitions |-> <<>>] /\ log = [a \in Aggregates |-> <<>>]
  BY DEF FlowInit, Init, Group!Init
<1>2. TopicTyped
  BY <1>1 DEF TopicTyped
<1>3. CopiesAreRecords /\ CreationsComeFirst
  BY <1>1 DEF CopiesAreRecords, CreationsComeFirst
<1> QED
  BY <1>2, <1>3 DEF Coupling

LEMMA CouplingHolds == FlowSpec => []Coupling
<1>1. FlowSpec => []IndInv
  BY FlowIsChannel, Inductive, PTL
<1> QED
  BY <1>1, CouplingInit, CouplingStep, PTL DEF FlowSpec

-----------------------------------------------------------------------------
LEMMA CreationSettled ==
    ASSUME Coupling, NEW p \in Partitions, NEW i \in DOMAIN topic[p], topic[p][i] \notin Foreign,
           NEW n \in {i - 1, i}, GroupProofs!SettledBelow(p, n),
           n = i \/ topic[p][i][2] # 1
    PROVE  CreationKnown(p, i)
<1>1. topic[p] \in Seq(Records)
  BY DEF Coupling, TopicTyped
<1>2. DOMAIN topic[p] = 1 .. Len(topic[p]) /\ Len(topic[p]) \in Nat /\ i \in Nat
  BY <1>1, LenProperties
<1>3. PICK j \in 1 .. i : topic[p][j] = <<topic[p][i][1], 1>>
  BY DEF Coupling, CreationsComeFirst, CreationBefore
<1>4. j \in 1 .. n
  BY <1>2, <1>3
<1>5. j \in DOMAIN topic[p]
  BY <1>2
<1>6. GroupProofs!Settled(p, j)
  BY <1>4 DEF GroupProofs!SettledBelow
<1>7. topic[p][j] \in Records
  BY <1>1, <1>2, <1>5, ElementOfSeq
<1>8. RecordKind(topic[p][j]) \in {"poison", "created"}
  BY <1>3 DEF RecordKind
<1> QED
  BY <1>3, <1>6, <1>7, <1>8 DEF GroupProofs!Settled, CreationKnown

(***************************************************************************)
(* The consumer group settles nothing of an order, and has nothing later   *)
(* of it in hand, before the creation of the order is projected (or        *)
(* skipped by the operator).                                               *)
(***************************************************************************)
THEOREM CreationFirst == FlowSpec => []CreationIsKnownFirst
<1>1. Coupling /\ GroupProofs!IndInv => CreationIsKnownFirst
  <2> SUFFICES ASSUME Coupling, GroupProofs!IndInv PROVE CreationIsKnownFirst
    OBVIOUS
  <2>1. GroupProofs!TypeOK /\ GroupProofs!CommittedIsProjected /\ GroupProofs!HandlersAreSettled
    BY DEF GroupProofs!IndInv
  <2>2. ASSUME NEW p \in Partitions, NEW i \in 1 .. committed[p] PROVE CreationKnown(p, i)
    <3>1. topic[p] \in Seq(Records) /\ committed[p] \in Nat /\ committed[p] <= Len(topic[p])
      BY <2>1 DEF Coupling, TopicTyped, GroupProofs!TypeOK
    <3>2. i \in DOMAIN topic[p] /\ i \in Nat
      BY <3>1, LenProperties
    <3>3. GroupProofs!SettledBelow(p, i)
      BY <2>1, <3>1, <3>2 DEF GroupProofs!CommittedIsProjected, GroupProofs!SettledBelow
    <3>4. CASE topic[p][i] \in Foreign
      BY <3>4 DEF CreationKnown
    <3>5. CASE topic[p][i] \notin Foreign
      BY <3>2, <3>3, <3>5, CreationSettled
    <3> QED
      BY <3>4, <3>5
  <2>3. ASSUME NEW c \in Consumers, NEW h \in handler[c],
               Group!Message(h) \notin Foreign, Group!Message(h)[2] # 1
        PROVE  CreationKnown(h.partition, h.offset + 1)
    <3>1. h.partition \in Partitions /\ h.offset \in Nat /\ h.offset < Len(topic[h.partition])
      BY <2>1 DEF GroupProofs!TypeOK, GroupProofs!Handlers
    <3>2. topic[h.partition] \in Seq(Records)
      BY <3>1 DEF Coupling, TopicTyped
    <3>3. h.offset + 1 \in DOMAIN topic[h.partition] /\ h.offset = (h.offset + 1) - 1
      BY <3>1, <3>2, LenProperties
    <3>4. GroupProofs!SettledBelow(h.partition, h.offset)
      BY <2>1 DEF GroupProofs!HandlersAreSettled
    <3>5. /\ topic[h.partition][h.offset + 1] \notin Foreign
          /\ topic[h.partition][h.offset + 1][2] # 1
      BY <2>3 DEF Group!Message
    <3> QED
      BY <3>1, <3>3, <3>4, <3>5, CreationSettled
  <2> QED
    BY <2>2, <2>3 DEF CreationIsKnownFirst
<1> QED
  BY <1>1, CouplingHolds, GroupHolds, PTL

=============================================================================
