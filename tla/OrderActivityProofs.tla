------------------------- MODULE OrderActivityProofs -------------------------
(***************************************************************************)
(* Proofs about the order-activity consumer group, for any partitions,     *)
(* consumers, messages and bound of the log.                               *)
(*                                                                         *)
(* The argument: a consumer is given the records of a partition in order,  *)
(* and begins at an offset below which everything is settled; so does its  *)
(* handler (HandlersAreSettled), and what it was given before the record   *)
(* in its hands is settled too (PositionsAreSettled).  "Settled" is never  *)
(* undone, which makes it true of offsets that are committed late.         *)
(***************************************************************************)
EXTENDS OrderActivity, TLAPS

(***************************************************************************)
(* What every step does to the log: it appends at most, to the partition   *)
(* of the message.                                                         *)
(***************************************************************************)
LEMMA Appending ==
    ASSUME TypeOK, [Next]_vars, NEW p \in Partitions
    PROVE  \/ log'[p] = log[p]
           \/ \E m \in Messages : PartitionOf[m] = p /\ log'[p] = Append(log[p], m)
BY OrderActivityAssumption
   DEF TypeOK, Next, vars, topic, group, client, Produce, OperatorSkips, Start, Stop, Assign,
       Revoke, Deliver, ProcessMessage, CallFails, Project, Rejects, InsertThrows,
       CommitOffset, CommitRefused, CommitThrows

(***************************************************************************)
(* No row of the table and no decision of the operator is undone.          *)
(***************************************************************************)
LEMMA Growing ==
    ASSUME TypeOK, [Next]_vars
    PROVE  activity \subseteq activity' /\ skipped \subseteq skipped'
BY DEF TypeOK, Next, vars, topic, group, client, Produce, OperatorSkips, Start, Stop, Assign,
       Revoke, Deliver, ProcessMessage, CallFails, Project, Rejects, InsertThrows,
       CommitOffset, CommitRefused, CommitThrows

(***************************************************************************)
(* The records of a log stay where they are.                               *)
(***************************************************************************)
LEMMA RecordsStay ==
    ASSUME TypeOK, [Next]_vars, NEW p \in Partitions
    PROVE  /\ Len(log[p]) <= Len(log'[p])
           /\ \A i \in 1 .. Len(log[p]) : log'[p][i] = log[p][i]
<1>1. log[p] \in Seq(Messages)
  BY DEF TypeOK
<1>2. CASE log'[p] = log[p]
  BY <1>1, <1>2
<1>3. CASE \E m \in Messages : log'[p] = Append(log[p], m)
  BY <1>1, <1>3
<1>4. QED
  BY <1>2, <1>3, Appending

(***************************************************************************)
(* What is settled stays settled.                                          *)
(***************************************************************************)
LEMMA SettledStays ==
    ASSUME TypeOK, [Next]_vars, NEW p \in Partitions, NEW n \in Nat, n <= Len(log[p]),
           SettledBelow(p, n)
    PROVE  SettledBelow(p, n)'
<1>1. SUFFICES ASSUME NEW i \in 1 .. n PROVE Settled(p, i)'
  BY DEF SettledBelow
<1>2. Settled(p, i) /\ log'[p][i] = log[p][i]
  <2>1. Len(log[p]) \in Nat
    BY DEF TypeOK
  <2>2. i \in 1 .. Len(log[p])
    BY <2>1
  <2>3. QED
    BY <2>2, RecordsStay DEF SettledBelow
<1>3. QED
  BY <1>2, Growing DEF Settled

-----------------------------------------------------------------------------
(* Type correctness.                                                       *)

LEMMA InitTyped == Init => TypeOK
BY DEF Init, TypeOK

\* The part of TypeOK that is about what the consumers have in memory.
ClientTyped ==
    /\ position \in [Consumers -> [Partitions -> Nat]]
    /\ \A c \in Consumers, p \in Partitions : position[c][p] <= Len(log[p])
    /\ handler \in [Consumers -> SUBSET Handlers]
    /\ \A c \in Consumers : \A h \in handler[c] : h.offset < Len(log[h.partition])

LEMMA HandlerTyped ==
    ASSUME TypeOK, NEW c \in Consumers, NEW h \in handler[c]
    PROVE  /\ h \in Handlers
           /\ h.partition \in Partitions
           /\ h.offset \in Nat
           /\ Len(log[h.partition]) \in Nat
           /\ h.offset < Len(log[h.partition])
           /\ Message(h) \in Messages
<1>1. h \in Handlers /\ h.offset < Len(log[h.partition])
  BY DEF TypeOK
<1>2. h.partition \in Partitions /\ h.offset \in Nat
  BY <1>1 DEF Handlers
<1>3. log[h.partition] \in Seq(Messages)
  BY <1>2 DEF TypeOK
<1>4. Len(log[h.partition]) \in Nat
  BY <1>3
<1>5. h.offset + 1 \in 1 .. Len(log[h.partition])
  BY <1>1, <1>2, <1>4
<1>6. log[h.partition][h.offset + 1] \in Messages
  BY <1>3, <1>5
<1>7. QED
  BY <1>1, <1>2, <1>4, <1>6 DEF Message

LEMMA SeekBackTyped ==
    ASSUME TypeOK, NEW c \in Consumers, NEW h \in handler[c], SeekBack(c, h), UNCHANGED log
    PROVE  ClientTyped'
<1>1. h.partition \in Partitions /\ h.offset \in Nat /\ h.offset < Len(log[h.partition])
  BY HandlerTyped
<1>2. position' \in [Consumers -> [Partitions -> Nat]]
  BY <1>1 DEF TypeOK, SeekBack
<1>3. \A d \in Consumers, p \in Partitions :
          \/ position'[d][p] = position[d][p]
          \/ p = h.partition /\ position'[d][p] = h.offset
  BY <1>1 DEF TypeOK, SeekBack
<1>4. ASSUME NEW d \in Consumers, NEW p \in Partitions PROVE position'[d][p] <= Len(log'[p])
  <2>1. position[d][p] <= Len(log[p])
    BY DEF TypeOK
  <2>2. h.offset <= Len(log[h.partition])
    BY HandlerTyped
  <2>3. QED
    BY <1>3, <2>1, <2>2
<1>5. handler' \in [Consumers -> SUBSET Handlers]
  BY DEF TypeOK, SeekBack
<1>6. ASSUME NEW d \in Consumers, NEW g \in handler'[d]
      PROVE  g.offset < Len(log'[g.partition])
  <2>1. g \in handler[d]
    BY DEF TypeOK, SeekBack
  <2>2. QED
    BY <2>1, HandlerTyped
<1>7. QED
  BY <1>2, <1>4, <1>5, <1>6 DEF ClientTyped

(***************************************************************************)
(* The handler of one consumer is emptied or replaced by one that is       *)
(* typed.                                                                  *)
(***************************************************************************)
LEMMA HandlerReplaced ==
    ASSUME TypeOK, NEW c \in Consumers, NEW G \in SUBSET Handlers,
           \A g \in G : g.offset < Len(log[g.partition]),
           handler' = [handler EXCEPT ![c] = G], UNCHANGED log
    PROVE  /\ handler' \in [Consumers -> SUBSET Handlers]
           /\ \A d \in Consumers : \A g \in handler'[d] : g.offset < Len(log'[g.partition])
<1>1. handler' \in [Consumers -> SUBSET Handlers]
  BY DEF TypeOK
<1>2. ASSUME NEW d \in Consumers, NEW g \in handler'[d] PROVE g.offset < Len(log'[g.partition])
  <2>1. g \in handler[d] \/ g \in G
    BY DEF TypeOK
  <2>2. QED
    BY <2>1, HandlerTyped
<1>3. QED
  BY <1>1, <1>2

LEMMA NextTyped == TypeOK /\ [Next]_vars => TypeOK'
<1> SUFFICES ASSUME TypeOK, [Next]_vars PROVE TypeOK'
  OBVIOUS
<1>a. ASSUME NEW p \in Partitions
      PROVE  log'[p] \in Seq(Messages) /\ Len(log[p]) \in Nat /\ Len(log'[p]) \in Nat
                /\ Len(log[p]) <= Len(log'[p])
  <2>1. log[p] \in Seq(Messages)
    BY DEF TypeOK
  <2>2. log'[p] \in Seq(Messages)
    <3>1. CASE log'[p] = log[p]
      BY <2>1, <3>1
    <3>2. CASE \E m \in Messages : log'[p] = Append(log[p], m)
      BY <2>1, <3>2
    <3>3. QED
      BY <3>1, <3>2, Appending
  <2>3. QED
    BY <2>1, <2>2, RecordsStay
<1>1. ASSUME NEW m \in Messages, Produce(m) PROVE TypeOK'
  <2>1. log' \in [Partitions -> Seq(Messages)]
    <3>1. log' = [p \in Partitions |-> log'[p]]
      BY <1>1 DEF TypeOK, Produce
    <3>2. QED
      BY <3>1, <1>a
  <2>2. \A p \in Partitions : committed'[p] <= Len(log'[p])
    BY <1>1, <1>a DEF TypeOK, Produce
  <2>3. \A c \in Consumers, p \in Partitions : position'[c][p] <= Len(log'[p])
    <3>1. SUFFICES ASSUME NEW c \in Consumers, NEW p \in Partitions
                   PROVE  position'[c][p] <= Len(log'[p])
      OBVIOUS
    <3>2. position'[c][p] = position[c][p] /\ position[c][p] \in Nat
             /\ position[c][p] <= Len(log[p])
      BY <1>1 DEF TypeOK, Produce, client
    <3>3. QED
      BY <3>2, <1>a
  <2>4. \A c \in Consumers : \A h \in handler'[c] : h.offset < Len(log'[h.partition])
    <3>1. SUFFICES ASSUME NEW c \in Consumers, NEW h \in handler[c]
                   PROVE  h.offset < Len(log'[h.partition])
      BY <1>1 DEF Produce, client
    <3>2. QED
      BY <1>a, HandlerTyped
  <2>5. QED
    BY <1>1, <2>1, <2>2, <2>3, <2>4 DEF TypeOK, Produce, group, client
<1>2. ASSUME NEW p \in Partitions, OperatorSkips(p) PROVE TypeOK'
  <2>1. /\ committed' \in [Partitions -> Nat]
        /\ \A r \in Partitions : committed'[r] <= Len(log'[r])
    BY <1>2, <1>a DEF TypeOK, OperatorSkips
  <2>2. skipped' \in SUBSET (Partitions \X Nat)
    BY <1>2 DEF TypeOK, OperatorSkips
  <2>3. QED
    BY <1>2, <2>1, <2>2 DEF TypeOK, OperatorSkips, group, client
<1>3. ASSUME NEW c \in Consumers, Start(c) PROVE TypeOK'
  BY <1>3 DEF TypeOK, Start, topic, client
<1>4. ASSUME NEW c \in Consumers, Stop(c) PROVE TypeOK'
  <2>1. UNCHANGED log
    BY <1>4 DEF Stop, topic
  <2>2. /\ position' \in [Consumers -> [Partitions -> Nat]]
        /\ \A d \in Consumers, p \in Partitions : position'[d][p] <= Len(log'[p])
    BY <1>4, <1>a DEF TypeOK, Stop, topic
  <2>3. /\ handler' \in [Consumers -> SUBSET Handlers]
        /\ \A d \in Consumers : \A g \in handler'[d] : g.offset < Len(log'[g.partition])
    BY <1>4, <2>1, HandlerReplaced DEF Stop
  <2>4. QED
    BY <1>4, <2>2, <2>3 DEF TypeOK, Stop, topic
<1>5. ASSUME NEW c \in Consumers, NEW p \in Partitions, Assign(c, p) PROVE TypeOK'
  <2>1. /\ position' \in [Consumers -> [Partitions -> Nat]]
        /\ \A d \in Consumers, r \in Partitions : position'[d][r] <= Len(log'[r])
    BY <1>5 DEF TypeOK, Assign, topic
  <2>2. QED
    BY <1>5, <2>1 DEF TypeOK, Assign, topic
<1>6. ASSUME NEW c \in Consumers, NEW p \in Partitions, Revoke(c, p) PROVE TypeOK'
  <2>1. /\ position' \in [Consumers -> [Partitions -> Nat]]
        /\ \A d \in Consumers, r \in Partitions : position'[d][r] <= Len(log'[r])
    BY <1>6, <1>a DEF TypeOK, Revoke, topic
  <2>2. QED
    BY <1>6, <2>1 DEF TypeOK, Revoke, topic, group
<1>7. ASSUME NEW c \in Consumers, NEW p \in Partitions, Deliver(c, p) PROVE TypeOK'
  <2>1. UNCHANGED log /\ position[c][p] \in Nat /\ position[c][p] < Len(log[p])
    BY <1>7 DEF TypeOK, Deliver, topic
  <2>2. /\ position' \in [Consumers -> [Partitions -> Nat]]
        /\ \A d \in Consumers, r \in Partitions : position'[d][r] <= Len(log'[r])
    BY <1>7, <1>a, <2>1 DEF TypeOK, Deliver
  <2> DEFINE g == [partition |-> p, offset |-> position[c][p], step |-> "projecting"]
  <2>3. g \in Handlers /\ g.offset < Len(log[g.partition])
    BY <2>1 DEF Handlers
  <2>4. handler' = [handler EXCEPT ![c] = {g}]
    BY <1>7 DEF Deliver
  <2> HIDE DEF g
  <2>5. /\ handler' \in [Consumers -> SUBSET Handlers]
        /\ \A d \in Consumers : \A k \in handler'[d] : k.offset < Len(log'[k.partition])
    BY <2>1, <2>3, <2>4, HandlerReplaced
  <2>6. QED
    BY <1>7, <2>2, <2>5 DEF TypeOK, Deliver, topic, group
<1>8. ASSUME NEW c \in Consumers, NEW h \in handler[c], ProcessMessage(c, h) \/ CallFails(c, h)
      PROVE  TypeOK'
  <2>1. h \in Handlers /\ h.partition \in Partitions /\ h.offset \in Nat
           /\ h.offset < Len(log[h.partition]) /\ Message(h) \in Messages
    BY HandlerTyped
  <2>2. CASE Project(c, h)
    <3> DEFINE g == [h EXCEPT !.step = "committing"]
    <3>1. g \in Handlers /\ g.offset < Len(log[g.partition])
      BY <2>1 DEF Handlers
    <3>2. handler' = [handler EXCEPT ![c] = {g}] /\ UNCHANGED log
      BY <2>2 DEF Project, topic
    <3> HIDE DEF g
    <3>3. /\ handler' \in [Consumers -> SUBSET Handlers]
          /\ \A d \in Consumers : \A k \in handler'[d] : k.offset < Len(log'[k.partition])
      BY <3>1, <3>2, HandlerReplaced
    <3>4. activity' \in SUBSET Messages
      BY <2>1, <2>2 DEF TypeOK, Project, Inserted
    <3>5. QED
      BY <2>2, <3>3, <3>4 DEF TypeOK, Project, topic, group
  <2>3. CASE Rejects(c, h)
    <3>1. ClientTyped'
      BY <2>3, SeekBackTyped DEF Rejects, Fails, topic
    <3>2. QED
      BY <2>3, <3>1 DEF TypeOK, ClientTyped, Rejects, Fails, topic, group
  <2>4. CASE InsertThrows(c, h)
    <3>1. ClientTyped'
      BY <2>4, SeekBackTyped DEF InsertThrows, Fails, topic
    <3>2. activity' \in SUBSET Messages
      BY <2>1, <2>4 DEF TypeOK, InsertThrows, Inserted
    <3>3. paused' \in [Consumers -> SUBSET Partitions]
      BY <2>4 DEF TypeOK, InsertThrows, Fails
    <3>4. UNCHANGED <<log, skipped, committed, owner, running, assigned>>
      BY <2>4 DEF InsertThrows, topic, group
    <3>5. QED
      BY <3>1, <3>2, <3>3, <3>4 DEF TypeOK, ClientTyped
  <2>5. ASSUME Acknowledge(h) \/ UNCHANGED committed, UNCHANGED log
        PROVE  /\ committed' \in [Partitions -> Nat]
               /\ \A p \in Partitions : committed'[p] <= Len(log'[p])
    <3>1. h.offset + 1 \in Nat /\ h.offset + 1 <= Len(log[h.partition])
      BY HandlerTyped
    <3>2. committed' \in [Partitions -> Nat]
      BY <2>5, <3>1 DEF TypeOK, Acknowledge
    <3>3. ASSUME NEW p \in Partitions PROVE committed'[p] <= Len(log[p])
      <4>1. committed'[p] = committed[p] \/ (p = h.partition /\ committed'[p] = h.offset + 1)
        BY <2>5 DEF TypeOK, Acknowledge
      <4>2. committed[p] <= Len(log[p])
        BY DEF TypeOK
      <4>3. QED
        BY <3>1, <4>1, <4>2
    <3>4. QED
      BY <2>5, <3>2, <3>3
  <2>6. CASE CommitOffset(c, h)
    <3>1. UNCHANGED log /\ handler' = [handler EXCEPT ![c] = {}] /\ Acknowledge(h)
      BY <2>6 DEF CommitOffset, topic
    <3>2. /\ handler' \in [Consumers -> SUBSET Handlers]
          /\ \A d \in Consumers : \A k \in handler'[d] : k.offset < Len(log'[k.partition])
      BY <3>1, HandlerReplaced
    <3>3. QED
      BY <2>5, <2>6, <3>1, <3>2 DEF TypeOK, CommitOffset, topic, group
  <2>7. CASE CommitRefused(c, h)
    <3>1. ClientTyped'
      BY <2>7, SeekBackTyped DEF CommitRefused, topic
    <3>2. QED
      BY <2>7, <3>1 DEF TypeOK, ClientTyped, CommitRefused, topic, group
  <2>8. CASE CommitThrows(c, h)
    <3>1. ClientTyped' /\ UNCHANGED log
      BY <2>8, SeekBackTyped DEF CommitThrows, topic
    <3>2. /\ committed' \in [Partitions -> Nat]
          /\ \A p \in Partitions : committed'[p] <= Len(log'[p])
      BY <2>5, <2>8, <3>1 DEF CommitThrows
    <3>3. QED
      BY <2>8, <3>1, <3>2 DEF TypeOK, ClientTyped, CommitThrows, topic, group
  <2>9. QED
    BY <1>8, <2>2, <2>3, <2>4, <2>6, <2>7, <2>8 DEF ProcessMessage, CallFails
<1>9. CASE UNCHANGED vars
  BY <1>9 DEF TypeOK, vars, topic, group, client
<1>10. QED
  BY <1>1, <1>2, <1>3, <1>4, <1>5, <1>6, <1>7, <1>8, <1>9 DEF Next

(***************************************************************************)
(* Every reachable state of the consumer group is well typed: no offset    *)
(* points behind the end of its partition.                                 *)
(***************************************************************************)
THEOREM TypeCorrect == Spec => []TypeOK
BY InitTyped, NextTyped, PTL DEF Spec

-----------------------------------------------------------------------------
(* The inductive invariant.                                                *)

LEMMA PlaceSettledStays ==
    ASSUME TypeOK, [Next]_vars, NEW p \in Partitions, NEW i \in 1 .. Len(log[p]), Settled(p, i)
    PROVE  Settled(p, i)'
<1>1. log'[p][i] = log[p][i]
  BY RecordsStay
<1>2. QED
  BY <1>1, Growing DEF Settled

(***************************************************************************)
(* A prefix that is settled, and the record after it, are a longer one.    *)
(***************************************************************************)
LEMMA SettledExtends ==
    ASSUME NEW p \in Partitions, NEW n \in Nat, SettledBelow(p, n), Settled(p, n + 1)
    PROVE  SettledBelow(p, n + 1)
BY DEF SettledBelow

LEMMA InitInv == Init => IndInv
<1> SUFFICES ASSUME Init PROVE IndInv
  OBVIOUS
<1>1. TypeOK
  BY InitTyped
<1>2. LogsAreKeyed /\ CommittedIsProjected /\ NoOvertaking
  BY DEF Init, LogsAreKeyed, CommittedIsProjected, NoOvertaking
<1>3. OneHandler /\ NoPositionUnassigned /\ HandlersAreSettled
  BY DEF Init, OneHandler, NoPositionUnassigned, HandlersAreSettled
<1>4. PositionsAreSettled
  BY DEF Init, PositionsAreSettled, SettledBelow
<1>5. QED
  BY <1>1, <1>2, <1>3, <1>4 DEF IndInv

LEMMA KeyedStep == TypeOK /\ LogsAreKeyed /\ [Next]_vars => LogsAreKeyed'
<1> SUFFICES ASSUME TypeOK, LogsAreKeyed, [Next]_vars,
                    NEW p \in Partitions, NEW i \in DOMAIN log'[p]
             PROVE  PartitionOf[log'[p][i]] = p
  BY DEF LogsAreKeyed
<1>1. log[p] \in Seq(Messages)
  BY DEF TypeOK
<1>2. CASE log'[p] = log[p]
  BY <1>2 DEF LogsAreKeyed
<1>3. CASE \E m \in Messages : PartitionOf[m] = p /\ log'[p] = Append(log[p], m)
  <2>1. PICK m \in Messages : PartitionOf[m] = p /\ log'[p] = Append(log[p], m)
    BY <1>3
  <2>2. CASE i \in DOMAIN log[p]
    BY <1>1, <2>1, <2>2 DEF LogsAreKeyed
  <2>3. CASE i = Len(log[p]) + 1
    BY <1>1, <2>1, <2>3
  <2>4. QED
    BY <1>1, <2>1, <2>2, <2>3
<1>4. QED
  BY <1>2, <1>3, Appending

(***************************************************************************)
(* What a step does to the handler of a consumer: nothing, it ends, it is  *)
(* given the next record, or it goes on to commit the one it projected.    *)
(***************************************************************************)
LEMMA HandlerMoves ==
    ASSUME TypeOK, [Next]_vars, NEW c \in Consumers
    PROVE  \/ handler'[c] = handler[c]
           \/ handler'[c] = {}
           \/ \E p \in assigned[c] :
                 /\ handler[c] = {}
                 /\ position[c][p] < Len(log[p])
                 /\ handler'[c] = {[partition |-> p, offset |-> position[c][p],
                                    step |-> "projecting"]}
           \/ \E h \in handler[c] :
                 /\ Kind[Message(h)] # "poison"
                 /\ Inserted(Message(h)) \subseteq activity'
                 /\ handler'[c] = {[h EXCEPT !.step = "committing"]}
<1>1. CASE UNCHANGED handler
  BY <1>1
<1>2. ASSUME NEW d \in Consumers, Stop(d) PROVE handler'[c] \in {handler[c], {}}
  BY <1>2 DEF TypeOK, Stop
<1>3. ASSUME NEW d \in Consumers, NEW p \in Partitions, Deliver(d, p)
      PROVE  \/ handler'[c] = handler[c]
             \/ /\ p \in assigned[c]
                /\ handler[c] = {}
                /\ position[c][p] < Len(log[p])
                /\ handler'[c] = {[partition |-> p, offset |-> position[c][p],
                                   step |-> "projecting"]}
  BY <1>3 DEF TypeOK, Deliver
<1>4. ASSUME NEW d \in Consumers, NEW h \in handler[d], Project(d, h)
      PROVE  \/ handler'[c] = handler[c]
             \/ /\ h \in handler[c]
                /\ Kind[Message(h)] # "poison"
                /\ Inserted(Message(h)) \subseteq activity'
                /\ handler'[c] = {[h EXCEPT !.step = "committing"]}
  BY <1>4 DEF TypeOK, Project
<1>5. ASSUME NEW d \in Consumers, NEW h \in handler[d],
             \/ Rejects(d, h) \/ InsertThrows(d, h) \/ CommitOffset(d, h)
             \/ CommitRefused(d, h) \/ CommitThrows(d, h)
      PROVE  handler'[c] \in {handler[c], {}}
  <2>1. handler' = [handler EXCEPT ![d] = {}]
    BY <1>5 DEF Rejects, InsertThrows, CommitOffset, CommitRefused, CommitThrows, Fails, SeekBack
  <2>2. QED
    BY <2>1 DEF TypeOK
<1>6. \/ UNCHANGED handler
      \/ \E d \in Consumers : Stop(d)
      \/ \E d \in Consumers, p \in Partitions : Deliver(d, p)
      \/ \E d \in Consumers : \E h \in handler[d] : Project(d, h)
      \/ \E d \in Consumers : \E h \in handler[d] :
            \/ Rejects(d, h) \/ InsertThrows(d, h) \/ CommitOffset(d, h)
            \/ CommitRefused(d, h) \/ CommitThrows(d, h)
  BY DEF Next, vars, client, Produce, OperatorSkips, Start, Assign, Revoke, ProcessMessage, CallFails
<1>7. CASE \E d \in Consumers : Stop(d)
  BY <1>2, <1>7
<1>8. CASE \E d \in Consumers, p \in Partitions : Deliver(d, p)
  BY <1>3, <1>8
<1>9. CASE \E d \in Consumers : \E h \in handler[d] : Project(d, h)
  BY <1>4, <1>9
<1>10. CASE \E d \in Consumers : \E h \in handler[d] :
            \/ Rejects(d, h) \/ InsertThrows(d, h) \/ CommitOffset(d, h)
            \/ CommitRefused(d, h) \/ CommitThrows(d, h)
  BY <1>5, <1>10
<1>11. QED
  BY <1>1, <1>6, <1>7, <1>8, <1>9, <1>10

LEMMA OneHandlerStep == TypeOK /\ OneHandler /\ [Next]_vars => OneHandler'
<1> SUFFICES ASSUME TypeOK, OneHandler, [Next]_vars, NEW c \in Consumers,
                    NEW g \in handler'[c], NEW h \in handler'[c]
             PROVE  g = h
  BY DEF OneHandler
<1>1. QED
  BY HandlerMoves DEF OneHandler

(***************************************************************************)
(* What a step does to an offset of the group: nothing, or the operator    *)
(* skips a record, or a handler commits the one it has projected.          *)
(***************************************************************************)
LEMMA CommittedMoves ==
    ASSUME TypeOK, [Next]_vars, NEW p \in Partitions
    PROVE  \/ committed'[p] = committed[p]
           \/ /\ committed[p] < Len(log[p])
              /\ committed'[p] = committed[p] + 1
              /\ <<p, committed[p] + 1>> \in skipped'
           \/ \E c \in Consumers : \E h \in handler[c] :
                 /\ h.partition = p
                 /\ h.step = "committing"
                 /\ committed'[p] = h.offset + 1
<1>1. ASSUME NEW r \in Partitions, OperatorSkips(r)
      PROVE  \/ committed'[p] = committed[p]
             \/ /\ committed[p] < Len(log[p])
                /\ committed'[p] = committed[p] + 1
                /\ <<p, committed[p] + 1>> \in skipped'
  BY <1>1 DEF TypeOK, OperatorSkips
<1>2. ASSUME NEW c \in Consumers, NEW h \in handler[c], Committing(c, h), Acknowledge(h)
      PROVE  \/ committed'[p] = committed[p]
             \/ /\ h.partition = p
                /\ h.step = "committing"
                /\ committed'[p] = h.offset + 1
  BY <1>2 DEF TypeOK, Committing, Acknowledge
<1>3. \/ UNCHANGED committed
      \/ \E r \in Partitions : OperatorSkips(r)
      \/ \E c \in Consumers : \E h \in handler[c] : Committing(c, h) /\ Acknowledge(h)
  BY DEF Next, vars, Produce, Start, Stop, Assign, Revoke, Deliver, ProcessMessage, CallFails,
         Project, Rejects, InsertThrows, CommitOffset, CommitRefused, CommitThrows
<1>4. CASE \E r \in Partitions : OperatorSkips(r)
  BY <1>1, <1>4
<1>5. CASE \E c \in Consumers : \E h \in handler[c] : Committing(c, h) /\ Acknowledge(h)
  BY <1>2, <1>5
<1>6. QED
  BY <1>3, <1>4, <1>5

LEMMA CommittedStep ==
    ASSUME TypeOK, CommittedIsProjected, HandlersAreSettled, [Next]_vars
    PROVE  CommittedIsProjected'
<1>1. SUFFICES ASSUME NEW p \in Partitions PROVE SettledBelow(p, committed[p])'
  BY DEF CommittedIsProjected, SettledBelow
<1>2. /\ committed[p] \in Nat
      /\ Len(log[p]) \in Nat
      /\ committed[p] <= Len(log[p])
      /\ SettledBelow(p, committed[p])
  BY DEF TypeOK, CommittedIsProjected, SettledBelow
<1>3. SettledBelow(p, committed[p])' \/ committed'[p] # committed[p]
  BY <1>2, SettledStays DEF SettledBelow
<1>4. CASE /\ committed[p] < Len(log[p])
           /\ committed'[p] = committed[p] + 1
           /\ <<p, committed[p] + 1>> \in skipped'
  <2>1. PICK n \in Nat : n = committed[p]
    BY <1>2
  <2>2. SettledBelow(p, n)'
    BY <1>2, <2>1, SettledStays
  <2>3. Settled(p, n + 1)'
    BY <1>4, <2>1 DEF Settled
  <2>4. SettledBelow(p, n + 1)'
    BY <2>2, <2>3 DEF SettledBelow
  <2>5. QED
    BY <1>4, <2>1, <2>4
<1>5. CASE \E c \in Consumers : \E h \in handler[c] :
               h.partition = p /\ h.step = "committing" /\ committed'[p] = h.offset + 1
  <2>1. PICK c \in Consumers : \E h \in handler[c] :
               h.partition = p /\ h.step = "committing" /\ committed'[p] = h.offset + 1
    BY <1>5
  <2>2. PICK h \in handler[c] :
               h.partition = p /\ h.step = "committing" /\ committed'[p] = h.offset + 1
    BY <2>1
  <2>3. h.offset \in Nat /\ h.offset + 1 <= Len(log[p])
    BY <1>2, <2>2, HandlerTyped
  <2>4. SettledBelow(p, h.offset) /\ Settled(p, h.offset + 1)
    BY <2>2 DEF HandlersAreSettled
  <2>5. SettledBelow(p, h.offset + 1)
    BY <2>3, <2>4, SettledExtends
  <2>6. \A i \in 1 .. (h.offset + 1) : Settled(p, i)'
    BY <2>3, <2>5, SettledStays DEF SettledBelow
  <2>7. QED
    BY <2>2, <2>6 DEF SettledBelow
<1>6. QED
  BY <1>3, <1>4, <1>5, CommittedMoves

LEMMA HandlersStep ==
    ASSUME TypeOK, OneHandler, HandlersAreSettled, PositionsAreSettled, [Next]_vars
    PROVE  HandlersAreSettled'
<1>1. SUFFICES ASSUME NEW c \in Consumers, NEW g \in handler'[c]
               PROVE  /\ SettledBelow(g.partition, g.offset)'
                      /\ g.step = "committing" => Settled(g.partition, g.offset + 1)'
  BY DEF HandlersAreSettled
<1>2. ASSUME NEW h \in handler[c]
      PROVE  /\ h.partition \in Partitions /\ h.offset \in Nat
             /\ SettledBelow(h.partition, h.offset)'
             /\ h.offset + 1 \in 1 .. Len(log[h.partition])
             /\ log'[h.partition][h.offset + 1] = Message(h)
  <2>1. /\ h.partition \in Partitions /\ h.offset \in Nat
        /\ h.offset <= Len(log[h.partition])
        /\ h.offset + 1 \in 1 .. Len(log[h.partition])
    BY HandlerTyped
  <2>2. SettledBelow(h.partition, h.offset)
    BY DEF HandlersAreSettled
  <2>3. SettledBelow(h.partition, h.offset)'
    BY <2>1, <2>2, SettledStays
  <2>4. QED
    BY <2>1, <2>3, RecordsStay DEF Message
<1>3. CASE g \in handler[c]
  <2>1. g.step = "committing" => Settled(g.partition, g.offset + 1)
    BY <1>3 DEF HandlersAreSettled
  <2>2. g.step = "committing" => Settled(g.partition, g.offset + 1)'
    BY <1>2, <1>3, <2>1, PlaceSettledStays
  <2>3. QED
    BY <1>2, <1>3, <2>2
<1>4. CASE \E p \in assigned[c] :
              /\ handler[c] = {}
              /\ position[c][p] < Len(log[p])
              /\ handler'[c] = {[partition |-> p, offset |-> position[c][p],
                                 step |-> "projecting"]}
  <2>1. PICK p \in assigned[c] :
              /\ handler[c] = {}
              /\ position[c][p] < Len(log[p])
              /\ handler'[c] = {[partition |-> p, offset |-> position[c][p],
                                 step |-> "projecting"]}
    BY <1>4
  <2>2. p \in Partitions /\ position[c][p] \in Nat /\ position[c][p] <= Len(log[p])
    BY DEF TypeOK
  <2>3. SettledBelow(p, position[c][p])
    BY <2>1, <2>2 DEF PositionsAreSettled
  <2>4. \A i \in 1 .. position[c][p] : Settled(p, i)'
    BY <2>2, <2>3, SettledStays DEF SettledBelow
  <2>5. g.partition = p /\ g.offset = position[c][p] /\ g.step = "projecting"
    BY <2>1
  <2>6. QED
    BY <2>4, <2>5 DEF SettledBelow
<1>5. CASE \E h \in handler[c] :
              /\ Kind[Message(h)] # "poison"
              /\ Inserted(Message(h)) \subseteq activity'
              /\ handler'[c] = {[h EXCEPT !.step = "committing"]}
  <2>1. PICK h \in handler[c] :
              /\ Kind[Message(h)] # "poison"
              /\ Inserted(Message(h)) \subseteq activity'
              /\ handler'[c] = {[h EXCEPT !.step = "committing"]}
    BY <1>5
  <2>2. g.partition = h.partition /\ g.offset = h.offset
    BY <2>1, HandlerTyped DEF Handlers
  <2>3. Kind[Message(h)] \in {"created", "other", "poison"}
    BY HandlerTyped, OrderActivityAssumption
  <2>4. Settled(h.partition, h.offset + 1)'
    BY <1>2, <2>1, <2>3 DEF Settled, Inserted
  <2>5. QED
    BY <1>2, <2>2, <2>4
<1>6. QED
  BY <1>3, <1>4, <1>5, HandlerMoves

(***************************************************************************)
(* What SeekBack leaves: the place of the record that was not done, or, of *)
(* a partition that is no longer assigned, the place it had.               *)
(***************************************************************************)
LEMMA SeekBackSettled ==
    ASSUME IndInv, [Next]_vars, NEW c \in Consumers, NEW h \in handler[c], SeekBack(c, h),
           UNCHANGED assigned
    PROVE  PositionsAreSettled' /\ NoPositionUnassigned'
<1> USE DEF IndInv
<1>1. /\ h.partition \in Partitions /\ h.offset \in Nat
      /\ h.offset <= Len(log[h.partition])
      /\ SettledBelow(h.partition, h.offset)
  BY HandlerTyped DEF HandlersAreSettled
<1>2. ASSUME NEW d \in Consumers, NEW p \in Partitions
      PROVE  /\ position[d][p] \in Nat
             /\ position[d][p] <= Len(log[p])
             /\ position'[d][p] = IF d = c /\ p = h.partition /\ p \in assigned[c]
                                  THEN h.offset ELSE position[d][p]
             /\ handler'[d] = IF d = c THEN {} ELSE handler[d]
  BY <1>1 DEF TypeOK, SeekBack
<1>3. NoPositionUnassigned'
  BY <1>2 DEF NoPositionUnassigned
<1>4. ASSUME NEW d \in Consumers, NEW p \in Partitions
      PROVE  \/ SettledBelow(p, position[d][p])'
             \/ \E g \in handler'[d] : g.partition = p /\ position'[d][p] = g.offset + 1
  <2>1. CASE d # c /\ \E g \in handler[d] : g.partition = p /\ position[d][p] = g.offset + 1
    BY <1>2, <2>1
  <2>2. CASE SettledBelow(p, position[d][p]) /\ position'[d][p] = position[d][p]
    <3>1. PICK n \in Nat : n = position[d][p]
      BY <1>2
    <3>2. SettledBelow(p, n)'
      BY <1>2, <2>2, <3>1, SettledStays
    <3>3. QED
      BY <2>2, <3>1, <3>2
  <2>3. CASE d = c /\ p = h.partition /\ p \in assigned[c]
    <3>1. PICK n \in Nat : n = h.offset
      BY <1>1
    <3>2. SettledBelow(p, n)'
      BY <1>1, <2>3, <3>1, SettledStays
    <3>3. QED
      BY <1>2, <2>3, <3>1, <3>2
  <2>4. CASE d = c /\ ~(p = h.partition /\ p \in assigned[c])
    <3>1. CASE p \notin assigned[c]
      <4>1. position'[d][p] = 0
        BY <1>2, <2>4, <3>1 DEF NoPositionUnassigned
      <4>2. QED
        BY <4>1 DEF SettledBelow
    <3>2. CASE p # h.partition
      <4>1. SettledBelow(p, position[d][p])
        BY <2>4, <3>2 DEF PositionsAreSettled, OneHandler
      <4>2. position'[d][p] = position[d][p]
        BY <1>2, <3>2
      <4>3. QED
        BY <2>2, <4>1, <4>2
    <3>3. QED
      BY <2>4, <3>1, <3>2
  <2>5. QED
    BY <1>2, <2>1, <2>2, <2>3, <2>4 DEF PositionsAreSettled
<1>5. QED
  BY <1>3, <1>4 DEF PositionsAreSettled

(***************************************************************************)
(* A position that does not move, while the handler does not or while the  *)
(* position is not the handler's.                                          *)
(***************************************************************************)
LEMMA PositionStays ==
    ASSUME TypeOK, [Next]_vars, NEW c \in Consumers, NEW p \in Partitions,
           position'[c][p] = position[c][p],
           \/ SettledBelow(p, position[c][p])
           \/ \E h \in handler[c] : /\ h.partition = p /\ position[c][p] = h.offset + 1
                                    /\ \E g \in handler'[c] : g.partition = p /\ g.offset = h.offset
    PROVE  \/ SettledBelow(p, position[c][p])'
           \/ \E h \in handler'[c] : h.partition = p /\ position'[c][p] = h.offset + 1
<1>1. CASE SettledBelow(p, position[c][p])
  <2>1. PICK n \in Nat : n = position[c][p] /\ n <= Len(log[p])
    BY DEF TypeOK
  <2>2. SettledBelow(p, n)'
    BY <1>1, <2>1, SettledStays
  <2>3. QED
    BY <2>1, <2>2
<1>2. QED
  BY <1>1

LEMMA PositionsStep == IndInv /\ [Next]_vars => PositionsAreSettled' /\ NoPositionUnassigned'
<1> SUFFICES ASSUME IndInv, [Next]_vars PROVE PositionsAreSettled' /\ NoPositionUnassigned'
  OBVIOUS
<1> USE DEF IndInv
<1>1. ASSUME UNCHANGED <<position, handler, assigned>>
      PROVE  PositionsAreSettled' /\ NoPositionUnassigned'
  <2>1. NoPositionUnassigned'
    BY <1>1 DEF NoPositionUnassigned
  <2>2. QED
    BY <1>1, <2>1, PositionStays DEF PositionsAreSettled
<1>2. ASSUME NEW c \in Consumers, Stop(c) PROVE PositionsAreSettled' /\ NoPositionUnassigned'
  <2>1. ASSUME NEW d \in Consumers, NEW p \in Partitions
        PROVE  \/ d # c /\ position'[d][p] = position[d][p] /\ handler'[d] = handler[d]
                        /\ assigned'[d] = assigned[d]
               \/ position'[d][p] = 0
    BY <1>2 DEF TypeOK, Stop
  <2>2. NoPositionUnassigned'
    BY <2>1 DEF NoPositionUnassigned
  <2>3. ASSUME NEW d \in Consumers, NEW p \in Partitions
        PROVE  \/ SettledBelow(p, position[d][p])'
               \/ \E h \in handler'[d] : h.partition = p /\ position'[d][p] = h.offset + 1
    <3>1. CASE position'[d][p] = 0
      BY <3>1 DEF SettledBelow
    <3>2. QED
      BY <2>1, <3>1, PositionStays DEF PositionsAreSettled
  <2>4. QED
    BY <2>2, <2>3 DEF PositionsAreSettled
<1>3. ASSUME NEW c \in Consumers, NEW p \in Partitions, Assign(c, p)
      PROVE  PositionsAreSettled' /\ NoPositionUnassigned'
  <2>1. ASSUME NEW d \in Consumers, NEW r \in Partitions
        PROVE  /\ handler'[d] = handler[d]
               /\ \/ position'[d][r] = position[d][r]
                  \/ position'[d][r] = committed[r] /\ r \in assigned'[d]
               /\ r \in assigned[d] => r \in assigned'[d]
    BY <1>3 DEF TypeOK, Assign
  <2>2. NoPositionUnassigned'
    BY <2>1 DEF NoPositionUnassigned
  <2>3. ASSUME NEW d \in Consumers, NEW r \in Partitions
        PROVE  \/ SettledBelow(r, position[d][r])'
               \/ \E h \in handler'[d] : h.partition = r /\ position'[d][r] = h.offset + 1
    <3>1. CASE position'[d][r] = committed[r]
      <4>1. PICK n \in Nat : n = committed[r] /\ n <= Len(log[r])
        BY DEF TypeOK
      <4>2. SettledBelow(r, n)
        BY <4>1 DEF CommittedIsProjected, SettledBelow
      <4>3. SettledBelow(r, n)'
        BY <4>1, <4>2, SettledStays
      <4>4. QED
        BY <3>1, <4>1, <4>3
    <3>2. CASE position'[d][r] = position[d][r]
      BY <2>1, <3>2, PositionStays DEF PositionsAreSettled
    <3>3. QED
      BY <2>1, <3>1, <3>2
  <2>4. QED
    BY <2>2, <2>3 DEF PositionsAreSettled
<1>4. ASSUME NEW c \in Consumers, NEW p \in Partitions, Revoke(c, p)
      PROVE  PositionsAreSettled' /\ NoPositionUnassigned'
  <2>1. ASSUME NEW d \in Consumers, NEW r \in Partitions
        PROVE  /\ handler'[d] = handler[d]
               /\ \/ /\ position'[d][r] = position[d][r]
                     /\ r \in assigned[d] => r \in assigned'[d]
                  \/ position'[d][r] = 0
    BY <1>4 DEF TypeOK, Revoke
  <2>2. NoPositionUnassigned'
    BY <2>1 DEF NoPositionUnassigned
  <2>3. ASSUME NEW d \in Consumers, NEW r \in Partitions
        PROVE  \/ SettledBelow(r, position[d][r])'
               \/ \E h \in handler'[d] : h.partition = r /\ position'[d][r] = h.offset + 1
    <3>1. CASE position'[d][r] = 0
      BY <3>1 DEF SettledBelow
    <3>2. QED
      BY <2>1, <3>1, PositionStays DEF PositionsAreSettled
  <2>4. QED
    BY <2>2, <2>3 DEF PositionsAreSettled
<1>5. ASSUME NEW c \in Consumers, NEW p \in Partitions, Deliver(c, p)
      PROVE  PositionsAreSettled' /\ NoPositionUnassigned'
  <2>1. ASSUME NEW d \in Consumers, NEW r \in Partitions
        PROVE  /\ assigned'[d] = assigned[d]
               /\ \/ /\ position'[d][r] = position[d][r]
                     /\ handler'[d] = handler[d] \/ handler[d] = {}
                  \/ /\ r \in assigned[d]
                     /\ \E h \in handler'[d] : h.partition = r /\ position'[d][r] = h.offset + 1
    BY <1>5 DEF TypeOK, Deliver
  <2>2. NoPositionUnassigned'
    BY <2>1 DEF NoPositionUnassigned
  <2>3. ASSUME NEW d \in Consumers, NEW r \in Partitions
        PROVE  \/ SettledBelow(r, position[d][r])'
               \/ \E h \in handler'[d] : h.partition = r /\ position'[d][r] = h.offset + 1
    BY <2>1, PositionStays DEF PositionsAreSettled
  <2>4. QED
    BY <2>2, <2>3 DEF PositionsAreSettled
<1>6. ASSUME NEW c \in Consumers, NEW h \in handler[c], Project(c, h)
      PROVE  PositionsAreSettled' /\ NoPositionUnassigned'
  <2>1. ASSUME NEW d \in Consumers
        PROVE  \/ handler'[d] = handler[d]
               \/ d = c /\ handler'[d] = {[h EXCEPT !.step = "committing"]}
    BY <1>6 DEF TypeOK, Project
  <2>2. UNCHANGED <<position, assigned>>
    BY <1>6 DEF Project
  <2>3. NoPositionUnassigned'
    BY <2>2 DEF NoPositionUnassigned
  <2>4. ASSUME NEW d \in Consumers, NEW g \in handler[d]
        PROVE  \E k \in handler'[d] : k.partition = g.partition /\ k.offset = g.offset
    <3>1. CASE handler'[d] = handler[d]
      BY <3>1
    <3>2. CASE d = c /\ handler'[d] = {[h EXCEPT !.step = "committing"]}
      <4>1. g = h
        BY <3>2 DEF OneHandler
      <4>2. [h EXCEPT !.step = "committing"].partition = h.partition
               /\ [h EXCEPT !.step = "committing"].offset = h.offset
        BY HandlerTyped DEF Handlers
      <4>3. QED
        BY <3>2, <4>1, <4>2
    <3>3. QED
      BY <2>1, <3>1, <3>2
  <2>5. ASSUME NEW d \in Consumers, NEW r \in Partitions
        PROVE  \/ SettledBelow(r, position[d][r])'
               \/ \E g \in handler'[d] : g.partition = r /\ position'[d][r] = g.offset + 1
    BY <2>2, <2>4, PositionStays DEF PositionsAreSettled
  <2>6. QED
    BY <2>3, <2>5 DEF PositionsAreSettled
<1>7. ASSUME NEW c \in Consumers, NEW h \in handler[c], CommitOffset(c, h)
      PROVE  PositionsAreSettled' /\ NoPositionUnassigned'
  <2>1. UNCHANGED <<position, assigned>> /\ handler' = [handler EXCEPT ![c] = {}]
           /\ h.step = "committing"
    BY <1>7 DEF CommitOffset, Committing
  <2>2. NoPositionUnassigned'
    BY <2>1 DEF NoPositionUnassigned
  <2>3. ASSUME NEW d \in Consumers, NEW r \in Partitions
        PROVE  \/ SettledBelow(r, position[d][r])
               \/ handler'[d] = handler[d]
    <3>1. CASE d # c
      BY <2>1, <3>1 DEF TypeOK
    <3>2. CASE d = c /\ \E g \in handler[c] : g.partition = r /\ position[c][r] = g.offset + 1
      <4>1. h.partition = r /\ position[c][r] = h.offset + 1
        BY <3>2 DEF OneHandler
      <4>2. h.offset \in Nat /\ SettledBelow(r, h.offset) /\ Settled(r, h.offset + 1)
        BY <2>1, <4>1, HandlerTyped DEF HandlersAreSettled
      <4>3. SettledBelow(r, h.offset + 1)
        BY <4>2, SettledExtends
      <4>4. QED
        BY <3>2, <4>1, <4>3
    <3>3. QED
      BY <3>1, <3>2 DEF PositionsAreSettled
  <2>4. ASSUME NEW d \in Consumers, NEW r \in Partitions
        PROVE  \/ SettledBelow(r, position[d][r])'
               \/ \E g \in handler'[d] : g.partition = r /\ position'[d][r] = g.offset + 1
    BY <2>1, <2>3, PositionStays DEF PositionsAreSettled
  <2>5. QED
    BY <2>2, <2>4 DEF PositionsAreSettled
<1>8. ASSUME NEW c \in Consumers, NEW h \in handler[c],
             Rejects(c, h) \/ InsertThrows(c, h) \/ CommitRefused(c, h) \/ CommitThrows(c, h)
      PROVE  PositionsAreSettled' /\ NoPositionUnassigned'
  BY <1>8, SeekBackSettled DEF Rejects, InsertThrows, CommitRefused, CommitThrows, Fails
<1>9. CASE UNCHANGED vars
  BY <1>1, <1>9 DEF vars, client
<1>10. ASSUME NEW m \in Messages, Produce(m) PROVE UNCHANGED <<position, handler, assigned>>
  BY <1>10 DEF Produce, client
<1>11. ASSUME NEW p \in Partitions, OperatorSkips(p) PROVE UNCHANGED <<position, handler, assigned>>
  BY <1>11 DEF OperatorSkips, client
<1>12. ASSUME NEW c \in Consumers, Start(c) PROVE UNCHANGED <<position, handler, assigned>>
  BY <1>12 DEF Start, client
<1>13. QED
  BY <1>1, <1>2, <1>3, <1>4, <1>5, <1>6, <1>7, <1>8, <1>9, <1>10, <1>11, <1>12
     DEF Next, ProcessMessage, CallFails

(***************************************************************************)
(* Which step adds a row to the table: a handler's, of its record.         *)
(***************************************************************************)
LEMMA RowsAreProjected ==
    ASSUME TypeOK, [Next]_vars, NEW m \in activity', m \notin activity
    PROVE  \E c \in Consumers : \E h \in handler[c] : m = Message(h)
<1>1. ASSUME NEW c \in Consumers, NEW h \in handler[c], activity' \subseteq activity \cup {Message(h)}
      PROVE  m = Message(h)
  BY <1>1
<1>2. \/ activity' = activity
      \/ \E c \in Consumers : \E h \in handler[c] : activity' \subseteq activity \cup {Message(h)}
  BY DEF Next, vars, Produce, OperatorSkips, Start, Stop, Assign, Revoke, Deliver, ProcessMessage,
         CallFails, Project, Rejects, InsertThrows, CommitOffset, CommitRefused, CommitThrows,
         Inserted
<1>3. QED
  BY <1>1, <1>2

LEMMA OvertakingStep == IndInv /\ [Next]_vars => NoOvertaking'
<1> SUFFICES ASSUME IndInv, [Next]_vars, NEW m \in activity'
             PROVE  \E i \in DOMAIN log'[PartitionOf[m]] :
                       /\ log'[PartitionOf[m]][i] = m
                       /\ \A j \in 1 .. (i - 1) : Settled(PartitionOf[m], j)'
  BY DEF NoOvertaking
<1> USE DEF IndInv
<1>1. m \in Messages
  BY NextTyped DEF TypeOK
<1>2. PICK p \in Partitions : p = PartitionOf[m]
  BY <1>1, OrderActivityAssumption
<1>3. log[p] \in Seq(Messages) /\ log'[p] \in Seq(Messages)
  BY NextTyped DEF TypeOK
<1>4. \E i \in 1 .. Len(log[p]) : log[p][i] = m /\ SettledBelow(p, i - 1)
  <2>1. CASE m \in activity
    BY <1>2, <1>3, <2>1 DEF NoOvertaking, SettledBelow
  <2>2. CASE m \notin activity
    <3>1. PICK c \in Consumers : \E h \in handler[c] : m = Message(h)
      BY <2>2, RowsAreProjected
    <3>2. PICK h \in handler[c] : m = Message(h)
      BY <3>1
    <3>3. /\ h.partition \in Partitions /\ h.offset \in Nat
          /\ h.offset + 1 \in 1 .. Len(log[h.partition])
          /\ log[h.partition][h.offset + 1] = m
      BY <3>2, HandlerTyped DEF Message
    <3>4. h.partition = p
      <4>1. h.offset + 1 \in DOMAIN log[h.partition]
        BY <3>3 DEF TypeOK
      <4>2. QED
        BY <1>2, <3>3, <4>1 DEF LogsAreKeyed
    <3>5. SettledBelow(p, h.offset)
      BY <3>4 DEF HandlersAreSettled
    <3>6. (h.offset + 1) - 1 = h.offset
      BY <3>3
    <3>7. QED
      BY <3>3, <3>4, <3>5, <3>6
  <2>3. QED
    BY <2>1, <2>2
<1>5. PICK i \in 1 .. Len(log[p]) : log[p][i] = m /\ SettledBelow(p, i - 1)
  BY <1>4
<1>6. i \in DOMAIN log'[p] /\ log'[p][i] = m
  BY <1>3, <1>5, RecordsStay
<1>7. SettledBelow(p, i - 1)'
  <2>1. i - 1 \in Nat /\ i - 1 <= Len(log[p])
    BY <1>3, <1>5
  <2>2. QED
    BY <1>5, <2>1, SettledStays
<1>8. QED
  BY <1>2, <1>6, <1>7 DEF SettledBelow

(***************************************************************************)
(* The inductive invariant holds in every reachable state.                 *)
(***************************************************************************)
THEOREM Inductive == Spec => []IndInv
<1>1. IndInv /\ [Next]_vars => IndInv'
  BY NextTyped, KeyedStep, OneHandlerStep, PositionsStep, HandlersStep, CommittedStep,
     OvertakingStep DEF IndInv
<1>2. QED
  BY InitInv, <1>1, PTL DEF Spec

(***************************************************************************)
(* An acknowledged record is in the table, of another type, or skipped by  *)
(* the operator.                                                           *)
(***************************************************************************)
THEOREM Acknowledged == Spec => []CommittedIsProjected
<1>1. IndInv => CommittedIsProjected
  BY DEF IndInv
<1>2. QED
  BY Inductive, <1>1, PTL

(***************************************************************************)
(* No row of the table overtakes a record of its partition.                *)
(***************************************************************************)
THEOREM InLogOrder == Spec => []NoOvertaking
<1>1. IndInv => NoOvertaking
  BY DEF IndInv
<1>2. QED
  BY Inductive, <1>1, PTL

=============================================================================
