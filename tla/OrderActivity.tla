---------------------------- MODULE OrderActivity ----------------------------
(***************************************************************************)
(* The order-activity consumer group: processes that read the partitions   *)
(* of the topic, write a row of order_activity for each created order and  *)
(* acknowledge by committing offsets                                       *)
(* (apps/order-activity-consumer/src/order-activity.consumer.ts).          *)
(*                                                                         *)
(* A handler has two awaits, the insert and the commit of the offset.      *)
(* Between them the process may die, the partition may be given to another *)
(* consumer, or the answer of the database or of the broker may be lost.   *)
(*                                                                         *)
(* The group coordinator and the client library are external: a partition  *)
(* is handed over at any moment, the old consumer learns of it later and   *)
(* finishes the message it has, and its offset may be refused or accepted: *)
(* the coordinator checks the generation of the member, not what the       *)
(* member is assigned.  So an old handler may set the group's offset back, *)
(* and nothing below says that it cannot.                                  *)
(*                                                                         *)
(* An operator "Mistake" defined before the operator it imitates is not    *)
(* part of the specification: it is a bug the properties must notice.      *)
(***************************************************************************)
EXTENDS Naturals, Sequences, FiniteSets

CONSTANTS
    Partitions,   \* partitions of the topic
    Consumers,    \* processes of the consumer group
    Messages,     \* records that may be in the topic, named by their event id
    PartitionOf,  \* the partition of a message: its key is the aggregate id
    Kind,         \* "created", "other" (type of event) or "poison"
    MaxLog        \* bound: records in a partition

ASSUME OrderActivityAssumption ==
    /\ PartitionOf \in [Messages -> Partitions]
    /\ Kind \in [Messages -> {"created", "other", "poison"}]
    /\ MaxLog \in Nat

VARIABLES
    log,        \* the records of each partition; copies of a message are equal
    committed,  \* the group's offset: that many records are acknowledged
    activity,   \* the event ids of the table order_activity (its primary key)
    skipped,    \* history: places <<p, i>> of the log an operator skipped
    owner,      \* the consumer the coordinator has assigned a partition to
    running,    \* the consumers that are up
    assigned,   \* the partitions a consumer believes are its own
    position,   \* how far a consumer has been given records of a partition
    paused,     \* the partitions a consumer has paused
    handler     \* the message a consumer is processing, if any

topic == <<log, skipped>>
group == <<owner, running>>
client == <<assigned, position, paused, handler>>
vars == <<topic, committed, activity, group, client>>

Handlers == [partition : Partitions, offset : Nat, step : {"projecting", "committing"}]

\* offset counts from 0, places in the log from 1
Message(h) == log[h.partition][h.offset + 1]

TypeOK ==
    /\ log \in [Partitions -> Seq(Messages)]
    /\ committed \in [Partitions -> Nat]
    /\ \A p \in Partitions : committed[p] <= Len(log[p])
    /\ activity \in SUBSET Messages
    /\ skipped \in SUBSET (Partitions \X Nat)
    /\ owner \in [Partitions -> Consumers]
    /\ running \in SUBSET Consumers
    /\ assigned \in [Consumers -> SUBSET Partitions]
    /\ position \in [Consumers -> [Partitions -> Nat]]
    /\ \A c \in Consumers, p \in Partitions : position[c][p] <= Len(log[p])
    /\ paused \in [Consumers -> SUBSET Partitions]
    /\ handler \in [Consumers -> SUBSET Handlers]
    /\ \A c \in Consumers : \A h \in handler[c] : h.offset < Len(log[h.partition])

Init ==
    /\ log = [p \in Partitions |-> <<>>]
    /\ committed = [p \in Partitions |-> 0]
    /\ activity = {}
    /\ skipped = {}
    /\ owner \in [Partitions -> Consumers]
    /\ running = {}
    /\ assigned = [c \in Consumers |-> {}]
    /\ position = [c \in Consumers |-> [p \in Partitions |-> 0]]
    /\ paused = [c \in Consumers |-> {}]
    /\ handler = [c \in Consumers |-> {}]

-----------------------------------------------------------------------------
(* The topic and the operator.                                             *)

(***************************************************************************)
(* The broker appends a record: of the relay, first copy or late one, or   *)
(* of any other producer.                                                  *)
(***************************************************************************)
Produce(m) ==
    /\ Len(log[PartitionOf[m]]) < MaxLog
    /\ log' = [log EXCEPT ![PartitionOf[m]] = Append(@, m)]
    /\ UNCHANGED <<skipped, committed, activity, group, client>>

(***************************************************************************)
(* The operator moves the group past the next record, as the runbook says, *)
(* with every consumer stopped.                                            *)
(***************************************************************************)
OperatorSkips(p) ==
    /\ running = {}
    /\ committed[p] < Len(log[p])
    /\ committed' = [committed EXCEPT ![p] = @ + 1]
    /\ skipped' = skipped \cup {<<p, committed[p] + 1>>}
    /\ UNCHANGED <<log, activity, group, client>>

-----------------------------------------------------------------------------
(* Membership of the group.                                                *)

Start(c) ==
    /\ c \notin running
    /\ running' = running \cup {c}
    /\ UNCHANGED <<topic, committed, activity, owner, client>>

(***************************************************************************)
(* The process ends, by a crash or a shutdown, whatever it is doing.       *)
(***************************************************************************)
Stop(c) ==
    /\ c \in running
    /\ running' = running \ {c}
    /\ assigned' = [assigned EXCEPT ![c] = {}]
    /\ position' = [position EXCEPT ![c] = [p \in Partitions |-> 0]]
    /\ paused' = [paused EXCEPT ![c] = {}]
    /\ handler' = [handler EXCEPT ![c] = {}]
    /\ UNCHANGED <<topic, committed, activity, owner>>

Owns(c, p) == owner[p] = c /\ p \in assigned[c]

(***************************************************************************)
(* A rebalance gives a partition to a consumer, which begins at the        *)
(* committed offset (fromBeginning: at 0 when there is none).  A pause is  *)
(* not remembered across assignments.                                      *)
(***************************************************************************)
Assign(c, p) ==
    /\ c \in running
    /\ ~Owns(c, p)
    /\ owner' = [owner EXCEPT ![p] = c]
    /\ assigned' = [assigned EXCEPT ![c] = @ \cup {p}]
    /\ position' = [position EXCEPT ![c][p] = committed[p]]
    /\ paused' = [paused EXCEPT ![c] = @ \ {p}]
    /\ UNCHANGED <<topic, committed, activity, running, handler>>

(***************************************************************************)
(* A consumer learns that a partition is no longer its own; the handler    *)
(* that works on a record of it is not interrupted.                        *)
(***************************************************************************)
Revoke(c, p) ==
    /\ p \in assigned[c]
    /\ owner[p] # c
    /\ assigned' = [assigned EXCEPT ![c] = @ \ {p}]
    /\ position' = [position EXCEPT ![c][p] = 0]
    /\ paused' = [paused EXCEPT ![c] = @ \ {p}]
    /\ UNCHANGED <<topic, committed, activity, group, handler>>

-----------------------------------------------------------------------------
(* processMessage.                                                         *)

(***************************************************************************)
(* The library calls eachMessage with the next record, one at a time.      *)
(***************************************************************************)
Deliver(c, p) ==
    /\ handler[c] = {}
    /\ p \in assigned[c] \ paused[c]
    /\ position[c][p] < Len(log[p])
    /\ handler' = [handler EXCEPT ![c] =
           {[partition |-> p, offset |-> position[c][p], step |-> "projecting"]}]
    /\ position' = [position EXCEPT ![c][p] = @ + 1]
    /\ UNCHANGED <<topic, committed, activity, group, assigned, paused>>

\* The rows project writes for a message: insert ... on conflict do nothing.
Inserted(m) == IF Kind[m] = "created" THEN {m} ELSE {}

Projecting(c, h) == h \in handler[c] /\ h.step = "projecting"

(***************************************************************************)
(* eachMessage rejects: the library goes back to the record, if it still   *)
(* has the partition.                                                      *)
(***************************************************************************)
SeekBack(c, h) ==
    /\ handler' = [handler EXCEPT ![c] = {}]
    /\ position' = IF h.partition \in assigned[c]
                   THEN [position EXCEPT ![c][h.partition] = h.offset]
                   ELSE position

FailsMistakeSwallows(c, h) ==
    /\ handler' = [handler EXCEPT ![c] = {[h EXCEPT !.step = "committing"]}]
    /\ UNCHANGED <<position, paused>>

(***************************************************************************)
(* The catch block: pause the partition and rethrow.                       *)
(***************************************************************************)
Fails(c, h) ==
    /\ paused' = [paused EXCEPT ![c] = @ \cup ({h.partition} \cap assigned[c])]
    /\ SeekBack(c, h)

ProjectMistakeNotAwaited(c, h) ==
    /\ Projecting(c, h)
    /\ Kind[Message(h)] # "poison"
    /\ activity' \in {activity, activity \cup Inserted(Message(h))}
    /\ handler' = [handler EXCEPT ![c] = {[h EXCEPT !.step = "committing"]}]
    /\ UNCHANGED <<topic, committed, group, assigned, position, paused>>

ProjectMistakeConflict(c, h) ==
    /\ Projecting(c, h)
    /\ Kind[Message(h)] # "poison"
    /\ IF Inserted(Message(h)) \cap activity = {}
       THEN /\ activity' = activity \cup Inserted(Message(h))
            /\ handler' = [handler EXCEPT ![c] = {[h EXCEPT !.step = "committing"]}]
            /\ UNCHANGED <<position, paused>>
       ELSE Fails(c, h) /\ UNCHANGED activity
    /\ UNCHANGED <<topic, committed, group, assigned>>

Project(c, h) ==
    /\ Projecting(c, h)
    /\ Kind[Message(h)] # "poison"
    /\ activity' = activity \cup Inserted(Message(h))
    /\ handler' = [handler EXCEPT ![c] = {[h EXCEPT !.step = "committing"]}]
    /\ UNCHANGED <<topic, committed, group, assigned, position, paused>>

(***************************************************************************)
(* The decoder or toOrderActivity throws; nothing is written.              *)
(***************************************************************************)
Rejects(c, h) ==
    /\ Projecting(c, h)
    /\ Kind[Message(h)] = "poison"
    /\ Fails(c, h)
    /\ UNCHANGED <<topic, committed, activity, group, assigned>>

(***************************************************************************)
(* The insert throws, applied or not (a lost answer).                      *)
(***************************************************************************)
InsertThrows(c, h) ==
    /\ Projecting(c, h)
    /\ Kind[Message(h)] = "created"
    /\ activity' \in {activity, activity \cup Inserted(Message(h))}
    /\ Fails(c, h)
    /\ UNCHANGED <<topic, committed, group, assigned>>

Committing(c, h) == h \in handler[c] /\ h.step = "committing"

AcknowledgeMistakeOneMore(h) ==
    committed' = [committed EXCEPT ![h.partition] = h.offset + 2]

Acknowledge(h) == committed' = [committed EXCEPT ![h.partition] = h.offset + 1]

CommitOffset(c, h) ==
    /\ Committing(c, h)
    /\ Acknowledge(h)
    /\ handler' = [handler EXCEPT ![c] = {}]
    /\ UNCHANGED <<topic, activity, group, assigned, position, paused>>

(***************************************************************************)
(* commitOffsets throws, because the member was replaced or because the    *)
(* broker fails, before or after it applies the offset.  The call is       *)
(* outside of the try block: the partition is not paused.                  *)
(***************************************************************************)
CommitRefused(c, h) ==
    /\ Committing(c, h)
    /\ owner[h.partition] # c
    /\ SeekBack(c, h)
    /\ UNCHANGED <<topic, committed, activity, group, assigned, paused>>

CommitThrows(c, h) ==
    /\ Committing(c, h)
    /\ Acknowledge(h) \/ UNCHANGED committed
    /\ SeekBack(c, h)
    /\ UNCHANGED <<topic, activity, group, assigned, paused>>

-----------------------------------------------------------------------------
ProcessMessage(c, h) ==
    \/ Project(c, h)
    \/ Rejects(c, h)
    \/ CommitOffset(c, h)
    \/ CommitRefused(c, h)

CallFails(c, h) == InsertThrows(c, h) \/ CommitThrows(c, h)

Next ==
    \/ \E m \in Messages : Produce(m)
    \/ \E p \in Partitions : OperatorSkips(p)
    \/ \E c \in Consumers :
          \/ Start(c)
          \/ Stop(c)
          \/ \E p \in Partitions : Assign(c, p) \/ Revoke(c, p) \/ Deliver(c, p)
          \/ \E h \in handler[c] : ProcessMessage(c, h) \/ CallFails(c, h)

Spec == Init /\ [][Next]_vars

-----------------------------------------------------------------------------
(* Fairness.                                                               *)

Orphan(p) == \A c \in Consumers : ~Owns(c, p)

\* The operator's reason to restart a consumer: a failure that has passed.
PausedWithoutPoison(c) ==
    \E p \in paused[c] :
        ~(position[c][p] < Len(log[p]) /\ Kind[log[p][position[c][p] + 1]] = "poison")

(***************************************************************************)
(* What goes wrong from outside and has to end: an offset cannot be        *)
(* committed, a consumer is stopped for another reason than its pauses, or *)
(* a partition is taken from a consumer that has it.                       *)
(***************************************************************************)
Fault ==
    \E c \in Consumers :
        \/ \E h \in handler[c] : CommitThrows(c, h)
        \/ ~PausedWithoutPoison(c) /\ Stop(c)
        \/ \E p \in Partitions : ~Orphan(p) /\ Assign(c, p)

(***************************************************************************)
(* Handlers, the library and the coordinator go on, a process that ended   *)
(* is started, a database that is asked for an insert again and again      *)
(* answers once, the operator restarts a consumer that is paused for a     *)
(* reason that may have passed (the code does not), and the faults end.    *)
(* Nobody has to skip a poisoned record.                                   *)
(***************************************************************************)
Fairness ==
    /\ \A c \in Consumers :
          /\ WF_vars(Start(c))
          /\ WF_vars(PausedWithoutPoison(c) /\ Stop(c))
          /\ WF_vars(\E h \in handler[c] : ProcessMessage(c, h))
          /\ SF_vars(\E h \in handler[c] : Project(c, h))
          /\ \A p \in Partitions : WF_vars(Deliver(c, p)) /\ WF_vars(Revoke(c, p))
    /\ \A p \in Partitions : WF_vars(Orphan(p) /\ \E c \in Consumers : Assign(c, p))
    /\ <>[][~Fault]_vars

FairSpec == Spec /\ Fairness

-----------------------------------------------------------------------------
(* Properties.                                                             *)

(***************************************************************************)
(* A record that needs nothing more of this group.                         *)
(***************************************************************************)
Settled(p, i) ==
    \/ Kind[log[p][i]] = "other"
    \/ Kind[log[p][i]] = "created" /\ log[p][i] \in activity
    \/ <<p, i>> \in skipped

(***************************************************************************)
(* "Commits an offset only after the projection write succeeds": whatever  *)
(* crashes, rebalances and lost answers there are, an acknowledged record  *)
(* is in the table, of another type, or skipped by the operator.           *)
(***************************************************************************)
CommittedIsProjected ==
    \A p \in Partitions : \A i \in 1 .. committed[p] : Settled(p, i)

(***************************************************************************)
(* No row overtakes a record of its partition: before the record an        *)
(* activity row was made of, everything is settled, also what a paused,    *)
(* stopped or replaced consumer had not finished.                          *)
(***************************************************************************)
NoOvertaking ==
    \A m \in activity :
        \E i \in DOMAIN log[PartitionOf[m]] :
            /\ log[PartitionOf[m]][i] = m
            /\ \A j \in 1 .. (i - 1) : Settled(PartitionOf[m], j)

BehindPoison(p, i) ==
    \E j \in 1 .. i : Kind[log[p][j]] = "poison" /\ <<p, j>> \notin skipped

\* A consumer has the partition, and has been through it up to a record nobody can process.
CaughtUp(p) ==
    \E c \in Consumers :
        /\ Owns(c, p)
        /\ \/ position[c][p] = Len(log[p])
           \/ p \in paused[c] /\ Kind[log[p][position[c][p] + 1]] = "poison"

(***************************************************************************)
(* In the end every record is settled, or is or follows one that no        *)
(* consumer can process, and every partition is in the hands of a consumer *)
(* that has come through it.  So records that are repeated or were half    *)
(* processed (their row is there already), refused offsets, hand-overs and *)
(* partitions that were paused before stop nothing for good.  A failure    *)
(* that has passed needs the restart of the runbook (Fairness).            *)
(***************************************************************************)
EndsProjected ==
    <>[](\A p \in Partitions :
            /\ CaughtUp(p)
            /\ \A i \in DOMAIN log[p] : Settled(p, i) \/ BehindPoison(p, i))

-----------------------------------------------------------------------------
(* The inductive invariant (module OrderActivityProofs).                   *)

SettledBelow(p, n) == \A i \in 1 .. n : Settled(p, i)

\* What a consumer was given before the record in its hands is settled.
PositionsAreSettled ==
    \A c \in Consumers, p \in Partitions :
        \/ SettledBelow(p, position[c][p])
        \/ \E h \in handler[c] : h.partition = p /\ position[c][p] = h.offset + 1

HandlersAreSettled ==
    \A c \in Consumers : \A h \in handler[c] :
        /\ SettledBelow(h.partition, h.offset)
        /\ h.step = "committing" => Settled(h.partition, h.offset + 1)

OneHandler == \A c \in Consumers : \A g, h \in handler[c] : g = h

\* A consumer has no position in a partition that is not assigned to it.
NoPositionUnassigned ==
    \A c \in Consumers, p \in Partitions : p \notin assigned[c] => position[c][p] = 0

\* The broker appends a message to its own partition.
LogsAreKeyed == \A p \in Partitions : \A i \in DOMAIN log[p] : PartitionOf[log[p][i]] = p

IndInv ==
    /\ TypeOK
    /\ LogsAreKeyed
    /\ OneHandler
    /\ NoPositionUnassigned
    /\ HandlersAreSettled
    /\ PositionsAreSettled
    /\ CommittedIsProjected
    /\ NoOvertaking

=============================================================================
