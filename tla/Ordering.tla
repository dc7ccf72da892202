------------------------------- MODULE Ordering -------------------------------
(***************************************************************************)
(* The ordering API: requests that create, read, confirm and cancel orders *)
(* in PostgreSQL, side by side in one or more API processes                *)
(* (packages/ordering/src).                                                *)
(*                                                                         *)
(* A request is a sequence of awaits: two reads outside of a transaction,  *)
(* the domain method in memory, then the transaction of save, which writes *)
(* the order under an optimistic version check and inserts the event of    *)
(* the change in the outbox.  Requests interleave at every await.          *)
(*                                                                         *)
(* The transaction runs at READ COMMITTED: what it writes is seen by       *)
(* others when it commits, and an UPDATE waits for the row lock of another *)
(* transaction and checks its WHERE against what that one left.            *)
(*                                                                         *)
(* An operator "Mistake" defined before the operator it imitates is not    *)
(* part of the specification: it is a bug the properties must notice.      *)
(***************************************************************************)
EXTENDS Naturals, FiniteSets

CONSTANTS
    Requests,   \* HTTP requests
    Nobody,     \* no request
    Asks        \* what the clients may ask for

(***************************************************************************)
(* randomUUID makes no id twice: an order and an event are named by the    *)
(* request that made them (a request records one event at most).           *)
(***************************************************************************)
Orders == Requests

Kinds == {"create", "get", "confirm", "cancel"}

(***************************************************************************)
(* Input that the pipes refuse is "malformed"; "blank" passes the pipes    *)
(* and is refused by the domain (a blank customer or reason, a total that  *)
(* is not a safe integer).                                                 *)
(***************************************************************************)
Inputs == {"valid", "blank", "malformed"}

ASSUME OrderingAssumption ==
    /\ Nobody \notin Requests
    /\ Asks \subseteq [kind : Kinds, order : Orders, input : Inputs]

OrderStatus == {"NONE", "PENDING", "CONFIRMED", "CANCELLED"}

Types == {"created", "confirmed", "cancelled"}

DomainEvents == [id : Requests, type : Types, aggregateId : Orders, aggregateVersion : Nat]

(***************************************************************************)
(* A row of the table orders, and the aggregate in memory: its state, the  *)
(* version it had in the database (persistedVersion, 0 for null) and its   *)
(* recorded events.                                                        *)
(***************************************************************************)
Rows == [status : OrderStatus, version : Nat]

Aggregates ==
    [status : OrderStatus, version : Nat, original : Nat, events : SUBSET DomainEvents]

NoRow == [status |-> "NONE", version |-> 0]

Unloaded == [status |-> "NONE", version |-> 0, original |-> 0, events |-> {}]

VARIABLES
    orders,   \* table orders: the committed row of each id, NoRow if there is none
    items,    \* table order_items: the orders whose items are committed
    outbox,   \* table outbox_events: the committed rows
    lock,     \* the transaction that holds the row lock of an order
    pc,       \* where each request is
    op,       \* what each request asks for
    mem,      \* the aggregate each request works on
    answer    \* the HTTP status a request got; "lost" when its process died

tables == <<orders, items, outbox>>
vars == <<orders, items, outbox, lock, pc, op, mem, answer>>

TypeOK ==
    /\ orders \in [Orders -> Rows]
    /\ items \in SUBSET Orders
    /\ outbox \in SUBSET DomainEvents
    /\ lock \in [Orders -> Requests \cup {Nobody}]
    /\ pc \in [Requests ->
                 {"new", "reading", "rehydrating", "saving", "written", "recorded", "done"}]
    /\ op \in [Requests -> [kind : Kinds, order : Orders, input : Inputs]]
    /\ mem \in [Requests -> Aggregates]
    /\ answer \in [Requests -> {"none", "200", "201", "400", "404", "409", "500", "lost"}]

Init ==
    /\ orders = [o \in Orders |-> NoRow]
    /\ items = {}
    /\ outbox = {}
    /\ lock = [o \in Orders |-> Nobody]
    /\ pc = [r \in Requests |-> "new"]
    /\ op \in [Requests -> Asks]
    /\ \A r \in Requests : op[r].kind = "create" => op[r].order = r
    /\ mem = [r \in Requests |-> Unloaded]
    /\ answer = [r \in Requests |-> "none"]

-----------------------------------------------------------------------------
(* The domain: what the methods of Order leave in memory.                  *)

Event(r, type, version) ==
    [id |-> r, type |-> type, aggregateId |-> op[r].order, aggregateVersion |-> version]

CreatedMistakeNoEvent(r) ==
    [status |-> "PENDING", version |-> 1, original |-> 0, events |-> {}]

\* Order.create, of valid input.
Created(r) ==
    [status |-> "PENDING", version |-> 1, original |-> 0, events |-> {Event(r, "created", 1)}]

\* Order.rehydrate
Rehydrated(row) ==
    [status |-> row.status, version |-> row.version, original |-> row.version, events |-> {}]

\* Order.confirm, past assertPending.
Confirmed(r, m) ==
    [m EXCEPT !.status = "CONFIRMED", !.version = m.version + 1,
              !.events = m.events \cup {Event(r, "confirmed", m.version + 1)}]

\* Order.cancel, past assertPending and the check of the reason.
Cancelled(r, m) ==
    [m EXCEPT !.status = "CANCELLED", !.version = m.version + 1,
              !.events = m.events \cup {Event(r, "cancelled", m.version + 1)}]

\* Order.markPersisted
Persisted(m) == [m EXCEPT !.original = m.version, !.events = {}]

-----------------------------------------------------------------------------
(* How a request goes on, and how it ends (mapErrors).                     *)

GoesTo(r, where) ==
    /\ pc' = [pc EXCEPT ![r] = where]
    /\ UNCHANGED <<op, answer>>

EndsWith(r, status) ==
    /\ pc' = [pc EXCEPT ![r] = "done"]
    /\ answer' = [answer EXCEPT ![r] = status]
    /\ UNCHANGED op

Unlock(r) == lock' = [o \in Orders |-> IF lock[o] = r THEN Nobody ELSE lock[o]]

-----------------------------------------------------------------------------
(***************************************************************************)
(* A request arrives: the pipes refuse it, a create goes through the       *)
(* domain, the others turn to the database.                                *)
(***************************************************************************)
Refuse(r) ==
    /\ pc[r] = "new"
    /\ op[r].input = "malformed" \/ (op[r].kind = "create" /\ op[r].input = "blank")
    /\ EndsWith(r, "400")
    /\ UNCHANGED <<tables, lock, mem>>

Create(r) ==
    /\ pc[r] = "new"
    /\ op[r].kind = "create" /\ op[r].input = "valid"
    /\ mem' = [mem EXCEPT ![r] = Created(r)]
    /\ GoesTo(r, "saving")
    /\ UNCHANGED <<tables, lock>>

Look(r) ==
    /\ pc[r] = "new"
    /\ op[r].kind # "create" /\ op[r].input # "malformed"
    /\ GoesTo(r, "reading")
    /\ UNCHANGED <<tables, lock, mem>>

(***************************************************************************)
(* findById, the first SELECT.                                             *)
(***************************************************************************)
ReadRow(r) ==
    /\ pc[r] = "reading"
    /\ orders[op[r].order] # NoRow
    /\ mem' = [mem EXCEPT ![r] = Rehydrated(orders[op[r].order])]
    /\ GoesTo(r, "rehydrating")
    /\ UNCHANGED <<tables, lock>>

NotFound(r) ==
    /\ pc[r] = "reading"
    /\ orders[op[r].order] = NoRow
    /\ EndsWith(r, "404")
    /\ UNCHANGED <<tables, lock, mem>>

(***************************************************************************)
(* findById, the second SELECT; what follows it up to the transaction of   *)
(* save has no await in it.                                                *)
(***************************************************************************)
Get(r) ==
    /\ pc[r] = "rehydrating"
    /\ op[r].kind = "get"
    /\ EndsWith(r, "200")
    /\ UNCHANGED <<tables, lock, mem>>

InvalidState(r) ==
    /\ pc[r] = "rehydrating"
    /\ op[r].kind \in {"confirm", "cancel"}
    /\ mem[r].status # "PENDING"
    /\ EndsWith(r, "409")
    /\ UNCHANGED <<tables, lock, mem>>

InvalidReason(r) ==
    /\ pc[r] = "rehydrating"
    /\ op[r].kind = "cancel" /\ op[r].input = "blank"
    /\ mem[r].status = "PENDING"
    /\ EndsWith(r, "400")
    /\ UNCHANGED <<tables, lock, mem>>

ConfirmMistakeAnyState(r) ==
    /\ pc[r] = "rehydrating"
    /\ op[r].kind = "confirm"
    /\ mem' = [mem EXCEPT ![r] = Confirmed(r, mem[r])]
    /\ GoesTo(r, "saving")
    /\ UNCHANGED <<tables, lock>>

Confirm(r) ==
    /\ pc[r] = "rehydrating"
    /\ op[r].kind = "confirm"
    /\ mem[r].status = "PENDING"
    /\ mem' = [mem EXCEPT ![r] = Confirmed(r, mem[r])]
    /\ GoesTo(r, "saving")
    /\ UNCHANGED <<tables, lock>>

Cancel(r) ==
    /\ pc[r] = "rehydrating"
    /\ op[r].kind = "cancel" /\ op[r].input = "valid"
    /\ mem[r].status = "PENDING"
    /\ mem' = [mem EXCEPT ![r] = Cancelled(r, mem[r])]
    /\ GoesTo(r, "saving")
    /\ UNCHANGED <<tables, lock>>

-----------------------------------------------------------------------------
(* save: the statements of the transaction.                                *)

\* BEGIN, INSERT of the order and of its items; the id is new, nobody waits.
InsertOrder(r) ==
    /\ pc[r] = "saving"
    /\ mem[r].original = 0
    /\ GoesTo(r, "written")
    /\ UNCHANGED <<tables, lock, mem>>

UpdateOrderMistakeAnyVersion(r) ==
    /\ pc[r] = "saving"
    /\ mem[r].original # 0
    /\ lock[op[r].order] = Nobody
    /\ lock' = [lock EXCEPT ![op[r].order] = r]
    /\ GoesTo(r, "written")
    /\ UNCHANGED <<tables, mem>>

(***************************************************************************)
(* BEGIN, UPDATE ... WHERE version = originalVersion: waits for the lock,  *)
(* then finds the version it read, or another.                             *)
(***************************************************************************)
UpdateOrder(r) ==
    /\ pc[r] = "saving"
    /\ mem[r].original # 0
    /\ lock[op[r].order] = Nobody
    /\ orders[op[r].order].version = mem[r].original
    /\ lock' = [lock EXCEPT ![op[r].order] = r]
    /\ GoesTo(r, "written")
    /\ UNCHANGED <<tables, mem>>

LosesRaceMistakeOnLock(r) ==
    /\ pc[r] = "saving"
    /\ mem[r].original # 0
    /\ lock[op[r].order] # Nobody \/ orders[op[r].order].version # mem[r].original
    /\ EndsWith(r, "409")
    /\ UNCHANGED <<tables, lock, mem>>

LosesRaceMistakeCommits(r) ==
    /\ pc[r] = "saving"
    /\ mem[r].original # 0
    /\ lock[op[r].order] = Nobody
    /\ orders[op[r].order].version # mem[r].original
    /\ outbox' = outbox \cup mem[r].events
    /\ EndsWith(r, "409")
    /\ UNCHANGED <<orders, items, lock, mem>>

LosesRace(r) ==
    /\ pc[r] = "saving"
    /\ mem[r].original # 0
    /\ lock[op[r].order] = Nobody
    /\ orders[op[r].order].version # mem[r].original
    /\ EndsWith(r, "409")
    /\ UNCHANGED <<tables, lock, mem>>

RecordEventsMistakeOutside(r) ==
    /\ pc[r] = "written"
    /\ outbox' = outbox \cup mem[r].events
    /\ GoesTo(r, "recorded")
    /\ UNCHANGED <<orders, items, lock, mem>>

\* INSERT of the events in the outbox, in the same transaction.
RecordEvents(r) ==
    /\ pc[r] = "written"
    /\ GoesTo(r, "recorded")
    /\ UNCHANGED <<tables, lock, mem>>

CommitTablesMistakeNoItems(r) ==
    /\ orders' = [orders EXCEPT ![op[r].order] =
                     [status |-> mem[r].status, version |-> mem[r].version]]
    /\ items' = IF mem[r].original = 0 THEN items ELSE items \cup {op[r].order}
    /\ outbox' = outbox \cup mem[r].events
    /\ Unlock(r)

\* What COMMIT makes visible: the order, its items, its events; the lock is free.
CommitTables(r) ==
    /\ orders' = [orders EXCEPT ![op[r].order] =
                     [status |-> mem[r].status, version |-> mem[r].version]]
    /\ items' = IF mem[r].original = 0 THEN items \cup {op[r].order} ELSE items
    /\ outbox' = outbox \cup mem[r].events
    /\ Unlock(r)

\* COMMIT is acknowledged: markPersisted, and the snapshot is the answer.
Commit(r) ==
    /\ pc[r] = "recorded"
    /\ CommitTables(r)
    /\ mem' = [mem EXCEPT ![r] = Persisted(mem[r])]
    /\ EndsWith(r, IF op[r].kind = "create" THEN "201" ELSE "200")

(***************************************************************************)
(* COMMIT is done, but the connection or the process is lost before the    *)
(* request knows: the client sees an error of something that happened.     *)
(***************************************************************************)
CommitUnacknowledged(r, status) ==
    /\ pc[r] = "recorded"
    /\ CommitTables(r)
    /\ EndsWith(r, status)
    /\ UNCHANGED mem

AbortMistakeKeepsLock(r, status) ==
    /\ pc[r] \notin {"new", "done"}
    /\ EndsWith(r, status)
    /\ UNCHANGED <<tables, lock, mem>>

(***************************************************************************)
(* A statement fails ("500") or the process dies ("lost"): PostgreSQL      *)
(* rolls the transaction back.  The death of a process is the end of all   *)
(* its requests, one after the other.                                      *)
(***************************************************************************)
Abort(r, status) ==
    /\ pc[r] \notin {"new", "done"}
    /\ Unlock(r)
    /\ EndsWith(r, status)
    /\ UNCHANGED <<tables, mem>>

Step(r) ==
    \/ Refuse(r) \/ Create(r) \/ Look(r)
    \/ ReadRow(r) \/ NotFound(r)
    \/ Get(r) \/ InvalidState(r) \/ InvalidReason(r) \/ Confirm(r) \/ Cancel(r)
    \/ InsertOrder(r) \/ UpdateOrder(r) \/ LosesRace(r)
    \/ RecordEvents(r) \/ Commit(r)

Next ==
    \E r \in Requests :
        \/ Step(r)
        \/ \E status \in {"500", "lost"} : CommitUnacknowledged(r, status) \/ Abort(r, status)

Spec == Init /\ [][Next]_vars

(***************************************************************************)
(* Fairness: every await of a request settles in the end, as a statement   *)
(* that waits for a row lock does once the lock is free.  No transaction   *)
(* has to succeed.                                                         *)
(***************************************************************************)
FairSpec == Spec /\ \A r \in Requests : WF_vars(pc[r] # "new" /\ Step(r))

-----------------------------------------------------------------------------
(* Safety.                                                                 *)

EventsOf(o) == {n \in outbox : n.aggregateId = o}

TypeFor(status) == IF status = "CONFIRMED" THEN "confirmed" ELSE "cancelled"

(***************************************************************************)
(* The outbox is the history of the orders: every version an order went    *)
(* through has one event and there is no other, the last one of the type   *)
(* of the status the order is in.  This is what the relay builds on: a row *)
(* per aggregate and version, and no gap.                                  *)
(***************************************************************************)
OutboxMirrorsOrders ==
    \A o \in Orders :
        /\ \A v \in 1 .. orders[o].version : \E n \in EventsOf(o) : n.aggregateVersion = v
        /\ \A n \in EventsOf(o) :
              /\ n.aggregateVersion \in 1 .. orders[o].version
              /\ n.type = IF n.aggregateVersion = 1 THEN "created" ELSE TypeFor(orders[o].status)
        /\ \A n, m \in EventsOf(o) : n.aggregateVersion = m.aggregateVersion => n = m

(***************************************************************************)
(* A success that a client was told is in the tables: its order is there,  *)
(* in the state it asked for, and its own event is in the outbox.  So of   *)
(* the requests that race for an order one at most is told it won.         *)
(***************************************************************************)
SuccessIsDurable ==
    \A r \in Requests :
        (answer[r] \in {"200", "201"} /\ op[r].kind # "get") =>
            /\ \E n \in EventsOf(op[r].order) : n.id = r
            /\ op[r].kind = "confirm" => orders[op[r].order].status = "CONFIRMED"
            /\ op[r].kind = "cancel" => orders[op[r].order].status = "CANCELLED"

(***************************************************************************)
(* A request that was refused left nothing behind, however far it came.    *)
(***************************************************************************)
RefusalLeavesNoTrace ==
    \A r \in Requests :
        answer[r] \in {"400", "404", "409"} => \A n \in outbox : n.id # r

(***************************************************************************)
(* 409 is told of an order that is no longer PENDING only, also to a       *)
(* request that read it PENDING: the winner of the race has committed.     *)
(***************************************************************************)
ConflictIsReal ==
    \A r \in Requests :
        answer[r] = "409" => orders[op[r].order].status \in {"CONFIRMED", "CANCELLED"}

(***************************************************************************)
(* The two SELECTs of a read belong together: the answer to a GET is a     *)
(* version the order has or had, with its items.                           *)
(***************************************************************************)
SnapshotIsWhole ==
    \A r \in Requests :
        (op[r].kind = "get" /\ answer[r] = "200") =>
            /\ op[r].order \in items
            /\ \/ mem[r].status = "PENDING" /\ mem[r].version = 1
               \/ /\ mem[r].status = orders[op[r].order].status
                  /\ mem[r].version = orders[op[r].order].version

-----------------------------------------------------------------------------
(* The inductive invariant (module OrderingProofs).                        *)

PendingRow == [status |-> "PENDING", version |-> 1]

\* The four rows there are.
RowsAreKnown ==
    \A o \in Orders :
        orders[o] \in {NoRow, PendingRow, [status |-> "CONFIRMED", version |-> 2],
                       [status |-> "CANCELLED", version |-> 2]}

\* A row was made, with its items, by a create request that is over.
RowsAreCreated ==
    /\ \A r \in Requests : op[r].kind = "create" => op[r].order = r
    /\ \A o \in Orders :
          orders[o] # NoRow => op[o].kind = "create" /\ pc[o] = "done" /\ o \in items
    /\ \A o \in items : orders[o] # NoRow

\* What a request has read is the row as it was made or as it is.
ReadsAreReal ==
    \A r \in Requests :
        /\ pc[r] \in {"reading", "rehydrating"} => op[r].kind # "create"
        /\ pc[r] = "rehydrating" =>
              /\ orders[op[r].order] # NoRow
              /\ mem[r] \in {Rehydrated(PendingRow), Rehydrated(orders[op[r].order])}

Saving(r) == pc[r] \in {"saving", "written", "recorded"}

\* What a request is about to save was made by its domain method.
SavesAreOwn ==
    \A r \in Requests : Saving(r) =>
        \/ op[r].kind = "create" /\ mem[r] = Created(r)
        \/ /\ \/ op[r].kind = "confirm" /\ mem[r] = Confirmed(r, Rehydrated(PendingRow))
              \/ op[r].kind = "cancel" /\ mem[r] = Cancelled(r, Rehydrated(PendingRow))
           /\ orders[op[r].order] # NoRow

\* A transaction that has updated a row has it locked, at the version it read.
LocksProtect ==
    \A r \in Requests :
        (pc[r] \in {"written", "recorded"} /\ op[r].kind # "create") =>
            lock[op[r].order] = r /\ orders[op[r].order] = PendingRow

\* An event is of a request that is over, and was not refused.
EventsAreOfCommits ==
    \A n \in outbox :
        /\ pc[n.id] = "done"
        /\ n.aggregateId = op[n.id].order
        /\ answer[n.id] \in {"200", "201", "500", "lost"}

\* A request has an answer when it is over.
AnswersAreLast == \A r \in Requests : pc[r] # "done" => answer[r] = "none"

IndInv ==
    /\ TypeOK
    /\ RowsAreKnown /\ RowsAreCreated
    /\ ReadsAreReal /\ SavesAreOwn /\ LocksProtect
    /\ EventsAreOfCommits /\ AnswersAreLast
    /\ OutboxMirrorsOrders
    /\ SuccessIsDurable /\ ConflictIsReal /\ SnapshotIsWhole

-----------------------------------------------------------------------------
(* Action property.                                                        *)

(***************************************************************************)
(* An order is created PENDING at version 1 and moves once, to version 2,  *)
(* and it moves in the step in which the event of the move appears.        *)
(***************************************************************************)
OrdersMoveWithTheirEvents ==
    [][\A o \in Orders :
          (orders[o] # orders'[o] \/ EventsOf(o) # EventsOf(o)') =>
              /\ orders[o].status \in {"NONE", "PENDING"}
              /\ orders'[o].version = orders[o].version + 1
              /\ \E n \in EventsOf(o)' :
                    /\ EventsOf(o)' \ EventsOf(o) = {n}
                    /\ n.aggregateVersion = orders'[o].version]_vars

(***************************************************************************)
(* The channel OrderedDelivery as the ordering API sees it: an event is    *)
(* handed over when its row is committed.                                  *)
(***************************************************************************)
Stored(e) == \E n \in EventsOf(e[1]) : n.aggregateVersion = e[2]

Channel == INSTANCE OrderedDelivery WITH
    Aggregates <- Orders,
    MaxVersion <- 2,
    CopyCap <- 0,
    state <- [e \in Orders \X (1 .. 2) |-> IF Stored(e) THEN "waiting" ELSE "absent"],
    log <- [o \in Orders |-> <<>>]

(***************************************************************************)
(* The ordering API is a writer of that channel: whatever save commits to  *)
(* the outbox is exactly one event that was not there, and the next of its *)
(* order, although the row is stamped with a version read long before.     *)
(***************************************************************************)
FeedsTheChannel ==
    Channel!Init /\ [][\E e \in Channel!Events : Channel!Accept(e)]_outbox

-----------------------------------------------------------------------------
(* Liveness.                                                               *)

(***************************************************************************)
(* A request that was taken up is answered: no two transactions wait for   *)
(* each other, and a transaction that fails frees those that wait for it.  *)
(***************************************************************************)
RequestsEnd == \A r \in Requests : pc[r] # "new" ~> pc[r] = "done"

=============================================================================
