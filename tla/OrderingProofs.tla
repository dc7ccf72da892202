---------------------------- MODULE OrderingProofs ----------------------------
(***************************************************************************)
(* Proofs about the ordering API, for any number of requests.              *)
(*                                                                         *)
(* The argument: the tables change in one step only, the COMMIT of a       *)
(* request (CommitEffect).  What it writes was computed from the row the   *)
(* request read (SavesAreOwn), and that row is still there, because the    *)
(* UPDATE checked its version and has held its lock since (LocksProtect).  *)
(* So an order moves from no row to version 1 to version 2, each time      *)
(* together with the one event of the move.                                *)
(***************************************************************************)
EXTENDS Ordering, TLAPS

LEMMA InitTyped == Init => TypeOK
<1> USE OrderingAssumption
<1> SUFFICES ASSUME Init PROVE TypeOK
  OBVIOUS
<1>1. op \in [Requests -> [kind : Kinds, order : Orders, input : Inputs]]
  BY DEF Init
<1>2. Unloaded \in Aggregates /\ NoRow \in Rows
  BY DEF Unloaded, Aggregates, NoRow, Rows, OrderStatus
<1>3. QED
  BY <1>1, <1>2 DEF Init, TypeOK, Orders

(***************************************************************************)
(* The aggregates that the domain methods make are typed.                  *)
(***************************************************************************)
LEMMA DomainTyped ==
    ASSUME TypeOK, NEW r \in Requests
    PROVE  /\ op[r].kind \in Kinds /\ op[r].order \in Orders /\ op[r].input \in Inputs
           /\ Created(r) \in Aggregates
           /\ \A row \in Rows : Rehydrated(row) \in Aggregates
           /\ \A m \in Aggregates :
                 /\ Confirmed(r, m) \in Aggregates
                 /\ Cancelled(r, m) \in Aggregates
                 /\ Persisted(m) \in Aggregates
<1>1. op[r].kind \in Kinds /\ op[r].order \in Orders /\ op[r].input \in Inputs
  BY DEF TypeOK
<1>2. \A type \in Types, v \in Nat : Event(r, type, v) \in DomainEvents
  BY <1>1 DEF Event, DomainEvents
<1>3. Created(r) \in Aggregates
  BY <1>2 DEF Created, Aggregates, Types, OrderStatus
<1>4. \A row \in Rows : Rehydrated(row) \in Aggregates
  BY DEF Rehydrated, Rows, Aggregates
<1>5. ASSUME NEW m \in Aggregates
      PROVE  Confirmed(r, m) \in Aggregates /\ Cancelled(r, m) \in Aggregates
                /\ Persisted(m) \in Aggregates
  <2>1. m.version + 1 \in Nat /\ m.events \in SUBSET DomainEvents
    BY DEF Aggregates
  <2>2. Confirmed(r, m) \in Aggregates
    BY <1>2, <2>1 DEF Confirmed, Aggregates, Types, OrderStatus
  <2>3. Cancelled(r, m) \in Aggregates
    BY <1>2, <2>1 DEF Cancelled, Aggregates, Types, OrderStatus
  <2>4. Persisted(m) \in Aggregates
    BY DEF Persisted, Aggregates
  <2>5. QED
    BY <2>2, <2>3, <2>4
<1>6. QED
  BY <1>1, <1>3, <1>4, <1>5

(***************************************************************************)
(* What a COMMIT makes visible is typed.                                   *)
(***************************************************************************)
LEMMA CommitTyped ==
    ASSUME TypeOK, NEW r \in Requests, CommitTables(r)
    PROVE  /\ orders' \in [Orders -> Rows]
           /\ items' \in SUBSET Orders
           /\ outbox' \in SUBSET DomainEvents
           /\ lock' \in [Orders -> Requests \cup {Nobody}]
<1>1. op[r].order \in Orders /\ mem[r] \in Aggregates
  BY DEF TypeOK
<1>2. [status |-> mem[r].status, version |-> mem[r].version] \in Rows
  BY <1>1 DEF Aggregates, Rows
<1>3. orders' \in [Orders -> Rows]
  BY <1>1, <1>2 DEF TypeOK, CommitTables
<1>4. items' \in SUBSET Orders
  BY <1>1 DEF TypeOK, CommitTables
<1>5. outbox' \in SUBSET DomainEvents
  BY <1>1 DEF TypeOK, CommitTables, Aggregates
<1>6. lock' \in [Orders -> Requests \cup {Nobody}]
  BY DEF TypeOK, CommitTables, Unlock
<1>7. QED
  BY <1>3, <1>4, <1>5, <1>6

(***************************************************************************)
(* The shapes of the steps of a request: it goes on, it ends without a     *)
(* trace in the tables, or it commits.                                     *)
(***************************************************************************)
GoesOn(r) ==
    /\ pc[r] # "done"
    /\ UNCHANGED tables
    /\ \E where \in {"reading", "rehydrating", "saving", "written", "recorded"} : GoesTo(r, where)
    /\ \E m \in Aggregates : mem' = [mem EXCEPT ![r] = m]
    /\ lock' \in {lock, [lock EXCEPT ![op[r].order] = r]}

Ends(r) ==
    /\ pc[r] # "done"
    /\ UNCHANGED <<tables, mem>>
    /\ \E status \in {"200", "400", "404", "409", "500", "lost"} :
          /\ EndsWith(r, status)
          /\ status = "200" => Get(r)
          /\ status = "409" => InvalidState(r) \/ LosesRace(r)
    /\ UNCHANGED lock \/ Unlock(r)

Commits(r) ==
    /\ pc[r] = "recorded"
    /\ CommitTables(r)
    /\ \E status \in {"200", "201", "500", "lost"} : EndsWith(r, status)
    /\ mem' \in {mem, [mem EXCEPT ![r] = Persisted(mem[r])]}

LEMMA StepShapes ==
    ASSUME TypeOK, NEW r \in Requests,
           \/ Step(r)
           \/ \E status \in {"500", "lost"} : CommitUnacknowledged(r, status) \/ Abort(r, status)
    PROVE  GoesOn(r) \/ Ends(r) \/ Commits(r)
<1>1. mem[r] \in Aggregates /\ mem = [mem EXCEPT ![r] = mem[r]]
  BY DEF TypeOK
<1>2. CASE Refuse(r) \/ NotFound(r) \/ Get(r) \/ InvalidState(r) \/ InvalidReason(r) \/ LosesRace(r)
  BY <1>2 DEF Refuse, NotFound, Get, InvalidState, InvalidReason, LosesRace, Ends
<1>3. CASE Create(r)
  BY <1>3, DomainTyped DEF Create, GoesOn
<1>4. CASE Look(r)
  BY <1>1, <1>4 DEF Look, GoesOn
<1>5. CASE ReadRow(r)
  <2>1. Rehydrated(orders[op[r].order]) \in Aggregates
    BY DomainTyped DEF TypeOK
  <2>2. QED
    BY <1>5, <2>1 DEF ReadRow, GoesOn
<1>6. CASE Confirm(r)
  BY <1>1, <1>6, DomainTyped DEF Confirm, GoesOn
<1>7. CASE Cancel(r)
  BY <1>1, <1>7, DomainTyped DEF Cancel, GoesOn
<1>8. CASE InsertOrder(r) \/ UpdateOrder(r) \/ RecordEvents(r)
  BY <1>1, <1>8 DEF InsertOrder, UpdateOrder, RecordEvents, GoesOn
<1>9. CASE Commit(r)
  BY <1>9 DEF Commit, Commits
<1>10. ASSUME NEW status \in {"500", "lost"}, CommitUnacknowledged(r, status) PROVE Commits(r)
  BY <1>10 DEF CommitUnacknowledged, Commits
<1>11. ASSUME NEW status \in {"500", "lost"}, Abort(r, status) PROVE Ends(r)
  BY <1>11 DEF Abort, Ends
<1>12. QED
  BY <1>2, <1>3, <1>4, <1>5, <1>6, <1>7, <1>8, <1>9, <1>10, <1>11 DEF Step

LEMMA NextShapes ==
    ASSUME TypeOK, [Next]_vars
    PROVE  \/ UNCHANGED vars
           \/ \E r \in Requests : GoesOn(r) \/ Ends(r) \/ Commits(r)
BY StepShapes DEF Next

LEMMA NextTyped == TypeOK /\ [Next]_vars => TypeOK'
<1> SUFFICES ASSUME TypeOK, [Next]_vars PROVE TypeOK'
  OBVIOUS
<1>1. ASSUME NEW r \in Requests, GoesOn(r) PROVE TypeOK'
  <2>1. op[r].order \in Orders
    BY DomainTyped
  <2>2. lock' \in [Orders -> Requests \cup {Nobody}]
    BY <1>1, <2>1 DEF TypeOK, GoesOn
  <2>3. QED
    BY <1>1, <2>2 DEF TypeOK, GoesOn, GoesTo, tables
<1>2. ASSUME NEW r \in Requests, Ends(r) PROVE TypeOK'
  <2>1. lock' \in [Orders -> Requests \cup {Nobody}]
    BY <1>2 DEF TypeOK, Ends, Unlock
  <2>2. QED
    BY <1>2, <2>1 DEF TypeOK, Ends, EndsWith, tables
<1>3. ASSUME NEW r \in Requests, Commits(r) PROVE TypeOK'
  <2>1. mem' \in [Requests -> Aggregates]
    BY <1>3, DomainTyped DEF TypeOK, Commits
  <2>2. /\ pc' = [pc EXCEPT ![r] = "done"] /\ op' = op
        /\ answer' \in [Requests -> {"none", "200", "201", "400", "404", "409", "500", "lost"}]
    BY <1>3 DEF TypeOK, Commits, EndsWith
  <2>3. CommitTables(r)
    BY <1>3 DEF Commits
  <2>4. QED
    BY <2>1, <2>2, <2>3, CommitTyped DEF TypeOK
<1>4. CASE UNCHANGED vars
  BY <1>4 DEF TypeOK, vars
<1>5. QED
  BY <1>1, <1>2, <1>3, <1>4, NextShapes

(***************************************************************************)
(* Every reachable state of the ordering API is well typed.                *)
(***************************************************************************)
THEOREM TypeCorrect == Spec => []TypeOK
BY InitTyped, NextTyped, PTL DEF Spec

-----------------------------------------------------------------------------
(* The inductive invariant.                                                *)

LEMMA InitInv == Init => IndInv
<1> SUFFICES ASSUME Init PROVE IndInv
  OBVIOUS
<1>1. TypeOK
  BY InitTyped
<1>2. RowsAreKnown /\ ReadsAreReal /\ SavesAreOwn /\ LocksProtect /\ AnswersAreLast
  BY DEF Init, RowsAreKnown, ReadsAreReal, SavesAreOwn, Saving, LocksProtect, AnswersAreLast
<1>3. RowsAreCreated /\ EventsAreOfCommits
  BY DEF Init, RowsAreCreated, EventsAreOfCommits
<1>4. OutboxMirrorsOrders
  BY DEF Init, OutboxMirrorsOrders, EventsOf, NoRow
<1>5. SuccessIsDurable /\ ConflictIsReal /\ SnapshotIsWhole
  BY DEF Init, SuccessIsDurable, ConflictIsReal, SnapshotIsWhole
<1>6. QED
  BY <1>1, <1>2, <1>3, <1>4, <1>5 DEF IndInv

ConfirmedRow == [status |-> "CONFIRMED", version |-> 2]

CancelledRow == [status |-> "CANCELLED", version |-> 2]

(***************************************************************************)
(* The move of an order: from no row to PENDING, or from there to the      *)
(* state a request asked for, with its event n.                            *)
(***************************************************************************)
Moves(r, o, n) ==
    /\ o = op[r].order
    /\ orders' = [orders EXCEPT ![o] = orders'[o]]
    /\ outbox' = outbox \cup {n}
    /\ n.id = r /\ n.aggregateId = o
    /\ \/ /\ op[r].kind = "create" /\ r = o
          /\ orders[o] = NoRow /\ orders'[o] = PendingRow
          /\ n.type = "created" /\ n.aggregateVersion = 1
          /\ items' = items \cup {o}
       \/ /\ orders[o] = PendingRow
          /\ n.aggregateVersion = 2
          /\ items' = items
          /\ \/ op[r].kind = "confirm" /\ orders'[o] = ConfirmedRow /\ n.type = "confirmed"
             \/ op[r].kind = "cancel" /\ orders'[o] = CancelledRow /\ n.type = "cancelled"

(***************************************************************************)
(* A COMMIT is such a move.                                                *)
(***************************************************************************)
LEMMA CommitEffect ==
    ASSUME IndInv, NEW r \in Requests, Commits(r)
    PROVE  \E n \in outbox' : Moves(r, op[r].order, n)
<1> USE DEF IndInv
<1> DEFINE o == op[r].order
<1>1. /\ o \in Orders
      /\ orders' = [orders EXCEPT ![o] = [status |-> mem[r].status, version |-> mem[r].version]]
      /\ items' = IF mem[r].original = 0 THEN items \cup {o} ELSE items
      /\ outbox' = outbox \cup mem[r].events
  BY DomainTyped DEF Commits, CommitTables
<1>2. orders' = [orders EXCEPT ![o] = orders'[o]]
         /\ orders'[o] = [status |-> mem[r].status, version |-> mem[r].version]
  BY <1>1 DEF TypeOK
<1>3. pc[r] = "recorded" /\ Saving(r)
  BY DEF Commits, Saving
<1>4. CASE op[r].kind = "create"
  <2> DEFINE n == Event(r, "created", 1)
  <2>1. mem[r] = Created(r)
    BY <1>3, <1>4 DEF SavesAreOwn
  <2>2. /\ mem[r].status = "PENDING" /\ mem[r].version = 1 /\ mem[r].original = 0
        /\ mem[r].events = {n}
    BY <2>1 DEF Created
  <2>3. o = r /\ orders[o] = NoRow
    BY <1>3, <1>4 DEF RowsAreCreated, Orders
  <2>4. n.id = r /\ n.aggregateId = o /\ n.type = "created" /\ n.aggregateVersion = 1
    BY DEF Event
  <2> HIDE DEF n
  <2>5. Moves(r, o, n)
    BY <1>1, <1>2, <1>4, <2>2, <2>3, <2>4 DEF Moves, PendingRow
  <2>6. QED
    BY <1>1, <2>2, <2>5
<1>5. CASE op[r].kind = "confirm"
  <2> DEFINE n == Event(r, "confirmed", 2)
  <2>1. mem[r] = Confirmed(r, Rehydrated(PendingRow))
    BY <1>3, <1>5 DEF SavesAreOwn
  <2>2. /\ mem[r].status = "CONFIRMED" /\ mem[r].version = 2 /\ mem[r].original = 1
        /\ mem[r].events = {n}
    BY <2>1 DEF Confirmed, Rehydrated, PendingRow
  <2>3. orders[o] = PendingRow
    BY <1>3, <1>5 DEF LocksProtect
  <2>4. n.id = r /\ n.aggregateId = o /\ n.type = "confirmed" /\ n.aggregateVersion = 2
    BY DEF Event
  <2> HIDE DEF n
  <2>5. Moves(r, o, n)
    BY <1>1, <1>2, <1>5, <2>2, <2>3, <2>4 DEF Moves, ConfirmedRow
  <2>6. QED
    BY <1>1, <2>2, <2>5
<1>6. CASE op[r].kind = "cancel"
  <2> DEFINE n == Event(r, "cancelled", 2)
  <2>1. mem[r] = Cancelled(r, Rehydrated(PendingRow))
    BY <1>3, <1>6 DEF SavesAreOwn
  <2>2. /\ mem[r].status = "CANCELLED" /\ mem[r].version = 2 /\ mem[r].original = 1
        /\ mem[r].events = {n}
    BY <2>1 DEF Cancelled, Rehydrated, PendingRow
  <2>3. orders[o] = PendingRow
    BY <1>3, <1>6 DEF LocksProtect
  <2>4. n.id = r /\ n.aggregateId = o /\ n.type = "cancelled" /\ n.aggregateVersion = 2
    BY DEF Event
  <2> HIDE DEF n
  <2>5. Moves(r, o, n)
    BY <1>1, <1>2, <1>6, <2>2, <2>3, <2>4 DEF Moves, CancelledRow
  <2>6. QED
    BY <1>1, <2>2, <2>5
<1>7. op[r].kind \in {"create", "confirm", "cancel"}
  BY <1>3 DEF SavesAreOwn
<1>8. QED
  BY <1>4, <1>5, <1>6, <1>7

(***************************************************************************)
(* What a step does: it leaves the tables, or an order moves and the       *)
(* request is over.                                                        *)
(***************************************************************************)
LEMMA StepEffect ==
    ASSUME IndInv, [Next]_vars
    PROVE  \/ UNCHANGED tables
           \/ \E r \in Requests : Commits(r) /\ \E n \in outbox' : Moves(r, op[r].order, n)
<1>1. TypeOK
  BY DEF IndInv
<1>2. ASSUME NEW r \in Requests, GoesOn(r) \/ Ends(r) PROVE UNCHANGED tables
  BY <1>2 DEF GoesOn, Ends
<1>3. CASE UNCHANGED vars
  BY <1>3 DEF vars, tables
<1>4. QED
  BY <1>1, <1>2, <1>3, NextShapes, CommitEffect

(***************************************************************************)
(* What a step does to the requests: what they ask for never changes, and  *)
(* what is over stays over, with its answer.                               *)
(***************************************************************************)
LEMMA RequestEffect ==
    ASSUME TypeOK, [Next]_vars
    PROVE  /\ op' = op
           /\ \A q \in Requests : pc[q] = "done" => pc'[q] = "done" /\ answer'[q] = answer[q]
           /\ \A q \in Requests : pc'[q] # "done" => answer'[q] = answer[q] /\ pc[q] # "done"
<1>1. ASSUME NEW r \in Requests, GoesOn(r)
      PROVE  /\ op' = op /\ answer' = answer
             /\ \A q \in Requests : pc'[q] = pc[q] \/ (q = r /\ pc[r] # "done" /\ pc'[q] # "done")
  BY <1>1 DEF TypeOK, GoesOn, GoesTo
<1>2. ASSUME NEW r \in Requests, Ends(r) \/ Commits(r)
      PROVE  /\ op' = op /\ pc[r] # "done" /\ pc'[r] = "done"
             /\ \A q \in Requests \ {r} : pc'[q] = pc[q] /\ answer'[q] = answer[q]
  BY <1>2 DEF TypeOK, Ends, Commits, EndsWith
<1>3. CASE UNCHANGED vars
  BY <1>3 DEF vars
<1>4. CASE \E r \in Requests : GoesOn(r)
  BY <1>1, <1>4
<1>5. CASE \E r \in Requests : Ends(r) \/ Commits(r)
  BY <1>2, <1>5
<1>6. QED
  BY <1>3, <1>4, <1>5, NextShapes

(***************************************************************************)
(* The rows of the table orders: known, and moving one way.                *)
(***************************************************************************)
LEMMA RowsMove ==
    ASSUME IndInv, [Next]_vars, NEW o \in Orders
    PROVE  \/ orders'[o] = orders[o]
           \/ orders[o] = NoRow /\ orders'[o] = PendingRow
           \/ orders[o] = PendingRow /\ orders'[o] \in {ConfirmedRow, CancelledRow}
<1>1. orders \in [Orders -> Rows]
  BY DEF IndInv, TypeOK
<1>2. ASSUME NEW r \in Requests, NEW n \in outbox', Moves(r, op[r].order, n)
      PROVE  \/ orders'[o] = orders[o]
             \/ orders[o] = NoRow /\ orders'[o] = PendingRow
             \/ orders[o] = PendingRow /\ orders'[o] \in {ConfirmedRow, CancelledRow}
  BY <1>1, <1>2 DEF Moves
<1>3. QED
  BY <1>2, StepEffect DEF tables

\* The rows are different.
LEMMA RowsDiffer ==
    /\ NoRow # PendingRow /\ NoRow # ConfirmedRow /\ NoRow # CancelledRow
    /\ PendingRow # ConfirmedRow /\ PendingRow # CancelledRow /\ ConfirmedRow # CancelledRow
<1>1. NoRow.version = 0 /\ PendingRow.version = 1
         /\ ConfirmedRow.version = 2 /\ CancelledRow.version = 2
         /\ ConfirmedRow.status # CancelledRow.status
  BY DEF NoRow, PendingRow, ConfirmedRow, CancelledRow
<1>2. QED
  BY <1>1

LEMMA RowsStep == IndInv /\ [Next]_vars => RowsAreKnown' /\ RowsAreCreated'
<1> SUFFICES ASSUME IndInv, [Next]_vars PROVE RowsAreKnown' /\ RowsAreCreated'
  OBVIOUS
<1> USE DEF IndInv
<1>1. RowsAreKnown'
  BY RowsMove DEF RowsAreKnown, ConfirmedRow, CancelledRow
<1>2. CASE UNCHANGED tables
  <2>1. orders' = orders /\ items' = items /\ op' = op
    BY <1>2, RequestEffect DEF tables
  <2>2. \A o \in Orders : pc[o] = "done" => pc'[o] = "done"
    BY RequestEffect DEF Orders
  <2>3. QED
    BY <1>1, <2>1, <2>2 DEF RowsAreCreated
<1>3. CASE \E r \in Requests : Commits(r) /\ \E n \in outbox' : Moves(r, op[r].order, n)
  <2>1. PICK r \in Requests : Commits(r) /\ \E n \in outbox' : Moves(r, op[r].order, n)
    BY <1>3
  <2>2. PICK n \in outbox' : Moves(r, op[r].order, n)
    BY <2>1
  <2>3. pc'[r] = "done"
    BY <2>1 DEF TypeOK, Commits, EndsWith
  <2>4. \A q \in Requests : op'[q].kind = "create" => op'[q].order = q
    BY RequestEffect DEF RowsAreCreated
  <2>5. ASSUME NEW o \in Orders
        PROVE  /\ orders'[o] # NoRow => op'[o].kind = "create" /\ pc'[o] = "done" /\ o \in items'
               /\ o \in items' => orders'[o] # NoRow
    <3>1. CASE o # op[r].order
      <4>1. orders'[o] = orders[o] /\ (o \in items' <=> o \in items)
        BY <2>2, <3>1 DEF Moves, TypeOK
      <4>2. QED
        BY <4>1, RequestEffect DEF RowsAreCreated, Orders
    <3>2. CASE o = op[r].order /\ r = o /\ op[r].kind = "create" /\ orders'[o] = PendingRow
                  /\ items' = items \cup {o}
      BY <2>3, <3>2, RowsDiffer, RequestEffect
    <3>3. CASE orders[o] = PendingRow /\ items' = items
                  /\ orders'[o] \in {ConfirmedRow, CancelledRow}
      BY <3>3, RowsDiffer, RequestEffect DEF RowsAreCreated, Orders
    <3>4. QED
      BY <2>2, <3>1, <3>2, <3>3 DEF Moves
  <2>6. items' \in SUBSET Orders
    BY NextTyped DEF TypeOK
  <2>7. QED
    BY <1>1, <2>4, <2>5, <2>6 DEF RowsAreCreated
<1>4. QED
  BY <1>1, <1>2, <1>3, StepEffect

(***************************************************************************)
(* What the requests other than the one that steps hold in memory, and the *)
(* row locks they have.                                                    *)
(***************************************************************************)
LEMMA OthersKeep ==
    ASSUME TypeOK, NEW r \in Requests, GoesOn(r) \/ Ends(r) \/ Commits(r),
           NEW q \in Requests, q # r
    PROVE  /\ pc'[q] = pc[q] /\ mem'[q] = mem[q] /\ answer'[q] = answer[q]
           /\ \A o \in Orders : lock[o] = q => lock'[o] = q \/ o = op[r].order
<1>1. CASE GoesOn(r)
  BY <1>1 DEF TypeOK, GoesOn, GoesTo
<1>2. CASE Ends(r)
  BY <1>2 DEF TypeOK, Ends, EndsWith, Unlock
<1>3. CASE Commits(r)
  BY <1>3 DEF TypeOK, Commits, CommitTables, EndsWith, Unlock
<1>4. QED
  BY <1>1, <1>2, <1>3

(***************************************************************************)
(* The steps that do not end a request.                                    *)
(***************************************************************************)
LEMMA GoesOnSteps ==
    ASSUME TypeOK, NEW r \in Requests, NEW q \in Requests, pc'[q] # "done", pc'[q] # pc[q],
           \/ Step(r)
           \/ \E status \in {"500", "lost"} : CommitUnacknowledged(r, status) \/ Abort(r, status)
    PROVE  /\ q = r
           /\ \/ Create(r) \/ Look(r) \/ ReadRow(r) \/ Confirm(r) \/ Cancel(r)
              \/ InsertOrder(r) \/ UpdateOrder(r) \/ RecordEvents(r)
<1>1. CASE \E status \in {"200", "201", "400", "404", "409", "500", "lost"} : EndsWith(r, status)
  BY <1>1 DEF TypeOK, EndsWith
<1>2. CASE \/ Create(r) \/ Look(r) \/ ReadRow(r) \/ Confirm(r) \/ Cancel(r)
           \/ InsertOrder(r) \/ UpdateOrder(r) \/ RecordEvents(r)
  BY <1>2 DEF TypeOK, Create, Look, ReadRow, Confirm, Cancel, InsertOrder, UpdateOrder,
              RecordEvents, GoesTo
<1>3. QED
  BY <1>1, <1>2 DEF Step, Refuse, NotFound, Get, InvalidState, InvalidReason, LosesRace, Commit,
                    CommitUnacknowledged, Abort

(***************************************************************************)
(* A row that was read stays read: it is there, and if it has moved it was *)
(* the row as it was made.                                                 *)
(***************************************************************************)
LEMMA ReadsStay ==
    ASSUME IndInv, [Next]_vars, NEW o \in Orders, orders[o] # NoRow, NEW m,
           m \in {Rehydrated(PendingRow), Rehydrated(orders[o])}
    PROVE  orders'[o] # NoRow /\ m \in {Rehydrated(PendingRow), Rehydrated(orders'[o])}
BY RowsMove, RowsDiffer

LEMMA ReadsStep == IndInv /\ [Next]_vars => ReadsAreReal'
<1> SUFFICES ASSUME IndInv, [Next]_vars, NEW q \in Requests
             PROVE  /\ pc'[q] \in {"reading", "rehydrating"} => op'[q].kind # "create"
                    /\ pc'[q] = "rehydrating" =>
                          /\ orders'[op'[q].order] # NoRow
                          /\ mem'[q] \in {Rehydrated(PendingRow), Rehydrated(orders'[op'[q].order])}
  BY DEF ReadsAreReal, Rehydrated, PendingRow
<1> USE DEF IndInv
<1>1. op' = op /\ op[q].order \in Orders
  BY RequestEffect, DomainTyped
<1>2. CASE pc'[q] = pc[q] /\ mem'[q] = mem[q]
  BY <1>1, <1>2, ReadsStay DEF ReadsAreReal
<1>3. CASE UNCHANGED vars
  BY <1>2, <1>3 DEF vars
<1>4. ASSUME NEW r \in Requests,
             \/ Step(r)
             \/ \E status \in {"500", "lost"} : CommitUnacknowledged(r, status) \/ Abort(r, status)
      PROVE  /\ pc'[q] \in {"reading", "rehydrating"} => op'[q].kind # "create"
             /\ pc'[q] = "rehydrating" =>
                   /\ orders'[op'[q].order] # NoRow
                   /\ mem'[q] \in {Rehydrated(PendingRow), Rehydrated(orders'[op'[q].order])}
  <2>1. CASE q # r
    BY <1>2, <1>4, <2>1, StepShapes, OthersKeep
  <2>2. CASE q = r /\ Look(r)
    BY <1>1, <2>2 DEF TypeOK, Look, GoesTo
  <2>3. CASE q = r /\ ReadRow(r)
    <3>1. /\ pc[q] = "reading" /\ orders' = orders /\ orders[op[q].order] # NoRow
          /\ mem'[q] = Rehydrated(orders[op[q].order])
      BY <2>3 DEF TypeOK, ReadRow, tables
    <3>2. QED
      BY <1>1, <3>1 DEF ReadsAreReal
  <2>4. CASE q = r /\ pc'[q] \in {"reading", "rehydrating"}
    <3>1. pc'[q] # pc[q] \/ Look(r) \/ ReadRow(r)
      BY <1>4, <2>4
         DEF TypeOK, Step, Refuse, Create, Look, ReadRow, NotFound, Get, InvalidState, InvalidReason,
             Confirm, Cancel, InsertOrder, UpdateOrder, LosesRace, RecordEvents, Commit,
             CommitUnacknowledged, Abort, GoesTo, EndsWith
    <3>2. Look(r) \/ ReadRow(r)
      BY <1>4, <2>4, <3>1, GoesOnSteps
         DEF TypeOK, Create, Confirm, Cancel, InsertOrder, UpdateOrder, RecordEvents, GoesTo
    <3>3. QED
      BY <2>2, <2>3, <2>4, <3>2
  <2>5. QED
    BY <2>1, <2>4
<1>5. QED
  BY <1>3, <1>4 DEF Next

(***************************************************************************)
(* An aggregate that was read PENDING is the row as it was made.           *)
(***************************************************************************)
LEMMA ReadPending ==
    ASSUME IndInv, NEW q \in Requests, pc[q] = "rehydrating", mem[q].status = "PENDING"
    PROVE  mem[q] = Rehydrated(PendingRow) /\ orders[op[q].order] # NoRow
<1>1. orders[op[q].order] # NoRow
         /\ mem[q] \in {Rehydrated(PendingRow), Rehydrated(orders[op[q].order])}
  BY DEF IndInv, ReadsAreReal
<1>2. orders[op[q].order] \in {PendingRow, ConfirmedRow, CancelledRow}
  BY <1>1, DomainTyped DEF IndInv, RowsAreKnown, ConfirmedRow, CancelledRow
<1>3. Rehydrated(ConfirmedRow).status = "CONFIRMED" /\ Rehydrated(CancelledRow).status = "CANCELLED"
  BY DEF Rehydrated, ConfirmedRow, CancelledRow
<1>4. QED
  BY <1>1, <1>2, <1>3

\* What SavesAreOwn says of one request.
Own(q) ==
    \/ op[q].kind = "create" /\ mem[q] = Created(q)
    \/ /\ \/ op[q].kind = "confirm" /\ mem[q] = Confirmed(q, Rehydrated(PendingRow))
          \/ op[q].kind = "cancel" /\ mem[q] = Cancelled(q, Rehydrated(PendingRow))
       /\ orders[op[q].order] # NoRow

LEMMA SavesStep == IndInv /\ [Next]_vars => SavesAreOwn'
<1> SUFFICES ASSUME IndInv, [Next]_vars, NEW q \in Requests, Saving(q)' PROVE Own(q)'
  BY DEF SavesAreOwn, Own
<1> USE DEF IndInv
<1>1. op' = op /\ op[q].order \in Orders
  BY RequestEffect, DomainTyped
<1>2. orders[op[q].order] # NoRow => orders'[op'[q].order] # NoRow
  BY <1>1, RowsMove, RowsDiffer
<1>3. /\ Created(q)' = Created(q)
      /\ Confirmed(q, Rehydrated(PendingRow))' = Confirmed(q, Rehydrated(PendingRow))
      /\ Cancelled(q, Rehydrated(PendingRow))' = Cancelled(q, Rehydrated(PendingRow))
  BY <1>1 DEF Created, Confirmed, Cancelled, Rehydrated, PendingRow, Event
<1>4. CASE Own(q) /\ mem'[q] = mem[q]
  BY <1>1, <1>2, <1>3, <1>4 DEF Own
<1>5. CASE Saving(q) /\ mem'[q] = mem[q]
  BY <1>4, <1>5 DEF SavesAreOwn, Own
<1>6. CASE UNCHANGED vars
  BY <1>5, <1>6 DEF vars, Saving
<1>7. ASSUME NEW r \in Requests,
             \/ Step(r)
             \/ \E status \in {"500", "lost"} : CommitUnacknowledged(r, status) \/ Abort(r, status)
      PROVE  Own(q)'
  <2>1. CASE q # r
    BY <1>5, <1>7, <2>1, StepShapes, OthersKeep DEF Saving
  <2>2. CASE q = r
    <3>1. pc'[q] # "done" /\ pc'[q] \notin {"reading", "rehydrating"}
      BY DEF Saving
    <3>2. \/ Create(r) \/ Confirm(r) \/ Cancel(r)
          \/ InsertOrder(r) \/ UpdateOrder(r) \/ RecordEvents(r)
      BY <1>7, <2>2, <3>1
         DEF TypeOK, Step, Refuse, Look, ReadRow, NotFound, Get, InvalidState, InvalidReason,
             LosesRace, Commit, CommitUnacknowledged, Abort, GoesTo, EndsWith
    <3>3. CASE Create(r)
      <4>1. mem'[q] = Created(q) /\ op[q].kind = "create"
        BY <2>2, <3>3 DEF TypeOK, Create
      <4>2. QED
        BY <1>1, <1>3, <4>1 DEF Own
    <3>4. CASE Confirm(r)
      <4>1. /\ mem'[q] = Confirmed(q, mem[q]) /\ op[q].kind = "confirm"
            /\ pc[q] = "rehydrating" /\ mem[q].status = "PENDING"
        BY <2>2, <3>4 DEF TypeOK, Confirm
      <4>2. mem[q] = Rehydrated(PendingRow) /\ orders[op[q].order] # NoRow
        BY <4>1, ReadPending
      <4>3. QED
        BY <1>1, <1>2, <1>3, <4>1, <4>2 DEF Own
    <3>5. CASE Cancel(r)
      <4>1. /\ mem'[q] = Cancelled(q, mem[q]) /\ op[q].kind = "cancel"
            /\ pc[q] = "rehydrating" /\ mem[q].status = "PENDING"
        BY <2>2, <3>5 DEF TypeOK, Cancel
      <4>2. mem[q] = Rehydrated(PendingRow) /\ orders[op[q].order] # NoRow
        BY <4>1, ReadPending
      <4>3. QED
        BY <1>1, <1>2, <1>3, <4>1, <4>2 DEF Own
    <3>6. CASE InsertOrder(r) \/ UpdateOrder(r) \/ RecordEvents(r)
      <4>1. Saving(q) /\ mem'[q] = mem[q]
        BY <2>2, <3>6 DEF InsertOrder, UpdateOrder, RecordEvents, Saving
      <4>2. QED
        BY <1>5, <4>1
    <3>7. QED
      BY <3>2, <3>3, <3>4, <3>5, <3>6
  <2>3. QED
    BY <2>1, <2>2
<1>8. QED
  BY <1>6, <1>7 DEF Next

(***************************************************************************)
(* Of the requests that hold a row lock and those that commit, no two are  *)
(* at the same order.                                                      *)
(***************************************************************************)
LEMMA CommitFindsNoLock ==
    ASSUME IndInv, NEW r \in Requests, Commits(r), NEW q \in Requests, q # r,
           lock[op[q].order] = q, orders[op[q].order] = PendingRow
    PROVE  op[q].order # op[r].order
<1>1. pc[r] = "recorded"
  BY DEF Commits
<1>2. CASE op[r].kind = "create"
  <2>1. orders[op[r].order] = NoRow
    BY <1>1, <1>2 DEF IndInv, RowsAreCreated, Orders
  <2>2. QED
    BY <2>1, RowsDiffer
<1>3. CASE op[r].kind # "create"
  BY <1>1, <1>3 DEF IndInv, LocksProtect
<1>4. QED
  BY <1>2, <1>3

LEMMA LocksStep == IndInv /\ [Next]_vars => LocksProtect'
<1> SUFFICES ASSUME IndInv, [Next]_vars, NEW q \in Requests,
                    pc'[q] \in {"written", "recorded"}, op'[q].kind # "create"
             PROVE  lock'[op'[q].order] = q /\ orders'[op'[q].order] = PendingRow
  BY DEF LocksProtect, PendingRow
<1> USE DEF IndInv
<1>1. op' = op /\ op[q].order \in Orders
  BY RequestEffect, DomainTyped
<1>2. q # Nobody
  BY OrderingAssumption
<1>3. CASE UNCHANGED vars
  BY <1>3 DEF vars, LocksProtect
<1>4. ASSUME NEW r \in Requests,
             \/ Step(r)
             \/ \E status \in {"500", "lost"} : CommitUnacknowledged(r, status) \/ Abort(r, status)
      PROVE  lock'[op'[q].order] = q /\ orders'[op'[q].order] = PendingRow
  <2>1. CASE q # r
    <3>1. GoesOn(r) \/ Ends(r) \/ Commits(r)
      BY <1>4, StepShapes
    <3>2. lock[op[q].order] = q /\ orders[op[q].order] = PendingRow
      BY <1>1, <2>1, <3>1, OthersKeep DEF LocksProtect
    <3>3. CASE GoesOn(r) /\ UNCHANGED lock
      BY <1>1, <3>2, <3>3 DEF GoesOn, tables
    <3>4. CASE GoesOn(r) /\ lock' # lock
      <4>1. UpdateOrder(r)
        BY <1>4, <3>4
           DEF GoesOn, GoesTo, Step, Refuse, Create, Look, ReadRow, NotFound, Get, InvalidState,
               InvalidReason, Confirm, Cancel, InsertOrder, LosesRace, RecordEvents, Commit,
               CommitUnacknowledged, Abort, EndsWith, TypeOK
      <4>2. lock[op[r].order] = Nobody /\ UNCHANGED orders
        BY <4>1 DEF UpdateOrder, tables
      <4>3. QED
        BY <1>1, <1>2, <2>1, <3>1, <3>2, <4>2, OthersKeep
    <3>5. CASE Ends(r)
      BY <1>1, <2>1, <3>2, <3>5 DEF TypeOK, Ends, Unlock, tables
    <3>6. CASE Commits(r)
      <4>1. op[q].order # op[r].order
        BY <2>1, <3>2, <3>6, CommitFindsNoLock
      <4>2. lock'[op[q].order] = q
        BY <1>1, <2>1, <3>2, <3>6, <4>1, OthersKeep
      <4>3. orders'[op[q].order] = orders[op[q].order]
        BY <1>1, <3>6, <4>1 DEF TypeOK, Commits, CommitTables
      <4>4. QED
        BY <1>1, <3>2, <4>2, <4>3
    <3>7. QED
      BY <3>1, <3>3, <3>4, <3>5, <3>6
  <2>2. CASE q = r
    <3>1. InsertOrder(r) \/ UpdateOrder(r) \/ RecordEvents(r)
      BY <1>4, <2>2
         DEF TypeOK, Step, Refuse, Create, Look, ReadRow, NotFound, Get, InvalidState, InvalidReason,
             Confirm, Cancel, LosesRace, Commit, CommitUnacknowledged, Abort, GoesTo, EndsWith
    <3>2. CASE InsertOrder(r)
      <4>1. Own(q) /\ mem[q].original = 0
        BY <2>2, <3>2 DEF InsertOrder, SavesAreOwn, Saving, Own
      <4>2. Confirmed(q, Rehydrated(PendingRow)).original = 1
               /\ Cancelled(q, Rehydrated(PendingRow)).original = 1
        BY DEF Confirmed, Cancelled, Rehydrated, PendingRow
      <4>3. QED
        BY <1>1, <4>1, <4>2 DEF Own
    <3>3. CASE UpdateOrder(r)
      <4>1. /\ pc[q] = "saving" /\ orders[op[q].order].version = mem[q].original
            /\ lock'[op[q].order] = q /\ orders' = orders
        BY <1>1, <2>2, <3>3 DEF TypeOK, UpdateOrder, tables
      <4>2. Own(q)
        BY <4>1 DEF SavesAreOwn, Saving, Own
      <4>3. mem[q].original = 1
        BY <1>1, <4>2 DEF Own, Confirmed, Cancelled, Rehydrated, PendingRow
      <4>4. orders[op[q].order] \in {NoRow, PendingRow, ConfirmedRow, CancelledRow}
        BY <1>1 DEF RowsAreKnown, ConfirmedRow, CancelledRow
      <4>5. orders[op[q].order] = PendingRow
        BY <4>1, <4>3, <4>4 DEF NoRow, ConfirmedRow, CancelledRow
      <4>6. QED
        BY <1>1, <4>1, <4>5
    <3>4. CASE RecordEvents(r)
      <4>1. pc[q] = "written" /\ UNCHANGED <<orders, lock>>
        BY <2>2, <3>4 DEF RecordEvents, tables
      <4>2. QED
        BY <1>1, <4>1 DEF LocksProtect
    <3>5. QED
      BY <3>1, <3>2, <3>3, <3>4
  <2>3. QED
    BY <2>1, <2>2
<1>5. QED
  BY <1>3, <1>4 DEF Next

LEMMA EventsStep == IndInv /\ [Next]_vars => EventsAreOfCommits' /\ AnswersAreLast'
<1> SUFFICES ASSUME IndInv, [Next]_vars PROVE EventsAreOfCommits' /\ AnswersAreLast'
  OBVIOUS
<1> USE DEF IndInv
<1>1. AnswersAreLast'
  BY RequestEffect DEF AnswersAreLast
<1>2. ASSUME NEW n \in outbox
      PROVE  /\ pc'[n.id] = "done"
             /\ n.aggregateId = op'[n.id].order
             /\ answer'[n.id] \in {"200", "201", "500", "lost"}
  <2>1. n.id \in Requests
    BY DEF TypeOK, DomainEvents
  <2>2. QED
    BY <2>1, RequestEffect DEF EventsAreOfCommits
<1>3. CASE UNCHANGED tables
  BY <1>1, <1>2, <1>3 DEF EventsAreOfCommits, tables
<1>4. ASSUME NEW r \in Requests, Commits(r), NEW n \in outbox', Moves(r, op[r].order, n)
      PROVE  /\ pc'[n.id] = "done"
             /\ n.aggregateId = op'[n.id].order
             /\ answer'[n.id] \in {"200", "201", "500", "lost"}
  <2>1. pc'[r] = "done" /\ answer'[r] \in {"200", "201", "500", "lost"}
    BY <1>4 DEF TypeOK, Commits, EndsWith
  <2>2. n.id = r /\ n.aggregateId = op[r].order
    BY <1>4 DEF Moves
  <2>3. QED
    BY <2>1, <2>2, RequestEffect
<1>5. CASE \E r \in Requests : Commits(r) /\ \E n \in outbox' : Moves(r, op[r].order, n)
  <2>1. PICK r \in Requests : Commits(r) /\ \E n \in outbox' : Moves(r, op[r].order, n)
    BY <1>5
  <2>2. PICK n \in outbox' : Moves(r, op[r].order, n)
    BY <2>1
  <2>3. outbox' = outbox \cup {n}
    BY <2>2 DEF Moves
  <2>4. QED
    BY <1>1, <1>2, <1>4, <2>1, <2>2, <2>3 DEF EventsAreOfCommits
<1>6. QED
  BY <1>3, <1>5, StepEffect

(***************************************************************************)
(* The events of an order and its row, after a move of some order.         *)
(***************************************************************************)
LEMMA MoveEffect ==
    ASSUME IndInv, NEW r \in Requests, NEW n \in outbox', Moves(r, op[r].order, n), NEW o \in Orders
    PROVE  /\ o # op[r].order => orders'[o] = orders[o] /\ EventsOf(o)' = EventsOf(o)
           /\ o = op[r].order => EventsOf(o)' = EventsOf(o) \cup {n}
BY DEF IndInv, TypeOK, Moves, EventsOf

\* The outbox has an event of version 1 exactly of an order there is.
LEMMA EventsOfRow ==
    ASSUME IndInv, NEW o \in Orders
    PROVE  /\ orders[o] = NoRow => EventsOf(o) = {}
           /\ orders[o] = PendingRow =>
                 \E e \in EventsOf(o) : /\ EventsOf(o) = {e}
                                        /\ e.type = "created" /\ e.aggregateVersion = 1
<1>1. /\ \A v \in 1 .. orders[o].version : \E n \in EventsOf(o) : n.aggregateVersion = v
      /\ \A n \in EventsOf(o) :
            /\ n.aggregateVersion \in 1 .. orders[o].version
            /\ n.type = IF n.aggregateVersion = 1 THEN "created" ELSE TypeFor(orders[o].status)
      /\ \A n, m \in EventsOf(o) : n.aggregateVersion = m.aggregateVersion => n = m
  BY DEF IndInv, OutboxMirrorsOrders
<1>2. ASSUME orders[o] = NoRow PROVE EventsOf(o) = {}
  <2>1. orders[o].version = 0
    BY <1>2 DEF NoRow
  <2>2. QED
    BY <1>1, <2>1
<1>3. ASSUME orders[o] = PendingRow
      PROVE  \E e \in EventsOf(o) : /\ EventsOf(o) = {e}
                                    /\ e.type = "created" /\ e.aggregateVersion = 1
  <2>1. orders[o].version = 1
    BY <1>3 DEF PendingRow
  <2>2. PICK e \in EventsOf(o) : e.aggregateVersion = 1
    BY <1>1, <2>1
  <2>3. ASSUME NEW m \in EventsOf(o) PROVE m = e
    <3>1. m.aggregateVersion = 1
      BY <1>1, <2>1
    <3>2. QED
      BY <1>1, <2>2, <3>1
  <2>4. e.type = "created"
    BY <1>1, <2>2
  <2>5. QED
    BY <2>2, <2>3, <2>4
<1>4. QED
  BY <1>2, <1>3

LEMMA MirrorStep == IndInv /\ [Next]_vars => OutboxMirrorsOrders'
<1> SUFFICES ASSUME IndInv, [Next]_vars, NEW o \in Orders
             PROVE  /\ \A v \in 1 .. orders'[o].version :
                          \E n \in EventsOf(o)' : n.aggregateVersion = v
                    /\ \A n \in EventsOf(o)' :
                          /\ n.aggregateVersion \in 1 .. orders'[o].version
                          /\ n.type = IF n.aggregateVersion = 1 THEN "created"
                                      ELSE TypeFor(orders'[o].status)
                    /\ \A n, m \in EventsOf(o)' : n.aggregateVersion = m.aggregateVersion => n = m
  BY DEF OutboxMirrorsOrders, TypeFor
<1>1. CASE orders'[o] = orders[o] /\ EventsOf(o)' = EventsOf(o)
  BY <1>1 DEF IndInv, OutboxMirrorsOrders
<1>2. CASE UNCHANGED tables
  BY <1>1, <1>2 DEF tables, EventsOf
<1>3. ASSUME NEW r \in Requests, NEW n \in outbox', Moves(r, op[r].order, n), o = op[r].order
      PROVE  /\ \A v \in 1 .. orders'[o].version : \E k \in EventsOf(o)' : k.aggregateVersion = v
             /\ \A k \in EventsOf(o)' :
                   /\ k.aggregateVersion \in 1 .. orders'[o].version
                   /\ k.type = IF k.aggregateVersion = 1 THEN "created"
                               ELSE TypeFor(orders'[o].status)
             /\ \A k, m \in EventsOf(o)' : k.aggregateVersion = m.aggregateVersion => k = m
  <2>1. EventsOf(o)' = EventsOf(o) \cup {n}
    BY <1>3, MoveEffect
  <2>2. CASE /\ orders[o] = NoRow /\ orders'[o] = PendingRow
             /\ n.type = "created" /\ n.aggregateVersion = 1
    <3>1. EventsOf(o)' = {n}
      BY <2>1, <2>2, EventsOfRow
    <3>2. orders'[o].version = 1
      BY <2>2 DEF PendingRow
    <3>3. QED
      BY <2>2, <3>1, <3>2
  <2>3. CASE /\ orders[o] = PendingRow
             /\ n.aggregateVersion = 2
             /\ \/ orders'[o] = ConfirmedRow /\ n.type = "confirmed"
                \/ orders'[o] = CancelledRow /\ n.type = "cancelled"
    <3>1. PICK e \in EventsOf(o) : /\ EventsOf(o) = {e}
                                   /\ e.type = "created" /\ e.aggregateVersion = 1
      BY <2>3, EventsOfRow
    <3>2. EventsOf(o)' = {e, n}
      BY <2>1, <3>1
    <3>3. orders'[o].version = 2 /\ n.type = TypeFor(orders'[o].status)
      BY <2>3 DEF ConfirmedRow, CancelledRow, TypeFor
    <3>4. QED
      BY <2>3, <3>1, <3>2, <3>3
  <2>4. QED
    BY <1>3, <2>2, <2>3 DEF Moves
<1>4. ASSUME NEW r \in Requests, NEW n \in outbox', Moves(r, op[r].order, n), o # op[r].order
      PROVE  orders'[o] = orders[o] /\ EventsOf(o)' = EventsOf(o)
  BY <1>4, MoveEffect
<1>5. QED
  BY <1>1, <1>2, <1>3, <1>4, StepEffect

(***************************************************************************)
(* Events and terminal rows stay.                                          *)
(***************************************************************************)
LEMMA HistoryStays ==
    ASSUME IndInv, [Next]_vars, NEW o \in Orders
    PROVE  /\ EventsOf(o) \subseteq EventsOf(o)'
           /\ items \subseteq items'
           /\ orders[o].status \in {"CONFIRMED", "CANCELLED"} => orders'[o] = orders[o]
<1>1. EventsOf(o) \subseteq EventsOf(o)'
  BY StepEffect DEF tables, EventsOf, Moves
<1>2. items \subseteq items'
  BY StepEffect DEF tables, Moves
<1>3. orders[o].status \in {"CONFIRMED", "CANCELLED"} => orders[o] # NoRow /\ orders[o] # PendingRow
  BY DEF NoRow, PendingRow
<1>4. QED
  BY <1>1, <1>2, <1>3, RowsMove

(***************************************************************************)
(* How a request ends: the answer to a transition is a success only when   *)
(* its COMMIT is, and 409 only when the order has left PENDING.            *)
(***************************************************************************)
LEMMA EndingEffect ==
    ASSUME IndInv, [Next]_vars, NEW q \in Requests, pc[q] # "done", pc'[q] = "done"
    PROVE  \/ Commits(q)
           \/ Ends(q)
<1>1. PICK r \in Requests : GoesOn(r) \/ Ends(r) \/ Commits(r)
  BY NextShapes DEF IndInv, vars
<1>2. q = r
  BY <1>1, OthersKeep DEF IndInv
<1>3. ~GoesOn(r)
  BY <1>2 DEF GoesOn, GoesTo, IndInv, TypeOK
<1>4. QED
  BY <1>1, <1>2, <1>3

LEMMA SuccessStep == IndInv /\ [Next]_vars => SuccessIsDurable'
<1> SUFFICES ASSUME IndInv, [Next]_vars, NEW q \in Requests,
                    answer'[q] \in {"200", "201"}, op'[q].kind # "get"
             PROVE  /\ \E n \in outbox' : n.aggregateId = op'[q].order /\ n.id = q
                    /\ op'[q].kind = "confirm" => orders'[op'[q].order].status = "CONFIRMED"
                    /\ op'[q].kind = "cancel" => orders'[op'[q].order].status = "CANCELLED"
  BY DEF SuccessIsDurable, EventsOf
<1>1. op' = op /\ op[q].order \in Orders
  BY RequestEffect, DomainTyped DEF IndInv
<1>2. CASE pc[q] = "done"
  <2>1. answer[q] \in {"200", "201"}
    BY <1>2, RequestEffect DEF IndInv
  <2>2. /\ \E n \in EventsOf(op[q].order) : n.id = q
        /\ op[q].kind = "confirm" => orders[op[q].order].status = "CONFIRMED"
        /\ op[q].kind = "cancel" => orders[op[q].order].status = "CANCELLED"
    BY <1>1, <2>1 DEF IndInv, SuccessIsDurable
  <2>3. outbox \subseteq outbox'
    BY StepEffect DEF tables, Moves
  <2>4. /\ op[q].kind = "confirm" => orders'[op[q].order].status = "CONFIRMED"
        /\ op[q].kind = "cancel" => orders'[op[q].order].status = "CANCELLED"
    BY <1>1, <2>2, HistoryStays
  <2>5. QED
    BY <1>1, <2>2, <2>3, <2>4 DEF EventsOf
<1>3. CASE pc'[q] # "done"
  BY <1>3, RequestEffect DEF IndInv, AnswersAreLast
<1>4. CASE Ends(q)
  BY <1>1, <1>4 DEF Ends, EndsWith, Get, IndInv, TypeOK
<1>5. CASE Commits(q)
  <2>1. PICK n \in outbox' : Moves(q, op[q].order, n)
    BY <1>5, CommitEffect
  <2>2. n \in outbox' /\ n.aggregateId = op[q].order /\ n.id = q
    BY <2>1 DEF Moves
  <2>3. /\ op[q].kind = "confirm" => orders'[op[q].order] = ConfirmedRow
        /\ op[q].kind = "cancel" => orders'[op[q].order] = CancelledRow
    BY <2>1 DEF Moves
  <2>4. QED
    BY <1>1, <2>2, <2>3 DEF ConfirmedRow, CancelledRow
<1>6. QED
  BY <1>2, <1>3, <1>4, <1>5, EndingEffect

LEMMA ConflictStep == IndInv /\ [Next]_vars => ConflictIsReal'
<1> SUFFICES ASSUME IndInv, [Next]_vars, NEW q \in Requests, answer'[q] = "409"
             PROVE  orders'[op'[q].order].status \in {"CONFIRMED", "CANCELLED"}
  BY DEF ConflictIsReal
<1>1. op' = op /\ op[q].order \in Orders
  BY RequestEffect, DomainTyped DEF IndInv
<1>2. CASE pc[q] = "done"
  <2>1. answer[q] = "409"
    BY <1>2, RequestEffect DEF IndInv
  <2>2. QED
    BY <1>1, <2>1, HistoryStays DEF IndInv, ConflictIsReal
<1>3. CASE pc'[q] # "done"
  BY <1>3, RequestEffect DEF IndInv, AnswersAreLast
<1>4. CASE Commits(q)
  BY <1>4 DEF Commits, EndsWith, IndInv, TypeOK
<1>5. CASE Ends(q)
  <2>1. orders' = orders /\ (InvalidState(q) \/ LosesRace(q))
    BY <1>5 DEF Ends, EndsWith, tables, IndInv, TypeOK
  <2>2. orders[op[q].order] \in {NoRow, PendingRow, ConfirmedRow, CancelledRow}
    BY <1>1 DEF IndInv, RowsAreKnown, ConfirmedRow, CancelledRow
  <2>3. orders[op[q].order] # NoRow /\ orders[op[q].order] # PendingRow
    <3>1. CASE InvalidState(q)
      <4>1. /\ orders[op[q].order] # NoRow /\ mem[q].status # "PENDING"
            /\ mem[q] \in {Rehydrated(PendingRow), Rehydrated(orders[op[q].order])}
        BY <3>1 DEF InvalidState, IndInv, ReadsAreReal
      <4>2. Rehydrated(PendingRow).status = "PENDING"
        BY DEF Rehydrated, PendingRow
      <4>3. QED
        BY <4>1, <4>2
    <3>2. CASE LosesRace(q)
      <4>1. /\ pc[q] = "saving" /\ mem[q].original # 0
            /\ orders[op[q].order].version # mem[q].original
        BY <3>2 DEF LosesRace
      <4>2. Own(q)
        BY <4>1 DEF IndInv, SavesAreOwn, Saving, Own
      <4>3. Created(q).original = 0 /\ Confirmed(q, Rehydrated(PendingRow)).original = 1
               /\ Cancelled(q, Rehydrated(PendingRow)).original = 1
        BY DEF Created, Confirmed, Cancelled, Rehydrated, PendingRow
      <4>4. mem[q].original = 1 /\ orders[op[q].order] # NoRow
        BY <4>1, <4>2, <4>3 DEF Own
      <4>5. QED
        BY <4>1, <4>4 DEF PendingRow
    <3>3. QED
      BY <2>1, <3>1, <3>2
  <2>4. QED
    BY <1>1, <2>1, <2>2, <2>3 DEF ConfirmedRow, CancelledRow
<1>6. QED
  BY <1>2, <1>3, <1>4, <1>5, EndingEffect

LEMMA SnapshotStep == IndInv /\ [Next]_vars => SnapshotIsWhole'
<1> SUFFICES ASSUME IndInv, [Next]_vars, NEW q \in Requests,
                    op'[q].kind = "get", answer'[q] = "200"
             PROVE  /\ op'[q].order \in items'
                    /\ \/ mem'[q].status = "PENDING" /\ mem'[q].version = 1
                       \/ /\ mem'[q].status = orders'[op'[q].order].status
                          /\ mem'[q].version = orders'[op'[q].order].version
  BY DEF SnapshotIsWhole
<1> DEFINE o == op[q].order
<1>1. op' = op /\ o \in Orders
  BY RequestEffect, DomainTyped DEF IndInv
<1>2. CASE pc[q] = "done"
  <2>1. answer[q] = "200"
    BY <1>2, RequestEffect DEF IndInv
  <2>2. /\ o \in items
        /\ \/ mem[q].status = "PENDING" /\ mem[q].version = 1
           \/ mem[q].status = orders[o].status /\ mem[q].version = orders[o].version
    BY <1>1, <2>1 DEF IndInv, SnapshotIsWhole
  <2>3. mem'[q] = mem[q]
    <3>1. ASSUME NEW r \in Requests, GoesOn(r) \/ Ends(r) \/ Commits(r) PROVE mem'[q] = mem[q]
      BY <1>2, <3>1, OthersKeep DEF IndInv, GoesOn, Ends, Commits
    <3>2. QED
      BY <3>1, NextShapes DEF IndInv, vars
  <2>4. o \in items' /\ orders[o] # NoRow
    BY <1>1, <2>2, HistoryStays DEF IndInv, RowsAreCreated
  <2>5. orders'[o] = orders[o] \/ orders[o] = PendingRow
    BY <1>1, <2>4, RowsMove
  <2>6. QED
    BY <1>1, <2>2, <2>3, <2>4, <2>5 DEF PendingRow
<1>3. CASE pc'[q] # "done"
  BY <1>3, RequestEffect DEF IndInv, AnswersAreLast
<1>4. CASE Commits(q)
  BY <1>1, <1>4, CommitEffect DEF Moves
<1>5. CASE Ends(q)
  <2>1. Get(q) /\ UNCHANGED <<orders, items, mem>>
    BY <1>5 DEF Ends, EndsWith, tables, IndInv, TypeOK
  <2>2. orders[o] # NoRow /\ mem[q] \in {Rehydrated(PendingRow), Rehydrated(orders[o])}
    BY <2>1 DEF Get, IndInv, ReadsAreReal
  <2>3. o \in items
    BY <1>1, <2>2 DEF IndInv, RowsAreCreated
  <2>4. QED
    BY <1>1, <2>1, <2>2, <2>3 DEF Rehydrated, PendingRow
<1>6. QED
  BY <1>2, <1>3, <1>4, <1>5, EndingEffect

-----------------------------------------------------------------------------
(***************************************************************************)
(* The invariant is inductive: it holds in every reachable state.          *)
(***************************************************************************)
THEOREM Inductive == Spec => []IndInv
<1>1. IndInv /\ [Next]_vars => IndInv'
  <2> SUFFICES ASSUME IndInv, [Next]_vars PROVE IndInv'
    OBVIOUS
  <2>1. TypeOK' /\ RowsAreKnown' /\ RowsAreCreated'
    BY NextTyped, RowsStep DEF IndInv
  <2>2. ReadsAreReal' /\ SavesAreOwn' /\ LocksProtect'
    BY ReadsStep, SavesStep, LocksStep
  <2>3. EventsAreOfCommits' /\ AnswersAreLast' /\ OutboxMirrorsOrders'
    BY EventsStep, MirrorStep
  <2>4. SuccessIsDurable' /\ ConflictIsReal' /\ SnapshotIsWhole'
    BY SuccessStep, ConflictStep, SnapshotStep
  <2>5. QED
    BY <2>1, <2>2, <2>3, <2>4 DEF IndInv
<1>2. QED
  BY InitInv, <1>1, PTL DEF Spec

(***************************************************************************)
(* The outbox holds exactly one event for every version every order went   *)
(* through: save writes both in one transaction, under the version check.  *)
(***************************************************************************)
THEOREM HistoryIsWhole == Spec => []OutboxMirrorsOrders
<1>1. IndInv => OutboxMirrorsOrders
  BY DEF IndInv
<1>2. QED
  BY Inductive, <1>1, PTL

(***************************************************************************)
(* A client that was told of a success finds it in the tables, for good,   *)
(* however many requests raced for the order.                              *)
(***************************************************************************)
THEOREM NoLostUpdate == Spec => []SuccessIsDurable
<1>1. IndInv => SuccessIsDurable
  BY DEF IndInv
<1>2. QED
  BY Inductive, <1>1, PTL

(***************************************************************************)
(* Nobody is told of a conflict before another has won.                    *)
(***************************************************************************)
THEOREM NoFalseConflict == Spec => []ConflictIsReal
<1>1. IndInv => ConflictIsReal
  BY DEF IndInv
<1>2. QED
  BY Inductive, <1>1, PTL

(***************************************************************************)
(* The two SELECTs of findById, which share no transaction, still make a   *)
(* whole snapshot.                                                         *)
(***************************************************************************)
THEOREM ReadsAreWhole == Spec => []SnapshotIsWhole
<1>1. IndInv => SnapshotIsWhole
  BY DEF IndInv
<1>2. QED
  BY Inductive, <1>1, PTL

(***************************************************************************)
(* A request that was refused has left no event behind.                    *)
(***************************************************************************)
THEOREM RefusalsAreClean == Spec => []RefusalLeavesNoTrace
<1>1. IndInv => RefusalLeavesNoTrace
  BY DEF IndInv, EventsAreOfCommits, RefusalLeavesNoTrace
<1>2. QED
  BY Inductive, <1>1, PTL

(***************************************************************************)
(* An order and the outbox move in the same step, one version and one      *)
(* event at a time, and never out of a terminal state.                     *)
(***************************************************************************)
THEOREM DualWriteIsAtomic == Spec => OrdersMoveWithTheirEvents
<1> DEFINE A ==
      \A o \in Orders :
          (orders[o] # orders'[o] \/ EventsOf(o) # EventsOf(o)') =>
              /\ orders[o].status \in {"NONE", "PENDING"}
              /\ orders'[o].version = orders[o].version + 1
              /\ \E n \in EventsOf(o)' :
                    /\ EventsOf(o)' \ EventsOf(o) = {n}
                    /\ n.aggregateVersion = orders'[o].version
<1>1. IndInv /\ [Next]_vars => [A]_vars
  <2> SUFFICES ASSUME IndInv, [Next]_vars PROVE A
    OBVIOUS
  <2>1. CASE UNCHANGED tables
    BY <2>1 DEF tables, EventsOf
  <2>2. ASSUME NEW r \in Requests, NEW n \in outbox', Moves(r, op[r].order, n),
               NEW o \in Orders, orders[o] # orders'[o] \/ EventsOf(o) # EventsOf(o)'
        PROVE  /\ orders[o].status \in {"NONE", "PENDING"}
               /\ orders'[o].version = orders[o].version + 1
               /\ \E k \in EventsOf(o)' :
                     /\ EventsOf(o)' \ EventsOf(o) = {k}
                     /\ k.aggregateVersion = orders'[o].version
    <3>1. o = op[r].order /\ EventsOf(o)' = EventsOf(o) \cup {n}
      BY <2>2, MoveEffect
    <3>2. CASE orders[o] = NoRow /\ orders'[o] = PendingRow /\ n.aggregateVersion = 1
      <4>1. EventsOf(o)' = {n} /\ EventsOf(o) = {}
        BY <3>1, <3>2, EventsOfRow
      <4>2. QED
        BY <3>2, <4>1 DEF NoRow, PendingRow
    <3>3. CASE /\ orders[o] = PendingRow /\ orders'[o] \in {ConfirmedRow, CancelledRow}
               /\ n.aggregateVersion = 2
      <4>1. PICK e \in EventsOf(o) : EventsOf(o) = {e} /\ e.aggregateVersion = 1
        BY <3>3, EventsOfRow
      <4>2. EventsOf(o)' \ EventsOf(o) = {n} /\ n \in EventsOf(o)'
        BY <3>1, <3>3, <4>1
      <4>3. /\ orders[o].status = "PENDING" /\ orders[o].version = 1 /\ orders'[o].version = 2
        BY <3>3 DEF PendingRow, ConfirmedRow, CancelledRow
      <4>4. QED
        BY <3>3, <4>2, <4>3
    <3>4. QED
      BY <2>2, <3>1, <3>2, <3>3 DEF Moves
  <2>3. QED
    BY <2>1, <2>2, StepEffect
<1>2. QED
  BY Inductive, <1>1, PTL DEF Spec, OrdersMoveWithTheirEvents

-----------------------------------------------------------------------------
(* The channel.                                                            *)

\* The event of a move was not stored, and it is the only one whose storage changes.
LEMMA MoveStores ==
    ASSUME IndInv, NEW r \in Requests, NEW n \in outbox', Moves(r, op[r].order, n),
           NEW o, o = op[r].order, NEW v, v = n.aggregateVersion
    PROVE  /\ o \in Orders /\ v \in 1 .. 2
           /\ ~Stored(<<o, v>>) /\ Stored(<<o, v>>)'
           /\ \A p \in Orders, u \in 1 .. 2 :
                 <<p, u>> # <<o, v>> => (Stored(<<p, u>>)' <=> Stored(<<p, u>>))
           /\ \A u \in 1 .. 2 : u < v => Stored(<<o, u>>)
<1>1. o \in Orders
  <2>1. TypeOK
    BY DEF IndInv
  <2> QED
    BY <2>1, DomainTyped
<1>2. \A p \in Orders : p # o => EventsOf(p)' = EventsOf(p)
  BY MoveEffect
<1>3. EventsOf(o)' = EventsOf(o) \cup {n}
  BY <1>1, MoveEffect
<1>4. \/ v = 1 /\ EventsOf(o) = {}
      \/ v = 2 /\ \E e \in EventsOf(o) : EventsOf(o) = {e} /\ e.aggregateVersion = 1
  <2>1. CASE orders[o] = NoRow /\ v = 1
    BY <1>1, <2>1, EventsOfRow
  <2>2. CASE orders[o] = PendingRow /\ v = 2
    BY <1>1, <2>2, EventsOfRow
  <2> QED
    BY <2>1, <2>2 DEF Moves
<1>5. v \in 1 .. 2 /\ ~Stored(<<o, v>>) /\ Stored(<<o, v>>)'
  BY <1>3, <1>4 DEF Stored
<1>6. ASSUME NEW p \in Orders, NEW u \in 1 .. 2, <<p, u>> # <<o, v>>
      PROVE  Stored(<<p, u>>)' <=> Stored(<<p, u>>)
  <2>1. CASE p = o
    <3>1. u # v
      BY <1>6, <2>1
    <3>2. (\E k \in EventsOf(p)' : k.aggregateVersion = u)
             <=> \E k \in EventsOf(p) : k.aggregateVersion = u
      BY <1>3, <2>1, <3>1
    <3> QED
      BY <3>2 DEF Stored
  <2>2. CASE p # o
    BY <1>2, <2>2 DEF Stored
  <2> QED
    BY <2>1, <2>2
<1>7. ASSUME NEW u \in 1 .. 2, u < v PROVE Stored(<<o, u>>)
  BY <1>4, <1>7 DEF Stored
<1> QED
  BY <1>1, <1>5, <1>6, <1>7

(***************************************************************************)
(* The API writes to the channel as the channel asks of a writer.  With    *)
(* RelayRefinesDelivery, which reads from the same rows, and FlowIsChannel *)
(* the chain is whole from the request to the projection.                  *)
(***************************************************************************)
THEOREM ApiFeedsTheChannel == Spec => FeedsTheChannel
<1>1. Init => Channel!Init
  BY DEF Init, Stored, EventsOf, Channel!Init, Channel!Events
<1>2. IndInv /\ [Next]_vars => [\E e \in Channel!Events : Channel!Accept(e)]_outbox
  <2> SUFFICES ASSUME IndInv, [Next]_vars, outbox' # outbox
               PROVE  \E e \in Channel!Events : Channel!Accept(e)
    OBVIOUS
  <2>1. PICK r \in Requests, n \in outbox' : Moves(r, op[r].order, n)
    BY StepEffect DEF tables
  <2>2. PICK o, v : o = op[r].order /\ v = n.aggregateVersion
    OBVIOUS
  <2>3. /\ o \in Orders /\ v \in 1 .. 2
        /\ ~Stored(<<o, v>>) /\ Stored(<<o, v>>)'
        /\ \A p \in Orders, u \in 1 .. 2 :
              <<p, u>> # <<o, v>> => (Stored(<<p, u>>)' <=> Stored(<<p, u>>))
        /\ \A u \in 1 .. 2 : u < v => Stored(<<o, u>>)
    BY <2>1, <2>2, MoveStores
  <2>4. Channel!Accept(<<o, v>>)
    <3> DEFINE Shown == [e \in Orders \X (1 .. 2) |-> IF Stored(e) THEN "waiting" ELSE "absent"]
    <3>1. <<o, v>> \in Orders \X (1 .. 2) /\ Channel!Events = Orders \X (1 .. 2)
      BY <2>3 DEF Channel!Events
    <3>2. Shown[<<o, v>>] = "absent"
      BY <2>3, <3>1
    <3>3. \A f \in Channel!Earlier(<<o, v>>) : Shown[f] # "absent"
      <4> SUFFICES ASSUME NEW p \in Orders, NEW u \in 1 .. 2, p = o, u < v
                   PROVE  Shown[<<p, u>>] # "absent"
        BY <3>1 DEF Channel!Earlier
      <4> QED
        BY <2>3
    <3>4. Shown' = [Shown EXCEPT ![<<o, v>>] = "waiting"]
      <4>1. ASSUME NEW p \in Orders, NEW u \in 1 .. 2
            PROVE  Stored(<<p, u>>)' <=> <<p, u>> = <<o, v>> \/ Stored(<<p, u>>)
        BY <2>3
      <4>2. ASSUME NEW e \in Orders \X (1 .. 2)
            PROVE  Stored(e)' <=> e = <<o, v>> \/ Stored(e)
        BY <4>1 DEF Stored
      <4> QED
        BY <3>1, <4>2
    <3> QED
      BY <3>2, <3>3, <3>4 DEF Channel!Accept
  <2> QED
    BY <2>4, <2>3 DEF Channel!Events
<1> QED
  BY Inductive, <1>1, <1>2, PTL DEF Spec, FeedsTheChannel

=============================================================================
