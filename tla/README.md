# Verification of afds-nest-starter

TLA+ modules, TLC runs and TLAPS proofs kept beside the order starter: an
ordering API that writes an order and its event in one PostgreSQL transaction, a
relay that publishes the events to Kafka, and a consumer group that projects
them into a table. Paths below are relative to the repository.

## 1. The system

```
 client --HTTP--> ordering API --one transaction--> orders, order_items, outbox_events
                                                              |
                          claim, publish, record (1..n workers, leases)
                                                              v
                                  outbox relay --produce--> Kafka topic (key: aggregate id)
                                                              |
                              consumer group (insert, then commit the offset)
                                                              v
                                                         order_activity
```

There are no calls between the three programs: they meet in tables and in the
topic. Each is several processes, each process interleaves at its awaits.

| Component | State | Operations | What is hard | What makes it correct |
|---|---|---|---|---|
| Order aggregate (`packages/ordering/src/domain/order.ts`, `money.ts`) | state, persisted version, recorded events | create, rehydrate, confirm, cancel, markPersisted | - | one event per version; no way out of a terminal state |
| Use cases, controller (`application`, `presentation`) | the request in progress | POST, GET, confirm, cancel | requests interleave at every await | the answer tells the truth about the tables |
| Repository, tables (`infrastructure/persistence`) | `orders`, `order_items`, row locks | `findById` (two reads), `save` (a transaction) | optimistic lock, COMMIT without acknowledgement, failure between statements | order and outbox change together or not at all; no lost update |
| Outbox table (`packages/platform/src/outbox/schema.ts`) | status, attempts, available_at, locked_at | written by `save`, by the relay and by an operator | three kinds of writers, no constraint but the key | one row per version, no gap |
| Outbox relay (`outbox-relay.service.ts`) | the batch of a run | `claimBatch`, `publishOne`, `runOnce` | leases that expire under a slow worker, crash between publish and record, errors in error handling | order of first copies, at least once, bounded repeats, nobody ends another's claim, no row is stuck |
| Outbox runner (`outbox-runner.service.ts`) | timer, running flag | bootstrap, tick, shutdown | ticks while a run is in progress, shutdown during a run | one run at a time; the timer survives errors |
| Kafka publisher (`apps/outbox-worker/src`) | producer connection | connect, publish, disconnect | a request that timed out is appended later | acknowledged means appended |
| Order-activity consumer, projector (`apps/order-activity-consumer/src`) | what the client library keeps; `order_activity` | processMessage, project, shutdown | redelivery, rebalance under a running handler, poisoned record | acknowledged means projected; no overtaking; a poisoned partition stops nobody else |
| Event contract, Money (`event-publisher.ts`, `order-created-event.ts`, `money.ts`, the DTOs) | the data of one order | pipe, domain checks, sum, toEnvelope, decode, toOrderActivity | writer and reader check apart from each other; doubles round | totals are exact; what the API writes is accepted by the consumer |
| Database, health, API process (`packages/platform/src/database`, `apps/api/src`) | connection pool, state of the process | connect, release, end; readiness; SIGTERM | requests that hold a connection and wait for another, loss of PostgreSQL, shutdown under requests | requests never wait for each other's connections, every request ends, readiness follows the database |
| Demo script (`scripts/demo.mjs`) | children, handlers, exit code | commands, waiting, stopping | signals at any await, errors nobody listens to, applications that die or hang | it ends, leaves nothing behind when it comes to its last line, and succeeds only with evidence |
| Configuration (`configuration.ts`, `kafka.configuration.ts`) | - | validation at start | - | positive limits |

## 2. The modules

| Module | Kind | Models |
|---|---|---|
| `OutboxRelay` | detailed | the outbox table, several relays, the broker |
| `ClaimTransaction` | more detailed | the statements and row locks of `claimBatch`; its COMMIT is the claim of `OutboxRelay` |
| `OutboxRunner` | composition | EXTENDS `OutboxRelay` with the worker process: timer, flag, hooks; implements it with its fairness |
| `OrderedDelivery` | abstract | what the relay promises: an ordered, at-least-once channel per aggregate |
| `Ordering` | detailed | requests, the domain, the repository and its tables |
| `OrderContract` | detailed | the data of an order from the body of the request to the projection; money |
| `OrderActivity` | detailed | the consumer group, its handlers, the projection |
| `EventFlow` | composition | the channel and the consumer group, and other producers of the topic |
| `ApiProcess` | detailed | pool, readiness and shutdown of the API process |
| `Demo` | detailed | the demo script and its children |
| `OutboxProofs` | proof | theorems about `OutboxRelay`, its refinement of `OrderedDelivery`, and `OutboxRunner` |
| `EventFlowProofs` | proof | theorems about `OrderedDelivery` and `EventFlow` |
| `ClaimTransactionProofs`, `OrderingProofs`, `OrderContractProofs`, `OrderActivityProofs`, `ApiProcessProofs`, `DemoProofs` | proof | theorems about the module each is named for |
| `MC...` | for TLC | values of the constants |

```
 ClaimTransaction --COMMIT is--> OutboxRelay.ClaimBatch      OutboxRunner --implements--> OutboxRelay
                                                                                             |
                                                                                        implements
                                                                                             v
 Ordering --COMMIT is--> OrderedDelivery.Accept          EventFlow = OrderedDelivery + OrderActivity
 OrderContract: the data of what flows there
```

The modules meet where the programs do. `OutboxMirrorsOrders` of `Ordering`
(one row per order and version, no gap) is what `OutboxRelay` takes an event to
be, an aggregate and a version, and what its action `Insert` does. `FeedsTheChannel`
says the same as a refinement: each COMMIT of `save` is one write to the channel
`OrderedDelivery`, the next event of its order, and nothing else touches it. `EventFlow`
puts the channel that the relay is proved to implement in front of the consumer
group: one step delivers a copy and appends it to the topic. `OrderContract`
shows that the record of a created order is never a poisoned one, which
`EventFlow` takes for granted (`RecordKind`).

Operators with "Mistake" in their name stand before the operator they imitate and
are used by nothing: each is a plausible bug, and for every property there is one
that makes TLC find it violated (`PROJECT.json`, "mutants").

### OutboxRelay

| In the module | In the code |
|---|---|
| `status`, `attempts`, `due`, `lockedAt` | columns of `outbox_events`; `due` is `available_at <= now`, `lockedAt` is null, fresh, or past `lockTimeoutMs` |
| `batch[w]`, `pc[w]` | the loop of `runOnce`: the claims not settled yet, where `publishOne` is |
| `inflight`, `log` | produce requests on their way; the partition of each aggregate |
| `ClaimBatch` (`Swept`, `Claimable`, `IsFirstBatch`, `ClaimRows`) | the claim transaction: two sweeps of stale claims, SELECT ... ORDER BY ... LIMIT ... SKIP LOCKED with NOT EXISTS of an earlier row, UPDATE |
| `ClaimUnacknowledged` | its COMMIT is applied, its answer is lost |
| `Publish`, `PublishResolves`, `PublishRejects`, `BrokerAppends` | `publisher.publish`: the request leaves, is acknowledged after the append, or is given up, in any order with the append |
| `RecordPublished`, `RecordFailure` (`Fenced`) | the two UPDATEs with id, status and attempts in the WHERE |
| `RecordPublishedThrows`, `RecordFailureThrows` | these UPDATEs throw, applied or not: the first leads to the catch block, the second out of `runOnce` |
| `Crash`, `Restart`, `OperatorRetry` | death and start of a worker; the SQL of the runbook (attempts are kept) |

What is abstract. The claim transaction is one step, which `ClaimTransaction`
justifies; rows locked by a concurrent claim are the set `skipped`, any set. Time is two flags per
row that turn at any moment, so any clocks, skews, back-offs and lease times are
behaviours, and nothing depends on a lease being long enough. An event is named by
aggregate and version. A claim labels what is sent, so that copies are told apart;
the envelope of the code does not carry it. The producer is idempotent (as
configured), so one send is appended once at most.

### ClaimTransaction

| In the module | In the code and in PostgreSQL |
|---|---|
| `Begin` | BEGIN, and `now`: which claims are stale to this transaction is fixed here, while leases go on expiring (`expired`) |
| `SweepFailed`, `SweepPending`, `SweepRow` | the two sweeps: the rows a statement finds in its snapshot, then one by one, waiting for the lock and looking at the newest version |
| `Select`, `SelectRow` | SELECT ... ORDER BY ... LIMIT ... FOR UPDATE SKIP LOCKED |
| `Take`, `TakeNothing`, `Commit`, `CommitUnacknowledged`, `Rollback` | the UPDATE of the selected rows, COMMIT, its lost answer, any failure |
| `PublishOne`, `Insert`, `OperatorRetry` | those who write the table meanwhile |

READ COMMITTED is modelled as PostgreSQL documents it: a statement sees what is
committed when it starts and what its own transaction wrote; a row that changed
meanwhile is checked again in its new version. The NOT EXISTS of an earlier row is
not a locked row, so it keeps its old answer: this is the subtle part, and right
because PUBLISHED is final and rows are inserted in order. A row that was claimed
and sent back between the start of the SELECT and its turn has a back-off, and
is taken or passed over.

### OutboxRunner

Every step is one of `OutboxRelay` together with what it does to the process, or
leaves the relay alone. `Tick` is the interval (and the flag that makes it return);
`RunClaims` and `RunClaimThrows` are the end of `claimBatch`, `RunPublishes` the
steps of `publishOne`, each with the `finally` block when the run is over
(`Finally`). `StopTimer`, `Disconnect` and `EndPool` are the shutdown hooks of
three providers, in any order: Nest orders them by the module graph. `EndPool`
refuses new queries at once and resolves when clients have come back; of those only
the client of a claim transaction is counted, a query of `publishOne` has one for no
longer than its own step. Nobody
waits for the run: it meets a disconnected producer and a pool that refuses, and
the process may end (`Exit`) in the middle of a batch, to the table a crash.

### OrderedDelivery

State per event: absent, waiting, confirmed, failed; per aggregate the log of
copies. An event is delivered only after everything before it is confirmed, once
per attempt, possibly late; it is confirmed only if delivered; some may be given
up; an operator may ask again. Under the mapping `Waiting` a claim, a lease, a
sweep or a back-off is a stutter.

### Ordering

A request is a sequence of awaits. `ReadRow` is the first SELECT of `findById`; the
step after it (`Get`, `InvalidState`, `InvalidReason`, `Confirm`, `Cancel`) is the
second SELECT with all that follows up to the next await. `save` is `InsertOrder` or
`UpdateOrder` (waits for the row lock, then checks the version; otherwise
`LosesRace`), `RecordEvents`, `Commit`. Writes are visible to others at COMMIT
(READ COMMITTED). `CommitUnacknowledged` and `Abort` happen at every await: a
failed statement (500) or a dead process ("lost"). `answer` is the HTTP status of
`mapErrors`. Ids come from `randomUUID` and are taken to be fresh: an order and an
event carry the name of the request that made them. Values are valid, refused by
the pipes ("malformed") or refused by the domain ("blank"); `OrderContract` has
the values themselves.

### OrderContract

One order at a time, because its data meet no other order's: `Validate` (the
DTOs), `Create` (what `Order.create` checks), `AddItem` (one step of the sum, with
`Money.multiply` and `Money.add`), `Save`, `Publish` (`toEnvelope`), `Ignore`,
`Project` or `Throw` (the consumer), and once `Change` with an event of another
type. A text is its class under the checks (empty, blank, padded, plain, long),
and trimming maps classes to classes. An amount is a number; `Rounded(_)` is the
double next to a natural number, of which only this is assumed: it is exact up
to the largest safe integer, and rounds nothing larger to a safe integer
(`IsRounded`). `exact` is a history variable, the total without rounding. A
behaviour may also start with a record of another producer of the topic.

### OrderActivity

`Project`, `Rejects`, `InsertThrows` are the first await of `processMessage`,
`CommitOffset`, `CommitRefused`, `CommitThrows` the second, which is outside of the
try block: an error of it is rethrown without a pause. `Fails` is the catch block:
pause, rethrow. `SeekBack` is what the client library does when `eachMessage`
rejects. `Deliver` is its call of `eachMessage`, one at a time.

The group coordinator and the library are not part of the repository. They are
modelled conservatively: a partition may be handed over at any moment, the old
consumer learns of it later and finishes the message it has, and its commit may
be refused or accepted. So the group's offset may go back, and no property says it
does not; this is also why the liveness property speaks of settled records and not
of the committed offset. `OperatorSkips` is the procedure of
`docs/runbooks/local-development.md`, with all consumers stopped; what it skips is
kept in the history variable `skipped`.

### EventFlow

The variables of the channel, and those of the group with the topic as its log.
`Publish` is `Deliver` of the one and `Produce` of the other in one step.
`Bookkeeping` are the steps of the writer that no reader sees, `Others` the
records of other producers. An event is a record; its key is its order, so that
the events of an order are in one partition.

### ApiProcess

Of a request only its use of the pool is kept (`Uses`: a query takes a connection
and gives it back, a transaction keeps one). `Acquire` waits for an idle connection
or opens one; `Execute` and `Rejects` give it back; `ConnectionRefused` and
`LoseHeld` fail the request (`Fails`: 503 for readiness, 500 otherwise). `LoseIdle`
is the loss of a connection that nobody is using: pg emits "error" on a pool
without a listener, which ends a Node process. The same is true of a client in a
transaction between two statements. After SIGTERM the server waits for its
requests, then the pool is ended.

### Demo

`pc` is the await the script is in; `Interrupt` runs the handler of a signal, each
once (`process.once`), at any of them. `Loop` is the head of `waitFor`, `Asked` its
predicate. The applications are up, closing, exited (with a code) or killed by a
signal (without: `HasExitCode`); they may hang, and the evidence may never come.
A command that could not be spawned makes `once(child, 'close')` reject (`Close`, and
`activeCommand` stays: "unstarted"). The children of `startApplication` and the pool of
the script have no listener for "error": a spawn that fails there
(`StartApplications`) and the loss of the pool's client between two polls
(`IdleClientLost`) end the script where it is, with exit code 1 and without its finally
block ("crashed"), as a signal that comes again does ("dead").

## 3. The properties and the runs

| Run | Instance | Question |
|---|---|---|
| `relay_order` | one order, two events, two relays, batches of one, two attempts and one manual retry | every safety property of the relay, its inductive invariant, and that it implements the channel |
| `claim_versions` | one order, two events, two workers, batches of one, one manual retry | is the COMMIT of a claim transaction one claim of `OutboxRelay`, whatever interleaves with its statements? |
| `claim_locks` | two orders with one event each, two workers, batch 2, one attempt | does every claim transaction end, deadlocked sweeps included? do sweeps find what an abandoned batch has left, and not before its lease has expired? |
| `runner_ends` | one order, two events, one worker process, batches of one | one run at a time; does the runner bring about the fairness the relay needs; do all events settle; does SIGTERM end the process? |
| `event_flow` | one order, two versions, two copies each, two partitions with a poisoned record each, one consumer, log of three | from PUBLISHED to projected; a poisoned partition does not stop the other |
| `ordering` | three requests of any kind, order and input | tables and outbox move together; races are decided rightly; what is committed is a write to the channel; no request waits for ever |
| `activity` | one partition, two consumers, log of three, records of every kind, repeats | acknowledged is projected, nothing is overtaken; the inductive invariant; everything settles in the end up to a poisoned record |
| `contract` | doubles of three bits (largest safe integer 7), up to two items, texts of every class, foreign records with one field changed | totals are exact; the consumer understands the API |
| `api_ends` | three requests of any kind, two connections | no request waits for another's connection for ever; requests and shutdown end |
| `api_ready` | the same | *violated*: readiness while PostgreSQL is down |
| `demo` | the three applications, both signals | no orphans at its last line, no false success, an end |
| `demo_orphans` | the same | *violated*: applications stop when the script is finished |

**Relay.** `FirstCopiesInOrder` is the promise of `docs/arch/system.md` (the first
copy of each version precedes its successor); `PublishedIsInLog` is at-least-once;
`OneCopyPerClaim` bounds repeats by attempts; `AtMostOneOwner`,
`FreshLeaseIsProtected` and `PublishedIsFinal` are the fencing; `DeliverySpec` is the
refinement. **Claim.** `CommitIsClaim` (atomicity), `SweptIsExpired` (no sweep takes
a claim whose lease is fresh), `ClaimsAreExclusive`, `TransactionsEnd`,
`AbandonedAreFound` (no row stays PROCESSING, whoever left it). **Runner.**
`OneRunAtATime`, `RelayFairSpec` (the process implements `OutboxRelay` *with* its
fairness), `Settles` (every event ends PUBLISHED, FAILED, or behind a FAILED one),
`ShutdownEnds`. **Ordering.** `OutboxMirrorsOrders`, `OrdersMoveWithTheirEvents` (the
dual write), `FeedsTheChannel` (the writer keeps the order the relay relies on),
`SuccessIsDurable`, `ConflictIsReal` (optimistic lock),
`RefusalLeavesNoTrace`, `SnapshotIsWhole` (two reads without a transaction),
`RequestsEnd`. **Activity.** `CommittedIsProjected`, `NoOvertaking`, `EndsProjected`.
**Flow.** `CreationIsKnownFirst` (no consumer has a record of an order before its
creation is in the topic, and none is settled before the creation is projected),
`PublishedIsProjected`. **Contract.** `MoneyIsExact`, `OwnEventsAreUnderstood`.
**Processes.** `PoolMovesOn` (a request in progress can go on), `RequestsEnd`,
`ShutdownEnds`; `NoOrphans`, `SuccessIsEvidence`, `DemoEnds`.

### The findings

`DatabaseService` (`packages/platform/src/database/database.service.ts:16`) creates
its `Pool` without an `error` listener, and the connections its transactions hold
have none either. When PostgreSQL terminates such a connection, the event has no
listener and Node ends the process. `docs/specs/ordering.md:28` says that readiness
"checks PostgreSQL, and returns `503` while unavailable"; `api_ready` shows a
readiness check that is refused instead.

`scripts/demo.mjs` has the same gap twice: the applications are spawned (l.133-144) and
the script's pool is created (l.78) without an `error` listener. An application that
cannot be spawned, or a connection that is lost while the pool is idle between two
polls, ends the script past its finally block, and the applications that are up stay up.
`docs/runbooks/local-development.md:11` says that it "stops the three application
processes when finished"; `demo_orphans` shows the failed spawn, and `NoOrphans` says
what is true all the same.

### Bounds, and why they are enough

- Two relays, two claiming workers, two consumers: every race above is between one
  that holds something and one that takes it over; a third would repeat a role.
- Two versions: order is about neighbours. Two attempts: the first claim, and one
  after a failure or a lost lease; with the manual retry (`OperatorCap` 1) a third.
- `claim_locks` has two rows that are not of one order, so that a sweep, and a
  batch, locks both: the smallest deadlock, and the smallest batch that can be
  abandoned in the middle (`Rollback` while publishing, or a lost COMMIT). One attempt,
  which is also the last: the row that both sweeps would leave alone if their
  conditions did not meet. Other batches have one row, because of the head of the line
  of a single order; the theorems cover batches of any size.
- `runner_ends` has one process: its timer, flag and hooks are its own, and what
  processes do to each other is in `relay_order`. With one order the head of the line
  keeps its batches at one row, so that `Settles` shows retries and the line of the
  order there, and the rest of an abandoned batch is left to `AbandonedAreFound`. It has
  no manual retry, which is an event from outside that would only start the line again.
- `event_flow` has one consumer: races of consumers are in `activity`, and the theorems
  cover any number. Two copies of each event and a log of three: a copy that comes late,
  between and after later events, next to a poisoned record. The second partition has
  nothing but a poisoned record: what it may disturb is the first.
- `ordering` has three requests for two ids: a creator and two that race, or a
  stranger that asks for an order that does not exist.
- Log of three records in `activity`: one before and one after a poisoned or
  repeated one.
- `contract`: with three bits a product or a sum can be safe, one above, rounded to
  even up or down, and far above the limit; two items make a sum.
- `api_*`: three requests and two connections, so that a request waits.
- `MaxVersion`, `CopyCap`, `OperatorCap` and `MaxLog` are bounds; the theorems hold
  for every value of them.
- Symmetry of workers or requests is used only where no fairness is assumed.
- Deadlock is not checked in `ordering`, `contract`, `api_*` and `demo`, which end: all
  requests are answered, the order has gone its way, the process is down.

### Fairness, and why the code justifies it

- `OutboxRelay`: a worker takes its steps, because every promise in `publishOne`
  settles. The Kafka client times out; the pool has no timeout
  (`database.service.ts:16`), so that a query settles is an assumption: the server
  answers, or the connection ends. A dead worker is restarted; a worker that is able
  to claim again and again claims. Time passes. Nothing is asked of broker, operator
  or API, and crashes need not end. `OutboxRunner` does not assume this, it implies it
  (`RelayFairSpec`), from: the interval comes round (`WF Tick`), the process takes its
  steps and hooks, a supervisor starts it again, and of the claims that are awaited
  again and again one commits (`SF RunClaims`, since a claim may throw or a crash cut
  it off). Signals, crashes and throws need never stop.
- `ClaimTransaction`: statements are executed, and a row lock that is free again and
  again is given to the statement that waits for it (`SF Statement`: PostgreSQL queues
  waiters); a deadlock is resolved by rolling back one side (`deadlock_timeout`).
  `AbandonedAreFound` assumes, as `OutboxRelay` does, that of the transactions a worker
  begins again and again one commits (`CommitsNowAndThen`), that publications settle and
  that time passes.
- `Ordering`: every await of a request settles. No transaction has to succeed.
- `OrderActivity`, and `EventFlow`, which adds nothing to it: handlers, library and
  coordinator go on, an ended process is started again (a container restart), and the
  disturbances end (`<>[][~Fault]_vars`): a group that never stops rebalancing, or
  a broker that takes no offset, lets no consumer progress. The database may go on
  failing, if one insert that is asked for again and again succeeds once. A partition that was
  paused for a failure that has passed stays paused until a restart: the code does
  nothing by itself, and the runbook tells the operator to restart. That is an
  assumption (`PausedWithoutPoison(c) /\ Stop(c)`), not something the program does.
  Nobody has to skip a poisoned record.
- `ApiProcess`: a query settles, a terminated connection is noticed, a closing process
  closes. Nothing is asked of PostgreSQL, which may stay away.
- `Demo`: awaits of the script settle, and a loop that comes to its head for ever
  does so after the deadline once (`SF(Loop /\ pc' = "finally")`). Commands and queries
  have no timeout, so that they settle is assumed. Applications may hang.

## 4. The proofs

All theorems are checked by TLAPS to the last leaf, for every value of the
constants that satisfies the assumptions: `RelayAssumption` (positive batch size and
budget, which `configuration.ts` and `readPositiveInteger` enforce; rows have
distinct ranks, by the id that ends the ORDER BY), `ClaimAssumption` (the same
limits), `ApiAssumption` (the pool has room for a connection), `DeliveryAssumption`,
`OrderingAssumption`, `OrderActivityAssumption` and `FlowAssumption` (a key always has
the same partition: the number of partitions does not change, as the architecture
document demands), `ContractAssumption` (doubles, see above; bodies are of the shape
the pipe can check) and `ForeignAssumption`.

**Relay** (`OutboxProofs`): each safety property above, as `Spec => []P`. None is
inductive alone. `FirstCopiesInOrder` needs that whatever was ever sent belongs to an
event whose predecessors are PUBLISHED (`HeadOfLine` with `TokensIssued`: every token
in a batch, in flight or in the log was issued by a claim of its row), and that
PUBLISHED is in the log. `PublishedIsInLog` needs `AcknowledgedIsAppended`.
`OneCopyPerClaim` needs `AtMostOneOwner` and `UnsentClaims` (the claims behind the one
at work were not sent yet). Ownership is preserved because a claim gives a token one
higher than all issued. The parts are `RowInv` (the table), `ClaimInv` (who holds
what) and `IndInv`, proved one after the other; the two action properties follow from
them. `HeadOfLine`, `BudgetIsKept` and `ProcessingHasLease` are theorems of their own
and parts of the invariant that TLC checks.

**Refinement** (`OutboxProofs`, `RelayRefinesDelivery`): initial states map to initial
states, each step to a step or a stutter; with the theorems about the channel in
`EventFlowProofs`, the readers' view (`NoGapBeforeFirstCopy`) and the writer's
(`OneAtATime`) are proved of the abstract channel.

**Runner** (`OutboxProofs`): a behaviour of the worker processes is one of the relay
(`RunnerIsRelay`), so all of the above is true of them, and they implement the channel
(`RunnerIsChannel`). `OneRunAtATime` is inductive with `DownIsGone` (a process that is
gone has no timer and no flag).

**Claim transaction** (`ClaimTransactionProofs`): for any number of workers, orders,
events and attempts, COMMIT writes what one atomic claim would write (`ClaimIsAtomic`).
A row that a transaction has locked is in the table what it was when the transaction
came to it (`WritesAreCurrent`): everyone else waits for the lock or skips the row
(`LocksExclude`). The earlier rows that the SELECT looked at are not locked, but a row
was chosen because they are PUBLISHED, which nobody changes, or absent, and then the
row were absent too (`NoGaps`); so it is still the turn of every chosen row at COMMIT
(`ChosenHaveTurn`), also of those that are taken after a wait for their lock. A sweep that
looks at a new version of the row finds a claim only if its own `now` calls it stale
(`SweepsAreLate`). Claims are exclusive because a token is one higher than all issued
(`TokensIssued`). Together these are `ClaimInv`.

**Ordering** (`OrderingProofs`): the tables change in one step only, COMMIT. What it
writes was computed from the row the request had read (`SavesAreOwn`) and that row is
still there, because the UPDATE checked its version and has held its lock since
(`LocksProtect`). So an order goes from no row to version 1 to version 2, each time with
the one event of the move (`CommitEffect`, `RowsMove`); `OutboxMirrorsOrders`,
`SuccessIsDurable`, `ConflictIsReal`, `SnapshotIsWhole`, `RefusalLeavesNoTrace` and
`OrdersMoveWithTheirEvents` follow. The event of a move was not stored and all before
it are (`MoveStores`), hence `ApiFeedsTheChannel`: with `RelayRefinesDelivery` and
`FlowIsChannel`, which speak of the same channel, the chain is proved from the request
to the projection, link by link.

**Contract** (`OrderContractProofs`): a product or a sum that passes `Money.of` was not
rounded (`ProductIsExact`, `TotalIsExact`), hence the total is exact until it is refused
(`SumIsMoney`), for any size of doubles and any number of items. What has passed the
pipe and the domain stays checked on its way (`BodyIsChecked`, `RestIsChecked`,
`OrderIsCreated`), so the decoder and `toOrderActivity` have nothing to refuse in it.

**Activity** (`OrderActivityProofs`): a handler has everything below its offset settled
(`HandlersAreSettled`), and so has a consumer below its position, except for the
record in its hands (`PositionsAreSettled`). "Settled" is never undone, so an offset
that is committed late, by a consumer that lost the partition, is still right. Hence
`CommittedIsProjected` and `NoOvertaking`.

**Flow** (`EventFlowProofs`): a behaviour of the composition is one of each part, so the
theorems of the channel and of the consumer group (`OrderActivityProofs`) are reused, not repeated.
What is new is the coupling: every copy in the channel's log is a record of the topic
(`CopiesAreRecords`), therefore the first record of an order is its creation
(`CreationsComeFirst`), and a group that has settled up to an offset has projected it,
also where a handler has a record in its hands (`HandlersAreSettled`).

**API process** (`ApiProcessProofs`): the number of requests that hold a connection is
the number of open connections less the idle ones (a part of `ApiInv`; the requests
in progress are finitely many, however many there may ever be). So when nobody holds a
connection, one is idle or may be opened, and when somebody does, this request has all
it needs: no set of requests waits for itself (`NoPoolDeadlock`).

**Demo** (`DemoProofs`): applications are started before the finally block and never
after, and `stopApplications` goes through all of them (`StoppedAreGone`), so that
a script that comes to its last line leaves nothing behind whatever was interrupted.
A command runs only where the script awaits it (`CommandsAreAwaited`), and there it
emits no uncaught error. The exit code is 0 at the end only on the way past the
evidence, and an interrupt or an uncaught error sets it at any await (`ExitCodeTells`).

**Only model-checked**: liveness (`Settles`, `RelayFairSpec`'s fairness, `RequestsEnd`,
`EndsProjected`, `PublishedIsProjected`, `TransactionsEnd`, `AbandonedAreFound`,
`ShutdownEnds`, `DemoEnds`),
which the prover cannot do under fairness. Every safety property of a passing run is a
theorem. The inductive invariants were checked by TLC before they were proved: those of
the relay and of the consumer group are properties of `relay_order` and
`activity`; those of the other modules (`IndInv` of `Ordering`, `ClaimInv`,
`ApiInv`, `DemoInv`) hold on the instances of their modules' runs, and can be added to a
.cfg to look for a counterexample when a model changes.

## 5. Not modelled, and what could follow

| Not modelled | Why |
|---|---|
| Back-off arithmetic (`1000 * 2^(attempts - 1)` ms, at most a minute), lease length against batch size | any delay and any lease is a behaviour of `OutboxRelay`; no property depends on one. That a batch usually fits its lease is a matter of configuration, not of correctness |
| Configuration (`configuration.ts`, `kafka.configuration.ts`) | validation of strings at start, without state; what it guarantees is assumed of the constants |
| Entry points of worker and consumer, module wiring, Swagger, global prefix | framework; start and death of the processes are actions of `OutboxRunner` and `OrderActivity` |
| Migrations, `.dependency-cruiser.cjs`, `validate-docs.mjs`, tests | tooling around the program; the integration tests were read with the code |
| Characters PostgreSQL refuses in a text (NUL), wording of errors and logs | no class of text in `OrderContract` has them; such a request ends with 500, which is `Abort` of `Ordering` |
| Payload columns, `published_at`, `last_error`, headers of a record | no property tells their values apart |
| Client library of Kafka, group coordinator, PostgreSQL, pg, Nest | not part of the repository; modelled conservatively from how the code uses them |

What could follow: `ClaimTransaction` as a whole implementing `OutboxRelay`, not only
its COMMIT. In `OutboxRelay` a lease expires in the table; in `ClaimTransaction` a row is
stale to a transaction from its BEGIN on. The mapping needs to know at an expiry which
transaction will make use of it, a prophecy variable the two modules do without today.
