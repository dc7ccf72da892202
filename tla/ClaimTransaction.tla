-------------------------- MODULE ClaimTransaction --------------------------
(***************************************************************************)
(* claimBatch (packages/platform/src/outbox/outbox-relay.service.ts)       *)
(* statement by statement: BEGIN, the sweep to FAILED, the sweep to        *)
(* PENDING, SELECT ... FOR UPDATE SKIP LOCKED, UPDATE, COMMIT, among the   *)
(* transactions of other workers, their publishOne, the writers of the     *)
(* table and the operator.                                                 *)
(*                                                                         *)
(* PostgreSQL runs them at READ COMMITTED: a statement sees the rows       *)
(* committed when it starts and those of its own transaction; an UPDATE    *)
(* waits for a row another transaction has locked and looks at its new     *)
(* version again; SKIP LOCKED passes over such a row; locks last until the *)
(* transaction ends.  The order in which a statement comes to its rows is  *)
(* free, unless it says ORDER BY.                                          *)
(*                                                                         *)
(* OutboxRelay takes the whole transaction as one step.  CommitIsClaim     *)
(* says that it may.                                                       *)
(*                                                                         *)
(* "Mistake" operators are bugs for the properties to notice, as in        *)
(* OutboxRelay.                                                            *)
(***************************************************************************)
EXTENDS Naturals, FiniteSets

CONSTANTS Aggregates, MaxVersion, Workers, BatchSize, MaxAttempts, OperatorCap, Rank

Events == Aggregates \X (1 .. MaxVersion)

ASSUME ClaimAssumption ==
    /\ MaxVersion \in Nat
    /\ BatchSize \in Nat \ {0}
    /\ MaxAttempts \in Nat \ {0}
    /\ OperatorCap \in Nat

Claims == [event : Events, attempt : Nat]

VARIABLES
    table,    \* the committed rows: status and attempts
    expired,  \* the claims whose lease has expired by now
    pc,       \* the statement each worker is in
    now,      \* the claims that are stale to the transaction's "now"
    todo,     \* rows its statement has found and not come to yet
    writes,   \* the rows it has locked, as it sees them
    chosen,   \* the rows its SELECT has returned
    batch     \* the claims of the worker's run, after the transaction

tx == <<now, todo, writes, chosen>>
vars == <<table, expired, pc, tx, batch>>

Row == [status : {"ABSENT", "PENDING", "PROCESSING", "PUBLISHED", "FAILED"}, attempts : Nat]

Nothing == [e \in {} |-> e]

TypeOK ==
    /\ table \in [Events -> Row]
    /\ expired \subseteq Claims
    /\ pc \in [Workers -> {"idle", "begin", "sweepFailed", "sweepPending", "select", "commit", "publishing"}]
    /\ now \in [Workers -> SUBSET Claims]
    /\ todo \in [Workers -> SUBSET Events]
    /\ DOMAIN writes = Workers
    /\ \A w \in Workers :
          /\ DOMAIN writes[w] \subseteq Events
          /\ \A e \in DOMAIN writes[w] : writes[w][e] \in Row
    /\ chosen \in [Workers -> SUBSET Events]
    /\ batch \in [Workers -> SUBSET Claims]

Init ==
    /\ table = [e \in Events |-> [status |-> "ABSENT", attempts |-> 0]]
    /\ expired = {}
    /\ pc = [w \in Workers |-> "idle"]
    /\ now = [w \in Workers |-> {}]
    /\ todo = [w \in Workers |-> {}]
    /\ writes = [w \in Workers |-> Nothing]
    /\ chosen = [w \in Workers |-> {}]
    /\ batch = [w \in Workers |-> {}]

-----------------------------------------------------------------------------
(* PostgreSQL.                                                             *)

Locked(e, w) == \E v \in Workers \ {w} : e \in DOMAIN writes[v]

Unlocked(e) == \A v \in Workers : e \notin DOMAIN writes[v]

Seen(w) == [e \in Events |-> IF e \in DOMAIN writes[w] THEN writes[w][e] ELSE table[e]]

Write(w, e, row) ==
    writes' = [writes EXCEPT ![w] =
                  [f \in DOMAIN @ \cup {e} |-> IF f = e THEN row ELSE @[f]]]

EndTransaction(w) ==
    /\ now' = [now EXCEPT ![w] = {}]
    /\ todo' = [todo EXCEPT ![w] = {}]
    /\ writes' = [writes EXCEPT ![w] = Nothing]
    /\ chosen' = [chosen EXCEPT ![w] = {}]

Move(w, from, to) == pc[w] = from /\ pc' = [pc EXCEPT ![w] = to]

-----------------------------------------------------------------------------
(* claimBatch                                                              *)

Begin(w) ==
    /\ Move(w, "idle", "begin")
    /\ now' = [now EXCEPT ![w] = expired]
    /\ UNCHANGED <<table, expired, todo, writes, chosen, batch>>

StaleClaimMistakeAnyProcessing(w, e, row) == row.status = "PROCESSING"

StaleClaim(w, e, row) ==
    row.status = "PROCESSING" /\ [event |-> e, attempt |-> row.attempts] \in now[w]

SweepFailedMistakeOneMore(w) ==
    /\ Move(w, "begin", "sweepFailed")
    /\ todo' = [todo EXCEPT ![w] =
                   {e \in Events : StaleClaim(w, e, table[e]) /\ table[e].attempts > MaxAttempts}]
    /\ UNCHANGED <<table, expired, now, writes, chosen, batch>>

SweepFailed(w) ==
    /\ Move(w, "begin", "sweepFailed")
    /\ todo' = [todo EXCEPT ![w] =
                   {e \in Events : StaleClaim(w, e, table[e]) /\ table[e].attempts >= MaxAttempts}]
    /\ UNCHANGED <<table, expired, now, writes, chosen, batch>>

SweepPending(w) ==
    /\ todo[w] = {}
    /\ Move(w, "sweepFailed", "sweepPending")
    /\ todo' = [todo EXCEPT ![w] =
                   {e \in Events : StaleClaim(w, e, Seen(w)[e]) /\ Seen(w)[e].attempts < MaxAttempts}]
    /\ UNCHANGED <<table, expired, now, writes, chosen, batch>>

SweepRowMistakeNoRecheck(w, e) ==
    /\ pc[w] \in {"sweepFailed", "sweepPending"} /\ e \in todo[w]
    /\ ~Locked(e, w)
    /\ todo' = [todo EXCEPT ![w] = @ \ {e}]
    /\ Write(w, e, [Seen(w)[e] EXCEPT !.status = IF pc[w] = "sweepFailed" THEN "FAILED" ELSE "PENDING"])
    /\ UNCHANGED <<table, expired, pc, now, chosen, batch>>

(***************************************************************************)
(* A sweep comes to a row it has found: it waits for the lock and writes   *)
(* the row if its latest version still is such a claim.                    *)
(***************************************************************************)
SweepRow(w, e) ==
    /\ pc[w] \in {"sweepFailed", "sweepPending"} /\ e \in todo[w]
    /\ ~Locked(e, w)
    /\ todo' = [todo EXCEPT ![w] = @ \ {e}]
    /\ LET row == Seen(w)[e] IN
          \/ /\ StaleClaim(w, e, row)
             /\ pc[w] = "sweepFailed" <=> row.attempts >= MaxAttempts
             /\ Write(w, e, [row EXCEPT !.status =
                                IF pc[w] = "sweepFailed" THEN "FAILED" ELSE "PENDING"])
          \/ /\ ~(StaleClaim(w, e, row) /\ (pc[w] = "sweepFailed" <=> row.attempts >= MaxAttempts))
             /\ UNCHANGED writes
    /\ UNCHANGED <<table, expired, pc, now, chosen, batch>>

SelectableMistakeAnyVersion(rows, e) == rows[e].status = "PENDING"

Selectable(rows, e) ==
    /\ rows[e].status = "PENDING"
    /\ \A f \in Events :
          (f[1] = e[1] /\ f[2] < e[2]) => rows[f].status \in {"ABSENT", "PUBLISHED"}

(***************************************************************************)
(* The SELECT starts.  Any of the pending rows may not be due yet.         *)
(***************************************************************************)
Select(w) ==
    /\ todo[w] = {}
    /\ Move(w, "sweepPending", "select")
    /\ \E due \in SUBSET {e \in Events : Selectable(Seen(w), e)} :
          todo' = [todo EXCEPT ![w] = due]
    /\ UNCHANGED <<table, expired, now, writes, chosen, batch>>

(***************************************************************************)
(* The SELECT comes to its next row: skipped when it is locked, or when    *)
(* its latest version is not pending or, claimed and sent back since the   *)
(* SELECT started, not due any more; locked and returned otherwise.        *)
(***************************************************************************)
SelectRow(w, e) ==
    /\ pc[w] = "select" /\ e \in todo[w]
    /\ \A f \in todo[w] \ {e} : Rank[e] < Rank[f]
    /\ Cardinality(chosen[w]) < BatchSize
    /\ todo' = [todo EXCEPT ![w] = @ \ {e}]
    /\ \/ /\ ~Locked(e, w) /\ Seen(w)[e].status = "PENDING"
          /\ Write(w, e, Seen(w)[e])
          /\ chosen' = [chosen EXCEPT ![w] = @ \cup {e}]
       \/ /\ Locked(e, w) \/ Seen(w)[e].status # "PENDING" \/ Seen(w)[e].attempts > 0
          /\ UNCHANGED <<writes, chosen>>
    /\ UNCHANGED <<table, expired, pc, now, batch>>

Selected(w) == todo[w] = {} \/ Cardinality(chosen[w]) = BatchSize

TakeRows(w) ==
    [e \in DOMAIN writes[w] \cup chosen[w] |->
        IF e \in chosen[w]
        THEN [status |-> "PROCESSING", attempts |-> Seen(w)[e].attempts + 1]
        ELSE writes[w][e]]

(***************************************************************************)
(* The UPDATE of the rows the SELECT has returned and locked.              *)
(***************************************************************************)
Take(w) ==
    /\ Selected(w) /\ chosen[w] # {}
    /\ Move(w, "select", "commit")
    /\ writes' = [writes EXCEPT ![w] = TakeRows(w)]
    /\ UNCHANGED <<table, expired, now, todo, chosen, batch>>

TakeNothingMistakeNoCommit(w) ==
    /\ Selected(w) /\ chosen[w] = {}
    /\ Move(w, "select", "idle")
    /\ todo' = [todo EXCEPT ![w] = {}]
    /\ UNCHANGED <<table, expired, now, writes, chosen, batch>>

TakeNothing(w) ==
    /\ Selected(w) /\ chosen[w] = {}
    /\ Move(w, "select", "commit")
    /\ UNCHANGED <<table, expired, tx, batch>>

Commit(w) ==
    /\ Move(w, "commit", IF chosen[w] = {} THEN "idle" ELSE "publishing")
    /\ table' = Seen(w)
    /\ batch' = [batch EXCEPT ![w] =
                    {[event |-> e, attempt |-> Seen(w)[e].attempts] : e \in chosen[w]}]
    /\ EndTransaction(w)
    /\ UNCHANGED expired

(***************************************************************************)
(* COMMIT is applied and the worker is told that it failed.                *)
(***************************************************************************)
CommitUnacknowledged(w) ==
    /\ Move(w, "commit", "idle")
    /\ table' = Seen(w)
    /\ EndTransaction(w)
    /\ UNCHANGED <<expired, batch>>

(***************************************************************************)
(* The transaction is rolled back, or the worker dies: a statement fails,  *)
(* the connection is lost, PostgreSQL resolves a deadlock.                 *)
(***************************************************************************)
Rollback(w) ==
    /\ pc[w] # "idle"
    /\ pc' = [pc EXCEPT ![w] = "idle"]
    /\ batch' = [batch EXCEPT ![w] = {}]
    /\ EndTransaction(w)
    /\ UNCHANGED <<table, expired>>

-----------------------------------------------------------------------------
(* The others.                                                             *)

(***************************************************************************)
(* The fenced update of publishOne, a transaction of its own.              *)
(***************************************************************************)
Settled(c, status) ==
    IF table[c.event] = [status |-> "PROCESSING", attempts |-> c.attempt]
    THEN [table EXCEPT ![c.event].status = status]
    ELSE table

PublishOne(w, c) ==
    /\ pc[w] = "publishing" /\ c \in batch[w]
    /\ \A d \in batch[w] \ {c} : Rank[c.event] < Rank[d.event]
    /\ Unlocked(c.event)
    /\ \E status \in {"PUBLISHED", IF c.attempt >= MaxAttempts THEN "FAILED" ELSE "PENDING"} :
          table' = Settled(c, status)
    /\ batch' = [batch EXCEPT ![w] = @ \ {c}]
    /\ pc' = [pc EXCEPT ![w] = IF batch[w] = {c} THEN "idle" ELSE @]
    /\ UNCHANGED <<expired, tx>>

Insert(e) ==
    /\ table[e].status = "ABSENT"
    /\ \A f \in Events : (f[1] = e[1] /\ f[2] < e[2]) => table[f].status # "ABSENT"
    /\ table' = [table EXCEPT ![e].status = "PENDING"]
    /\ UNCHANGED <<expired, pc, tx, batch>>

OperatorRetry(e) ==
    /\ Unlocked(e)
    /\ table[e].status = "FAILED" /\ table[e].attempts < MaxAttempts + OperatorCap
    /\ table' = [table EXCEPT ![e].status = "PENDING"]
    /\ UNCHANGED <<expired, pc, tx, batch>>

(***************************************************************************)
(* Time: the lease of a claim expires, possibly before it is committed.    *)
(***************************************************************************)
Expire(c) ==
    /\ c \notin expired
    /\ \/ table[c.event] = [status |-> "PROCESSING", attempts |-> c.attempt]
       \/ \E w \in Workers : pc[w] = "commit" /\ c.event \in chosen[w]
                                /\ writes[w][c.event].attempts = c.attempt
    /\ expired' = expired \cup {c}
    /\ UNCHANGED <<table, pc, tx, batch>>

-----------------------------------------------------------------------------
Statement(w) ==
    \/ SweepFailed(w) \/ SweepPending(w) \/ Select(w) \/ Take(w) \/ TakeNothing(w) \/ Commit(w)
    \/ \E e \in todo[w] : SweepRow(w, e) \/ SelectRow(w, e)

Next ==
    \/ \E w \in Workers :
          \/ Begin(w) \/ Statement(w) \/ CommitUnacknowledged(w) \/ Rollback(w)
          \/ \E c \in batch[w] : PublishOne(w, c)
    \/ \E e \in Events : Insert(e) \/ OperatorRetry(e)
    \/ \E e \in Events, n \in 1 .. (MaxAttempts + OperatorCap) :
          Expire([event |-> e, attempt |-> n])

Spec == Init /\ [][Next]_vars

(***************************************************************************)
(* Two transactions that wait for each other's rows.                       *)
(***************************************************************************)
WaitsFor(v, w) ==
    /\ pc[v] \in {"sweepFailed", "sweepPending"}
    /\ todo[v] # {}
    /\ \A e \in todo[v] : Locked(e, v)
    /\ \E e \in todo[v] : e \in DOMAIN writes[w]

(***************************************************************************)
(* Fairness: workers run again and again and the statements of a           *)
(* transaction are executed, PostgreSQL gives a row lock to those that     *)
(* queue for it, and rolls back one of the transactions of a deadlock;     *)
(* publications settle; time passes.                                       *)
(***************************************************************************)
Fairness ==
    /\ \A w \in Workers :
          /\ WF_vars(Begin(w))
          /\ SF_vars(Statement(w))
          /\ WF_vars(\E v \in Workers \ {w} : WaitsFor(v, w) /\ WaitsFor(w, v) /\ Rollback(w))
          /\ WF_vars(\E c \in batch[w] : PublishOne(w, c))
    /\ \A e \in Events :
          WF_vars(\E n \in 1 .. (MaxAttempts + OperatorCap) : Expire([event |-> e, attempt |-> n]))

FairSpec == Spec /\ Fairness

-----------------------------------------------------------------------------
(***************************************************************************)
(* The state of OutboxRelay when w commits: the leases that have expired   *)
(* are those w has swept.                                                  *)
(***************************************************************************)
LockedAt(w, e) ==
    CASE table[e].status # "PROCESSING" -> "null"
      [] table[e].status = "PROCESSING" /\ e \in DOMAIN writes[w] -> "stale"
      [] OTHER -> "fresh"

Relay(w) == INSTANCE OutboxRelay WITH
    status <- [e \in Events |-> table[e].status],
    attempts <- [e \in Events |-> table[e].attempts],
    due <- [e \in Events |-> TRUE],
    lockedAt <- [e \in Events |-> LockedAt(w, e)],
    pc <- [v \in Workers |-> IF pc[v] = "publishing" THEN "relaying" ELSE "idle"],
    batch <- batch,
    inflight <- {},
    log <- [a \in Aggregates |-> <<>>]

(***************************************************************************)
(* The claim is atomic although its statements are not: what a COMMIT      *)
(* makes of the rows as they are at that moment is one ClaimBatch of       *)
(* OutboxRelay, whatever was committed since the transaction's snapshots.  *)
(***************************************************************************)
Commits(w) == pc[w] = "commit" /\ pc'[w] # "commit" /\ table' # table

CommitIsClaim ==
    [][\A w \in Workers : Commits(w) =>
          \E skipped \in SUBSET Events :
             Relay(w)!ClaimBatch(w, skipped) \/ Relay(w)!ClaimUnacknowledged(w, skipped)]_vars

(***************************************************************************)
(* No row is swept from a worker before its lease has expired, whichever   *)
(* versions of it the sweep has seen and waited for.                       *)
(***************************************************************************)
SweptIsExpired ==
    [][\A e \in Events :
          (table[e].status = "PROCESSING" /\ [event |-> e, attempt |-> table[e].attempts] \notin expired
              /\ table'[e] # table[e])
                 => \E w \in Workers : pc[w] = "publishing"
                       /\ [event |-> e, attempt |-> table[e].attempts] \in batch[w] \ batch'[w]]_vars

(***************************************************************************)
(* Two workers never hold the same token, and an event is claimed only     *)
(* when all earlier events of its aggregate are PUBLISHED.                 *)
(***************************************************************************)
ClaimsAreExclusive ==
    /\ \A v, w \in Workers : v # w => batch[v] \cap batch[w] = {}
    /\ \A e, f \in Events :
          (table[e].attempts > 0 /\ f[1] = e[1] /\ f[2] < e[2]) => table[f].status = "PUBLISHED"

(***************************************************************************)
(* A claim transaction ends: no worker waits for ever for a row lock that  *)
(* another has kept, and sweeps that block each other are resolved.        *)
(***************************************************************************)
TransactionsEnd == \A w \in Workers : pc[w] = "begin" ~> pc[w] \in {"idle", "publishing"}

(***************************************************************************)
(* No row stays PROCESSING: when a run is abandoned in the middle of its   *)
(* batch, or was never told of its claim, a sweep finds the rows it has    *)
(* left, if of the transactions a worker begins again and again one        *)
(* commits now and then.                                                   *)
(***************************************************************************)
CommitsNowAndThen == \A w \in Workers : []<>(pc[w] = "begin") => []<><<Commit(w)>>_vars

AbandonedAreFound ==
    CommitsNowAndThen =>
        \A e \in Events : table[e].status = "PROCESSING" ~> table[e].status # "PROCESSING"

-----------------------------------------------------------------------------
(* The inductive invariant (module ClaimTransactionProofs).                *)

IsEarlier(f, e) == f[1] = e[1] /\ f[2] < e[2]

\* Rows of an aggregate appear in the order of their versions.
NoGaps ==
    \A e, f \in Events :
        (IsEarlier(f, e) /\ table[e].status # "ABSENT") => table[f].status # "ABSENT"

\* A row lock has one holder, and none outside of a transaction.
LocksExclude ==
    /\ \A v, w \in Workers : v # w => DOMAIN writes[v] \cap DOMAIN writes[w] = {}
    /\ \A w \in Workers : pc[w] \in {"idle", "publishing"} => DOMAIN writes[w] = {}

\* What the sweeps of w make of the committed row, and the UPDATE of a chosen one.
SweptRow(w, e) ==
    IF StaleClaim(w, e, table[e])
    THEN [table[e] EXCEPT !.status = IF table[e].attempts >= MaxAttempts THEN "FAILED" ELSE "PENDING"]
    ELSE table[e]

ClaimedRow(e) == [status |-> "PROCESSING", attempts |-> table[e].attempts + 1]

\* A transaction has swept or chosen the rows it has locked, as they still are in the table.
WritesAreCurrent ==
    \A w \in Workers : \A e \in DOMAIN writes[w] :
        /\ e \in chosen[w] => SweptRow(w, e).status = "PENDING"
        /\ e \notin chosen[w] => StaleClaim(w, e, table[e])
        /\ writes[w][e] = IF pc[w] = "commit" /\ e \in chosen[w] THEN ClaimedRow(e)
                                                                ELSE SweptRow(w, e)

IsTurnOf(e) == \A f \in Events : IsEarlier(f, e) => table[f].status = "PUBLISHED"

\* A batch is bounded, locked, and still has the turn that the snapshot of the SELECT showed.
ChosenHaveTurn ==
    \A w \in Workers :
        /\ chosen[w] \subseteq DOMAIN writes[w]
        /\ IsFiniteSet(chosen[w]) /\ Cardinality(chosen[w]) <= BatchSize
        /\ pc[w] \notin {"select", "commit"} => chosen[w] = {}
        /\ \A e \in chosen[w] : IsTurnOf(e)
        /\ pc[w] = "select" => \A e \in todo[w] : IsTurnOf(e)

NowIsPast == \A w \in Workers : now[w] \subseteq expired

\* Tokens were issued by a claim of their row, which gives each one higher than the last.
TokensIssued == \A w \in Workers : \A c \in batch[w] : c.attempt <= table[c.event].attempts

ClaimInv ==
    /\ TypeOK /\ NoGaps /\ LocksExclude /\ WritesAreCurrent /\ ChosenHaveTurn
    /\ NowIsPast /\ TokensIssued /\ ClaimsAreExclusive

=============================================================================
