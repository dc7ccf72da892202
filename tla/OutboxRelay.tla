----------------------------- MODULE OutboxRelay -----------------------------
(***************************************************************************)
(* The transactional outbox relay: several worker processes that share one *)
(* table of outbox rows, publish each row to a Kafka topic and record what *)
(* happened (packages/platform/src/outbox/outbox-relay.service.ts).        *)
(*                                                                         *)
(* A worker claims a batch of rows in one transaction, then publishes them *)
(* one by one, outside of any transaction.  The claim is a lease: the row  *)
(* carries the time of the claim (lockedAt) and the number of claims so    *)
(* far (attempts), and the second is the fencing token of every later      *)
(* write to the row.                                                       *)
(*                                                                         *)
(* A claim transaction is one step here.  It is a sequence of statements   *)
(* in the code, but all it reads of rows it does not lock is whether the   *)
(* earlier events of an aggregate are PUBLISHED, and that is final.        *)
(*                                                                         *)
(* Time is what the guards read of it: a row is due or not (availableAt),  *)
(* its lease is fresh or stale (lockedAt).  Both flags turn at any moment, *)
(* so every order of clocks, delays and back-offs is a behaviour; a claim  *)
(* whose clock is behind is a claim made before the flag turned.           *)
(*                                                                         *)
(* An operator "Mistake" defined before the operator it imitates is not    *)
(* part of the specification: it is a bug the properties must notice.      *)
(***************************************************************************)
EXTENDS Naturals, FiniteSets, Sequences

CONSTANTS
    Aggregates,   \* aggregate ids (orders)
    MaxVersion,   \* bound: versions an aggregate may reach
    Workers,      \* relay processes
    BatchSize,    \* RelayOptions.batchSize
    MaxAttempts,  \* RelayOptions.maxAttempts, the same in every worker
    OperatorCap,  \* bound: claims that manual retries may add to an event
    Rank          \* place of a row in the order createdAt, version, id

(***************************************************************************)
(* An event is named by its aggregate and its version: the writer of the   *)
(* table inserts one row per version, with a fresh id (module Ordering).   *)
(***************************************************************************)
Events == Aggregates \X (1 .. MaxVersion)

ASSUME RelayAssumption ==
    /\ MaxVersion \in Nat
    /\ BatchSize \in Nat \ {0}
    /\ MaxAttempts \in Nat \ {0}
    /\ OperatorCap \in Nat
    /\ Rank \in [Events -> Nat]
    /\ \A e, f \in Events : Rank[e] = Rank[f] => e = f

Earlier(e) == {f \in Events : f[1] = e[1] /\ f[2] < e[2]}

(***************************************************************************)
(* A claim is a worker's copy of a row: the event and the attempts the     *)
(* claim transaction gave it.  What goes to the broker is labelled with    *)
(* the claim that sent it, so that copies can be told apart; the envelope  *)
(* itself carries the event only.                                          *)
(***************************************************************************)
Claims == [event : Events, attempt : Nat \ {0}]

Status == {"ABSENT", "PENDING", "PROCESSING", "PUBLISHED", "FAILED"}

VARIABLES
    status,     \* column status; ABSENT is no row yet
    attempts,   \* column attempts
    due,        \* column available_at: is it in the past?
    lockedAt,   \* column locked_at: "null", "fresh" or "stale" (past lockTimeoutMs)
    pc,         \* where each worker is in runOnce
    batch,      \* the claims of the worker's run that are not settled yet
    inflight,   \* produce requests sent and not (yet) appended by the broker
    log         \* per aggregate, what the broker appended under its key

rows == <<status, attempts, due, lockedAt>>
worker == <<pc, batch>>
broker == <<inflight, log>>
vars == <<rows, worker, broker>>

TypeOK ==
    /\ status \in [Events -> Status]
    /\ attempts \in [Events -> Nat]
    /\ due \in [Events -> BOOLEAN]
    /\ lockedAt \in [Events -> {"null", "fresh", "stale"}]
    /\ pc \in [Workers -> {"idle", "relaying", "publishing", "acknowledged", "failing", "down"}]
    /\ batch \in [Workers -> SUBSET Claims]
    /\ inflight \in SUBSET Claims
    /\ log \in [Aggregates -> Seq(Claims)]

Init ==
    /\ status = [e \in Events |-> "ABSENT"]
    /\ attempts = [e \in Events |-> 0]
    /\ due = [e \in Events |-> FALSE]
    /\ lockedAt = [e \in Events |-> "null"]
    /\ pc = [w \in Workers |-> "idle"]
    /\ batch = [w \in Workers |-> {}]
    /\ inflight = {}
    /\ log = [a \in Aggregates |-> <<>>]

-----------------------------------------------------------------------------
(* The writers of the table other than the relay.                          *)

(***************************************************************************)
(* A committed save of an order adds the row of its next version.          *)
(***************************************************************************)
Insert(e) ==
    /\ status[e] = "ABSENT"
    /\ \A f \in Earlier(e) : status[f] # "ABSENT"
    /\ status' = [status EXCEPT ![e] = "PENDING"]
    /\ UNCHANGED <<attempts, due, lockedAt, worker, broker>>

(***************************************************************************)
(* An operator sends a FAILED row back for another attempt, by the SQL of  *)
(* the runbook: attempts are kept.                                         *)
(***************************************************************************)
OperatorRetry(e) ==
    /\ status[e] = "FAILED"
    /\ attempts[e] < MaxAttempts + OperatorCap
    /\ status' = [status EXCEPT ![e] = "PENDING"]
    /\ lockedAt' = [lockedAt EXCEPT ![e] = "null"]
    /\ due' = [due EXCEPT ![e] = TRUE]
    /\ UNCHANGED <<attempts, worker, broker>>

-----------------------------------------------------------------------------
(* Time.                                                                   *)

BecomesDue(e) ==
    /\ status[e] = "PENDING"
    /\ ~due[e]
    /\ due' = [due EXCEPT ![e] = TRUE]
    /\ UNCHANGED <<status, attempts, lockedAt, worker, broker>>

LeaseExpires(e) ==
    /\ lockedAt[e] = "fresh"
    /\ lockedAt' = [lockedAt EXCEPT ![e] = "stale"]
    /\ UNCHANGED <<status, attempts, due, worker, broker>>

-----------------------------------------------------------------------------
(* The claim transaction.                                                  *)

StaleClaim(e) == status[e] = "PROCESSING" /\ lockedAt[e] = "stale"

(***************************************************************************)
(* The status of a row after the two sweeps over stale claims.             *)
(***************************************************************************)
Swept(e) ==
    IF StaleClaim(e)
    THEN IF attempts[e] >= MaxAttempts THEN "FAILED" ELSE "PENDING"
    ELSE status[e]

ClaimableMistakeOutOfOrder(e) == Swept(e) = "PENDING" /\ due[e]

ClaimableMistakeAfterFailed(e) ==
    /\ Swept(e) = "PENDING"
    /\ due[e]
    /\ \A f \in Earlier(e) : Swept(f) \in {"ABSENT", "PUBLISHED", "FAILED"}

(***************************************************************************)
(* The rows the SELECT ... FOR UPDATE may return: pending, due, and no     *)
(* earlier event of the aggregate that is not PUBLISHED.                   *)
(***************************************************************************)
Claimable(e) ==
    /\ Swept(e) = "PENDING"
    /\ due[e]
    /\ \A f \in Earlier(e) : Swept(f) \in {"ABSENT", "PUBLISHED"}

(***************************************************************************)
(* ORDER BY and LIMIT over the rows that are not skipped as locked.        *)
(***************************************************************************)
IsFirstBatch(chosen, from) ==
    /\ chosen \subseteq from
    /\ Cardinality(chosen) <= BatchSize
    /\ chosen # from => Cardinality(chosen) = BatchSize
    /\ \A e \in chosen, f \in from \ chosen : Rank[e] < Rank[f]

ClaimRowsMistakeKeepsAttempts(chosen) ==
    /\ status' = [e \in Events |-> IF e \in chosen THEN "PROCESSING" ELSE Swept(e)]
    /\ attempts' = [e \in Events |->
                       IF e \in chosen /\ attempts[e] = 0 THEN 1 ELSE attempts[e]]
    /\ lockedAt' = [e \in Events |->
                       CASE e \in chosen -> "fresh"
                         [] e \notin chosen /\ StaleClaim(e) -> "null"
                         [] OTHER -> lockedAt[e]]
    /\ UNCHANGED due

ClaimRowsMistakeNoLease(chosen) ==
    /\ status' = [e \in Events |-> IF e \in chosen THEN "PROCESSING" ELSE Swept(e)]
    /\ attempts' = [e \in Events |-> IF e \in chosen THEN attempts[e] + 1 ELSE attempts[e]]
    /\ lockedAt' = [e \in Events |-> IF StaleClaim(e) THEN "null" ELSE lockedAt[e]]
    /\ UNCHANGED due

(***************************************************************************)
(* What the transaction commits: the sweeps, and the chosen rows taken.    *)
(***************************************************************************)
ClaimRows(chosen) ==
    /\ status' = [e \in Events |-> IF e \in chosen THEN "PROCESSING" ELSE Swept(e)]
    /\ attempts' = [e \in Events |-> IF e \in chosen THEN attempts[e] + 1 ELSE attempts[e]]
    /\ lockedAt' = [e \in Events |->
                       CASE e \in chosen -> "fresh"
                         [] e \notin chosen /\ StaleClaim(e) -> "null"
                         [] OTHER -> lockedAt[e]]
    /\ UNCHANGED due

(***************************************************************************)
(* runOnce starts: the transaction commits and the worker has its batch.   *)
(* The rows in "skipped" are row-locked by a claim of another worker.      *)
(***************************************************************************)
ClaimBatch(w, skipped) ==
    /\ pc[w] = "idle"
    /\ \E chosen \in SUBSET {e \in Events : Claimable(e)} :
          /\ IsFirstBatch(chosen, {e \in Events \ skipped : Claimable(e)})
          /\ ClaimRows(chosen)
          /\ batch' = [batch EXCEPT ![w] =
                          {[event |-> e, attempt |-> attempts'[e]] : e \in chosen}]
          /\ pc' = [pc EXCEPT ![w] = IF chosen = {} THEN "idle" ELSE "relaying"]
    /\ UNCHANGED broker

(***************************************************************************)
(* The transaction commits and the worker is told that it failed (the      *)
(* connection is lost at COMMIT): the run ends, the rows stay claimed.     *)
(***************************************************************************)
ClaimUnacknowledged(w, skipped) ==
    /\ pc[w] = "idle"
    /\ \E chosen \in SUBSET {e \in Events : Claimable(e)} :
          /\ IsFirstBatch(chosen, {e \in Events \ skipped : Claimable(e)})
          /\ ClaimRows(chosen)
    /\ UNCHANGED <<worker, broker>>

-----------------------------------------------------------------------------
(* publishOne, for the claims of the batch in their order.                 *)

IsNext(w, c) ==
    /\ c \in batch[w]
    /\ \A d \in batch[w] \ {c} : Rank[c.event] < Rank[d.event]

(***************************************************************************)
(* The publish call: a produce request leaves the worker.                  *)
(***************************************************************************)
Publish(w, c) ==
    /\ pc[w] = "relaying"
    /\ IsNext(w, c)
    /\ inflight' = inflight \cup {c}
    /\ pc' = [pc EXCEPT ![w] = "publishing"]
    /\ UNCHANGED <<rows, batch, log>>

(***************************************************************************)
(* The broker appends a request under the key of its aggregate, at any     *)
(* time after it was sent: also after the worker gave up on it or died.    *)
(* The producer is idempotent, so a request is appended once; one that is  *)
(* lost stays in flight for ever.                                          *)
(***************************************************************************)
BrokerAppends(c) ==
    /\ c \in inflight
    /\ inflight' = inflight \ {c}
    /\ log' = [log EXCEPT ![c.event[1]] = Append(@, c)]
    /\ UNCHANGED <<rows, worker>>

Appended(c) == \E i \in DOMAIN log[c.event[1]] : log[c.event[1]][i] = c

PublishResolvesMistakeEarly(w, c) ==
    /\ pc[w] = "publishing"
    /\ IsNext(w, c)
    /\ pc' = [pc EXCEPT ![w] = "acknowledged"]
    /\ UNCHANGED <<rows, batch, broker>>

(***************************************************************************)
(* The broker's acknowledgement (acks = -1) of an appended record.         *)
(***************************************************************************)
PublishResolves(w, c) ==
    /\ pc[w] = "publishing"
    /\ IsNext(w, c)
    /\ Appended(c)
    /\ pc' = [pc EXCEPT ![w] = "acknowledged"]
    /\ UNCHANGED <<rows, batch, broker>>

PublishRejectsMistakeRetries(w, c) ==
    /\ pc[w] = "publishing"
    /\ IsNext(w, c)
    /\ pc' = [pc EXCEPT ![w] = "relaying"]
    /\ UNCHANGED <<rows, batch, broker>>

(***************************************************************************)
(* The publish call fails or times out; its record may be appended all the *)
(* same, before or after.                                                  *)
(***************************************************************************)
PublishRejects(w, c) ==
    /\ pc[w] = "publishing"
    /\ IsNext(w, c)
    /\ pc' = [pc EXCEPT ![w] = "failing"]
    /\ UNCHANGED <<rows, batch, broker>>

FencedMistakeStatusOnly(c) == status[c.event] = "PROCESSING"

FencedMistakeAttemptsOnly(c) == attempts[c.event] = c.attempt

(***************************************************************************)
(* The WHERE clause of both writes of publishOne.                          *)
(***************************************************************************)
Fenced(c) == status[c.event] = "PROCESSING" /\ attempts[c.event] = c.attempt

WritePublished(c) ==
    \/ /\ Fenced(c)
       /\ status' = [status EXCEPT ![c.event] = "PUBLISHED"]
       /\ lockedAt' = [lockedAt EXCEPT ![c.event] = "null"]
       /\ UNCHANGED <<attempts, due>>
    \/ ~Fenced(c) /\ UNCHANGED rows

WriteFailureMistakeStatus(c) ==
    \/ /\ Fenced(c)
       /\ status' = [status EXCEPT ![c.event] =
                        IF c.attempt >= MaxAttempts THEN "FAILED" ELSE "RETRY"]
       /\ due' = [due EXCEPT ![c.event] = FALSE]
       /\ lockedAt' = [lockedAt EXCEPT ![c.event] = "null"]
       /\ UNCHANGED attempts
    \/ ~Fenced(c) /\ UNCHANGED rows

WriteFailure(c) ==
    \/ /\ Fenced(c)
       /\ status' = [status EXCEPT ![c.event] =
                        IF c.attempt >= MaxAttempts THEN "FAILED" ELSE "PENDING"]
       /\ due' = [due EXCEPT ![c.event] = FALSE]
       /\ lockedAt' = [lockedAt EXCEPT ![c.event] = "null"]
       /\ UNCHANGED attempts
    \/ ~Fenced(c) /\ UNCHANGED rows

(***************************************************************************)
(* The loop of runOnce goes on to the next claim, or the run is over.      *)
(***************************************************************************)
Advance(w, c) ==
    /\ batch' = [batch EXCEPT ![w] = @ \ {c}]
    /\ pc' = [pc EXCEPT ![w] = IF batch[w] = {c} THEN "idle" ELSE "relaying"]

RecordPublished(w, c) ==
    /\ pc[w] = "acknowledged"
    /\ IsNext(w, c)
    /\ WritePublished(c)
    /\ Advance(w, c)
    /\ UNCHANGED broker

(***************************************************************************)
(* The write of PUBLISHED throws inside the try block, applied or not: the *)
(* event is handled as one that was not published.                         *)
(***************************************************************************)
RecordPublishedThrows(w, c) ==
    /\ pc[w] = "acknowledged"
    /\ IsNext(w, c)
    /\ WritePublished(c) \/ UNCHANGED rows
    /\ pc' = [pc EXCEPT ![w] = "failing"]
    /\ UNCHANGED <<batch, broker>>

RecordFailure(w, c) ==
    /\ pc[w] = "failing"
    /\ IsNext(w, c)
    /\ WriteFailure(c)
    /\ Advance(w, c)
    /\ UNCHANGED broker

(***************************************************************************)
(* The write in the catch block throws, applied or not: runOnce throws and *)
(* leaves the rest of its batch PROCESSING.                                *)
(***************************************************************************)
RecordFailureThrows(w, c) ==
    /\ pc[w] = "failing"
    /\ IsNext(w, c)
    /\ WriteFailure(c) \/ UNCHANGED rows
    /\ batch' = [batch EXCEPT ![w] = {}]
    /\ pc' = [pc EXCEPT ![w] = "idle"]
    /\ UNCHANGED broker

-----------------------------------------------------------------------------
(* Processes die anywhere and come back with nothing in memory.            *)

Crash(w) ==
    /\ pc[w] # "down"
    /\ pc' = [pc EXCEPT ![w] = "down"]
    /\ batch' = [batch EXCEPT ![w] = {}]
    /\ UNCHANGED <<rows, broker>>

Restart(w) ==
    /\ pc[w] = "down"
    /\ pc' = [pc EXCEPT ![w] = "idle"]
    /\ UNCHANGED <<rows, batch, broker>>

-----------------------------------------------------------------------------
PublishOne(w, c) ==
    \/ Publish(w, c)
    \/ PublishResolves(w, c)
    \/ PublishRejects(w, c)
    \/ RecordPublished(w, c)
    \/ RecordPublishedThrows(w, c)
    \/ RecordFailure(w, c)
    \/ RecordFailureThrows(w, c)

Next ==
    \/ \E e \in Events :
          Insert(e) \/ OperatorRetry(e) \/ BecomesDue(e) \/ LeaseExpires(e)
    \/ \E w \in Workers :
          \/ \E skipped \in SUBSET Events :
                ClaimBatch(w, skipped) \/ ClaimUnacknowledged(w, skipped)
          \/ \E c \in batch[w] : PublishOne(w, c)
          \/ Crash(w)
          \/ Restart(w)
    \/ \E c \in inflight : BrokerAppends(c)

Spec == Init /\ [][Next]_vars

(***************************************************************************)
(* Fairness.  A worker that is up takes its steps: the producer times out, *)
(* and the pool, which has no timeout (database.service.ts), is assumed to *)
(* settle, by an answer of the server or the end of the connection.  One   *)
(* that is down is restarted; the timer of the runner comes round, and of  *)
(* the claims a worker keeps being able to make one commits without a row  *)
(* skipped; time passes.  Nothing is asked of the broker, of the API or of *)
(* the operator, and crashes need never stop.                              *)
(***************************************************************************)
Fairness ==
    /\ \A w \in Workers :
          /\ SF_vars(ClaimBatch(w, {}))
          /\ WF_vars(\E c \in batch[w] : PublishOne(w, c))
          /\ WF_vars(Restart(w))
    /\ \A e \in Events : WF_vars(BecomesDue(e)) /\ WF_vars(LeaseExpires(e))

FairSpec == Spec /\ Fairness

-----------------------------------------------------------------------------
(* Safety.                                                                 *)

(***************************************************************************)
(* The promise of docs/arch/system.md: the first copy of each version of   *)
(* an aggregate is in the topic after the first copy of the version before *)
(* it, whatever crashes, retries, races and late requests there are.       *)
(***************************************************************************)
FirstCopiesInOrder ==
    \A a \in Aggregates : \A i \in DOMAIN log[a] :
        log[a][i].event[2] > 1 =>
            \E j \in 1 .. (i - 1) : log[a][j].event = <<a, log[a][i].event[2] - 1>>

(***************************************************************************)
(* At least once: a row is PUBLISHED only if the topic has its event.      *)
(***************************************************************************)
PublishedIsInLog ==
    \A e \in Events :
        status[e] = "PUBLISHED" => \E i \in DOMAIN log[e[1]] : log[e[1]][i].event = e

(***************************************************************************)
(* A claim is published at most once: two copies of an event in the topic, *)
(* or one there and one still on its way, come from two claims.  So the    *)
(* duplicates of an event are bounded by its attempts.                     *)
(***************************************************************************)
OneCopyPerClaim ==
    /\ \A a \in Aggregates : \A i, j \in DOMAIN log[a] : log[a][i] = log[a][j] => i = j
    /\ \A c \in inflight : ~Appended(c)

(***************************************************************************)
(* A claim is in the hands of one worker, so at most one worker has the    *)
(* token of a row; the others that still work on it are fenced off.        *)
(***************************************************************************)
AtMostOneOwner ==
    \A v, w \in Workers : \A c \in batch[v] \cap batch[w] : v = w

(***************************************************************************)
(* The head of the line: an event that was ever claimed has no earlier     *)
(* event of its aggregate that is not PUBLISHED.                           *)
(***************************************************************************)
HeadOfLine ==
    \A e \in Events : attempts[e] > 0 => \A f \in Earlier(e) : status[f] = "PUBLISHED"

(***************************************************************************)
(* A row is PROCESSING exactly while it has a lease: one without a lease   *)
(* would be swept by nobody and block its aggregate for ever.              *)
(***************************************************************************)
ProcessingHasLease ==
    \A e \in Events : status[e] = "PROCESSING" <=> lockedAt[e] # "null"

(***************************************************************************)
(* FAILED is given up after the whole budget, never before, and no event   *)
(* is claimed beyond the budget and what the operator added to it.         *)
(***************************************************************************)
BudgetIsKept ==
    \A e \in Events :
        /\ status[e] = "FAILED" => attempts[e] >= MaxAttempts
        /\ attempts[e] <= MaxAttempts + OperatorCap

-----------------------------------------------------------------------------
(* The inductive invariant: what the proofs of the properties above rest   *)
(* on (module OutboxProofs); TLC checks it as an invariant first.          *)

\* Rows of an aggregate appear in the order of their versions.
NoGaps ==
    \A e \in Events : status[e] # "ABSENT" => \A f \in Earlier(e) : status[f] # "ABSENT"

\* A row that was never claimed is absent or pending, an absent one was never claimed.
Unclaimed ==
    \A e \in Events :
        /\ attempts[e] = 0 => status[e] \in {"ABSENT", "PENDING"}
        /\ status[e] = "ABSENT" => attempts[e] = 0

\* Every token there is was issued by a claim of its row.
TokensIssued ==
    /\ \A w \in Workers : \A c \in batch[w] : c.attempt <= attempts[c.event]
    /\ \A c \in inflight : c.attempt <= attempts[c.event]
    /\ \A a \in Aggregates : \A i \in DOMAIN log[a] :
          log[a][i].event[1] = a /\ log[a][i].attempt <= attempts[log[a][i].event]

\* A worker sends the claims of its batch in order: those behind the next one were not sent.
UnsentClaims ==
    \A w \in Workers : \A c \in batch[w] :
        (pc[w] \in {"publishing", "acknowledged", "failing"} /\ IsNext(w, c))
            \/ (c \notin inflight /\ ~Appended(c))

\* An acknowledgement is one of an appended record.
AcknowledgedIsAppended ==
    \A w \in Workers : \A c \in batch[w] :
        (pc[w] = "acknowledged" /\ IsNext(w, c)) => Appended(c)

\* What can still be claimed stays within the budget.
BudgetLeft ==
    \A e \in Events :
        status[e] = "PENDING" => attempts[e] < MaxAttempts + OperatorCap

RowInv == TypeOK /\ NoGaps /\ Unclaimed /\ HeadOfLine /\ ProcessingHasLease

ClaimInv == RowInv /\ TokensIssued /\ AtMostOneOwner /\ UnsentClaims /\ OneCopyPerClaim

IndInv ==
    /\ ClaimInv
    /\ AcknowledgedIsAppended
    /\ PublishedIsInLog
    /\ FirstCopiesInOrder
    /\ BudgetIsKept /\ BudgetLeft

-----------------------------------------------------------------------------
(* Action properties.                                                      *)

(***************************************************************************)
(* Nothing takes back a recorded publication: not a relay whose write was  *)
(* applied and reported as failed, not one that was overtaken.             *)
(***************************************************************************)
PublishedIsFinal ==
    [][\A e \in Events : status[e] = "PUBLISHED" => status'[e] = "PUBLISHED"]_vars

(***************************************************************************)
(* While its lease is fresh a claimed row is taken or settled by nobody    *)
(* but the worker that holds its token: a relay that lost the row to a     *)
(* later claim cannot end the later claim.                                 *)
(***************************************************************************)
FreshLeaseIsProtected ==
    [][\A e \in Events :
          (lockedAt[e] = "fresh" /\ <<status[e], attempts[e]>>' # <<status[e], attempts[e]>>) =>
              \E w \in Workers :
                  /\ [event |-> e, attempt |-> attempts[e]] \in batch[w]
                  /\ pc[w] \in {"acknowledged", "failing"}
                  /\ pc'[w] # pc[w]]_vars

-----------------------------------------------------------------------------
(* Liveness.                                                               *)

Settled(e) ==
    status[e] = "PUBLISHED" \/ \E f \in Earlier(e) \cup {e} : status[f] = "FAILED"

(***************************************************************************)
(* An inserted event ends PUBLISHED, FAILED, or behind one that is FAILED  *)
(* and waits for the operator (OperatorCap = 0): it is never stuck, not    *)
(* even when every worker keeps crashing with rows in its hands.           *)
(***************************************************************************)
Settles == \A e \in Events : status[e] # "ABSENT" ~> Settled(e)

-----------------------------------------------------------------------------
(* Refinement.                                                             *)

(***************************************************************************)
(* What a row means to the writer and the readers: a claim, its lease and  *)
(* the wait for the next try are all "waiting".                            *)
(***************************************************************************)
Waiting(e) ==
    CASE status[e] = "ABSENT" -> "absent"
      [] status[e] \in {"PENDING", "PROCESSING"} -> "waiting"
      [] status[e] = "PUBLISHED" -> "confirmed"
      [] status[e] = "FAILED" -> "failed"

Delivery == INSTANCE OrderedDelivery WITH
    state <- [e \in Events |-> Waiting(e)],
    log <- log,
    CopyCap <- MaxAttempts + OperatorCap

(***************************************************************************)
(* The relay is an ordered, at-least-once channel that delivers an event   *)
(* at most once per attempt.                                               *)
(***************************************************************************)
DeliverySpec == Delivery!Spec

=============================================================================
