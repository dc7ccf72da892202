----------------------------- MODULE OutboxProofs -----------------------------
(***************************************************************************)
(* Theorems about the outbox, for any number of relays, aggregates and     *)
(* versions: the safety of OutboxRelay, that it implements the channel     *)
(* OrderedDelivery, and that the worker processes of OutboxRunner          *)
(* implement it, so that they are such a channel too.                      *)
(***************************************************************************)
EXTENDS OutboxRunner, TLAPS, SequenceTheorems

(***************************************************************************)
(* Parts of an event and of a claim.                                       *)
(***************************************************************************)
LEMMA EventParts ==
    ASSUME NEW e \in Events
    PROVE  /\ e[1] \in Aggregates
           /\ e[2] \in 1 .. MaxVersion
           /\ e[2] \in Nat
           /\ e = <<e[1], e[2]>>
BY RelayAssumption DEF Events

LEMMA ClaimParts ==
    ASSUME NEW c \in Claims
    PROVE  /\ c.event \in Events
           /\ c.event[1] \in Aggregates
           /\ c.attempt \in Nat
           /\ c.attempt > 0
           /\ c = [event |-> c.event, attempt |-> c.attempt]
<1>1. c.event \in Events /\ c.attempt \in Nat \ {0} /\ c = [event |-> c.event, attempt |-> c.attempt]
  BY DEF Claims
<1> QED
  BY <1>1, EventParts

(***************************************************************************)
(* The actions of Next, one by one: what a proof that a step preserves     *)
(* something has to go through.                                            *)
(***************************************************************************)
LEMMA NextCases ==
    ASSUME TypeOK, Next, NEW ACTION P,
           \A e \in Events : Insert(e) => P,
           \A e \in Events : OperatorRetry(e) => P,
           \A e \in Events : BecomesDue(e) => P,
           \A e \in Events : LeaseExpires(e) => P,
           \A w \in Workers : \A skipped \in SUBSET Events : ClaimBatch(w, skipped) => P,
           \A w \in Workers : \A skipped \in SUBSET Events : ClaimUnacknowledged(w, skipped) => P,
           \A w \in Workers : \A c \in Claims : Publish(w, c) => P,
           \A w \in Workers : \A c \in Claims : PublishResolves(w, c) => P,
           \A w \in Workers : \A c \in Claims : PublishRejects(w, c) => P,
           \A w \in Workers : \A c \in Claims : RecordPublished(w, c) => P,
           \A w \in Workers : \A c \in Claims : RecordPublishedThrows(w, c) => P,
           \A w \in Workers : \A c \in Claims : RecordFailure(w, c) => P,
           \A w \in Workers : \A c \in Claims : RecordFailureThrows(w, c) => P,
           \A w \in Workers : Crash(w) => P,
           \A w \in Workers : Restart(w) => P,
           \A c \in Claims : BrokerAppends(c) => P
    PROVE  P
<1>1. \A w \in Workers : batch[w] \subseteq Claims
  BY DEF TypeOK
<1>2. inflight \subseteq Claims
  BY DEF TypeOK
<1>3. CASE \E e \in Events : Insert(e) \/ OperatorRetry(e) \/ BecomesDue(e) \/ LeaseExpires(e)
  BY <1>3
<1>4. ASSUME NEW w \in Workers, NEW c \in batch[w], PublishOne(w, c)
      PROVE  P
  <2>1. c \in Claims
    BY <1>1
  <2> QED
    BY <1>4, <2>1 DEF PublishOne
<1>5. CASE \E w \in Workers : \E skipped \in SUBSET Events :
              ClaimBatch(w, skipped) \/ ClaimUnacknowledged(w, skipped)
  BY <1>5
<1>6. CASE \E w \in Workers : Crash(w) \/ Restart(w)
  BY <1>6
<1>7. CASE \E c \in inflight : BrokerAppends(c)
  BY <1>7, <1>2
<1> QED
  BY <1>3, <1>4, <1>5, <1>6, <1>7 DEF Next

-----------------------------------------------------------------------------
(* Types.                                                                  *)

LEMMA SweptType ==
    ASSUME TypeOK, NEW e \in Events
    PROVE  Swept(e) \in Status
BY DEF TypeOK, Swept, Status

LEMMA ClaimRowsType ==
    ASSUME TypeOK, NEW chosen \in SUBSET Events, ClaimRows(chosen)
    PROVE  /\ status' \in [Events -> Status]
           /\ attempts' \in [Events -> Nat]
           /\ due' \in [Events -> BOOLEAN]
           /\ lockedAt' \in [Events -> {"null", "fresh", "stale"}]
           /\ \A e \in chosen : attempts'[e] \in Nat \ {0}
<1>1. status' \in [Events -> Status]
  <2>1. \A e \in Events : Swept(e) \in Status
    BY SweptType
  <2> QED
    BY <2>1 DEF ClaimRows, Status
<1>2. attempts' \in [Events -> Nat] /\ \A e \in chosen : attempts'[e] \in Nat \ {0}
  BY DEF ClaimRows, TypeOK
<1>3. due' \in [Events -> BOOLEAN]
  BY DEF ClaimRows, TypeOK
<1>4. lockedAt' \in [Events -> {"null", "fresh", "stale"}]
  <2>1. ASSUME NEW e \in Events
        PROVE  (CASE e \in chosen -> "fresh"
                  [] e \notin chosen /\ StaleClaim(e) -> "null"
                  [] OTHER -> lockedAt[e]) \in {"null", "fresh", "stale"}
    BY DEF TypeOK
  <2> QED
    BY <2>1 DEF ClaimRows
<1> QED
  BY <1>1, <1>2, <1>3, <1>4

LEMMA WriteType ==
    ASSUME TypeOK, NEW c \in Claims, WritePublished(c) \/ WriteFailure(c) \/ UNCHANGED rows
    PROVE  /\ status' \in [Events -> Status]
           /\ attempts' \in [Events -> Nat]
           /\ due' \in [Events -> BOOLEAN]
           /\ lockedAt' \in [Events -> {"null", "fresh", "stale"}]
BY ClaimParts DEF TypeOK, WritePublished, WriteFailure, rows, Status

LEMMA TypeStep == TypeOK /\ [Next]_vars => TypeOK'
<1> SUFFICES ASSUME TypeOK, [Next]_vars
             PROVE  TypeOK'
  OBVIOUS
<1> USE DEF TypeOK
<1>0. CASE UNCHANGED vars
  BY <1>0 DEF vars, rows, worker, broker
<1>1. ASSUME NEW e \in Events, Insert(e)
      PROVE  TypeOK'
  BY <1>1 DEF Insert, worker, broker, Status
<1>2. ASSUME NEW e \in Events, OperatorRetry(e)
      PROVE  TypeOK'
  BY <1>2 DEF OperatorRetry, worker, broker, Status
<1>3. ASSUME NEW e \in Events, BecomesDue(e)
      PROVE  TypeOK'
  BY <1>3 DEF BecomesDue, worker, broker
<1>4. ASSUME NEW e \in Events, LeaseExpires(e)
      PROVE  TypeOK'
  BY <1>4 DEF LeaseExpires, worker, broker
<1>5. ASSUME NEW w \in Workers, NEW skipped \in SUBSET Events, ClaimBatch(w, skipped)
      PROVE  TypeOK'
  <2>1. PICK chosen \in SUBSET {e \in Events : Claimable(e)} :
           /\ ClaimRows(chosen)
           /\ batch' = [batch EXCEPT ![w] = {[event |-> e, attempt |-> attempts'[e]] : e \in chosen}]
           /\ pc' = [pc EXCEPT ![w] = IF chosen = {} THEN "idle" ELSE "relaying"]
    BY <1>5 DEF ClaimBatch
  <2>2. chosen \in SUBSET Events
    OBVIOUS
  <2>3. {[event |-> e, attempt |-> attempts'[e]] : e \in chosen} \in SUBSET Claims
    <3>1. \A e \in chosen : [event |-> e, attempt |-> attempts'[e]] \in Claims
      BY <2>1, <2>2, ClaimRowsType DEF Claims
    <3> QED
      BY <3>1, Zenon
  <2>4. batch' \in [Workers -> SUBSET Claims]
    BY <2>1, <2>3
  <2>5. UNCHANGED broker
    BY <1>5 DEF ClaimBatch
  <2> QED
    BY <2>1, <2>2, <2>4, <2>5, ClaimRowsType DEF broker
<1>6. ASSUME NEW w \in Workers, NEW skipped \in SUBSET Events, ClaimUnacknowledged(w, skipped)
      PROVE  TypeOK'
  BY <1>6, ClaimRowsType DEF ClaimUnacknowledged, worker, broker
<1>7. ASSUME NEW w \in Workers, NEW c \in Claims, Publish(w, c)
      PROVE  TypeOK'
  BY <1>7 DEF Publish, rows
<1>8. ASSUME NEW w \in Workers, NEW c \in Claims, PublishResolves(w, c) \/ PublishRejects(w, c)
      PROVE  TypeOK'
  BY <1>8 DEF PublishResolves, PublishRejects, rows, broker
<1>9. ASSUME NEW w \in Workers, NEW c \in Claims, RecordPublished(w, c) \/ RecordFailure(w, c)
      PROVE  TypeOK'
  BY <1>9, WriteType DEF RecordPublished, RecordFailure, Advance, broker
<1>10. ASSUME NEW w \in Workers, NEW c \in Claims,
              RecordPublishedThrows(w, c) \/ RecordFailureThrows(w, c)
       PROVE  TypeOK'
  BY <1>10, WriteType DEF RecordPublishedThrows, RecordFailureThrows, broker
<1>11. ASSUME NEW w \in Workers, Crash(w) \/ Restart(w)
       PROVE  TypeOK'
  BY <1>11 DEF Crash, Restart, rows, broker
<1>12. ASSUME NEW c \in Claims, BrokerAppends(c)
       PROVE  TypeOK'
  <2>1. Append(log[c.event[1]], c) \in Seq(Claims)
    BY ClaimParts, AppendProperties
  <2>2. log' \in [Aggregates -> Seq(Claims)]
    BY <1>12, <2>1 DEF BrokerAppends
  <2> QED
    BY <1>12, <2>2 DEF BrokerAppends, rows, worker
<1> QED
  <2> HIDE DEF TypeOK
  <2> QED
    BY <1>0, <1>1, <1>2, <1>3, <1>4, <1>5, <1>6, <1>7, <1>8, <1>9, <1>10, <1>11, <1>12, NextCases

(***************************************************************************)
(* Every reachable state has the shape TypeOK gives it.                    *)
(***************************************************************************)
THEOREM TypeCorrect == Spec => []TypeOK
<1>1. Init => TypeOK
  BY DEF Init, TypeOK, Status
<1> QED
  BY <1>1, TypeStep, PTL DEF Spec

-----------------------------------------------------------------------------
(* The automaton of a row: what a step of the system does to one row.      *)

Stays(e) ==
    /\ status'[e] = status[e] /\ attempts'[e] = attempts[e]
    /\ lockedAt'[e] = lockedAt[e] \/ (lockedAt[e] = "fresh" /\ lockedAt'[e] = "stale")

IsInserted(e) ==
    /\ status[e] = "ABSENT" /\ status'[e] = "PENDING"
    /\ attempts'[e] = attempts[e] /\ lockedAt'[e] = lockedAt[e]
    /\ \A f \in Earlier(e) : status[f] # "ABSENT"

IsRetried(e) ==
    /\ status[e] = "FAILED" /\ status'[e] = "PENDING"
    /\ attempts'[e] = attempts[e] /\ lockedAt'[e] = "null"
    /\ attempts[e] < MaxAttempts + OperatorCap

IsSwept(e) ==
    /\ StaleClaim(e) /\ status'[e] = Swept(e)
    /\ attempts'[e] = attempts[e] /\ lockedAt'[e] = "null"

IsClaimed(e) ==
    /\ Claimable(e) /\ status'[e] = "PROCESSING"
    /\ attempts'[e] = attempts[e] + 1 /\ lockedAt'[e] = "fresh"

(* Worker w settles row e under the token it holds. *)
SettlesClaim(w, e) ==
    /\ [event |-> e, attempt |-> attempts[e]] \in batch[w]
    /\ IsNext(w, [event |-> e, attempt |-> attempts[e]])
    /\ pc'[w] # pc[w]
    /\ \/ pc[w] = "acknowledged" /\ status'[e] = "PUBLISHED"
       \/ /\ pc[w] = "failing"
          /\ status'[e] = IF attempts[e] >= MaxAttempts THEN "FAILED" ELSE "PENDING"

IsSettled(e) ==
    /\ status[e] = "PROCESSING"
    /\ attempts'[e] = attempts[e] /\ lockedAt'[e] = "null"
    /\ \E w \in Workers : SettlesClaim(w, e)

RowStep(e) ==
    Stays(e) \/ IsInserted(e) \/ IsRetried(e) \/ IsSwept(e) \/ IsClaimed(e) \/ IsSettled(e)

LEMMA ClaimRowStep ==
    ASSUME TypeOK, NEW chosen \in SUBSET {e \in Events : Claimable(e)}, ClaimRows(chosen),
           NEW e \in Events
    PROVE  RowStep(e)
<1>1. CASE e \in chosen
  <2>1. Claimable(e)
    BY <1>1
  <2>2. IsClaimed(e)
    BY <1>1, <2>1 DEF ClaimRows, IsClaimed
  <2> QED
    BY <2>2 DEF RowStep
<1>2. CASE e \notin chosen /\ StaleClaim(e)
  <2>1. IsSwept(e)
    BY <1>2 DEF ClaimRows, IsSwept
  <2> QED
    BY <2>1 DEF RowStep
<1>3. CASE e \notin chosen /\ ~StaleClaim(e)
  <2>1. Stays(e)
    BY <1>3 DEF ClaimRows, Stays, Swept
  <2> QED
    BY <2>1 DEF RowStep
<1> QED
  BY <1>1, <1>2, <1>3

LEMMA WriteRowStep ==
    ASSUME TypeOK, NEW w \in Workers, NEW c \in Claims, NEW e \in Events,
           IsNext(w, c), pc'[w] # pc[w],
           \/ pc[w] = "acknowledged" /\ (WritePublished(c) \/ UNCHANGED rows)
           \/ pc[w] = "failing" /\ (WriteFailure(c) \/ UNCHANGED rows)
    PROVE  RowStep(e)
<1>1. CASE UNCHANGED rows \/ ~Fenced(c) \/ e # c.event
  <2>1. Stays(e)
    BY <1>1, ClaimParts DEF TypeOK, Stays, WritePublished, WriteFailure, rows
  <2> QED
    BY <2>1 DEF RowStep
<1>2. CASE ~ UNCHANGED rows /\ Fenced(c) /\ e = c.event
  <2>1. c = [event |-> e, attempt |-> attempts[e]]
    BY <1>2, ClaimParts DEF Fenced
  <2>2. c \in batch[w] /\ c.attempt = attempts[e] /\ status[e] = "PROCESSING"
    BY <1>2 DEF IsNext, Fenced
  <2>3. attempts'[e] = attempts[e] /\ lockedAt'[e] = "null"
    BY <1>2 DEF TypeOK, WritePublished, WriteFailure
  <2>4. \/ pc[w] = "acknowledged" /\ status'[e] = "PUBLISHED"
        \/ /\ pc[w] = "failing"
           /\ status'[e] = IF attempts[e] >= MaxAttempts THEN "FAILED" ELSE "PENDING"
    BY <1>2, <2>2 DEF TypeOK, WritePublished, WriteFailure
  <2>5. SettlesClaim(w, e)
    BY <2>1, <2>2, <2>4 DEF SettlesClaim
  <2> QED
    BY <2>2, <2>3, <2>5 DEF RowStep, IsSettled
<1> QED
  BY <1>1, <1>2

(***************************************************************************)
(* Every step of the system moves every row along this automaton.          *)
(***************************************************************************)
LEMMA RowSteps ==
    ASSUME TypeOK, [Next]_vars, NEW e \in Events
    PROVE  RowStep(e)
<1>0. CASE UNCHANGED rows
  BY <1>0 DEF rows, RowStep, Stays
<1>1. ASSUME NEW f \in Events, Insert(f)
      PROVE  RowStep(e)
  <2>1. CASE e = f
    BY <1>1, <2>1 DEF Insert, TypeOK, RowStep, IsInserted
  <2>2. CASE e # f
    BY <1>1, <2>2 DEF Insert, TypeOK, RowStep, Stays
  <2> QED
    BY <2>1, <2>2
<1>2. ASSUME NEW f \in Events, OperatorRetry(f)
      PROVE  RowStep(e)
  <2>1. CASE e = f
    BY <1>2, <2>1 DEF OperatorRetry, TypeOK, RowStep, IsRetried
  <2>2. CASE e # f
    BY <1>2, <2>2 DEF OperatorRetry, TypeOK, RowStep, Stays
  <2> QED
    BY <2>1, <2>2
<1>3. ASSUME NEW f \in Events, BecomesDue(f)
      PROVE  RowStep(e)
  BY <1>3 DEF BecomesDue, RowStep, Stays
<1>4. ASSUME NEW f \in Events, LeaseExpires(f)
      PROVE  RowStep(e)
  BY <1>4 DEF LeaseExpires, TypeOK, RowStep, Stays
<1>5. ASSUME NEW w \in Workers, NEW skipped \in SUBSET Events,
             ClaimBatch(w, skipped) \/ ClaimUnacknowledged(w, skipped)
      PROVE  RowStep(e)
  <2>1. PICK chosen \in SUBSET {f \in Events : Claimable(f)} : ClaimRows(chosen)
    BY <1>5 DEF ClaimBatch, ClaimUnacknowledged
  <2> QED
    BY <2>1, ClaimRowStep
<1>6. ASSUME NEW w \in Workers, NEW c \in Claims,
             RecordPublished(w, c) \/ RecordFailure(w, c)
      PROVE  RowStep(e)
  <2>1. pc'[w] # pc[w] /\ IsNext(w, c)
    BY <1>6 DEF RecordPublished, RecordFailure, Advance, TypeOK
  <2> QED
    BY <1>6, <2>1, WriteRowStep DEF RecordPublished, RecordFailure
<1>7. ASSUME NEW w \in Workers, NEW c \in Claims,
             RecordPublishedThrows(w, c) \/ RecordFailureThrows(w, c)
      PROVE  RowStep(e)
  <2>1. pc'[w] # pc[w] /\ IsNext(w, c)
    BY <1>7 DEF RecordPublishedThrows, RecordFailureThrows, TypeOK
  <2> QED
    BY <1>7, <2>1, WriteRowStep DEF RecordPublishedThrows, RecordFailureThrows
<1>8. ASSUME NEW w \in Workers, NEW c \in Claims,
             Publish(w, c) \/ PublishResolves(w, c) \/ PublishRejects(w, c)
      PROVE  RowStep(e)
  BY <1>0, <1>8 DEF Publish, PublishResolves, PublishRejects
<1>9. ASSUME NEW w \in Workers, Crash(w) \/ Restart(w)
      PROVE  RowStep(e)
  BY <1>0, <1>9 DEF Crash, Restart
<1>10. ASSUME NEW c \in Claims, BrokerAppends(c)
       PROVE  RowStep(e)
  BY <1>0, <1>10 DEF BrokerAppends
<1>11. CASE UNCHANGED vars
  BY <1>0, <1>11 DEF vars
<1> QED
  BY <1>1, <1>2, <1>3, <1>4, <1>5, <1>6, <1>7, <1>8, <1>9, <1>10, <1>11, NextCases

(***************************************************************************)
(* A row that is PUBLISHED stays so in every behaviour.                    *)
(***************************************************************************)
THEOREM PublishedStays == Spec => PublishedIsFinal
<1>1. TypeOK /\ [Next]_vars =>
          \A e \in Events : status[e] = "PUBLISHED" => status'[e] = "PUBLISHED"
  <2> SUFFICES ASSUME TypeOK, [Next]_vars, NEW e \in Events, status[e] = "PUBLISHED"
               PROVE  status'[e] = "PUBLISHED"
    OBVIOUS
  <2>1. RowStep(e)
    BY RowSteps
  <2> QED
    BY <2>1 DEF RowStep, Stays, IsInserted, IsRetried, IsSwept, IsClaimed, IsSettled,
                StaleClaim, Claimable, Swept
<1> QED
  BY <1>1, TypeCorrect, PTL DEF Spec, PublishedIsFinal

-----------------------------------------------------------------------------
(* The invariant of the rows.                                              *)

LEMMA EarlierParts ==
    ASSUME NEW e \in Events, NEW f \in Earlier(e)
    PROVE  f \in Events
BY DEF Earlier

LEMMA RowInit == Init => RowInv /\ BudgetIsKept /\ BudgetLeft
<1> SUFFICES ASSUME Init PROVE RowInv /\ BudgetIsKept /\ BudgetLeft
  OBVIOUS
<1>1. TypeOK
  BY DEF Init, TypeOK, Status
<1>2. NoGaps /\ Unclaimed /\ HeadOfLine /\ ProcessingHasLease
  BY DEF Init, NoGaps, Unclaimed, HeadOfLine, ProcessingHasLease
<1>3. BudgetIsKept /\ BudgetLeft
  BY RelayAssumption DEF Init, BudgetIsKept, BudgetLeft
<1> QED
  BY <1>1, <1>2, <1>3 DEF RowInv

(***************************************************************************)
(* A claim, a sweep and a settlement happen at the head of the line; all   *)
(* that comes before it is PUBLISHED, and that is final.                   *)
(***************************************************************************)
LEMMA HeadIsClaimed ==
    ASSUME RowInv, NEW e \in Events, Claimable(e), NEW f \in Earlier(e)
    PROVE  status[f] = "PUBLISHED"
<1>1. status[e] # "ABSENT"
  BY DEF Claimable, Swept, StaleClaim
<1>2. f \in Events /\ status[f] # "ABSENT"
  BY <1>1, EarlierParts DEF RowInv, NoGaps
<1>3. Swept(f) \in {"ABSENT", "PUBLISHED"}
  BY DEF Claimable
<1> QED
  BY <1>2, <1>3 DEF Swept

LEMMA RowInvStep == RowInv /\ [Next]_vars => RowInv'
<1> SUFFICES ASSUME RowInv, [Next]_vars
             PROVE  RowInv'
  OBVIOUS
<1>1. TypeOK /\ TypeOK'
  BY TypeStep DEF RowInv
<1>2. \A e \in Events : RowStep(e)
  BY <1>1, RowSteps
<1>3. \A e \in Events : status[e] = "PUBLISHED" => status'[e] = "PUBLISHED"
  BY <1>2 DEF RowStep, Stays, IsInserted, IsRetried, IsSwept, IsClaimed, IsSettled,
              StaleClaim, Claimable, Swept
<1>4. \A e \in Events : status[e] # "ABSENT" => status'[e] # "ABSENT"
  BY <1>2 DEF RowStep, Stays, IsInserted, IsRetried, IsSwept, IsClaimed, IsSettled,
              SettlesClaim, StaleClaim, Swept
<1>5. NoGaps'
  <2> SUFFICES ASSUME NEW e \in Events, status'[e] # "ABSENT", NEW f \in Earlier(e)
               PROVE  status'[f] # "ABSENT"
    BY DEF NoGaps
  <2>1. status[e] # "ABSENT" \/ IsInserted(e)
    BY <1>2 DEF RowStep, Stays, IsRetried, IsSwept, IsClaimed, IsSettled, StaleClaim, Claimable, Swept
  <2>2. status[f] # "ABSENT"
    BY <2>1 DEF RowInv, NoGaps, IsInserted
  <2> QED
    BY <1>4, <2>2, EarlierParts
<1>6. Unclaimed'
  <2> SUFFICES ASSUME NEW e \in Events
               PROVE  /\ attempts'[e] = 0 => status'[e] \in {"ABSENT", "PENDING"}
                      /\ status'[e] = "ABSENT" => attempts'[e] = 0
    BY DEF Unclaimed
  <2>1. attempts[e] \in Nat /\ (attempts[e] = 0 => status[e] \in {"ABSENT", "PENDING"})
           /\ (status[e] = "ABSENT" => attempts[e] = 0)
    BY DEF RowInv, TypeOK, Unclaimed
  <2>2. RowStep(e)
    BY <1>2
  <2>3. status'[e] = "ABSENT" => status[e] = "ABSENT"
    BY <1>4
  <2> QED
    BY <2>1, <2>2, <2>3 DEF RowStep, Stays, IsInserted, IsRetried, IsSwept, IsClaimed, IsSettled,
                      StaleClaim
<1>7. HeadOfLine'
  <2> SUFFICES ASSUME NEW e \in Events, attempts'[e] > 0, NEW f \in Earlier(e)
               PROVE  status'[f] = "PUBLISHED"
    BY DEF HeadOfLine
  <2>1. attempts[e] > 0 \/ Claimable(e)
    BY <1>2 DEF RowStep, Stays, IsInserted, IsRetried, IsSwept, IsClaimed, IsSettled
  <2>2. status[f] = "PUBLISHED"
    BY <2>1, HeadIsClaimed DEF RowInv, HeadOfLine
  <2> QED
    BY <1>3, <2>2, EarlierParts
<1>8. ProcessingHasLease'
  <2> SUFFICES ASSUME NEW e \in Events
               PROVE  status'[e] = "PROCESSING" <=> lockedAt'[e] # "null"
    BY DEF ProcessingHasLease
  <2>1. status[e] = "PROCESSING" <=> lockedAt[e] # "null"
    BY DEF RowInv, ProcessingHasLease
  <2>2. RowStep(e)
    BY <1>2
  <2> QED
    BY <2>1, <2>2 DEF RowStep, Stays, IsInserted, IsRetried, IsSwept, IsClaimed, IsSettled,
                      SettlesClaim, StaleClaim, Swept
<1> QED
  BY <1>1, <1>5, <1>6, <1>7, <1>8 DEF RowInv

LEMMA BudgetStep ==
    RowInv /\ BudgetIsKept /\ BudgetLeft /\ [Next]_vars => BudgetIsKept' /\ BudgetLeft'
<1> SUFFICES ASSUME RowInv, BudgetIsKept, BudgetLeft, [Next]_vars, NEW e \in Events
             PROVE  /\ status'[e] = "FAILED" => attempts'[e] >= MaxAttempts
                    /\ attempts'[e] <= MaxAttempts + OperatorCap
                    /\ status'[e] = "PENDING" => attempts'[e] < MaxAttempts + OperatorCap
  BY DEF BudgetIsKept, BudgetLeft
<1>1. RowStep(e)
  BY RowSteps DEF RowInv
<1>2. attempts[e] \in Nat /\ MaxAttempts \in Nat \ {0} /\ OperatorCap \in Nat
  BY RelayAssumption DEF RowInv, TypeOK
<1>3. status[e] = "ABSENT" => attempts[e] = 0
  BY DEF RowInv, Unclaimed
<1>4. /\ status[e] = "FAILED" => attempts[e] >= MaxAttempts
      /\ attempts[e] <= MaxAttempts + OperatorCap
      /\ status[e] = "PENDING" => attempts[e] < MaxAttempts + OperatorCap
  BY DEF BudgetIsKept, BudgetLeft
<1>5. CASE Stays(e) \/ IsInserted(e) \/ IsRetried(e)
  BY <1>2, <1>3, <1>4, <1>5 DEF Stays, IsInserted, IsRetried
<1>6. CASE IsSwept(e)
  BY <1>2, <1>4, <1>6 DEF IsSwept, Swept
<1>7. CASE IsClaimed(e)
  <2>1. attempts[e] < MaxAttempts + OperatorCap
    BY <1>2, <1>4, <1>7 DEF IsClaimed, Claimable, Swept
  <2> QED
    BY <1>2, <1>7, <2>1 DEF IsClaimed
<1>8. CASE IsSettled(e)
  BY <1>2, <1>4, <1>8 DEF IsSettled, SettlesClaim
<1> QED
  BY <1>1, <1>5, <1>6, <1>7, <1>8 DEF RowStep

(***************************************************************************)
(* An event that was ever claimed is the head of its line, for ever: this  *)
(* is the heart of the ordering argument.                                  *)
(***************************************************************************)
THEOREM HeadOfLineHolds == Spec => []HeadOfLine
<1>1. RowInv => HeadOfLine
  BY DEF RowInv
<1> QED
  BY <1>1, RowInit, RowInvStep, PTL DEF Spec

(***************************************************************************)
(* A row is PROCESSING exactly while it has a lease.                       *)
(***************************************************************************)
THEOREM ProcessingHasLeaseHolds == Spec => []ProcessingHasLease
<1>1. RowInv => ProcessingHasLease
  BY DEF RowInv
<1> QED
  BY <1>1, RowInit, RowInvStep, PTL DEF Spec

(***************************************************************************)
(* The attempts of an event stay in the budget, and FAILED comes after it. *)
(***************************************************************************)
THEOREM BudgetHolds == Spec => []BudgetIsKept
BY RowInit, RowInvStep, BudgetStep, PTL DEF Spec

(***************************************************************************)
(* A claim with a fresh lease is ended by the holder of its token only.    *)
(***************************************************************************)
THEOREM FreshLeaseHolds == Spec => FreshLeaseIsProtected
<1>1. RowInv /\ [Next]_vars =>
          \A e \in Events :
             (lockedAt[e] = "fresh" /\ <<status[e], attempts[e]>>' # <<status[e], attempts[e]>>) =>
                \E w \in Workers :
                  /\ [event |-> e, attempt |-> attempts[e]] \in batch[w]
                  /\ pc[w] \in {"acknowledged", "failing"}
                  /\ pc'[w] # pc[w]
  <2> SUFFICES ASSUME RowInv, [Next]_vars, NEW e \in Events, lockedAt[e] = "fresh",
                      <<status[e], attempts[e]>>' # <<status[e], attempts[e]>>
               PROVE  \E w \in Workers :
                         /\ [event |-> e, attempt |-> attempts[e]] \in batch[w]
                         /\ pc[w] \in {"acknowledged", "failing"}
                         /\ pc'[w] # pc[w]
    OBVIOUS
  <2>1. RowStep(e) /\ status[e] = "PROCESSING"
    BY RowSteps DEF RowInv, ProcessingHasLease
  <2>2. IsSettled(e)
    BY <2>1 DEF RowStep, Stays, IsInserted, IsRetried, IsSwept, IsClaimed, StaleClaim,
                Claimable, Swept
  <2> QED
    BY <2>2 DEF IsSettled, SettlesClaim
<1> QED
  BY <1>1, RowInit, RowInvStep, PTL DEF Spec, FreshLeaseIsProtected

-----------------------------------------------------------------------------
(* What a step does to the workers and the broker.                         *)

(* The worker has a new batch, under tokens that were never issued before. *)
Takes(w) ==
    /\ pc[w] = "idle"
    /\ pc' = [pc EXCEPT ![w] = pc'[w]] /\ pc'[w] \in {"idle", "relaying"}
    /\ batch' = [batch EXCEPT ![w] = batch'[w]]
    /\ \A c \in batch'[w] : c.attempt > attempts[c.event] /\ c.attempt = attempts'[c.event]
    /\ UNCHANGED broker

Sends(w, c) ==
    /\ pc[w] = "relaying" /\ IsNext(w, c)
    /\ pc' = [pc EXCEPT ![w] = "publishing"]
    /\ inflight' = inflight \cup {c}
    /\ UNCHANGED <<batch, log>>

(* The fate of the claim the worker is at is decided, or the worker restarts. *)
Turns(w) ==
    /\ \/ /\ pc[w] \in {"publishing", "acknowledged"} /\ pc'[w] \in {"acknowledged", "failing"}
          /\ pc'[w] = "acknowledged" => \E c \in Claims : IsNext(w, c) /\ Appended(c)
       \/ pc[w] = "down" /\ pc'[w] = "idle"
    /\ pc' = [pc EXCEPT ![w] = pc'[w]]
    /\ UNCHANGED <<batch, broker>>

Finishes(w, c) ==
    /\ pc[w] \in {"acknowledged", "failing"} /\ IsNext(w, c)
    /\ pc' = [pc EXCEPT ![w] = pc'[w]] /\ pc'[w] \in {"idle", "relaying"}
    /\ batch' = [batch EXCEPT ![w] = @ \ {c}]
    /\ UNCHANGED broker

Drops(w) ==
    /\ pc' = [pc EXCEPT ![w] = pc'[w]] /\ pc'[w] \in {"idle", "down"}
    /\ batch' = [batch EXCEPT ![w] = {}]
    /\ UNCHANGED broker

RelayStep ==
    \/ UNCHANGED <<worker, broker>>
    \/ \E w \in Workers : Takes(w) \/ Turns(w) \/ Drops(w)
    \/ \E w \in Workers : \E c \in Claims : Sends(w, c) \/ Finishes(w, c)
    \/ \E c \in Claims : BrokerAppends(c)

(***************************************************************************)
(* Every step of the system is one of these for the workers and the broker.*)
(***************************************************************************)
LEMMA RelaySteps ==
    ASSUME TypeOK, [Next]_vars
    PROVE  RelayStep
<1>0. CASE UNCHANGED <<worker, broker>>
  BY <1>0 DEF RelayStep
<1>1. ASSUME NEW e \in Events, Insert(e) \/ OperatorRetry(e) \/ BecomesDue(e) \/ LeaseExpires(e)
      PROVE  RelayStep
  BY <1>0, <1>1 DEF Insert, OperatorRetry, BecomesDue, LeaseExpires
<1>2. ASSUME NEW w \in Workers, NEW skipped \in SUBSET Events, ClaimBatch(w, skipped)
      PROVE  RelayStep
  <2>1. PICK chosen \in SUBSET {e \in Events : Claimable(e)} :
           /\ ClaimRows(chosen)
           /\ batch' = [batch EXCEPT ![w] = {[event |-> e, attempt |-> attempts'[e]] : e \in chosen}]
           /\ pc' = [pc EXCEPT ![w] = IF chosen = {} THEN "idle" ELSE "relaying"]
    BY <1>2 DEF ClaimBatch
  <2>2. \A e \in chosen : attempts'[e] > attempts[e]
    BY <2>1 DEF ClaimRows, TypeOK
  <2>3. batch'[w] = {[event |-> e, attempt |-> attempts'[e]] : e \in chosen}
    BY <2>1 DEF TypeOK
  <2>4. \A c \in batch'[w] : c.attempt > attempts[c.event] /\ c.attempt = attempts'[c.event]
    BY <2>2, <2>3
  <2>5. Takes(w)
    BY <1>2, <2>1, <2>4 DEF Takes, ClaimBatch, TypeOK
  <2> QED
    BY <2>5 DEF RelayStep
<1>3. ASSUME NEW w \in Workers, NEW skipped \in SUBSET Events, ClaimUnacknowledged(w, skipped)
      PROVE  RelayStep
  BY <1>0, <1>3 DEF ClaimUnacknowledged
<1>4. ASSUME NEW w \in Workers, NEW c \in Claims, Publish(w, c)
      PROVE  RelayStep
  <2>1. Sends(w, c)
    BY <1>4 DEF Publish, Sends
  <2> QED
    BY <2>1 DEF RelayStep
<1>5. ASSUME NEW w \in Workers, NEW c \in Claims,
             PublishResolves(w, c) \/ PublishRejects(w, c) \/ RecordPublishedThrows(w, c)
      PROVE  RelayStep
  <2>1. Turns(w)
    BY <1>5 DEF PublishResolves, PublishRejects, RecordPublishedThrows, Turns, TypeOK
  <2> QED
    BY <2>1 DEF RelayStep
<1>6. ASSUME NEW w \in Workers, NEW c \in Claims, RecordPublished(w, c) \/ RecordFailure(w, c)
      PROVE  RelayStep
  <2>1. Finishes(w, c)
    BY <1>6 DEF RecordPublished, RecordFailure, Advance, Finishes, TypeOK
  <2> QED
    BY <2>1 DEF RelayStep
<1>7. ASSUME NEW w \in Workers, NEW c \in Claims, RecordFailureThrows(w, c)
      PROVE  RelayStep
  <2>1. Drops(w)
    BY <1>7 DEF RecordFailureThrows, Drops, TypeOK
  <2> QED
    BY <2>1 DEF RelayStep
<1>8. ASSUME NEW w \in Workers, Crash(w)
      PROVE  RelayStep
  <2>1. Drops(w)
    BY <1>8 DEF Crash, Drops, TypeOK
  <2> QED
    BY <2>1 DEF RelayStep
<1>9. ASSUME NEW w \in Workers, Restart(w)
      PROVE  RelayStep
  <2>1. Turns(w)
    BY <1>9 DEF Restart, Turns, TypeOK
  <2> QED
    BY <2>1 DEF RelayStep
<1>10. ASSUME NEW c \in Claims, BrokerAppends(c)
       PROVE  RelayStep
  BY <1>10 DEF RelayStep
<1>11. CASE UNCHANGED vars
  BY <1>0, <1>11 DEF vars
<1> QED
  BY <1>1, <1>2, <1>3, <1>4, <1>5, <1>6, <1>7, <1>8, <1>9, <1>10, <1>11, NextCases

LEMMA AttemptsGrow ==
    ASSUME TypeOK, [Next]_vars, NEW e \in Events
    PROVE  attempts[e] \in Nat /\ attempts'[e] \in Nat /\ attempts[e] <= attempts'[e]
<1>1. attempts[e] \in Nat /\ RowStep(e)
  BY RowSteps DEF TypeOK
<1> QED
  BY <1>1 DEF RowStep, Stays, IsInserted, IsRetried, IsSwept, IsClaimed, IsSettled

(***************************************************************************)
(* What appending does to the logs.                                        *)
(***************************************************************************)
LEMMA LogAfterAppend ==
    ASSUME TypeOK, NEW c \in Claims, BrokerAppends(c), NEW a \in Aggregates
    PROVE  /\ DOMAIN log[a] = 1 .. Len(log[a]) /\ Len(log[a]) \in Nat
           /\ \A i \in DOMAIN log[a] : log[a][i] \in Claims
           /\ \A i \in DOMAIN log[a] : i \in DOMAIN log'[a] /\ log'[a][i] = log[a][i]
           /\ a # c.event[1] => log'[a] = log[a]
           /\ a = c.event[1] =>
                 /\ DOMAIN log'[a] = 1 .. (Len(log[a]) + 1)
                 /\ log'[a][Len(log[a]) + 1] = c
<1>1. log[a] \in Seq(Claims)
  BY DEF TypeOK
<1>2. DOMAIN log[a] = 1 .. Len(log[a]) /\ Len(log[a]) \in Nat
      /\ \A i \in DOMAIN log[a] : log[a][i] \in Claims
  BY <1>1, LenProperties
<1>3. CASE a # c.event[1]
  <2>1. log'[a] = log[a]
    BY <1>3 DEF BrokerAppends, TypeOK
  <2> QED
    BY <1>2, <1>3, <2>1
<1>4. CASE a = c.event[1]
  <2>1. log'[a] = Append(log[a], c)
    BY <1>4 DEF BrokerAppends, TypeOK
  <2>2. /\ Len(Append(log[a], c)) = Len(log[a]) + 1
        /\ Append(log[a], c) \in Seq(Claims)
        /\ \A i \in 1 .. Len(log[a]) : Append(log[a], c)[i] = log[a][i]
        /\ Append(log[a], c)[Len(log[a]) + 1] = c
    BY <1>1, AppendProperties
  <2>3. DOMAIN Append(log[a], c) = 1 .. (Len(log[a]) + 1)
    BY <2>2, LenProperties
  <2>4. \A i \in DOMAIN log[a] : i \in DOMAIN log'[a] /\ log'[a][i] = log[a][i]
    BY <1>2, <2>1, <2>2, <2>3
  <2> QED
    BY <1>2, <1>4, <2>1, <2>2, <2>3, <2>4
<1> QED
  BY <1>3, <1>4

LEMMA AppendedAfterAppend ==
    ASSUME TypeOK, NEW c \in Claims, BrokerAppends(c), NEW d \in Claims
    PROVE  Appended(d)' <=> (Appended(d) \/ d = c)
<1>1. c.event[1] \in Aggregates /\ d.event[1] \in Aggregates
  BY ClaimParts
<1>2. ASSUME Appended(d) PROVE Appended(d)'
  BY <1>1, <1>2, LogAfterAppend DEF Appended
<1>3. ASSUME d = c PROVE Appended(d)'
  <2>1. /\ Len(log[c.event[1]]) \in Nat
        /\ DOMAIN log'[c.event[1]] = 1 .. (Len(log[c.event[1]]) + 1)
        /\ log'[c.event[1]][Len(log[c.event[1]]) + 1] = c
    BY <1>1, LogAfterAppend
  <2> QED
    BY <1>3, <2>1 DEF Appended
<1>4. ASSUME Appended(d)', d # c PROVE Appended(d)
  <2>1. PICK i \in DOMAIN log'[d.event[1]] : log'[d.event[1]][i] = d
    BY <1>4 DEF Appended
  <2>2. i \in DOMAIN log[d.event[1]] /\ log[d.event[1]][i] = d
    BY <1>1, <1>4, <2>1, LogAfterAppend
  <2> QED
    BY <2>2 DEF Appended
<1> QED
  BY <1>2, <1>3, <1>4

-----------------------------------------------------------------------------
(* The invariant of the claims.                                            *)

LEMMA ClaimInit == Init => ClaimInv
<1> SUFFICES ASSUME Init PROVE ClaimInv
  OBVIOUS
<1>1. TokensIssued /\ AtMostOneOwner /\ UnsentClaims /\ OneCopyPerClaim
  BY DEF Init, TokensIssued, AtMostOneOwner, UnsentClaims, OneCopyPerClaim
<1> QED
  BY <1>1, RowInit DEF ClaimInv

LEMMA AppendedIsIssued ==
    ASSUME TokensIssued, NEW c \in Claims, Appended(c)
    PROVE  c.attempt <= attempts[c.event]
BY ClaimParts DEF TokensIssued, Appended

LEMMA NewClaimIsTaken ==
    ASSUME TypeOK, [Next]_vars, NEW w \in Workers, NEW c \in batch'[w], c \notin batch[w]
    PROVE  Takes(w)
<1>1. batch \in [Workers -> SUBSET Claims]
  BY DEF TypeOK
<1>2. ~ UNCHANGED batch
  OBVIOUS
<1>3. ASSUME NEW u \in Workers, Turns(u) \/ Drops(u)
      PROVE  FALSE
  BY <1>1, <1>2, <1>3 DEF Turns, Drops
<1>4. ASSUME NEW u \in Workers, NEW d \in Claims, Sends(u, d) \/ Finishes(u, d)
      PROVE  FALSE
  BY <1>1, <1>2, <1>4 DEF Sends, Finishes
<1>5. ASSUME NEW u \in Workers, Takes(u)
      PROVE  u = w
  BY <1>1, <1>5 DEF Takes
<1>6. RelayStep
  BY RelaySteps
<1> QED
  BY <1>2, <1>3, <1>4, <1>5, <1>6 DEF RelayStep, BrokerAppends, worker

LEMMA TokensIssuedStep == ClaimInv /\ [Next]_vars => TokensIssued'
<1> SUFFICES ASSUME ClaimInv, [Next]_vars PROVE TokensIssued'
  OBVIOUS
<1>1. TypeOK /\ TypeOK' /\ TokensIssued
  BY TypeStep DEF ClaimInv, RowInv
<1>2. RelayStep
  BY <1>1, RelaySteps
<1>3. \A c \in Claims : c.attempt \in Nat /\ c.attempt <= attempts[c.event] => c.attempt <= attempts'[c.event]
  BY <1>1, AttemptsGrow, ClaimParts
<1>4. ASSUME NEW w \in Workers, NEW c \in batch'[w]
      PROVE  c.attempt <= attempts'[c.event]
  <2>1. c \in Claims
    BY <1>1 DEF TypeOK
  <2>2. CASE c \in batch[w]
    BY <1>1, <1>3, <2>1, <2>2, ClaimParts DEF TokensIssued
  <2>3. CASE c \notin batch[w]
    <3>1. c.attempt = attempts'[c.event] /\ c.attempt \in Nat
      BY <1>1, <2>1, <2>3, NewClaimIsTaken, ClaimParts DEF Takes
    <3> QED
      BY <3>1
  <2> QED
    BY <2>2, <2>3
<1>5. ASSUME NEW c \in inflight'
      PROVE  c.attempt <= attempts'[c.event]
  <2>1. c \in Claims
    BY <1>1 DEF TypeOK
  <2>2. c \in inflight \/ \E w \in Workers : c \in batch[w]
    BY <1>2, <1>5 DEF RelayStep, Takes, Turns, Drops, Sends, Finishes, BrokerAppends, broker, IsNext
  <2> QED
    BY <1>1, <1>3, <2>1, <2>2, ClaimParts DEF TokensIssued
<1>6. ASSUME NEW a \in Aggregates, NEW i \in DOMAIN log'[a]
      PROVE  log'[a][i].event[1] = a /\ log'[a][i].attempt <= attempts'[log'[a][i].event]
  <2>1. CASE UNCHANGED log
    <3>1. log[a] \in Seq(Claims) /\ i \in DOMAIN log[a] /\ log'[a][i] = log[a][i]
      BY <1>1, <2>1 DEF TypeOK
    <3>2. log[a][i] \in Claims
      BY <3>1, LenProperties
    <3> QED
      BY <1>1, <1>3, <3>1, <3>2, ClaimParts DEF TokensIssued
  <2>2. ASSUME NEW c \in Claims, BrokerAppends(c)
        PROVE  log'[a][i].event[1] = a /\ log'[a][i].attempt <= attempts'[log'[a][i].event]
    <3>1. CASE i \in DOMAIN log[a]
      <4>1. log[a][i] \in Claims /\ log'[a][i] = log[a][i]
        BY <1>1, <2>2, <3>1, LogAfterAppend
      <4> QED
        BY <1>1, <1>3, <3>1, <4>1, ClaimParts DEF TokensIssued
    <3>2. CASE i \notin DOMAIN log[a]
      <4>1. log'[a][i] = c /\ a = c.event[1] /\ c \in inflight
        BY <1>1, <2>2, <3>2, LogAfterAppend DEF BrokerAppends
      <4> QED
        BY <1>1, <1>3, <4>1, ClaimParts DEF TokensIssued
    <3> QED
      BY <3>1, <3>2
  <2> QED
    BY <1>2, <2>1, <2>2 DEF RelayStep, Takes, Turns, Drops, Sends, Finishes, broker
<1> QED
  BY <1>4, <1>5, <1>6 DEF TokensIssued

LEMMA AtMostOneOwnerStep == ClaimInv /\ [Next]_vars => AtMostOneOwner'
<1> SUFFICES ASSUME ClaimInv, [Next]_vars,
                    NEW v \in Workers, NEW w \in Workers, NEW c \in batch'[v] \cap batch'[w]
             PROVE  v = w
  BY DEF AtMostOneOwner
<1>1. TypeOK /\ TypeOK' /\ TokensIssued /\ AtMostOneOwner
  BY TypeStep DEF ClaimInv, RowInv
<1>2. c \in Claims
  BY <1>1 DEF TypeOK
<1>3. CASE c \in batch[v] /\ c \in batch[w]
  BY <1>1, <1>3 DEF AtMostOneOwner
<1>4. CASE c \notin batch[v] \/ c \notin batch[w]
  <2>1. PICK u \in Workers : Takes(u)
    BY <1>1, <1>4, NewClaimIsTaken
  <2>2. \A x \in Workers : x # u => batch'[x] = batch[x]
    BY <1>1, <2>1 DEF Takes, TypeOK
  <2>3. u \in {v, w} /\ c.attempt > attempts[c.event]
    BY <1>4, <2>1, <2>2 DEF Takes
  <2>4. \A x \in Workers : c \in batch[x] => c.attempt <= attempts[c.event]
    BY <1>1 DEF TokensIssued
  <2>5. c.attempt \in Nat /\ attempts[c.event] \in Nat
    BY <1>1, <1>2, ClaimParts DEF TypeOK
  <2>6. \A x \in Workers : c \notin batch[x]
    BY <2>3, <2>4, <2>5
  <2> QED
    BY <2>2, <2>3, <2>6
<1> QED
  BY <1>3, <1>4

LEMMA UnsentClaimsStep == ClaimInv /\ [Next]_vars => UnsentClaims'
<1> DEFINE Sent(w, c) == pc[w] \in {"publishing", "acknowledged", "failing"} /\ IsNext(w, c)
<1> SUFFICES ASSUME ClaimInv, [Next]_vars, NEW w \in Workers, NEW c \in batch'[w]
             PROVE  Sent(w, c)' \/ (c \notin inflight' /\ ~Appended(c)')
  BY DEF UnsentClaims
<1>1. TypeOK /\ TypeOK' /\ TokensIssued /\ AtMostOneOwner /\ UnsentClaims
  BY TypeStep DEF ClaimInv, RowInv
<1>2. c \in Claims /\ c.attempt \in Nat /\ attempts[c.event] \in Nat
  BY <1>1, ClaimParts DEF TypeOK
<1>3. c \in batch[w] => Sent(w, c) \/ (c \notin inflight /\ ~Appended(c))
  BY <1>1 DEF UnsentClaims
<1>4. UNCHANGED log => (Appended(c)' <=> Appended(c))
  BY DEF Appended
<1>5. batch'[w] = batch[w] => (IsNext(w, c)' <=> IsNext(w, c))
  BY DEF IsNext
<1> HIDE DEF Sent
<1>6. CASE UNCHANGED <<worker, broker>>
  BY <1>3, <1>4, <1>5, <1>6 DEF worker, broker, Sent
<1>7. ASSUME NEW u \in Workers, Takes(u)
      PROVE  Sent(w, c)' \/ (c \notin inflight' /\ ~Appended(c)')
  <2>1. CASE u = w
    <3>1. c.attempt > attempts[c.event]
      BY <1>7, <2>1 DEF Takes
    <3>2. c \notin inflight /\ ~Appended(c)
      BY <1>1, <1>2, <3>1, AppendedIsIssued DEF TokensIssued
    <3> QED
      BY <1>4, <1>7, <3>2 DEF Takes, broker
  <2>2. CASE u # w
    <3>1. pc'[w] = pc[w] /\ batch'[w] = batch[w]
      BY <1>1, <1>7, <2>2 DEF Takes, TypeOK
    <3> QED
      BY <1>3, <1>4, <1>5, <1>7, <3>1 DEF Takes, broker, Sent
  <2> QED
    BY <2>1, <2>2
<1>8. ASSUME NEW u \in Workers, Turns(u)
      PROVE  Sent(w, c)' \/ (c \notin inflight' /\ ~Appended(c)')
  <2>1. pc[w] \in {"publishing", "acknowledged", "failing"} =>
           pc'[w] \in {"publishing", "acknowledged", "failing"}
    BY <1>1, <1>8 DEF Turns, TypeOK
  <2> QED
    BY <1>3, <1>4, <1>5, <1>8, <2>1 DEF Turns, broker, Sent
<1>9. ASSUME NEW u \in Workers, Drops(u)
      PROVE  Sent(w, c)' \/ (c \notin inflight' /\ ~Appended(c)')
  <2>1. u # w /\ pc'[w] = pc[w] /\ batch'[w] = batch[w]
    BY <1>1, <1>9 DEF Drops, TypeOK
  <2> QED
    BY <1>3, <1>4, <1>5, <1>9, <2>1 DEF Drops, broker, Sent
<1>10. ASSUME NEW u \in Workers, NEW d \in Claims, Sends(u, d)
       PROVE  Sent(w, c)' \/ (c \notin inflight' /\ ~Appended(c)')
  <2>1. batch'[w] = batch[w] /\ (u # w => pc'[w] = pc[w])
    BY <1>1, <1>10 DEF Sends, TypeOK
  <2>2. CASE c = d
    <3>1. u = w
      BY <1>1, <1>10, <2>1, <2>2 DEF Sends, IsNext, AtMostOneOwner
    <3> QED
      BY <1>1, <1>5, <1>10, <2>1, <2>2, <3>1 DEF Sends, Sent, TypeOK
  <2>3. CASE c # d
    <3>1. u = w => ~Sent(w, c)
      BY <1>10 DEF Sends, Sent
    <3> QED
      BY <1>3, <1>4, <1>5, <1>10, <2>1, <2>3, <3>1 DEF Sends, Sent
  <2> QED
    BY <2>2, <2>3
<1>11. ASSUME NEW u \in Workers, NEW d \in Claims, Finishes(u, d)
       PROVE  Sent(w, c)' \/ (c \notin inflight' /\ ~Appended(c)')
  <2>1. CASE u = w
    <3>1. c \in batch[w] /\ c # d
      BY <1>1, <1>11, <2>1 DEF Finishes, TypeOK
    <3>2. ~IsNext(w, c)
      <4>1. c.event \in Events /\ d.event \in Events
        BY <1>2, ClaimParts
      <4>2. Rank[c.event] \in Nat /\ Rank[d.event] \in Nat
        BY <4>1, RelayAssumption
      <4> QED
        BY <1>11, <2>1, <3>1, <4>2 DEF Finishes, IsNext
    <3> QED
      BY <1>3, <1>4, <1>11, <3>1, <3>2 DEF Finishes, broker, Sent
  <2>2. CASE u # w
    <3>1. pc'[w] = pc[w] /\ batch'[w] = batch[w]
      BY <1>1, <1>11, <2>2 DEF Finishes, TypeOK
    <3> QED
      BY <1>3, <1>4, <1>5, <1>11, <3>1 DEF Finishes, broker, Sent
  <2> QED
    BY <2>1, <2>2
<1>12. ASSUME NEW d \in Claims, BrokerAppends(d)
       PROVE  Sent(w, c)' \/ (c \notin inflight' /\ ~Appended(c)')
  <2>1. pc'[w] = pc[w] /\ batch'[w] = batch[w] /\ d \in inflight /\ inflight' = inflight \ {d}
    BY <1>12 DEF BrokerAppends, worker
  <2>2. Appended(c)' <=> (Appended(c) \/ c = d)
    BY <1>1, <1>2, <1>12, AppendedAfterAppend
  <2> QED
    BY <1>3, <1>5, <2>1, <2>2 DEF Sent
<1> QED
  BY <1>1, <1>6, <1>7, <1>8, <1>9, <1>10, <1>11, <1>12, RelaySteps DEF RelayStep

LEMMA OneCopyStep == ClaimInv /\ [Next]_vars => OneCopyPerClaim'
<1> SUFFICES ASSUME ClaimInv, [Next]_vars PROVE OneCopyPerClaim'
  OBVIOUS
<1>1. TypeOK /\ OneCopyPerClaim /\ UnsentClaims
  BY DEF ClaimInv, RowInv
<1>2. CASE UNCHANGED broker
  BY <1>1, <1>2 DEF OneCopyPerClaim, Appended, broker
<1>3. ASSUME NEW w \in Workers, NEW d \in Claims, Sends(w, d)
      PROVE  OneCopyPerClaim'
  <2>1. d \in batch[w] /\ ~Appended(d)
    BY <1>1, <1>3 DEF Sends, IsNext, UnsentClaims
  <2> QED
    BY <1>1, <1>3, <2>1 DEF Sends, OneCopyPerClaim, Appended
<1>4. ASSUME NEW d \in Claims, BrokerAppends(d)
      PROVE  OneCopyPerClaim'
  <2>1. d \in inflight /\ ~Appended(d) /\ inflight' = inflight \ {d}
    BY <1>1, <1>4 DEF BrokerAppends, OneCopyPerClaim
  <2>2. ASSUME NEW c \in inflight'
        PROVE  ~Appended(c)'
    <3>1. c \in Claims /\ c \in inflight /\ c # d
      BY <1>1, <2>1 DEF TypeOK
    <3> QED
      BY <1>1, <1>4, <3>1, AppendedAfterAppend DEF OneCopyPerClaim
  <2>3. ASSUME NEW a \in Aggregates, NEW i \in DOMAIN log'[a], NEW j \in DOMAIN log'[a],
               log'[a][i] = log'[a][j]
        PROVE  i = j
    <3>1. CASE a # d.event[1]
      BY <1>1, <1>4, <2>3, <3>1, LogAfterAppend DEF OneCopyPerClaim
    <3>2. CASE a = d.event[1]
      <4>1. \A k \in DOMAIN log[a] : log[a][k] # d
        BY <2>1, <3>2 DEF Appended
      <4>2. /\ Len(log[a]) \in Nat
            /\ DOMAIN log[a] = 1 .. Len(log[a])
            /\ DOMAIN log'[a] = 1 .. (Len(log[a]) + 1)
            /\ log'[a][Len(log[a]) + 1] = d
            /\ \A k \in DOMAIN log[a] : log'[a][k] = log[a][k]
        BY <1>1, <1>4, <3>2, LogAfterAppend
      <4> QED
        BY <1>1, <2>3, <4>1, <4>2 DEF OneCopyPerClaim
    <3> QED
      BY <3>1, <3>2
  <2> QED
    BY <2>2, <2>3 DEF OneCopyPerClaim
<1> QED
  BY <1>1, <1>2, <1>3, <1>4, RelaySteps DEF RelayStep, Takes, Turns, Drops, Finishes

LEMMA ClaimInvStep == ClaimInv /\ [Next]_vars => ClaimInv'
BY RowInvStep, TokensIssuedStep, AtMostOneOwnerStep, UnsentClaimsStep, OneCopyStep DEF ClaimInv

(***************************************************************************)
(* A token is in the hands of one worker, whatever was swept and reclaimed.*)
(***************************************************************************)
THEOREM OneOwner == Spec => []AtMostOneOwner
<1>1. ClaimInv => AtMostOneOwner
  BY DEF ClaimInv
<1> QED
  BY <1>1, ClaimInit, ClaimInvStep, PTL DEF Spec

(***************************************************************************)
(* An event has at most one copy in the topic for each of its attempts.    *)
(***************************************************************************)
THEOREM OneCopy == Spec => []OneCopyPerClaim
<1>1. ClaimInv => OneCopyPerClaim
  BY DEF ClaimInv
<1> QED
  BY <1>1, ClaimInit, ClaimInvStep, PTL DEF Spec

-----------------------------------------------------------------------------
(* The invariant of the logs.                                              *)

LEMMA LogsGrow ==
    ASSUME TypeOK, [Next]_vars, NEW a \in Aggregates, NEW i \in DOMAIN log[a]
    PROVE  i \in DOMAIN log'[a] /\ log'[a][i] = log[a][i]
<1>1. CASE UNCHANGED log
  BY <1>1
<1>2. ASSUME NEW c \in Claims, BrokerAppends(c)
      PROVE  i \in DOMAIN log'[a] /\ log'[a][i] = log[a][i]
  BY <1>2, LogAfterAppend
<1> QED
  BY <1>1, <1>2, RelaySteps DEF RelayStep, Takes, Turns, Drops, Sends, Finishes, broker

LEMMA AppendedStays ==
    ASSUME TypeOK, [Next]_vars, NEW c \in Claims, Appended(c)
    PROVE  Appended(c)'
BY LogsGrow, ClaimParts DEF Appended

LEMMA AcknowledgedStep ==
    ClaimInv /\ AcknowledgedIsAppended /\ [Next]_vars => AcknowledgedIsAppended'
<1> SUFFICES ASSUME ClaimInv, AcknowledgedIsAppended, [Next]_vars,
                    NEW w \in Workers, NEW c \in batch'[w],
                    pc'[w] = "acknowledged", IsNext(w, c)'
             PROVE  Appended(c)'
  BY DEF AcknowledgedIsAppended
<1>1. TypeOK /\ TypeOK'
  BY TypeStep DEF ClaimInv, RowInv
<1>2. c \in Claims
  BY <1>1 DEF TypeOK
<1>3. CASE pc[w] = "acknowledged" /\ batch'[w] = batch[w]
  <2>1. IsNext(w, c) /\ c \in batch[w]
    BY <1>3 DEF IsNext
  <2>2. Appended(c)
    BY <1>3, <2>1 DEF AcknowledgedIsAppended
  <2> QED
    BY <1>1, <1>2, <2>2, AppendedStays
<1>4. CASE Turns(w)
  <2>1. PICK d \in Claims : IsNext(w, d) /\ Appended(d)
    BY <1>4 DEF Turns
  <2>2. IsNext(w, c)
    BY <1>4 DEF Turns, IsNext
  <2>3. c.event \in Events /\ d.event \in Events
    BY <1>2, ClaimParts
  <2>4. Rank[c.event] \in Nat /\ Rank[d.event] \in Nat
    BY <2>3, RelayAssumption
  <2>5. c = d
    BY <2>1, <2>2, <2>4 DEF IsNext
  <2> QED
    BY <1>1, <1>2, <2>1, <2>5, AppendedStays
<1>5. (pc[w] = "acknowledged" /\ batch'[w] = batch[w]) \/ Turns(w)
  <2>1. ASSUME NEW u \in Workers, Takes(u) \/ Drops(u)
        PROVE  pc[w] = "acknowledged" /\ batch'[w] = batch[w]
    BY <1>1, <2>1 DEF Takes, Drops, TypeOK
  <2>2. ASSUME NEW u \in Workers, Turns(u)
        PROVE  (pc[w] = "acknowledged" /\ batch'[w] = batch[w]) \/ Turns(w)
    BY <1>1, <2>2 DEF Turns, TypeOK
  <2>3. ASSUME NEW u \in Workers, NEW d \in Claims, Sends(u, d) \/ Finishes(u, d)
        PROVE  pc[w] = "acknowledged" /\ batch'[w] = batch[w]
    BY <1>1, <2>3 DEF Sends, Finishes, TypeOK
  <2> QED
    BY <1>1, <2>1, <2>2, <2>3, RelaySteps DEF RelayStep, BrokerAppends, worker
<1> QED
  BY <1>3, <1>4, <1>5

LEMMA PublishedStep ==
    ClaimInv /\ AcknowledgedIsAppended /\ PublishedIsInLog /\ [Next]_vars => PublishedIsInLog'
<1> SUFFICES ASSUME ClaimInv, AcknowledgedIsAppended, PublishedIsInLog, [Next]_vars,
                    NEW e \in Events, status'[e] = "PUBLISHED"
             PROVE  \E i \in DOMAIN log'[e[1]] : log'[e[1]][i].event = e
  BY DEF PublishedIsInLog
<1>1. TypeOK /\ e[1] \in Aggregates
  BY EventParts DEF ClaimInv, RowInv
<1>2. \E i \in DOMAIN log[e[1]] : log[e[1]][i].event = e
  <2>1. CASE status[e] = "PUBLISHED"
    BY <2>1 DEF PublishedIsInLog
  <2>2. CASE status[e] # "PUBLISHED"
    <3>1. RowStep(e)
      BY <1>1, RowSteps
    <3>2. PICK w \in Workers : SettlesClaim(w, e)
      BY <2>2, <3>1 DEF RowStep, Stays, IsInserted, IsRetried, IsSwept, IsClaimed, IsSettled, Swept, StaleClaim
    <3> DEFINE c == [event |-> e, attempt |-> attempts[e]]
    <3>3. Appended(c)
      BY <3>2 DEF SettlesClaim, AcknowledgedIsAppended
    <3> QED
      BY <3>3 DEF Appended
  <2> QED
    BY <2>1, <2>2
<1> QED
  BY <1>1, <1>2, LogsGrow

LEMMA OrderStep ==
    ClaimInv /\ PublishedIsInLog /\ FirstCopiesInOrder /\ [Next]_vars => FirstCopiesInOrder'
<1> SUFFICES ASSUME ClaimInv, PublishedIsInLog, FirstCopiesInOrder, [Next]_vars,
                    NEW a \in Aggregates, NEW i \in DOMAIN log'[a], log'[a][i].event[2] > 1
             PROVE  \E j \in 1 .. (i - 1) : log'[a][j].event = <<a, log'[a][i].event[2] - 1>>
  BY DEF FirstCopiesInOrder
<1>1. TypeOK /\ TokensIssued /\ HeadOfLine
  BY DEF ClaimInv, RowInv
<1>2. log[a] \in Seq(Claims)
  BY <1>1 DEF TypeOK
<1>3. DOMAIN log[a] = 1 .. Len(log[a]) /\ Len(log[a]) \in Nat
  BY <1>2, LenProperties
<1>4. CASE i \in DOMAIN log[a]
  <2>1. log'[a][i] = log[a][i] /\ i \in 1 .. Len(log[a])
    BY <1>1, <1>3, <1>4, LogsGrow
  <2>2. PICK j \in 1 .. (i - 1) : log[a][j].event = <<a, log[a][i].event[2] - 1>>
    BY <1>4, <2>1 DEF FirstCopiesInOrder
  <2>3. j \in DOMAIN log[a]
    BY <1>3, <2>1
  <2>4. log'[a][j] = log[a][j]
    BY <1>1, <2>3, LogsGrow
  <2> QED
    BY <2>1, <2>2, <2>4
<1>5. CASE i \notin DOMAIN log[a]
  <2>1. PICK c \in Claims : BrokerAppends(c)
    BY <1>1, <1>5, RelaySteps DEF RelayStep, Takes, Turns, Drops, Sends, Finishes, broker
  <2>2. a = c.event[1] /\ i = Len(log[a]) + 1 /\ log'[a][i] = c
    BY <1>1, <1>3, <1>5, <2>1, LogAfterAppend
  <2>3. c \in inflight /\ attempts[c.event] > 0
    <3>1. c \in inflight /\ c.attempt <= attempts[c.event]
      BY <1>1, <2>1 DEF BrokerAppends, TokensIssued
    <3>2. attempts[c.event] \in Nat /\ c.attempt \in Nat /\ c.attempt > 0
      BY <1>1, ClaimParts DEF TypeOK
    <3> QED
      BY <3>1, <3>2
  <2> DEFINE f == <<a, c.event[2] - 1>>
  <2>4. f \in Earlier(c.event)
    <3>1. c.event \in Events /\ c.event[2] \in 1 .. MaxVersion /\ MaxVersion \in Nat
      BY ClaimParts, EventParts, RelayAssumption
    <3>2. c.event[2] > 1
      BY <2>2
    <3>3. c.event[2] - 1 \in 1 .. MaxVersion /\ c.event[2] - 1 < c.event[2]
      BY <3>1, <3>2
    <3> QED
      BY <2>2, <3>3 DEF Earlier, Events
  <2>5. status[f] = "PUBLISHED" /\ f \in Events
    BY <1>1, <2>3, <2>4, ClaimParts, EarlierParts DEF HeadOfLine
  <2>6. PICK j \in DOMAIN log[a] : log[a][j].event = f
    BY <2>5 DEF PublishedIsInLog
  <2>7. j \in 1 .. (i - 1) /\ log'[a][j] = log[a][j]
    BY <1>1, <1>3, <2>2, <2>6, LogsGrow
  <2> QED
    BY <2>2, <2>6, <2>7
<1> QED
  BY <1>4, <1>5

LEMMA IndInit == Init => IndInv
<1> SUFFICES ASSUME Init PROVE IndInv
  OBVIOUS
<1>1. AcknowledgedIsAppended /\ PublishedIsInLog
  BY DEF Init, AcknowledgedIsAppended, PublishedIsInLog
<1>2. FirstCopiesInOrder
  BY DEF Init, FirstCopiesInOrder
<1> QED
  BY <1>1, <1>2, RowInit, ClaimInit DEF IndInv

LEMMA IndStep == IndInv /\ [Next]_vars => IndInv'
BY ClaimInvStep, AcknowledgedStep, PublishedStep, OrderStep, BudgetStep DEF IndInv, ClaimInv

(***************************************************************************)
(* The inductive invariant holds in every reachable state.                 *)
(***************************************************************************)
THEOREM Inductive == Spec => []IndInv
BY IndInit, IndStep, PTL DEF Spec

(***************************************************************************)
(* At least once: what is recorded as PUBLISHED is in the topic.           *)
(***************************************************************************)
THEOREM AtLeastOnce == Spec => []PublishedIsInLog
<1>1. IndInv => PublishedIsInLog
  BY DEF IndInv
<1> QED
  BY <1>1, Inductive, PTL

(***************************************************************************)
(* Order: the first copies of an aggregate's events are in the topic in    *)
(* the order of their versions, for any number of workers and crashes.     *)
(***************************************************************************)
THEOREM InOrder == Spec => []FirstCopiesInOrder
<1>1. IndInv => FirstCopiesInOrder
  BY DEF IndInv
<1> QED
  BY <1>1, Inductive, PTL

-----------------------------------------------------------------------------
(* The relay implements OrderedDelivery: the initial states map to        *)
(* initial states and every step maps to a step or to a stutter.          *)

(* The value of the abstract variable "state". *)
Mapped == [e \in Events |-> Waiting(e)]

LEMMA MappedValue ==
    ASSUME TypeOK, NEW e \in Events
    PROVE  /\ Mapped[e] = Waiting(e)
           /\ status[e] = "ABSENT" <=> Mapped[e] = "absent"
           /\ status[e] \in {"PENDING", "PROCESSING"} <=> Mapped[e] = "waiting"
           /\ status[e] = "PUBLISHED" <=> Mapped[e] = "confirmed"
           /\ status[e] = "FAILED" <=> Mapped[e] = "failed"
<1>1. status[e] \in Status
  BY DEF TypeOK
<1>2. Mapped[e] = Waiting(e)
  BY DEF Mapped
<1> QED
  BY <1>1, <1>2 DEF Waiting, Status

LEMMA SameEvents ==
    /\ Delivery!Events = Events
    /\ \A e \in Events : Delivery!Earlier(e) = Earlier(e)
BY DEF Delivery!Events, Events, Delivery!Earlier, Earlier

LEMMA RefinesInit == Init => Delivery!Init
<1> SUFFICES ASSUME Init PROVE Delivery!Init
  OBVIOUS
<1>1. [e \in Events |-> Waiting(e)] = [e \in Delivery!Events |-> "absent"]
  BY SameEvents DEF Init, Waiting
<1> QED
  BY <1>1 DEF Init, Delivery!Init

LEMMA MappedExcept ==
    ASSUME TypeOK, NEW e \in Events, NEW x \in Status, status' = [status EXCEPT ![e] = x]
    PROVE  /\ x = "PENDING" => Mapped' = [Mapped EXCEPT ![e] = "waiting"]
           /\ x = "PUBLISHED" => Mapped' = [Mapped EXCEPT ![e] = "confirmed"]
           /\ x = "FAILED" => Mapped' = [f \in Events |-> IF f \in {e} THEN "failed" ELSE Mapped[f]]
           /\ x = "PENDING" /\ status[e] = "PROCESSING" => Mapped' = Mapped
BY DEF TypeOK, Mapped, Waiting, Status

(***************************************************************************)
(* A step of the writer or of the operator.                                *)
(***************************************************************************)
LEMMA RefinesInsert ==
    ASSUME IndInv, NEW e \in Events, Insert(e)
    PROVE  Delivery!Accept(e)
<1>1. TypeOK
  BY DEF IndInv, ClaimInv, RowInv
<1>2. Mapped' = [Mapped EXCEPT ![e] = "waiting"] /\ UNCHANGED log
  BY <1>1, MappedExcept DEF Insert, Status, broker
<1>3. Mapped[e] = "absent" /\ \A f \in Earlier(e) : Mapped[f] # "absent"
  BY <1>1, MappedValue, EarlierParts DEF Insert
<1> QED
  BY <1>2, <1>3, SameEvents DEF Delivery!Accept, Mapped

LEMMA RefinesRetry ==
    ASSUME IndInv, NEW e \in Events, OperatorRetry(e)
    PROVE  Delivery!Retry(e)
<1>1. TypeOK
  BY DEF IndInv, ClaimInv, RowInv
<1>2. Mapped' = [Mapped EXCEPT ![e] = "waiting"] /\ UNCHANGED log
  BY <1>1, MappedExcept DEF OperatorRetry, Status, broker
<1>3. Mapped[e] = "failed"
  BY <1>1, MappedValue DEF OperatorRetry
<1> QED
  BY <1>2, <1>3 DEF Delivery!Retry, Mapped

(***************************************************************************)
(* What is PROCESSING has its turn: all before it is confirmed.            *)
(***************************************************************************)
LEMMA ProcessingHasTurn ==
    ASSUME IndInv, NEW e \in Events, status[e] = "PROCESSING"
    PROVE  Mapped[e] = "waiting" /\ \A f \in Earlier(e) : Mapped[f] = "confirmed"
<1>1. TypeOK /\ Unclaimed /\ HeadOfLine
  BY DEF IndInv, ClaimInv, RowInv
<1>2. attempts[e] > 0
  <2>1. attempts[e] \in Nat
    BY <1>1 DEF TypeOK
  <2>2. attempts[e] # 0
    BY <1>1 DEF Unclaimed
  <2> QED
    BY <2>1, <2>2
<1>3. \A f \in Earlier(e) : f \in Events /\ status[f] = "PUBLISHED"
  BY <1>1, <1>2, EarlierParts DEF HeadOfLine
<1> QED
  BY <1>1, <1>3, MappedValue

(***************************************************************************)
(* A claim gives up the stale claims of spent events; the rest of it does  *)
(* not show.                                                               *)
(***************************************************************************)
LEMMA RefinesClaim ==
    ASSUME IndInv, NEW chosen \in SUBSET {e \in Events : Claimable(e)}, ClaimRows(chosen),
           UNCHANGED broker
    PROVE  Delivery!Next \/ UNCHANGED Delivery!vars
<1> DEFINE given == {e \in Events : StaleClaim(e) /\ attempts[e] >= MaxAttempts}
<1>1. TypeOK
  BY DEF IndInv, ClaimInv, RowInv
<1>2. \A e \in given : e \notin chosen
  BY DEF Claimable, Swept
<1>3. Mapped' = [e \in Events |-> IF e \in given THEN "failed" ELSE Mapped[e]]
  <2>1. \A e \in Events : Waiting(e)' = IF e \in given THEN "failed" ELSE Waiting(e)
    <3> SUFFICES ASSUME NEW e \in Events
                 PROVE  Waiting(e)' = IF e \in given THEN "failed" ELSE Waiting(e)
      OBVIOUS
    <3>1. status[e] \in Status /\ status'[e] = IF e \in chosen THEN "PROCESSING" ELSE Swept(e)
      BY <1>1 DEF TypeOK, ClaimRows
    <3>2. CASE e \in given
      BY <1>2, <3>1, <3>2 DEF Waiting, Swept
    <3>3. CASE e \in chosen
      BY <1>2, <3>1, <3>3 DEF Waiting, Claimable, Swept, StaleClaim
    <3>4. CASE e \notin given /\ e \notin chosen
      BY <3>1, <3>4 DEF Waiting, Swept, StaleClaim, Status
    <3> QED
      BY <3>2, <3>3, <3>4
  <2> QED
    BY <2>1 DEF Mapped
<1>4. \A e \in given : Mapped[e] = "waiting" /\ \A f \in Earlier(e) : Mapped[f] = "confirmed"
  BY ProcessingHasTurn DEF StaleClaim
<1>5. UNCHANGED log
  BY DEF broker
<1> HIDE DEF given
<1>6. given \in SUBSET Events
  BY DEF given
<1>7. CASE given = {}
  <2>1. Mapped' = Mapped
    BY <1>3, <1>7 DEF Mapped
  <2> QED
    BY <1>5, <2>1 DEF Delivery!vars, Mapped
<1>8. CASE given # {}
  <2>1. Delivery!GiveUp(given)
    BY <1>3, <1>4, <1>5, <1>6, SameEvents DEF Delivery!GiveUp, Mapped
  <2> QED
    BY <1>6, <1>8, <2>1, SameEvents DEF Delivery!Next
<1> QED
  BY <1>7, <1>8

(***************************************************************************)
(* The writes of publishOne: an acknowledged event is confirmed, a failed  *)
(* one is given up or goes on waiting.                                     *)
(***************************************************************************)
LEMMA RefinesUnchanged ==
    ASSUME UNCHANGED status, UNCHANGED log
    PROVE  UNCHANGED Delivery!vars
BY DEF Delivery!vars, Waiting

LEMMA RefinesWrite ==
    ASSUME IndInv, NEW w \in Workers, NEW c \in Claims, IsNext(w, c), UNCHANGED broker,
           \/ pc[w] = "acknowledged" /\ (WritePublished(c) \/ UNCHANGED rows)
           \/ pc[w] = "failing" /\ (WriteFailure(c) \/ UNCHANGED rows)
    PROVE  Delivery!Next \/ UNCHANGED Delivery!vars
<1> DEFINE e == c.event
<1>1. TypeOK /\ e \in Events /\ c \in batch[w]
  BY ClaimParts DEF IndInv, ClaimInv, RowInv, IsNext
<1>2. UNCHANGED log
  BY DEF broker
<1>3. CASE UNCHANGED rows
  BY <1>2, <1>3, RefinesUnchanged DEF rows
<1>4. ASSUME pc[w] = "acknowledged", WritePublished(c), ~ UNCHANGED rows
      PROVE  Delivery!Confirm(e)
  <2>1. status[e] = "PROCESSING" /\ status' = [status EXCEPT ![e] = "PUBLISHED"]
    BY <1>4 DEF WritePublished, Fenced
  <2>2. Mapped' = [Mapped EXCEPT ![e] = "confirmed"]
    BY <1>1, <2>1, MappedExcept DEF Status
  <2>3. Appended(c)
    BY <1>1, <1>4 DEF IndInv, AcknowledgedIsAppended
  <2>4. Delivery!Delivered(e)
    BY <2>3 DEF Appended, Delivery!Delivered
  <2>5. Mapped[e] = "waiting" /\ \A f \in Earlier(e) : Mapped[f] = "confirmed"
    BY <1>1, <2>1, ProcessingHasTurn
  <2> QED
    BY <1>1, <1>2, <2>2, <2>4, <2>5, SameEvents DEF Delivery!Confirm, Mapped
<1>5. ASSUME pc[w] = "failing", WriteFailure(c), ~ UNCHANGED rows
      PROVE  Delivery!GiveUp({e}) \/ UNCHANGED Delivery!vars
  <2>1. /\ status[e] = "PROCESSING"
        /\ status' = [status EXCEPT ![e] = IF c.attempt >= MaxAttempts THEN "FAILED" ELSE "PENDING"]
    BY <1>5 DEF WriteFailure, Fenced
  <2>2. CASE c.attempt >= MaxAttempts
    <3>1. Mapped' = [f \in Events |-> IF f \in {e} THEN "failed" ELSE Mapped[f]]
      BY <1>1, <2>1, <2>2, MappedExcept DEF Status
    <3>2. Mapped[e] = "waiting" /\ \A f \in Earlier(e) : Mapped[f] = "confirmed"
      BY <1>1, <2>1, ProcessingHasTurn
    <3>3. Delivery!GiveUp({e})
      BY <1>1, <1>2, <3>1, <3>2, SameEvents DEF Delivery!GiveUp, Mapped
    <3> QED
      BY <3>3
  <2>3. CASE ~(c.attempt >= MaxAttempts)
    <3>1. Mapped' = Mapped
      BY <1>1, <2>1, <2>3, MappedExcept DEF Status
    <3> QED
      BY <1>2, <3>1 DEF Delivery!vars, Mapped
  <2> QED
    BY <2>2, <2>3
<1>6. Delivery!Confirm(e) => Delivery!Next
  BY <1>1, SameEvents DEF Delivery!Next
<1>7. Delivery!GiveUp({e}) => Delivery!Next
  <2>1. {e} \in SUBSET Events /\ {e} # {}
    BY <1>1
  <2> QED
    BY <2>1, SameEvents DEF Delivery!Next
<1> QED
  BY <1>3, <1>4, <1>5, <1>6, <1>7

(***************************************************************************)
(* The broker appends a copy that was not there, of an event that was      *)
(* claimed: all before it is confirmed.                                    *)
(***************************************************************************)
LEMMA RefinesAppend ==
    ASSUME IndInv, NEW c \in Claims, BrokerAppends(c)
    PROVE  Delivery!Next
<1>1. /\ TypeOK /\ Unclaimed /\ HeadOfLine /\ TokensIssued /\ OneCopyPerClaim /\ BudgetIsKept
      /\ c \in inflight
  BY DEF IndInv, ClaimInv, RowInv, BrokerAppends
<1>2. /\ c.event \in Events /\ c.event[1] \in Aggregates
      /\ c.attempt \in Nat /\ c.attempt > 0 /\ attempts[c.event] \in Nat
      /\ c = [event |-> c.event, attempt |-> c.attempt]
  BY <1>1, ClaimParts DEF TypeOK
<1>3. c.attempt <= attempts[c.event] /\ attempts[c.event] <= MaxAttempts + OperatorCap
  BY <1>1, <1>2 DEF TokensIssued, BudgetIsKept
<1>4. c \in Delivery!Copies
  <2>1. c.attempt \in 1 .. (MaxAttempts + OperatorCap)
    BY <1>2, <1>3, RelayAssumption
  <2> QED
    BY <1>2, <2>1, SameEvents DEF Delivery!Copies
<1>5. attempts[c.event] > 0
  BY <1>2, <1>3
<1>6. Mapped[c.event] # "absent"
  BY <1>1, <1>2, <1>5, MappedValue DEF Unclaimed
<1>7. \A f \in Earlier(c.event) : Mapped[f] = "confirmed"
  BY <1>1, <1>2, <1>5, MappedValue, EarlierParts DEF HeadOfLine
<1>8. \A i \in DOMAIN log[c.event[1]] : log[c.event[1]][i] # c
  BY <1>1 DEF OneCopyPerClaim, Appended
<1>9. Mapped' = Mapped /\ log' = [log EXCEPT ![c.event[1]] = Append(@, c)]
  BY DEF BrokerAppends, rows, Mapped, Waiting
<1>10. Delivery!Deliver(c)
  BY <1>2, <1>6, <1>7, <1>8, <1>9, SameEvents DEF Delivery!Deliver, Mapped
<1> QED
  BY <1>4, <1>10 DEF Delivery!Next

LEMMA RefinesStep == IndInv /\ [Next]_vars => [Delivery!Next]_(Delivery!vars)
<1> SUFFICES ASSUME IndInv, [Next]_vars
             PROVE  Delivery!Next \/ UNCHANGED Delivery!vars
  OBVIOUS
<1>1. TypeOK
  BY DEF IndInv, ClaimInv, RowInv
<1>2. UNCHANGED <<status, log>> => UNCHANGED Delivery!vars
  BY RefinesUnchanged
<1>3. ASSUME NEW e \in Events, Insert(e) PROVE Delivery!Next
  BY <1>3, RefinesInsert, SameEvents DEF Delivery!Next
<1>4. ASSUME NEW e \in Events, OperatorRetry(e) PROVE Delivery!Next
  BY <1>4, RefinesRetry, SameEvents DEF Delivery!Next
<1>5. ASSUME NEW e \in Events, BecomesDue(e) \/ LeaseExpires(e) PROVE UNCHANGED Delivery!vars
  BY <1>2, <1>5 DEF BecomesDue, LeaseExpires, broker
<1>6. ASSUME NEW w \in Workers, NEW skipped \in SUBSET Events,
             ClaimBatch(w, skipped) \/ ClaimUnacknowledged(w, skipped)
      PROVE  Delivery!Next \/ UNCHANGED Delivery!vars
  <2>1. PICK chosen \in SUBSET {e \in Events : Claimable(e)} : ClaimRows(chosen)
    BY <1>6 DEF ClaimBatch, ClaimUnacknowledged
  <2>2. UNCHANGED broker
    BY <1>6 DEF ClaimBatch, ClaimUnacknowledged
  <2> QED
    BY <2>1, <2>2, RefinesClaim
<1>7. ASSUME NEW w \in Workers, NEW c \in Claims,
             Publish(w, c) \/ PublishResolves(w, c) \/ PublishRejects(w, c)
      PROVE  UNCHANGED Delivery!vars
  BY <1>2, <1>7 DEF Publish, PublishResolves, PublishRejects, rows, broker
<1>8. ASSUME NEW w \in Workers, NEW c \in Claims,
             \/ RecordPublished(w, c) \/ RecordPublishedThrows(w, c)
             \/ RecordFailure(w, c) \/ RecordFailureThrows(w, c)
      PROVE  Delivery!Next \/ UNCHANGED Delivery!vars
  BY <1>8, RefinesWrite
     DEF RecordPublished, RecordPublishedThrows, RecordFailure, RecordFailureThrows
<1>9. ASSUME NEW w \in Workers, Crash(w) \/ Restart(w) PROVE UNCHANGED Delivery!vars
  BY <1>2, <1>9 DEF Crash, Restart, rows, broker
<1>10. ASSUME NEW c \in Claims, BrokerAppends(c) PROVE Delivery!Next
  BY <1>10, RefinesAppend
<1>11. CASE UNCHANGED vars
  BY <1>2, <1>11 DEF vars, rows, broker
<1> QED
  BY <1>1, <1>3, <1>4, <1>5, <1>6, <1>7, <1>8, <1>9, <1>10, <1>11, NextCases

(***************************************************************************)
(* The relay is an ordered, at-least-once channel that delivers an event   *)
(* at most once per attempt, for every number of workers and crashes.      *)
(***************************************************************************)
THEOREM RelayRefinesDelivery == Spec => DeliverySpec
<1>1. Init => Delivery!Init
  BY RefinesInit
<1>2. IndInv /\ [Next]_vars => [Delivery!Next]_(Delivery!vars)
  BY RefinesStep
<1> QED
  BY <1>1, <1>2, Inductive, PTL DEF Spec, DeliverySpec, Delivery!Spec

-----------------------------------------------------------------------------
(* The worker processes: one run at a time each, and whatever timers,     *)
(* throws and shutdowns do, the relay inside them is the one above.       *)

(***************************************************************************)
(* The steps of the runner, seen from the relay.                           *)
(***************************************************************************)
LEMMA StepIsRelayStep == [RunnerNext]_allVars => [Next]_vars
<1> SUFFICES ASSUME [RunnerNext]_allVars PROVE [Next]_vars
  OBVIOUS
<1>1. CASE UNCHANGED allVars
  BY <1>1 DEF allVars, relay, vars
<1>2. CASE Others
  BY <1>2 DEF Others, Next
<1>3. ASSUME NEW w \in Workers, NEW skipped \in SUBSET Events, RunClaims(w, skipped)
      PROVE  Next
  BY <1>3 DEF RunClaims, Next
<1>4. ASSUME NEW w \in Workers, NEW skipped \in SUBSET Events, RunClaimThrows(w, skipped)
      PROVE  Next \/ UNCHANGED vars
  BY <1>4 DEF RunClaimThrows, Next, relay, vars
<1>5. ASSUME NEW w \in Workers, NEW c \in batch[w], RunPublishes(w, c)
      PROVE  Next
  <2>1. PublishOne(w, c)
    BY <1>5 DEF RunPublishes, PublishOne
  <2> QED
    BY <2>1 DEF Next
<1>6. ASSUME NEW w \in Workers, Tick(w) \/ Signal(w) \/ StopTimer(w) \/ Disconnect(w) \/ EndPool(w)
      PROVE  UNCHANGED vars
  BY <1>6 DEF Tick, Signal, StopTimer, Disconnect, EndPool, relay, vars
<1>7. ASSUME NEW w \in Workers, Exit(w) \/ Die(w) \/ Boot(w)
      PROVE  Next
  BY <1>7 DEF Exit, Die, Boot, Next
<1> QED
  BY <1>1, <1>2, <1>3, <1>4, <1>5, <1>6, <1>7 DEF RunnerNext, Shutdown

(***************************************************************************)
(* A behaviour of the worker processes is a behaviour of the relay: all    *)
(* that is proved of OutboxRelay holds of them.                            *)
(***************************************************************************)
THEOREM RunnerIsRelay == RunnerSpec => Spec
<1>1. RunnerInit => Init
  BY DEF RunnerInit
<1> QED
  BY <1>1, StepIsRelayStep, PTL DEF RunnerSpec, Spec

-----------------------------------------------------------------------------
LEMMA RunnerInitInv == RunnerInit => RunnerInv
<1> SUFFICES ASSUME RunnerInit PROVE RunnerInv
  OBVIOUS
<1>1. TypeOK
  BY RowInit DEF RunnerInit, RowInv
<1>2. RunnerTypeOK
  BY <1>1 DEF RunnerInit, RunnerTypeOK
<1>3. OneRunAtATime /\ DownIsGone
  BY DEF RunnerInit, Init, OneRunAtATime, DownIsGone, Runs
<1> QED
  BY <1>2, <1>3 DEF RunnerInv

(***************************************************************************)
(* A step of one worker, which leaves the others their runs: the interval, *)
(* the place in the run, the flag and the client that worker has after it. *)
(***************************************************************************)
Moves(w, t, p, r, n) ==
    /\ t \in BOOLEAN /\ r \in BOOLEAN /\ n \in Nat
    /\ n + (IF p \in {"idle", "down"} THEN 0 ELSE 1) = IF r THEN 1 ELSE 0
    /\ p = "down" => ~t /\ ~r
    /\ timer' = [timer EXCEPT ![w] = t]
    /\ pc' = [pc EXCEPT ![w] = p]
    /\ running' = [running EXCEPT ![w] = r]
    /\ claiming' = [claiming EXCEPT ![w] = n]
    /\ pool' \in [Workers -> {"open", "ending", "ended"}]
    /\ producer' \in [Workers -> BOOLEAN] /\ closing' \in [Workers -> BOOLEAN]

LEMMA OneWorkerMoves ==
    ASSUME RunnerInv, TypeOK', NEW w \in Workers,
           NEW t, NEW p, NEW r, NEW n, Moves(w, t, p, r, n)
    PROVE  RunnerInv'
<1> USE DEF RunnerInv, RunnerTypeOK, TypeOK, Moves
<1>1. RunnerTypeOK'
  OBVIOUS
<1>2. ASSUME NEW v \in Workers
      PROVE  /\ Runs(v)' = IF running'[v] THEN 1 ELSE 0
             /\ pc'[v] = "down" => ~timer'[v] /\ ~running'[v]
  <2>1. CASE v = w
    BY <2>1 DEF Runs
  <2>2. CASE v # w
    <3>1. /\ pc'[v] = pc[v] /\ timer'[v] = timer[v]
          /\ running'[v] = running[v] /\ claiming'[v] = claiming[v]
      BY <2>2
    <3> QED
      BY <3>1 DEF Runs, OneRunAtATime, DownIsGone
  <2> QED
    BY <2>1, <2>2
<1> QED
  BY <1>1, <1>2 DEF OneRunAtATime, DownIsGone

LEMMA RunnerStep == RunnerInv /\ [RunnerNext]_allVars => RunnerInv'
<1> SUFFICES ASSUME RunnerInv, [RunnerNext]_allVars PROVE RunnerInv'
  OBVIOUS
<1>0. /\ TypeOK'
      /\ pc \in [Workers -> {"idle", "relaying", "publishing", "acknowledged", "failing", "down"}]
      /\ timer \in [Workers -> BOOLEAN] /\ running \in [Workers -> BOOLEAN]
      /\ claiming \in [Workers -> Nat]
      /\ pool \in [Workers -> {"open", "ending", "ended"}]
      /\ producer \in [Workers -> BOOLEAN] /\ closing \in [Workers -> BOOLEAN]
  BY TypeStep, StepIsRelayStep DEF RunnerInv, RunnerTypeOK, TypeOK
<1>a. ASSUME NEW w \in Workers
      PROVE  /\ pc[w] \in {"idle", "relaying", "publishing", "acknowledged", "failing", "down"}
             /\ pc = [pc EXCEPT ![w] = pc[w]]
             /\ timer[w] \in BOOLEAN /\ running[w] \in BOOLEAN /\ claiming[w] \in Nat
             /\ timer = [timer EXCEPT ![w] = timer[w]]
             /\ running = [running EXCEPT ![w] = running[w]]
             /\ claiming = [claiming EXCEPT ![w] = claiming[w]]
             /\ claiming[w] + (IF pc[w] \in {"idle", "down"} THEN 0 ELSE 1)
                    = IF running[w] THEN 1 ELSE 0
             /\ pc[w] = "down" => ~timer[w] /\ ~running[w]
  BY <1>0 DEF RunnerInv, OneRunAtATime, DownIsGone, Runs
<1>1. CASE UNCHANGED allVars
  BY <1>1, <1>0 DEF RunnerInv, RunnerTypeOK, allVars, relay, worker, rows, broker, life, OneRunAtATime, DownIsGone, Runs
<1>2. CASE Others
  <2>1. UNCHANGED worker
    BY <1>2 DEF Others, Insert, OperatorRetry, BecomesDue, LeaseExpires, BrokerAppends
  <2> QED
    BY <1>2, <2>1, <1>0 DEF RunnerInv, RunnerTypeOK, Others, worker, life, OneRunAtATime, DownIsGone, Runs
<1>3. ASSUME NEW w \in Workers, Tick(w)
      PROVE  RunnerInv'
  <2>1. pc[w] = "idle" /\ claiming[w] = 0
    BY <1>a, <1>3 DEF Tick
  <2>2. Moves(w, timer[w], "idle", TRUE, 1)
    BY <1>0, <1>3, <1>a, <2>1 DEF Tick, relay, worker, Moves
  <2> QED
    BY <1>0, <2>2, OneWorkerMoves
<1>4. ASSUME NEW w \in Workers, NEW skipped \in SUBSET Events, RunClaims(w, skipped)
      PROVE  RunnerInv'
  <2>0. pc[w] = "idle" /\ running[w] = TRUE /\ claiming[w] = 1
    BY <1>4, <1>a DEF RunClaims, ClaimBatch
  <2>1. \E p \in {"idle", "relaying"} : pc' = [pc EXCEPT ![w] = p]
    BY <1>4 DEF RunClaims, ClaimBatch
  <2>2. PICK p \in {"idle", "relaying"} : pc' = [pc EXCEPT ![w] = p]
    BY <2>1
  <2>4. running' = [running EXCEPT ![w] = IF p = "idle" THEN FALSE ELSE TRUE] /\ claiming' = [claiming EXCEPT ![w] = 0]
    BY <1>0, <1>4, <2>0, <2>2 DEF RunClaims, Finally, Release
  <2>5. Moves(w, timer[w], p, IF p = "idle" THEN FALSE ELSE TRUE, 0)
    BY <1>0, <1>4, <1>a, <2>2, <2>4 DEF RunClaims, Moves
  <2> QED
    BY <1>0, <2>5, OneWorkerMoves
<1>5. ASSUME NEW w \in Workers, NEW skipped \in SUBSET Events, RunClaimThrows(w, skipped)
      PROVE  RunnerInv'
  <2>1. pc[w] = "idle" /\ running[w] = TRUE /\ claiming[w] = 1
    BY <1>5, <1>a DEF RunClaimThrows
  <2>2. pc' = pc
    BY <1>5 DEF RunClaimThrows, ClaimUnacknowledged, relay, worker
  <2>3. running' = [running EXCEPT ![w] = FALSE] /\ claiming' = [claiming EXCEPT ![w] = 0]
    BY <1>5, <2>1, <2>2 DEF RunClaimThrows, Finally, Release
  <2>4. Moves(w, timer[w], "idle", FALSE, 0)
    BY <1>0, <1>5, <1>a, <2>1, <2>2, <2>3 DEF RunClaimThrows, Moves
  <2> QED
    BY <1>0, <2>4, OneWorkerMoves
<1>6. ASSUME NEW w \in Workers, NEW c \in batch[w], RunPublishes(w, c)
      PROVE  RunnerInv'
  <2>1. /\ pc[w] \notin {"idle", "down"}
        /\ \E p \in {"idle", "relaying", "publishing", "acknowledged", "failing"} :
              pc' = [pc EXCEPT ![w] = p]
    BY <1>6 DEF RunPublishes, Publish, PublishRejects, PublishResolves, RecordPublished,
                RecordFailure, RecordPublishedThrows, RecordFailureThrows, Advance
  <2>2. PICK p \in {"idle", "relaying", "publishing", "acknowledged", "failing"} :
            pc' = [pc EXCEPT ![w] = p]
    BY <2>1
  <2>3. running[w] = TRUE /\ claiming[w] = 0
    BY <1>a, <2>1
  <2>4. running' = [running EXCEPT ![w] = IF p = "idle" THEN FALSE ELSE TRUE]
    BY <1>0, <1>6, <2>2, <2>3 DEF RunPublishes, Finally
  <2>5. Moves(w, timer[w], p, IF p = "idle" THEN FALSE ELSE TRUE, 0)
    BY <1>0, <1>6, <1>a, <2>2, <2>3, <2>4 DEF RunPublishes, Moves
  <2> QED
    BY <1>0, <2>5, OneWorkerMoves
<1>7. ASSUME NEW w \in Workers, Signal(w) \/ StopTimer(w) \/ Disconnect(w) \/ EndPool(w)
      PROVE  RunnerInv'
  <2>1. pc' = pc /\ running' = running /\ claiming' = claiming
    BY <1>7 DEF Signal, StopTimer, Disconnect, EndPool, relay, worker
  <2>2. \E t \in BOOLEAN : timer' = [timer EXCEPT ![w] = t] /\ (t => timer[w])
    BY <1>7, <1>a DEF Signal, StopTimer, Disconnect, EndPool
  <2>3. /\ pool' \in [Workers -> {"open", "ending", "ended"}]
        /\ producer' \in [Workers -> BOOLEAN] /\ closing' \in [Workers -> BOOLEAN]
    BY <1>0, <1>7 DEF Signal, StopTimer, Disconnect, EndPool
  <2>4. PICK t \in BOOLEAN : timer' = [timer EXCEPT ![w] = t] /\ (t => timer[w])
    BY <2>2
  <2>5. Moves(w, t, pc[w], running[w], claiming[w])
    BY <1>a, <2>1, <2>3, <2>4 DEF Moves
  <2> QED
    BY <1>0, <2>5, OneWorkerMoves
<1>8. ASSUME NEW w \in Workers, Exit(w) \/ Die(w)
      PROVE  RunnerInv'
  <2>1. Gone(w) /\ pc' = [pc EXCEPT ![w] = "down"]
    BY <1>8 DEF Exit, Die, Crash
  <2>2. /\ pool' \in [Workers -> {"open", "ending", "ended"}]
        /\ producer' \in [Workers -> BOOLEAN] /\ closing' \in [Workers -> BOOLEAN]
    BY <1>0, <2>1 DEF Gone
  <2>3. Moves(w, FALSE, "down", FALSE, 0)
    BY <2>1, <2>2 DEF Gone, Moves
  <2> QED
    BY <1>0, <2>3, OneWorkerMoves
<1>9. ASSUME NEW w \in Workers, Boot(w)
      PROVE  RunnerInv'
  <2>1. Moves(w, TRUE, "idle", TRUE, 1)
    BY <1>0, <1>9 DEF Boot, Restart, Moves
  <2> QED
    BY <1>0, <2>1, OneWorkerMoves
<1> QED
  BY <1>1, <1>2, <1>3, <1>4, <1>5, <1>6, <1>7, <1>8, <1>9 DEF RunnerNext, Shutdown

(***************************************************************************)
(* OneRunAtATime, for every number of workers: however ticks, throws and   *)
(* shutdowns interleave, a process has one run while its flag is set and   *)
(* none while it is not.                                                   *)
(***************************************************************************)
THEOREM OneRun == RunnerSpec => []OneRunAtATime
<1>1. RunnerInv => OneRunAtATime
  BY DEF RunnerInv
<1> QED
  BY <1>1, RunnerInitInv, RunnerStep, PTL DEF RunnerSpec

(***************************************************************************)
(* The order of the topic survives the life of the processes.              *)
(***************************************************************************)
THEOREM RunnerInOrder == RunnerSpec => []FirstCopiesInOrder
BY RunnerIsRelay, InOrder, PTL

(***************************************************************************)
(* The worker processes are an ordered, at-least-once channel: what a      *)
(* reader of the topic may rely on does not depend on when runs start,     *)
(* throw or are cut off by a shutdown.                                     *)
(***************************************************************************)
THEOREM RunnerIsChannel == RunnerSpec => DeliverySpec
BY RunnerIsRelay, RelayRefinesDelivery

=============================================================================
