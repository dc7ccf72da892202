----------------------- MODULE ClaimTransactionProofs -----------------------
(***************************************************************************)
(* The claim transaction is atomic, for any number of workers, orders and  *)
(* events, any batch size and any budget of attempts.                      *)
(*                                                                         *)
(* The argument: a row that a transaction has locked is in the table what  *)
(* it was when the transaction came to it (WritesAreCurrent), because      *)
(* everyone else waits for the lock or skips the row.  The earlier rows    *)
(* that the SELECT has seen are not locked, but they are PUBLISHED, which  *)
(* nobody changes, or absent, and then the row itself were absent too      *)
(* (ChosenHaveTurn).  So COMMIT writes what one atomic claim would write.  *)
(***************************************************************************)
EXTENDS ClaimTransaction, FiniteSetTheorems, TLAPS

-----------------------------------------------------------------------------
(* Rows and locks.                                                         *)

\* What the invariant says of the transaction of one worker.
WorkerInv(w) ==
    /\ pc[w] \in {"idle", "publishing"} => DOMAIN writes[w] = {}
    /\ \A e \in DOMAIN writes[w] :
          /\ e \in chosen[w] => SweptRow(w, e).status = "PENDING"
          /\ e \notin chosen[w] => StaleClaim(w, e, table[e])
          /\ writes[w][e] = IF pc[w] = "commit" /\ e \in chosen[w] THEN ClaimedRow(e)
                                                                  ELSE SweptRow(w, e)
    /\ chosen[w] \subseteq DOMAIN writes[w]
    /\ IsFiniteSet(chosen[w]) /\ Cardinality(chosen[w]) <= BatchSize
    /\ pc[w] \notin {"select", "commit"} => chosen[w] = {}
    /\ \A e \in chosen[w] : IsTurnOf(e)
    /\ pc[w] = "select" => \A e \in todo[w] : IsTurnOf(e)
    /\ now[w] \subseteq expired

OneHolder == \A v, w \in Workers : v # w => DOMAIN writes[v] \cap DOMAIN writes[w] = {}

LEMMA InvParts ==
    ClaimInv <=> /\ TypeOK /\ NoGaps /\ OneHolder /\ \A w \in Workers : WorkerInv(w)
                 /\ TokensIssued /\ ClaimsAreExclusive
BY DEF ClaimInv, LocksExclude, WritesAreCurrent, ChosenHaveTurn, NowIsPast, WorkerInv, OneHolder

LEMMA InvPartsNext ==
    (/\ TypeOK /\ NoGaps /\ OneHolder /\ \A w \in Workers : WorkerInv(w)
     /\ TokensIssued /\ ClaimsAreExclusive)' => ClaimInv'
BY DEF ClaimInv, LocksExclude, WritesAreCurrent, ChosenHaveTurn, NowIsPast, WorkerInv, OneHolder

LEMMA RowParts ==
    ASSUME TypeOK, NEW w \in Workers, NEW e \in Events
    PROVE  /\ table[e] \in Row /\ Seen(w)[e] \in Row
           /\ e \in DOMAIN writes[w] => Seen(w)[e] = writes[w][e]
           /\ e \notin DOMAIN writes[w] => Seen(w)[e] = table[e]
           /\ DOMAIN writes[w] \subseteq Events
           /\ SweptRow(w, e) \in Row /\ SweptRow(w, e).attempts = table[e].attempts
           /\ table[e].attempts \in Nat
BY DEF TypeOK, Seen, SweptRow, Row

\* One worker's step leaves the transactions of the others alone.
OnlyStep(w) ==
    \A v \in Workers \ {w} :
        /\ pc'[v] = pc[v] /\ now'[v] = now[v] /\ todo'[v] = todo[v]
        /\ writes'[v] = writes[v] /\ chosen'[v] = chosen[v]

LEMMA WriteParts ==
    ASSUME TypeOK, NEW w \in Workers, NEW e \in Events, NEW row \in Row, Write(w, e, row)
    PROVE  /\ DOMAIN writes' = Workers
           /\ \A v \in Workers \ {w} : writes'[v] = writes[v]
           /\ DOMAIN writes'[w] = DOMAIN writes[w] \cup {e}
           /\ writes'[w][e] = row
           /\ \A f \in DOMAIN writes[w] \ {e} : writes'[w][f] = writes[w][f]
BY DEF TypeOK, Write

LEMMA EndParts ==
    ASSUME TypeOK, NEW w \in Workers, EndTransaction(w)
    PROVE  /\ DOMAIN writes' = Workers /\ DOMAIN writes'[w] = {}
           /\ now' \in [Workers -> SUBSET Claims] /\ now'[w] = {}
           /\ todo' \in [Workers -> SUBSET Events] /\ todo'[w] = {}
           /\ chosen' \in [Workers -> SUBSET Events] /\ chosen'[w] = {}
           /\ \A v \in Workers \ {w} :
                 /\ now'[v] = now[v] /\ todo'[v] = todo[v]
                 /\ writes'[v] = writes[v] /\ chosen'[v] = chosen[v]
BY DEF TypeOK, EndTransaction, Nothing

LEMMA MoveParts ==
    ASSUME TypeOK, NEW w \in Workers, NEW from, NEW to, Move(w, from, to),
           to \in {"idle", "begin", "sweepFailed", "sweepPending", "select", "commit", "publishing"}
    PROVE  /\ pc[w] = from /\ pc'[w] = to
           /\ pc' \in [Workers -> {"idle", "begin", "sweepFailed", "sweepPending", "select",
                                   "commit", "publishing"}]
           /\ \A v \in Workers \ {w} : pc'[v] = pc[v]
BY DEF TypeOK, Move

(***************************************************************************)
(* The transaction of a worker is undisturbed by a step of somebody else   *)
(* that keeps to its locks, and to what is PUBLISHED.                      *)
(***************************************************************************)
LEMMA Undisturbed ==
    ASSUME TypeOK, NEW v \in Workers, WorkerInv(v),
           pc'[v] = pc[v], now'[v] = now[v], todo'[v] = todo[v],
           writes'[v] = writes[v], chosen'[v] = chosen[v],
           expired \subseteq expired',
           \A e \in DOMAIN writes[v] : table'[e] = table[e],
           \A e \in Events : table[e].status = "PUBLISHED" => table'[e].status = "PUBLISHED"
    PROVE  WorkerInv(v)'
<1>1. \A e \in DOMAIN writes[v] :
         /\ StaleClaim(v, e, table[e])' <=> StaleClaim(v, e, table[e])
         /\ SweptRow(v, e)' = SweptRow(v, e) /\ ClaimedRow(e)' = ClaimedRow(e)
  BY DEF StaleClaim, SweptRow, ClaimedRow
<1>2. \A e : IsTurnOf(e) => IsTurnOf(e)'
  BY DEF IsTurnOf
<1> QED
  BY <1>1, <1>2 DEF WorkerInv

-----------------------------------------------------------------------------
(* Statements that change no committed row.                                *)

\* A step of w's transaction that keeps its part of the invariant.
Quiet(w) ==
    /\ TypeOK' /\ WorkerInv(w)' /\ OnlyStep(w)
    /\ UNCHANGED <<table, expired>>
    /\ \A e \in DOMAIN writes'[w] \ DOMAIN writes[w] : ~Locked(e, w)
    /\ batch'[w] \subseteq batch[w] /\ \A v \in Workers \ {w} : batch'[v] = batch[v]

LEMMA QuietKeeps ==
    ASSUME ClaimInv, NEW w \in Workers, Quiet(w)
    PROVE  ClaimInv'
<1>1. /\ TypeOK /\ NoGaps /\ OneHolder /\ TokensIssued /\ ClaimsAreExclusive
      /\ \A v \in Workers : WorkerInv(v)
  BY InvParts
<1>2. TypeOK' /\ NoGaps'
  BY <1>1 DEF Quiet, NoGaps
<1>3. OneHolder'
  BY <1>1 DEF Quiet, OneHolder, OnlyStep, Locked
<1>4. ASSUME NEW v \in Workers PROVE WorkerInv(v)'
  <2>1. CASE v = w
    BY <2>1 DEF Quiet
  <2>2. CASE v # w
    BY <1>1, <2>2, Undisturbed DEF Quiet, OnlyStep
  <2> QED
    BY <2>1, <2>2
<1>5. \A v \in Workers : batch'[v] \subseteq batch[v]
  BY DEF Quiet
<1>6. TokensIssued' /\ ClaimsAreExclusive'
  BY <1>1, <1>5 DEF Quiet, TokensIssued, ClaimsAreExclusive
<1> QED
  BY <1>2, <1>3, <1>4, <1>6, InvPartsNext

LEMMA BeginIsQuiet ==
    ASSUME ClaimInv, NEW w \in Workers, Begin(w)
    PROVE  Quiet(w)
<1>1. TypeOK /\ WorkerInv(w)
  BY InvParts
<1>2. pc[w] = "idle" /\ pc'[w] = "begin" /\ DOMAIN writes[w] = {} /\ chosen[w] = {}
  BY <1>1, MoveParts DEF Begin, WorkerInv
<1>3. TypeOK' /\ OnlyStep(w) /\ now'[w] = expired
  BY <1>1, MoveParts DEF Begin, TypeOK, OnlyStep
<1>4. WorkerInv(w)'
  BY <1>1, <1>2, <1>3 DEF Begin, WorkerInv
<1> QED
  BY <1>3, <1>4 DEF Begin, Quiet

(***************************************************************************)
(* A statement starts: what it has found is todo, nothing is locked yet.   *)
(***************************************************************************)
LEMMA SweepStartIsQuiet ==
    ASSUME ClaimInv, NEW w \in Workers, SweepFailed(w) \/ SweepPending(w)
    PROVE  Quiet(w)
<1>1. TypeOK /\ WorkerInv(w)
  BY InvParts
<1>2. /\ pc[w] \in {"begin", "sweepFailed"} /\ pc'[w] \in {"sweepFailed", "sweepPending"}
      /\ chosen[w] = {}
  BY <1>1, MoveParts DEF SweepFailed, SweepPending, WorkerInv
<1>3. TypeOK' /\ OnlyStep(w)
  BY <1>1, MoveParts DEF SweepFailed, SweepPending, TypeOK, OnlyStep
<1>4. UNCHANGED <<table, expired, now, writes, chosen, batch>>
  BY DEF SweepFailed, SweepPending
<1>5. \A e \in DOMAIN writes[w] :
         /\ StaleClaim(w, e, table[e])' <=> StaleClaim(w, e, table[e])
         /\ SweptRow(w, e)' = SweptRow(w, e)
  BY <1>4 DEF StaleClaim, SweptRow
<1>6. WorkerInv(w)'
  BY <1>1, <1>2, <1>4, <1>5 DEF WorkerInv
<1> QED
  BY <1>3, <1>4, <1>6 DEF Quiet

(***************************************************************************)
(* The rows the SELECT finds have their turn: a row that its transaction   *)
(* has swept is not PUBLISHED, and one that is absent has no later one.    *)
(***************************************************************************)
LEMMA SelectableHasTurn ==
    ASSUME ClaimInv, NEW w \in Workers, chosen[w] = {}, NEW e \in Events, Selectable(Seen(w), e)
    PROVE  IsTurnOf(e)
<1>1. TypeOK /\ WorkerInv(w) /\ NoGaps
  BY InvParts
<1>2. \A f \in DOMAIN writes[w] :
         /\ Seen(w)[f].status \in {"PENDING", "FAILED"} /\ table[f].status = "PROCESSING"
  <2> TAKE f \in DOMAIN writes[w]
  <2>1. f \in Events /\ Seen(w)[f] = writes[w][f] /\ table[f] \in Row
    BY <1>1, RowParts
  <2>2. StaleClaim(w, f, table[f]) /\ writes[w][f] = SweptRow(w, f)
    BY <1>1 DEF WorkerInv
  <2> QED
    BY <2>1, <2>2 DEF StaleClaim, SweptRow, Row
<1>3. table[e].status # "ABSENT"
  <2>1. Seen(w)[e].status = "PENDING"
    BY DEF Selectable
  <2> QED
    BY <1>1, <1>2, <2>1, RowParts
<1>4. ASSUME NEW f \in Events, IsEarlier(f, e) PROVE table[f].status = "PUBLISHED"
  <2>1. Seen(w)[f].status \in {"ABSENT", "PUBLISHED"}
    BY <1>4 DEF Selectable, IsEarlier
  <2>2. table[f].status \in {"ABSENT", "PUBLISHED"}
    BY <1>1, <1>2, <2>1, RowParts
  <2>3. table[f].status # "ABSENT"
    BY <1>1, <1>3, <1>4 DEF NoGaps
  <2> QED
    BY <2>2, <2>3
<1> QED
  BY <1>4 DEF IsTurnOf

LEMMA SelectIsQuiet ==
    ASSUME ClaimInv, NEW w \in Workers, Select(w)
    PROVE  Quiet(w)
<1>1. TypeOK /\ WorkerInv(w)
  BY InvParts
<1>2. pc[w] = "sweepPending" /\ pc'[w] = "select" /\ chosen[w] = {}
  BY <1>1, MoveParts DEF Select, WorkerInv
<1>3. TypeOK' /\ OnlyStep(w)
  BY <1>1, MoveParts DEF Select, TypeOK, OnlyStep
<1>4. UNCHANGED <<table, expired, now, writes, chosen, batch>>
  BY DEF Select
<1>5. \A e \in DOMAIN writes[w] :
         /\ StaleClaim(w, e, table[e])' <=> StaleClaim(w, e, table[e])
         /\ SweptRow(w, e)' = SweptRow(w, e)
  BY <1>4 DEF StaleClaim, SweptRow
<1>6. \A e \in todo'[w] : e \in Events /\ Selectable(Seen(w), e)
  BY <1>1 DEF Select, TypeOK
<1>7. \A e \in todo'[w] : IsTurnOf(e)'
  BY <1>2, <1>4, <1>6, SelectableHasTurn DEF IsTurnOf
<1>8. WorkerInv(w)'
  BY <1>1, <1>2, <1>4, <1>5, <1>7 DEF WorkerInv
<1> QED
  BY <1>3, <1>4, <1>8 DEF Quiet

(***************************************************************************)
(* A sweep comes to a row.  One that the transaction has already swept is  *)
(* not PROCESSING any more, so the row that is written is the table's.     *)
(***************************************************************************)
LEMMA SweepRowIsQuiet ==
    ASSUME ClaimInv, NEW w \in Workers, NEW e \in todo[w], SweepRow(w, e)
    PROVE  Quiet(w)
<1>1. TypeOK /\ WorkerInv(w)
  BY InvParts
<1>2. /\ e \in Events /\ pc[w] \in {"sweepFailed", "sweepPending"} /\ chosen[w] = {}
      /\ UNCHANGED <<table, expired, pc, now, chosen, batch>>
      /\ todo' \in [Workers -> SUBSET Events] /\ \A v \in Workers \ {w} : todo'[v] = todo[v]
  BY <1>1 DEF SweepRow, TypeOK, WorkerInv
<1>3. \A f \in Events :
         /\ StaleClaim(w, f, table[f])' <=> StaleClaim(w, f, table[f])
         /\ SweptRow(w, f)' = SweptRow(w, f)
  BY <1>2 DEF StaleClaim, SweptRow
<1>4. CASE UNCHANGED writes
  <2>1. TypeOK' /\ OnlyStep(w)
    BY <1>1, <1>2, <1>4 DEF TypeOK, OnlyStep
  <2>2. WorkerInv(w)'
    BY <1>1, <1>2, <1>3, <1>4, RowParts DEF WorkerInv
  <2> QED
    BY <1>2, <1>4, <2>1, <2>2 DEF Quiet
<1>5. CASE ~UNCHANGED writes
  <2> DEFINE row == [Seen(w)[e] EXCEPT !.status =
                        IF pc[w] = "sweepFailed" THEN "FAILED" ELSE "PENDING"]
  <2>1. /\ StaleClaim(w, e, Seen(w)[e]) /\ ~Locked(e, w)
        /\ pc[w] = "sweepFailed" <=> Seen(w)[e].attempts >= MaxAttempts
        /\ Write(w, e, row)
    BY <1>5 DEF SweepRow
  <2>2. e \notin DOMAIN writes[w]
    <3> SUFFICES ASSUME e \in DOMAIN writes[w] PROVE FALSE
      OBVIOUS
    <3>1. Seen(w)[e] = SweptRow(w, e) /\ StaleClaim(w, e, table[e]) /\ table[e] \in Row
      BY <1>1, <1>2, RowParts DEF WorkerInv
    <3> QED
      BY <2>1, <3>1 DEF StaleClaim, SweptRow, Row
  <2>3. Seen(w)[e] = table[e] /\ table[e] \in Row
    BY <1>1, <1>2, <2>2, RowParts
  <2>4. row \in Row /\ row = SweptRow(w, e)
    BY <2>1, <2>3 DEF Row, SweptRow
  <2> HIDE DEF row
  <2>5. /\ DOMAIN writes' = Workers
        /\ \A v \in Workers \ {w} : writes'[v] = writes[v]
        /\ DOMAIN writes'[w] = DOMAIN writes[w] \cup {e}
        /\ writes'[w][e] = row
        /\ \A f \in DOMAIN writes[w] \ {e} : writes'[w][f] = writes[w][f]
    BY <1>1, <1>2, <2>1, <2>4, WriteParts
  <2>6. TypeOK' /\ OnlyStep(w)
    <3>1. \A v \in Workers :
             /\ DOMAIN writes'[v] \subseteq Events
             /\ \A f \in DOMAIN writes'[v] : writes'[v][f] \in Row
      BY <1>1, <1>2, <2>4, <2>5 DEF TypeOK
    <3> QED
      BY <1>1, <1>2, <2>5, <3>1 DEF TypeOK, OnlyStep
  <2>7. WorkerInv(w)'
    <3>1. \A f \in DOMAIN writes'[w] : StaleClaim(w, f, table[f]) /\ writes'[w][f] = SweptRow(w, f)
      BY <1>1, <1>2, <2>1, <2>3, <2>4, <2>5 DEF WorkerInv
    <3>2. \A f \in DOMAIN writes'[w] : f \in Events
      BY <2>6 DEF TypeOK
    <3> QED
      BY <1>1, <1>2, <1>3, <2>5, <3>1, <3>2 DEF WorkerInv
  <2> QED
    BY <1>2, <2>1, <2>5, <2>6, <2>7 DEF Quiet
<1> QED
  BY <1>4, <1>5

(***************************************************************************)
(* The SELECT comes to a row: skipped, or locked and chosen.               *)
(***************************************************************************)
LEMMA SelectRowIsQuiet ==
    ASSUME ClaimInv, NEW w \in Workers, NEW e \in todo[w], SelectRow(w, e)
    PROVE  Quiet(w)
<1>1. TypeOK /\ WorkerInv(w)
  BY InvParts
<1>2. /\ e \in Events /\ pc[w] = "select"
      /\ UNCHANGED <<table, expired, pc, now, batch>>
      /\ todo' \in [Workers -> SUBSET Events] /\ \A v \in Workers \ {w} : todo'[v] = todo[v]
      /\ todo'[w] \subseteq todo[w]
      /\ Cardinality(chosen[w]) < BatchSize
  BY <1>1 DEF SelectRow, TypeOK
<1>3. \A f \in Events :
         /\ StaleClaim(w, f, table[f])' <=> StaleClaim(w, f, table[f])
         /\ SweptRow(w, f)' = SweptRow(w, f)
         /\ IsTurnOf(f) => IsTurnOf(f)'
  BY <1>2 DEF StaleClaim, SweptRow, IsTurnOf
<1>4. CASE UNCHANGED <<writes, chosen>>
  <2>1. TypeOK' /\ OnlyStep(w)
    BY <1>1, <1>2, <1>4 DEF TypeOK, OnlyStep
  <2>2. \A f \in chosen[w] \cup todo[w] : f \in Events
    BY <1>1 DEF TypeOK
  <2>3. WorkerInv(w)'
    BY <1>1, <1>2, <1>3, <1>4, <2>2, RowParts DEF WorkerInv
  <2> QED
    BY <1>2, <1>4, <2>1, <2>3 DEF Quiet
<1>5. CASE /\ ~Locked(e, w) /\ Seen(w)[e].status = "PENDING"
           /\ Write(w, e, Seen(w)[e])
           /\ chosen' = [chosen EXCEPT ![w] = @ \cup {e}]
  <2>1. Seen(w)[e] = SweptRow(w, e) /\ Seen(w)[e] \in Row
    <3>1. CASE e \in DOMAIN writes[w]
      BY <1>1, <1>2, <3>1, RowParts DEF WorkerInv
    <3>2. CASE e \notin DOMAIN writes[w]
      BY <1>1, <1>2, <1>5, <3>2, RowParts DEF SweptRow, StaleClaim
    <3> QED
      BY <3>1, <3>2
  <2>2. /\ DOMAIN writes' = Workers
        /\ \A v \in Workers \ {w} : writes'[v] = writes[v]
        /\ DOMAIN writes'[w] = DOMAIN writes[w] \cup {e}
        /\ writes'[w][e] = SweptRow(w, e)
        /\ \A f \in DOMAIN writes[w] \ {e} : writes'[w][f] = writes[w][f]
    BY <1>1, <1>2, <1>5, <2>1, WriteParts
  <2>3. /\ chosen'[w] = chosen[w] \cup {e}
        /\ \A v \in Workers \ {w} : chosen'[v] = chosen[v]
        /\ chosen' \in [Workers -> SUBSET Events]
    BY <1>1, <1>2, <1>5 DEF TypeOK
  <2>4. TypeOK' /\ OnlyStep(w)
    <3>1. \A v \in Workers :
             /\ DOMAIN writes'[v] \subseteq Events
             /\ \A f \in DOMAIN writes'[v] : writes'[v][f] \in Row
      BY <1>1, <1>2, <2>1, <2>2 DEF TypeOK
    <3> QED
      BY <1>1, <1>2, <2>2, <2>3, <3>1 DEF TypeOK, OnlyStep
  <2>5. /\ IsFiniteSet(chosen'[w])
        /\ Cardinality(chosen'[w]) <= BatchSize
    <3>1. IsFiniteSet(chosen[w]) /\ Cardinality(chosen[w]) \in Nat
      BY <1>1, FS_CardinalityType DEF WorkerInv
    <3>2. /\ IsFiniteSet(chosen[w] \cup {e})
          /\ \/ Cardinality(chosen[w] \cup {e}) = Cardinality(chosen[w])
             \/ Cardinality(chosen[w] \cup {e}) = Cardinality(chosen[w]) + 1
      BY <3>1, FS_AddElement
    <3> DEFINE n == Cardinality(chosen[w])
               m == Cardinality(chosen[w] \cup {e})
    <3>3. n \in Nat /\ n < BatchSize /\ (m = n \/ m = n + 1) /\ BatchSize \in Nat
      BY <1>2, <3>1, <3>2, ClaimAssumption
    <3>4. m <= BatchSize
      <4> HIDE DEF n, m
      <4> QED
        BY <3>3
    <3> QED
      BY <2>3, <3>2, <3>4
  <2>6. \A f \in DOMAIN writes'[w] :
           /\ f \in chosen'[w] => SweptRow(w, f).status = "PENDING"
           /\ f \notin chosen'[w] => StaleClaim(w, f, table[f])
           /\ writes'[w][f] = SweptRow(w, f)
    BY <1>1, <1>2, <1>5, <2>1, <2>2, <2>3 DEF WorkerInv
  <2>7. \A f \in chosen'[w] \cup todo'[w] : IsTurnOf(f)
    BY <1>1, <1>2, <2>3 DEF WorkerInv
  <2>8. DOMAIN writes'[w] \subseteq Events /\ todo'[w] \subseteq Events /\ chosen'[w] \subseteq Events
    BY <2>4 DEF TypeOK
  <2>9. chosen'[w] \subseteq DOMAIN writes'[w] /\ now'[w] \subseteq expired'
    BY <1>1, <1>2, <2>2, <2>3 DEF WorkerInv
  <2>10. WorkerInv(w)'
    BY <1>2, <1>3, <2>5, <2>6, <2>7, <2>8, <2>9 DEF WorkerInv
  <2> QED
    BY <1>2, <1>5, <2>2, <2>4, <2>10 DEF Quiet
<1> QED
  BY <1>4, <1>5 DEF SelectRow

(***************************************************************************)
(* The UPDATE: the chosen rows are among the locked ones.                  *)
(***************************************************************************)
LEMMA TakeIsQuiet ==
    ASSUME ClaimInv, NEW w \in Workers, Take(w)
    PROVE  Quiet(w)
<1>1. TypeOK /\ WorkerInv(w)
  BY InvParts
<1>2. /\ pc[w] = "select" /\ pc'[w] = "commit"
      /\ UNCHANGED <<table, expired, now, todo, chosen, batch>>
  BY <1>1, MoveParts DEF Take
<1>3. /\ DOMAIN writes' = Workers
      /\ writes'[w] = TakeRows(w)
      /\ \A v \in Workers \ {w} : writes'[v] = writes[v]
  BY <1>1 DEF Take, TypeOK
<1>4. chosen[w] \subseteq DOMAIN writes[w] /\ DOMAIN writes[w] \subseteq Events
  BY <1>1 DEF WorkerInv, TypeOK
<1>5. /\ DOMAIN writes'[w] = DOMAIN writes[w]
      /\ \A f \in DOMAIN writes[w] :
            writes'[w][f] = IF f \in chosen[w] THEN ClaimedRow(f) ELSE SweptRow(w, f)
  <2>1. \A f \in DOMAIN writes[w] :
           /\ Seen(w)[f] = writes[w][f] /\ writes[w][f] = SweptRow(w, f)
           /\ SweptRow(w, f).attempts = table[f].attempts
    BY <1>1, <1>2, <1>4, RowParts DEF WorkerInv
  <2> QED
    BY <1>3, <1>4, <2>1 DEF TakeRows, ClaimedRow
<1>6. TypeOK' /\ OnlyStep(w)
  <2>1. \A f \in Events : SweptRow(w, f) \in Row /\ ClaimedRow(f) \in Row
    BY <1>1, RowParts DEF ClaimedRow, Row
  <2>2. \A v \in Workers :
           /\ DOMAIN writes'[v] \subseteq Events
           /\ \A f \in DOMAIN writes'[v] : writes'[v][f] \in Row
    BY <1>1, <1>3, <1>4, <1>5, <2>1 DEF TypeOK
  <2>3. /\ pc' \in [Workers -> {"idle", "begin", "sweepFailed", "sweepPending", "select",
                                "commit", "publishing"}]
        /\ \A v \in Workers \ {w} : pc'[v] = pc[v]
    BY <1>1, MoveParts DEF Take
  <2> QED
    BY <1>1, <1>2, <1>3, <2>2, <2>3 DEF TypeOK, OnlyStep
<1>7. \A f \in Events :
         /\ StaleClaim(w, f, table[f])' <=> StaleClaim(w, f, table[f])
         /\ SweptRow(w, f)' = SweptRow(w, f) /\ ClaimedRow(f)' = ClaimedRow(f)
         /\ IsTurnOf(f) => IsTurnOf(f)'
  BY <1>2 DEF StaleClaim, SweptRow, ClaimedRow, IsTurnOf
<1>8. WorkerInv(w)'
  BY <1>1, <1>2, <1>4, <1>5, <1>7 DEF WorkerInv
<1> QED
  BY <1>2, <1>5, <1>6, <1>8 DEF Quiet

LEMMA TakeNothingIsQuiet ==
    ASSUME ClaimInv, NEW w \in Workers, TakeNothing(w)
    PROVE  Quiet(w)
<1>1. TypeOK /\ WorkerInv(w)
  BY InvParts
<1>2. /\ pc[w] = "select" /\ pc'[w] = "commit" /\ chosen[w] = {}
      /\ UNCHANGED <<table, expired, now, todo, writes, chosen, batch>>
  BY <1>1, MoveParts DEF TakeNothing, tx
<1>3. TypeOK' /\ OnlyStep(w)
  BY <1>1, <1>2, MoveParts DEF TakeNothing, TypeOK, OnlyStep
<1>4. \A f \in DOMAIN writes[w] :
         /\ StaleClaim(w, f, table[f])' <=> StaleClaim(w, f, table[f])
         /\ SweptRow(w, f)' = SweptRow(w, f)
  BY <1>2 DEF StaleClaim, SweptRow
<1>5. WorkerInv(w)'
  BY <1>1, <1>2, <1>4 DEF WorkerInv
<1> QED
  BY <1>2, <1>3, <1>5 DEF Quiet

\* A transaction that is over, in whichever way.
LEMMA OverHolds ==
    ASSUME NEW w \in Workers, pc'[w] \in {"idle", "publishing"}, DOMAIN writes'[w] = {},
           now'[w] \subseteq expired', chosen'[w] = {}
    PROVE  WorkerInv(w)'
<1>1. IsFiniteSet({}) /\ Cardinality({}) = 0
  BY FS_EmptySet
<1> QED
  BY <1>1, ClaimAssumption DEF WorkerInv

LEMMA RollbackIsQuiet ==
    ASSUME ClaimInv, NEW w \in Workers, Rollback(w)
    PROVE  Quiet(w)
<1>1. TypeOK
  BY InvParts
<1>2. /\ pc' \in [Workers -> {"idle", "begin", "sweepFailed", "sweepPending", "select",
                              "commit", "publishing"}]
      /\ pc'[w] = "idle" /\ \A v \in Workers \ {w} : pc'[v] = pc[v]
      /\ batch' \in [Workers -> SUBSET Claims]
      /\ batch'[w] = {} /\ \A v \in Workers \ {w} : batch'[v] = batch[v]
      /\ UNCHANGED <<table, expired>>
  BY <1>1 DEF Rollback, TypeOK
<1>3. WorkerInv(w)'
  BY <1>1, <1>2, EndParts, OverHolds DEF Rollback
<1>4. TypeOK' /\ OnlyStep(w)
  <2>1. \A v \in Workers :
           /\ DOMAIN writes'[v] \subseteq Events
           /\ \A f \in DOMAIN writes'[v] : writes'[v][f] \in Row
    BY <1>1, EndParts DEF Rollback, TypeOK
  <2> QED
    BY <1>1, <1>2, <2>1, EndParts DEF Rollback, TypeOK, OnlyStep
<1> QED
  BY <1>1, <1>2, <1>3, <1>4, EndParts DEF Rollback, Quiet

-----------------------------------------------------------------------------
(* Steps that change committed rows.                                       *)

(***************************************************************************)
(* The status of one row changes outside of the claim transactions, as     *)
(* Insert, OperatorRetry and publishOne do it.                             *)
(***************************************************************************)
StatusStep(e) ==
    /\ \E s \in {"PENDING", "PUBLISHED", "FAILED"} : table' = [table EXCEPT ![e].status = s]
    /\ Unlocked(e) /\ table[e].status # "PUBLISHED"
    /\ table[e].status = "ABSENT" => \A f \in Events : IsEarlier(f, e) => table[f].status # "ABSENT"
    /\ UNCHANGED <<expired, tx>>
    /\ batch' \in [Workers -> SUBSET Claims] /\ \A w \in Workers : batch'[w] \subseteq batch[w]
    /\ pc' \in [Workers -> {"idle", "begin", "sweepFailed", "sweepPending", "select", "commit",
                            "publishing"}]
    /\ \A w \in Workers : pc'[w] = pc[w] \/ {pc[w], pc'[w]} = {"idle", "publishing"}

LEMMA StatusStepKeeps ==
    ASSUME ClaimInv, NEW e \in Events, StatusStep(e)
    PROVE  ClaimInv'
<1>1. /\ TypeOK /\ NoGaps /\ OneHolder /\ TokensIssued /\ ClaimsAreExclusive
      /\ \A w \in Workers : WorkerInv(w)
  BY InvParts
<1>2. PICK s \in {"PENDING", "PUBLISHED", "FAILED"} : table' = [table EXCEPT ![e].status = s]
  BY DEF StatusStep
<1>3. /\ table' \in [Events -> Row]
      /\ \A f \in Events : table'[f].attempts = table[f].attempts /\ table[f].attempts \in Nat
      /\ \A f \in Events \ {e} : table'[f] = table[f]
      /\ table'[e].status = s
  BY <1>1, <1>2 DEF TypeOK, Row
<1>4. TypeOK'
  BY <1>1, <1>3 DEF StatusStep, TypeOK, tx
<1>5. NoGaps'
  BY <1>1, <1>3 DEF StatusStep, NoGaps, IsEarlier
<1>6. OneHolder'
  BY <1>1 DEF StatusStep, OneHolder, tx
<1>7. \A f \in Events : table[f].status = "PUBLISHED" => table'[f].status = "PUBLISHED"
  BY <1>3 DEF StatusStep
<1>8. ASSUME NEW w \in Workers PROVE WorkerInv(w)'
  <2>1. CASE pc'[w] = pc[w]
    <3>1. \A f \in DOMAIN writes[w] : f \in Events /\ f # e
      BY <1>1 DEF StatusStep, Unlocked, TypeOK
    <3> QED
      BY <1>1, <1>3, <1>7, <2>1, <3>1, Undisturbed DEF StatusStep, tx
  <2>2. CASE {pc[w], pc'[w]} = {"idle", "publishing"}
    <3>1. pc[w] \in {"idle", "publishing"} /\ pc'[w] \in {"idle", "publishing"}
      BY <2>2
    <3>2. DOMAIN writes'[w] = {} /\ chosen'[w] = {} /\ now'[w] \subseteq expired'
      BY <1>1, <3>1 DEF WorkerInv, StatusStep, tx
    <3> QED
      BY <3>1, <3>2, OverHolds
  <2> QED
    BY <2>1, <2>2 DEF StatusStep
<1>9. TokensIssued'
  BY <1>1, <1>3 DEF StatusStep, TokensIssued, TypeOK, Claims
<1>10. ClaimsAreExclusive'
  <2>1. \A v, w \in Workers : v # w => batch'[v] \cap batch'[w] = {}
    BY <1>1 DEF StatusStep, ClaimsAreExclusive
  <2>2. ASSUME NEW f \in Events, NEW g \in Events,
               table'[f].attempts > 0, g[1] = f[1], g[2] < f[2]
        PROVE  table'[g].status = "PUBLISHED"
    BY <1>1, <1>3, <1>7, <2>2 DEF ClaimsAreExclusive
  <2> QED
    BY <2>1, <2>2 DEF ClaimsAreExclusive
<1> QED
  BY <1>4, <1>5, <1>6, <1>8, <1>9, <1>10, InvPartsNext

\* A row in a transaction is pending or processing.
LEMMA LockedStatus ==
    ASSUME ClaimInv, NEW w \in Workers, NEW e \in DOMAIN writes[w]
    PROVE  e \in Events /\ table[e].status \in {"PENDING", "PROCESSING"}
<1>1. TypeOK /\ WorkerInv(w) /\ e \in Events
  BY InvParts DEF TypeOK
<1>2. table[e] \in Row
  BY <1>1 DEF TypeOK
<1> QED
  BY <1>1, <1>2 DEF WorkerInv, SweptRow, StaleClaim, Row

LEMMA InsertKeeps ==
    ASSUME ClaimInv, NEW e \in Events, Insert(e)
    PROVE  ClaimInv'
<1>1. TypeOK
  BY InvParts
<1>2. Unlocked(e)
  BY LockedStatus DEF Insert, Unlocked
<1>3. StatusStep(e)
  BY <1>1, <1>2 DEF Insert, StatusStep, IsEarlier, TypeOK
<1> QED
  BY <1>3, StatusStepKeeps

LEMMA OperatorRetryKeeps ==
    ASSUME ClaimInv, NEW e \in Events, OperatorRetry(e)
    PROVE  ClaimInv'
<1>1. TypeOK
  BY InvParts
<1>2. StatusStep(e)
  BY <1>1 DEF OperatorRetry, StatusStep, TypeOK
<1> QED
  BY <1>2, StatusStepKeeps

LEMMA PublishOneKeeps ==
    ASSUME ClaimInv, NEW w \in Workers, NEW c \in batch[w], PublishOne(w, c)
    PROVE  ClaimInv'
<1>1. /\ TypeOK /\ NoGaps /\ OneHolder /\ TokensIssued /\ ClaimsAreExclusive
      /\ \A v \in Workers : WorkerInv(v)
  BY InvParts
<1>2. c \in Claims /\ c.event \in Events
  BY <1>1 DEF TypeOK, Claims
<1>3. /\ batch' \in [Workers -> SUBSET Claims] /\ \A v \in Workers : batch'[v] \subseteq batch[v]
      /\ pc' \in [Workers -> {"idle", "begin", "sweepFailed", "sweepPending", "select", "commit",
                              "publishing"}]
      /\ \A v \in Workers : pc'[v] = pc[v] \/ {pc[v], pc'[v]} = {"idle", "publishing"}
      /\ UNCHANGED <<expired, tx>> /\ Unlocked(c.event)
  BY <1>1 DEF PublishOne, TypeOK
<1>4. PICK status \in {"PUBLISHED", "FAILED", "PENDING"} : table' = Settled(c, status)
  BY DEF PublishOne
<1>5. CASE table[c.event] = [status |-> "PROCESSING", attempts |-> c.attempt]
  <2>1. table' = [table EXCEPT ![c.event].status = status]
    BY <1>4, <1>5 DEF Settled
  <2>2. table[c.event].status = "PROCESSING"
    BY <1>5
  <2>3. StatusStep(c.event)
    BY <1>3, <1>4, <2>1, <2>2 DEF StatusStep
  <2> QED
    BY <1>2, <2>3, StatusStepKeeps
<1>6. CASE table[c.event] # [status |-> "PROCESSING", attempts |-> c.attempt]
  <2>1. table' = table
    BY <1>4, <1>6 DEF Settled
  <2>2. TypeOK' /\ NoGaps' /\ OneHolder'
    BY <1>1, <1>3, <2>1 DEF TypeOK, NoGaps, OneHolder, tx
  <2>3. ASSUME NEW v \in Workers PROVE WorkerInv(v)'
    <3>1. CASE pc'[v] = pc[v]
      BY <1>1, <1>3, <2>1, <3>1, Undisturbed DEF tx
    <3>2. CASE {pc[v], pc'[v]} = {"idle", "publishing"}
      <4>1. pc[v] \in {"idle", "publishing"} /\ pc'[v] \in {"idle", "publishing"}
        BY <3>2
      <4>2. DOMAIN writes'[v] = {} /\ chosen'[v] = {} /\ now'[v] \subseteq expired'
        BY <1>1, <1>3, <4>1 DEF WorkerInv, tx
      <4> QED
        BY <4>1, <4>2, OverHolds
    <3> QED
      BY <1>3, <3>1, <3>2
  <2>4. TokensIssued' /\ ClaimsAreExclusive'
    BY <1>1, <1>3, <2>1 DEF TokensIssued, ClaimsAreExclusive
  <2> QED
    BY <2>2, <2>3, <2>4, InvPartsNext
<1> QED
  BY <1>5, <1>6

LEMMA ExpireKeeps ==
    ASSUME ClaimInv, NEW c \in Claims, Expire(c)
    PROVE  ClaimInv'
<1>1. /\ TypeOK /\ NoGaps /\ OneHolder /\ TokensIssued /\ ClaimsAreExclusive
      /\ \A v \in Workers : WorkerInv(v)
  BY InvParts
<1>2. TypeOK' /\ NoGaps' /\ OneHolder' /\ TokensIssued' /\ ClaimsAreExclusive'
  BY <1>1 DEF Expire, tx, TypeOK, NoGaps, OneHolder, TokensIssued, ClaimsAreExclusive
<1>3. \A v \in Workers : WorkerInv(v)'
  BY <1>1, Undisturbed DEF Expire, tx
<1> QED
  BY <1>2, <1>3, InvPartsNext

(***************************************************************************)
(* What COMMIT makes of a row: a chosen one is claimed, one that was swept *)
(* only was a stale claim, any other is as it was.                         *)
(***************************************************************************)
LEMMA CommittedRow ==
    ASSUME ClaimInv, NEW w \in Workers, pc[w] = "commit", NEW e \in Events
    PROVE  /\ e \in chosen[w] => Seen(w)[e] = ClaimedRow(e)
           /\ e \in DOMAIN writes[w] \ chosen[w] =>
                 Seen(w)[e] = SweptRow(w, e) /\ StaleClaim(w, e, table[e])
           /\ e \notin DOMAIN writes[w] => Seen(w)[e] = table[e]
<1>1. TypeOK /\ WorkerInv(w)
  BY InvParts
<1> QED
  BY <1>1, RowParts DEF WorkerInv

\* The transaction of w commits, with the batch or without it.
Committed(w) ==
    /\ pc[w] = "commit" /\ pc'[w] \in {"idle", "publishing"}
    /\ pc' \in [Workers -> {"idle", "begin", "sweepFailed", "sweepPending", "select", "commit",
                            "publishing"}]
    /\ \A v \in Workers \ {w} : pc'[v] = pc[v] /\ batch'[v] = batch[v]
    /\ table' = Seen(w)
    /\ \/ batch'[w] = {[event |-> e, attempt |-> Seen(w)[e].attempts] : e \in chosen[w]}
       \/ batch'[w] = batch[w]
    /\ DOMAIN batch' = Workers /\ batch' = [v \in Workers |-> batch'[v]]
    /\ EndTransaction(w)
    /\ UNCHANGED expired

LEMMA CommitIsCommitted ==
    ASSUME ClaimInv, NEW w \in Workers, Commit(w) \/ CommitUnacknowledged(w)
    PROVE  Committed(w)
<1>1. TypeOK
  BY InvParts
<1>2. CASE Commit(w)
  <2>1. Move(w, "commit", IF chosen[w] = {} THEN "idle" ELSE "publishing")
    BY <1>2 DEF Commit
  <2>2. /\ pc[w] = "commit" /\ pc'[w] \in {"idle", "publishing"}
        /\ pc' \in [Workers -> {"idle", "begin", "sweepFailed", "sweepPending", "select",
                                "commit", "publishing"}]
        /\ \A v \in Workers \ {w} : pc'[v] = pc[v]
    BY <1>1, <2>1 DEF Move, TypeOK
  <2> QED
    BY <1>1, <1>2, <2>2 DEF Commit, Committed, TypeOK
<1>3. CASE CommitUnacknowledged(w)
  <2>1. /\ pc[w] = "commit" /\ pc'[w] = "idle"
        /\ pc' \in [Workers -> {"idle", "begin", "sweepFailed", "sweepPending", "select",
                                "commit", "publishing"}]
        /\ \A v \in Workers \ {w} : pc'[v] = pc[v]
    BY <1>1, <1>3, MoveParts DEF CommitUnacknowledged
  <2> QED
    BY <1>1, <1>3, <2>1 DEF CommitUnacknowledged, Committed, TypeOK
<1> QED
  BY <1>2, <1>3

LEMMA CommittedKeeps ==
    ASSUME ClaimInv, NEW w \in Workers, Committed(w)
    PROVE  ClaimInv'
<1>1. /\ TypeOK /\ NoGaps /\ OneHolder /\ TokensIssued /\ ClaimsAreExclusive
      /\ \A v \in Workers : WorkerInv(v)
  BY InvParts
<1>2. /\ pc[w] = "commit" /\ table' = Seen(w) /\ EndTransaction(w)
      /\ UNCHANGED expired
      /\ chosen[w] \subseteq DOMAIN writes[w] /\ DOMAIN writes[w] \subseteq Events
      /\ \A e \in chosen[w] : IsTurnOf(e)
  BY <1>1 DEF Committed, WorkerInv, TypeOK
<1>3. \A e \in Events : table[e] \in Row /\ table'[e] \in Row
  BY <1>1, <1>2, RowParts
<1>4. \A e \in Events :
         /\ e \in chosen[w] => table'[e].attempts = table[e].attempts + 1
         /\ e \notin chosen[w] => table'[e].attempts = table[e].attempts
         /\ table[e].attempts \in Nat
  <2> TAKE e \in Events
  <2>1. CASE e \in chosen[w]
    <3>1. table'[e] = ClaimedRow(e)
      BY <1>2, <2>1, CommittedRow
    <3> QED
      BY <1>1, <2>1, <3>1, RowParts DEF ClaimedRow
  <2>2. CASE e \in DOMAIN writes[w] \ chosen[w]
    <3>1. table'[e] = SweptRow(w, e)
      BY <1>2, <2>2, CommittedRow
    <3> QED
      BY <1>1, <2>2, <3>1, RowParts
  <2>3. CASE e \notin DOMAIN writes[w]
    <3>1. table'[e] = table[e]
      BY <1>2, <2>3, CommittedRow
    <3> QED
      BY <1>1, <1>2, <2>3, <3>1, RowParts
  <2> QED
    BY <1>2, <2>1, <2>2, <2>3
<1>5. \A e \in Events :
         /\ e \notin DOMAIN writes[w] => table'[e] = table[e]
         /\ table[e].status = "PUBLISHED" => table'[e].status = "PUBLISHED"
         /\ table'[e].status = "ABSENT" <=> table[e].status = "ABSENT"
  <2> TAKE e \in Events
  <2>1. CASE e \notin DOMAIN writes[w]
    BY <1>2, <2>1, CommittedRow
  <2>2. CASE e \in chosen[w]
    <3>1. table'[e] = ClaimedRow(e) /\ e \in DOMAIN writes[w]
      BY <1>2, <2>2, CommittedRow
    <3>2. table[e].status \in {"PENDING", "PROCESSING"}
      BY <3>1, LockedStatus
    <3> QED
      BY <3>1, <3>2 DEF ClaimedRow
  <2>3. CASE e \in DOMAIN writes[w] \ chosen[w]
    <3>1. table'[e] = SweptRow(w, e) /\ StaleClaim(w, e, table[e])
      BY <1>2, <2>3, CommittedRow
    <3> QED
      BY <1>3, <2>3, <3>1 DEF SweptRow, StaleClaim, Row
  <2> QED
    BY <1>2, <2>1, <2>2, <2>3
<1>6. /\ batch' \in [Workers -> SUBSET Claims]
      /\ \A v \in Workers : \A c \in batch'[v] :
            \/ c \in batch[v]
            \/ /\ v = w /\ c.event \in chosen[w]
               /\ c.attempt = table[c.event].attempts + 1
  <2>1. \A e \in chosen[w] :
           /\ [event |-> e, attempt |-> Seen(w)[e].attempts] \in Claims
           /\ Seen(w)[e].attempts = table[e].attempts + 1
    BY <1>2, <1>3, <1>4 DEF Claims, Row
  <2>2. batch'[w] \subseteq Claims
    BY <1>1, <2>1 DEF Committed, TypeOK
  <2>3. \A v \in Workers \ {w} : batch'[v] = batch[v] /\ batch[v] \subseteq Claims
    BY <1>1 DEF Committed, TypeOK
  <2>4. batch' \in [Workers -> SUBSET Claims]
    BY <2>2, <2>3 DEF Committed
  <2>5. \A c \in batch'[w] :
           c \in batch[w] \/ (c.event \in chosen[w] /\ c.attempt = table[c.event].attempts + 1)
    BY <2>1 DEF Committed
  <2> QED
    BY <2>3, <2>4, <2>5
<1>7. TypeOK'
  <2>1. table' \in [Events -> Row]
    BY <1>2, <1>3 DEF Seen
  <2>2. \A v \in Workers :
           /\ DOMAIN writes'[v] \subseteq Events
           /\ \A f \in DOMAIN writes'[v] : writes'[v][f] \in Row
    BY <1>1, <1>2, EndParts DEF TypeOK
  <2> QED
    BY <1>1, <1>2, <1>6, <2>1, <2>2, EndParts DEF TypeOK, Committed
<1>8. NoGaps'
  BY <1>1, <1>5 DEF NoGaps
<1>9. OneHolder'
  BY <1>1, <1>2, EndParts DEF OneHolder
<1>10. ASSUME NEW v \in Workers PROVE WorkerInv(v)'
  <2>1. CASE v = w
    BY <1>1, <1>2, <2>1, EndParts, OverHolds DEF Committed
  <2>2. CASE v # w
    <3>1. \A e \in DOMAIN writes[v] : e \in Events /\ e \notin DOMAIN writes[w]
      BY <1>1, <2>2 DEF OneHolder, TypeOK
    <3>2. /\ pc'[v] = pc[v] /\ now'[v] = now[v] /\ todo'[v] = todo[v]
          /\ writes'[v] = writes[v] /\ chosen'[v] = chosen[v]
      BY <1>1, <1>2, <2>2, EndParts DEF Committed
    <3> QED
      BY <1>1, <1>2, <1>5, <3>1, <3>2, Undisturbed
  <2> QED
    BY <2>1, <2>2
<1>11. TokensIssued'
  <2>1. ASSUME NEW v \in Workers, NEW c \in batch'[v] PROVE c.attempt <= table'[c.event].attempts
    <3>1. c.event \in Events /\ c.attempt \in Nat
      BY <1>6 DEF Claims
    <3>2. CASE c \in batch[v]
      <4>1. c.attempt <= table[c.event].attempts
        BY <1>1, <3>2 DEF TokensIssued
      <4> QED
        BY <1>4, <3>1, <4>1
    <3>3. CASE c.event \in chosen[w] /\ c.attempt = table[c.event].attempts + 1
      BY <1>4, <3>1, <3>3
    <3> QED
      BY <1>6, <3>2, <3>3
  <2> QED
    BY <2>1 DEF TokensIssued
<1>12. ClaimsAreExclusive'
  <2>1. ASSUME NEW u \in Workers, NEW v \in Workers, u # v, NEW c \in batch'[u] \cap batch'[v]
        PROVE  FALSE
    <3>1. c.event \in Events /\ c.attempt \in Nat
      BY <1>6, <2>1 DEF Claims
    <3>2. \A x \in Workers : c \in batch[x] => c.attempt <= table[c.event].attempts
      BY <1>1 DEF TokensIssued
    <3>3. c \notin batch[u] \/ c \notin batch[v]
      BY <1>1, <2>1 DEF ClaimsAreExclusive
    <3>4. \/ c.attempt = table[c.event].attempts + 1 /\ c \in batch[u]
          \/ c.attempt = table[c.event].attempts + 1 /\ c \in batch[v]
      BY <1>6, <2>1, <3>3
    <3> QED
      BY <1>4, <3>1, <3>2, <3>4
  <2>2. ASSUME NEW e \in Events, NEW f \in Events,
               table'[e].attempts > 0, f[1] = e[1], f[2] < e[2]
        PROVE  table'[f].status = "PUBLISHED"
    <3>1. table[f].status = "PUBLISHED"
      <4>1. CASE e \in chosen[w]
        BY <1>2, <2>2, <4>1 DEF IsTurnOf, IsEarlier
      <4>2. CASE e \notin chosen[w]
        BY <1>1, <1>4, <2>2, <4>2 DEF ClaimsAreExclusive
      <4> QED
        BY <4>1, <4>2
    <3> QED
      BY <1>5, <3>1
  <2> QED
    BY <2>1, <2>2 DEF ClaimsAreExclusive
<1> QED
  BY <1>7, <1>8, <1>9, <1>10, <1>11, <1>12, InvPartsNext

-----------------------------------------------------------------------------
(* The invariant.                                                          *)

LEMMA InitHolds == Init => ClaimInv
<1> SUFFICES ASSUME Init PROVE ClaimInv
  OBVIOUS
<1>1. TypeOK
  BY DEF Init, TypeOK, Row, Nothing
<1>2. IsFiniteSet({}) /\ Cardinality({}) = 0
  BY FS_EmptySet
<1>3. \A w \in Workers : WorkerInv(w)
  BY <1>2, ClaimAssumption DEF Init, Nothing, WorkerInv
<1>4. NoGaps /\ OneHolder /\ TokensIssued /\ ClaimsAreExclusive
  BY DEF Init, NoGaps, OneHolder, TokensIssued, ClaimsAreExclusive, Nothing
<1> QED
  BY <1>1, <1>3, <1>4, InvParts

LEMMA NextHolds == ClaimInv /\ [Next]_vars => ClaimInv'
<1> SUFFICES ASSUME ClaimInv, [Next]_vars PROVE ClaimInv'
  OBVIOUS
<1>1. CASE UNCHANGED vars
  <2>1. \A w \in Workers : WorkerInv(w)'
    BY <1>1, InvParts, Undisturbed DEF vars, tx
  <2>2. (TypeOK /\ NoGaps /\ OneHolder /\ TokensIssued /\ ClaimsAreExclusive)'
    BY <1>1, InvParts DEF vars, tx, TypeOK, NoGaps, OneHolder, TokensIssued, ClaimsAreExclusive
  <2> QED
    BY <2>1, <2>2, InvPartsNext
<1>2. ASSUME NEW w \in Workers, Begin(w) \/ Statement(w) \/ CommitUnacknowledged(w) \/ Rollback(w)
      PROVE  ClaimInv'
  <2>1. CASE Commit(w) \/ CommitUnacknowledged(w)
    BY <2>1, CommitIsCommitted, CommittedKeeps
  <2>2. CASE ~(Commit(w) \/ CommitUnacknowledged(w))
    <3>1. Quiet(w)
      BY <1>2, <2>2, BeginIsQuiet, SweepStartIsQuiet, SelectIsQuiet, SweepRowIsQuiet,
         SelectRowIsQuiet, TakeIsQuiet, TakeNothingIsQuiet, RollbackIsQuiet DEF Statement
    <3> QED
      BY <3>1, QuietKeeps
  <2> QED
    BY <2>1, <2>2
<1>3. ASSUME NEW e \in Events, NEW n \in 1 .. (MaxAttempts + OperatorCap),
             Expire([event |-> e, attempt |-> n])
      PROVE  ClaimInv'
  <2>1. [event |-> e, attempt |-> n] \in Claims
    BY ClaimAssumption DEF Claims
  <2> QED
    BY <1>3, <2>1, ExpireKeeps
<1> QED
  BY <1>1, <1>2, <1>3, PublishOneKeeps, InsertKeeps, OperatorRetryKeeps DEF Next

(***************************************************************************)
(* The rows and locks that the arguments above rely on are as they say.    *)
(***************************************************************************)
THEOREM Inductive == Spec => []ClaimInv
<1>1. Init => ClaimInv
  BY InitHolds
<1>2. ClaimInv /\ [Next]_vars => ClaimInv'
  BY NextHolds
<1> QED
  BY <1>1, <1>2, PTL DEF Spec

(***************************************************************************)
(* No two workers ever hold the same fencing token, and no event is        *)
(* claimed before the earlier ones of its aggregate are PUBLISHED.         *)
(***************************************************************************)
THEOREM ExclusiveClaims == Spec => []ClaimsAreExclusive
<1>1. ClaimInv => ClaimsAreExclusive
  BY DEF ClaimInv
<1> QED
  BY <1>1, Inductive, PTL

-----------------------------------------------------------------------------
(* Who changes the table.                                                  *)

LEMMA TableSteps ==
    ASSUME ClaimInv, [Next]_vars, table' # table
    PROVE  \/ \E w \in Workers : Commit(w) \/ CommitUnacknowledged(w)
           \/ \E w \in Workers : \E c \in batch[w] : PublishOne(w, c)
           \/ \E e \in Events : Insert(e) \/ OperatorRetry(e)
<1>1. ASSUME NEW w \in Workers, Begin(w) \/ Statement(w) \/ Rollback(w), ~Commit(w)
      PROVE  FALSE
  <2>1. Quiet(w)
    BY <1>1, BeginIsQuiet, SweepStartIsQuiet, SelectIsQuiet, SweepRowIsQuiet,
       SelectRowIsQuiet, TakeIsQuiet, TakeNothingIsQuiet, RollbackIsQuiet DEF Statement
  <2> QED
    BY <2>1 DEF Quiet
<1>2. Next /\ \A c \in [event : Events, attempt : 1 .. (MaxAttempts + OperatorCap)] : ~Expire(c)
  BY DEF vars, Expire
<1> QED
  BY <1>1, <1>2 DEF Next

(***************************************************************************)
(* A row leaves a worker when its lease has expired or when that worker    *)
(* settles its own claim, in no other way.                                 *)
(***************************************************************************)
LEMMA SweptStep ==
    ASSUME ClaimInv, [Next]_vars, NEW e \in Events, table[e].status = "PROCESSING",
           [event |-> e, attempt |-> table[e].attempts] \notin expired, table'[e] # table[e]
    PROVE  \E w \in Workers : pc[w] = "publishing"
              /\ [event |-> e, attempt |-> table[e].attempts] \in batch[w] \ batch'[w]
<1>1. TypeOK /\ \A w \in Workers : WorkerInv(w)
  BY InvParts
<1>2. ASSUME NEW w \in Workers, Commit(w) \/ CommitUnacknowledged(w) PROVE FALSE
  <2>1. table' = Seen(w) /\ pc[w] = "commit"
    BY <1>2, CommitIsCommitted DEF Committed
  <2>2. e \in DOMAIN writes[w]
    BY <2>1, CommittedRow
  <2>3. StaleClaim(w, e, table[e])
    BY <1>1, <2>2 DEF WorkerInv, SweptRow
  <2> QED
    BY <1>1, <2>3 DEF StaleClaim, WorkerInv
<1>3. ASSUME NEW f \in Events, Insert(f) \/ OperatorRetry(f) PROVE FALSE
  <2>1. table[f].status \in {"ABSENT", "FAILED"} /\ table' = [table EXCEPT ![f].status = "PENDING"]
    BY <1>3 DEF Insert, OperatorRetry
  <2> QED
    BY <1>1, <2>1 DEF TypeOK
<1>4. ASSUME NEW w \in Workers, NEW c \in batch[w], PublishOne(w, c)
      PROVE  pc[w] = "publishing"
                /\ [event |-> e, attempt |-> table[e].attempts] \in batch[w] \ batch'[w]
  <2>1. c \in Claims
    BY <1>1 DEF TypeOK
  <2>2. PICK status : table' = Settled(c, status)
    BY <1>4 DEF PublishOne
  <2>3. e = c.event /\ table[e].attempts = c.attempt
    BY <1>1, <2>2 DEF Settled, TypeOK
  <2>4. [event |-> e, attempt |-> table[e].attempts] = c
    BY <2>1, <2>3 DEF Claims
  <2> QED
    BY <1>1, <1>4, <2>4 DEF PublishOne, TypeOK
<1> QED
  BY <1>2, <1>3, <1>4, TableSteps

(***************************************************************************)
(* No sweep takes a row from a worker whose lease has not expired,         *)
(* whichever versions of the row it has seen and waited for.               *)
(***************************************************************************)
THEOREM SweepsAreLate == Spec => SweptIsExpired
<1>1. ClaimInv /\ [Next]_vars =>
         \A e \in Events :
            (table[e].status = "PROCESSING" /\ [event |-> e, attempt |-> table[e].attempts] \notin expired
                /\ table'[e] # table[e])
                   => \E w \in Workers : pc[w] = "publishing"
                         /\ [event |-> e, attempt |-> table[e].attempts] \in batch[w] \ batch'[w]
  BY SweptStep
<1> QED
  BY <1>1, Inductive, PTL DEF Spec, SweptIsExpired

-----------------------------------------------------------------------------
(* The claim is atomic.                                                    *)

LEMMA CommitsAreCommits ==
    ASSUME ClaimInv, [Next]_vars, NEW w \in Workers, Commits(w)
    PROVE  Commit(w) \/ CommitUnacknowledged(w)
<1>1. TypeOK /\ table' # table /\ pc[w] = "commit" /\ pc'[w] # "commit"
  BY InvParts DEF Commits
<1>2. ASSUME NEW v \in Workers, Commit(v) \/ CommitUnacknowledged(v) PROVE v = w
  BY <1>1, <1>2, CommitIsCommitted DEF Committed
<1>3. ASSUME NEW v \in Workers, NEW c \in batch[v], PublishOne(v, c) PROVE FALSE
  BY <1>1, <1>3 DEF PublishOne, TypeOK
<1>4. ASSUME NEW e \in Events, Insert(e) \/ OperatorRetry(e) PROVE FALSE
  BY <1>1, <1>4 DEF Insert, OperatorRetry
<1> QED
  BY <1>1, <1>2, <1>3, <1>4, TableSteps

\* The sweeps of OutboxRelay, when w commits, are those of its transaction.
LEMMA SweptIsSweptRow ==
    ASSUME ClaimInv, NEW w \in Workers, NEW e \in Events
    PROVE  /\ e \in DOMAIN writes[w] => Relay(w)!Swept(e) = SweptRow(w, e).status
           /\ e \notin DOMAIN writes[w] => Relay(w)!Swept(e) = table[e].status
           /\ Relay(w)!StaleClaim(e) <=> e \in DOMAIN writes[w] /\ table[e].status = "PROCESSING"
<1>1. TypeOK /\ WorkerInv(w) /\ table[e] \in Row
  BY InvParts DEF TypeOK
<1>2. Relay(w)!StaleClaim(e) <=> e \in DOMAIN writes[w] /\ table[e].status = "PROCESSING"
  BY DEF Relay!StaleClaim, LockedAt
<1>3. e \in DOMAIN writes[w] =>
         (table[e].status = "PROCESSING" <=> StaleClaim(w, e, table[e]))
  BY <1>1 DEF WorkerInv, SweptRow, StaleClaim
<1> QED
  BY <1>1, <1>2, <1>3 DEF Relay!Swept, SweptRow, Row

\* What the transaction has chosen, OutboxRelay may choose.
LEMMA ChosenIsClaimable ==
    ASSUME ClaimInv, NEW w \in Workers, NEW e \in chosen[w]
    PROVE  e \in Events /\ Relay(w)!Claimable(e)
<1>1. TypeOK /\ WorkerInv(w)
  BY InvParts
<1>2. e \in Events /\ e \in DOMAIN writes[w] /\ SweptRow(w, e).status = "PENDING" /\ IsTurnOf(e)
  BY <1>1 DEF WorkerInv, TypeOK
<1>3. Relay(w)!Swept(e) = "PENDING"
  BY <1>2, SweptIsSweptRow
<1>4. ASSUME NEW f \in Events, IsEarlier(f, e) PROVE Relay(w)!Swept(f) = "PUBLISHED"
  <2>1. table[f].status = "PUBLISHED"
    BY <1>2, <1>4 DEF IsTurnOf
  <2>2. f \notin DOMAIN writes[w]
    BY <2>1, LockedStatus
  <2> QED
    BY <2>1, <2>2, SweptIsSweptRow
<1> QED
  BY <1>2, <1>3, <1>4 DEF Relay!Claimable, Relay!Earlier, Relay!Events, Events, IsEarlier

\* COMMIT writes what ClaimRows writes.
LEMMA CommittedIsClaimRows ==
    ASSUME ClaimInv, NEW w \in Workers, Committed(w), NEW mine, mine = chosen[w]
    PROVE  Relay(w)!ClaimRows(mine)
<1>1. /\ TypeOK /\ WorkerInv(w) /\ pc[w] = "commit" /\ table' = Seen(w) /\ DOMAIN writes'[w] = {}
      /\ mine = chosen[w]
  BY InvParts, EndParts DEF Committed
<1>2. ASSUME NEW e \in Events
      PROVE  /\ table'[e].status = IF e \in mine THEN "PROCESSING" ELSE Relay(w)!Swept(e)
             /\ table'[e].attempts = IF e \in mine THEN table[e].attempts + 1
                                                       ELSE table[e].attempts
             /\ LockedAt(w, e)' = CASE e \in mine -> "fresh"
                                    [] e \notin mine /\ Relay(w)!StaleClaim(e) -> "null"
                                    [] OTHER -> LockedAt(w, e)
  <2>1. LockedAt(w, e)' = IF table'[e].status = "PROCESSING" THEN "fresh" ELSE "null"
    BY <1>1 DEF LockedAt
  <2>2. CASE e \in mine
    <3>1. table'[e] = ClaimedRow(e)
      BY <1>1, <2>2, CommittedRow
    <3> QED
      BY <2>1, <2>2, <3>1 DEF ClaimedRow
  <2>3. CASE e \in DOMAIN writes[w] \ mine
    <3>1. table'[e] = SweptRow(w, e) /\ StaleClaim(w, e, table[e])
      BY <1>1, <2>3, CommittedRow
    <3>2. Relay(w)!Swept(e) = SweptRow(w, e).status /\ Relay(w)!StaleClaim(e)
      BY <2>3, <3>1, SweptIsSweptRow DEF StaleClaim
    <3>3. SweptRow(w, e).attempts = table[e].attempts /\ SweptRow(w, e).status # "PROCESSING"
      BY <1>1, <3>1, RowParts DEF SweptRow, Row
    <3> QED
      BY <2>1, <2>3, <3>1, <3>2, <3>3
  <2>4. CASE e \notin DOMAIN writes[w]
    <3>1. table'[e] = table[e] /\ e \notin mine
      BY <1>1, <2>4, CommittedRow DEF WorkerInv
    <3>2. Relay(w)!Swept(e) = table[e].status /\ ~Relay(w)!StaleClaim(e)
      BY <2>4, SweptIsSweptRow
    <3> QED
      BY <2>1, <2>4, <3>1, <3>2 DEF LockedAt
  <2> QED
    BY <2>2, <2>3, <2>4
<1> QED
  BY <1>2 DEF Relay!ClaimRows, Relay!Events, Events

(***************************************************************************)
(* The step of OutboxRelay: its chosen events are those of the SELECT, and *)
(* it skips all others, which were locked or not yet there.                *)
(***************************************************************************)
LEMMA CommitStep ==
    ASSUME ClaimInv, NEW w \in Workers, Commit(w) \/ CommitUnacknowledged(w)
    PROVE  \E skipped \in SUBSET Events :
              Relay(w)!ClaimBatch(w, skipped) \/ Relay(w)!ClaimUnacknowledged(w, skipped)
<1>1. /\ TypeOK /\ WorkerInv(w) /\ Committed(w) /\ pc[w] = "commit"
      /\ Cardinality(chosen[w]) <= BatchSize
  BY InvParts, CommitIsCommitted DEF Committed, WorkerInv
<1>2. PICK mine, skipped : mine = chosen[w] /\ skipped = Events \ chosen[w]
  OBVIOUS
<1>3. Relay(w)!Events = Events
  BY DEF Relay!Events, Events
<1>4. mine \in SUBSET {e \in Relay(w)!Events : Relay(w)!Claimable(e)}
  BY <1>1, <1>2, <1>3, ChosenIsClaimable
<1>5. Relay(w)!IsFirstBatch(mine, {e \in Relay(w)!Events \ skipped : Relay(w)!Claimable(e)})
  <2>1. {e \in Relay(w)!Events \ skipped : Relay(w)!Claimable(e)} = mine
    BY <1>2, <1>3, <1>4
  <2>2. Cardinality(mine) <= BatchSize
    BY <1>1, <1>2
  <2>3. Relay(w)!IsFirstBatch(mine, mine)
    BY <2>2 DEF Relay!IsFirstBatch, Relay!Cardinality, Cardinality
  <2> QED
    BY <2>1, <2>3
<1>6. Relay(w)!ClaimRows(mine)
  BY <1>1, <1>2, CommittedIsClaimRows
<1>7. UNCHANGED Relay(w)!broker
  BY DEF Relay!broker
<1>8. skipped \in SUBSET Events
  BY <1>2
<1> DEFINE phase == [v \in Workers |-> IF pc[v] = "publishing" THEN "relaying" ELSE "idle"]
<1>9. phase[w] = "idle"
  BY <1>1
<1>10. CASE Commit(w)
  <2>1. phase' = [phase EXCEPT ![w] = IF mine = {} THEN "idle" ELSE "relaying"]
    BY <1>1, <1>2, <1>10 DEF Commit, Move, TypeOK
  <2>2. batch' = [batch EXCEPT ![w] =
                     {[event |-> e, attempt |-> [f \in Events |-> table[f].attempts]'[e]] :
                         e \in mine}]
    <3>1. \A e \in mine : [f \in Events |-> table[f].attempts]'[e] = Seen(w)[e].attempts
      BY <1>1, <1>2, <1>10 DEF Commit, TypeOK
    <3> QED
      BY <1>2, <1>10, <3>1 DEF Commit
  <2>3. Relay(w)!ClaimBatch(w, skipped)
    BY <1>4, <1>5, <1>6, <1>7, <1>9, <2>1, <2>2 DEF Relay!ClaimBatch
  <2> QED
    BY <1>8, <2>3
<1>11. CASE CommitUnacknowledged(w)
  <2>1. phase' = phase /\ batch' = batch
    BY <1>1, <1>11 DEF CommitUnacknowledged, Move, TypeOK
  <2>2. Relay(w)!ClaimUnacknowledged(w, skipped)
    BY <1>4, <1>5, <1>6, <1>7, <1>9, <2>1 DEF Relay!ClaimUnacknowledged, Relay!worker
  <2> QED
    BY <1>8, <2>2
<1> QED
  BY <1>10, <1>11

(***************************************************************************)
(* Whatever was committed between the statements of a claim transaction,   *)
(* its COMMIT is one claim of OutboxRelay, which therefore takes the whole *)
(* transaction as one step.                                                *)
(***************************************************************************)
THEOREM ClaimIsAtomic == Spec => CommitIsClaim
<1>1. ClaimInv /\ [Next]_vars =>
         \A w \in Workers : Commits(w) =>
            \E skipped \in SUBSET Events :
               Relay(w)!ClaimBatch(w, skipped) \/ Relay(w)!ClaimUnacknowledged(w, skipped)
  BY CommitStep, CommitsAreCommits
<1> QED
  BY <1>1, Inductive, PTL DEF Spec, CommitIsClaim

=============================================================================
