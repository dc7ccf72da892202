-------------------------- MODULE ApiProcessProofs --------------------------
(***************************************************************************)
(* No request waits for ever for another one's connection, for any number  *)
(* of requests and any size of the pool.                                   *)
(*                                                                         *)
(* The argument: every step that gives a request a connection takes it     *)
(* from the idle ones or opens it, and every way a request ends, the       *)
(* failures included, gives it back or counts it as closed.  So the number *)
(* of the holders changes exactly as open less idle does: if a request     *)
(* waits while nothing is idle and nothing may be opened, another one      *)
(* holds a connection, and whoever holds one waits for PostgreSQL alone.   *)
(***************************************************************************)
EXTENDS ApiProcess, FiniteSetTheorems, TLAPS

-----------------------------------------------------------------------------
(* How many connections are in the hands of requests.                      *)

LEMMA HolderAdded ==
    ASSUME NEW r \in Requests, ApiInv, client[r] # "held", Holders' = Holders \cup {r}
    PROVE  IsFiniteSet(Holders') /\ Cardinality(Holders') = Cardinality(Holders) + 1
<1>1. IsFiniteSet(Holders) /\ r \notin Holders
  BY DEF ApiInv, Holders
<1> QED
  BY <1>1, FS_AddElement

LEMMA HolderRemoved ==
    ASSUME NEW r \in Requests, ApiInv, client[r] = "held", Holders' = Holders \ {r}
    PROVE  /\ IsFiniteSet(Holders') /\ Cardinality(Holders') = Cardinality(Holders) - 1
           /\ Cardinality(Holders) \in Nat \ {0}
<1>1. IsFiniteSet(Holders) /\ r \in Holders
  BY DEF ApiInv, Holders
<1>2. /\ IsFiniteSet(Holders \ {r})
      /\ Cardinality(Holders \ {r}) = Cardinality(Holders) - 1
  BY <1>1, FS_RemoveElement
<1>3. Cardinality(Holders) \in Nat /\ Cardinality(Holders \ {r}) \in Nat
  BY <1>1, <1>2, FS_CardinalityType
<1> QED
  BY <1>2, <1>3

LEMMA Counted ==
    ASSUME ApiInv
    PROVE  /\ Cardinality(Holders) \in Nat /\ PoolSize \in Nat
           /\ open = idle + Cardinality(Holders) /\ open \in 0 .. PoolSize /\ idle \in 0 .. PoolSize
  BY ApiAssumption, FS_CardinalityType DEF ApiInv, TypeOK

\* What a step does to the request r, the only one it changes.
Only(r) ==
    /\ \A q \in Requests \ {r} :
          kind'[q] = kind[q] /\ left'[q] = left[q] /\ client'[q] = client[q] /\ answer'[q] = answer[q]
    /\ kind' \in [Requests -> Kinds \cup {"none"}]
    /\ left' \in [Requests -> Seq({"query", "transaction"})]
    /\ client' \in [Requests -> {"none", "waiting", "held"}]
    /\ answer' \in [Requests -> {"none", "done", "500", "503", "refused"}]
    /\ client'[r] # "none" <=> InProgress(r)'
    /\ kind'[r] # "none"
    /\ UNCHANGED <<process, database>>

\* A step that changes one request keeps the invariant if it counts the connection.
LEMMA OnlyKeeps ==
    ASSUME ApiInv, NEW r \in Requests, Only(r), idle' \in Nat, open' \in Nat,
           \/ client[r] # "held" /\ client'[r] # "held" /\ open' - idle' = open - idle
           \/ client[r] # "held" /\ client'[r] = "held" /\ open' - idle' = open - idle + 1
           \/ client[r] = "held" /\ client'[r] # "held" /\ open' - idle' = open - idle - 1,
           open' <= PoolSize
    PROVE  ApiInv'
<1>1. \A q \in Requests \ {r} : q \in Holders' <=> q \in Holders
  BY DEF Only, Holders
<1>2. /\ IsFiniteSet(Holders')
      /\ open' = idle' + Cardinality(Holders')
      /\ Cardinality(Holders') \in Nat
  <2>1. CASE client[r] # "held" /\ client'[r] # "held" /\ open' - idle' = open - idle
    <3>1. Holders' = Holders
      BY <1>1, <2>1 DEF Holders
    <3> QED
      BY <2>1, <3>1, Counted DEF ApiInv
  <2>2. CASE client[r] # "held" /\ client'[r] = "held" /\ open' - idle' = open - idle + 1
    <3>1. Holders' = Holders \cup {r}
      BY <1>1, <2>2 DEF Holders
    <3>2. IsFiniteSet(Holders') /\ Cardinality(Holders') = Cardinality(Holders) + 1
      BY <2>2, <3>1, HolderAdded
    <3> QED
      BY <2>2, <3>2, Counted
  <2>3. CASE client[r] = "held" /\ client'[r] # "held" /\ open' - idle' = open - idle - 1
    <3>1. Holders' = Holders \ {r}
      BY <1>1, <2>3 DEF Holders
    <3>2. /\ IsFiniteSet(Holders') /\ Cardinality(Holders') = Cardinality(Holders) - 1
          /\ Cardinality(Holders) \in Nat \ {0}
      BY <2>3, <3>1, HolderRemoved
    <3> QED
      BY <2>3, <3>2, Counted
  <2> QED
    BY <2>1, <2>2, <2>3
<1>3. idle' \in 0 .. PoolSize /\ open' \in 0 .. PoolSize
  BY <1>2, ApiAssumption
<1>4. TypeOK'
  BY <1>3 DEF ApiInv, TypeOK, Only
<1>5. \A q \in Requests :
         (client'[q] # "none" <=> InProgress(q)') /\ (kind'[q] = "none" => answer'[q] = "none")
  BY DEF ApiInv, Only, InProgress
<1> QED
  BY <1>2, <1>4, <1>5 DEF ApiInv

-----------------------------------------------------------------------------
(* The steps.                                                              *)

\* A request ends, with whichever answer.
LEMMA AnswersParts ==
    ASSUME TypeOK, NEW r \in Requests, InProgress(r), NEW status \in {"done", "500", "503"},
           Answers(r, status), UNCHANGED <<process, database, kind>>
    PROVE  Only(r) /\ client'[r] = "none"
BY DEF TypeOK, Answers, Only, InProgress

LEMMA FailsParts ==
    ASSUME TypeOK, NEW r \in Requests, InProgress(r), Fails(r), UNCHANGED <<process, database, kind>>
    PROVE  Only(r) /\ client'[r] = "none"
BY AnswersParts DEF Fails

LEMMA DiesKeeps ==
    ASSUME ApiInv, Dies
    PROVE  ApiInv'
<1>1. TypeOK'
  BY ApiAssumption DEF ApiInv, TypeOK, Dies, InProgress
<1>2. Holders' = {} /\ \A r \in Requests : client'[r] = "none"
  BY DEF Dies, Holders
<1>3. IsFiniteSet({}) /\ Cardinality({}) = 0
  BY FS_EmptySet
<1> QED
  BY <1>1, <1>2, <1>3 DEF ApiInv, InProgress, Dies

LEMMA ArriveKeeps ==
    ASSUME ApiInv, NEW r \in Requests, NEW k \in Kinds, Arrive(r, k)
    PROVE  ApiInv'
<1>1. TypeOK /\ kind[r] = "none" /\ client[r] = "none" /\ answer[r] = "none"
  BY DEF ApiInv, Arrive, InProgress
<1>2. Uses[k] \in Seq({"query", "transaction"}) /\ k # "none"
  <2>1. k \in {"ready", "get", "create", "change"}
    BY DEF Uses, Kinds
  <2>2. /\ Uses["ready"] = <<"query">> /\ Uses["get"] = <<"query", "query">>
        /\ Uses["create"] = <<"transaction">>
        /\ Uses["change"] = <<"query", "query", "transaction">>
    BY DEF Uses
  <2>3. /\ <<"query">> \in Seq({"query", "transaction"})
        /\ <<"query", "query">> \in Seq({"query", "transaction"})
        /\ <<"transaction">> \in Seq({"query", "transaction"})
        /\ <<"query", "query", "transaction">> \in Seq({"query", "transaction"})
    OBVIOUS
  <2> QED
    BY <2>1, <2>2, <2>3
<1>3. Only(r)
  BY <1>1, <1>2 DEF Arrive, TypeOK, Only, InProgress
<1>4. client'[r] # "held" /\ UNCHANGED <<idle, open>>
  BY <1>1 DEF Arrive, TypeOK
<1> QED
  BY <1>1, <1>3, <1>4, Counted, OnlyKeeps

LEMMA AcquireKeeps ==
    ASSUME ApiInv, NEW r \in Requests, Acquire(r)
    PROVE  ApiInv'
<1>1. TypeOK /\ client[r] = "waiting" /\ client'[r] = "held" /\ InProgress(r)
  BY DEF ApiInv, Acquire, TypeOK
<1>2. Only(r)
  BY <1>1 DEF Acquire, TypeOK, Only, InProgress
<1> QED
  BY <1>1, <1>2, Counted, OnlyKeeps DEF Acquire

LEMMA ExecuteKeeps ==
    ASSUME ApiInv, NEW r \in Requests, Execute(r) \/ Rejects(r)
    PROVE  ApiInv'
<1>1. TypeOK /\ client[r] = "held" /\ idle' = idle + 1 /\ open' = open /\ InProgress(r)
  BY DEF ApiInv, Execute, Rejects, Responds
<1>2. Only(r) /\ client'[r] # "held"
  <2>1. CASE /\ Len(left[r]) > 1
             /\ left' = [left EXCEPT ![r] = Tail(@)]
             /\ client' = [client EXCEPT ![r] = "waiting"]
             /\ UNCHANGED <<process, database, kind, answer>>
    <3>1. Tail(left[r]) \in Seq({"query", "transaction"})
      BY <1>1, <2>1 DEF TypeOK
    <3> QED
      BY <1>1, <2>1, <3>1 DEF TypeOK, Only, InProgress
  <2>2. CASE Answers(r, "done") /\ UNCHANGED <<process, database, kind>>
    BY <1>1, <2>2, AnswersParts
  <2> QED
    BY <2>1, <2>2 DEF Execute, Rejects
<1> QED
  BY <1>1, <1>2, Counted, OnlyKeeps

LEMMA RefusedKeeps ==
    ASSUME ApiInv, NEW r \in Requests, ConnectionRefused(r)
    PROVE  ApiInv'
<1>1. TypeOK /\ client[r] = "waiting" /\ InProgress(r) /\ UNCHANGED <<idle, open>>
  BY DEF ApiInv, ConnectionRefused
<1>2. Only(r) /\ client'[r] = "none"
  BY <1>1, FailsParts DEF ConnectionRefused
<1> QED
  BY <1>1, <1>2, Counted, OnlyKeeps

LEMMA LoseHeldKeeps ==
    ASSUME ApiInv, NEW r \in Requests, LoseHeld(r)
    PROVE  ApiInv'
<1>1. CASE Dies
  BY <1>1, DiesKeeps
<1>2. CASE Drop /\ Fails(r) /\ UNCHANGED <<process, database, idle, kind>>
  <2>1. TypeOK /\ client[r] = "held" /\ InProgress(r) /\ open' = open - 1 /\ idle' = idle
    BY <1>2 DEF ApiInv, LoseHeld, Drop
  <2>2. Only(r) /\ client'[r] = "none"
    BY <1>2, <2>1, FailsParts
  <2>3. Cardinality(Holders) # 0
    BY <2>1, FS_EmptySet DEF ApiInv, Holders
  <2> QED
    BY <2>1, <2>2, <2>3, Counted, OnlyKeeps
<1> QED
  BY <1>1, <1>2 DEF LoseHeld

\* Steps that change no request.
LEMMA OtherKeeps ==
    ASSUME ApiInv,
           IdleTimeout \/ DatabaseStops \/ DatabaseStarts \/ Signal \/ UNCHANGED vars
    PROVE  ApiInv'
<1>1. UNCHANGED request /\ Holders' = Holders
  BY DEF IdleTimeout, DatabaseStops, DatabaseStarts, Signal, vars, request, Holders
<1>2. /\ process' \in {"up", "closing", "down"} /\ database' \in BOOLEAN
      /\ \/ UNCHANGED <<idle, open>>
         \/ idle > 0 /\ idle' = idle - 1 /\ open' = open - 1
  BY DEF ApiInv, TypeOK, IdleTimeout, Drop, DatabaseStops, DatabaseStarts, Signal, vars
<1>3. idle' \in 0 .. PoolSize /\ open' \in 0 .. PoolSize /\ open' = idle' + Cardinality(Holders)
  BY <1>2, Counted
<1>4. TypeOK'
  BY <1>1, <1>2, <1>3 DEF ApiInv, TypeOK, request
<1> QED
  BY <1>1, <1>3, <1>4 DEF ApiInv, InProgress, request

LEMMA InitHolds == Init => ApiInv
<1> SUFFICES ASSUME Init PROVE ApiInv
  OBVIOUS
<1>1. TypeOK
  BY ApiAssumption DEF Init, TypeOK
<1>2. Holders = {} /\ IsFiniteSet({}) /\ Cardinality({}) = 0
  BY FS_EmptySet DEF Init, Holders
<1> QED
  BY <1>1, <1>2 DEF Init, ApiInv, InProgress

LEMMA NextHolds == ApiInv /\ [Next]_vars => ApiInv'
<1> SUFFICES ASSUME ApiInv, [Next]_vars PROVE ApiInv'
  OBVIOUS
<1>1. ASSUME NEW r \in Requests, Serve(r) PROVE ApiInv'
  BY <1>1, AcquireKeeps, RefusedKeeps, ExecuteKeeps, LoseHeldKeeps DEF Serve
<1>2. CASE LoseIdle \/ Exit
  BY <1>2, DiesKeeps DEF LoseIdle, Exit
<1> QED
  BY <1>1, <1>2, ArriveKeeps, OtherKeeps DEF Next

(***************************************************************************)
(* As long as PostgreSQL is there, some request in progress can go on: the *)
(* pool is no deadlock, whatever was lost, refused or timed out before.    *)
(***************************************************************************)
THEOREM NoPoolDeadlock == Spec => []PoolMovesOn
<1>1. ApiInv => PoolMovesOn
  <2> SUFFICES ASSUME ApiInv, database, NEW r \in Requests, InProgress(r),
                      \A q \in Requests : ~CanGoOn(q)
               PROVE  FALSE
    BY DEF PoolMovesOn
  <2>1. Holders = {}
    BY DEF CanGoOn, Responds, Holders
  <2>2. client[r] = "waiting"
    BY <2>1 DEF ApiInv, TypeOK, Holders
  <2>3. idle = 0 /\ open = PoolSize
    BY <2>2, Counted DEF CanGoOn
  <2>4. Cardinality(Holders) = 0
    BY <2>1, FS_EmptySet
  <2> QED
    BY <2>3, <2>4, Counted, ApiAssumption
<1> QED
  BY <1>1, InitHolds, NextHolds, PTL DEF Spec

=============================================================================
