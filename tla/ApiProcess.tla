----------------------------- MODULE ApiProcess -----------------------------
(***************************************************************************)
(* The API process around its requests: the pg Pool of DatabaseService,    *)
(* which connections of it each request holds when, the readiness check,   *)
(* the loss and return of PostgreSQL, and the end of the process.          *)
(*                                                                         *)
(* Of a request only its use of the pool is modelled (module Ordering has  *)
(* what it reads and writes): a query takes a connection and gives it      *)
(* back, a transaction keeps one through all its statements.               *)
(*                                                                         *)
(* "Mistake" operators are bugs for the properties to notice, as in        *)
(* OutboxRelay.                                                            *)
(***************************************************************************)
EXTENDS Naturals, Sequences, FiniteSets

CONSTANTS
    Requests,  \* each is asked at most once
    PoolSize   \* connections of a Pool (pg: max)

ASSUME ApiAssumption == PoolSize \in Nat \ {0}

(***************************************************************************)
(* How a request uses the pool: GET /health/ready, GET /orders/:id, POST   *)
(* /orders, and POST /orders/:id/confirm or cancel.                        *)
(***************************************************************************)
Uses ==
    [ready |-> <<"query">>,
     get |-> <<"query", "query">>,
     create |-> <<"transaction">>,
     change |-> <<"query", "query", "transaction">>]

Kinds == DOMAIN Uses

VARIABLES
    process,   \* "up", "closing" (SIGTERM) or "down"
    database,  \* does PostgreSQL accept connections?
    idle,      \* idle connections of the pool
    open,      \* all connections of the pool
    kind,      \* what each request asks for
    left,      \* the uses of the pool still ahead of it, the current one first
    client,    \* "none", "waiting" for a connection, or "held"
    answer     \* "none", "done" (any status but 5xx), "500", "503", "refused"

request == <<kind, left, client, answer>>
vars == <<process, database, idle, open, request>>

TypeOK ==
    /\ process \in {"up", "closing", "down"}
    /\ database \in BOOLEAN
    /\ idle \in 0 .. PoolSize
    /\ open \in 0 .. PoolSize
    /\ kind \in [Requests -> Kinds \cup {"none"}]
    /\ left \in [Requests -> Seq({"query", "transaction"})]
    /\ client \in [Requests -> {"none", "waiting", "held"}]
    /\ answer \in [Requests -> {"none", "done", "500", "503", "refused"}]

Init ==
    /\ process = "up" /\ database = TRUE
    /\ idle = 0 /\ open = 0
    /\ kind = [r \in Requests |-> "none"]
    /\ left = [r \in Requests |-> <<>>]
    /\ client = [r \in Requests |-> "none"]
    /\ answer = [r \in Requests |-> "none"]

InProgress(r) == kind[r] # "none" /\ answer[r] = "none"

Holders == {r \in Requests : client[r] = "held"}

-----------------------------------------------------------------------------
(* Requests.                                                               *)

Arrive(r, k) ==
    /\ kind[r] = "none"
    /\ kind' = [kind EXCEPT ![r] = k]
    /\ \/ /\ process = "up"
          /\ left' = [left EXCEPT ![r] = Uses[k]]
          /\ client' = [client EXCEPT ![r] = "waiting"]
          /\ UNCHANGED answer
       \/ /\ process # "up"
          /\ answer' = [answer EXCEPT ![r] = "refused"]
          /\ UNCHANGED <<left, client>>
    /\ UNCHANGED <<process, database, idle, open>>

(***************************************************************************)
(* pool.connect(): an idle connection, or a new one below the limit.       *)
(***************************************************************************)
Acquire(r) ==
    /\ client[r] = "waiting"
    /\ \/ idle > 0 /\ idle' = idle - 1 /\ UNCHANGED open
       \/ idle = 0 /\ open < PoolSize /\ database /\ open' = open + 1 /\ UNCHANGED idle
    /\ client' = [client EXCEPT ![r] = "held"]
    /\ UNCHANGED <<process, database, kind, left, answer>>

Answers(r, status) ==
    /\ answer' = [answer EXCEPT ![r] = status]
    /\ left' = [left EXCEPT ![r] = <<>>]
    /\ client' = [client EXCEPT ![r] = "none"]

FailsMistakeSwallows(r) ==
    /\ left' = [left EXCEPT ![r] = <<>>]
    /\ client' = [client EXCEPT ![r] = "none"]
    /\ UNCHANGED answer

(***************************************************************************)
(* A use of the pool rejects: the indicator catches it and reports down,   *)
(* which Terminus answers with 503; any other request ends with 500.       *)
(***************************************************************************)
Fails(r) == Answers(r, IF kind[r] = "ready" THEN "503" ELSE "500")

ConnectionRefused(r) ==
    /\ client[r] = "waiting"
    /\ idle = 0 /\ open < PoolSize /\ ~database
    /\ Fails(r)
    /\ UNCHANGED <<process, database, idle, open, kind>>

RespondsMistakeSecondClient(r) ==
    /\ client[r] = "held" /\ database
    /\ Head(left[r]) = "transaction" => idle > 0 \/ open < PoolSize

(***************************************************************************)
(* PostgreSQL responds to what a request asks over its connection.  The    *)
(* statements of a transaction all use the connection it holds.            *)
(***************************************************************************)
Responds(r) == client[r] = "held" /\ database

(***************************************************************************)
(* The query, or the last statement of the transaction, resolves and the   *)
(* connection goes back; the request has its next use of the pool or ends. *)
(***************************************************************************)
Execute(r) ==
    /\ Responds(r)
    /\ idle' = idle + 1
    /\ \/ /\ Len(left[r]) > 1
          /\ left' = [left EXCEPT ![r] = Tail(@)]
          /\ client' = [client EXCEPT ![r] = "waiting"]
          /\ UNCHANGED answer
       \/ Len(left[r]) = 1 /\ Answers(r, "done")
    /\ UNCHANGED <<process, database, open, kind>>

(***************************************************************************)
(* Not found, not valid, lost a race: the request ends early and the       *)
(* connection goes back.                                                   *)
(***************************************************************************)
Rejects(r) ==
    /\ Responds(r) /\ kind[r] # "ready"
    /\ idle' = idle + 1
    /\ Answers(r, "done")
    /\ UNCHANGED <<process, database, open, kind>>

-----------------------------------------------------------------------------
(* The loss of connections.                                                *)

Drop == open' = open - 1

Dies ==
    /\ process' = "down"
    /\ idle' = 0 /\ open' = 0
    /\ answer' = [r \in Requests |-> IF InProgress(r) THEN "refused" ELSE answer[r]]
    /\ left' = [r \in Requests |-> <<>>]
    /\ client' = [r \in Requests |-> "none"]
    /\ UNCHANGED <<database, kind>>

(***************************************************************************)
(* An idle connection is terminated.  The pool emits "error"; nobody       *)
(* listens, which ends a Node process.                                     *)
(***************************************************************************)
LoseIdle == ~database /\ idle > 0 /\ Dies

(***************************************************************************)
(* The connection of a request is terminated.  pool.query() listens for    *)
(* that; a connection that a transaction holds has no listener, so that    *)
(* the process ends unless the statement in progress fails first.          *)
(***************************************************************************)
LoseHeld(r) ==
    /\ ~database /\ client[r] = "held"
    /\ \/ Drop /\ Fails(r) /\ UNCHANGED <<process, database, idle, kind>>
       \/ Head(left[r]) = "transaction" /\ Dies

(***************************************************************************)
(* The pool closes a connection that was idle for long (idleTimeoutMillis) *)
(***************************************************************************)
IdleTimeout ==
    /\ idle > 0
    /\ idle' = idle - 1
    /\ Drop
    /\ UNCHANGED <<process, database, request>>

DatabaseStops == database /\ database' = FALSE /\ UNCHANGED <<process, idle, open, request>>

(***************************************************************************)
(* PostgreSQL is back; connections of before are gone by then.             *)
(***************************************************************************)
DatabaseStarts ==
    /\ ~database /\ open = 0
    /\ database' = TRUE
    /\ UNCHANGED <<process, idle, open, request>>

-----------------------------------------------------------------------------
(* Shutdown: the HTTP server stops listening and waits for its requests,   *)
(* then the shutdown hook of DatabaseModule ends the pool.                 *)

Signal ==
    /\ process = "up"
    /\ process' = "closing"
    /\ UNCHANGED <<database, idle, open, request>>

Exit ==
    /\ process = "closing"
    /\ \A r \in Requests : ~InProgress(r)
    /\ Dies

-----------------------------------------------------------------------------
Serve(r) ==
    Acquire(r) \/ ConnectionRefused(r) \/ Execute(r) \/ Rejects(r) \/ LoseHeld(r)

Next ==
    \/ \E r \in Requests : Serve(r) \/ \E k \in Kinds : Arrive(r, k)
    \/ LoseIdle \/ IdleTimeout \/ DatabaseStops \/ DatabaseStarts \/ Signal \/ Exit

Spec == Init /\ [][Next]_vars

(***************************************************************************)
(* Queries settle, a terminated connection is noticed, a closing process   *)
(* goes on closing.  Nothing is asked of PostgreSQL.                       *)
(***************************************************************************)
FairSpec ==
    /\ Spec
    /\ \A r \in Requests : WF_vars(Serve(r))
    /\ WF_vars(LoseIdle)
    /\ WF_vars(Exit)

-----------------------------------------------------------------------------
\* What a request needs next is there: a connection, or the answer of PostgreSQL.
CanGoOn(r) ==
    \/ client[r] = "waiting" /\ (idle > 0 \/ open < PoolSize)
    \/ Responds(r)

(***************************************************************************)
(* Requests never wait for each other in a circle: as long as PostgreSQL   *)
(* is there and requests are in progress, one of them can go on, although  *)
(* the others may hold every connection of the pool (a save that asked for *)
(* a second one while it holds the first would break this), and although   *)
(* connections were lost, timed out or refused before.                     *)
(***************************************************************************)
PoolMovesOn ==
    (database /\ \E r \in Requests : InProgress(r)) => \E r \in Requests : CanGoOn(r)

(***************************************************************************)
(* The inductive invariant (module ApiProcessProofs): each open connection *)
(* is idle or in the hands of one request, a request waits for one or has  *)
(* one as long as it is in progress, nothing that has not been asked is    *)
(* answered, and finitely many requests have one at any moment, however    *)
(* many there will be.                                                     *)
(***************************************************************************)
ApiInv ==
    /\ TypeOK
    /\ open = idle + Cardinality(Holders)
    /\ IsFiniteSet(Holders)
    /\ \A r \in Requests :
          /\ client[r] # "none" <=> InProgress(r)
          /\ kind[r] = "none" => answer[r] = "none"

(***************************************************************************)
(* A request that was accepted ends: more requests than connections wait   *)
(* for each other, never for themselves, and never for a lost database.    *)
(***************************************************************************)
RequestsEnd == \A r \in Requests : InProgress(r) ~> ~InProgress(r)

(***************************************************************************)
(* A process that got SIGTERM ends.                                        *)
(***************************************************************************)
ShutdownEnds == process = "closing" ~> process = "down"

(***************************************************************************)
(* docs/specs/ordering.md: the readiness check answers 503 while           *)
(* PostgreSQL is unavailable (and nobody has stopped the API).             *)
(***************************************************************************)
ReadyIs503 ==
    [][\A r \in Requests :
          (kind'[r] = "ready" /\ answer[r] = "none" /\ answer'[r] # "none" /\ ~database
              /\ process = "up") => answer'[r] = "503"]_vars

=============================================================================
