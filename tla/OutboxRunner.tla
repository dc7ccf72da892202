---------------------------- MODULE OutboxRunner ----------------------------
(***************************************************************************)
(* The worker process around the relay: OutboxRunnerService, which starts  *)
(* runs of the relay from a timer, and the shutdown hooks of the runner,   *)
(* of the Kafka publisher and of the database module.                      *)
(*                                                                         *)
(* Module OutboxRelay lets a run start whenever a worker is idle.  Here a  *)
(* run has to be started by a tick, a tick finds the flag "running", a run *)
(* may throw, and SIGTERM pulls the timer, the producer and the pool away  *)
(* from a run that nobody waits for.  Every step is one of OutboxRelay or  *)
(* leaves its state alone, and the fairness of OutboxRelay is what the     *)
(* timer and the flag have to bring about (RelayFairSpec).                 *)
(*                                                                         *)
(* Nest calls the shutdown hooks of the three providers in an order that   *)
(* depends on the module graph; any order is possible here.  When the last *)
(* one has resolved the process ends, whatever it is still doing.          *)
(*                                                                         *)
(* "Mistake" operators are bugs for the properties to notice, as in        *)
(* OutboxRelay.                                                            *)
(***************************************************************************)
EXTENDS OutboxRelay

VARIABLES
    timer,     \* is the interval of OutboxRunnerService set?
    running,   \* OutboxRunnerService.running
    claiming,  \* runs that await claimBatch, each with a client of the pool
    pool,      \* the pg Pool: "open", "ending" (end() called) or "ended"
    producer,  \* is the Kafka producer connected?
    closing    \* did the process get SIGTERM?

life == <<timer, running, claiming, pool, producer, closing>>
relay == <<rows, worker, broker>>
allVars == <<relay, life>>

RunnerTypeOK ==
    /\ TypeOK
    /\ timer \in [Workers -> BOOLEAN]
    /\ running \in [Workers -> BOOLEAN]
    /\ claiming \in [Workers -> Nat]
    /\ pool \in [Workers -> {"open", "ending", "ended"}]
    /\ producer \in [Workers -> BOOLEAN]
    /\ closing \in [Workers -> BOOLEAN]

(***************************************************************************)
(* Every process has just been started: onApplicationBootstrap has set the *)
(* interval and called the first tick.                                     *)
(***************************************************************************)
RunnerInit ==
    /\ Init
    /\ timer = [w \in Workers |-> TRUE]
    /\ running = [w \in Workers |-> TRUE]
    /\ claiming = [w \in Workers |-> 1]
    /\ pool = [w \in Workers |-> "open"]
    /\ producer = [w \in Workers |-> TRUE]
    /\ closing = [w \in Workers |-> FALSE]

-----------------------------------------------------------------------------
(* tick                                                                    *)

TickMistakeOverlaps(w) ==
    /\ timer[w] /\ pool[w] = "open" /\ claiming[w] < 2
    /\ running' = [running EXCEPT ![w] = TRUE]
    /\ claiming' = [claiming EXCEPT ![w] = @ + 1]
    /\ UNCHANGED <<relay, timer, pool, producer, closing>>

(***************************************************************************)
(* The interval fires.  While a run is in progress the tick returns before *)
(* the try block.  On a pool that was told to end a run throws at once,    *)
(* which changes nothing.                                                  *)
(***************************************************************************)
Tick(w) ==
    /\ timer[w] /\ pool[w] = "open"
    /\ ~running[w]
    /\ running' = [running EXCEPT ![w] = TRUE]
    /\ claiming' = [claiming EXCEPT ![w] = @ + 1]
    /\ UNCHANGED <<relay, timer, pool, producer, closing>>

FinallyMistakeOnlyOnSuccess(w, threw) ==
    running' = [running EXCEPT ![w] = threw \/ pc'[w] # "idle"]

(***************************************************************************)
(* The finally block: a run that is over, thrown or not, takes the flag    *)
(* back.                                                                   *)
(***************************************************************************)
Finally(w, threw) ==
    running' = [running EXCEPT ![w] = IF pc'[w] = "idle" THEN FALSE ELSE @]

ReleaseMistakeNotOnError(w, threw) ==
    claiming' = [claiming EXCEPT ![w] = IF threw /\ @ = 1 THEN @ ELSE @ - 1]

(***************************************************************************)
(* The client of the claim transaction goes back to the pool.              *)
(***************************************************************************)
Release(w, threw) == claiming' = [claiming EXCEPT ![w] = @ - 1]

RunClaims(w, skipped) ==
    /\ running[w] /\ claiming[w] > 0
    /\ ClaimBatch(w, skipped)
    /\ Release(w, FALSE)
    /\ Finally(w, FALSE)
    /\ UNCHANGED <<timer, pool, producer, closing>>

(***************************************************************************)
(* claimBatch throws: the transaction was rolled back, or its COMMIT was   *)
(* applied and the answer lost.                                            *)
(***************************************************************************)
RunClaimThrows(w, skipped) ==
    /\ running[w] /\ claiming[w] > 0
    /\ ClaimUnacknowledged(w, skipped) \/ UNCHANGED relay
    /\ Release(w, TRUE)
    /\ Finally(w, TRUE)
    /\ UNCHANGED <<timer, pool, producer, closing>>

(***************************************************************************)
(* publishOne in a process that may be closing.  A disconnected producer   *)
(* acknowledges nothing, and a pool that was told to end refuses queries:  *)
(* the write throws and is not applied.                                    *)
(***************************************************************************)
RunPublishes(w, c) ==
    /\ \/ Publish(w, c) \/ PublishRejects(w, c)
       \/ producer[w] /\ PublishResolves(w, c)
       \/ pool[w] = "open" /\ (RecordPublished(w, c) \/ RecordFailure(w, c))
       \/ /\ pool[w] = "open" \/ UNCHANGED rows
          /\ RecordPublishedThrows(w, c) \/ RecordFailureThrows(w, c)
    /\ Finally(w, pc[w] = "failing")
    /\ UNCHANGED <<timer, claiming, pool, producer, closing>>

-----------------------------------------------------------------------------
(* Shutdown and restart.                                                   *)

Signal(w) ==
    /\ pc[w] # "down" /\ ~closing[w]
    /\ closing' = [closing EXCEPT ![w] = TRUE]
    /\ UNCHANGED <<relay, timer, running, claiming, pool, producer>>

(***************************************************************************)
(* OutboxRunnerService: the interval is cleared, a run goes on.            *)
(***************************************************************************)
StopTimer(w) ==
    /\ closing[w] /\ timer[w]
    /\ timer' = [timer EXCEPT ![w] = FALSE]
    /\ UNCHANGED <<relay, running, claiming, pool, producer, closing>>

(***************************************************************************)
(* KafkaEventPublisher: the producer is disconnected.                      *)
(***************************************************************************)
Disconnect(w) ==
    /\ closing[w] /\ producer[w]
    /\ producer' = [producer EXCEPT ![w] = FALSE]
    /\ UNCHANGED <<relay, timer, running, claiming, pool, closing>>

(***************************************************************************)
(* DatabaseModule: pool.end() refuses new work at once and resolves when   *)
(* the clients that are checked out have come back: that of a claim        *)
(* transaction here; a query of publishOne has one as long as it takes.    *)
(***************************************************************************)
EndPool(w) ==
    /\ closing[w]
    /\ \/ pool[w] = "open" /\ pool' = [pool EXCEPT ![w] = "ending"]
       \/ /\ pool[w] = "ending" /\ claiming[w] = 0
          /\ pool' = [pool EXCEPT ![w] = "ended"]
    /\ UNCHANGED <<relay, timer, running, claiming, producer, closing>>

Gone(w) ==
    /\ timer' = [timer EXCEPT ![w] = FALSE]
    /\ running' = [running EXCEPT ![w] = FALSE]
    /\ claiming' = [claiming EXCEPT ![w] = 0]
    /\ pool' = [pool EXCEPT ![w] = "ended"]
    /\ producer' = [producer EXCEPT ![w] = FALSE]
    /\ closing' = [closing EXCEPT ![w] = FALSE]

(***************************************************************************)
(* All hooks have resolved: the process ends.                              *)
(***************************************************************************)
Exit(w) ==
    /\ closing[w] /\ ~timer[w] /\ ~producer[w] /\ pool[w] = "ended"
    /\ Crash(w)
    /\ Gone(w)

Die(w) == Crash(w) /\ Gone(w)

(***************************************************************************)
(* A new process: onModuleInit connects the producer, then                 *)
(* onApplicationBootstrap sets the interval and calls the first tick.      *)
(***************************************************************************)
Boot(w) ==
    /\ Restart(w)
    /\ timer' = [timer EXCEPT ![w] = TRUE]
    /\ running' = [running EXCEPT ![w] = TRUE]
    /\ claiming' = [claiming EXCEPT ![w] = 1]
    /\ pool' = [pool EXCEPT ![w] = "open"]
    /\ producer' = [producer EXCEPT ![w] = TRUE]
    /\ UNCHANGED closing

-----------------------------------------------------------------------------
Others ==
    /\ \/ \E e \in Events :
             Insert(e) \/ OperatorRetry(e) \/ BecomesDue(e) \/ LeaseExpires(e)
       \/ \E c \in inflight : BrokerAppends(c)
    /\ UNCHANGED life

Shutdown(w) == StopTimer(w) \/ Disconnect(w) \/ EndPool(w) \/ Exit(w)

RunnerNext ==
    \/ Others
    \/ \E w \in Workers :
          \/ Tick(w)
          \/ \E skipped \in SUBSET Events :
                RunClaims(w, skipped) \/ RunClaimThrows(w, skipped)
          \/ \E c \in batch[w] : RunPublishes(w, c)
          \/ Signal(w) \/ Shutdown(w) \/ Die(w) \/ Boot(w)

RunnerSpec == RunnerInit /\ [][RunnerNext]_allVars

(***************************************************************************)
(* The interval comes round while it is set, the process takes its steps   *)
(* and its hooks, a supervisor starts it again, and of the claims that a   *)
(* run awaits again and again one commits.  Signals, crashes and throws    *)
(* need never stop.                                                        *)
(***************************************************************************)
RunnerFairness ==
    /\ \A w \in Workers :
          /\ WF_allVars(Tick(w))
          /\ SF_allVars(RunClaims(w, {}))
          /\ WF_allVars(\E c \in batch[w] : RunPublishes(w, c))
          /\ WF_allVars(Shutdown(w))
          /\ WF_allVars(Boot(w))
    /\ \A e \in Events :
          /\ WF_allVars(BecomesDue(e) /\ UNCHANGED life)
          /\ WF_allVars(LeaseExpires(e) /\ UNCHANGED life)

RunnerFairSpec == RunnerSpec /\ RunnerFairness

-----------------------------------------------------------------------------
(***************************************************************************)
(* A process has at most one run in progress, and the flag says so: ticks  *)
(* that overlap, runs that throw and shutdowns neither start a second run  *)
(* nor leave the flag behind.                                              *)
(***************************************************************************)
Runs(w) == claiming[w] + (IF pc[w] \in {"idle", "down"} THEN 0 ELSE 1)

OneRunAtATime == \A w \in Workers : Runs(w) = IF running[w] THEN 1 ELSE 0

\* A process that is gone has no interval and no run; with OneRunAtATime this is inductive.
DownIsGone == \A w \in Workers : pc[w] = "down" => ~timer[w] /\ ~running[w]

RunnerInv == RunnerTypeOK /\ OneRunAtATime /\ DownIsGone

(***************************************************************************)
(* The runner brings about what OutboxRelay assumes of its workers: every  *)
(* behaviour of the processes is one of the relay, and the timer, the flag *)
(* and the restarts imply the fairness under which events settle.          *)
(***************************************************************************)
RelayFairSpec == FairSpec

(***************************************************************************)
(* SIGTERM ends the process, whatever the run in progress is doing: the    *)
(* hooks do not wait for each other or for a client that never comes back. *)
(***************************************************************************)
ShutdownEnds == \A w \in Workers : closing[w] ~> pc[w] = "down"

=============================================================================
