-------------------------------- MODULE Demo --------------------------------
(***************************************************************************)
(* scripts/demo.mjs: one script that prepares the dependencies, runs the   *)
(* three applications, asks for an order, waits until its event is         *)
(* PUBLISHED and projected, and stops the applications, while signals,     *)
(* failing commands, dying applications and errors that nobody listens to  *)
(* come at any await.                                                      *)
(*                                                                         *)
(* What the applications do is in the other modules; here they are up, die *)
(* or hang, and the evidence appears or does not.                          *)
(*                                                                         *)
(* "Mistake" operators are bugs for the properties to notice, as in        *)
(* OutboxRelay.                                                            *)
(***************************************************************************)
EXTENDS Naturals

Applications == {"consumer", "worker", "api"}

Signals == {"SIGINT", "SIGTERM"}

Commands == {"dependencies", "migrations", "build"}

\* The next await of the try block.
After ==
    [port |-> "dependencies", dependencies |-> "migrations", migrations |-> "build",
     build |-> "readiness", readiness |-> "order", order |-> "evidence", evidence |-> "finally"]

VARIABLES
    pc,           \* the await the script is in
    command,      \* activeCommand: "none", "running", "signalled" or "unstarted"
    asking,       \* is a predicate of waitFor in progress?
    idle,         \* has the pool of the script a client between two queries?
    child,        \* per application: "none", "up", "closing", "exited" or "killed"
    stopped,      \* the applications that stopApplications is through with
    handled,      \* the signals whose one handler is used up
    interrupted,
    exitCode,     \* of the script
    created,      \* is the order in the database?
    evidence      \* are its event and its projection?

children == <<child, stopped>>
rows == <<created, evidence>>
vars == <<pc, command, asking, idle, children, handled, interrupted, exitCode, rows>>

TypeOK ==
    /\ pc \in {"port", "readiness", "order", "evidence", "finally", "stopping", "end", "dead",
               "crashed"} \cup Commands
    /\ command \in {"none", "running", "signalled", "unstarted"}
    /\ asking \in BOOLEAN /\ idle \in BOOLEAN
    /\ child \in [Applications -> {"none", "up", "closing", "exited", "killed"}]
    /\ stopped \subseteq Applications
    /\ handled \subseteq Signals
    /\ interrupted \in BOOLEAN
    /\ exitCode \in {0, 1, 130, 143}
    /\ created \in BOOLEAN /\ evidence \in BOOLEAN

Init ==
    /\ pc = "port" /\ command = "none" /\ asking = FALSE /\ idle = FALSE
    /\ child = [a \in Applications |-> "none"] /\ stopped = {}
    /\ handled = {} /\ interrupted = FALSE /\ exitCode = 0
    /\ created = FALSE /\ evidence = FALSE

\* child.exitCode !== null: not so for one that a signal has ended.
HasExitCode(a) == child[a] = "exited"

Alive(a) == child[a] \in {"up", "closing"}

-----------------------------------------------------------------------------
(* The script.                                                             *)

Goes == pc' = After[pc] /\ UNCHANGED exitCode

ThrowsMistakeNoExitCode == pc' = "finally" /\ UNCHANGED exitCode

\* The catch block.
Throws ==
    /\ pc' = "finally"
    /\ exitCode' = IF interrupted THEN exitCode ELSE 1

\* An "error" without a listener ends the script where it is, without its finally block.
Uncaught == pc' = "crashed" /\ exitCode' = 1

AssertPortAvailable ==
    /\ pc = "port"
    /\ Goes \/ Throws
    /\ UNCHANGED <<command, asking, idle, children, handled, interrupted, rows>>

Spawn ==
    /\ pc \in Commands /\ command = "none"
    /\ \/ command' = "running" /\ UNCHANGED <<pc, exitCode>>
       \/ Throws /\ UNCHANGED command
    /\ UNCHANGED <<asking, idle, children, handled, interrupted, rows>>

Started(up) == [a \in Applications |-> IF a \in up THEN "up" ELSE "none"]

(***************************************************************************)
(* startApplication, three times in a row.  A spawn that throws leaves     *)
(* those before it up; one that fails later emits an error without a       *)
(* listener, when those after it are up as well.                           *)
(***************************************************************************)
StartApplications ==
    \/ Goes /\ child' = Started(Applications)
    \/ \E up \in {{}, {"consumer"}, {"consumer", "worker"}} : Throws /\ child' = Started(up)
    \/ \E up \in SUBSET Applications \ {Applications} : Uncaught /\ child' = Started(up)

(***************************************************************************)
(* The command closes; after the build the applications are started.  One  *)
(* that could not be spawned makes the await reject, which leaves it the   *)
(* activeCommand.                                                          *)
(***************************************************************************)
Close ==
    /\ pc \in Commands /\ command \in {"running", "signalled"}
    /\ \/ /\ command' = "none"
          /\ \/ pc # "build" /\ Goes /\ UNCHANGED child
             \/ pc = "build" /\ StartApplications
             \/ Throws /\ UNCHANGED child
       \/ command' = "unstarted" /\ Throws /\ UNCHANGED child
    /\ UNCHANGED <<asking, idle, stopped, handled, interrupted, rows>>

DeadlineMistakeNone == FALSE /\ Throws

Deadline == Throws

(***************************************************************************)
(* waitFor at the head of its loop: the deadline, the flag, applications   *)
(* that have an exit code; then it asks again.                             *)
(***************************************************************************)
Loop ==
    /\ pc \in {"readiness", "evidence"} /\ ~asking
    /\ \/ Deadline /\ UNCHANGED asking
       \/ /\ interrupted \/ \E a \in Applications : HasExitCode(a)
          /\ Throws /\ UNCHANGED asking
       \/ /\ ~interrupted /\ \A a \in Applications : ~HasExitCode(a)
          /\ asking' = TRUE /\ UNCHANGED <<pc, exitCode>>
    /\ UNCHANGED <<command, idle, children, handled, interrupted, rows>>

Predicate == IF pc = "readiness" THEN child["api"] = "up" ELSE evidence

(***************************************************************************)
(* The predicate resolves, or the query of the evidence rejects.           *)
(***************************************************************************)
Asked ==
    /\ pc \in {"readiness", "evidence"} /\ asking
    /\ asking' = FALSE /\ idle' = (pc = "evidence")
    /\ \/ Predicate /\ Goes
       \/ UNCHANGED <<pc, exitCode>>
       \/ pc = "evidence" /\ Throws
    /\ UNCHANGED <<command, children, handled, interrupted, rows>>

(***************************************************************************)
(* POST /orders: 201, or a failure, also one after the order was created.  *)
(***************************************************************************)
CreateOrder ==
    /\ pc = "order"
    /\ \/ child["api"] = "up" /\ created' = TRUE /\ (Goes \/ Throws)
       \/ UNCHANGED created /\ Throws
    /\ UNCHANGED <<command, asking, idle, children, handled, interrupted, evidence>>

Terminated == [a \in Applications |-> IF Alive(a) THEN "closing" ELSE child[a]]

(***************************************************************************)
(* The finally block: the pool has ended, every application is signalled.  *)
(***************************************************************************)
StopApplications ==
    /\ pc = "finally"
    /\ pc' = "stopping"
    /\ child' = Terminated
    /\ UNCHANGED <<command, asking, idle, stopped, handled, interrupted, exitCode, rows>>

StoppedMistakeNoKill(a) == UNCHANGED child

Stopped(a) == child' = [child EXCEPT ![a] = IF Alive(a) THEN "killed" ELSE @]

(***************************************************************************)
(* An application has ended, or five seconds have passed and it is killed. *)
(***************************************************************************)
Await(a) ==
    /\ pc = "stopping" /\ a \notin stopped
    /\ Stopped(a)
    /\ stopped' = stopped \cup {a}
    /\ UNCHANGED <<pc, command, asking, idle, handled, interrupted, exitCode, rows>>

End ==
    /\ pc = "stopping" /\ stopped = Applications
    /\ pc' = "end"
    /\ UNCHANGED <<command, asking, idle, children, handled, interrupted, exitCode, rows>>

-----------------------------------------------------------------------------
(* The rest of the world.                                                  *)

Running == pc \notin {"end", "dead", "crashed"}

(***************************************************************************)
(* A signal, once each: handlers are process.once.                         *)
(***************************************************************************)
Interrupt(s) ==
    /\ Running /\ s \notin handled
    /\ handled' = handled \cup {s} /\ interrupted' = TRUE
    /\ exitCode' = IF s = "SIGINT" THEN 130 ELSE 143
    /\ command' = IF command = "running" THEN "signalled" ELSE command
    /\ child' = Terminated
    /\ UNCHANGED <<pc, asking, idle, stopped, rows>>

(***************************************************************************)
(* The same signal again ends the script where it is.                      *)
(***************************************************************************)
Die ==
    /\ Running /\ handled # {}
    /\ pc' = "dead"
    /\ UNCHANGED <<command, asking, idle, children, handled, interrupted, exitCode, rows>>

(***************************************************************************)
(* The connection of the client that is idle between two polls is lost:    *)
(* the pool emits "error", and the script has no listener for it.          *)
(***************************************************************************)
IdleClientLost ==
    /\ pc = "evidence" /\ ~asking /\ idle
    /\ Uncaught
    /\ UNCHANGED <<command, asking, idle, children, handled, interrupted, rows>>

\* An application ends, by itself or by a signal: Nest repeats the one it got.
Ends(a) ==
    /\ Alive(a)
    /\ child' = [child EXCEPT ![a] = "exited"] \/ child' = [child EXCEPT ![a] = "killed"]
    /\ UNCHANGED <<pc, command, asking, idle, stopped, handled, interrupted, exitCode, rows>>

Project ==
    /\ created /\ ~evidence
    /\ evidence' = TRUE
    /\ UNCHANGED <<pc, command, asking, idle, children, handled, interrupted, exitCode, created>>

-----------------------------------------------------------------------------
Script ==
    \/ AssertPortAvailable \/ Spawn \/ Close \/ Loop \/ Asked \/ CreateOrder
    \/ StopApplications \/ (\E a \in Applications : Await(a)) \/ End

Next ==
    \/ Script \/ Die \/ IdleClientLost \/ Project
    \/ \E s \in Signals : Interrupt(s)
    \/ \E a \in Applications : Ends(a)

(***************************************************************************)
(* Awaits settle, and a loop comes to its head after the deadline if it    *)
(* always comes back.  Applications may hang for ever and evidence may     *)
(* never come.                                                             *)
(***************************************************************************)
Spec == Init /\ [][Next]_vars /\ WF_vars(Script) /\ SF_vars(Loop /\ pc' = "finally")

-----------------------------------------------------------------------------
\* A command of the script that goes on by itself.
Going == command \in {"running", "signalled"}

(***************************************************************************)
(* A script that comes to its last line leaves no command and no           *)
(* application running, also none that hung, was started after a signal,   *)
(* or was started before another one failed; one that an uncaught error    *)
(* ends leaves at least no command; and an application that                *)
(* stopApplications is through with stays gone, whatever ends the script   *)
(* then.  Applications that an uncaught error or a repeated signal leaves  *)
(* are not excluded: see StopsWhenFinished.                                *)
(***************************************************************************)
NoOrphans ==
    /\ pc = "end" => ~Going /\ \A a \in Applications : ~Alive(a)
    /\ pc = "crashed" => ~Going
    /\ \A a \in stopped : ~Alive(a)

(***************************************************************************)
(* docs/runbooks/local-development.md: "It stops the three application     *)
(* processes when finished".  The code does so on the way through its      *)
(* finally block only, and an "error" event without a listener does not    *)
(* take that way.  A script that its user killed is not meant.             *)
(***************************************************************************)
StopsWhenFinished ==
    pc \in {"end", "crashed"} => \A a \in Applications : ~Alive(a)

(***************************************************************************)
(* The script succeeds only with evidence that event and projection are    *)
(* there, and never when it was interrupted.                               *)
(***************************************************************************)
SuccessIsEvidence ==
    (~Running /\ exitCode = 0) => evidence /\ ~interrupted

-----------------------------------------------------------------------------
(* The inductive invariant (module DemoProofs).                            *)

\* A command runs only where the script awaits it, or goes on after the script was killed.
CommandsAreAwaited == Going => pc \in Commands \cup {"dead"}

\* stopApplications is the last thing the script does, and done with an application for good.
StoppedAreGone ==
    /\ stopped # {} => pc \in {"stopping", "end", "dead"}
    /\ pc = "end" => stopped = Applications
    /\ \A a \in stopped : ~Alive(a)

\* The exit code remembers an interrupt, and a try block that did not come to its end.
ExitCodeTells ==
    /\ handled # {} => interrupted
    /\ interrupted => exitCode # 0
    /\ pc \in {"finally", "stopping", "end"} => (exitCode # 0 \/ evidence)
    /\ pc \in {"dead", "crashed"} => exitCode # 0

DemoInv == TypeOK /\ CommandsAreAwaited /\ StoppedAreGone /\ ExitCodeTells

-----------------------------------------------------------------------------
(***************************************************************************)
(* The script ends when applications hang, ignore SIGTERM or have no exit  *)
(* code because a signal ended them, and when the evidence never comes.    *)
(* Its own awaits have no timeout (a command, a query): that they settle   *)
(* is assumed.                                                             *)
(***************************************************************************)
DemoEnds == <>~Running

=============================================================================
