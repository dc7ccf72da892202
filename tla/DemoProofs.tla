----------------------------- MODULE DemoProofs -----------------------------
(***************************************************************************)
(* What the demo script leaves behind, and that its success is evidence.   *)
(*                                                                         *)
(* The argument: applications are started before the finally block and     *)
(* never after it, and stopApplications goes through all of them, so that  *)
(* no order of signals and deaths brings one back (StoppedAreGone).        *)
(* Errors that nobody listens to come where no command runs, but before    *)
(* the finally block, so of them only the first is true.  The exit code    *)
(* stays 0 on one way only, the one past the evidence, and an interrupt or *)
(* an uncaught error takes it off that way at any await (ExitCodeTells).   *)
(***************************************************************************)
EXTENDS Demo, TLAPS

LEMMA InitHolds == Init => DemoInv
BY DEF Init, DemoInv, TypeOK, CommandsAreAwaited, StoppedAreGone, ExitCodeTells, Alive, Going,
       Commands, Applications, Signals

-----------------------------------------------------------------------------
(* The awaits of the try block.                                            *)

LEMMA AfterParts ==
    /\ DOMAIN After = {"port", "readiness", "order", "evidence"} \cup Commands
    /\ \A p \in DOMAIN After :
          /\ After[p] \in {"readiness", "order", "evidence", "finally"} \cup Commands
          /\ After[p] = "finally" => p = "evidence"
<1>1. DOMAIN After = {"port", "dependencies", "migrations", "build", "readiness", "order", "evidence"}
  BY DEF After
<1>2. /\ After["port"] = "dependencies" /\ After["dependencies"] = "migrations"
      /\ After["migrations"] = "build" /\ After["build"] = "readiness"
      /\ After["readiness"] = "order" /\ After["order"] = "evidence"
      /\ After["evidence"] = "finally"
  BY DEF After
<1> QED
  BY <1>1, <1>2 DEF Commands

LEMMA StartedType ==
    \A up \in SUBSET Applications :
        Started(up) \in [Applications -> {"none", "up", "closing", "exited", "killed"}]
BY DEF Started

\* The try block goes on, throws or is cut off; only with the evidence does it end well.
LEMMA TryKeeps ==
    ASSUME DemoInv, pc \in DOMAIN After,
           \/ Throws
           \/ Goes /\ (pc = "evidence" => evidence)
           \/ Uncaught,
           command' \in {"none", "unstarted"},
           child' = child \/ \E up \in SUBSET Applications : child' = Started(up),
           asking' \in BOOLEAN, idle' \in BOOLEAN, created' \in BOOLEAN,
           UNCHANGED <<stopped, handled, interrupted, evidence>>
    PROVE  DemoInv'
<1>1. /\ pc \in {"port", "readiness", "order", "evidence"} \cup Commands
      /\ stopped = {}
  BY AfterParts DEF DemoInv, TypeOK, StoppedAreGone, Commands
<1>2. pc' \in {"readiness", "order", "evidence", "finally", "crashed"} \cup Commands
  BY AfterParts DEF Goes, Throws, Uncaught
<1>3. exitCode' \in {0, 1, 130, 143} /\ (exitCode # 0 => exitCode' # 0)
  BY DEF DemoInv, TypeOK, Goes, Throws, Uncaught
<1>4. child' \in [Applications -> {"none", "up", "closing", "exited", "killed"}]
  BY StartedType DEF DemoInv, TypeOK
<1>5. TypeOK'
  BY <1>2, <1>3, <1>4 DEF DemoInv, TypeOK, Commands
<1>6. pc' \in {"finally", "crashed"} => exitCode' # 0 \/ (evidence /\ pc' = "finally")
  <2>1. CASE Goes /\ (pc = "evidence" => evidence)
    BY <2>1, AfterParts DEF Goes, Commands
  <2>2. CASE Throws
    BY <2>2 DEF Throws, DemoInv, ExitCodeTells
  <2>3. CASE Uncaught
    BY <2>3 DEF Uncaught
  <2> QED
    BY <2>1, <2>2, <2>3
<1>7. CommandsAreAwaited' /\ StoppedAreGone' /\ ExitCodeTells'
  BY <1>1, <1>2, <1>3, <1>6
     DEF DemoInv, CommandsAreAwaited, StoppedAreGone, ExitCodeTells, Commands, Going
<1> QED
  BY <1>5, <1>7 DEF DemoInv

Try == AssertPortAvailable \/ Spawn \/ Close \/ Loop \/ Asked \/ CreateOrder \/ IdleClientLost

LEMMA AwaitsKeep ==
    ASSUME DemoInv, Try
    PROVE  DemoInv'
<1>1. pc \in DOMAIN After /\ asking' \in BOOLEAN /\ idle' \in BOOLEAN /\ created' \in BOOLEAN
  <2>1. pc \in {"port", "readiness", "order", "evidence"} \cup Commands
    BY DEF Try, AssertPortAvailable, Spawn, Close, Loop, Asked, CreateOrder, IdleClientLost
  <2>2. asking' \in BOOLEAN /\ idle' \in BOOLEAN /\ created' \in BOOLEAN
    BY DEF DemoInv, TypeOK, Try, AssertPortAvailable, Spawn, Close, Loop, Asked, CreateOrder,
           IdleClientLost, rows
  <2> QED
    BY <2>1, <2>2, AfterParts
<1>2. /\ child' = child \/ \E up \in SUBSET Applications : child' = Started(up)
      /\ UNCHANGED <<stopped, handled, interrupted, evidence>>
  BY DEF Try, AssertPortAvailable, Spawn, Close, Loop, Asked, CreateOrder, IdleClientLost,
         StartApplications, Applications, children, rows
<1>3. \/ command' \in {"none", "unstarted"}
      \/ Spawn /\ command' = "running" /\ UNCHANGED <<pc, exitCode>>
  BY DEF DemoInv, TypeOK, CommandsAreAwaited, Commands, Going, Try, AssertPortAvailable, Spawn,
         Close, Loop, Asked, CreateOrder, IdleClientLost
<1>4. CASE /\ command' \in {"none", "unstarted"}
           /\ \/ Throws
              \/ Goes /\ (pc = "evidence" => evidence)
              \/ Uncaught
  BY <1>1, <1>2, <1>4, TryKeeps
<1>5. CASE command' \in {"none", "unstarted"} /\ UNCHANGED <<pc, exitCode, child>>
  <2>1. TypeOK'
    BY <1>1, <1>2, <1>5 DEF DemoInv, TypeOK
  <2> QED
    BY <1>2, <1>5, <2>1
       DEF DemoInv, CommandsAreAwaited, StoppedAreGone, ExitCodeTells, Alive, Going
<1>6. CASE Spawn /\ command' = "running" /\ UNCHANGED <<pc, exitCode>>
  BY <1>6
     DEF DemoInv, TypeOK, CommandsAreAwaited, StoppedAreGone, ExitCodeTells, Alive, Commands, Spawn,
         Going, children, rows
<1>7. \/ Throws
      \/ Goes /\ (pc = "evidence" => evidence)
      \/ Uncaught
      \/ UNCHANGED <<pc, exitCode, child>>
  <2>1. CASE AssertPortAvailable \/ Close \/ CreateOrder
    <3>1. pc # "evidence" /\ (Goes \/ Throws \/ Uncaught)
      BY <2>1 DEF AssertPortAvailable, Close, StartApplications, CreateOrder, Commands
    <3> QED
      BY <3>1
  <2>2. CASE Loop \/ Spawn
    BY <2>2 DEF Loop, Deadline, Spawn, children
  <2>3. CASE Asked
    BY <2>3 DEF Asked, Predicate, children
  <2>4. CASE IdleClientLost
    BY <2>4 DEF IdleClientLost
  <2> QED
    BY <2>1, <2>2, <2>3, <2>4 DEF Try
<1> QED
  BY <1>3, <1>4, <1>5, <1>6, <1>7

-----------------------------------------------------------------------------
(* The finally block.                                                      *)

LEMMA TerminatedType ==
    ASSUME TypeOK
    PROVE  /\ Terminated \in [Applications -> {"none", "up", "closing", "exited", "killed"}]
           /\ \A a \in Applications : ~Alive(a) => Terminated[a] = child[a]
BY DEF TypeOK, Terminated, Alive

LEMMA StopKeeps == DemoInv /\ StopApplications => DemoInv'
<1> SUFFICES ASSUME DemoInv, StopApplications PROVE DemoInv'
  OBVIOUS
<1>1. stopped = {} /\ pc = "finally" /\ ~Going
  BY DEF DemoInv, StoppedAreGone, CommandsAreAwaited, Commands, StopApplications
<1>2. TypeOK'
  BY TerminatedType DEF DemoInv, TypeOK, StopApplications, rows
<1>3. CommandsAreAwaited' /\ StoppedAreGone' /\ ExitCodeTells'
  BY <1>1 DEF DemoInv, CommandsAreAwaited, StoppedAreGone, ExitCodeTells, Going, StopApplications,
              rows, Applications
<1> QED
  BY <1>2, <1>3 DEF DemoInv

LEMMA AwaitKeeps ==
    ASSUME DemoInv, NEW a \in Applications, Await(a)
    PROVE  DemoInv'
<1>1. TypeOK'
  BY DEF DemoInv, TypeOK, Await, Stopped, rows
<1>2. \A b \in stopped' : ~Alive(b)'
  BY DEF DemoInv, TypeOK, StoppedAreGone, Await, Stopped, Alive
<1>3. CommandsAreAwaited' /\ ExitCodeTells' /\ pc' = "stopping"
  BY DEF DemoInv, CommandsAreAwaited, ExitCodeTells, Going, Await, rows
<1> QED
  BY <1>1, <1>2, <1>3 DEF DemoInv, StoppedAreGone

LEMMA EndKeeps == DemoInv /\ End => DemoInv'
BY DEF DemoInv, TypeOK, CommandsAreAwaited, StoppedAreGone, ExitCodeTells, Alive, Going, End, children, rows,
       Commands

-----------------------------------------------------------------------------
(* The rest of the world.                                                  *)

LEMMA InterruptKeeps ==
    ASSUME DemoInv, NEW s \in Signals, Interrupt(s)
    PROVE  DemoInv'
<1>1. TypeOK'
  BY TerminatedType DEF DemoInv, TypeOK, Interrupt, rows
<1>2. \A a \in stopped' : ~Alive(a)'
  BY TerminatedType DEF DemoInv, TypeOK, StoppedAreGone, Interrupt, Alive
<1>3. exitCode' # 0 /\ interrupted' = TRUE
  BY DEF Interrupt
<1>4. pc' = pc /\ stopped' = stopped /\ (Going' => Going)
  BY DEF Interrupt, Going
<1> QED
  BY <1>1, <1>2, <1>3, <1>4 DEF DemoInv, CommandsAreAwaited, StoppedAreGone, ExitCodeTells

LEMMA DieKeeps == DemoInv /\ Die => DemoInv'
BY DEF DemoInv, TypeOK, CommandsAreAwaited, StoppedAreGone, ExitCodeTells, Alive, Going, Die, children, rows

LEMMA EndsKeeps ==
    ASSUME DemoInv, NEW a \in Applications, Ends(a)
    PROVE  DemoInv'
<1>1. TypeOK'
  BY DEF DemoInv, TypeOK, Ends, rows
<1>2. \A b \in stopped' : ~Alive(b)'
  BY DEF DemoInv, TypeOK, StoppedAreGone, Ends, Alive
<1> QED
  BY <1>1, <1>2 DEF DemoInv, CommandsAreAwaited, StoppedAreGone, ExitCodeTells, Going, Ends, rows

LEMMA ProjectKeeps == DemoInv /\ Project => DemoInv'
BY DEF DemoInv, TypeOK, CommandsAreAwaited, StoppedAreGone, ExitCodeTells, Alive, Going, Project, children

LEMMA NextHolds == DemoInv /\ [Next]_vars => DemoInv'
<1> SUFFICES ASSUME DemoInv, [Next]_vars PROVE DemoInv'
  OBVIOUS
<1>1. CASE UNCHANGED vars
  BY <1>1 DEF vars, children, rows, DemoInv, TypeOK, CommandsAreAwaited, StoppedAreGone,
              ExitCodeTells, Alive, Going
<1>2. CASE Script
  BY <1>2, AwaitsKeep, StopKeeps, AwaitKeeps, EndKeeps DEF Script, Try
<1> QED
  BY <1>1, <1>2, AwaitsKeep, DieKeeps, ProjectKeeps, InterruptKeeps, EndsKeeps DEF Next, Try

-----------------------------------------------------------------------------
LEMMA Inductive == Spec => []DemoInv
BY InitHolds, NextHolds, PTL DEF Spec

(***************************************************************************)
(* A script that comes to its last line has stopped every command and      *)
(* application it started, in any order of signals, failures and deaths;   *)
(* one that an uncaught error ends leaves no command; and what             *)
(* stopApplications is through with stays gone.  It is no more than that:  *)
(* the applications an uncaught error leaves are the finding of the run    *)
(* demo_orphans.                                                           *)
(***************************************************************************)
THEOREM NothingIsLeft == Spec => []NoOrphans
<1>1. DemoInv => NoOrphans
  BY DEF DemoInv, CommandsAreAwaited, StoppedAreGone, NoOrphans, Commands
<1> QED
  BY <1>1, Inductive, PTL

(***************************************************************************)
(* The exit code 0 means that the event is PUBLISHED and projected, and    *)
(* that nobody interrupted the script, however it ended.                   *)
(***************************************************************************)
THEOREM ExitCodeIsEvidence == Spec => []SuccessIsEvidence
<1>1. DemoInv => SuccessIsEvidence
  BY DEF DemoInv, TypeOK, ExitCodeTells, SuccessIsEvidence, Running, Commands
<1> QED
  BY <1>1, Inductive, PTL

=============================================================================
