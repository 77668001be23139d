---------------------------- MODULE MacOwnership ----------------------------
(***************************************************************************)
(* One SANEBackend of the macOS plugin (SANEBackend+Process.swift).  Its   *)
(* callers run scanimage processes, in a scan session or as queries of     *)
(* detect and capabilities.  The slot is currentProcess, the flag is       *)
(* scanCancellationRequested, and processLock makes each access to them    *)
(* one step.  Process callbacks, dispatch timers and one task per SIGTERM  *)
(* or SIGINT run concurrently.  The program serves one caller and exits;   *)
(* the tests of the backend call it concurrently and repeatedly.           *)
(*                                                                         *)
(* A handler keeps the Process object, so it never reaches another child.  *)
(* Whether Process.isRunning still holds when kill is called is not        *)
(* modelled: the test and the kill are one step.                           *)
(***************************************************************************)
EXTENDS Naturals

CONSTANTS Callers,     \* commands that use the backend
          Signals,     \* tasks of the signal handler, each runs once
          MaxCalls,    \* bound: scanimage calls one command attempts
          None         \* no process, no session

ASSUME MacAssumption == /\ MaxCalls \in Nat
                        /\ None \notin Callers \union (Callers \X (1..MaxCalls))

VARIABLES
  (* the commands *)
  command,         \* startFullScan, or a command that only queries
  pc,              \* where each command is
  calls,           \* the calls each command has begun
  starting,        \* commands whose launch has yet to start the watchdog
  report,          \* what each call gave back: an exit code or error, or why it did not
  (* class SANEBackend *)
  current,         \* currentProcess
  session,         \* activeScanSessionID
  cancelled,       \* scanCancellationRequested
  (* the processes *)
  child,           \* the process of each call
  killed,          \* processes sent SIGKILL while they ran
  helper,          \* processes that left another one on their pipes
  timer,           \* the timer of each process, and its handler
  claim,           \* timedOut and finished of the watchdog
  (* the signal handler *)
  task, target,
  (* history, read by the properties only *)
  promised,        \* a cancellation was accepted in the session that is open
  hit              \* processes that a cancellation sent SIGTERM

commandVars == <<command, pc, calls, starting, report>>
slotVars    == <<current, session, cancelled>>
processVars == <<child, killed, helper, timer, claim>>
taskVars    == <<task, target>>
historyVars == <<promised, hit>>
vars == <<commandVars, slotVars, processVars, taskVars, historyVars>>

Children == Callers \X (1..MaxCalls)

\* The process of the call that p has under way.
Mine(p) == <<p, calls[p]>>
Running(c) == child[c] = "running"

At(p, from) == pc[p] = from
Goto(p, to) == pc' = [pc EXCEPT ![p] = to]

\* A process that has exited is not worth keeping in the slot.
CurrentIfRunning == IF current # None /\ ~Running(current) THEN None ELSE current

Init ==
  /\ command \in [Callers -> {"scan", "query"}]
  /\ pc = [p \in Callers |-> "idle"]
  /\ calls = [p \in Callers |-> 0]
  /\ starting = {}
  /\ report = [c \in Children |-> "none"]
  /\ current = None /\ session = None /\ cancelled = FALSE
  /\ child = [c \in Children |-> "none"]
  /\ killed = {} /\ helper = {}
  /\ timer = [c \in Children |-> "off"]
  /\ claim = [c \in Children |-> "open"]
  /\ task = [s \in Signals |-> "idle"]
  /\ target = [s \in Signals |-> None]
  /\ promised = FALSE /\ hit = {}

(***************************************************************************)
(* A command.                                                              *)
(***************************************************************************)
BeginScanSession(p) ==
  /\ At(p, "idle") /\ command[p] = "scan"
  /\ current' = CurrentIfRunning
  /\ \/ /\ cancelled \/ session # None \/ CurrentIfRunning # None
        /\ Goto(p, "done") /\ UNCHANGED session
     \/ /\ ~cancelled /\ session = None /\ CurrentIfRunning = None
        /\ Goto(p, "ready") /\ session' = p
  /\ UNCHANGED <<command, calls, starting, report, cancelled, processVars, taskVars, historyVars>>

BeginQueries(p) ==
  /\ At(p, "idle") /\ command[p] = "query"
  /\ Goto(p, "ready")
  /\ UNCHANGED <<command, calls, starting, report, slotVars, processVars, taskVars, historyVars>>

EndScanSession(p) ==
  /\ At(p, "ready") /\ command[p] = "scan"
  /\ Goto(p, "done")
  /\ \/ session # p /\ UNCHANGED <<slotVars, promised>>
     \/ /\ session = p
        /\ current' = CurrentIfRunning
        /\ session' = None /\ cancelled' = FALSE /\ promised' = FALSE
  /\ UNCHANGED <<command, calls, starting, report, processVars, taskVars, hit>>

EndQueries(p) ==
  /\ At(p, "ready") /\ command[p] = "query"
  /\ Goto(p, "done")
  /\ UNCHANGED <<command, calls, starting, report, slotVars, processVars, taskVars, historyVars>>

\* launchOwnedScanProcess: under processLock, look at the slot, the session and the
\* flag, run the process and put it into the slot.  Any refusal leaves the slot alone.
LaunchVerdict(p) ==
  IF current # None \/ (command[p] = "scan" <=> session = None) THEN "busy"
  ELSE IF cancelled THEN "cancelled" ELSE "launch"

LaunchRefused(p) ==
  LET c == <<p, calls[p] + 1>> IN
  /\ At(p, "ready") /\ calls[p] < MaxCalls
  /\ calls' = [calls EXCEPT ![p] = @ + 1]
  /\ \/ LaunchVerdict(p) # "launch" /\ report' = [report EXCEPT ![c] = LaunchVerdict(p)]
     \/ LaunchVerdict(p) = "launch" /\ report' = [report EXCEPT ![c] = "returned"]
  /\ UNCHANGED <<command, pc, starting, slotVars, processVars, taskVars, historyVars>>

Launch(p) ==
  LET c == <<p, calls[p] + 1>> IN
  /\ At(p, "ready") /\ calls[p] < MaxCalls
  /\ LaunchVerdict(p) = "launch"
  /\ calls' = [calls EXCEPT ![p] = @ + 1]
  /\ child' = [child EXCEPT ![c] = "running"]
  /\ current' = c
  /\ \/ /\ Goto(p, "waiting")
        /\ timer' = [timer EXCEPT ![c] = "armed"]
        /\ UNCHANGED starting
     \/ /\ command[p] = "scan"
        /\ Goto(p, "scanning")
        /\ starting' = starting \union {p}
        /\ UNCHANGED timer
  /\ UNCHANGED <<command, report, session, cancelled, killed, helper, claim, taskVars, historyVars>>

(***************************************************************************)
(* A query: runScanimage blocks until the process and its pipes end.       *)
(***************************************************************************)
QueryDrained(p) ==
  /\ At(p, "waiting") /\ ~Running(Mine(p)) /\ Mine(p) \notin helper
  /\ Goto(p, "judging")
  /\ UNCHANGED <<command, calls, starting, report, slotVars, processVars, taskVars, historyVars>>

\* Mutant of Verdict: the timeout wins over a cancellation.
VerdictTimeoutFirst(c) ==
  IF claim[c] = "timedOut" THEN "timeout" ELSE IF cancelled THEN "cancelled" ELSE "returned"

\* What a call returns: a cancellation wins over the timeout, that over the exit code.
Verdict(c) ==
  IF cancelled THEN "cancelled" ELSE IF claim[c] = "timedOut" THEN "timeout" ELSE "returned"

JudgeQuery(p) ==
  /\ At(p, "judging")
  /\ report' = [report EXCEPT ![Mine(p)] = Verdict(Mine(p))]
  /\ Goto(p, "releasing")
  /\ UNCHANGED <<command, calls, starting, slotVars, processVars, taskVars, historyVars>>

\* Mutant of SlotWithout: whatever is in the slot leaves it.
SlotEmptied(c) == None

\* clearCurrentProcess: only the caller's own process leaves the slot.
SlotWithout(c) == IF current = c THEN None ELSE current

\* The first half of the defer block of runScanimage, timer.cancel() included.
ReleaseQuery(p) ==
  /\ At(p, "releasing")
  /\ timer' = [timer EXCEPT ![Mine(p)] = IF @ = "armed" THEN "off" ELSE @]
  /\ current' = SlotWithout(Mine(p))
  /\ Goto(p, IF command[p] = "scan" THEN "ready" ELSE "forgetting")
  /\ UNCHANGED <<command, calls, starting, report, session, cancelled,
                 child, killed, helper, claim, taskVars, historyVars>>

\* Mutants of MayForget: the session, or all of it, is not looked at.
MayForgetInSession == current = None
NeverForget == FALSE

MayForget == session = None /\ current = None

\* clearUtilityProcessCancellation, the second half of the defer block.
ClearUtilityProcessCancellation(p) ==
  /\ At(p, "forgetting")
  /\ cancelled' = IF MayForget THEN FALSE ELSE cancelled
  /\ Goto(p, "ready")
  /\ UNCHANGED <<command, calls, starting, report, current, session, processVars, taskVars, historyVars>>

(***************************************************************************)
(* An acquisition: runScanimageTo waits for its continuation.  The thread  *)
(* that launched may start the watchdog after the process has ended.       *)
(***************************************************************************)
StartWatchdog(p) ==
  LET c == Mine(p) IN
  /\ p \in starting
  /\ starting' = starting \ {p}
  /\ \/ claim[c] = "open" /\ timer' = [timer EXCEPT ![c] = "watching"]
     \/ UNCHANGED timer        \* finished already, or a pieusb scanner
  /\ UNCHANGED <<command, pc, calls, report, slotVars, child, killed, helper, claim, taskVars, historyVars>>

\* The termination handler drains stderr and calls finish().
FinishWatchdog(p) ==
  LET c == Mine(p) IN
  /\ At(p, "scanning") /\ ~Running(c) /\ c \notin helper
  /\ claim' = [claim EXCEPT ![c] = IF @ = "open" THEN "finished" ELSE @]
  /\ timer' = [timer EXCEPT ![c] = IF @ = "watching" THEN "off" ELSE @]
  /\ Goto(p, "clearing")
  /\ UNCHANGED <<command, calls, starting, report, slotVars, child, killed, helper, taskVars, historyVars>>

ReleaseAcquisition(p) ==
  /\ At(p, "clearing")
  /\ current' = SlotWithout(Mine(p))
  /\ Goto(p, "resuming")
  /\ UNCHANGED <<command, calls, starting, report, session, cancelled, processVars, taskVars, historyVars>>

\* The continuation is resumed with the verdict.
ResumeAcquisition(p) ==
  /\ At(p, "resuming")
  /\ report' = [report EXCEPT ![Mine(p)] = Verdict(Mine(p))]
  /\ Goto(p, "resumed")
  /\ UNCHANGED <<command, calls, starting, slotVars, processVars, taskVars, historyVars>>

\* runSingleAcquisition goes on once the launching thread is back, and looks at the
\* flag once more when it was given an exit code.
AfterAcquisition(p) ==
  LET r == report[Mine(p)] IN
  /\ At(p, "resumed") /\ p \notin starting
  /\ report' = [report EXCEPT ![Mine(p)] =
                  IF cancelled /\ r = "returned" THEN "cancelled" ELSE r]
  /\ Goto(p, "ready")
  /\ UNCHANGED <<command, calls, starting, slotVars, processVars, taskVars, historyVars>>

(***************************************************************************)
(* The timers, which keep the Process object they were made for.           *)
(***************************************************************************)
\* Mutant of SigKill: the process is never forced to end.
SigKillNever(c) == UNCHANGED killed

SigKill(c) == killed' = IF Running(c) THEN killed \union {c} ELSE killed

\* The claim of a query's timer sees, under the lock, whether the process runs.
QueryTimesOut(c) ==
  /\ timer[c] = "armed"
  /\ \/ /\ Running(c)
        /\ claim' = [claim EXCEPT ![c] = "timedOut"]
        /\ timer' = [timer EXCEPT ![c] = "claimed"]
     \/ /\ ~Running(c)
        /\ timer' = [timer EXCEPT ![c] = "off"] /\ UNCHANGED claim
  /\ UNCHANGED <<commandVars, slotVars, child, killed, helper, taskVars, historyVars>>

\* The handler of the watchdog sees the process run and claims the timeout later.
WatchdogFires(c) ==
  /\ timer[c] = "watching"
  /\ timer' = [timer EXCEPT ![c] = IF Running(c) THEN "fired" ELSE "off"]
  /\ UNCHANGED <<commandVars, slotVars, child, killed, helper, claim, taskVars, historyVars>>

\* claimTimeout: not after finish(), and not yet when progress moved the deadline.
ClaimTimeout(c) ==
  /\ timer[c] = "fired"
  /\ \/ /\ claim[c] = "open"
        /\ claim' = [claim EXCEPT ![c] = "timedOut"]
        /\ timer' = [timer EXCEPT ![c] = "claimed"]
     \/ /\ claim[c] = "open"
        /\ timer' = [timer EXCEPT ![c] = "watching"] /\ UNCHANGED claim
     \/ /\ claim[c] # "open"
        /\ timer' = [timer EXCEPT ![c] = "off"] /\ UNCHANGED claim
  /\ UNCHANGED <<commandVars, slotVars, child, killed, helper, taskVars, historyVars>>

\* Half a second later.
TimerKills(c) ==
  /\ timer[c] = "claimed"
  /\ SigKill(c)
  /\ timer' = [timer EXCEPT ![c] = "off"]
  /\ UNCHANGED <<commandVars, slotVars, child, helper, claim, taskVars, historyVars>>

(***************************************************************************)
(* The signal handler: one task per SIGTERM or SIGINT runs cancelScan.     *)
(***************************************************************************)
\* requestOwnedScanCancellation: with neither a session nor a process the signal is
\* dropped; else the flag is set and the process, if there is one, is returned.
RequestCancellation(s) ==
  /\ task[s] = "idle"
  /\ \/ /\ session = None /\ current = None
        /\ task' = [task EXCEPT ![s] = "handled"]
        /\ UNCHANGED <<cancelled, target, promised>>
     \/ /\ session # None \/ current # None
        /\ cancelled' = TRUE
        /\ target' = [target EXCEPT ![s] = current]
        /\ task' = [task EXCEPT ![s] = IF current = None THEN "handled" ELSE "asking"]
        /\ promised' = (session # None)
  /\ UNCHANGED <<commandVars, current, session, processVars, hit>>

\* SIGTERM, if the process still runs.
Terminate(s) ==
  /\ task[s] = "asking"
  /\ \/ /\ Running(target[s])
        /\ hit' = hit \union {target[s]}
        /\ task' = [task EXCEPT ![s] = "grace"]
     \/ /\ ~Running(target[s])
        /\ task' = [task EXCEPT ![s] = "handled"] /\ UNCHANGED hit
  /\ UNCHANGED <<commandVars, slotVars, processVars, target, promised>>

\* SIGKILL half a second later, if the same process still runs.
ForceKill(s) ==
  /\ task[s] = "grace"
  /\ SigKill(target[s])
  /\ task' = [task EXCEPT ![s] = "handled"]
  /\ UNCHANGED <<commandVars, slotVars, child, helper, timer, claim, target, historyVars>>

(***************************************************************************)
(* scanimage, which may end at any time, or never, and may leave a reader  *)
(* process on its pipes.                                                   *)
(***************************************************************************)
ChildExits(c) ==
  /\ Running(c)
  /\ child' = [child EXCEPT ![c] = "exited"]
  /\ \/ helper' = helper \union {c}
     \/ UNCHANGED helper
  /\ UNCHANGED <<commandVars, slotVars, killed, timer, claim, taskVars, historyVars>>

HelperExits(c) ==
  /\ c \in helper
  /\ helper' = helper \ {c}
  /\ UNCHANGED <<commandVars, slotVars, child, killed, timer, claim, taskVars, historyVars>>

-----------------------------------------------------------------------------
CallerStep(p) ==
  \/ BeginScanSession(p) \/ BeginQueries(p) \/ EndScanSession(p) \/ EndQueries(p)
  \/ LaunchRefused(p) \/ Launch(p)
  \/ QueryDrained(p) \/ JudgeQuery(p) \/ ReleaseQuery(p) \/ ClearUtilityProcessCancellation(p)
  \/ FinishWatchdog(p) \/ ReleaseAcquisition(p) \/ ResumeAcquisition(p) \/ AfterAcquisition(p)

TimerStep(c) == QueryTimesOut(c) \/ WatchdogFires(c) \/ ClaimTimeout(c) \/ TimerKills(c)
TaskStep(s) == RequestCancellation(s) \/ Terminate(s) \/ ForceKill(s)

Finished ==
  /\ \A p \in Callers : At(p, "done")
  /\ UNCHANGED vars

Next ==
  \/ \E p \in Callers : CallerStep(p) \/ StartWatchdog(p)
  \/ \E c \in Children : TimerStep(c) \/ ChildExits(c) \/ HelperExits(c)
  \/ \E s \in Signals : TaskStep(s)
  \/ Finished

Spec == Init /\ [][Next]_vars

-----------------------------------------------------------------------------
TypeOK ==
  /\ command \in [Callers -> {"scan", "query"}]
  /\ pc \in [Callers -> {"idle", "ready", "waiting", "judging", "releasing", "forgetting",
                         "scanning", "clearing", "resuming", "resumed", "done"}]
  /\ calls \in [Callers -> 0..MaxCalls]
  /\ starting \subseteq Callers
  /\ report \in [Children -> {"none", "returned", "timeout", "busy", "cancelled"}]
  /\ current \in Children \union {None}
  /\ session \in Callers \union {None}
  /\ cancelled \in BOOLEAN
  /\ child \in [Children -> {"none", "running", "exited"}]
  /\ killed \subseteq Children /\ helper \subseteq Children
  /\ timer \in [Children -> {"off", "armed", "watching", "fired", "claimed"}]
  /\ claim \in [Children -> {"open", "timedOut", "finished"}]
  /\ task \in [Signals -> {"idle", "asking", "grace", "handled"}]
  /\ target \in [Signals -> Children \union {None}]
  /\ promised \in BOOLEAN
  /\ hit \subseteq Children

Ended   == {"judging", "releasing", "clearing"}        \* the call's process has exited
Owning  == {"waiting", "scanning"} \union Ended        \* ... and may be in the slot
Calling == Owning \union {"resuming", "resumed", "forgetting"}
Unjudged == {"waiting", "judging", "scanning", "clearing", "resuming"}

\* Whatever runs is in the slot, so at most one scanimage of a backend runs, however
\* its commands interleave.
RunningIsOwned == \A c \in Children : Running(c) => current = c

\* The slot holds the process of a call under way, and during a session one of its own.
SlotScope ==
  \A p \in Callers, n \in 1..MaxCalls : current = <<p, n>> =>
    /\ pc[p] \in Owning /\ n = calls[p]
    /\ session = IF command[p] = "scan" THEN p ELSE None

\* A call under way has a number; from the end of its wait its process has exited.
CallTracked(p) ==
  /\ pc[p] \in Calling => /\ calls[p] \in 1..MaxCalls
                          /\ child[Mine(p)] # "none"
  /\ pc[p] \in Calling \ {"waiting", "scanning"} => ~Running(Mine(p))
  /\ pc[p] = "idle" => calls[p] = 0
  /\ p \in starting => pc[p] \in {"scanning", "clearing", "resuming", "resumed"}

CallScope == \A p \in Callers : CallTracked(p)

\* Calls that have not begun have no process and no report.
FreshCalls ==
  \A c \in Children : c[2] > calls[c[1]] => child[c] = "none" /\ report[c] = "none"

\* The session belongs to the scan that is under way.
SessionScope ==
  \A p \in Callers :
    /\ command[p] = "scan" => (session = p <=> pc[p] \notin {"idle", "done"})
    /\ command[p] = "query" => session # p
    /\ pc[p] = "forgetting" => command[p] = "query"
    /\ pc[p] \in {"scanning", "clearing", "resuming", "resumed"} => command[p] = "scan"

\* A request that was accepted in a session stays until the session ends.
RequestIsKept == promised => cancelled /\ session # None

\* A pending flag has someone who will drop it: the session, or a query that has yet
\* to look.
FlagHasOwner ==
  cancelled => \/ session # None
               \/ \E p \in Callers : /\ command[p] = "query"
                                     /\ pc[p] \in {"waiting", "judging", "releasing", "forgetting"}

\* A call has no report before its verdict.
ReportScope == \A p \in Callers : pc[p] \in Unjudged => report[Mine(p)] = "none"

\* A task that holds a process of a scan was accepted in that scan's session.
TargetScope ==
  \A s \in Signals : task[s] \in {"asking", "grace"} =>
    /\ target[s] \in Children
    /\ child[target[s]] # "none"
    /\ command[target[s][1]] = "scan" /\ session = target[s][1] => promised

\* The call of a scan's process that a request hit is going to return cancelled.
WillBeCancelled(c) ==
  \/ report[c] = "cancelled"
  \/ c = Mine(c[1]) /\ pc[c[1]] \in Unjudged /\ session = c[1] /\ promised

HitScope == \A c \in hit : command[c[1]] = "scan" => WillBeCancelled(c)

MacInvariant ==
  /\ TypeOK /\ RunningIsOwned /\ SlotScope /\ CallScope /\ FreshCalls /\ SessionScope
  /\ RequestIsKept /\ FlagHasOwner /\ ReportScope /\ TargetScope /\ HitScope

\* At most one scanimage of the backend runs at any time, also when several commands
\* use it and one that has exited is dropped from the slot early (beginScanSession).
OneRunningProcess == \A c, d \in Children : Running(c) /\ Running(d) => c = d

\* testCancel...WithoutPoisoningNextRequest: when no command is under way, neither a
\* pending cancellation nor a process is left for the next one.
NextCommandStartsClean ==
  (\A p \in Callers : pc[p] \in {"idle", "done"}) => ~cancelled /\ current = None

\* A scan's call whose process was sent SIGTERM by a request returns cancelled, also
\* when its timeout was claimed or it ended with an exit code of its own.
InterruptedScanIsCancelled ==
  \A c \in hit : command[c[1]] = "scan" => report[c] \in {"none", "cancelled"}

\* Once a request was accepted in a session, no process is launched before that
\* session ends, whatever queries begin, end and clear the flag meanwhile.
SessionHeedsRequest ==
  [][\A c \in Children : ~Running(c) /\ child'[c] = "running" => ~promised]_vars

\* The slot discipline that the Windows port has too.
Slot == INSTANCE ChildSlot WITH
          NoChild <- None,
          owner   <- current,
          pending <- cancelled,
          ended   <- {c \in Children : child[c] = "exited"}

SlotDiscipline == Slot!SlotSpec

\* Whoever asked a process to end sees to it: no task of a signal is done with a
\* process that runs and was not killed, and what a timeout claimed, or a query waits
\* for, has its timer until it was killed.
AskedProcessIsKilled ==
  /\ \A s \in Signals : task[s] = "handled" /\ target[s] # None
       => ~Running(target[s]) \/ target[s] \in killed
  /\ \A c \in Children : Running(c) /\ c \notin killed =>
       /\ claim[c] = "timedOut" => timer[c] = "claimed"
       /\ At(c[1], "waiting") => timer[c] \in {"armed", "claimed"}
=============================================================================
