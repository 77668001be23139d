-------------------------- MODULE ProcessOwnership --------------------------
(***************************************************************************)
(* One adapter process of the Windows port: the main thread runs scanimage *)
(* children one call after another (process/child.cpp), a watchdog thread  *)
(* may terminate the child of an acquisition, and every console control    *)
(* event runs requestCancellation on a thread of its own                   *)
(* (process/cancel.cpp).  They share the ProcessOwnership object, whose    *)
(* methods are atomic because each holds mutex_, and the process's handle  *)
(* table, which nothing protects.                                          *)
(*                                                                         *)
(* A call is numbered by the child it launches.  Durations are abstracted: *)
(* a bounded wait either sees the child exit or expires while it runs.     *)
(***************************************************************************)
EXTENDS Naturals, FiniteSets

CONSTANTS Handlers,     \* console control events; each is delivered at most once
          MaxCalls,     \* bound: scanimage calls one command makes
          Handles,      \* the handle values the system may give out, and reuse
          Commands,     \* the subcommands the host may ask for
          Helpers       \* may scanimage leave a grandchild on its pipes?

None == 0               \* no child, no handle, no session
Main == "main"
Watchdog == "watchdog"
Threads == {Main, Watchdog} \union Handlers
Children == 1..MaxCalls

ASSUME OwnershipAssumption ==
         /\ Main \notin Handlers
         /\ Watchdog \notin Handlers
         /\ MaxCalls \in Nat
         /\ None \notin Handles
         /\ Commands \subseteq {"detect", "capabilities", "scan"}
         /\ Helpers \in BOOLEAN

VARIABLES
  (* the command *)
  command,          \* the subcommand of this adapter process
  hasConsole,       \* GetConsoleWindow() # nullptr: children get their own group
  calls,            \* calls begun; also the number of the call under way
  kind,             \* "utility" (runUtility) or "acquisition" (runAcquisition)
  timedOut,         \* this call's deadline passed
  cancelSeen,       \* this call's copy of the flag, outcome.cancelled
  exitSeen,         \* what exitCodeOf returned for each call
  report,           \* what each call returned to its caller
  (* class ProcessOwnership *)
  current,          \* current_
  session,          \* activeSessionID_
  nextSession,      \* nextSessionID_
  cancelRequested,  \* cancellationRequested_
  forced,           \* forcedTermination_
  machineLock,      \* machineLock_ is held
  (* the children and the handle table *)
  child,            \* each child's state
  broken,           \* children that were sent CTRL_BREAK while alive
  killed,           \* children told to terminate while alive
  hasJob,           \* children that were put in a Job Object
  helper,           \* children with a live grandchild on their pipes
  handleOf,         \* the handle value each child was launched with
  open,             \* handle table: which child each handle value names now
  (* the threads *)
  pc, target, waitee,
  (* history, read by the properties only *)
  requested,        \* some requestCancellation has set the flag
  promised,         \* ... finding no child, and no call was turned away since
  adopted,          \* children that adoptChild accepted
  cancelHit         \* children that a requestCancellation broke or killed

commandVars == <<command, hasConsole, calls, kind>>
callVars    == <<timedOut, cancelSeen, exitSeen, report>>
ownerVars   == <<current, session, nextSession, cancelRequested, forced, machineLock>>
childVars   == <<child, broken, killed, hasJob, helper, handleOf, open>>
threadVars  == <<pc, target, waitee>>
historyVars == <<requested, promised, adopted, cancelHit>>
vars == <<commandVars, callVars, ownerVars, childVars, threadVars, historyVars>>


ChildStates == {"none", "suspended", "running", "exited"}
Reports == {"none", "ok", "failed", "timeout", "busy", "cancelled"}
MainStates == {"start", "ready", "launch", "resume", "adopt", "reject", "wait",
               "probe", "grace", "kill", "waitExit", "drain", "finish", "collect",
               "flag", "release", "clear", "close", "done"}
WatchdogStates == {"off", "armed", "probe", "grace", "kill", "fired"}
HandlerStates == {"idle", "probe", "enterGrace", "grace", "force", "handled"}

At(t, from) == pc[t] = from
Goto(t, to) == pc' = [pc EXCEPT ![t] = to]

(***************************************************************************)
(* Handles and processes.                                                  *)
(***************************************************************************)
Alive(c) == child[c] \in {"suspended", "running"}

\* The process that the handle value stored for child c names at this moment:
\* c itself, a later child that was given the same value, or nothing.
NamedBy(c) == IF handleOf[c] = None THEN None ELSE open[handleOf[c]]

\* stillRunning: WaitForSingleObject(h, 0) = WAIT_TIMEOUT.  A closed handle
\* answers WAIT_FAILED, which is not WAIT_TIMEOUT.
StillRunning(c) == NamedBy(c) # None /\ Alive(NamedBy(c))

\* Mutant of KillThrough: a child that could not be put in a job is not killed.
KillThroughJobOnly(c) ==
  /\ killed' = IF c \in hasJob THEN (killed \union {NamedBy(c)}) \ {None} ELSE killed
  /\ helper' = IF c \in hasJob THEN helper \ {NamedBy(c)} ELSE helper

\* TerminateJobObject when the copied view has a job, else TerminateProcess.
\* Both act on whatever the stored handle value names now.
KillThrough(c) ==
  LET victim == NamedBy(c)
      reached == victim # None /\ (c \in hasJob => victim \in hasJob)
  IN  /\ killed' = IF reached /\ Alive(victim) THEN killed \union {victim} ELSE killed
      /\ helper' = IF reached /\ c \in hasJob THEN helper \ {victim} ELSE helper

\* CTRL_BREAK goes to the process group, which is empty once c has exited.
BreakGroup(c) ==
  broken' = IF hasConsole /\ Alive(c) THEN broken \union {c} ELSE broken

\* LaunchedChild goes out of scope: its handles close, and closing the job's
\* last handle terminates what is left in the job.
CloseHandles(c) ==
  /\ open' = [open EXCEPT ![handleOf[c]] = None]
  /\ helper' = IF c \in hasJob THEN helper \ {c} ELSE helper

Return(c, r) ==
  /\ report' = [report EXCEPT ![c] = r]
  /\ Goto(Main, "ready")

LastReport == IF calls = 0 THEN "none" ELSE report[calls]

(***************************************************************************)
(* The states a command starts in.                                         *)
(***************************************************************************)
Init ==
  /\ command \in Commands
  /\ hasConsole \in BOOLEAN
  /\ calls = 0
  /\ kind = "utility"
  /\ timedOut = FALSE
  /\ cancelSeen = FALSE
  /\ exitSeen = [c \in Children |-> "none"]
  /\ report = [c \in Children |-> "none"]
  /\ current = None
  /\ session = None
  /\ nextSession = 1
  /\ cancelRequested = FALSE
  /\ forced = FALSE
  /\ machineLock = FALSE
  /\ child = [c \in Children |-> "none"]
  /\ broken = {}
  /\ killed = {}
  /\ hasJob = {}
  /\ helper = {}
  /\ handleOf = [c \in Children |-> None]
  /\ open = [h \in Handles |-> None]
  /\ pc = [t \in Threads |-> IF t = Main THEN IF command = "scan" THEN "start" ELSE "ready"
                             ELSE IF t = Watchdog THEN "off" ELSE "idle"]
  /\ target = [h \in Handlers |-> None]
  /\ waitee = [h \in Handlers |-> None]
  /\ requested = FALSE
  /\ promised = FALSE
  /\ adopted = {}
  /\ cancelHit = {}

(***************************************************************************)
(* The scan session (Backend::scan and its SessionGuard).                  *)
(***************************************************************************)
\* Both session methods first forget a current child that is dead.
CurrentIfAlive == IF current # None /\ StillRunning(current) THEN current ELSE None

\* The three answers of the named mutex: ours (also when it was abandoned),
\* held by another adapter, or not creatable, which is not held against us.
BeginScanSession ==
  /\ At(Main, "start")
  /\ current' = CurrentIfAlive
  /\ \/ /\ cancelRequested \/ session # None \/ CurrentIfAlive # None
        /\ Goto(Main, "done")
        /\ UNCHANGED <<session, nextSession, machineLock>>
     \/ /\ ~cancelRequested /\ session = None /\ CurrentIfAlive = None
        /\ \/ /\ Goto(Main, "done")
              /\ UNCHANGED <<session, nextSession, machineLock>>
           \/ /\ \E locked \in BOOLEAN : machineLock' = locked
              /\ session' = nextSession
              /\ nextSession' = nextSession + 1
              /\ Goto(Main, "ready")
  /\ UNCHANGED <<commandVars, callVars, childVars, target, waitee, historyVars,
                 cancelRequested, forced>>

\* The command has made its last call.  A scan closes its session.
EndCommand ==
  /\ At(Main, "ready")
  /\ Goto(Main, "done")
  /\ IF command = "scan"
       THEN /\ current' = CurrentIfAlive
            /\ session' = None
            /\ cancelRequested' = FALSE
            /\ machineLock' = FALSE
            /\ UNCHANGED <<nextSession, forced>>
       ELSE UNCHANGED ownerVars
  /\ UNCHANGED <<commandVars, callVars, childVars, target, waitee, historyVars>>

(***************************************************************************)
(* Starting a call.  The caller is any of the backend's call sites.  What  *)
(* they have in common: detect returns a Cancelled error at once, and no   *)
(* acquisition follows one; capabilities may retry after an error that hid *)
(* it (reopenSelector drops the error it gets).                            *)
(***************************************************************************)
BeginCall(k) ==
  /\ At(Main, "ready")
  /\ calls < MaxCalls
  /\ calls' = calls + 1
  /\ kind' = k
  /\ timedOut' = FALSE
  /\ cancelSeen' = FALSE
  /\ UNCHANGED <<command, hasConsole, exitSeen, ownerVars, childVars, target, waitee,
                 requested, adopted, cancelHit>>

\* runScanimage: a pending cancellation or an exhausted budget refuses the call
\* before anything is launched.
StartUtility ==
  /\ LastReport = "cancelled" => command # "detect"
  /\ BeginCall("utility")
  /\ \/ /\ cancelRequested
        /\ Return(calls + 1, "cancelled")
        /\ promised' = FALSE
     \/ /\ ~cancelRequested
        /\ Return(calls + 1, "timeout")
        /\ UNCHANGED promised
     \/ /\ ~cancelRequested
        /\ Goto(Main, "launch")
        /\ UNCHANGED <<report, promised>>

\* runSingleAcquisition does not look at the flag before it launches.
StartAcquisition ==
  /\ command = "scan"
  /\ LastReport # "cancelled"
  /\ BeginCall("acquisition")
  /\ Goto(Main, "launch")
  /\ UNCHANGED <<report, promised>>

(***************************************************************************)
(* launchChild, then adoptChild.                                           *)
(***************************************************************************)
LaunchFails ==
  /\ At(Main, "launch")
  /\ Return(calls, "failed")
  /\ UNCHANGED <<commandVars, timedOut, cancelSeen, exitSeen, ownerVars, childVars,
                 target, waitee, historyVars>>

\* CreateProcessW(CREATE_SUSPENDED) and the job, whose failure is not fatal.
LaunchChild ==
  /\ At(Main, "launch")
  /\ \E h \in Handles, jobs \in {{}, {calls}} :
       /\ open[h] = None
       /\ open' = [open EXCEPT ![h] = calls]
       /\ handleOf' = [handleOf EXCEPT ![calls] = h]
       /\ hasJob' = hasJob \union jobs
  /\ child' = [child EXCEPT ![calls] = "suspended"]
  /\ Goto(Main, "resume")
  /\ UNCHANGED <<commandVars, callVars, ownerVars, broken, killed, helper, target, waitee,
                 historyVars>>

ResumeFails ==
  /\ At(Main, "resume")
  /\ killed' = IF Alive(calls) THEN killed \union {calls} ELSE killed
  /\ CloseHandles(calls)
  /\ Return(calls, "failed")
  /\ UNCHANGED <<commandVars, timedOut, cancelSeen, exitSeen, ownerVars, child, broken,
                 hasJob, handleOf, target, waitee, historyVars>>

\* A handler's stale handle value may have ended the child while it was suspended.
ResumeChild ==
  /\ At(Main, "resume")
  /\ child' = [child EXCEPT ![calls] = IF Alive(calls) THEN "running" ELSE @]
  /\ Goto(Main, "adopt")
  /\ UNCHANGED <<commandVars, callVars, ownerVars, broken, killed, hasJob, helper, handleOf,
                 open, target, waitee, historyVars>>

\* Mutant of AdoptVerdict: the pending cancellation is not looked at.
AdoptVerdictUnchecked ==
  IF current # None THEN "busy"
  ELSE IF (command = "scan") # (session # None) THEN "busy"
  ELSE "none"

\* Every call of a scan is made for its session, every other call outside one.
AdoptVerdict ==
  IF current # None THEN "busy"
  ELSE IF (command = "scan") # (session # None) THEN "busy"
  ELSE IF cancelRequested THEN "cancelled"
  ELSE "none"

AdoptChild ==
  /\ At(Main, "adopt")
  /\ AdoptVerdict = "none"
  /\ current' = calls
  /\ adopted' = adopted \union {calls}
  /\ \/ kind = "utility" /\ Goto(Main, "wait")
     \/ /\ kind = "acquisition"
        /\ \E watched \in {"off", "armed"} :
             pc' = [pc EXCEPT ![Main] = "drain", ![Watchdog] = watched]
  /\ UNCHANGED <<commandVars, callVars, session, nextSession, cancelRequested, forced,
                 machineLock, childVars, target, waitee, requested, promised, cancelHit>>

AdoptRejected ==
  /\ At(Main, "adopt")
  /\ AdoptVerdict # "none"
  /\ report' = [report EXCEPT ![calls] = AdoptVerdict]
  /\ promised' = (promised /\ AdoptVerdict # "cancelled")
  /\ Goto(Main, "reject")
  /\ UNCHANGED <<commandVars, timedOut, cancelSeen, exitSeen, ownerVars, childVars, target,
                 waitee, requested, adopted, cancelHit>>

\* Mutant of RejectChild: the rejected child is left alone.
RejectChildLeft ==
  /\ At(Main, "reject")
  /\ Goto(Main, "close")
  /\ UNCHANGED <<commandVars, callVars, ownerVars, childVars, target, waitee, historyVars>>

\* terminateChild(child, 0): with no grace the kill follows the break at once.
RejectChild ==
  /\ At(Main, "reject")
  /\ IF Alive(calls)
       THEN BreakGroup(calls) /\ KillThrough(calls)
       ELSE UNCHANGED <<broken, killed, helper>>
  /\ Goto(Main, "close")
  /\ UNCHANGED <<commandVars, callVars, ownerVars, child, hasJob, handleOf, open, target,
                 waitee, historyVars>>

(***************************************************************************)
(* runUtility waits for the child, at most for the call's timeout.         *)
(***************************************************************************)
WaitSeesExit ==
  /\ At(Main, "wait") \/ At(Main, "waitExit")
  /\ child[calls] = "exited"
  /\ Goto(Main, "drain")
  /\ UNCHANGED <<commandVars, callVars, ownerVars, childVars, target, waitee, historyVars>>

WaitTimesOut ==
  /\ At(Main, "wait")
  /\ Alive(calls)
  /\ timedOut' = TRUE
  /\ Goto(Main, "probe")
  /\ UNCHANGED <<commandVars, cancelSeen, exitSeen, report, ownerVars, childVars, target,
                 waitee, historyVars>>

(***************************************************************************)
(* terminateChild with a grace period, run by the main thread after a      *)
(* utility's timeout and by the watchdog thread.                           *)
(***************************************************************************)
Terminated(t) == Goto(t, IF t = Main THEN "waitExit" ELSE "fired")

\* Mutant of TerminateProbe: kills without asking first.
TerminateProbeUngraceful(t) ==
  /\ At(t, "probe")
  /\ \/ ~Alive(calls) /\ Terminated(t)
     \/ Alive(calls) /\ Goto(t, "kill")
  /\ UNCHANGED <<commandVars, callVars, ownerVars, childVars, target, waitee, historyVars>>

TerminateProbe(t) ==
  /\ At(t, "probe")
  /\ BreakGroup(calls)
  /\ \/ ~Alive(calls) /\ Terminated(t)
     \/ Alive(calls) /\ hasConsole /\ Goto(t, "grace")
     \/ Alive(calls) /\ ~hasConsole /\ Goto(t, "kill")
  /\ UNCHANGED <<commandVars, callVars, ownerVars, child, killed, hasJob, helper, handleOf,
                 open, target, waitee, historyVars>>

\* The grace period ends with the child's exit or by expiring.
TerminateGrace(t) ==
  /\ At(t, "grace")
  /\ \/ ~Alive(calls) /\ Terminated(t)
     \/ Alive(calls) /\ Goto(t, "kill")
  /\ UNCHANGED <<commandVars, callVars, ownerVars, childVars, target, waitee, historyVars>>

TerminateKill(t) ==
  /\ At(t, "kill")
  /\ KillThrough(calls)
  /\ Terminated(t)
  /\ UNCHANGED <<commandVars, callVars, ownerVars, child, broken, hasJob, handleOf, open,
                 target, waitee, historyVars>>

(***************************************************************************)
(* The end of a call: the pipes reach EOF once neither the child nor a     *)
(* grandchild holds them; an acquisition also stops its watchdog.          *)
(***************************************************************************)
\* Mutant of Drained: takes EOF for the child's exit.
DrainedAtEOF ==
  /\ At(Main, "drain")
  /\ Goto(Main, IF kind = "utility" THEN "collect" ELSE "finish")
  /\ UNCHANGED <<commandVars, callVars, ownerVars, childVars, target, waitee, historyVars>>

Drained ==
  /\ At(Main, "drain")
  /\ child[calls] = "exited"
  /\ calls \notin helper
  /\ Goto(Main, IF kind = "utility" THEN "collect" ELSE "finish")
  /\ UNCHANGED <<commandVars, callVars, ownerVars, childVars, target, waitee, historyVars>>

WatchdogFires ==
  /\ At(Watchdog, "armed")
  /\ Goto(Watchdog, "probe")
  /\ UNCHANGED <<commandVars, callVars, ownerVars, childVars, target, waitee, historyVars>>

\* AcquisitionWatchdog::finish joins a watchdog that is terminating the child.
FinishWatchdog ==
  /\ At(Main, "finish")
  /\ pc[Watchdog] \in {"off", "armed", "fired"}
  /\ timedOut' = (pc[Watchdog] = "fired")
  /\ pc' = [pc EXCEPT ![Main] = "collect", ![Watchdog] = "off"]
  /\ UNCHANGED <<commandVars, cancelSeen, exitSeen, report, ownerVars, childVars, target,
                 waitee, historyVars>>

\* exitCodeOf answers 259 for a process that has not exited.
CollectExitCode ==
  /\ At(Main, "collect")
  /\ exitSeen' = [exitSeen EXCEPT ![calls] = IF Alive(calls) THEN "stillActive" ELSE "final"]
  /\ Goto(Main, "flag")
  /\ UNCHANGED <<commandVars, timedOut, cancelSeen, report, ownerVars, childVars, target,
                 waitee, historyVars>>

\* Mutant of ReadCancelFlag: reads the flag and resets it.
ReadAndResetCancelFlag ==
  /\ At(Main, "flag")
  /\ cancelSeen' = cancelRequested
  /\ cancelRequested' = FALSE
  /\ Goto(Main, "release")
  /\ UNCHANGED <<commandVars, timedOut, exitSeen, report, current, session, nextSession,
                 forced, machineLock, childVars, target, waitee, historyVars>>

ReadCancelFlag ==
  /\ At(Main, "flag")
  /\ cancelSeen' = cancelRequested
  /\ Goto(Main, "release")
  /\ UNCHANGED <<commandVars, timedOut, exitSeen, report, ownerVars, childVars, target,
                 waitee, historyVars>>

\* Mutant of ReleaseChild: a call that timed out returns without releasing.
ReleaseUnlessTimedOut ==
  /\ At(Main, "release")
  /\ current' = IF ~timedOut /\ current = calls THEN None ELSE current
  /\ Goto(Main, IF command = "scan" THEN "close" ELSE "clear")
  /\ UNCHANGED <<commandVars, callVars, session, nextSession, cancelRequested, forced,
                 machineLock, childVars, target, waitee, historyVars>>

\* releaseChild compares handle values, not processes.
ReleaseChild ==
  /\ At(Main, "release")
  /\ current' = IF current # None /\ handleOf[current] = handleOf[calls] THEN None ELSE current
  /\ Goto(Main, IF command = "scan" THEN "close" ELSE "clear")
  /\ UNCHANGED <<commandVars, callVars, session, nextSession, cancelRequested, forced,
                 machineLock, childVars, target, waitee, historyVars>>

ClearUtilityCancellation ==
  /\ At(Main, "clear")
  /\ cancelRequested' = IF session = None /\ current = None THEN FALSE ELSE cancelRequested
  /\ Goto(Main, "close")
  /\ UNCHANGED <<commandVars, callVars, current, session, nextSession, forced, machineLock,
                 childVars, target, waitee, historyVars>>

\* Mutant of Verdict: the deadline is looked at before the cancellation.
VerdictDeadlineFirst(r) ==
  IF report[calls] # "none" THEN report[calls]
  ELSE IF timedOut /\ (kind = "utility" \/ r = "failed") THEN "timeout"
  ELSE IF cancelSeen THEN "cancelled"
  ELSE r

\* The call's own view of how it ended; a rejected call already has its report.
Verdict(r) ==
  IF report[calls] # "none" THEN report[calls]
  ELSE IF cancelSeen THEN "cancelled"
  ELSE IF timedOut /\ (kind = "utility" \/ r = "failed") THEN "timeout"
  ELSE r

CloseCall ==
  /\ At(Main, "close")
  /\ CloseHandles(calls)
  /\ killed' = IF calls \in hasJob /\ Alive(calls) THEN killed \union {calls} ELSE killed
  /\ \E r \in {"ok", "failed"} : Return(calls, Verdict(r))
  /\ UNCHANGED <<commandVars, timedOut, cancelSeen, exitSeen, ownerVars, child, broken,
                 hasJob, handleOf, target, waitee, historyVars>>

(***************************************************************************)
(* requestCancellation, on the thread of a console control event.  Only    *)
(* its first and its last block hold the mutex; in between it works on a   *)
(* copy of the handles.                                                    *)
(***************************************************************************)
Leave(h) ==
  /\ Goto(h, "handled")
  /\ target' = [target EXCEPT ![h] = None]
  /\ waitee' = [waitee EXCEPT ![h] = None]

RequestCancellation(h) ==
  /\ At(h, "idle")
  /\ ~At(Main, "done")
  /\ cancelRequested' = TRUE
  /\ requested' = TRUE
  /\ promised' = (promised \/ current = None)
  /\ target' = [target EXCEPT ![h] = current]
  /\ Goto(h, IF current = None THEN "handled" ELSE "probe")
  /\ UNCHANGED <<commandVars, callVars, current, session, nextSession, forced, machineLock,
                 childVars, waitee, adopted, cancelHit>>

HandlerProbe(h) ==
  /\ At(h, "probe")
  /\ ~At(Main, "done")
  /\ \/ /\ ~StillRunning(target[h])
        /\ Leave(h)
        /\ UNCHANGED <<broken, cancelHit>>
     \/ /\ StillRunning(target[h])
        /\ BreakGroup(target[h])
        /\ cancelHit' = cancelHit \union (broken' \ broken)
        /\ Goto(h, "enterGrace")
        /\ UNCHANGED <<target, waitee>>
  /\ UNCHANGED <<commandVars, callVars, ownerVars, child, killed, hasJob, helper, handleOf,
                 open, requested, promised, adopted>>

\* The wait holds on to the process that the handle names when it begins.  A
\* handle closed by then makes it fail, which is not WAIT_OBJECT_0.
HandlerEnterGrace(h) ==
  /\ At(h, "enterGrace")
  /\ ~At(Main, "done")
  /\ waitee' = [waitee EXCEPT ![h] = NamedBy(target[h])]
  /\ Goto(h, IF NamedBy(target[h]) = None THEN "force" ELSE "grace")
  /\ UNCHANGED <<commandVars, callVars, ownerVars, childVars, target, historyVars>>

HandlerGrace(h) ==
  /\ At(h, "grace")
  /\ ~At(Main, "done")
  /\ \/ ~Alive(waitee[h]) /\ Leave(h)
     \/ Alive(waitee[h]) /\ Goto(h, "force") /\ UNCHANGED <<target, waitee>>
  /\ UNCHANGED <<commandVars, callVars, ownerVars, childVars, historyVars>>

HandlerForce(h) ==
  /\ At(h, "force")
  /\ ~At(Main, "done")
  /\ forced' = TRUE
  /\ KillThrough(target[h])
  /\ cancelHit' = cancelHit \union (killed' \ killed)
  /\ Leave(h)
  /\ UNCHANGED <<commandVars, callVars, current, session, nextSession, cancelRequested,
                 machineLock, child, broken, hasJob, handleOf, open, requested, promised,
                 adopted>>

(***************************************************************************)
(* scanimage itself: it may exit or hang, with or without a CTRL_BREAK.    *)
(***************************************************************************)
ChildExits(c) ==
  /\ Alive(c)
  /\ child[c] = "running" \/ c \in killed
  /\ child' = [child EXCEPT ![c] = "exited"]
  /\ UNCHANGED <<commandVars, callVars, ownerVars, broken, killed, hasJob, helper, handleOf,
                 open, threadVars, historyVars>>

ChildForks(c) ==
  /\ Helpers
  /\ child[c] = "running"
  /\ c \notin killed
  /\ helper' = helper \union {c}
  /\ UNCHANGED <<commandVars, callVars, ownerVars, child, broken, killed, hasJob, handleOf,
                 open, threadVars, historyVars>>

HelperExits(c) ==
  /\ c \in helper
  /\ helper' = helper \ {c}
  /\ UNCHANGED <<commandVars, callVars, ownerVars, child, broken, killed, hasJob, handleOf,
                 open, threadVars, historyVars>>

(***************************************************************************)
(* The whole system.                                                       *)
(***************************************************************************)
CallStep ==
  \/ StartUtility \/ StartAcquisition
  \/ LaunchFails \/ LaunchChild \/ ResumeFails \/ ResumeChild
  \/ AdoptChild \/ AdoptRejected \/ RejectChild
  \/ WaitSeesExit \/ WaitTimesOut
  \/ Drained \/ FinishWatchdog \/ CollectExitCode \/ ReadCancelFlag
  \/ ReleaseChild \/ ClearUtilityCancellation \/ CloseCall

TerminateStep(t) == TerminateProbe(t) \/ TerminateGrace(t) \/ TerminateKill(t)

MainStep == BeginScanSession \/ EndCommand \/ CallStep \/ TerminateStep(Main)

HandlerStep(h) == HandlerProbe(h) \/ HandlerEnterGrace(h) \/ HandlerGrace(h) \/ HandlerForce(h)

Done == At(Main, "done") /\ UNCHANGED vars

Next ==
  \/ MainStep
  \/ WatchdogFires \/ TerminateStep(Watchdog)
  \/ \E h \in Handlers : RequestCancellation(h) \/ HandlerStep(h)
  \/ \E c \in Children : ChildExits(c) \/ ChildForks(c) \/ HelperExits(c)
  \/ Done

Spec == Init /\ [][Next]_vars

(***************************************************************************)
(* Threads keep running, and a process that was told to terminate ends.    *)
(* Nothing makes scanimage exit by itself, a cancellation arrive or the    *)
(* watchdog's deadline pass.                                               *)
(***************************************************************************)
Fairness ==
  /\ WF_vars(MainStep)
  /\ WF_vars(TerminateStep(Watchdog))
  /\ \A h \in Handlers : WF_vars(HandlerStep(h))
  /\ \A c \in Children : WF_vars(c \in killed /\ ChildExits(c))

FairSpec == Spec /\ Fairness

-----------------------------------------------------------------------------
CommandTypeOK ==
  /\ command \in Commands
  /\ hasConsole \in BOOLEAN
  /\ calls \in 0..MaxCalls
  /\ kind \in {"utility", "acquisition"}

CallTypeOK ==
  /\ timedOut \in BOOLEAN
  /\ cancelSeen \in BOOLEAN
  /\ exitSeen \in [Children -> {"none", "final", "stillActive"}]
  /\ report \in [Children -> Reports]

OwnerTypeOK ==
  /\ current \in Children \union {None}
  /\ session \in Nat
  /\ nextSession \in Nat \ {0}
  /\ cancelRequested \in BOOLEAN
  /\ forced \in BOOLEAN
  /\ machineLock \in BOOLEAN

ChildTypeOK ==
  /\ child \in [Children -> ChildStates]
  /\ broken \subseteq Children
  /\ killed \subseteq Children
  /\ hasJob \subseteq Children
  /\ helper \subseteq Children
  /\ handleOf \in [Children -> Handles \union {None}]
  /\ open \in [Handles -> Children \union {None}]

ThreadTypeOK ==
  /\ pc \in [Threads -> MainStates \union WatchdogStates \union HandlerStates]
  /\ pc[Main] \in MainStates
  /\ pc[Watchdog] \in WatchdogStates
  /\ \A h \in Handlers : pc[h] \in HandlerStates
  /\ target \in [Handlers -> Children \union {None}]
  /\ waitee \in [Handlers -> Children \union {None}]

HistoryTypeOK ==
  /\ requested \in BOOLEAN
  /\ promised \in BOOLEAN
  /\ adopted \subseteq Children
  /\ cancelHit \subseteq Children

TypeOK ==
  /\ CommandTypeOK
  /\ CallTypeOK
  /\ OwnerTypeOK
  /\ ChildTypeOK
  /\ ThreadTypeOK
  /\ HistoryTypeOK

\* The handles in current_ always name the child they were stored for: they are
\* never closed, and never reused for a later child, before releaseChild
\* (child.cpp releases at 553 and 625, the handles close at the return).
CurrentNeverDangles == current # None => NamedBy(current) = current

\* One adapter never turns its own call away as Busy: every path that took the
\* slot gives it back, and the session rule matches the command.
NeverBusy == \A c \in Children : report[c] # "busy"

\* "One process at a time" (cancel.h, invariant 1), counted over processes that
\* actually execute, adopted or not.
OneRunningChild ==
  \A c, d \in Children : child[c] = "running" /\ child[d] = "running" => c = d

\* Between two calls, and when the command is over, no process this adapter
\* launched runs on: each has exited or has been told to terminate.
NothingLeftBehind ==
  pc[Main] \in {"ready", "done"} => \A c \in Children : Alive(c) => c \in killed

\* STILL_ACTIVE (259) is never taken for an exit code (child.cpp, exitCodeOf).
ExitCodeIsFinal == \A c \in Children : exitSeen[c] # "stillActive"

\* In a scan, a call whose child was interrupted by a cancellation returns
\* Cancelled and nothing else, also when its deadline passed at the same time.
InterruptedCallIsCancelled ==
  command = "scan" => \A c \in cancelHit \intersect adopted : report[c] \in {"none", "cancelled"}

\* In a scan, no child is adopted once any cancellation has been requested, even
\* when the request came before the child, the session or the call existed.
NoAdoptionAfterRequest ==
  [][command = "scan" /\ adopted' # adopted => ~requested]_vars

\* "Keep the order" (cancel.h): an adopted child that shares a console with us
\* is killed only after it was asked to stop with CTRL_BREAK.
BreakBeforeKill ==
  \A c \in adopted : c \in killed /\ hasConsole => c \in broken

\* In a scan the order is kept, although the handles of a request are a copy.
ScanBreaksBeforeKill == command = "scan" => BreakBeforeKill

\* cancel.h:113: a request that finds no child sets the flag, and the next
\* adoptChild is rejected.
RequestTurnsNextChildAway == [][adopted' # adopted => ~promised]_vars

\* The adapter's slot discipline, without threads and handles.
Slot == INSTANCE ChildSlot WITH
          NoChild <- None,
          owner   <- current,
          pending <- cancelRequested,
          ended   <- {c \in Children : child[c] = "exited"}

SlotDiscipline == Slot!SlotSpec

\* detect and capabilities end whatever scanimage does, since each call is bounded; a
\* scan ends once a cancellation is requested: the child it finds is stopped, by force
\* if need be, and no other child delays it.
CommandEnds == command # "scan" \/ requested ~> pc[Main] = "done"

-----------------------------------------------------------------------------
(***************************************************************************)
(* The inductive invariant behind the safety properties above.             *)
(***************************************************************************)
Between == {"start", "ready", "done"}                       \* no call under way
Owning  == {"wait", "probe", "grace", "kill", "waitExit", "drain", "finish", "collect",
            "flag", "release"}                              \* the call's child is current_
Ended   == {"finish", "collect", "flag", "release"}         \* ... and has exited
Launched == {"resume", "adopt", "reject", "clear", "close"} \union Owning

\* A call under way has a number, and once launched an open handle of its own.
CallScope ==
  /\ pc[Main] \notin Between => calls \in Children
  /\ pc[Main] \in Launched => /\ handleOf[calls] \in Handles
                              /\ open[handleOf[calls]] = calls
                              /\ child[calls] # "none"
  /\ pc[Main] \in Ended \union {"clear"} => child[calls] = "exited"

\* The watchdog works only while its acquisition waits for the child.
WatchdogScope ==
  pc[Watchdog] # "off" => pc[Main] \in {"drain", "finish"} /\ kind = "acquisition"

\* A handler between its first and its last step holds a copied child.
HandlerScope ==
  \A h \in Handlers : pc[h] \in {"probe", "enterGrace", "grace", "force"} => target[h] # None

\* current_ is the child of the call that is under way, exactly while it owns it.
SlotScope == current = IF pc[Main] \in Owning THEN calls ELSE None

\* Children of calls that have not launched do not exist.
FreshChildren ==
  \A c \in Children :
    c > calls \/ (c = calls /\ pc[Main] = "launch") => child[c] = "none"

\* A scan's calls are made inside its session, all other calls outside one.
SessionScope ==
  /\ pc[Main] = "start" => command = "scan"
  /\ pc[Main] \notin {"start", "done"} => (session # None <=> command = "scan")

\* A child other than the one of the call under way has been told to end.
NoneLeft ==
  \A c \in Children :
    Alive(c) /\ (c # calls \/ pc[Main] \in Between \union {"launch", "close"}) => c \in killed

\* While an earlier child is still dying, no other is launched: a cancellation is
\* pending, and the last call said so.
DyingIsRefused ==
  \A c \in Children : child[c] = "running" =>
    /\ pc[Main] \notin {"start", "launch", "resume"}
    /\ pc[Main] \notin {"ready", "done"} => c = calls
    /\ pc[Main] \in {"ready", "close", "reject"} => /\ calls # 0
                                                    /\ report[calls] = "cancelled"
                                                    /\ cancelRequested

\* In a scan nothing drops a request before the command is over.
RequestIsKept ==
  command = "scan" /\ requested /\ pc[Main] # "done" => cancelRequested

\* An adopted child belongs to a call that was made, and lives only while that call
\* waits for it.
AdoptedScope ==
  /\ \A c \in adopted : c <= calls /\ child[c] # "none" /\ (Alive(c) => c = calls)
  /\ pc[Main] \in {"launch", "resume", "adopt", "reject"} => calls \notin adopted
  /\ pc[Main] \in Owning => calls \in adopted
  /\ calls \in adopted /\ Alive(calls) => pc[Main] \in Owning

\* A call has no report before it is rejected or closed.
ReportScope ==
  /\ \A c \in Children : c > calls => report[c] = "none"
  /\ pc[Main] \in {"launch", "resume", "adopt"} \union Owning => report[calls] = "none"

\* Whoever terminates the child of the call has asked it first.
AskedScope ==
  "grace" \in {pc[Main], pc[Watchdog]} \/ "kill" \in {pc[Main], pc[Watchdog]}
    => calls \in broken \/ ~hasConsole

\* In a scan, the copy a handler holds names its child, nothing, or a child that came
\* after the request and is never adopted.
CopyScope ==
  command = "scan" => \A h \in Handlers : pc[h] \in {"probe", "enterGrace", "grace", "force"} =>
    /\ requested /\ target[h] \in adopted
    /\ NamedBy(target[h]) # target[h] => NamedBy(target[h]) \notin adopted
    /\ pc[h] # "probe" /\ hasConsole => target[h] \in broken \/ ~Alive(target[h])

\* In a scan, a child that is killed before it is adopted was killed by a request.
EarlyScope ==
  command = "scan" => \A c \in killed :
    /\ child[c] # "none"
    /\ c = calls /\ pc[Main] \in {"resume", "adopt"} => requested

\* In a scan, the call of a child that a request hit is going to return Cancelled.
HitScope ==
  command = "scan" =>
    /\ cancelHit # {} => requested
    /\ \A c \in cancelHit \intersect adopted :
         \/ report[c] = "cancelled"
         \/ /\ report[c] = "none" /\ c = calls
            /\ pc[Main] \in Owning \union {"close"}
            /\ pc[Main] \in {"release", "close"} => cancelSeen

SlotInvariant ==
  /\ TypeOK /\ CallScope /\ WatchdogScope /\ HandlerScope /\ SlotScope /\ FreshChildren
  /\ SessionScope /\ NoneLeft /\ DyingIsRefused /\ NeverBusy /\ ExitCodeIsFinal

OwnershipInvariant ==
  /\ SlotInvariant /\ RequestIsKept
  /\ AdoptedScope /\ ReportScope /\ AskedScope /\ CopyScope /\ EarlyScope /\ HitScope
  /\ ScanBreaksBeforeKill
=============================================================================
