------------------------- MODULE InterruptionProofs -------------------------
(***************************************************************************)
(* What a cancellation does to a scan, for every number of calls, console  *)
(* events and handle values: a child is killed only after it was asked,    *)
(* and the call it belonged to reports the cancellation.                   *)
(*                                                                         *)
(* A handler works on a copy of the handles that nothing protects.  The    *)
(* copy may outlive its child and its handle value may be given to another *)
(* child, but that child came after the request, so a scan never adopts it.*)
(***************************************************************************)
EXTENDS ProcessOwnershipProofs

USE OwnershipAssumption
    DEF At, Goto, Children, Threads, Main, Watchdog, None,
        commandVars, callVars, ownerVars, childVars, threadVars, historyVars

LEMMA Basics ==
  ASSUME SlotInvariant
  PROVE  /\ pc \in [Threads -> MainStates \union WatchdogStates \union HandlerStates]
         /\ calls \in 0..MaxCalls /\ child \in [Children -> ChildStates]
         /\ report \in [Children -> Reports]
         /\ adopted \subseteq Children /\ broken \subseteq Children /\ cancelHit \subseteq Children
         /\ target \in [Handlers -> Children \union {None}]
         /\ open \in [Handles -> Children \union {None}]
         /\ handleOf \in [Children -> Handles \union {None}]
         /\ pc[Main] \notin Between => calls \in Children
BY DEF SlotInvariant, TypeOK, CommandTypeOK, CallTypeOK, ChildTypeOK, ThreadTypeOK, HistoryTypeOK,
    CallScope

\* The steps of the other threads and of the children leave the call alone; a child
\* only ends by them.
OtherStep ==
  \/ WatchdogFires \/ TerminateStep(Watchdog)
  \/ \E h \in Handlers : RequestCancellation(h) \/ HandlerStep(h)
  \/ \E c \in Children : ChildExits(c) \/ ChildForks(c) \/ HelperExits(c)
  \/ UNCHANGED vars

LEMMA OtherKeeps ==
  ASSUME SlotInvariant, OtherStep
  PROVE  /\ UNCHANGED <<command, hasConsole, calls, kind, report, cancelSeen, adopted, handleOf, open>>
         /\ pc'[Main] = pc[Main]
         /\ \A c \in Children : child'[c] = child[c] \/ (Alive(c) /\ child'[c] = "exited")
<1>0. pc \in [Threads -> MainStates \union WatchdogStates \union HandlerStates]
      /\ child \in [Children -> ChildStates]
  BY Basics
<1>1. CASE WatchdogFires
  BY <1>0, <1>1 DEF WatchdogFires
<1>2. CASE TerminateStep(Watchdog)
  BY <1>0, <1>2 DEF TerminateStep, TerminateProbe, TerminateGrace, TerminateKill, Terminated
<1>3. CASE \E h \in Handlers : RequestCancellation(h) \/ HandlerStep(h)
  BY <1>0, <1>3 DEF RequestCancellation, HandlerStep, HandlerProbe, HandlerEnterGrace, HandlerGrace,
      HandlerForce, Leave
<1>4. CASE \E c \in Children : ChildExits(c) \/ ChildForks(c) \/ HelperExits(c)
  BY <1>0, <1>4 DEF ChildExits, ChildForks, HelperExits
<1>5. CASE UNCHANGED vars
  BY <1>5 DEF vars
<1> QED
  BY <1>1, <1>2, <1>3, <1>4, <1>5 DEF OtherStep

LEMMA StepKinds ==
  ASSUME [Next]_vars PROVE MainStep \/ OtherStep
BY DEF Next, OtherStep, Done

-----------------------------------------------------------------------------
(***************************************************************************)
(* Which children are adopted, and what their calls have reported.         *)
(***************************************************************************)
LEMMA StepAdopted ==
  ASSUME SlotInvariant, AdoptedScope, [Next]_vars
  PROVE  AdoptedScope'
<1>0. /\ pc \in [Threads -> MainStates \union WatchdogStates \union HandlerStates]
      /\ calls \in 0..MaxCalls /\ child \in [Children -> ChildStates] /\ adopted \subseteq Children
      /\ pc[Main] \notin Between => calls \in Children
  BY Basics
<1>1. CASE OtherStep
  BY <1>0, <1>1, OtherKeeps DEF AdoptedScope, Alive, ChildStates
<1>2. CASE BeginScanSession \/ EndCommand
  BY <1>0, <1>2 DEF BeginScanSession, EndCommand, AdoptedScope, Alive, Owning
<1>3. CASE StartUtility \/ StartAcquisition
  <2>1. /\ pc[Main] = "ready" /\ pc'[Main] \in {"ready", "launch"} /\ calls' = calls + 1
        /\ UNCHANGED <<adopted, child>>
    BY <1>0, <1>3 DEF StartUtility, StartAcquisition, BeginCall, Return
  <2> QED
    BY <1>0, <2>1 DEF AdoptedScope, Alive, Owning
<1>4. CASE LaunchFails \/ ResumeFails
  <2>1. pc'[Main] = "ready" /\ UNCHANGED <<calls, child, adopted>>
    BY <1>0, <1>4 DEF LaunchFails, ResumeFails, Return
  <2>2. calls \notin adopted
    BY <1>4 DEF LaunchFails, ResumeFails, AdoptedScope
  <2> QED
    BY <1>0, <2>1, <2>2 DEF AdoptedScope, Alive, Owning
<1>5. CASE LaunchChild \/ ResumeChild
  <2>1. /\ pc'[Main] \in {"resume", "adopt"} /\ UNCHANGED <<calls, adopted>>
        /\ \E s \in ChildStates : child' = [child EXCEPT ![calls] = s]
    BY <1>0, <1>5 DEF LaunchChild, ResumeChild, Between, ChildStates
  <2>2. calls \notin adopted
    BY <1>5 DEF LaunchChild, ResumeChild, AdoptedScope
  <2> QED
    BY <1>0, <2>1, <2>2 DEF AdoptedScope, Alive, Owning
<1>6. CASE AdoptChild
  <2>1. /\ pc[Main] = "adopt" /\ pc'[Main] \in {"wait", "drain"} /\ adopted' = adopted \union {calls}
        /\ UNCHANGED <<calls, child>>
    BY <1>0, <1>6 DEF AdoptChild
  <2>2. child[calls] # "none"
    BY <2>1 DEF SlotInvariant, CallScope, Launched
  <2> QED
    BY <1>0, <2>1, <2>2 DEF AdoptedScope, Alive, Owning
<1>7. CASE AdoptRejected \/ RejectChild
  BY <1>0, <1>7 DEF AdoptRejected, RejectChild, AdoptedScope, Alive, Owning
<1>8. CASE /\ pc[Main] \in Owning /\ pc'[Main] \in Owning
           /\ UNCHANGED <<calls, child, adopted>>
  BY <1>0, <1>8 DEF AdoptedScope, Alive, Owning
<1>9. CASE WaitSeesExit \/ WaitTimesOut \/ Drained \/ FinishWatchdog \/ CollectExitCode \/ ReadCancelFlag
  <2>1. pc[Main] \in Owning /\ pc'[Main] \in Owning /\ UNCHANGED <<calls, child, adopted>>
    BY <1>0, <1>9 DEF WaitSeesExit, WaitTimesOut, Drained, FinishWatchdog, CollectExitCode,
        ReadCancelFlag, Owning
  <2> QED
    BY <1>8, <2>1
<1>10. CASE TerminateStep(Main)
  <2>1. pc[Main] \in Owning /\ pc'[Main] \in Owning /\ UNCHANGED <<calls, child, adopted>>
    BY <1>0, <1>10 DEF TerminateStep, TerminateProbe, TerminateGrace, TerminateKill, Terminated, Owning
  <2> QED
    BY <1>8, <2>1
<1>11. CASE ReleaseChild \/ ClearUtilityCancellation \/ CloseCall
  <2>1. /\ pc[Main] \in {"release", "clear", "close"} /\ pc'[Main] \in {"clear", "close", "ready"}
        /\ UNCHANGED <<calls, child, adopted>>
    BY <1>0, <1>11 DEF ReleaseChild, ClearUtilityCancellation, CloseCall, Return
  <2>2. pc[Main] \in {"release", "clear"} => ~Alive(calls)
    BY DEF SlotInvariant, CallScope, Ended, Alive
  <2>3. ~(calls \in adopted /\ Alive(calls))
    BY <2>1, <2>2 DEF AdoptedScope, Owning
  <2> QED
    BY <1>0, <2>1, <2>3 DEF AdoptedScope, Alive, Owning
<1> QED
  BY <1>1, <1>2, <1>3, <1>4, <1>5, <1>6, <1>7, <1>9, <1>10, <1>11, StepKinds
  DEF MainStep, CallStep

LEMMA StepReport ==
  ASSUME SlotInvariant, ReportScope, [Next]_vars
  PROVE  ReportScope'
<1>0. /\ pc \in [Threads -> MainStates \union WatchdogStates \union HandlerStates]
      /\ calls \in 0..MaxCalls /\ report \in [Children -> Reports]
      /\ pc[Main] \notin Between => calls \in Children
  BY Basics
<1>1. CASE OtherStep
  BY <1>0, <1>1, OtherKeeps DEF ReportScope
<1>2. CASE BeginScanSession \/ EndCommand
  BY <1>0, <1>2 DEF BeginScanSession, EndCommand, ReportScope, Owning
<1>3. CASE StartUtility \/ StartAcquisition
  <2>1. calls' = calls + 1 /\ calls' \in Children
    BY <1>0, <1>3 DEF StartUtility, StartAcquisition, BeginCall
  <2>2. \/ pc'[Main] = "launch" /\ report' = report
        \/ pc'[Main] = "ready" /\ \E r \in Reports : report' = [report EXCEPT ![calls'] = r]
    BY <1>0, <1>3 DEF StartUtility, StartAcquisition, BeginCall, Return, Reports
  <2> QED
    BY <1>0, <2>1, <2>2 DEF ReportScope, Owning
<1>4. CASE LaunchFails \/ ResumeFails \/ CloseCall \/ AdoptRejected
  <2>1. pc[Main] \notin Between /\ pc'[Main] \in {"ready", "reject"} /\ calls' = calls
        /\ \E r : report' = [report EXCEPT ![calls] = r]
    BY <1>0, <1>4 DEF LaunchFails, ResumeFails, CloseCall, AdoptRejected, Return, Between
  <2> QED
    BY <1>0, <2>1 DEF ReportScope, Owning
<1>5. CASE /\ UNCHANGED <<calls, report>>
           /\ pc'[Main] \in {"launch", "resume", "adopt"} \union Owning
                => pc[Main] \in {"launch", "resume", "adopt"} \union Owning
  BY <1>0, <1>5 DEF ReportScope
<1>6. CASE LaunchChild \/ ResumeChild \/ AdoptChild \/ RejectChild \/ ReleaseChild \/ ClearUtilityCancellation
  BY <1>0, <1>5, <1>6 DEF LaunchChild, ResumeChild, AdoptChild, RejectChild, ReleaseChild,
      ClearUtilityCancellation, Owning
<1>7. CASE WaitSeesExit \/ WaitTimesOut \/ Drained \/ FinishWatchdog \/ CollectExitCode \/ ReadCancelFlag
  BY <1>0, <1>5, <1>7 DEF WaitSeesExit, WaitTimesOut, Drained, FinishWatchdog, CollectExitCode,
      ReadCancelFlag, Owning
<1>8. CASE TerminateStep(Main)
  BY <1>0, <1>5, <1>8 DEF TerminateStep, TerminateProbe, TerminateGrace, TerminateKill, Terminated, Owning
<1> QED
  BY <1>1, <1>2, <1>3, <1>4, <1>6, <1>7, <1>8, StepKinds DEF MainStep, CallStep

-----------------------------------------------------------------------------
(***************************************************************************)
(* A child is asked before it is told.                                     *)
(***************************************************************************)
\* A CTRL_BREAK that was sent stays sent.
LEMMA BrokenGrows ==
  ASSUME [Next]_vars
  PROVE  broken \subseteq broken' /\ UNCHANGED <<command, hasConsole>>
<1>1. CASE RejectChild \/ \E t \in {Main, Watchdog} : TerminateProbe(t)
  BY <1>1 DEF RejectChild, TerminateProbe, BreakGroup
<1>2. CASE \E h \in Handlers : HandlerProbe(h)
  BY <1>2 DEF HandlerProbe, BreakGroup
<1>3. CASE UNCHANGED <<broken, command, hasConsole>>
  BY <1>3
<1>4. CASE OtherStep
  BY <1>1, <1>2, <1>3, <1>4 DEF OtherStep, WatchdogFires, TerminateStep, TerminateGrace, TerminateKill,
      RequestCancellation, HandlerStep, HandlerEnterGrace, HandlerGrace, HandlerForce, ChildExits, ChildForks,
      HelperExits, vars
<1>5. CASE MainStep
  BY <1>1, <1>3, <1>5 DEF MainStep, BeginScanSession, EndCommand, CallStep, StartUtility, StartAcquisition,
      BeginCall, LaunchFails, LaunchChild, ResumeFails, ResumeChild, AdoptChild, AdoptRejected,
      WaitSeesExit, WaitTimesOut, Drained, FinishWatchdog, CollectExitCode, ReadCancelFlag, ReleaseChild,
      ClearUtilityCancellation, CloseCall, TerminateStep, TerminateGrace, TerminateKill
<1> QED
  BY <1>4, <1>5, StepKinds

LEMMA StepAsked ==
  ASSUME SlotInvariant, AskedScope, [Next]_vars
  PROVE  AskedScope'
<1>0. /\ pc \in [Threads -> MainStates \union WatchdogStates \union HandlerStates]
      /\ Main # Watchdog /\ \A h \in Handlers : h # Main /\ h # Watchdog /\ h \in Threads
      /\ broken \subseteq broken' /\ hasConsole' = hasConsole
  BY Basics, BrokenGrows
<1>1. ASSUME NEW t \in {Main, Watchdog}, TerminateStep(t) PROVE AskedScope'
  <2>1. calls' = calls /\ \A u \in {Main, Watchdog} : u # t => pc'[u] = pc[u]
    BY <1>0, <1>1 DEF TerminateStep, TerminateProbe, TerminateGrace, TerminateKill, Terminated
  <2>2. pc'[t] \in {"grace", "kill"} => calls \in broken' \/ ~hasConsole
    <3>1. CASE TerminateProbe(t)
      BY <1>0, <3>1 DEF TerminateProbe, Terminated, BreakGroup
    <3>2. CASE TerminateGrace(t)
      BY <1>0, <3>2 DEF TerminateGrace, Terminated, AskedScope
    <3>3. CASE TerminateKill(t)
      BY <1>0, <3>3 DEF TerminateKill, Terminated
    <3> QED
      BY <1>1, <3>1, <3>2, <3>3 DEF TerminateStep
  <2> QED
    BY <1>0, <2>1, <2>2 DEF AskedScope
<1>2. CASE StartUtility \/ StartAcquisition
  <2>1. /\ pc[Main] = "ready" /\ pc'[Main] \in {"ready", "launch"} /\ pc'[Watchdog] = pc[Watchdog]
    BY <1>0, <1>2 DEF StartUtility, StartAcquisition, BeginCall, Return
  <2>2. pc[Watchdog] = "off"
    BY <2>1 DEF SlotInvariant, WatchdogScope
  <2> QED
    BY <2>1, <2>2 DEF AskedScope
<1>3. CASE /\ calls' = calls
           /\ \A t \in {Main, Watchdog} : pc'[t] \in {"grace", "kill"} => pc[t] \in {"grace", "kill"}
  BY <1>0, <1>3 DEF AskedScope
<1>4. CASE WatchdogFires \/ (\E c \in Children : ChildExits(c) \/ ChildForks(c) \/ HelperExits(c)) \/ UNCHANGED vars
  BY <1>0, <1>3, <1>4 DEF WatchdogFires, ChildExits, ChildForks, HelperExits, vars
<1>5. CASE \E h \in Handlers : RequestCancellation(h) \/ HandlerStep(h)
  <2>1. calls' = calls /\ pc'[Main] = pc[Main] /\ pc'[Watchdog] = pc[Watchdog]
    BY <1>0, <1>5 DEF RequestCancellation, HandlerStep, HandlerProbe, HandlerEnterGrace, HandlerGrace,
        HandlerForce, Leave
  <2> QED
    BY <1>3, <2>1
<1>6. CASE BeginScanSession \/ EndCommand
  BY <1>0, <1>3, <1>6 DEF BeginScanSession, EndCommand
<1>7. CASE CallStep /\ ~StartUtility /\ ~StartAcquisition
  BY <1>0, <1>3, <1>7 DEF CallStep, LaunchFails, LaunchChild, ResumeFails, ResumeChild, AdoptChild,
      AdoptRejected, RejectChild, WaitSeesExit, WaitTimesOut, Drained, FinishWatchdog, CollectExitCode,
      ReadCancelFlag, ReleaseChild, ClearUtilityCancellation, CloseCall, Return
<1> QED
  BY <1>1, <1>2, <1>4, <1>5, <1>6, <1>7 DEF Next, MainStep, Done

-----------------------------------------------------------------------------
(***************************************************************************)
(* The copied handles of a request.                                        *)
(***************************************************************************)
Active == {"probe", "enterGrace", "grace", "force"}

CopyIsRight(h) ==
  pc[h] \in Active =>
    /\ requested /\ target[h] \in adopted
    /\ NamedBy(target[h]) # target[h] => NamedBy(target[h]) \notin adopted
    /\ pc[h] # "probe" /\ hasConsole => target[h] \in broken \/ ~Alive(target[h])

\* A handler that does not move keeps its copy right, as long as its handle value is
\* given to no adopted child and no child is adopted.
LEMMA CopyStays ==
  ASSUME NEW h \in Handlers, CopyIsRight(h), pc'[h] = pc[h], target'[h] = target[h],
         requested => requested', adopted' = adopted, broken \subseteq broken', hasConsole' = hasConsole,
         pc[h] \in Active /\ target[h] \in adopted =>
           /\ ~Alive(target[h]) => ~Alive(target[h])'
           /\ NamedBy(target[h])' = NamedBy(target[h]) \/ NamedBy(target[h])' \notin adopted
  PROVE  CopyIsRight(h)'
BY DEF CopyIsRight, Alive, NamedBy

\* The main thread closes the handles of its call, and gives a new child a free value.
LEMMA MainCopies ==
  ASSUME SlotInvariant, AdoptedScope, MainStep, NEW c \in adopted
  PROVE  /\ ~Alive(c) => ~Alive(c)'
         /\ NamedBy(c)' = NamedBy(c) \/ NamedBy(c)' \notin adopted
<1>0. /\ calls \in 0..MaxCalls /\ child \in [Children -> ChildStates] /\ adopted \subseteq Children
      /\ open \in [Handles -> Children \union {None}] /\ handleOf \in [Children -> Handles \union {None}]
      /\ pc[Main] \notin Between => calls \in Children
      /\ c \in Children /\ None \notin adopted
  BY Basics
<1>1. CASE UNCHANGED <<child, open, handleOf>>
  BY <1>1 DEF Alive, NamedBy
<1>2. CASE LaunchChild
  <2>1. calls \in Children /\ calls \notin adopted
    BY <1>0, <1>2 DEF LaunchChild, AdoptedScope, Between
  <2>2. PICK h \in Handles : /\ open' = [open EXCEPT ![h] = calls]
                             /\ handleOf' = [handleOf EXCEPT ![calls] = h]
    BY <1>2 DEF LaunchChild
  <2>3. child'[c] = child[c] /\ handleOf'[c] = handleOf[c]
    BY <1>0, <1>2, <2>1, <2>2 DEF LaunchChild
  <2>4. handleOf[c] # None => open'[handleOf[c]] \in {open[handleOf[c]], calls}
    BY <1>0, <2>2
  <2> QED
    BY <2>1, <2>3, <2>4 DEF Alive, NamedBy
<1>3. CASE ResumeFails \/ CloseCall
  <2>1. calls \in Children /\ UNCHANGED <<child, handleOf>>
        /\ open' = [open EXCEPT ![handleOf[calls]] = None]
    BY <1>0, <1>3 DEF ResumeFails, CloseCall, CloseHandles, Between
  <2>2. handleOf[c] # None => open'[handleOf[c]] \in {open[handleOf[c]], None}
    BY <1>0, <2>1
  <2> QED
    BY <1>0, <2>1, <2>2 DEF Alive, NamedBy
<1>4. CASE ResumeChild
  <2>1. calls \in Children /\ calls \notin adopted /\ UNCHANGED <<open, handleOf>>
    BY <1>0, <1>4 DEF ResumeChild, AdoptedScope, Between
  <2>2. child'[c] = child[c]
    BY <1>0, <1>4, <2>1 DEF ResumeChild
  <2> QED
    BY <2>1, <2>2 DEF Alive, NamedBy
<1> QED
  BY <1>1, <1>2, <1>3, <1>4 DEF MainStep, BeginScanSession, EndCommand, CallStep, StartUtility,
     StartAcquisition, BeginCall, LaunchFails, AdoptChild, AdoptRejected, RejectChild,
     WaitSeesExit, WaitTimesOut, Drained, FinishWatchdog, CollectExitCode, ReadCancelFlag, ReleaseChild,
     ClearUtilityCancellation, TerminateStep, TerminateProbe, TerminateGrace, TerminateKill

LEMMA MainLeavesHandlers ==
  ASSUME SlotInvariant, MainStep, NEW h \in Handlers
  PROVE  pc'[h] = pc[h] /\ UNCHANGED <<target, requested, cancelHit>>
<1>0. /\ pc \in [Threads -> MainStates \union WatchdogStates \union HandlerStates]
      /\ h # Main /\ h # Watchdog /\ h \in Threads
  BY Basics
<1>1. CASE BeginScanSession \/ EndCommand \/ TerminateStep(Main)
  BY <1>0, <1>1 DEF BeginScanSession, EndCommand, TerminateStep, TerminateProbe, TerminateGrace,
      TerminateKill, Terminated
<1>2. CASE CallStep
  BY <1>0, <1>2 DEF CallStep, StartUtility, StartAcquisition,
      BeginCall, LaunchFails, LaunchChild, ResumeFails, ResumeChild, AdoptChild, AdoptRejected, RejectChild,
      WaitSeesExit, WaitTimesOut, Drained, FinishWatchdog, CollectExitCode, ReadCancelFlag, ReleaseChild,
      ClearUtilityCancellation, CloseCall, Return
<1> QED
  BY <1>1, <1>2 DEF MainStep

\* Under a request a scan adopts nothing.
LEMMA NoAdoption ==
  ASSUME RequestIsKept, [Next]_vars, command = "scan", requested
  PROVE  adopted' = adopted
<1>1. ~AdoptChild
  BY DEF AdoptChild, AdoptVerdict, RequestIsKept
<1> QED
  BY <1>1, OnlyAdoptChildAdopts

LEMMA StepCopy ==
  ASSUME SlotInvariant, RequestIsKept, AdoptedScope, CopyScope, [Next]_vars
  PROVE  CopyScope'
<1> SUFFICES ASSUME command = "scan", NEW h \in Handlers PROVE CopyIsRight(h)'
  BY BrokenGrows DEF CopyScope, CopyIsRight, Active, Alive, NamedBy
<1>0. /\ pc \in [Threads -> MainStates \union WatchdogStates \union HandlerStates]
      /\ target \in [Handlers -> Children \union {None}]
      /\ Main # Watchdog /\ h # Main /\ h # Watchdog /\ h \in Threads
      /\ broken \subseteq broken' /\ hasConsole' = hasConsole
      /\ adopted \subseteq Children /\ child \in [Children -> ChildStates]
  BY Basics, BrokenGrows
<1>1. CopyIsRight(h)
  BY DEF CopyScope, CopyIsRight, Active
<1>2. pc[h] \in Active => adopted' = adopted
  BY <1>1, NoAdoption DEF CopyIsRight
<1>3. CASE MainStep
  <2>1. CASE pc[h] \in Active
    <3>1. pc'[h] = pc[h] /\ target' = target /\ requested' = requested
      BY <1>3, MainLeavesHandlers
    <3>2. target[h] \in adopted =>
            /\ ~Alive(target[h]) => ~Alive(target[h])'
            /\ NamedBy(target[h])' = NamedBy(target[h]) \/ NamedBy(target[h])' \notin adopted
      <4> SUFFICES ASSUME target[h] \in adopted
                   PROVE  /\ ~Alive(target[h]) => ~Alive(target[h])'
                          /\ NamedBy(target[h])' = NamedBy(target[h]) \/ NamedBy(target[h])' \notin adopted
        OBVIOUS
      <4>1. \A c \in adopted : /\ ~Alive(c) => child'[c] \notin {"suspended", "running"}
                               /\ \/ NamedBy(c) = (IF handleOf'[c] = None THEN None ELSE open'[handleOf'[c]])
                                  \/ (IF handleOf'[c] = None THEN None ELSE open'[handleOf'[c]]) \notin adopted
        BY <1>3, MainCopies DEF Alive, NamedBy
      <4> QED
        BY <3>1, <4>1 DEF Alive, NamedBy
    <3> QED
      BY <1>0, <1>1, <1>2, <2>1, <3>1, <3>2, CopyStays
  <2>2. CASE pc[h] \notin Active
    BY <1>3, <2>2, MainLeavesHandlers DEF CopyIsRight
  <2> QED
    BY <2>1, <2>2
<1>4. ASSUME OtherStep, pc'[h] = pc[h], target'[h] = target[h], requested => requested'
      PROVE  CopyIsRight(h)'
  <2>1. CASE pc[h] \in Active
    <3>1. UNCHANGED <<handleOf, open, adopted>>
      BY <1>4, OtherKeeps
    <3>2. \A c \in Children : ~Alive(c) => child'[c] \notin {"suspended", "running"}
      BY <1>4, OtherKeeps DEF Alive
    <3>3. target[h] \in adopted => /\ ~Alive(target[h]) => ~Alive(target[h])'
                                   /\ NamedBy(target[h])' = NamedBy(target[h])
      BY <1>0, <1>4, <3>1, <3>2 DEF Alive, NamedBy
    <3> QED
      BY <1>0, <1>1, <1>4, <3>1, <3>3, CopyStays
  <2>2. CASE pc[h] \notin Active
    BY <1>4, <2>2 DEF CopyIsRight
  <2> QED
    BY <2>1, <2>2
<1>5. CASE WatchdogFires \/ TerminateStep(Watchdog)
  <2>1. pc'[h] = pc[h] /\ target' = target /\ requested' = requested
    BY <1>0, <1>5 DEF WatchdogFires, TerminateStep, TerminateProbe, TerminateGrace, TerminateKill, Terminated
  <2> QED
    BY <1>4, <1>5, <2>1 DEF OtherStep
<1>6. CASE (\E c \in Children : ChildExits(c) \/ ChildForks(c) \/ HelperExits(c)) \/ UNCHANGED vars
  <2>1. pc'[h] = pc[h] /\ target' = target /\ requested' = requested
    BY <1>0, <1>6 DEF ChildExits, ChildForks, HelperExits, vars
  <2> QED
    BY <1>4, <1>6, <2>1 DEF OtherStep
<1>7. ASSUME NEW g \in Handlers, RequestCancellation(g) \/ HandlerStep(g), g # h PROVE CopyIsRight(h)'
  <2>1. pc'[h] = pc[h] /\ target'[h] = target[h] /\ (requested => requested')
    BY <1>0, <1>7 DEF RequestCancellation, HandlerStep, HandlerProbe, HandlerEnterGrace, HandlerGrace,
        HandlerForce, Leave
  <2> QED
    BY <1>4, <1>7, <2>1 DEF OtherStep
<1>8. CASE RequestCancellation(h)
  <2>1. CASE current = None
    BY <1>0, <1>8, <2>1 DEF RequestCancellation, CopyIsRight, Active
  <2>2. CASE current # None
    <3>1. current = calls /\ pc[Main] \in Owning
      BY <2>2 DEF SlotInvariant, SlotScope
    <3>2. calls \in adopted /\ NamedBy(calls) = calls
      BY <3>1 DEF AdoptedScope, SlotInvariant, CallScope, Launched, NamedBy
    <3>3. pc'[h] = "probe" /\ target'[h] = calls /\ requested' /\ UNCHANGED <<adopted, open, handleOf>>
      BY <1>0, <1>8, <2>2, <3>1 DEF RequestCancellation
    <3> QED
      BY <3>2, <3>3 DEF CopyIsRight, NamedBy
  <2> QED
    BY <2>1, <2>2
<1>9. CASE HandlerProbe(h)
  <2>1. CASE Leave(h)
    BY <1>0, <2>1 DEF Leave, CopyIsRight, Active
  <2>2. CASE BreakGroup(target[h]) /\ Goto(h, "enterGrace") /\ UNCHANGED target
    <3>1. pc'[h] = "enterGrace" /\ UNCHANGED <<requested, adopted, open, handleOf, child>>
      BY <1>0, <1>9, <2>2 DEF HandlerProbe
    <3>2. hasConsole => target[h] \in broken' \/ ~Alive(target[h])
      BY <2>2 DEF BreakGroup
    <3>3. pc[h] \in Active
      BY <1>9 DEF HandlerProbe, Active
    <3> QED
      BY <1>0, <1>1, <2>2, <3>1, <3>2, <3>3 DEF CopyIsRight, NamedBy, Alive
  <2> QED
    BY <1>9, <2>1, <2>2 DEF HandlerProbe
<1>10. CASE HandlerEnterGrace(h) \/ HandlerGrace(h)
  <2>1. CASE Leave(h)
    BY <1>0, <2>1 DEF Leave, CopyIsRight, Active
  <2>2. CASE pc'[h] \in {"grace", "force"} /\ UNCHANGED target
    <3>1. UNCHANGED <<requested, adopted, open, handleOf, child, broken>> /\ pc[h] \in {"enterGrace", "grace"}
      BY <1>10 DEF HandlerEnterGrace, HandlerGrace
    <3> QED
      BY <1>0, <1>1, <2>2, <3>1 DEF CopyIsRight, NamedBy, Alive, Active
  <2> QED
    BY <1>0, <1>10, <2>1, <2>2 DEF HandlerEnterGrace, HandlerGrace
<1>11. CASE HandlerForce(h)
  BY <1>0, <1>11 DEF HandlerForce, Leave, CopyIsRight, Active
<1> QED
  BY <1>3, <1>5, <1>6, <1>7, <1>8, <1>9, <1>10, <1>11, StepKinds DEF OtherStep, HandlerStep

-----------------------------------------------------------------------------
(***************************************************************************)
(* Who is killed, and whom a request hits.                                 *)
(***************************************************************************)
KillsOwnChild ==
  ResumeFails \/ RejectChild \/ CloseCall \/ \E t \in {Main, Watchdog} : TerminateKill(t)

\* The handles of the call under way are open, hence name its child.
LEMMA OwnHandle ==
  ASSUME SlotInvariant, pc[Main] \in Launched
  PROVE  calls \in Children /\ NamedBy(calls) = calls
BY DEF SlotInvariant, CallScope, Launched, Owning, Between, NamedBy

LEMMA WhoKills ==
  ASSUME SlotInvariant, [Next]_vars, NEW c \in killed', c \notin killed
  PROVE  /\ Alive(c)
         /\ \/ c = calls /\ KillsOwnChild
            \/ \E h \in Handlers : HandlerForce(h) /\ c = NamedBy(target[h])
<1>1. CASE ResumeFails \/ CloseCall
  BY <1>1 DEF ResumeFails, CloseCall, KillsOwnChild
<1>2. CASE RejectChild
  <2>1. NamedBy(calls) = calls
    BY <1>2, OwnHandle DEF RejectChild, Launched
  <2> QED
    BY <1>2, <2>1 DEF RejectChild, KillThrough, KillsOwnChild
<1>3. ASSUME NEW t \in {Main, Watchdog}, TerminateKill(t)
      PROVE  Alive(c) /\ c = calls /\ KillsOwnChild
  <2>1. pc[Main] \in Launched
    BY <1>3 DEF TerminateKill, Launched, Owning, SlotInvariant, WatchdogScope
  <2>2. NamedBy(calls) = calls
    BY <2>1, OwnHandle
  <2> QED
    BY <1>3, <2>2 DEF TerminateKill, KillThrough, KillsOwnChild
<1>4. CASE \E h \in Handlers : HandlerForce(h)
  BY <1>4 DEF HandlerForce, KillThrough
<1>5. CASE UNCHANGED killed
  BY <1>5
<1>6. CASE OtherStep
  BY <1>3, <1>4, <1>5, <1>6 DEF OtherStep, WatchdogFires, TerminateStep, TerminateGrace, TerminateProbe,
      RequestCancellation, HandlerStep, HandlerProbe, HandlerEnterGrace, HandlerGrace, ChildExits, ChildForks,
      HelperExits, vars
<1>7. CASE MainStep
  BY <1>1, <1>2, <1>3, <1>5, <1>7 DEF MainStep, BeginScanSession, EndCommand, CallStep, StartUtility,
      StartAcquisition, BeginCall, LaunchFails, LaunchChild, ResumeChild, AdoptChild, AdoptRejected,
      WaitSeesExit, WaitTimesOut, Drained, FinishWatchdog, CollectExitCode, ReadCancelFlag, ReleaseChild,
      ClearUtilityCancellation, TerminateStep, TerminateGrace, TerminateProbe
<1> QED
  BY <1>6, <1>7, StepKinds

\* A request stays one.
LEMMA RequestedStays ==
  ASSUME SlotInvariant, [Next]_vars, requested
  PROVE  requested'
<1>1. CASE MainStep
  BY <1>1 DEF MainStep, BeginScanSession, EndCommand, CallStep, StartUtility,
      StartAcquisition, BeginCall, LaunchFails, LaunchChild, ResumeFails, ResumeChild, AdoptChild,
      AdoptRejected, RejectChild, WaitSeesExit, WaitTimesOut, Drained, FinishWatchdog, CollectExitCode,
      ReadCancelFlag, ReleaseChild, ClearUtilityCancellation, CloseCall, TerminateStep, TerminateGrace,
      TerminateProbe, TerminateKill
<1>2. CASE OtherStep
  BY <1>2 DEF OtherStep, WatchdogFires, TerminateStep, TerminateGrace, TerminateProbe, TerminateKill,
      RequestCancellation, HandlerStep, HandlerProbe, HandlerEnterGrace, HandlerGrace, HandlerForce,
      ChildExits, ChildForks, HelperExits, vars
<1> QED
  BY <1>1, <1>2, StepKinds

\* A handler that works is one of a request.
LEMMA WorkingHandler ==
  ASSUME CopyScope, command = "scan", NEW h \in Handlers, pc[h] \in Active
  PROVE  requested /\ target[h] \in adopted
         /\ (NamedBy(target[h]) \in adopted => NamedBy(target[h]) = target[h])
BY DEF CopyScope, Active

LEMMA StepEarly ==
  ASSUME SlotInvariant, CopyScope, EarlyScope, [Next]_vars
  PROVE  EarlyScope'
<1> SUFFICES ASSUME command = "scan", NEW c \in killed'
             PROVE  /\ child'[c] # "none"
                    /\ c = calls' /\ pc'[Main] \in {"resume", "adopt"} => requested'
  BY BrokenGrows DEF EarlyScope
<1>0. /\ pc \in [Threads -> MainStates \union WatchdogStates \union HandlerStates]
      /\ calls \in 0..MaxCalls /\ child \in [Children -> ChildStates]
      /\ pc[Main] \notin Between => calls \in Children
      /\ killed \subseteq Children
  BY Basics DEF SlotInvariant, TypeOK, ChildTypeOK
<1>1. child[c] # "none"
  BY WhoKills DEF EarlyScope, Alive
<1>2. c \in killed /\ c = calls /\ pc[Main] \in {"resume", "adopt"} => requested'
  BY RequestedStays DEF EarlyScope
<1>3. CASE OtherStep
  <2>1. calls' = calls /\ pc'[Main] = pc[Main] /\ child'[c] # "none"
    <3>1. c \in Children
      BY StepOwnership DEF SlotInvariant, TypeOK, ChildTypeOK
    <3> QED
      BY <1>1, <1>3, <3>1, OtherKeeps
  <2>2. ASSUME c \notin killed, pc[Main] \in {"resume", "adopt"}, c = calls PROVE requested'
    <3>1. CASE KillsOwnChild
      <4>1. \E t \in {Main, Watchdog} : TerminateKill(t) \/ ResumeFails
        BY <2>2, <3>1 DEF KillsOwnChild, RejectChild, CloseCall
      <4>2. ~ResumeFails
        BY <1>3, <2>1, <2>2, <1>0 DEF ResumeFails, Return
      <4>3. \A t \in {Main, Watchdog} : ~TerminateKill(t)
        BY <2>2 DEF TerminateKill, SlotInvariant, WatchdogScope
      <4> QED
        BY <4>1, <4>2, <4>3
    <3>2. CASE \E h \in Handlers : HandlerForce(h)
      <4>1. requested
        BY <3>2, WorkingHandler DEF HandlerForce, Active
      <4> QED
        BY <4>1, RequestedStays
    <3> QED
      BY <2>2, <3>1, <3>2, WhoKills
  <2> QED
    BY <1>2, <2>1, <2>2
<1>4. CASE LaunchChild
  <2>1. child[calls] = "none" /\ killed' = killed
    BY <1>0, <1>4 DEF LaunchChild, SlotInvariant, FreshChildren, Between
  <2>2. c # calls /\ calls' = calls /\ c \in Children
    BY <1>0, <1>1, <1>4, <2>1 DEF LaunchChild
  <2> QED
    BY <1>0, <1>1, <1>4, <2>2 DEF LaunchChild
<1>5. CASE ResumeChild
  <2>1. killed' = killed /\ pc[Main] = "resume" /\ calls' = calls /\ calls \in Children /\ c \in Children
    BY <1>0, <1>5 DEF ResumeChild, Between
  <2>2. child'[c] # "none"
    BY <1>0, <1>1, <1>5, <2>1 DEF ResumeChild
  <2> QED
    BY <1>2, <2>1, <2>2
<1>6. CASE MainStep /\ ~LaunchChild /\ ~ResumeChild
  <2>1. child' = child /\ pc'[Main] \notin {"resume", "adopt"}
    BY <1>0, <1>6 DEF MainStep, BeginScanSession, EndCommand, CallStep, StartUtility,
      StartAcquisition, BeginCall, LaunchFails, ResumeFails, AdoptChild, AdoptRejected, RejectChild,
      WaitSeesExit, WaitTimesOut, Drained, FinishWatchdog, CollectExitCode, ReadCancelFlag, ReleaseChild,
      ClearUtilityCancellation, CloseCall, Return, TerminateStep, TerminateGrace, TerminateProbe,
      TerminateKill, Terminated
  <2> QED
    BY <1>1, <2>1
<1> QED
  BY <1>3, <1>4, <1>5, <1>6, StepKinds

-----------------------------------------------------------------------------
(***************************************************************************)
(* The break comes before the kill.                                        *)
(***************************************************************************)
LEMMA StepBreaks ==
  ASSUME SlotInvariant, RequestIsKept, AdoptedScope, AskedScope, CopyScope, EarlyScope,
         ScanBreaksBeforeKill, [Next]_vars
  PROVE  ScanBreaksBeforeKill'
<1> SUFFICES ASSUME command = "scan", hasConsole, NEW c \in adopted', c \in killed'
             PROVE  c \in broken'
  BY BrokenGrows DEF ScanBreaksBeforeKill, BreakBeforeKill
<1>0. broken \subseteq broken'
  BY BrokenGrows
<1>1. CASE c \in adopted /\ c \in killed
  BY <1>0, <1>1 DEF ScanBreaksBeforeKill, BreakBeforeKill
<1>2. CASE c \notin adopted
  <2>1. AdoptChild /\ ~requested
    BY <1>2, OnlyAdoptChildAdopts, NoAdoption
  <2>2. c = calls /\ pc[Main] = "adopt" /\ killed' = killed
    BY <1>2, <2>1 DEF AdoptChild
  <2> QED
    BY <2>1, <2>2 DEF EarlyScope
<1>3. CASE c \in adopted /\ c \notin killed
  <2>1. Alive(c) /\ c = calls /\ pc[Main] \in Owning
    BY <1>3, WhoKills DEF AdoptedScope
  <2>2. CASE KillsOwnChild
    <3>1. PICK t \in {Main, Watchdog} : TerminateKill(t)
      BY <2>1, <2>2 DEF KillsOwnChild, ResumeFails, RejectChild, CloseCall, Owning
    <3> QED
      BY <1>0, <2>1, <3>1 DEF TerminateKill, AskedScope
  <2>3. CASE \E h \in Handlers : HandlerForce(h) /\ c = NamedBy(target[h])
    <3>1. PICK h \in Handlers : HandlerForce(h) /\ c = NamedBy(target[h])
      BY <2>3
    <3>2. pc[h] = "force"
      BY <3>1 DEF HandlerForce
    <3>3. c = target[h]
      BY <1>3, <3>1, <3>2, WorkingHandler DEF Active
    <3>4. c \in broken
      BY <2>1, <3>2, <3>3 DEF CopyScope
    <3> QED
      BY <1>0, <3>4
  <2> QED
    BY <1>3, <2>2, <2>3, WhoKills
<1> QED
  BY <1>1, <1>2, <1>3

-----------------------------------------------------------------------------
(***************************************************************************)
(* The call of an interrupted child.                                       *)
(***************************************************************************)
\* A request hits only while its handler works; the adopted child that it hits is that
\* of the call under way, which waits for it and has reported nothing.
LEMMA WhoIsHit ==
  ASSUME SlotInvariant, AdoptedScope, ReportScope, CopyScope, command = "scan", [Next]_vars,
         NEW c \in cancelHit', c \notin cancelHit
  PROVE  /\ requested /\ OtherStep
         /\ adopted' = adopted
         /\ c \in adopted => c = calls /\ pc[Main] \in Owning \ Ended /\ report[c] = "none"
<1>1. PICK h \in Handlers : \/ HandlerProbe(h) /\ c \in broken' \ broken
                            \/ HandlerForce(h) /\ c \in killed' \ killed
  <2>1. CASE MainStep
    BY <2>1, MainLeavesHandlers DEF MainStep, BeginScanSession, EndCommand, CallStep, StartUtility,
      StartAcquisition, BeginCall, LaunchFails, LaunchChild, ResumeFails, ResumeChild, AdoptChild,
      AdoptRejected, RejectChild, WaitSeesExit, WaitTimesOut, Drained, FinishWatchdog, CollectExitCode,
      ReadCancelFlag, ReleaseChild, ClearUtilityCancellation, CloseCall, TerminateStep, TerminateGrace,
      TerminateProbe, TerminateKill
  <2>2. CASE OtherStep
    BY <2>2 DEF OtherStep, WatchdogFires, TerminateStep, TerminateGrace, TerminateProbe, TerminateKill,
      RequestCancellation, HandlerStep, HandlerProbe, HandlerEnterGrace, HandlerGrace, HandlerForce,
      ChildExits, ChildForks, HelperExits, vars
  <2> QED
    BY <2>1, <2>2, StepKinds
<1>2. pc[h] \in Active
  BY <1>1 DEF HandlerProbe, HandlerForce, Active
<1>3. requested /\ OtherStep /\ adopted' = adopted
  BY <1>1, <1>2, WorkingHandler DEF OtherStep, HandlerStep, HandlerProbe, HandlerForce
<1>4. Alive(c)
  BY <1>1 DEF HandlerProbe, HandlerForce, BreakGroup, KillThrough
<1>5. ASSUME c \in adopted
      PROVE  c = calls /\ pc[Main] \in Owning \ Ended /\ report[c] = "none"
  <2>1. c = calls /\ pc[Main] \in Owning
    BY <1>4, <1>5 DEF AdoptedScope
  <2>2. pc[Main] \notin Ended
    BY <1>4, <2>1 DEF SlotInvariant, CallScope, Alive
  <2> QED
    BY <2>1, <2>2 DEF ReportScope
<1> QED
  BY <1>3, <1>5

\* What the main thread does with the call of a child that was hit.
IsCalledOff(c) ==
  \/ report[c] = "cancelled"
  \/ /\ report[c] = "none" /\ c = calls
     /\ pc[Main] \in Owning \union {"close"}
     /\ pc[Main] \in {"release", "close"} => cancelSeen

LEMMA MainCallsOff ==
  ASSUME SlotInvariant, RequestIsKept, AdoptedScope, command = "scan", requested, MainStep,
         NEW c \in adopted, IsCalledOff(c)
  PROVE  IsCalledOff(c)'
<1>0. /\ pc \in [Threads -> MainStates \union WatchdogStates \union HandlerStates]
      /\ calls \in 0..MaxCalls /\ report \in [Children -> Reports] /\ adopted \subseteq Children
      /\ pc[Main] \notin Between => calls \in Children
  BY Basics
<1>1. CASE /\ UNCHANGED <<calls, report, cancelSeen>>
           /\ pc[Main] \in Owning \union {"close"} => pc'[Main] \in Owning \ {"release"}
  BY <1>1 DEF IsCalledOff, Owning
<1>2. CASE BeginScanSession \/ EndCommand \/ LaunchChild \/ ResumeChild \/ AdoptChild \/ RejectChild
  BY <1>0, <1>1, <1>2 DEF BeginScanSession, EndCommand, LaunchChild, ResumeChild, AdoptChild, RejectChild,
      Owning
<1>3. CASE WaitSeesExit \/ WaitTimesOut \/ Drained \/ FinishWatchdog \/ CollectExitCode \/ TerminateStep(Main)
  BY <1>0, <1>1, <1>3 DEF WaitSeesExit, WaitTimesOut, Drained, FinishWatchdog, CollectExitCode,
      TerminateStep, TerminateProbe, TerminateGrace, TerminateKill, Terminated, Owning
<1>4. CASE StartUtility \/ StartAcquisition
  <2>1. pc[Main] = "ready" /\ c <= calls
    BY <1>4 DEF StartUtility, StartAcquisition, BeginCall, AdoptedScope
  <2>2. report[c] = "cancelled"
    BY <2>1 DEF IsCalledOff, Owning
  <2>3. report' = report \/ \E r : report' = [report EXCEPT ![calls + 1] = r]
    BY <1>4 DEF StartUtility, StartAcquisition, Return
  <2>4. report'[c] = report[c]
    BY <1>0, <2>1, <2>3
  <2> QED
    BY <2>2, <2>4 DEF IsCalledOff
<1>5. CASE LaunchFails \/ ResumeFails \/ AdoptRejected
  <2>1. calls \notin adopted /\ pc[Main] \in {"launch", "resume", "adopt"}
    BY <1>5 DEF LaunchFails, ResumeFails, AdoptRejected, AdoptedScope
  <2>2. \E r : report' = [report EXCEPT ![calls] = r]
    BY <1>5 DEF LaunchFails, ResumeFails, AdoptRejected, Return
  <2>3. report'[c] = "cancelled"
    BY <1>0, <2>1, <2>2 DEF IsCalledOff, Owning
  <2> QED
    BY <2>3 DEF IsCalledOff
<1>6. CASE ReadCancelFlag
  <2>1. cancelSeen' /\ pc[Main] = "flag" /\ pc'[Main] = "release" /\ UNCHANGED <<calls, report>>
    BY <1>0, <1>6 DEF ReadCancelFlag, RequestIsKept
  <2> QED
    BY <2>1 DEF IsCalledOff, Owning
<1>7. CASE ReleaseChild
  BY <1>0, <1>7 DEF ReleaseChild, IsCalledOff, Owning
<1>8. CASE ClearUtilityCancellation
  BY <1>0, <1>8 DEF ClearUtilityCancellation, IsCalledOff, Owning
<1>9. CASE CloseCall
  <2>1. PICK r \in {"ok", "failed"} : report' = [report EXCEPT ![calls] = Verdict(r)]
    BY <1>9 DEF CloseCall, Return
  <2>2. pc[Main] = "close"
    BY <1>9 DEF CloseCall
  <2>3. c = calls => Verdict(r) = "cancelled"
    BY <2>2 DEF Verdict, IsCalledOff
  <2>4. report'[c] = "cancelled"
    BY <1>0, <2>1, <2>3 DEF IsCalledOff
  <2> QED
    BY <2>4 DEF IsCalledOff
<1> QED
  BY <1>2, <1>3, <1>4, <1>5, <1>6, <1>7, <1>8, <1>9 DEF MainStep, CallStep

LEMMA StepHit ==
  ASSUME SlotInvariant, RequestIsKept, AdoptedScope, ReportScope, CopyScope, HitScope, [Next]_vars
  PROVE  HitScope'
<1> SUFFICES ASSUME command = "scan", NEW c \in cancelHit'
             PROVE  requested' /\ (c \in adopted' => IsCalledOff(c)')
  BY BrokenGrows DEF HitScope, IsCalledOff
<1>1. CASE c \notin cancelHit
  <2>1. requested'
    BY <1>1, WhoIsHit, RequestedStays
  <2>2. c \in adopted => IsCalledOff(c)'
    BY <1>1, WhoIsHit, OtherKeeps DEF IsCalledOff, Owning, Ended
  <2> QED
    BY <1>1, <2>1, <2>2, WhoIsHit
<1>2. CASE c \in cancelHit
  <2>1. requested /\ requested' /\ adopted' = adopted
    BY <1>2, NoAdoption, RequestedStays DEF HitScope
  <2>2. c \in adopted => IsCalledOff(c)
    BY <1>2 DEF HitScope, IsCalledOff
  <2>3. OtherStep => UNCHANGED <<calls, report, cancelSeen>> /\ pc'[Main] = pc[Main]
    BY OtherKeeps
  <2>4. OtherStep /\ c \in adopted => IsCalledOff(c)'
    BY <2>2, <2>3 DEF IsCalledOff
  <2>5. MainStep /\ c \in adopted => IsCalledOff(c)'
    BY <2>1, <2>2, MainCallsOff
  <2> QED
    BY <2>1, <2>4, <2>5, StepKinds
<1> QED
  BY <1>1, <1>2

-----------------------------------------------------------------------------
LEMMA InitScan ==
  ASSUME Init
  PROVE  /\ RequestIsKept /\ AdoptedScope /\ ReportScope /\ AskedScope /\ CopyScope /\ EarlyScope
         /\ HitScope /\ ScanBreaksBeforeKill
<1>1. /\ pc[Main] \in {"start", "ready"} /\ pc[Watchdog] = "off"
      /\ \A h \in Handlers : pc[h] = "idle"
  BY DEF Init
<1> QED
  BY <1>1 DEF Init, RequestIsKept, AdoptedScope, ReportScope, AskedScope, CopyScope, EarlyScope, HitScope,
      ScanBreaksBeforeKill, BreakBeforeKill, Owning

\* The invariant of the ownership protocol (cancel.cpp and child.cpp) holds in every
\* reachable state, for any number of calls, console events and handle values.
THEOREM OwnershipIsInvariant == Spec => []OwnershipInvariant
<1>1. Init => OwnershipInvariant
  BY InitOwnership, InitScan DEF OwnershipInvariant
<1>2. OwnershipInvariant /\ [Next]_vars => OwnershipInvariant'
  BY StepOwnership, StepKeepsRequest, StepAdopted, StepReport, StepAsked, StepCopy, StepEarly, StepHit,
     StepBreaks
  DEF OwnershipInvariant
<1> QED
  BY <1>1, <1>2, PTL DEF Spec

\* cancel.cpp:39-97 and child.cpp: in a scan, a call whose child a cancellation broke or
\* killed reports Cancelled, also when its deadline passed at the same time.
THEOREM InterruptedScanCallIsCancelled == Spec => []InterruptedCallIsCancelled
<1>1. OwnershipInvariant => InterruptedCallIsCancelled
  BY DEF OwnershipInvariant, HitScope, InterruptedCallIsCancelled
<1> QED
  BY <1>1, OwnershipIsInvariant, PTL

\* "Keep the order" (cancel.h): in a scan no adopted child that shares a console with the
\* adapter is killed, by whichever thread, before it was sent CTRL_BREAK.
THEOREM ScanAsksFirst == Spec => []ScanBreaksBeforeKill
<1>1. OwnershipInvariant => ScanBreaksBeforeKill
  BY DEF OwnershipInvariant
<1> QED
  BY <1>1, OwnershipIsInvariant, PTL
=============================================================================
