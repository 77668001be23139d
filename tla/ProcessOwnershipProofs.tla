----------------------- MODULE ProcessOwnershipProofs -----------------------
(***************************************************************************)
(* ProcessOwnership for every number of calls, console events and handle   *)
(* values: the invariant of the ownership protocol is inductive, the       *)
(* safety properties follow from it, and the protocol implements the slot  *)
(* discipline of ChildSlot.                                                *)
(*                                                                         *)
(* One lemma per action shows that the action keeps the invariant, with    *)
(* one step for the conjuncts whose variables the action leaves alone and  *)
(* one for each conjunct it could disturb.                                 *)
(***************************************************************************)
EXTENDS ProcessOwnership, TLAPS

USE OwnershipAssumption
    DEF At, Goto, Children, Threads, Main, Watchdog, None,
        commandVars, callVars, ownerVars, childVars, threadVars, historyVars

\* A stored handle value names a child or nothing.
LEMMA NamedByType ==
  ASSUME ChildTypeOK, NEW c \in Children
  PROVE  NamedBy(c) \in Children \union {None}
BY DEF ChildTypeOK, NamedBy

\* The main thread goes from one of its states to another.
LEMMA MainMoves ==
  ASSUME ThreadTypeOK, NEW s \in MainStates,
         pc' = [pc EXCEPT ![Main] = s], UNCHANGED <<target, waitee>>
  PROVE  ThreadTypeOK'
<1>1. Main \in Threads /\ Main # Watchdog /\ \A h \in Handlers : h \in Threads /\ h # Main
  OBVIOUS
<1> QED
  BY <1>1 DEF ThreadTypeOK

\* The watchdog goes from one of its states to another.
LEMMA WatchdogMoves ==
  ASSUME ThreadTypeOK, NEW s \in WatchdogStates,
         pc' = [pc EXCEPT ![Watchdog] = s], UNCHANGED <<target, waitee>>
  PROVE  ThreadTypeOK'
<1>1. Watchdog \in Threads /\ Main # Watchdog /\ \A h \in Handlers : h \in Threads /\ h # Watchdog
  OBVIOUS
<1> QED
  BY <1>1 DEF ThreadTypeOK

\* Opening the session happens between calls, with the slot empty, so forgetting a
\* dead current_ changes nothing.
LEMMA BeginScanSessionKeeps ==
  ASSUME SlotInvariant, BeginScanSession
  PROVE  SlotInvariant'
<1>1. CommandTypeOK' /\ CallTypeOK' /\ ChildTypeOK' /\ HistoryTypeOK' /\ NeverBusy' /\ ExitCodeIsFinal'
  BY DEF SlotInvariant, TypeOK, BeginScanSession, CurrentIfAlive,
      StillRunning, CommandTypeOK, CallTypeOK, ChildTypeOK, HistoryTypeOK,
      NeverBusy, ExitCodeIsFinal, Alive
<1>2. OwnerTypeOK'
  BY DEF SlotInvariant, TypeOK, BeginScanSession, CurrentIfAlive,
      StillRunning, OwnerTypeOK, CommandTypeOK
<1>3. ThreadTypeOK'
  <2>1. \E s \in {"ready", "done"} : pc' = [pc EXCEPT ![Main] = s]
    BY DEF BeginScanSession
  <2>2. UNCHANGED <<target, waitee>>
    BY DEF BeginScanSession
  <2> QED
    BY <2>1, <2>2, MainMoves DEF SlotInvariant, TypeOK, MainStates
<1>4. CallScope'
  BY DEF SlotInvariant, TypeOK, BeginScanSession, CurrentIfAlive,
      StillRunning, CallScope, CommandTypeOK, ChildTypeOK, ThreadTypeOK,
      Between, Owning, Ended, Launched
<1>5. WatchdogScope'
  BY DEF SlotInvariant, TypeOK, BeginScanSession, CurrentIfAlive,
      StillRunning, WatchdogScope, ThreadTypeOK
<1>6. HandlerScope'
  BY DEF SlotInvariant, TypeOK, BeginScanSession, CurrentIfAlive,
      StillRunning, HandlerScope, ThreadTypeOK
<1>7. SlotScope'
  BY DEF SlotInvariant, TypeOK, BeginScanSession, CurrentIfAlive,
      StillRunning, SlotScope, ThreadTypeOK, OwnerTypeOK, Owning
<1>8. SessionScope'
  BY DEF SlotInvariant, TypeOK, BeginScanSession, CurrentIfAlive,
      StillRunning, SessionScope, ThreadTypeOK, OwnerTypeOK
<1>9. FreshChildren'
  BY DEF SlotInvariant, TypeOK, BeginScanSession, CurrentIfAlive,
      StillRunning, FreshChildren, CommandTypeOK, ChildTypeOK, ThreadTypeOK,
      Alive
<1>10. NoneLeft'
  BY DEF SlotInvariant, TypeOK, BeginScanSession, CurrentIfAlive,
      StillRunning, NoneLeft, FreshChildren, CommandTypeOK, ChildTypeOK,
      ThreadTypeOK, CallScope, Alive, Between, Ended
<1>11. DyingIsRefused'
  BY DEF SlotInvariant, TypeOK, BeginScanSession, CurrentIfAlive,
      StillRunning, DyingIsRefused, CommandTypeOK, CallTypeOK, ChildTypeOK,
      ThreadTypeOK, OwnerTypeOK, SessionScope, SlotScope, CallScope, Owning,
      Launched, Between, Ended, LastReport
<1> QED
  BY <1>1, <1>2, <1>3, <1>4, <1>5, <1>6, <1>7, <1>8, <1>9, <1>10, <1>11
  DEF SlotInvariant, TypeOK

\* Closing the session drops the flag and the lock only when no call is under way.
LEMMA EndCommandKeeps ==
  ASSUME SlotInvariant, EndCommand
  PROVE  SlotInvariant'
<1>1. CommandTypeOK' /\ CallTypeOK' /\ ChildTypeOK' /\ HistoryTypeOK' /\ NeverBusy' /\ ExitCodeIsFinal'
  BY DEF SlotInvariant, TypeOK, EndCommand, CurrentIfAlive, StillRunning,
      CommandTypeOK, CallTypeOK, ChildTypeOK, HistoryTypeOK, NeverBusy,
      ExitCodeIsFinal, Alive
<1>2. OwnerTypeOK'
  <2>1. CASE command = "scan"
    <3>1. CurrentIfAlive \in {current, None}
      BY DEF CurrentIfAlive
    <3>2. /\ current' = CurrentIfAlive
          /\ session' = None /\ cancelRequested' = FALSE /\ machineLock' = FALSE
          /\ UNCHANGED <<nextSession, forced>>
      BY <2>1 DEF EndCommand
    <3> QED
      BY <3>1, <3>2 DEF SlotInvariant, TypeOK, OwnerTypeOK
  <2>2. CASE command # "scan"
    BY <2>2 DEF SlotInvariant, TypeOK, EndCommand, OwnerTypeOK
  <2> QED
    BY <2>1, <2>2
<1>3. ThreadTypeOK'
  BY DEF SlotInvariant, TypeOK, EndCommand, CurrentIfAlive, StillRunning,
      ThreadTypeOK, OwnerTypeOK, ChildTypeOK, MainStates, WatchdogStates,
      HandlerStates
<1>4. CallScope'
  BY DEF SlotInvariant, TypeOK, EndCommand, CurrentIfAlive, StillRunning,
      CallScope, CommandTypeOK, ChildTypeOK, ThreadTypeOK, Between, Owning,
      Ended, Launched
<1>5. WatchdogScope'
  BY DEF SlotInvariant, TypeOK, EndCommand, CurrentIfAlive, StillRunning,
      WatchdogScope, ThreadTypeOK
<1>6. HandlerScope'
  BY DEF SlotInvariant, TypeOK, EndCommand, CurrentIfAlive, StillRunning,
      HandlerScope, ThreadTypeOK
<1>7. SlotScope'
  BY DEF SlotInvariant, TypeOK, EndCommand, CurrentIfAlive, StillRunning,
      SlotScope, ThreadTypeOK, OwnerTypeOK, Owning
<1>8. SessionScope'
  BY DEF SlotInvariant, TypeOK, EndCommand, CurrentIfAlive, StillRunning,
      SessionScope, ThreadTypeOK, OwnerTypeOK
<1>9. FreshChildren'
  BY DEF SlotInvariant, TypeOK, EndCommand, CurrentIfAlive, StillRunning,
      FreshChildren, CommandTypeOK, ChildTypeOK, ThreadTypeOK, Alive
<1>10. NoneLeft'
  BY DEF SlotInvariant, TypeOK, EndCommand, CurrentIfAlive, StillRunning,
      NoneLeft, FreshChildren, CommandTypeOK, ChildTypeOK, ThreadTypeOK,
      CallScope, Alive, Between, Ended
<1>11. DyingIsRefused'
  BY DEF SlotInvariant, TypeOK, EndCommand, CurrentIfAlive, StillRunning,
      DyingIsRefused, CommandTypeOK, CallTypeOK, ChildTypeOK, ThreadTypeOK,
      OwnerTypeOK, SessionScope, SlotScope, CallScope, Owning, Launched,
      Between, Ended, LastReport
<1> QED
  BY <1>1, <1>2, <1>3, <1>4, <1>5, <1>6, <1>7, <1>8, <1>9, <1>10, <1>11
  DEF SlotInvariant, TypeOK

\* runScanimage checks the flag before it launches, so no earlier child can still
\* be running when it goes on to launchChild.
LEMMA StartUtilityKeeps ==
  ASSUME SlotInvariant, StartUtility
  PROVE  SlotInvariant'
<1>1. OwnerTypeOK' /\ ChildTypeOK' /\ ExitCodeIsFinal'
  BY DEF SlotInvariant, TypeOK, StartUtility, BeginCall, Return,
      OwnerTypeOK, ChildTypeOK, ExitCodeIsFinal, Alive
<1>2. CommandTypeOK'
  BY DEF SlotInvariant, TypeOK, StartUtility, BeginCall, Return,
      CommandTypeOK
<1>3. CallTypeOK'
  BY DEF SlotInvariant, TypeOK, StartUtility, BeginCall, Return, CallTypeOK,
      Reports, CommandTypeOK, OwnerTypeOK
<1>4. ThreadTypeOK'
  <2>1. \E s \in {"ready", "launch"} : pc' = [pc EXCEPT ![Main] = s]
    BY DEF StartUtility, BeginCall, Return
  <2>2. UNCHANGED <<target, waitee>>
    BY DEF StartUtility, BeginCall, Return
  <2> QED
    BY <2>1, <2>2, MainMoves DEF SlotInvariant, TypeOK, MainStates
<1>5. HistoryTypeOK'
  BY DEF SlotInvariant, TypeOK, StartUtility, BeginCall, Return,
      HistoryTypeOK, CommandTypeOK, ChildTypeOK, OwnerTypeOK
<1>6. CallScope'
  BY DEF SlotInvariant, TypeOK, StartUtility, BeginCall, Return, CallScope,
      CommandTypeOK, ChildTypeOK, ThreadTypeOK, Between, Owning, Ended,
      Launched
<1>7. WatchdogScope'
  BY DEF SlotInvariant, TypeOK, StartUtility, BeginCall, Return,
      WatchdogScope, ThreadTypeOK
<1>8. HandlerScope'
  BY DEF SlotInvariant, TypeOK, StartUtility, BeginCall, Return,
      HandlerScope, ThreadTypeOK
<1>9. SlotScope'
  BY DEF SlotInvariant, TypeOK, StartUtility, BeginCall, Return, SlotScope,
      ThreadTypeOK, OwnerTypeOK, Owning
<1>10. SessionScope'
  BY DEF SlotInvariant, TypeOK, StartUtility, BeginCall, Return,
      SessionScope, ThreadTypeOK, OwnerTypeOK
<1>11. FreshChildren'
  BY DEF SlotInvariant, TypeOK, StartUtility, BeginCall, Return,
      FreshChildren, CommandTypeOK, ChildTypeOK, ThreadTypeOK, Alive
<1>12. NoneLeft'
  BY DEF SlotInvariant, TypeOK, StartUtility, BeginCall, Return, NoneLeft,
      FreshChildren, CommandTypeOK, ChildTypeOK, ThreadTypeOK, CallScope,
      Alive, Between, Ended
<1>13. DyingIsRefused'
  BY DEF SlotInvariant, TypeOK, StartUtility, BeginCall, Return,
      DyingIsRefused, CommandTypeOK, CallTypeOK, ChildTypeOK, ThreadTypeOK,
      OwnerTypeOK, SessionScope, SlotScope, CallScope, Owning, Launched,
      Between, Ended, LastReport
<1>14. NeverBusy'
  BY DEF SlotInvariant, TypeOK, StartUtility, BeginCall, Return, NeverBusy,
      CallTypeOK, ThreadTypeOK, CallScope, SessionScope, SlotScope, Owning
<1> QED
  BY <1>1, <1>2, <1>3, <1>4, <1>5, <1>6, <1>7, <1>8, <1>9, <1>10, <1>11, <1>12, <1>13, <1>14
  DEF SlotInvariant, TypeOK

\* An acquisition never follows a cancelled call, which is the only kind of call
\* that leaves a dying child behind.
LEMMA StartAcquisitionKeeps ==
  ASSUME SlotInvariant, StartAcquisition
  PROVE  SlotInvariant'
<1>1. OwnerTypeOK' /\ ChildTypeOK' /\ HistoryTypeOK' /\ NeverBusy' /\ ExitCodeIsFinal'
  BY DEF SlotInvariant, TypeOK, StartAcquisition, BeginCall, OwnerTypeOK,
      ChildTypeOK, HistoryTypeOK, NeverBusy, ExitCodeIsFinal, Alive
<1>2. CommandTypeOK'
  BY DEF SlotInvariant, TypeOK, StartAcquisition, BeginCall, CommandTypeOK
<1>3. CallTypeOK'
  BY DEF SlotInvariant, TypeOK, StartAcquisition, BeginCall, CallTypeOK,
      Reports, CommandTypeOK, OwnerTypeOK
<1>4. ThreadTypeOK'
  BY DEF SlotInvariant, TypeOK, StartAcquisition, BeginCall, ThreadTypeOK,
      OwnerTypeOK, ChildTypeOK, MainStates, WatchdogStates, HandlerStates
<1>5. CallScope'
  BY DEF SlotInvariant, TypeOK, StartAcquisition, BeginCall, CallScope,
      CommandTypeOK, ChildTypeOK, ThreadTypeOK, Between, Owning, Ended,
      Launched
<1>6. WatchdogScope'
  BY DEF SlotInvariant, TypeOK, StartAcquisition, BeginCall, WatchdogScope,
      ThreadTypeOK
<1>7. HandlerScope'
  BY DEF SlotInvariant, TypeOK, StartAcquisition, BeginCall, HandlerScope,
      ThreadTypeOK
<1>8. SlotScope'
  BY DEF SlotInvariant, TypeOK, StartAcquisition, BeginCall, SlotScope,
      ThreadTypeOK, OwnerTypeOK, Owning
<1>9. SessionScope'
  BY DEF SlotInvariant, TypeOK, StartAcquisition, BeginCall, SessionScope,
      ThreadTypeOK, OwnerTypeOK
<1>10. FreshChildren'
  BY DEF SlotInvariant, TypeOK, StartAcquisition, BeginCall, FreshChildren,
      CommandTypeOK, ChildTypeOK, ThreadTypeOK, Alive
<1>11. NoneLeft'
  BY DEF SlotInvariant, TypeOK, StartAcquisition, BeginCall, NoneLeft,
      FreshChildren, CommandTypeOK, ChildTypeOK, ThreadTypeOK, CallScope,
      Alive, Between, Ended
<1>12. DyingIsRefused'
  BY DEF SlotInvariant, TypeOK, StartAcquisition, BeginCall, DyingIsRefused,
      CommandTypeOK, CallTypeOK, ChildTypeOK, ThreadTypeOK, OwnerTypeOK,
      SessionScope, SlotScope, CallScope, Owning, Launched, Between, Ended,
      LastReport
<1> QED
  BY <1>1, <1>2, <1>3, <1>4, <1>5, <1>6, <1>7, <1>8, <1>9, <1>10, <1>11, <1>12
  DEF SlotInvariant, TypeOK

\* A launch that fails leaves no child and no handle.
LEMMA LaunchFailsKeeps ==
  ASSUME SlotInvariant, LaunchFails
  PROVE  SlotInvariant'
<1>1. CommandTypeOK' /\ OwnerTypeOK' /\ ChildTypeOK' /\ HistoryTypeOK' /\ ExitCodeIsFinal'
  BY DEF SlotInvariant, TypeOK, LaunchFails, Return, CommandTypeOK,
      OwnerTypeOK, ChildTypeOK, HistoryTypeOK, ExitCodeIsFinal, Alive
<1>2. CallTypeOK'
  BY DEF SlotInvariant, TypeOK, LaunchFails, Return, CallTypeOK, Reports,
      CommandTypeOK, OwnerTypeOK
<1>3. ThreadTypeOK'
  BY DEF SlotInvariant, TypeOK, LaunchFails, Return, ThreadTypeOK,
      OwnerTypeOK, ChildTypeOK, MainStates, WatchdogStates, HandlerStates
<1>4. CallScope'
  BY DEF SlotInvariant, TypeOK, LaunchFails, Return, CallScope,
      CommandTypeOK, ChildTypeOK, ThreadTypeOK, Between, Owning, Ended,
      Launched
<1>5. WatchdogScope'
  BY DEF SlotInvariant, TypeOK, LaunchFails, Return, WatchdogScope,
      ThreadTypeOK
<1>6. HandlerScope'
  BY DEF SlotInvariant, TypeOK, LaunchFails, Return, HandlerScope,
      ThreadTypeOK
<1>7. SlotScope'
  BY DEF SlotInvariant, TypeOK, LaunchFails, Return, SlotScope,
      ThreadTypeOK, OwnerTypeOK, Owning
<1>8. SessionScope'
  BY DEF SlotInvariant, TypeOK, LaunchFails, Return, SessionScope,
      ThreadTypeOK, OwnerTypeOK
<1>9. FreshChildren'
  BY DEF SlotInvariant, TypeOK, LaunchFails, Return, FreshChildren,
      CommandTypeOK, ChildTypeOK, ThreadTypeOK, Alive
<1>10. NoneLeft'
  BY DEF SlotInvariant, TypeOK, LaunchFails, Return, NoneLeft,
      FreshChildren, CommandTypeOK, ChildTypeOK, ThreadTypeOK, CallScope,
      Alive, Between, Ended
<1>11. DyingIsRefused'
  BY DEF SlotInvariant, TypeOK, LaunchFails, Return, DyingIsRefused,
      CommandTypeOK, CallTypeOK, ChildTypeOK, ThreadTypeOK, OwnerTypeOK,
      SessionScope, SlotScope, CallScope, Owning, Launched, Between, Ended,
      LastReport
<1>12. NeverBusy'
  BY DEF SlotInvariant, TypeOK, LaunchFails, Return, NeverBusy, CallTypeOK,
      ThreadTypeOK, CallScope, SessionScope, SlotScope, Owning
<1> QED
  BY <1>1, <1>2, <1>3, <1>4, <1>5, <1>6, <1>7, <1>8, <1>9, <1>10, <1>11, <1>12
  DEF SlotInvariant, TypeOK

\* CREATE_SUSPENDED creates the call's child, with a handle value no other open
\* handle has.
LEMMA LaunchChildKeeps ==
  ASSUME SlotInvariant, LaunchChild
  PROVE  SlotInvariant'
<1>1. calls \in Children
  BY DEF SlotInvariant, TypeOK, CommandTypeOK, CallScope, WatchdogScope, Between, LaunchChild
<1>2. CommandTypeOK' /\ CallTypeOK' /\ OwnerTypeOK' /\ HistoryTypeOK' /\ NeverBusy' /\ ExitCodeIsFinal'
  BY <1>1
  DEF SlotInvariant, TypeOK, LaunchChild, CommandTypeOK, CallTypeOK,
      OwnerTypeOK, HistoryTypeOK, NeverBusy, ExitCodeIsFinal, Alive
<1>3. ChildTypeOK'
  <2>1. PICK h \in Handles, jobs \in {{}, {calls}} :
          /\ open' = [open EXCEPT ![h] = calls]
          /\ handleOf' = [handleOf EXCEPT ![calls] = h]
          /\ hasJob' = hasJob \union jobs
    BY DEF LaunchChild
  <2>2. hasJob' \subseteq Children
    BY <1>1, <2>1 DEF SlotInvariant, TypeOK, ChildTypeOK
  <2>3. /\ handleOf' \in [Children -> Handles \union {None}]
        /\ open' \in [Handles -> Children \union {None}]
    BY <1>1, <2>1 DEF SlotInvariant, TypeOK, ChildTypeOK
  <2>4. child' \in [Children -> ChildStates]
    BY <1>1 DEF SlotInvariant, TypeOK, ChildTypeOK, ChildStates, LaunchChild
  <2> QED
    BY <2>2, <2>3, <2>4 DEF SlotInvariant, TypeOK, ChildTypeOK, LaunchChild
<1>4. ThreadTypeOK'
  BY <1>1
  DEF SlotInvariant, TypeOK, LaunchChild, ThreadTypeOK, OwnerTypeOK,
      ChildTypeOK, MainStates, WatchdogStates, HandlerStates
<1>5. CallScope'
  BY <1>1
  DEF SlotInvariant, TypeOK, LaunchChild, CallScope, CommandTypeOK,
      ChildTypeOK, ThreadTypeOK, Between, Owning, Ended, Launched
<1>6. WatchdogScope'
  BY <1>1
  DEF SlotInvariant, TypeOK, LaunchChild, WatchdogScope, ThreadTypeOK
<1>7. HandlerScope'
  BY <1>1
  DEF SlotInvariant, TypeOK, LaunchChild, HandlerScope, ThreadTypeOK
<1>8. SlotScope'
  BY <1>1
  DEF SlotInvariant, TypeOK, LaunchChild, SlotScope, ThreadTypeOK,
      OwnerTypeOK, Owning
<1>9. SessionScope'
  BY <1>1
  DEF SlotInvariant, TypeOK, LaunchChild, SessionScope, ThreadTypeOK,
      OwnerTypeOK
<1>10. FreshChildren'
  BY <1>1
  DEF SlotInvariant, TypeOK, LaunchChild, FreshChildren, CommandTypeOK,
      ChildTypeOK, ThreadTypeOK, Alive
<1>11. NoneLeft'
  BY <1>1
  DEF SlotInvariant, TypeOK, LaunchChild, NoneLeft, FreshChildren,
      CommandTypeOK, ChildTypeOK, ThreadTypeOK, CallScope, Alive, Between,
      Ended
<1>12. DyingIsRefused'
  BY <1>1
  DEF SlotInvariant, TypeOK, LaunchChild, DyingIsRefused, CommandTypeOK,
      CallTypeOK, ChildTypeOK, ThreadTypeOK, OwnerTypeOK, SessionScope,
      SlotScope, CallScope, Owning, Launched, Between, Ended, LastReport
<1> QED
  BY <1>2, <1>3, <1>4, <1>5, <1>6, <1>7, <1>8, <1>9, <1>10, <1>11, <1>12
  DEF SlotInvariant, TypeOK

\* A child that cannot be resumed is terminated before its handles close.
LEMMA ResumeFailsKeeps ==
  ASSUME SlotInvariant, ResumeFails
  PROVE  SlotInvariant'
<1>1. calls \in Children
  BY DEF SlotInvariant, TypeOK, CommandTypeOK, CallScope, WatchdogScope, Between, ResumeFails
<1>2. CommandTypeOK' /\ OwnerTypeOK' /\ HistoryTypeOK' /\ ExitCodeIsFinal'
  BY <1>1
  DEF SlotInvariant, TypeOK, ResumeFails, CloseHandles, Return,
      CommandTypeOK, OwnerTypeOK, HistoryTypeOK, ExitCodeIsFinal, Alive
<1>3. CallTypeOK'
  BY <1>1
  DEF SlotInvariant, TypeOK, ResumeFails, CloseHandles, Return,
      CallTypeOK, Reports, CommandTypeOK, OwnerTypeOK
<1>4. ChildTypeOK'
  BY <1>1
  DEF SlotInvariant, TypeOK, ResumeFails, CloseHandles, Return,
      ChildTypeOK, CommandTypeOK, ThreadTypeOK, ChildStates
<1>5. ThreadTypeOK'
  BY <1>1
  DEF SlotInvariant, TypeOK, ResumeFails, CloseHandles, Return,
      ThreadTypeOK, OwnerTypeOK, ChildTypeOK, MainStates, WatchdogStates,
      HandlerStates
<1>6. CallScope'
  BY <1>1
  DEF SlotInvariant, TypeOK, ResumeFails, CloseHandles, Return,
      CallScope, CommandTypeOK, ChildTypeOK, ThreadTypeOK, Between, Owning,
      Ended, Launched
<1>7. WatchdogScope'
  BY <1>1
  DEF SlotInvariant, TypeOK, ResumeFails, CloseHandles, Return,
      WatchdogScope, ThreadTypeOK
<1>8. HandlerScope'
  BY <1>1
  DEF SlotInvariant, TypeOK, ResumeFails, CloseHandles, Return,
      HandlerScope, ThreadTypeOK
<1>9. SlotScope'
  BY <1>1
  DEF SlotInvariant, TypeOK, ResumeFails, CloseHandles, Return,
      SlotScope, ThreadTypeOK, OwnerTypeOK, Owning
<1>10. SessionScope'
  BY <1>1
  DEF SlotInvariant, TypeOK, ResumeFails, CloseHandles, Return,
      SessionScope, ThreadTypeOK, OwnerTypeOK
<1>11. FreshChildren'
  BY <1>1
  DEF SlotInvariant, TypeOK, ResumeFails, CloseHandles, Return,
      FreshChildren, CommandTypeOK, ChildTypeOK, ThreadTypeOK, Alive
<1>12. NoneLeft'
  BY <1>1
  DEF SlotInvariant, TypeOK, ResumeFails, CloseHandles, Return, NoneLeft,
      FreshChildren, CommandTypeOK, ChildTypeOK, ThreadTypeOK, CallScope,
      Alive, Between, Ended
<1>13. DyingIsRefused'
  BY <1>1
  DEF SlotInvariant, TypeOK, ResumeFails, CloseHandles, Return,
      DyingIsRefused, CommandTypeOK, CallTypeOK, ChildTypeOK, ThreadTypeOK,
      OwnerTypeOK, SessionScope, SlotScope, CallScope, Owning, Launched,
      Between, Ended, LastReport
<1>14. NeverBusy'
  BY <1>1
  DEF SlotInvariant, TypeOK, ResumeFails, CloseHandles, Return,
      NeverBusy, CallTypeOK, ThreadTypeOK, CallScope, SessionScope, SlotScope,
      Owning
<1> QED
  BY <1>2, <1>3, <1>4, <1>5, <1>6, <1>7, <1>8, <1>9, <1>10, <1>11, <1>12, <1>13, <1>14
  DEF SlotInvariant, TypeOK

\* Resuming makes the call's child the only running one.
LEMMA ResumeChildKeeps ==
  ASSUME SlotInvariant, ResumeChild
  PROVE  SlotInvariant'
<1>1. CommandTypeOK' /\ CallTypeOK' /\ OwnerTypeOK' /\ HistoryTypeOK' /\ NeverBusy' /\ ExitCodeIsFinal'
  BY DEF SlotInvariant, TypeOK, ResumeChild, CommandTypeOK, CallTypeOK,
      OwnerTypeOK, HistoryTypeOK, NeverBusy, ExitCodeIsFinal, Alive
<1>2. ChildTypeOK'
  BY DEF SlotInvariant, TypeOK, ResumeChild, ChildTypeOK, CommandTypeOK,
      ThreadTypeOK, ChildStates
<1>3. ThreadTypeOK'
  BY DEF SlotInvariant, TypeOK, ResumeChild, ThreadTypeOK, OwnerTypeOK,
      ChildTypeOK, MainStates, WatchdogStates, HandlerStates
<1>4. CallScope'
  BY DEF SlotInvariant, TypeOK, ResumeChild, CallScope, CommandTypeOK,
      ChildTypeOK, ThreadTypeOK, Between, Owning, Ended, Launched
<1>5. WatchdogScope'
  BY DEF SlotInvariant, TypeOK, ResumeChild, WatchdogScope, ThreadTypeOK
<1>6. HandlerScope'
  BY DEF SlotInvariant, TypeOK, ResumeChild, HandlerScope, ThreadTypeOK
<1>7. SlotScope'
  BY DEF SlotInvariant, TypeOK, ResumeChild, SlotScope, ThreadTypeOK,
      OwnerTypeOK, Owning
<1>8. SessionScope'
  BY DEF SlotInvariant, TypeOK, ResumeChild, SessionScope, ThreadTypeOK,
      OwnerTypeOK
<1>9. FreshChildren'
  BY DEF SlotInvariant, TypeOK, ResumeChild, FreshChildren, CommandTypeOK,
      ChildTypeOK, ThreadTypeOK, Alive
<1>10. NoneLeft'
  BY DEF SlotInvariant, TypeOK, ResumeChild, NoneLeft, FreshChildren,
      CommandTypeOK, ChildTypeOK, ThreadTypeOK, CallScope, Alive, Between,
      Ended
<1>11. DyingIsRefused'
  BY DEF SlotInvariant, TypeOK, ResumeChild, DyingIsRefused, CommandTypeOK,
      CallTypeOK, ChildTypeOK, ThreadTypeOK, OwnerTypeOK, SessionScope,
      SlotScope, CallScope, Owning, Launched, Between, Ended, LastReport
<1> QED
  BY <1>1, <1>2, <1>3, <1>4, <1>5, <1>6, <1>7, <1>8, <1>9, <1>10, <1>11
  DEF SlotInvariant, TypeOK

\* adoptChild fills the slot with the call's child.
LEMMA AdoptChildKeeps ==
  ASSUME SlotInvariant, AdoptChild
  PROVE  SlotInvariant'
<1>1. calls \in Children
  BY DEF SlotInvariant, TypeOK, CommandTypeOK, CallScope, WatchdogScope, Between, AdoptChild
<1>2. CommandTypeOK' /\ CallTypeOK' /\ ChildTypeOK' /\ NeverBusy' /\ ExitCodeIsFinal'
  BY <1>1
  DEF SlotInvariant, TypeOK, AdoptChild, CommandTypeOK, CallTypeOK,
      ChildTypeOK, NeverBusy, ExitCodeIsFinal, Alive
<1>3. OwnerTypeOK'
  BY <1>1
  DEF SlotInvariant, TypeOK, AdoptChild, OwnerTypeOK, CommandTypeOK
<1>4. ThreadTypeOK'
  <2>1. CASE kind = "utility"
    <3>1. pc' = [pc EXCEPT ![Main] = "wait"] /\ UNCHANGED <<target, waitee>>
      BY <2>1 DEF AdoptChild
    <3> QED
      BY <3>1, MainMoves DEF SlotInvariant, TypeOK, MainStates
  <2>2. CASE kind = "acquisition"
    <3>1. PICK watched \in {"off", "armed"} :
            pc' = [pc EXCEPT ![Main] = "drain", ![Watchdog] = watched]
      BY <2>2 DEF AdoptChild
    <3>2. UNCHANGED <<target, waitee>>
      BY DEF AdoptChild
    <3> QED
      BY <3>1, <3>2 DEF SlotInvariant, TypeOK, ThreadTypeOK, MainStates, WatchdogStates
  <2> QED
    BY <2>1, <2>2 DEF SlotInvariant, TypeOK, CommandTypeOK
<1>5. HistoryTypeOK'
  BY <1>1
  DEF SlotInvariant, TypeOK, AdoptChild, HistoryTypeOK, CommandTypeOK,
      ChildTypeOK, OwnerTypeOK
<1>6. CallScope'
  BY <1>1
  DEF SlotInvariant, TypeOK, AdoptChild, CallScope, CommandTypeOK,
      ChildTypeOK, ThreadTypeOK, Between, Owning, Ended, Launched
<1>7. WatchdogScope'
  BY <1>1
  DEF SlotInvariant, TypeOK, AdoptChild, WatchdogScope, ThreadTypeOK
<1>8. HandlerScope'
  BY <1>1
  DEF SlotInvariant, TypeOK, AdoptChild, HandlerScope, ThreadTypeOK
<1>9. SlotScope'
  BY <1>1
  DEF SlotInvariant, TypeOK, AdoptChild, SlotScope, ThreadTypeOK,
      OwnerTypeOK, Owning
<1>10. SessionScope'
  BY <1>1
  DEF SlotInvariant, TypeOK, AdoptChild, SessionScope, ThreadTypeOK,
      OwnerTypeOK
<1>11. FreshChildren'
  BY <1>1
  DEF SlotInvariant, TypeOK, AdoptChild, FreshChildren, CommandTypeOK,
      ChildTypeOK, ThreadTypeOK, Alive
<1>12. NoneLeft'
  BY <1>1
  DEF SlotInvariant, TypeOK, AdoptChild, NoneLeft, FreshChildren,
      CommandTypeOK, ChildTypeOK, ThreadTypeOK, CallScope, Alive, Between,
      Ended
<1>13. DyingIsRefused'
  BY <1>1
  DEF SlotInvariant, TypeOK, AdoptChild, DyingIsRefused, CommandTypeOK,
      CallTypeOK, ChildTypeOK, ThreadTypeOK, OwnerTypeOK, SessionScope,
      SlotScope, CallScope, Owning, Launched, Between, Ended, LastReport
<1> QED
  BY <1>2, <1>3, <1>4, <1>5, <1>6, <1>7, <1>8, <1>9, <1>10, <1>11, <1>12, <1>13
  DEF SlotInvariant, TypeOK

\* adoptChild refuses only because of a pending cancellation: the slot is empty and
\* the session matches the command, so Busy is impossible.
LEMMA AdoptRejectedKeeps ==
  ASSUME SlotInvariant, AdoptRejected
  PROVE  SlotInvariant'
<1>1. CommandTypeOK' /\ OwnerTypeOK' /\ ChildTypeOK' /\ ExitCodeIsFinal'
  BY DEF SlotInvariant, TypeOK, AdoptRejected, AdoptVerdict, CommandTypeOK,
      OwnerTypeOK, ChildTypeOK, ExitCodeIsFinal, Alive
<1>2. CallTypeOK'
  BY DEF SlotInvariant, TypeOK, AdoptRejected, AdoptVerdict, CallTypeOK,
      Reports, CommandTypeOK, OwnerTypeOK
<1>3. ThreadTypeOK'
  BY DEF SlotInvariant, TypeOK, AdoptRejected, AdoptVerdict, ThreadTypeOK,
      OwnerTypeOK, ChildTypeOK, MainStates, WatchdogStates, HandlerStates
<1>4. HistoryTypeOK'
  BY DEF SlotInvariant, TypeOK, AdoptRejected, AdoptVerdict, HistoryTypeOK,
      CommandTypeOK, ChildTypeOK, OwnerTypeOK
<1>5. CallScope'
  BY DEF SlotInvariant, TypeOK, AdoptRejected, AdoptVerdict, CallScope,
      CommandTypeOK, ChildTypeOK, ThreadTypeOK, Between, Owning, Ended,
      Launched
<1>6. WatchdogScope'
  BY DEF SlotInvariant, TypeOK, AdoptRejected, AdoptVerdict, WatchdogScope,
      ThreadTypeOK
<1>7. HandlerScope'
  BY DEF SlotInvariant, TypeOK, AdoptRejected, AdoptVerdict, HandlerScope,
      ThreadTypeOK
<1>8. SlotScope'
  BY DEF SlotInvariant, TypeOK, AdoptRejected, AdoptVerdict, SlotScope,
      ThreadTypeOK, OwnerTypeOK, Owning
<1>9. SessionScope'
  BY DEF SlotInvariant, TypeOK, AdoptRejected, AdoptVerdict, SessionScope,
      ThreadTypeOK, OwnerTypeOK
<1>10. FreshChildren'
  BY DEF SlotInvariant, TypeOK, AdoptRejected, AdoptVerdict, FreshChildren,
      CommandTypeOK, ChildTypeOK, ThreadTypeOK, Alive
<1>11. NoneLeft'
  BY DEF SlotInvariant, TypeOK, AdoptRejected, AdoptVerdict, NoneLeft,
      FreshChildren, CommandTypeOK, ChildTypeOK, ThreadTypeOK, CallScope,
      Alive, Between, Ended
<1>12. DyingIsRefused'
  BY DEF SlotInvariant, TypeOK, AdoptRejected, AdoptVerdict, DyingIsRefused,
      CommandTypeOK, CallTypeOK, ChildTypeOK, ThreadTypeOK, OwnerTypeOK,
      SessionScope, SlotScope, CallScope, Owning, Launched, Between, Ended,
      LastReport
<1>13. NeverBusy'
  BY DEF SlotInvariant, TypeOK, AdoptRejected, AdoptVerdict, NeverBusy,
      CallTypeOK, ThreadTypeOK, CallScope, SessionScope, SlotScope, Owning
<1> QED
  BY <1>1, <1>2, <1>3, <1>4, <1>5, <1>6, <1>7, <1>8, <1>9, <1>10, <1>11, <1>12, <1>13
  DEF SlotInvariant, TypeOK

\* terminateChild with no grace tells the rejected child to end before the call
\* returns.
LEMMA RejectChildKeeps ==
  ASSUME SlotInvariant, RejectChild
  PROVE  SlotInvariant'
<1>1. calls \in Children
  BY DEF SlotInvariant, TypeOK, CommandTypeOK, CallScope, WatchdogScope, Between, RejectChild
<1>2. NamedBy(calls) = calls
  BY <1>1 DEF SlotInvariant, CallScope, Launched, NamedBy, RejectChild
<1>3. CommandTypeOK' /\ CallTypeOK' /\ OwnerTypeOK' /\ HistoryTypeOK' /\ NeverBusy' /\ ExitCodeIsFinal'
  BY <1>1, <1>2
  DEF SlotInvariant, TypeOK, RejectChild, BreakGroup, KillThrough,
      CommandTypeOK, CallTypeOK, OwnerTypeOK, HistoryTypeOK, NeverBusy,
      ExitCodeIsFinal, Alive
<1>4. ChildTypeOK'
  BY <1>1, <1>2
  DEF SlotInvariant, TypeOK, RejectChild, BreakGroup, KillThrough,
      ChildTypeOK, CommandTypeOK, ThreadTypeOK, ChildStates
<1>5. ThreadTypeOK'
  BY <1>1, <1>2
  DEF SlotInvariant, TypeOK, RejectChild, BreakGroup, KillThrough,
      ThreadTypeOK, OwnerTypeOK, ChildTypeOK, MainStates, WatchdogStates,
      HandlerStates
<1>6. CallScope'
  BY <1>1, <1>2
  DEF SlotInvariant, TypeOK, RejectChild, BreakGroup, KillThrough,
      CallScope, CommandTypeOK, ChildTypeOK, ThreadTypeOK, Between, Owning,
      Ended, Launched
<1>7. WatchdogScope'
  BY <1>1, <1>2
  DEF SlotInvariant, TypeOK, RejectChild, BreakGroup, KillThrough,
      WatchdogScope, ThreadTypeOK
<1>8. HandlerScope'
  BY <1>1, <1>2
  DEF SlotInvariant, TypeOK, RejectChild, BreakGroup, KillThrough,
      HandlerScope, ThreadTypeOK
<1>9. SlotScope'
  BY <1>1, <1>2
  DEF SlotInvariant, TypeOK, RejectChild, BreakGroup, KillThrough,
      SlotScope, ThreadTypeOK, OwnerTypeOK, Owning
<1>10. SessionScope'
  BY <1>1, <1>2
  DEF SlotInvariant, TypeOK, RejectChild, BreakGroup, KillThrough,
      SessionScope, ThreadTypeOK, OwnerTypeOK
<1>11. FreshChildren'
  BY <1>1, <1>2
  DEF SlotInvariant, TypeOK, RejectChild, BreakGroup, KillThrough,
      FreshChildren, CommandTypeOK, ChildTypeOK, ThreadTypeOK, Alive
<1>12. NoneLeft'
  BY <1>1, <1>2
  DEF SlotInvariant, TypeOK, RejectChild, BreakGroup, KillThrough,
      NoneLeft, FreshChildren, CommandTypeOK, ChildTypeOK, ThreadTypeOK,
      CallScope, Alive, Between, Ended
<1>13. DyingIsRefused'
  BY <1>1, <1>2
  DEF SlotInvariant, TypeOK, RejectChild, BreakGroup, KillThrough,
      DyingIsRefused, CommandTypeOK, CallTypeOK, ChildTypeOK, ThreadTypeOK,
      OwnerTypeOK, SessionScope, SlotScope, CallScope, Owning, Launched,
      Between, Ended, LastReport
<1> QED
  BY <1>3, <1>4, <1>5, <1>6, <1>7, <1>8, <1>9, <1>10, <1>11, <1>12, <1>13
  DEF SlotInvariant, TypeOK

\* The main thread leaves its wait once the child has exited.
LEMMA WaitSeesExitKeeps ==
  ASSUME SlotInvariant, WaitSeesExit
  PROVE  SlotInvariant'
<1>1. CommandTypeOK' /\ CallTypeOK' /\ OwnerTypeOK' /\ ChildTypeOK' /\ HistoryTypeOK' /\ NeverBusy' /\ ExitCodeIsFinal'
  BY DEF SlotInvariant, TypeOK, WaitSeesExit, CommandTypeOK, CallTypeOK,
      OwnerTypeOK, ChildTypeOK, HistoryTypeOK, NeverBusy, ExitCodeIsFinal,
      Alive
<1>2. ThreadTypeOK'
  BY DEF SlotInvariant, TypeOK, WaitSeesExit, ThreadTypeOK, OwnerTypeOK,
      ChildTypeOK, MainStates, WatchdogStates, HandlerStates
<1>3. CallScope'
  BY DEF SlotInvariant, TypeOK, WaitSeesExit, CallScope, CommandTypeOK,
      ChildTypeOK, ThreadTypeOK, Between, Owning, Ended, Launched
<1>4. WatchdogScope'
  BY DEF SlotInvariant, TypeOK, WaitSeesExit, WatchdogScope, ThreadTypeOK
<1>5. HandlerScope'
  BY DEF SlotInvariant, TypeOK, WaitSeesExit, HandlerScope, ThreadTypeOK
<1>6. SlotScope'
  BY DEF SlotInvariant, TypeOK, WaitSeesExit, SlotScope, ThreadTypeOK,
      OwnerTypeOK, Owning
<1>7. SessionScope'
  BY DEF SlotInvariant, TypeOK, WaitSeesExit, SessionScope, ThreadTypeOK,
      OwnerTypeOK
<1>8. FreshChildren'
  BY DEF SlotInvariant, TypeOK, WaitSeesExit, FreshChildren, CommandTypeOK,
      ChildTypeOK, ThreadTypeOK, Alive
<1>9. NoneLeft'
  BY DEF SlotInvariant, TypeOK, WaitSeesExit, NoneLeft, FreshChildren,
      CommandTypeOK, ChildTypeOK, ThreadTypeOK, CallScope, Alive, Between,
      Ended
<1>10. DyingIsRefused'
  BY DEF SlotInvariant, TypeOK, WaitSeesExit, DyingIsRefused, CommandTypeOK,
      CallTypeOK, ChildTypeOK, ThreadTypeOK, OwnerTypeOK, SessionScope,
      SlotScope, CallScope, Owning, Launched, Between, Ended, LastReport
<1> QED
  BY <1>1, <1>2, <1>3, <1>4, <1>5, <1>6, <1>7, <1>8, <1>9, <1>10
  DEF SlotInvariant, TypeOK

\* A deadline that passes starts the termination of a child that is still owned.
LEMMA WaitTimesOutKeeps ==
  ASSUME SlotInvariant, WaitTimesOut
  PROVE  SlotInvariant'
<1>1. CommandTypeOK' /\ OwnerTypeOK' /\ ChildTypeOK' /\ HistoryTypeOK' /\ NeverBusy' /\ ExitCodeIsFinal'
  BY DEF SlotInvariant, TypeOK, WaitTimesOut, CommandTypeOK, OwnerTypeOK,
      ChildTypeOK, HistoryTypeOK, NeverBusy, ExitCodeIsFinal, Alive
<1>2. CallTypeOK'
  BY DEF SlotInvariant, TypeOK, WaitTimesOut, CallTypeOK, Reports,
      CommandTypeOK, OwnerTypeOK
<1>3. ThreadTypeOK'
  BY DEF SlotInvariant, TypeOK, WaitTimesOut, ThreadTypeOK, OwnerTypeOK,
      ChildTypeOK, MainStates, WatchdogStates, HandlerStates
<1>4. CallScope'
  BY DEF SlotInvariant, TypeOK, WaitTimesOut, CallScope, CommandTypeOK,
      ChildTypeOK, ThreadTypeOK, Between, Owning, Ended, Launched
<1>5. WatchdogScope'
  BY DEF SlotInvariant, TypeOK, WaitTimesOut, WatchdogScope, ThreadTypeOK
<1>6. HandlerScope'
  BY DEF SlotInvariant, TypeOK, WaitTimesOut, HandlerScope, ThreadTypeOK
<1>7. SlotScope'
  BY DEF SlotInvariant, TypeOK, WaitTimesOut, SlotScope, ThreadTypeOK,
      OwnerTypeOK, Owning
<1>8. SessionScope'
  BY DEF SlotInvariant, TypeOK, WaitTimesOut, SessionScope, ThreadTypeOK,
      OwnerTypeOK
<1>9. FreshChildren'
  BY DEF SlotInvariant, TypeOK, WaitTimesOut, FreshChildren, CommandTypeOK,
      ChildTypeOK, ThreadTypeOK, Alive
<1>10. NoneLeft'
  BY DEF SlotInvariant, TypeOK, WaitTimesOut, NoneLeft, FreshChildren,
      CommandTypeOK, ChildTypeOK, ThreadTypeOK, CallScope, Alive, Between,
      Ended
<1>11. DyingIsRefused'
  BY DEF SlotInvariant, TypeOK, WaitTimesOut, DyingIsRefused, CommandTypeOK,
      CallTypeOK, ChildTypeOK, ThreadTypeOK, OwnerTypeOK, SessionScope,
      SlotScope, CallScope, Owning, Launched, Between, Ended, LastReport
<1> QED
  BY <1>1, <1>2, <1>3, <1>4, <1>5, <1>6, <1>7, <1>8, <1>9, <1>10, <1>11
  DEF SlotInvariant, TypeOK

\* terminateChild's first step, on the main thread or on the watchdog's.
LEMMA TerminateProbeKeeps ==
  ASSUME SlotInvariant, NEW t \in {Main, Watchdog}, TerminateProbe(t)
  PROVE  SlotInvariant'
<1>1. calls \in Children
  BY DEF SlotInvariant, TypeOK, CommandTypeOK, CallScope, WatchdogScope, Between, TerminateProbe
<1>2. CommandTypeOK' /\ CallTypeOK' /\ OwnerTypeOK' /\ HistoryTypeOK' /\ NeverBusy' /\ ExitCodeIsFinal'
  BY <1>1
  DEF SlotInvariant, TypeOK, TerminateProbe, Terminated, BreakGroup,
      CommandTypeOK, CallTypeOK, OwnerTypeOK, HistoryTypeOK, NeverBusy,
      ExitCodeIsFinal, Alive
<1>3. ChildTypeOK'
  BY <1>1
  DEF SlotInvariant, TypeOK, TerminateProbe, Terminated, BreakGroup,
      ChildTypeOK, CommandTypeOK, ThreadTypeOK, ChildStates
<1>4. ThreadTypeOK'
  <2>1. \/ t = Main /\ \E s \in MainStates : pc' = [pc EXCEPT ![Main] = s]
        \/ t = Watchdog /\ \E s \in WatchdogStates : pc' = [pc EXCEPT ![Watchdog] = s]
    BY DEF TerminateProbe, Terminated, MainStates, WatchdogStates
  <2>2. UNCHANGED <<target, waitee>>
    BY DEF TerminateProbe, Terminated
  <2> QED
    BY <2>1, <2>2, MainMoves, WatchdogMoves DEF SlotInvariant, TypeOK
<1>5. CallScope'
  BY <1>1
  DEF SlotInvariant, TypeOK, TerminateProbe, Terminated, BreakGroup,
      CallScope, CommandTypeOK, ChildTypeOK, ThreadTypeOK, Between, Owning,
      Ended, Launched
<1>6. WatchdogScope'
  BY <1>1
  DEF SlotInvariant, TypeOK, TerminateProbe, Terminated, BreakGroup,
      WatchdogScope, ThreadTypeOK
<1>7. HandlerScope'
  BY <1>1
  DEF SlotInvariant, TypeOK, TerminateProbe, Terminated, BreakGroup,
      HandlerScope, ThreadTypeOK
<1>8. SlotScope'
  BY <1>1
  DEF SlotInvariant, TypeOK, TerminateProbe, Terminated, BreakGroup,
      SlotScope, ThreadTypeOK, OwnerTypeOK, Owning
<1>9. SessionScope'
  BY <1>1
  DEF SlotInvariant, TypeOK, TerminateProbe, Terminated, BreakGroup,
      SessionScope, ThreadTypeOK, OwnerTypeOK
<1>10. FreshChildren'
  BY <1>1
  DEF SlotInvariant, TypeOK, TerminateProbe, Terminated, BreakGroup,
      FreshChildren, CommandTypeOK, ChildTypeOK, ThreadTypeOK, Alive
<1>11. NoneLeft'
  BY <1>1
  DEF SlotInvariant, TypeOK, TerminateProbe, Terminated, BreakGroup,
      NoneLeft, FreshChildren, CommandTypeOK, ChildTypeOK, ThreadTypeOK,
      CallScope, Alive, Between, Ended
<1>12. DyingIsRefused'
  BY <1>1
  DEF SlotInvariant, TypeOK, TerminateProbe, Terminated, BreakGroup,
      DyingIsRefused, CommandTypeOK, CallTypeOK, ChildTypeOK, ThreadTypeOK,
      OwnerTypeOK, SessionScope, SlotScope, CallScope, Owning, Launched,
      Between, Ended, LastReport
<1> QED
  BY <1>2, <1>3, <1>4, <1>5, <1>6, <1>7, <1>8, <1>9, <1>10, <1>11, <1>12
  DEF SlotInvariant, TypeOK

\* terminateChild's bounded wait after CTRL_BREAK.
LEMMA TerminateGraceKeeps ==
  ASSUME SlotInvariant, NEW t \in {Main, Watchdog}, TerminateGrace(t)
  PROVE  SlotInvariant'
<1>1. CommandTypeOK' /\ CallTypeOK' /\ OwnerTypeOK' /\ ChildTypeOK' /\ HistoryTypeOK' /\ NeverBusy' /\ ExitCodeIsFinal'
  BY DEF SlotInvariant, TypeOK, TerminateGrace, Terminated, CommandTypeOK,
      CallTypeOK, OwnerTypeOK, ChildTypeOK, HistoryTypeOK, NeverBusy,
      ExitCodeIsFinal, Alive
<1>2. ThreadTypeOK'
  <2>1. \/ t = Main /\ \E s \in MainStates : pc' = [pc EXCEPT ![Main] = s]
        \/ t = Watchdog /\ \E s \in WatchdogStates : pc' = [pc EXCEPT ![Watchdog] = s]
    BY DEF TerminateGrace, Terminated, MainStates, WatchdogStates
  <2>2. UNCHANGED <<target, waitee>>
    BY DEF TerminateGrace, Terminated
  <2> QED
    BY <2>1, <2>2, MainMoves, WatchdogMoves DEF SlotInvariant, TypeOK
<1>3. CallScope'
  BY DEF SlotInvariant, TypeOK, TerminateGrace, Terminated, CallScope,
      CommandTypeOK, ChildTypeOK, ThreadTypeOK, Between, Owning, Ended,
      Launched
<1>4. WatchdogScope'
  BY DEF SlotInvariant, TypeOK, TerminateGrace, Terminated, WatchdogScope,
      ThreadTypeOK
<1>5. HandlerScope'
  BY DEF SlotInvariant, TypeOK, TerminateGrace, Terminated, HandlerScope,
      ThreadTypeOK
<1>6. SlotScope'
  BY DEF SlotInvariant, TypeOK, TerminateGrace, Terminated, SlotScope,
      ThreadTypeOK, OwnerTypeOK, Owning
<1>7. SessionScope'
  BY DEF SlotInvariant, TypeOK, TerminateGrace, Terminated, SessionScope,
      ThreadTypeOK, OwnerTypeOK
<1>8. FreshChildren'
  BY DEF SlotInvariant, TypeOK, TerminateGrace, Terminated, FreshChildren,
      CommandTypeOK, ChildTypeOK, ThreadTypeOK, Alive
<1>9. NoneLeft'
  BY DEF SlotInvariant, TypeOK, TerminateGrace, Terminated, NoneLeft,
      FreshChildren, CommandTypeOK, ChildTypeOK, ThreadTypeOK, CallScope,
      Alive, Between, Ended
<1>10. DyingIsRefused'
  BY DEF SlotInvariant, TypeOK, TerminateGrace, Terminated, DyingIsRefused,
      CommandTypeOK, CallTypeOK, ChildTypeOK, ThreadTypeOK, OwnerTypeOK,
      SessionScope, SlotScope, CallScope, Owning, Launched, Between, Ended,
      LastReport
<1> QED
  BY <1>1, <1>2, <1>3, <1>4, <1>5, <1>6, <1>7, <1>8, <1>9, <1>10
  DEF SlotInvariant, TypeOK

\* terminateChild's kill reaches only processes named by the call's own open
\* handle.
LEMMA TerminateKillKeeps ==
  ASSUME SlotInvariant, NEW t \in {Main, Watchdog}, TerminateKill(t)
  PROVE  SlotInvariant'
<1>1. calls \in Children
  BY DEF SlotInvariant, TypeOK, CommandTypeOK, CallScope, WatchdogScope, Between, TerminateKill
<1>2. NamedBy(calls) \in Children \union {None}
  BY <1>1, NamedByType DEF SlotInvariant, TypeOK
<1>3. CommandTypeOK' /\ CallTypeOK' /\ OwnerTypeOK' /\ HistoryTypeOK' /\ NeverBusy' /\ ExitCodeIsFinal'
  BY <1>1, <1>2
  DEF SlotInvariant, TypeOK, TerminateKill, Terminated, KillThrough,
      CommandTypeOK, CallTypeOK, OwnerTypeOK, HistoryTypeOK, NeverBusy,
      ExitCodeIsFinal, Alive
<1>4. ChildTypeOK'
  BY <1>1, <1>2
  DEF SlotInvariant, TypeOK, TerminateKill, Terminated, KillThrough,
      ChildTypeOK, CommandTypeOK, ThreadTypeOK, ChildStates
<1>5. ThreadTypeOK'
  <2>1. \/ t = Main /\ \E s \in MainStates : pc' = [pc EXCEPT ![Main] = s]
        \/ t = Watchdog /\ \E s \in WatchdogStates : pc' = [pc EXCEPT ![Watchdog] = s]
    BY DEF TerminateKill, Terminated, MainStates, WatchdogStates
  <2>2. UNCHANGED <<target, waitee>>
    BY DEF TerminateKill, Terminated
  <2> QED
    BY <2>1, <2>2, MainMoves, WatchdogMoves DEF SlotInvariant, TypeOK
<1>6. CallScope'
  BY <1>1, <1>2
  DEF SlotInvariant, TypeOK, TerminateKill, Terminated, KillThrough,
      CallScope, CommandTypeOK, ChildTypeOK, ThreadTypeOK, Between, Owning,
      Ended, Launched
<1>7. WatchdogScope'
  BY <1>1, <1>2
  DEF SlotInvariant, TypeOK, TerminateKill, Terminated, KillThrough,
      WatchdogScope, ThreadTypeOK
<1>8. HandlerScope'
  BY <1>1, <1>2
  DEF SlotInvariant, TypeOK, TerminateKill, Terminated, KillThrough,
      HandlerScope, ThreadTypeOK
<1>9. SlotScope'
  BY <1>1, <1>2
  DEF SlotInvariant, TypeOK, TerminateKill, Terminated, KillThrough,
      SlotScope, ThreadTypeOK, OwnerTypeOK, Owning
<1>10. SessionScope'
  BY <1>1, <1>2
  DEF SlotInvariant, TypeOK, TerminateKill, Terminated, KillThrough,
      SessionScope, ThreadTypeOK, OwnerTypeOK
<1>11. FreshChildren'
  BY <1>1, <1>2
  DEF SlotInvariant, TypeOK, TerminateKill, Terminated, KillThrough,
      FreshChildren, CommandTypeOK, ChildTypeOK, ThreadTypeOK, Alive
<1>12. NoneLeft'
  BY <1>1, <1>2
  DEF SlotInvariant, TypeOK, TerminateKill, Terminated, KillThrough,
      NoneLeft, FreshChildren, CommandTypeOK, ChildTypeOK, ThreadTypeOK,
      CallScope, Alive, Between, Ended
<1>13. DyingIsRefused'
  BY <1>1, <1>2
  DEF SlotInvariant, TypeOK, TerminateKill, Terminated, KillThrough,
      DyingIsRefused, CommandTypeOK, CallTypeOK, ChildTypeOK, ThreadTypeOK,
      OwnerTypeOK, SessionScope, SlotScope, CallScope, Owning, Launched,
      Between, Ended, LastReport
<1> QED
  BY <1>3, <1>4, <1>5, <1>6, <1>7, <1>8, <1>9, <1>10, <1>11, <1>12, <1>13
  DEF SlotInvariant, TypeOK

\* The pipes reach EOF, and the process handle is signalled, only after the child
\* exited.
LEMMA DrainedKeeps ==
  ASSUME SlotInvariant, Drained
  PROVE  SlotInvariant'
<1>1. CommandTypeOK' /\ CallTypeOK' /\ OwnerTypeOK' /\ ChildTypeOK' /\ HistoryTypeOK' /\ NeverBusy' /\ ExitCodeIsFinal'
  BY DEF SlotInvariant, TypeOK, Drained, CommandTypeOK, CallTypeOK,
      OwnerTypeOK, ChildTypeOK, HistoryTypeOK, NeverBusy, ExitCodeIsFinal,
      Alive
<1>2. ThreadTypeOK'
  BY DEF SlotInvariant, TypeOK, Drained, ThreadTypeOK, OwnerTypeOK,
      ChildTypeOK, MainStates, WatchdogStates, HandlerStates
<1>3. CallScope'
  BY DEF SlotInvariant, TypeOK, Drained, CallScope, CommandTypeOK,
      ChildTypeOK, ThreadTypeOK, Between, Owning, Ended, Launched
<1>4. WatchdogScope'
  BY DEF SlotInvariant, TypeOK, Drained, WatchdogScope, ThreadTypeOK
<1>5. HandlerScope'
  BY DEF SlotInvariant, TypeOK, Drained, HandlerScope, ThreadTypeOK
<1>6. SlotScope'
  BY DEF SlotInvariant, TypeOK, Drained, SlotScope, ThreadTypeOK,
      OwnerTypeOK, Owning
<1>7. SessionScope'
  BY DEF SlotInvariant, TypeOK, Drained, SessionScope, ThreadTypeOK,
      OwnerTypeOK
<1>8. FreshChildren'
  BY DEF SlotInvariant, TypeOK, Drained, FreshChildren, CommandTypeOK,
      ChildTypeOK, ThreadTypeOK, Alive
<1>9. NoneLeft'
  BY DEF SlotInvariant, TypeOK, Drained, NoneLeft, FreshChildren,
      CommandTypeOK, ChildTypeOK, ThreadTypeOK, CallScope, Alive, Between,
      Ended
<1>10. DyingIsRefused'
  BY DEF SlotInvariant, TypeOK, Drained, DyingIsRefused, CommandTypeOK,
      CallTypeOK, ChildTypeOK, ThreadTypeOK, OwnerTypeOK, SessionScope,
      SlotScope, CallScope, Owning, Launched, Between, Ended, LastReport
<1> QED
  BY <1>1, <1>2, <1>3, <1>4, <1>5, <1>6, <1>7, <1>8, <1>9, <1>10
  DEF SlotInvariant, TypeOK

\* finish joins the watchdog, so none is left when the call goes on.
LEMMA FinishWatchdogKeeps ==
  ASSUME SlotInvariant, FinishWatchdog
  PROVE  SlotInvariant'
<1>1. CommandTypeOK' /\ OwnerTypeOK' /\ ChildTypeOK' /\ HistoryTypeOK' /\ NeverBusy' /\ ExitCodeIsFinal'
  BY DEF SlotInvariant, TypeOK, FinishWatchdog, CommandTypeOK, OwnerTypeOK,
      ChildTypeOK, HistoryTypeOK, NeverBusy, ExitCodeIsFinal, Alive
<1>2. CallTypeOK'
  BY DEF SlotInvariant, TypeOK, FinishWatchdog, CallTypeOK, Reports,
      CommandTypeOK, OwnerTypeOK
<1>3. ThreadTypeOK'
  BY DEF SlotInvariant, TypeOK, FinishWatchdog, ThreadTypeOK, OwnerTypeOK,
      ChildTypeOK, MainStates, WatchdogStates, HandlerStates
<1>4. CallScope'
  BY DEF SlotInvariant, TypeOK, FinishWatchdog, CallScope, CommandTypeOK,
      ChildTypeOK, ThreadTypeOK, Between, Owning, Ended, Launched
<1>5. WatchdogScope'
  BY DEF SlotInvariant, TypeOK, FinishWatchdog, WatchdogScope, ThreadTypeOK
<1>6. HandlerScope'
  BY DEF SlotInvariant, TypeOK, FinishWatchdog, HandlerScope, ThreadTypeOK
<1>7. SlotScope'
  BY DEF SlotInvariant, TypeOK, FinishWatchdog, SlotScope, ThreadTypeOK,
      OwnerTypeOK, Owning
<1>8. SessionScope'
  BY DEF SlotInvariant, TypeOK, FinishWatchdog, SessionScope, ThreadTypeOK,
      OwnerTypeOK
<1>9. FreshChildren'
  BY DEF SlotInvariant, TypeOK, FinishWatchdog, FreshChildren,
      CommandTypeOK, ChildTypeOK, ThreadTypeOK, Alive
<1>10. NoneLeft'
  BY DEF SlotInvariant, TypeOK, FinishWatchdog, NoneLeft, FreshChildren,
      CommandTypeOK, ChildTypeOK, ThreadTypeOK, CallScope, Alive, Between,
      Ended
<1>11. DyingIsRefused'
  BY DEF SlotInvariant, TypeOK, FinishWatchdog, DyingIsRefused,
      CommandTypeOK, CallTypeOK, ChildTypeOK, ThreadTypeOK, OwnerTypeOK,
      SessionScope, SlotScope, CallScope, Owning, Launched, Between, Ended,
      LastReport
<1> QED
  BY <1>1, <1>2, <1>3, <1>4, <1>5, <1>6, <1>7, <1>8, <1>9, <1>10, <1>11
  DEF SlotInvariant, TypeOK

\* exitCodeOf is called for an exited child.
LEMMA CollectExitCodeKeeps ==
  ASSUME SlotInvariant, CollectExitCode
  PROVE  SlotInvariant'
<1>1. CommandTypeOK' /\ OwnerTypeOK' /\ ChildTypeOK' /\ HistoryTypeOK' /\ NeverBusy'
  BY DEF SlotInvariant, TypeOK, CollectExitCode, CommandTypeOK, OwnerTypeOK,
      ChildTypeOK, HistoryTypeOK, NeverBusy
<1>2. CallTypeOK'
  BY DEF SlotInvariant, TypeOK, CollectExitCode, CallTypeOK, Reports,
      CommandTypeOK, OwnerTypeOK
<1>3. ThreadTypeOK'
  BY DEF SlotInvariant, TypeOK, CollectExitCode, ThreadTypeOK, OwnerTypeOK,
      ChildTypeOK, MainStates, WatchdogStates, HandlerStates
<1>4. CallScope'
  BY DEF SlotInvariant, TypeOK, CollectExitCode, CallScope, CommandTypeOK,
      ChildTypeOK, ThreadTypeOK, Between, Owning, Ended, Launched
<1>5. WatchdogScope'
  BY DEF SlotInvariant, TypeOK, CollectExitCode, WatchdogScope, ThreadTypeOK
<1>6. HandlerScope'
  BY DEF SlotInvariant, TypeOK, CollectExitCode, HandlerScope, ThreadTypeOK
<1>7. SlotScope'
  BY DEF SlotInvariant, TypeOK, CollectExitCode, SlotScope, ThreadTypeOK,
      OwnerTypeOK, Owning
<1>8. SessionScope'
  BY DEF SlotInvariant, TypeOK, CollectExitCode, SessionScope, ThreadTypeOK,
      OwnerTypeOK
<1>9. FreshChildren'
  BY DEF SlotInvariant, TypeOK, CollectExitCode, FreshChildren,
      CommandTypeOK, ChildTypeOK, ThreadTypeOK, Alive
<1>10. NoneLeft'
  BY DEF SlotInvariant, TypeOK, CollectExitCode, NoneLeft, FreshChildren,
      CommandTypeOK, ChildTypeOK, ThreadTypeOK, CallScope, Alive, Between,
      Ended
<1>11. DyingIsRefused'
  BY DEF SlotInvariant, TypeOK, CollectExitCode, DyingIsRefused,
      CommandTypeOK, CallTypeOK, ChildTypeOK, ThreadTypeOK, OwnerTypeOK,
      SessionScope, SlotScope, CallScope, Owning, Launched, Between, Ended,
      LastReport
<1>12. ExitCodeIsFinal'
  BY DEF SlotInvariant, TypeOK, CollectExitCode, ExitCodeIsFinal,
      CallTypeOK, ThreadTypeOK, CallScope, CommandTypeOK, Between, Ended,
      Alive
<1> QED
  BY <1>1, <1>2, <1>3, <1>4, <1>5, <1>6, <1>7, <1>8, <1>9, <1>10, <1>11, <1>12
  DEF SlotInvariant, TypeOK

\* Reading the flag changes nothing the threads share.
LEMMA ReadCancelFlagKeeps ==
  ASSUME SlotInvariant, ReadCancelFlag
  PROVE  SlotInvariant'
<1>1. CommandTypeOK' /\ OwnerTypeOK' /\ ChildTypeOK' /\ HistoryTypeOK' /\ NeverBusy' /\ ExitCodeIsFinal'
  BY DEF SlotInvariant, TypeOK, ReadCancelFlag, CommandTypeOK, OwnerTypeOK,
      ChildTypeOK, HistoryTypeOK, NeverBusy, ExitCodeIsFinal, Alive
<1>2. CallTypeOK'
  BY DEF SlotInvariant, TypeOK, ReadCancelFlag, CallTypeOK, Reports,
      CommandTypeOK, OwnerTypeOK
<1>3. ThreadTypeOK'
  BY DEF SlotInvariant, TypeOK, ReadCancelFlag, ThreadTypeOK, OwnerTypeOK,
      ChildTypeOK, MainStates, WatchdogStates, HandlerStates
<1>4. CallScope'
  BY DEF SlotInvariant, TypeOK, ReadCancelFlag, CallScope, CommandTypeOK,
      ChildTypeOK, ThreadTypeOK, Between, Owning, Ended, Launched
<1>5. WatchdogScope'
  BY DEF SlotInvariant, TypeOK, ReadCancelFlag, WatchdogScope, ThreadTypeOK
<1>6. HandlerScope'
  BY DEF SlotInvariant, TypeOK, ReadCancelFlag, HandlerScope, ThreadTypeOK
<1>7. SlotScope'
  BY DEF SlotInvariant, TypeOK, ReadCancelFlag, SlotScope, ThreadTypeOK,
      OwnerTypeOK, Owning
<1>8. SessionScope'
  BY DEF SlotInvariant, TypeOK, ReadCancelFlag, SessionScope, ThreadTypeOK,
      OwnerTypeOK
<1>9. FreshChildren'
  BY DEF SlotInvariant, TypeOK, ReadCancelFlag, FreshChildren,
      CommandTypeOK, ChildTypeOK, ThreadTypeOK, Alive
<1>10. NoneLeft'
  BY DEF SlotInvariant, TypeOK, ReadCancelFlag, NoneLeft, FreshChildren,
      CommandTypeOK, ChildTypeOK, ThreadTypeOK, CallScope, Alive, Between,
      Ended
<1>11. DyingIsRefused'
  BY DEF SlotInvariant, TypeOK, ReadCancelFlag, DyingIsRefused,
      CommandTypeOK, CallTypeOK, ChildTypeOK, ThreadTypeOK, OwnerTypeOK,
      SessionScope, SlotScope, CallScope, Owning, Launched, Between, Ended,
      LastReport
<1> QED
  BY <1>1, <1>2, <1>3, <1>4, <1>5, <1>6, <1>7, <1>8, <1>9, <1>10, <1>11
  DEF SlotInvariant, TypeOK

\* releaseChild compares handle values, and the slot's value is the call's own.
LEMMA ReleaseChildKeeps ==
  ASSUME SlotInvariant, ReleaseChild
  PROVE  SlotInvariant'
<1>1. CommandTypeOK' /\ CallTypeOK' /\ ChildTypeOK' /\ HistoryTypeOK' /\ NeverBusy' /\ ExitCodeIsFinal'
  BY DEF SlotInvariant, TypeOK, ReleaseChild, CommandTypeOK, CallTypeOK,
      ChildTypeOK, HistoryTypeOK, NeverBusy, ExitCodeIsFinal, Alive
<1>2. OwnerTypeOK'
  BY DEF SlotInvariant, TypeOK, ReleaseChild, OwnerTypeOK, CommandTypeOK
<1>3. ThreadTypeOK'
  BY DEF SlotInvariant, TypeOK, ReleaseChild, ThreadTypeOK, OwnerTypeOK,
      ChildTypeOK, MainStates, WatchdogStates, HandlerStates
<1>4. CallScope'
  BY DEF SlotInvariant, TypeOK, ReleaseChild, CallScope, CommandTypeOK,
      ChildTypeOK, ThreadTypeOK, Between, Owning, Ended, Launched
<1>5. WatchdogScope'
  BY DEF SlotInvariant, TypeOK, ReleaseChild, WatchdogScope, ThreadTypeOK
<1>6. HandlerScope'
  BY DEF SlotInvariant, TypeOK, ReleaseChild, HandlerScope, ThreadTypeOK
<1>7. SlotScope'
  BY DEF SlotInvariant, TypeOK, ReleaseChild, SlotScope, ThreadTypeOK,
      OwnerTypeOK, Owning
<1>8. SessionScope'
  BY DEF SlotInvariant, TypeOK, ReleaseChild, SessionScope, ThreadTypeOK,
      OwnerTypeOK
<1>9. FreshChildren'
  BY DEF SlotInvariant, TypeOK, ReleaseChild, FreshChildren, CommandTypeOK,
      ChildTypeOK, ThreadTypeOK, Alive
<1>10. NoneLeft'
  BY DEF SlotInvariant, TypeOK, ReleaseChild, NoneLeft, FreshChildren,
      CommandTypeOK, ChildTypeOK, ThreadTypeOK, CallScope, Alive, Between,
      Ended
<1>11. DyingIsRefused'
  BY DEF SlotInvariant, TypeOK, ReleaseChild, DyingIsRefused, CommandTypeOK,
      CallTypeOK, ChildTypeOK, ThreadTypeOK, OwnerTypeOK, SessionScope,
      SlotScope, CallScope, Owning, Launched, Between, Ended, LastReport
<1> QED
  BY <1>1, <1>2, <1>3, <1>4, <1>5, <1>6, <1>7, <1>8, <1>9, <1>10, <1>11
  DEF SlotInvariant, TypeOK

\* clearUtilityCancellation drops the flag between the exit of the child and the
\* return, when no child runs.
LEMMA ClearUtilityCancellationKeeps ==
  ASSUME SlotInvariant, ClearUtilityCancellation
  PROVE  SlotInvariant'
<1>1. CommandTypeOK' /\ CallTypeOK' /\ ChildTypeOK' /\ HistoryTypeOK' /\ NeverBusy' /\ ExitCodeIsFinal'
  BY DEF SlotInvariant, TypeOK, ClearUtilityCancellation, CommandTypeOK,
      CallTypeOK, ChildTypeOK, HistoryTypeOK, NeverBusy, ExitCodeIsFinal,
      Alive
<1>2. OwnerTypeOK'
  BY DEF SlotInvariant, TypeOK, ClearUtilityCancellation, OwnerTypeOK,
      CommandTypeOK
<1>3. ThreadTypeOK'
  BY DEF SlotInvariant, TypeOK, ClearUtilityCancellation, ThreadTypeOK,
      OwnerTypeOK, ChildTypeOK, MainStates, WatchdogStates, HandlerStates
<1>4. CallScope'
  BY DEF SlotInvariant, TypeOK, ClearUtilityCancellation, CallScope,
      CommandTypeOK, ChildTypeOK, ThreadTypeOK, Between, Owning, Ended,
      Launched
<1>5. WatchdogScope'
  BY DEF SlotInvariant, TypeOK, ClearUtilityCancellation, WatchdogScope,
      ThreadTypeOK
<1>6. HandlerScope'
  BY DEF SlotInvariant, TypeOK, ClearUtilityCancellation, HandlerScope,
      ThreadTypeOK
<1>7. SlotScope'
  BY DEF SlotInvariant, TypeOK, ClearUtilityCancellation, SlotScope,
      ThreadTypeOK, OwnerTypeOK, Owning
<1>8. SessionScope'
  BY DEF SlotInvariant, TypeOK, ClearUtilityCancellation, SessionScope,
      ThreadTypeOK, OwnerTypeOK
<1>9. FreshChildren'
  BY DEF SlotInvariant, TypeOK, ClearUtilityCancellation, FreshChildren,
      CommandTypeOK, ChildTypeOK, ThreadTypeOK, Alive
<1>10. NoneLeft'
  BY DEF SlotInvariant, TypeOK, ClearUtilityCancellation, NoneLeft,
      FreshChildren, CommandTypeOK, ChildTypeOK, ThreadTypeOK, CallScope,
      Alive, Between, Ended
<1>11. DyingIsRefused'
  BY DEF SlotInvariant, TypeOK, ClearUtilityCancellation, DyingIsRefused,
      CommandTypeOK, CallTypeOK, ChildTypeOK, ThreadTypeOK, OwnerTypeOK,
      SessionScope, SlotScope, CallScope, Owning, Launched, Between, Ended,
      LastReport
<1> QED
  BY <1>1, <1>2, <1>3, <1>4, <1>5, <1>6, <1>7, <1>8, <1>9, <1>10, <1>11
  DEF SlotInvariant, TypeOK

\* The handles close after the slot was given back, and a rejected child was told
\* to end.
LEMMA CloseCallKeeps ==
  ASSUME SlotInvariant, CloseCall
  PROVE  SlotInvariant'
<1>1. calls \in Children
  BY DEF SlotInvariant, TypeOK, CommandTypeOK, CallScope, WatchdogScope, Between, CloseCall
<1>2. \A r \in {"ok", "failed"} : Verdict(r) \in Reports
  BY <1>1 DEF SlotInvariant, TypeOK, CallTypeOK, Verdict, Reports
<1>3. CommandTypeOK' /\ OwnerTypeOK' /\ HistoryTypeOK' /\ ExitCodeIsFinal'
  BY <1>1, <1>2
  DEF SlotInvariant, TypeOK, CloseCall, CloseHandles, Return, Verdict,
      CommandTypeOK, OwnerTypeOK, HistoryTypeOK, ExitCodeIsFinal, Alive
<1>4. CallTypeOK'
  BY <1>1, <1>2
  DEF SlotInvariant, TypeOK, CloseCall, CloseHandles, Return, Verdict,
      CallTypeOK, Reports, CommandTypeOK, OwnerTypeOK
<1>5. ChildTypeOK'
  BY <1>1, <1>2
  DEF SlotInvariant, TypeOK, CloseCall, CloseHandles, Return, Verdict,
      ChildTypeOK, CommandTypeOK, ThreadTypeOK, ChildStates
<1>6. ThreadTypeOK'
  BY <1>1, <1>2
  DEF SlotInvariant, TypeOK, CloseCall, CloseHandles, Return, Verdict,
      ThreadTypeOK, OwnerTypeOK, ChildTypeOK, MainStates, WatchdogStates,
      HandlerStates
<1>7. CallScope'
  BY <1>1, <1>2
  DEF SlotInvariant, TypeOK, CloseCall, CloseHandles, Return, Verdict,
      CallScope, CommandTypeOK, ChildTypeOK, ThreadTypeOK, Between, Owning,
      Ended, Launched
<1>8. WatchdogScope'
  BY <1>1, <1>2
  DEF SlotInvariant, TypeOK, CloseCall, CloseHandles, Return, Verdict,
      WatchdogScope, ThreadTypeOK
<1>9. HandlerScope'
  BY <1>1, <1>2
  DEF SlotInvariant, TypeOK, CloseCall, CloseHandles, Return, Verdict,
      HandlerScope, ThreadTypeOK
<1>10. SlotScope'
  BY <1>1, <1>2
  DEF SlotInvariant, TypeOK, CloseCall, CloseHandles, Return, Verdict,
      SlotScope, ThreadTypeOK, OwnerTypeOK, Owning
<1>11. SessionScope'
  BY <1>1, <1>2
  DEF SlotInvariant, TypeOK, CloseCall, CloseHandles, Return, Verdict,
      SessionScope, ThreadTypeOK, OwnerTypeOK
<1>12. FreshChildren'
  BY <1>1, <1>2
  DEF SlotInvariant, TypeOK, CloseCall, CloseHandles, Return, Verdict,
      FreshChildren, CommandTypeOK, ChildTypeOK, ThreadTypeOK, Alive
<1>13. NoneLeft'
  BY <1>1, <1>2
  DEF SlotInvariant, TypeOK, CloseCall, CloseHandles, Return, Verdict,
      NoneLeft, FreshChildren, CommandTypeOK, ChildTypeOK, ThreadTypeOK,
      CallScope, Alive, Between, Ended
<1>14. DyingIsRefused'
  BY <1>1, <1>2
  DEF SlotInvariant, TypeOK, CloseCall, CloseHandles, Return, Verdict,
      DyingIsRefused, CommandTypeOK, CallTypeOK, ChildTypeOK, ThreadTypeOK,
      OwnerTypeOK, SessionScope, SlotScope, CallScope, Owning, Launched,
      Between, Ended, LastReport
<1>15. NeverBusy'
  BY <1>1, <1>2
  DEF SlotInvariant, TypeOK, CloseCall, CloseHandles, Return, Verdict,
      NeverBusy, CallTypeOK, ThreadTypeOK, CallScope, SessionScope, SlotScope,
      Owning
<1> QED
  BY <1>3, <1>4, <1>5, <1>6, <1>7, <1>8, <1>9, <1>10, <1>11, <1>12, <1>13, <1>14, <1>15
  DEF SlotInvariant, TypeOK

\* The watchdog's deadline passes while the acquisition reads its pipes.
LEMMA WatchdogFiresKeeps ==
  ASSUME SlotInvariant, WatchdogFires
  PROVE  SlotInvariant'
<1>1. pc'[Main] = pc[Main]
  BY DEF SlotInvariant, TypeOK, ThreadTypeOK, WatchdogFires
<1>2. CommandTypeOK' /\ CallTypeOK' /\ OwnerTypeOK' /\ ChildTypeOK' /\ HistoryTypeOK' /\ CallScope' /\ SlotScope' /\ SessionScope' /\ FreshChildren' /\ NoneLeft' /\ DyingIsRefused' /\ NeverBusy' /\ ExitCodeIsFinal'
  BY <1>1
  DEF SlotInvariant, TypeOK, WatchdogFires, CommandTypeOK, CallTypeOK,
      OwnerTypeOK, ChildTypeOK, HistoryTypeOK, CallScope, SlotScope,
      SessionScope, FreshChildren, NoneLeft, DyingIsRefused, NeverBusy,
      ExitCodeIsFinal, Alive
<1>3. ThreadTypeOK'
  BY <1>1
  DEF SlotInvariant, TypeOK, WatchdogFires, ThreadTypeOK, OwnerTypeOK,
      ChildTypeOK, MainStates, WatchdogStates, HandlerStates
<1>4. WatchdogScope'
  BY <1>1
  DEF SlotInvariant, TypeOK, WatchdogFires, WatchdogScope, ThreadTypeOK
<1>5. HandlerScope'
  BY <1>1
  DEF SlotInvariant, TypeOK, WatchdogFires, HandlerScope, ThreadTypeOK
<1> QED
  BY <1>2, <1>3, <1>4, <1>5
  DEF SlotInvariant, TypeOK

\* The locked block of requestCancellation sets the flag and copies current_.
LEMMA RequestCancellationKeeps ==
  ASSUME SlotInvariant, NEW h \in Handlers, RequestCancellation(h)
  PROVE  SlotInvariant'
<1>1. pc'[Main] = pc[Main] /\ pc'[Watchdog] = pc[Watchdog]
  BY DEF SlotInvariant, TypeOK, ThreadTypeOK, RequestCancellation
<1>2. CommandTypeOK' /\ CallTypeOK' /\ ChildTypeOK' /\ CallScope' /\ WatchdogScope' /\ SlotScope' /\ SessionScope' /\ FreshChildren' /\ NoneLeft' /\ NeverBusy' /\ ExitCodeIsFinal'
  BY <1>1
  DEF SlotInvariant, TypeOK, RequestCancellation, CommandTypeOK,
      CallTypeOK, ChildTypeOK, CallScope, WatchdogScope, SlotScope,
      SessionScope, FreshChildren, NoneLeft, NeverBusy, ExitCodeIsFinal, Alive
<1>3. OwnerTypeOK'
  BY <1>1
  DEF SlotInvariant, TypeOK, RequestCancellation, OwnerTypeOK,
      CommandTypeOK
<1>4. ThreadTypeOK'
  BY <1>1
  DEF SlotInvariant, TypeOK, RequestCancellation, ThreadTypeOK,
      OwnerTypeOK, ChildTypeOK, MainStates, WatchdogStates, HandlerStates
<1>5. HistoryTypeOK'
  BY <1>1
  DEF SlotInvariant, TypeOK, RequestCancellation, HistoryTypeOK,
      CommandTypeOK, ChildTypeOK, OwnerTypeOK
<1>6. HandlerScope'
  BY <1>1
  DEF SlotInvariant, TypeOK, RequestCancellation, HandlerScope,
      ThreadTypeOK
<1>7. DyingIsRefused'
  BY <1>1
  DEF SlotInvariant, TypeOK, RequestCancellation, DyingIsRefused,
      CommandTypeOK, CallTypeOK, ChildTypeOK, ThreadTypeOK, OwnerTypeOK,
      SessionScope, SlotScope, CallScope, Owning, Launched, Between, Ended,
      LastReport
<1> QED
  BY <1>2, <1>3, <1>4, <1>5, <1>6, <1>7
  DEF SlotInvariant, TypeOK

\* Sending CTRL_BREAK changes no shared state of the adapter.
LEMMA HandlerProbeKeeps ==
  ASSUME SlotInvariant, NEW h \in Handlers, HandlerProbe(h)
  PROVE  SlotInvariant'
<1>1. pc'[Main] = pc[Main] /\ pc'[Watchdog] = pc[Watchdog]
  BY DEF SlotInvariant, TypeOK, ThreadTypeOK, HandlerProbe, Leave, BreakGroup
<1>2. target[h] \in Children
  BY DEF SlotInvariant, TypeOK, ThreadTypeOK, HandlerScope, HandlerProbe
<1>3. CommandTypeOK' /\ CallTypeOK' /\ OwnerTypeOK' /\ CallScope' /\ WatchdogScope' /\ SlotScope' /\ SessionScope' /\ FreshChildren' /\ NoneLeft' /\ DyingIsRefused' /\ NeverBusy' /\ ExitCodeIsFinal'
  BY <1>1, <1>2
  DEF SlotInvariant, TypeOK, HandlerProbe, Leave, BreakGroup,
      CommandTypeOK, CallTypeOK, OwnerTypeOK, CallScope, WatchdogScope,
      SlotScope, SessionScope, FreshChildren, NoneLeft, DyingIsRefused,
      NeverBusy, ExitCodeIsFinal, Alive
<1>4. ChildTypeOK'
  BY <1>1, <1>2
  DEF SlotInvariant, TypeOK, HandlerProbe, Leave, BreakGroup,
      ChildTypeOK, CommandTypeOK, ThreadTypeOK, ChildStates
<1>5. ThreadTypeOK'
  BY <1>1, <1>2
  DEF SlotInvariant, TypeOK, HandlerProbe, Leave, BreakGroup,
      ThreadTypeOK, OwnerTypeOK, ChildTypeOK, MainStates, WatchdogStates,
      HandlerStates
<1>6. HistoryTypeOK'
  BY <1>1, <1>2
  DEF SlotInvariant, TypeOK, HandlerProbe, Leave, BreakGroup,
      HistoryTypeOK, CommandTypeOK, ChildTypeOK, OwnerTypeOK
<1>7. HandlerScope'
  BY <1>1, <1>2
  DEF SlotInvariant, TypeOK, HandlerProbe, Leave, BreakGroup,
      HandlerScope, ThreadTypeOK
<1> QED
  BY <1>3, <1>4, <1>5, <1>6, <1>7
  DEF SlotInvariant, TypeOK

\* The bounded wait on the copied handle changes no shared state of the adapter.
LEMMA HandlerEnterGraceKeeps ==
  ASSUME SlotInvariant, NEW h \in Handlers, HandlerEnterGrace(h)
  PROVE  SlotInvariant'
<1>1. pc'[Main] = pc[Main] /\ pc'[Watchdog] = pc[Watchdog]
  BY DEF SlotInvariant, TypeOK, ThreadTypeOK, HandlerEnterGrace
<1>2. target[h] \in Children
  BY DEF SlotInvariant, TypeOK, ThreadTypeOK, HandlerScope, HandlerEnterGrace
<1>3. NamedBy(target[h]) \in Children \union {None}
  BY <1>2, NamedByType DEF SlotInvariant, TypeOK
<1>4. CommandTypeOK' /\ CallTypeOK' /\ OwnerTypeOK' /\ ChildTypeOK' /\ HistoryTypeOK' /\ CallScope' /\ WatchdogScope' /\ SlotScope' /\ SessionScope' /\ FreshChildren' /\ NoneLeft' /\ DyingIsRefused' /\ NeverBusy' /\ ExitCodeIsFinal'
  BY <1>1, <1>2, <1>3
  DEF SlotInvariant, TypeOK, HandlerEnterGrace, CommandTypeOK,
      CallTypeOK, OwnerTypeOK, ChildTypeOK, HistoryTypeOK, CallScope,
      WatchdogScope, SlotScope, SessionScope, FreshChildren, NoneLeft,
      DyingIsRefused, NeverBusy, ExitCodeIsFinal, Alive
<1>5. ThreadTypeOK'
  BY <1>1, <1>2, <1>3
  DEF SlotInvariant, TypeOK, HandlerEnterGrace, ThreadTypeOK,
      OwnerTypeOK, ChildTypeOK, MainStates, WatchdogStates, HandlerStates
<1>6. HandlerScope'
  BY <1>1, <1>2, <1>3
  DEF SlotInvariant, TypeOK, HandlerEnterGrace, HandlerScope,
      ThreadTypeOK
<1> QED
  BY <1>4, <1>5, <1>6
  DEF SlotInvariant, TypeOK

\* The bounded wait's end changes no shared state of the adapter.
LEMMA HandlerGraceKeeps ==
  ASSUME SlotInvariant, NEW h \in Handlers, HandlerGrace(h)
  PROVE  SlotInvariant'
<1>1. pc'[Main] = pc[Main] /\ pc'[Watchdog] = pc[Watchdog]
  BY DEF SlotInvariant, TypeOK, ThreadTypeOK, HandlerGrace, Leave
<1>2. CommandTypeOK' /\ CallTypeOK' /\ OwnerTypeOK' /\ ChildTypeOK' /\ HistoryTypeOK' /\ CallScope' /\ WatchdogScope' /\ SlotScope' /\ SessionScope' /\ FreshChildren' /\ NoneLeft' /\ DyingIsRefused' /\ NeverBusy' /\ ExitCodeIsFinal'
  BY <1>1
  DEF SlotInvariant, TypeOK, HandlerGrace, Leave, CommandTypeOK,
      CallTypeOK, OwnerTypeOK, ChildTypeOK, HistoryTypeOK, CallScope,
      WatchdogScope, SlotScope, SessionScope, FreshChildren, NoneLeft,
      DyingIsRefused, NeverBusy, ExitCodeIsFinal, Alive
<1>3. ThreadTypeOK'
  BY <1>1
  DEF SlotInvariant, TypeOK, HandlerGrace, Leave, ThreadTypeOK,
      OwnerTypeOK, ChildTypeOK, MainStates, WatchdogStates, HandlerStates
<1>4. HandlerScope'
  BY <1>1
  DEF SlotInvariant, TypeOK, HandlerGrace, Leave, HandlerScope,
      ThreadTypeOK
<1> QED
  BY <1>2, <1>3, <1>4
  DEF SlotInvariant, TypeOK

\* The kill through the copied handle, stale or not, only ever adds to the
\* processes told to terminate.
LEMMA HandlerForceKeeps ==
  ASSUME SlotInvariant, NEW h \in Handlers, HandlerForce(h)
  PROVE  SlotInvariant'
<1>1. pc'[Main] = pc[Main] /\ pc'[Watchdog] = pc[Watchdog]
  BY DEF SlotInvariant, TypeOK, ThreadTypeOK, HandlerForce, Leave, KillThrough
<1>2. target[h] \in Children
  BY DEF SlotInvariant, TypeOK, ThreadTypeOK, HandlerScope, HandlerForce
<1>3. NamedBy(target[h]) \in Children \union {None}
  BY <1>2, NamedByType DEF SlotInvariant, TypeOK
<1>4. CommandTypeOK' /\ CallTypeOK' /\ CallScope' /\ WatchdogScope' /\ SlotScope' /\ SessionScope' /\ FreshChildren' /\ DyingIsRefused' /\ NeverBusy' /\ ExitCodeIsFinal'
  BY <1>1, <1>2, <1>3
  DEF SlotInvariant, TypeOK, HandlerForce, Leave, KillThrough,
      CommandTypeOK, CallTypeOK, CallScope, WatchdogScope, SlotScope,
      SessionScope, FreshChildren, DyingIsRefused, NeverBusy, ExitCodeIsFinal,
      Alive
<1>5. OwnerTypeOK'
  BY <1>1, <1>2, <1>3
  DEF SlotInvariant, TypeOK, HandlerForce, Leave, KillThrough,
      OwnerTypeOK, CommandTypeOK
<1>6. ChildTypeOK'
  BY <1>1, <1>2, <1>3
  DEF SlotInvariant, TypeOK, HandlerForce, Leave, KillThrough,
      ChildTypeOK, CommandTypeOK, ThreadTypeOK, ChildStates
<1>7. ThreadTypeOK'
  BY <1>1, <1>2, <1>3
  DEF SlotInvariant, TypeOK, HandlerForce, Leave, KillThrough,
      ThreadTypeOK, OwnerTypeOK, ChildTypeOK, MainStates, WatchdogStates,
      HandlerStates
<1>8. HistoryTypeOK'
  BY <1>1, <1>2, <1>3
  DEF SlotInvariant, TypeOK, HandlerForce, Leave, KillThrough,
      HistoryTypeOK, CommandTypeOK, ChildTypeOK, OwnerTypeOK
<1>9. HandlerScope'
  BY <1>1, <1>2, <1>3
  DEF SlotInvariant, TypeOK, HandlerForce, Leave, KillThrough,
      HandlerScope, ThreadTypeOK
<1>10. NoneLeft'
  BY <1>1, <1>2, <1>3
  DEF SlotInvariant, TypeOK, HandlerForce, Leave, KillThrough, NoneLeft,
      FreshChildren, CommandTypeOK, ChildTypeOK, ThreadTypeOK, CallScope,
      Alive, Between, Ended
<1> QED
  BY <1>4, <1>5, <1>6, <1>7, <1>8, <1>9, <1>10
  DEF SlotInvariant, TypeOK

\* A child may exit at any time: the state of the call under way only gains from
\* it.
LEMMA ChildExitsKeeps ==
  ASSUME SlotInvariant, NEW c \in Children, ChildExits(c)
  PROVE  SlotInvariant'
<1>1. CommandTypeOK' /\ CallTypeOK' /\ OwnerTypeOK' /\ ThreadTypeOK' /\ HistoryTypeOK' /\ WatchdogScope' /\ HandlerScope' /\ SlotScope' /\ SessionScope' /\ NeverBusy' /\ ExitCodeIsFinal'
  BY DEF SlotInvariant, TypeOK, ChildExits, CommandTypeOK, CallTypeOK,
      OwnerTypeOK, ThreadTypeOK, HistoryTypeOK, WatchdogScope, HandlerScope,
      SlotScope, SessionScope, NeverBusy, ExitCodeIsFinal, Alive
<1>2. ChildTypeOK'
  BY DEF SlotInvariant, TypeOK, ChildExits, ChildTypeOK, CommandTypeOK,
      ThreadTypeOK, ChildStates
<1>3. CallScope'
  BY DEF SlotInvariant, TypeOK, ChildExits, CallScope, CommandTypeOK,
      ChildTypeOK, ThreadTypeOK, Between, Owning, Ended, Launched
<1>4. FreshChildren'
  BY DEF SlotInvariant, TypeOK, ChildExits, FreshChildren, CommandTypeOK,
      ChildTypeOK, ThreadTypeOK, Alive
<1>5. NoneLeft'
  BY DEF SlotInvariant, TypeOK, ChildExits, NoneLeft, FreshChildren,
      CommandTypeOK, ChildTypeOK, ThreadTypeOK, CallScope, Alive, Between,
      Ended
<1>6. DyingIsRefused'
  BY DEF SlotInvariant, TypeOK, ChildExits, DyingIsRefused, CommandTypeOK,
      CallTypeOK, ChildTypeOK, ThreadTypeOK, OwnerTypeOK, SessionScope,
      SlotScope, CallScope, Owning, Launched, Between, Ended, LastReport
<1> QED
  BY <1>1, <1>2, <1>3, <1>4, <1>5, <1>6
  DEF SlotInvariant, TypeOK

\* scanimage may fork a grandchild at any time.
LEMMA ChildForksKeeps ==
  ASSUME SlotInvariant, NEW c \in Children, ChildForks(c)
  PROVE  SlotInvariant'
<1>1. CommandTypeOK' /\ CallTypeOK' /\ OwnerTypeOK' /\ ThreadTypeOK' /\ HistoryTypeOK' /\ CallScope' /\ WatchdogScope' /\ HandlerScope' /\ SlotScope' /\ SessionScope' /\ FreshChildren' /\ NoneLeft' /\ DyingIsRefused' /\ NeverBusy' /\ ExitCodeIsFinal'
  BY DEF SlotInvariant, TypeOK, ChildForks, CommandTypeOK, CallTypeOK,
      OwnerTypeOK, ThreadTypeOK, HistoryTypeOK, CallScope, WatchdogScope,
      HandlerScope, SlotScope, SessionScope, FreshChildren, NoneLeft,
      DyingIsRefused, NeverBusy, ExitCodeIsFinal, Alive
<1>2. ChildTypeOK'
  BY DEF SlotInvariant, TypeOK, ChildForks, ChildTypeOK, CommandTypeOK,
      ThreadTypeOK, ChildStates
<1> QED
  BY <1>1, <1>2
  DEF SlotInvariant, TypeOK

\* A grandchild may exit at any time.
LEMMA HelperExitsKeeps ==
  ASSUME SlotInvariant, NEW c \in Children, HelperExits(c)
  PROVE  SlotInvariant'
<1>1. CommandTypeOK' /\ CallTypeOK' /\ OwnerTypeOK' /\ ThreadTypeOK' /\ HistoryTypeOK' /\ CallScope' /\ WatchdogScope' /\ HandlerScope' /\ SlotScope' /\ SessionScope' /\ FreshChildren' /\ NoneLeft' /\ DyingIsRefused' /\ NeverBusy' /\ ExitCodeIsFinal'
  BY DEF SlotInvariant, TypeOK, HelperExits, CommandTypeOK, CallTypeOK,
      OwnerTypeOK, ThreadTypeOK, HistoryTypeOK, CallScope, WatchdogScope,
      HandlerScope, SlotScope, SessionScope, FreshChildren, NoneLeft,
      DyingIsRefused, NeverBusy, ExitCodeIsFinal, Alive
<1>2. ChildTypeOK'
  BY DEF SlotInvariant, TypeOK, HelperExits, ChildTypeOK, CommandTypeOK,
      ThreadTypeOK, ChildStates
<1> QED
  BY <1>1, <1>2
  DEF SlotInvariant, TypeOK

-----------------------------------------------------------------------------
\* The ownership protocol starts in a state that satisfies its invariant: no call,
\* no child, no handle, an empty slot.
LEMMA InitOwnership == Init => SlotInvariant
<1> SUFFICES ASSUME Init PROVE SlotInvariant
  OBVIOUS
<1>1. CommandTypeOK /\ CallTypeOK /\ OwnerTypeOK /\ ChildTypeOK /\ HistoryTypeOK
  <2>1. CommandTypeOK
    BY DEF Init, CommandTypeOK
  <2>2. CallTypeOK
    BY DEF Init, CallTypeOK, Reports
  <2>3. OwnerTypeOK
    <3>1. current = None /\ session = 0 /\ nextSession = 1
      BY DEF Init
    <3>2. cancelRequested \in BOOLEAN /\ forced \in BOOLEAN /\ machineLock \in BOOLEAN
      BY DEF Init
    <3> QED
      BY <3>1, <3>2 DEF OwnerTypeOK
  <2>4. ChildTypeOK
    BY DEF Init, ChildTypeOK, ChildStates
  <2>5. HistoryTypeOK
    BY DEF Init, HistoryTypeOK
  <2> QED
    BY <2>1, <2>2, <2>3, <2>4, <2>5
<1>2. /\ pc[Main] \in {"start", "ready"}
      /\ pc[Main] = "start" <=> command = "scan"
      /\ pc[Watchdog] = "off"
      /\ \A h \in Handlers : pc[h] = "idle"
  BY DEF Init
<1>3. ThreadTypeOK
  BY DEF Init, ThreadTypeOK, MainStates, WatchdogStates, HandlerStates
<1>4. CallScope /\ WatchdogScope /\ HandlerScope /\ SlotScope /\ FreshChildren /\ SessionScope
  BY <1>2 DEF Init, CallScope, WatchdogScope, HandlerScope, SlotScope, FreshChildren,
      SessionScope, Between, Owning, Ended, Launched
<1>5. NoneLeft /\ DyingIsRefused /\ NeverBusy /\ ExitCodeIsFinal
  BY DEF Init, NoneLeft, DyingIsRefused, NeverBusy, ExitCodeIsFinal, Alive
<1> QED
  BY <1>1, <1>3, <1>4, <1>5 DEF SlotInvariant, TypeOK

\* No step of the main thread, the watchdog, a console event or a child breaks the
\* invariant of the ownership protocol.
LEMMA StepOwnership ==
  ASSUME SlotInvariant, [Next]_vars
  PROVE  SlotInvariant'
<1>1. CASE BeginScanSession
  BY <1>1, BeginScanSessionKeeps
<1>2. CASE EndCommand
  BY <1>2, EndCommandKeeps
<1>3. CASE StartUtility
  BY <1>3, StartUtilityKeeps
<1>4. CASE StartAcquisition
  BY <1>4, StartAcquisitionKeeps
<1>5. CASE LaunchFails
  BY <1>5, LaunchFailsKeeps
<1>6. CASE LaunchChild
  BY <1>6, LaunchChildKeeps
<1>7. CASE ResumeFails
  BY <1>7, ResumeFailsKeeps
<1>8. CASE ResumeChild
  BY <1>8, ResumeChildKeeps
<1>9. CASE AdoptChild
  BY <1>9, AdoptChildKeeps
<1>10. CASE AdoptRejected
  BY <1>10, AdoptRejectedKeeps
<1>11. CASE RejectChild
  BY <1>11, RejectChildKeeps
<1>12. CASE WaitSeesExit
  BY <1>12, WaitSeesExitKeeps
<1>13. CASE WaitTimesOut
  BY <1>13, WaitTimesOutKeeps
<1>14. CASE Drained
  BY <1>14, DrainedKeeps
<1>15. CASE FinishWatchdog
  BY <1>15, FinishWatchdogKeeps
<1>16. CASE CollectExitCode
  BY <1>16, CollectExitCodeKeeps
<1>17. CASE ReadCancelFlag
  BY <1>17, ReadCancelFlagKeeps
<1>18. CASE ReleaseChild
  BY <1>18, ReleaseChildKeeps
<1>19. CASE ClearUtilityCancellation
  BY <1>19, ClearUtilityCancellationKeeps
<1>20. CASE CloseCall
  BY <1>20, CloseCallKeeps
<1>21. CASE \E t \in {Main, Watchdog} : TerminateStep(t)
  BY <1>21, TerminateProbeKeeps, TerminateGraceKeeps, TerminateKillKeeps DEF TerminateStep
<1>22. CASE WatchdogFires
  BY <1>22, WatchdogFiresKeeps
<1>23. CASE \E h \in Handlers : RequestCancellation(h) \/ HandlerStep(h)
  BY <1>23, RequestCancellationKeeps, HandlerProbeKeeps, HandlerEnterGraceKeeps,
     HandlerGraceKeeps, HandlerForceKeeps
  DEF HandlerStep
<1>24. CASE \E c \in Children : ChildExits(c) \/ ChildForks(c) \/ HelperExits(c)
  BY <1>24, ChildExitsKeeps, ChildForksKeeps, HelperExitsKeeps
<1>25. CASE UNCHANGED vars
  BY <1>25 DEF vars, SlotInvariant, TypeOK, CommandTypeOK, CallTypeOK, OwnerTypeOK,
      ChildTypeOK, ThreadTypeOK, HistoryTypeOK, CallScope, WatchdogScope, HandlerScope,
      SlotScope, FreshChildren, SessionScope, NoneLeft, DyingIsRefused, NeverBusy,
      ExitCodeIsFinal, Alive
<1> QED
  BY <1>1, <1>2, <1>3, <1>4, <1>5, <1>6, <1>7, <1>8, <1>9, <1>10, <1>11, <1>12,
     <1>13, <1>14, <1>15, <1>16, <1>17, <1>18, <1>19, <1>20, <1>21, <1>22,
     <1>23, <1>24, <1>25
  DEF Next, MainStep, CallStep, Done

LEMMA SlotIsInvariant == Spec => []SlotInvariant
<1>1. SlotInvariant /\ [Next]_vars => SlotInvariant'
  BY StepOwnership
<1> QED
  BY InitOwnership, <1>1, PTL DEF Spec

\* Every variable of the ownership protocol keeps its type.
THEOREM TypeCorrect == Spec => []TypeOK
<1>1. SlotInvariant => TypeOK
  BY DEF SlotInvariant
<1> QED
  BY <1>1, SlotIsInvariant, PTL

\* current_ is never a dangling or reused handle while it is set: adoptChild and
\* releaseChild bracket the life of the handles in both runUtility and runAcquisition.
THEOREM CurrentIsValid == Spec => []CurrentNeverDangles
<1>1. SlotInvariant => CurrentNeverDangles
  BY DEF SlotInvariant, TypeOK, ChildTypeOK, SlotScope, CallScope, Owning, Launched,
      CurrentNeverDangles, NamedBy
<1> QED
  BY <1>1, SlotIsInvariant, PTL

\* adoptChild never answers Busy to the adapter's own calls.
THEOREM NoCallIsBusy == Spec => []NeverBusy
<1>1. SlotInvariant => NeverBusy
  BY DEF SlotInvariant
<1> QED
  BY <1>1, SlotIsInvariant, PTL

\* exitCodeOf is only asked about a process that has exited.
THEOREM ExitCodesAreFinal == Spec => []ExitCodeIsFinal
<1>1. SlotInvariant => ExitCodeIsFinal
  BY DEF SlotInvariant
<1> QED
  BY <1>1, SlotIsInvariant, PTL

\* When a call has returned or the command is over, every child of the adapter has
\* exited or has been told to terminate.
THEOREM NoOrphans == Spec => []NothingLeftBehind
<1>1. SlotInvariant => NothingLeftBehind
  BY DEF SlotInvariant, NoneLeft, NothingLeftBehind, Between
<1> QED
  BY <1>1, SlotIsInvariant, PTL

-----------------------------------------------------------------------------
\* Only ResumeChild sets a child running; every other step keeps the set of running
\* children or removes one from it.
LEMMA OnlyResumeRuns ==
  ASSUME SlotInvariant, [Next]_vars, ~ResumeChild, NEW c \in Children,
         child'[c] = "running"
  PROVE  child[c] = "running"
<1>0. child \in [Children -> ChildStates]
  BY DEF SlotInvariant, TypeOK, ChildTypeOK
<1>1. CASE LaunchChild
  BY <1>0, <1>1 DEF LaunchChild
<1>2. CASE \E d \in Children : ChildExits(d) \/ ChildForks(d) \/ HelperExits(d)
  BY <1>0, <1>2 DEF ChildExits, ChildForks, HelperExits
<1>3. CASE UNCHANGED child
  BY <1>3
<1>4. CASE WatchdogFires \/ \E h \in Handlers : RequestCancellation(h) \/ HandlerStep(h)
  BY <1>4 DEF WatchdogFires, RequestCancellation, HandlerStep, HandlerProbe, HandlerEnterGrace,
      HandlerGrace, HandlerForce
<1>5. CASE \E t \in {Main, Watchdog} : TerminateStep(t)
  BY <1>5 DEF TerminateStep, TerminateProbe, TerminateGrace, TerminateKill
<1>6. CASE BeginScanSession \/ EndCommand
  BY <1>6 DEF BeginScanSession, EndCommand
<1>7. CASE CallStep /\ ~LaunchChild
  BY <1>7 DEF CallStep, StartUtility, StartAcquisition, BeginCall, LaunchFails, ResumeFails,
      AdoptChild, AdoptRejected, RejectChild, WaitSeesExit, WaitTimesOut, Drained,
      FinishWatchdog, CollectExitCode, ReadCancelFlag, ReleaseChild,
      ClearUtilityCancellation, CloseCall
<1> QED
  BY <1>1, <1>2, <1>3, <1>4, <1>5, <1>6, <1>7 DEF Next, MainStep, Done, vars

\* "One process at a time" (cancel.h, invariant 1) over the processes that execute:
\* a child is resumed only when no other child, adopted or not, still runs.
THEOREM OneProcessAtATime == Spec => []OneRunningChild
<1>1. Init => OneRunningChild
  BY DEF Init, OneRunningChild
<1>2. SlotInvariant /\ OneRunningChild /\ [Next]_vars => OneRunningChild'
  <2> SUFFICES ASSUME SlotInvariant, OneRunningChild, [Next]_vars,
                      NEW c \in Children, NEW d \in Children,
                      child'[c] = "running", child'[d] = "running"
               PROVE  c = d
    BY DEF OneRunningChild
  <2>1. CASE ResumeChild
    <3>1. \A e \in Children : child[e] # "running"
      BY <2>1 DEF ResumeChild, SlotInvariant, DyingIsRefused
    <3> QED
      BY <2>1, <3>1 DEF ResumeChild, SlotInvariant, TypeOK, ChildTypeOK
  <2>2. CASE ~ResumeChild
    BY <2>2, OnlyResumeRuns DEF OneRunningChild
  <2> QED
    BY <2>1, <2>2
<1> QED
  BY <1>1, <1>2, SlotIsInvariant, PTL DEF Spec

-----------------------------------------------------------------------------
\* The cancellation flag: the end of a command and clearUtilityCancellation are the
\* only steps that drop it, and clearUtilityCancellation does not inside a session.
LEMMA StepKeepsRequest ==
  ASSUME SlotInvariant, RequestIsKept, [Next]_vars
  PROVE  RequestIsKept'
<1>0. pc \in [Threads -> MainStates \union WatchdogStates \union HandlerStates]
  BY DEF SlotInvariant, TypeOK, ThreadTypeOK
<1>1. CASE EndCommand
  BY <1>0, <1>1 DEF EndCommand, RequestIsKept
<1>2. CASE ClearUtilityCancellation
  <2>1. command = "scan" => session # None
    BY <1>2 DEF ClearUtilityCancellation, SlotInvariant, SessionScope
  <2> QED
    BY <1>0, <1>2, <2>1 DEF ClearUtilityCancellation, RequestIsKept
<1>3. CASE \E h \in Handlers : RequestCancellation(h)
  BY <1>3 DEF RequestCancellation, RequestIsKept
<1>4. CASE UNCHANGED <<command, requested, cancelRequested>> /\ (pc[Main] = "done" => pc'[Main] = "done")
  BY <1>4 DEF RequestIsKept
<1>5. CASE \E h \in Handlers : HandlerStep(h)
  BY <1>0, <1>4, <1>5 DEF HandlerStep, HandlerProbe, HandlerEnterGrace, HandlerGrace,
      HandlerForce, Leave
<1>6. CASE \E t \in {Main, Watchdog} : TerminateStep(t)
  <2>1. PICK t \in {Main, Watchdog} : TerminateStep(t)
    BY <1>6
  <2>2. UNCHANGED <<command, requested, cancelRequested>>
    BY <2>1 DEF TerminateStep, TerminateProbe, TerminateGrace, TerminateKill
  <2>3. pc[t] # "done" /\ \E to : pc' = [pc EXCEPT ![t] = to]
    BY <2>1 DEF TerminateStep, TerminateProbe, TerminateGrace, TerminateKill, Terminated
  <2>4. pc[Main] = "done" => pc'[Main] = "done"
    BY <1>0, <2>3
  <2> QED
    BY <1>4, <2>2, <2>4
<1>7. CASE \E c \in Children : ChildExits(c) \/ ChildForks(c) \/ HelperExits(c)
  BY <1>4, <1>7 DEF ChildExits, ChildForks, HelperExits
<1>8. CASE WatchdogFires \/ BeginScanSession
  BY <1>0, <1>4, <1>8 DEF WatchdogFires, BeginScanSession
<1>9. CASE CallStep /\ ~ClearUtilityCancellation
  BY <1>4, <1>9 DEF CallStep, StartUtility, StartAcquisition, BeginCall, LaunchFails, LaunchChild,
      ResumeFails, ResumeChild, AdoptChild, AdoptRejected, RejectChild, WaitSeesExit,
      WaitTimesOut, Drained, FinishWatchdog, CollectExitCode, ReadCancelFlag, ReleaseChild,
      CloseCall
<1>10. CASE UNCHANGED vars
  BY <1>4, <1>10 DEF vars
<1> QED
  BY <1>1, <1>2, <1>3, <1>5, <1>6, <1>7, <1>8, <1>9, <1>10 DEF Next, MainStep, Done

\* AdoptChild is the only step that adopts, and it refuses under the flag.
LEMMA OnlyAdoptChildAdopts ==
  ASSUME [Next]_vars, adopted' # adopted
  PROVE  AdoptChild
BY DEF Next, MainStep, Done, vars, CallStep, TerminateStep, HandlerStep, BeginScanSession,
    EndCommand, StartUtility, StartAcquisition, BeginCall, LaunchFails, LaunchChild,
    ResumeFails, ResumeChild, AdoptRejected, RejectChild, WaitSeesExit, WaitTimesOut, Drained,
    FinishWatchdog, CollectExitCode, ReadCancelFlag, ReleaseChild, ClearUtilityCancellation,
    CloseCall, TerminateProbe, TerminateGrace, TerminateKill, WatchdogFires,
    RequestCancellation, HandlerProbe, HandlerEnterGrace, HandlerGrace, HandlerForce,
    ChildExits, ChildForks, HelperExits

\* During a scan a cancellation is never forgotten (cancel.cpp, adoptChild and
\* clearUtilityCancellation): whenever it arrives, no child is adopted after it.
THEOREM ScanHeedsRequests == Spec => NoAdoptionAfterRequest
<1>1. Init => RequestIsKept
  BY DEF Init, RequestIsKept
<1>2. SlotInvariant /\ RequestIsKept /\ [Next]_vars => RequestIsKept'
  BY StepKeepsRequest
<1>3. RequestIsKept /\ [Next]_vars
        => [command = "scan" /\ adopted' # adopted => ~requested]_vars
  <2> SUFFICES ASSUME RequestIsKept, [Next]_vars, command = "scan", adopted' # adopted
               PROVE  ~requested
    OBVIOUS
  <2>1. AdoptChild
    BY OnlyAdoptChildAdopts
  <2> QED
    BY <2>1 DEF AdoptChild, AdoptVerdict, RequestIsKept
<1> QED
  BY <1>1, <1>2, <1>3, SlotIsInvariant, PTL DEF Spec, NoAdoptionAfterRequest

-----------------------------------------------------------------------------
\* The slot of the abstract specification starts empty.
LEMMA InitRefines == Init => Slot!SlotInit
BY DEF Init, Slot!SlotInit

\* Every step of the ownership protocol is a step of the slot, or leaves it alone.
LEMMA StepRefines ==
  ASSUME SlotInvariant, [Next]_vars
  PROVE  [Slot!SlotNext]_(Slot!slotVars)
<1> DEFINE ended == {c \in Children : child[c] = "exited"}
<1>0. child \in [Children -> ChildStates]
  BY DEF SlotInvariant, TypeOK, ChildTypeOK
<1>1. CASE UNCHANGED <<current, cancelRequested, child>>
  BY <1>1 DEF Slot!slotVars
<1>2. CASE BeginScanSession
  <2>1. current = None
    BY <1>2 DEF BeginScanSession, SlotInvariant, SlotScope, Owning
  <2>2. UNCHANGED <<current, cancelRequested, child>>
    BY <1>2, <2>1 DEF BeginScanSession, CurrentIfAlive
  <2> QED
    BY <1>1, <2>2
<1>3. CASE EndCommand
  <2>1. current = None
    BY <1>3 DEF EndCommand, SlotInvariant, SlotScope, Owning
  <2>2. UNCHANGED <<current, child>> /\ (cancelRequested' = FALSE \/ UNCHANGED cancelRequested)
    BY <1>3, <2>1 DEF EndCommand, CurrentIfAlive
  <2>3. CASE cancelRequested' = FALSE
    BY <2>1, <2>2, <2>3 DEF Slot!SlotNext, Slot!Forget
  <2> QED
    BY <1>1, <2>2, <2>3
<1>4. CASE LaunchChild
  <2>1. calls \in Children /\ child[calls] = "none"
    BY <1>4 DEF LaunchChild, SlotInvariant, CallScope, Between, FreshChildren
  <2>2. ended' = ended
    BY <1>0, <1>4, <2>1 DEF LaunchChild
  <2> QED
    BY <1>4, <2>2 DEF LaunchChild, Slot!slotVars
<1>5. CASE ResumeChild
  <2>1. ended' = ended
    BY <1>0, <1>5 DEF ResumeChild, Alive
  <2> QED
    BY <1>5, <2>1 DEF ResumeChild, Slot!slotVars
<1>6. CASE AdoptChild
  <2>1. calls \in Children
    BY <1>6 DEF AdoptChild, SlotInvariant, CallScope, Between
  <2>2. Slot!Occupy(calls)
    BY <1>6 DEF AdoptChild, AdoptVerdict, Slot!Occupy
  <2> QED
    BY <2>1, <2>2 DEF Slot!SlotNext
<1>7. CASE ReleaseChild
  <2>1. current = calls /\ calls \in Children /\ child[calls] = "exited"
    BY <1>7 DEF ReleaseChild, SlotInvariant, SlotScope, CallScope, Owning, Between, Ended
  <2>2. current' = None /\ UNCHANGED <<cancelRequested, child>>
    BY <1>7, <2>1 DEF ReleaseChild
  <2>3. Slot!Vacate
    BY <2>1, <2>2 DEF Slot!Vacate
  <2> QED
    BY <2>3 DEF Slot!SlotNext
<1>8. CASE ClearUtilityCancellation
  <2>1. current = None
    BY <1>8 DEF ClearUtilityCancellation, SlotInvariant, SlotScope, Owning
  <2>2. CASE session = None
    BY <1>8, <2>1, <2>2 DEF ClearUtilityCancellation, Slot!SlotNext, Slot!Forget
  <2>3. CASE session # None
    BY <1>1, <1>8, <2>3 DEF ClearUtilityCancellation
  <2> QED
    BY <2>2, <2>3
<1>9. CASE \E h \in Handlers : RequestCancellation(h)
  BY <1>9 DEF RequestCancellation, Slot!SlotNext, Slot!Cancel
<1>10. CASE \E c \in Children : ChildExits(c)
  <2>1. PICK c \in Children : ChildExits(c)
    BY <1>10
  <2>2. c \notin ended /\ ended' = ended \union {c}
    BY <1>0, <2>1 DEF ChildExits, Alive
  <2>3. Slot!End(c)
    BY <2>1, <2>2 DEF ChildExits, Slot!End
  <2> QED
    BY <2>3 DEF Slot!SlotNext
<1>11. CASE \E h \in Handlers : HandlerStep(h)
  BY <1>1, <1>11 DEF HandlerStep, HandlerProbe, HandlerEnterGrace, HandlerGrace, HandlerForce
<1>12. CASE \E t \in {Main, Watchdog} : TerminateStep(t)
  BY <1>1, <1>12 DEF TerminateStep, TerminateProbe, TerminateGrace, TerminateKill
<1>13. CASE WatchdogFires \/ \E c \in Children : ChildForks(c) \/ HelperExits(c)
  BY <1>1, <1>13 DEF WatchdogFires, ChildForks, HelperExits
<1>14. CASE StartUtility \/ StartAcquisition \/ LaunchFails \/ ResumeFails \/ AdoptRejected
            \/ RejectChild \/ WaitSeesExit \/ WaitTimesOut \/ Drained \/ FinishWatchdog
            \/ CollectExitCode \/ ReadCancelFlag \/ CloseCall
  BY <1>1, <1>14 DEF StartUtility, StartAcquisition, BeginCall, LaunchFails, ResumeFails,
      AdoptRejected, RejectChild, WaitSeesExit, WaitTimesOut, Drained, FinishWatchdog,
      CollectExitCode, ReadCancelFlag, CloseCall
<1>15. CASE UNCHANGED vars
  BY <1>1, <1>15 DEF vars
<1> QED
  BY <1>2, <1>3, <1>4, <1>5, <1>6, <1>7, <1>8, <1>9, <1>10, <1>11, <1>12, <1>13, <1>14, <1>15
  DEF Next, MainStep, CallStep, Done

\* The adapter with its threads, handles and copied views implements the slot
\* discipline: one owned process, adopted only when no cancellation is pending,
\* released only after it ended, and no request dropped while it has a target.
THEOREM ImplementsSlot == Spec => SlotDiscipline
<1>1. SlotInvariant /\ [Next]_vars => [Slot!SlotNext]_(Slot!slotVars)
  BY StepRefines
<1> QED
  BY InitRefines, <1>1, SlotIsInvariant, PTL DEF Spec, SlotDiscipline, Slot!SlotSpec
=============================================================================
