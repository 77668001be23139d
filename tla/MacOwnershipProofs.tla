------------------------- MODULE MacOwnershipProofs -------------------------
(***************************************************************************)
(* MacOwnership for every number of commands, signals and calls: its       *)
(* invariant is inductive, the safety properties follow from it, and the   *)
(* backend implements the slot discipline of ChildSlot.                    *)
(***************************************************************************)
EXTENDS MacOwnership, TLAPS

USE MacAssumption
    DEF At, Goto, Mine, Running, Children, commandVars, slotVars, processVars, taskVars, historyVars

\* A process is named by its command and the number of its call; None is neither.
LEMMA Shapes ==
  /\ None \notin Callers /\ None \notin Children
  /\ \A c \in Children : c[1] \in Callers /\ c[2] \in 1..MaxCalls /\ c = <<c[1], c[2]>>
OBVIOUS

\* A step of one command leaves the call of another as it was.
LEMMA OthersTracked ==
  ASSUME NEW q \in Callers, CallTracked(q),
         pc'[q] = pc[q], calls'[q] = calls[q], child'[Mine(q)] = child[Mine(q)],
         q \in starting' <=> q \in starting
  PROVE  CallTracked(q)'
BY DEF CallTracked

\* Outside a session, the process in the slot is that of a query under way.
LEMMA QueryOwnsSlot ==
  ASSUME MacInvariant, current # None, session = None
  PROVE  \E q \in Callers : /\ command[q] = "query"
                            /\ pc[q] \in {"waiting", "judging", "releasing"}
<1>1. PICK q \in Callers, n \in 1..MaxCalls : current = <<q, n>>
  BY DEF MacInvariant, TypeOK
<1>2. pc[q] \in Owning /\ command[q] # "scan"
  BY <1>1, Shapes DEF MacInvariant, SlotScope
<1> QED
  BY <1>2 DEF MacInvariant, TypeOK, SessionScope, Owning, Ended

\* A command has room for another call.
LEMMA NextCall ==
  ASSUME TypeOK, NEW p \in Callers, calls[p] < MaxCalls
  PROVE  calls[p] + 1 \in 1..MaxCalls /\ <<p, calls[p] + 1>> \in Children
BY DEF TypeOK

\* Timers, pipes and SIGKILL touch nothing the invariant relates.
LEMMA QuietStepKeeps ==
  ASSUME MacInvariant, TypeOK',
         UNCHANGED <<commandVars, slotVars, child, taskVars, historyVars>>
  PROVE  MacInvariant'
BY DEF MacInvariant, TypeOK, RunningIsOwned, SlotScope, CallScope, FreshCalls, SessionScope, RequestIsKept,
    FlagHasOwner, ReportScope, TargetScope, HitScope, WillBeCancelled, Unjudged, CallScope, CallTracked, Calling, Owning, Ended

LEMMA InitHolds ==
  ASSUME Init
  PROVE  MacInvariant
<1>1. TypeOK
  <2>1. calls \in [Callers -> 0..MaxCalls]
    BY DEF Init
  <2>2. report \in [Children -> {"none", "returned", "timeout", "busy", "cancelled"}]
    BY DEF Init
  <2> QED
    BY <2>1, <2>2 DEF Init, TypeOK
<1>2. RunningIsOwned /\ SlotScope /\ CallScope /\ FreshCalls /\ SessionScope /\ RequestIsKept
  BY Shapes DEF Init, RunningIsOwned, SlotScope, CallScope, CallTracked, FreshCalls, SessionScope, RequestIsKept, Calling, Owning, Ended
<1>3. FlagHasOwner /\ ReportScope /\ TargetScope /\ HitScope
  BY DEF Init, FlagHasOwner, ReportScope, TargetScope, HitScope, CallTracked, Unjudged
<1> QED
  BY <1>1, <1>2, <1>3 DEF MacInvariant

LEMMA BeginScanSessionKeeps ==
  ASSUME MacInvariant, NEW p \in Callers, BeginScanSession(p)
  PROVE  MacInvariant'
<1>1. TypeOK'
  BY DEF MacInvariant, TypeOK, BeginScanSession, CurrentIfRunning
<1>2. RunningIsOwned'
  BY Shapes DEF MacInvariant, TypeOK, BeginScanSession, CurrentIfRunning, RunningIsOwned
<1>3. SlotScope'
  BY Shapes DEF MacInvariant, TypeOK, BeginScanSession, CurrentIfRunning, SlotScope, Owning, Ended
<1>4. CallScope'
  BY DEF MacInvariant, TypeOK, BeginScanSession, CallScope, CallTracked, Calling, Owning, Ended
<1>5. SessionScope'
  BY Shapes DEF MacInvariant, TypeOK, BeginScanSession, SessionScope
<1>6. RequestIsKept' /\ FlagHasOwner'
  BY Shapes DEF MacInvariant, TypeOK, BeginScanSession, RequestIsKept, FlagHasOwner
<1>7. ReportScope'
  BY DEF MacInvariant, TypeOK, BeginScanSession, ReportScope, Unjudged
<1>8. TargetScope'
  <2>1. ASSUME NEW t \in Signals, task[t] \in {"asking", "grace"}, target[t][1] = p
        PROVE  FALSE
    <3>1. target[t] \in Children /\ child[target[t]] # "none"
      BY <2>1 DEF MacInvariant, TargetScope
    <3>2. calls[p] = 0
      BY DEF MacInvariant, CallScope, CallTracked, BeginScanSession
    <3> QED
      BY <2>1, <3>1, <3>2, Shapes DEF MacInvariant, FreshCalls
  <2> QED
    BY <2>1, Shapes DEF MacInvariant, TypeOK, BeginScanSession, TargetScope
<1>9. HitScope'
  BY Shapes DEF MacInvariant, TypeOK, BeginScanSession, HitScope, WillBeCancelled, Unjudged, CallScope, CallTracked, Calling, Owning, Ended
<1>10. FreshCalls'
  BY DEF MacInvariant, TypeOK, BeginScanSession, FreshCalls
<1> QED
  BY <1>1, <1>2, <1>3, <1>4, <1>5, <1>6, <1>7, <1>8, <1>9, <1>10 DEF MacInvariant

\* A command that only queries takes nothing.
LEMMA BeginQueriesKeeps ==
  ASSUME MacInvariant, NEW p \in Callers, BeginQueries(p)
  PROVE  MacInvariant'
<1>1. TypeOK'
  BY Shapes DEF MacInvariant, TypeOK, BeginQueries
<1>2. RunningIsOwned'
  BY Shapes DEF MacInvariant, TypeOK, RunningIsOwned, BeginQueries
<1>3. SlotScope'
  BY Shapes DEF MacInvariant, TypeOK, SlotScope, BeginQueries, CallScope, CallTracked, SessionScope, Calling, Owning, Ended
<1>4. CallScope'
  BY Shapes DEF MacInvariant, TypeOK, CallScope, BeginQueries, CallTracked, Calling, Owning, Ended
<1>5. FreshCalls'
  BY Shapes DEF MacInvariant, TypeOK, FreshCalls, BeginQueries, CallScope, CallTracked, Calling, Owning, Ended
<1>6. SessionScope'
  BY Shapes DEF MacInvariant, TypeOK, SessionScope, BeginQueries
<1>7. RequestIsKept'
  BY Shapes DEF MacInvariant, TypeOK, RequestIsKept, BeginQueries
<1>8. FlagHasOwner'
  BY Shapes DEF MacInvariant, TypeOK, FlagHasOwner, BeginQueries, SlotScope, SessionScope, Owning, Ended
<1>9. ReportScope'
  BY Shapes DEF MacInvariant, TypeOK, ReportScope, BeginQueries, CallScope, CallTracked, Calling, Owning, Ended, Unjudged
<1>10. TargetScope'
  BY Shapes DEF MacInvariant, TypeOK, TargetScope, BeginQueries, CallScope, CallTracked, Calling, Owning, Ended
<1>11. HitScope'
  BY Shapes DEF MacInvariant, TypeOK, HitScope, BeginQueries, WillBeCancelled, SessionScope, Unjudged
<1> QED
  BY <1>1, <1>2, <1>3, <1>4, <1>5, <1>6, <1>7, <1>8, <1>9, <1>10, <1>11 DEF MacInvariant

\* The flag goes with the session, and no process is in the slot.
LEMMA EndScanSessionKeeps ==
  ASSUME MacInvariant, NEW p \in Callers, EndScanSession(p)
  PROVE  MacInvariant'
<1>1. TypeOK'
  BY Shapes DEF MacInvariant, TypeOK, EndScanSession, CurrentIfRunning
<1>2. RunningIsOwned'
  BY Shapes DEF MacInvariant, TypeOK, RunningIsOwned, EndScanSession, CurrentIfRunning
<1>3. SlotScope'
  BY Shapes DEF MacInvariant, TypeOK, SlotScope, EndScanSession, CurrentIfRunning, CallScope, CallTracked, SessionScope, Calling, Owning, Ended
<1>4. CallScope'
  BY Shapes DEF MacInvariant, TypeOK, CallScope, EndScanSession, CurrentIfRunning, CallTracked, Calling, Owning, Ended
<1>5. FreshCalls'
  BY Shapes DEF MacInvariant, TypeOK, FreshCalls, EndScanSession, CurrentIfRunning, CallScope, CallTracked, Calling, Owning, Ended
<1>6. SessionScope'
  BY Shapes DEF MacInvariant, TypeOK, SessionScope, EndScanSession, CurrentIfRunning
<1>7. RequestIsKept'
  BY Shapes DEF MacInvariant, TypeOK, RequestIsKept, EndScanSession, CurrentIfRunning
<1>8. FlagHasOwner'
  BY Shapes DEF MacInvariant, TypeOK, FlagHasOwner, EndScanSession, CurrentIfRunning, SlotScope, SessionScope, Owning, Ended
<1>9. ReportScope'
  BY Shapes DEF MacInvariant, TypeOK, ReportScope, EndScanSession, CurrentIfRunning, CallScope, CallTracked, Calling, Owning, Ended, Unjudged
<1>10. TargetScope'
  BY Shapes DEF MacInvariant, TypeOK, TargetScope, EndScanSession, CurrentIfRunning, CallScope, CallTracked, Calling, Owning, Ended
<1>11. HitScope'
  BY Shapes DEF MacInvariant, TypeOK, HitScope, EndScanSession, CurrentIfRunning, WillBeCancelled, SessionScope, Unjudged
<1> QED
  BY <1>1, <1>2, <1>3, <1>4, <1>5, <1>6, <1>7, <1>8, <1>9, <1>10, <1>11 DEF MacInvariant

\* A query command ends between two calls, with nothing left to forget.
LEMMA EndQueriesKeeps ==
  ASSUME MacInvariant, NEW p \in Callers, EndQueries(p)
  PROVE  MacInvariant'
<1>1. TypeOK'
  BY Shapes DEF MacInvariant, TypeOK, EndQueries
<1>2. RunningIsOwned'
  BY Shapes DEF MacInvariant, TypeOK, RunningIsOwned, EndQueries
<1>3. SlotScope'
  BY Shapes DEF MacInvariant, TypeOK, SlotScope, EndQueries, CallScope, CallTracked, SessionScope, Calling, Owning, Ended
<1>4. CallScope'
  BY Shapes DEF MacInvariant, TypeOK, CallScope, EndQueries, CallTracked, Calling, Owning, Ended
<1>5. FreshCalls'
  BY Shapes DEF MacInvariant, TypeOK, FreshCalls, EndQueries, CallScope, CallTracked, Calling, Owning, Ended
<1>6. SessionScope'
  BY Shapes DEF MacInvariant, TypeOK, SessionScope, EndQueries
<1>7. RequestIsKept'
  BY Shapes DEF MacInvariant, TypeOK, RequestIsKept, EndQueries
<1>8. FlagHasOwner'
  BY Shapes DEF MacInvariant, TypeOK, FlagHasOwner, EndQueries, SlotScope, SessionScope, Owning, Ended
<1>9. ReportScope'
  BY Shapes DEF MacInvariant, TypeOK, ReportScope, EndQueries, CallScope, CallTracked, Calling, Owning, Ended, Unjudged
<1>10. TargetScope'
  BY Shapes DEF MacInvariant, TypeOK, TargetScope, EndQueries, CallScope, CallTracked, Calling, Owning, Ended
<1>11. HitScope'
  BY Shapes DEF MacInvariant, TypeOK, HitScope, EndQueries, WillBeCancelled, SessionScope, Unjudged
<1> QED
  BY <1>1, <1>2, <1>3, <1>4, <1>5, <1>6, <1>7, <1>8, <1>9, <1>10, <1>11 DEF MacInvariant

\* A refused call leaves the slot and the flag alone.
LEMMA LaunchRefusedKeeps ==
  ASSUME MacInvariant, NEW p \in Callers, LaunchRefused(p)
  PROVE  MacInvariant'
<1>1. TypeOK'
  <2>1. calls[p] + 1 \in 1..MaxCalls /\ <<p, calls[p] + 1>> \in Children
    BY NextCall DEF MacInvariant, LaunchRefused
  <2>2. calls' \in [Callers -> 0..MaxCalls]
    BY <2>1 DEF MacInvariant, TypeOK, LaunchRefused
  <2>3. report' \in [Children -> {"none", "returned", "timeout", "busy", "cancelled"}]
    BY <2>1 DEF MacInvariant, TypeOK, LaunchRefused, LaunchVerdict
  <2> QED
    BY <2>2, <2>3 DEF MacInvariant, TypeOK, LaunchRefused
<1>2. RunningIsOwned'
  BY Shapes DEF MacInvariant, TypeOK, RunningIsOwned, LaunchRefused, LaunchVerdict
<1>3. SlotScope'
  BY Shapes DEF MacInvariant, TypeOK, SlotScope, LaunchRefused, LaunchVerdict, CallScope, CallTracked, SessionScope, Calling, Owning, Ended
<1>4. CallScope'
  <2>1. ASSUME NEW q \in Callers, q # p
        PROVE  CallTracked(q)'
    <3>1. pc'[q] = pc[q] /\ calls'[q] = calls[q]
      BY <2>1 DEF MacInvariant, TypeOK, LaunchRefused
    <3>2. child'[Mine(q)] = child[Mine(q)]
      BY <2>1 DEF MacInvariant, TypeOK, LaunchRefused
    <3>3. q \in starting' <=> q \in starting
      BY <2>1 DEF LaunchRefused
    <3> QED
      BY <3>1, <3>2, <3>3, OthersTracked DEF MacInvariant, CallScope
  <2>2. CallTracked(p)'
    BY NextCall DEF MacInvariant, TypeOK, CallScope, CallTracked, LaunchRefused, Calling, Owning, Ended
  <2> QED
    BY <2>1, <2>2 DEF CallScope
<1>5. FreshCalls'
  BY Shapes DEF MacInvariant, TypeOK, FreshCalls, LaunchRefused, LaunchVerdict, CallScope, CallTracked, Calling, Owning, Ended
<1>6. SessionScope'
  BY Shapes DEF MacInvariant, TypeOK, SessionScope, LaunchRefused, LaunchVerdict
<1>7. RequestIsKept'
  BY Shapes DEF MacInvariant, TypeOK, RequestIsKept, LaunchRefused, LaunchVerdict
<1>8. FlagHasOwner'
  BY Shapes DEF MacInvariant, TypeOK, FlagHasOwner, LaunchRefused, LaunchVerdict, SlotScope, SessionScope, Owning, Ended
<1>9. ReportScope'
  BY Shapes DEF MacInvariant, TypeOK, ReportScope, LaunchRefused, LaunchVerdict, CallScope, CallTracked, Calling, Owning, Ended, Unjudged
<1>10. TargetScope'
  BY Shapes DEF MacInvariant, TypeOK, TargetScope, LaunchRefused, LaunchVerdict, CallScope, CallTracked, Calling, Owning, Ended
<1>11. HitScope'
  <2>1. ASSUME NEW c \in hit, command[c[1]] = "scan"
        PROVE  WillBeCancelled(c)'
    <3>1. WillBeCancelled(c) /\ c \in Children
      BY <2>1 DEF MacInvariant, TypeOK, HitScope, LaunchRefused
    <3>2. CASE c[1] = p
      <4>1. report[c] = "cancelled"
        BY <3>1, <3>2 DEF WillBeCancelled, Unjudged, LaunchRefused
      <4>2. c # <<p, calls[p] + 1>>
        BY <4>1, NextCall, Shapes DEF MacInvariant, TypeOK, FreshCalls, LaunchRefused
      <4> QED
        BY <3>1, <4>1, <4>2 DEF LaunchRefused, WillBeCancelled, MacInvariant, TypeOK
    <3>3. CASE c[1] # p
      BY <3>1, <3>3, Shapes DEF LaunchRefused, WillBeCancelled, MacInvariant, TypeOK
    <3> QED
      BY <3>2, <3>3
  <2> QED
    BY <2>1 DEF HitScope, LaunchRefused
<1> QED
  BY <1>1, <1>2, <1>3, <1>4, <1>5, <1>6, <1>7, <1>8, <1>9, <1>10, <1>11 DEF MacInvariant

\* A launched process is waited for by its query, or by the handlers of a scan.
LaunchedQuery(p) ==
  /\ pc' = [pc EXCEPT ![p] = "waiting"]
  /\ timer' = [timer EXCEPT ![<<p, calls[p] + 1>>] = "armed"]
  /\ starting' = starting

LaunchedScan(p) ==
  /\ pc' = [pc EXCEPT ![p] = "scanning"]
  /\ timer' = timer
  /\ starting' = starting \union {p}

LEMMA LaunchedEither ==
  ASSUME NEW p \in Callers, Launch(p)
  PROVE  LaunchedQuery(p) \/ LaunchedScan(p)
BY DEF Launch, LaunchedQuery, LaunchedScan

\* A process starts only in an empty slot.
LEMMA LaunchKeeps ==
  ASSUME MacInvariant, NEW p \in Callers, Launch(p)
  PROVE  MacInvariant'
<1>1. TypeOK'
  <2>1. calls[p] + 1 \in 1..MaxCalls /\ <<p, calls[p] + 1>> \in Children
    BY NextCall DEF MacInvariant, Launch
  <2>2. calls' \in [Callers -> 0..MaxCalls]
    BY <2>1 DEF MacInvariant, TypeOK, Launch
  <2>3. child' \in [Children -> {"none", "running", "exited"}] /\ current' \in Children
    BY <2>1 DEF MacInvariant, TypeOK, Launch
  <2>4. /\ pc' \in [Callers -> {"idle", "ready", "waiting", "judging", "releasing", "forgetting",
                             "scanning", "clearing", "resuming", "resumed", "done"}]
        /\ timer' \in [Children -> {"off", "armed", "watching", "fired", "claimed"}]
        /\ starting' \subseteq Callers
    <3>1. CASE LaunchedQuery(p)
      BY <3>1 DEF MacInvariant, TypeOK, LaunchedQuery
    <3>2. CASE LaunchedScan(p)
      BY <3>2 DEF MacInvariant, TypeOK, LaunchedScan
    <3> QED
      BY <3>1, <3>2, LaunchedEither
  <2> QED
    BY <2>2, <2>3, <2>4 DEF MacInvariant, TypeOK, Launch
<1>2. RunningIsOwned'
  BY Shapes DEF MacInvariant, TypeOK, RunningIsOwned, Launch, LaunchVerdict
<1>3. SlotScope'
  BY Shapes DEF MacInvariant, TypeOK, SlotScope, Launch, LaunchVerdict, CallScope, CallTracked, SessionScope, Calling, Owning, Ended
<1>4. CallScope'
  <2>1. ASSUME NEW q \in Callers, q # p
        PROVE  CallTracked(q)'
    <3>1. pc'[q] = pc[q] /\ calls'[q] = calls[q]
      BY <2>1 DEF MacInvariant, TypeOK, Launch
    <3>2. child'[Mine(q)] = child[Mine(q)]
      BY <2>1 DEF MacInvariant, TypeOK, Launch
    <3>3. q \in starting' <=> q \in starting
      BY <2>1 DEF Launch
    <3> QED
      BY <3>1, <3>2, <3>3, OthersTracked DEF MacInvariant, CallScope
  <2>2. CallTracked(p)'
    <3>1. /\ calls'[p] = calls[p] + 1 /\ calls'[p] \in 1..MaxCalls
          /\ child'[<<p, calls'[p]>>] = "running"
      BY NextCall DEF MacInvariant, TypeOK, Launch
    <3>2. p \notin starting
      BY DEF MacInvariant, CallScope, CallTracked, Launch
    <3>3. CASE LaunchedQuery(p)
      <4>1. pc'[p] = "waiting" /\ p \notin starting'
        BY <3>2, <3>3 DEF MacInvariant, TypeOK, LaunchedQuery
      <4> QED
        BY <3>1, <4>1 DEF CallTracked, Calling, Owning, Ended
    <3>4. CASE LaunchedScan(p)
      <4>1. pc'[p] = "scanning"
        BY <3>4 DEF MacInvariant, TypeOK, LaunchedScan
      <4> QED
        BY <3>1, <4>1 DEF CallTracked, Calling, Owning, Ended
    <3> QED
      BY <3>3, <3>4, LaunchedEither
  <2> QED
    BY <2>1, <2>2 DEF CallScope
<1>5. FreshCalls'
  BY Shapes DEF MacInvariant, TypeOK, FreshCalls, Launch, LaunchVerdict, CallScope, CallTracked, Calling, Owning, Ended
<1>6. SessionScope'
  BY Shapes DEF MacInvariant, TypeOK, SessionScope, Launch, LaunchVerdict
<1>7. RequestIsKept'
  BY Shapes DEF MacInvariant, TypeOK, RequestIsKept, Launch, LaunchVerdict
<1>8. FlagHasOwner'
  BY Shapes DEF MacInvariant, TypeOK, FlagHasOwner, Launch, LaunchVerdict, SlotScope, SessionScope, Owning, Ended
<1>9. ReportScope'
  <2>1. ASSUME NEW q \in Callers, q # p, pc'[q] \in Unjudged
        PROVE  report'[<<q, calls'[q]>>] = "none"
    BY <2>1 DEF MacInvariant, TypeOK, ReportScope, Launch
  <2>2. report'[<<p, calls'[p]>>] = "none"
    BY NextCall, Shapes DEF MacInvariant, TypeOK, FreshCalls, Launch
  <2> QED
    BY <2>1, <2>2 DEF ReportScope
<1>10. TargetScope'
  BY Shapes DEF MacInvariant, TypeOK, TargetScope, Launch, LaunchVerdict, CallScope, CallTracked, Calling, Owning, Ended
<1>11. HitScope'
  BY Shapes DEF MacInvariant, TypeOK, HitScope, Launch, LaunchVerdict, WillBeCancelled, SessionScope, Unjudged
<1> QED
  BY <1>1, <1>2, <1>3, <1>4, <1>5, <1>6, <1>7, <1>8, <1>9, <1>10, <1>11 DEF MacInvariant

\* The wait of a query ends after its process.
LEMMA QueryDrainedKeeps ==
  ASSUME MacInvariant, NEW p \in Callers, QueryDrained(p)
  PROVE  MacInvariant'
<1>1. TypeOK'
  BY Shapes DEF MacInvariant, TypeOK, QueryDrained
<1>2. RunningIsOwned'
  BY Shapes DEF MacInvariant, TypeOK, RunningIsOwned, QueryDrained
<1>3. SlotScope'
  BY Shapes DEF MacInvariant, TypeOK, SlotScope, QueryDrained, CallScope, CallTracked, SessionScope, Calling, Owning, Ended
<1>4. CallScope'
  <2>1. ASSUME NEW q \in Callers, q # p
        PROVE  CallTracked(q)'
    <3>1. pc'[q] = pc[q] /\ calls'[q] = calls[q]
      BY <2>1 DEF MacInvariant, TypeOK, QueryDrained
    <3>2. child'[Mine(q)] = child[Mine(q)]
      BY <2>1 DEF MacInvariant, TypeOK, QueryDrained
    <3>3. q \in starting' <=> q \in starting
      BY <2>1 DEF QueryDrained
    <3> QED
      BY <3>1, <3>2, <3>3, OthersTracked DEF MacInvariant, CallScope
  <2>2. CallTracked(p)'
    BY NextCall DEF MacInvariant, TypeOK, CallScope, CallTracked, QueryDrained, Calling, Owning, Ended
  <2> QED
    BY <2>1, <2>2 DEF CallScope
<1>5. FreshCalls'
  BY Shapes DEF MacInvariant, TypeOK, FreshCalls, QueryDrained, CallScope, CallTracked, Calling, Owning, Ended
<1>6. SessionScope'
  BY Shapes DEF MacInvariant, TypeOK, SessionScope, QueryDrained
<1>7. RequestIsKept'
  BY Shapes DEF MacInvariant, TypeOK, RequestIsKept, QueryDrained
<1>8. FlagHasOwner'
  BY Shapes DEF MacInvariant, TypeOK, FlagHasOwner, QueryDrained, SlotScope, SessionScope, Owning, Ended
<1>9. ReportScope'
  BY Shapes DEF MacInvariant, TypeOK, ReportScope, QueryDrained, CallScope, CallTracked, Calling, Owning, Ended, Unjudged
<1>10. TargetScope'
  BY Shapes DEF MacInvariant, TypeOK, TargetScope, QueryDrained, CallScope, CallTracked, Calling, Owning, Ended
<1>11. HitScope'
  BY Shapes DEF MacInvariant, TypeOK, HitScope, QueryDrained, WillBeCancelled, SessionScope, Unjudged
<1> QED
  BY <1>1, <1>2, <1>3, <1>4, <1>5, <1>6, <1>7, <1>8, <1>9, <1>10, <1>11 DEF MacInvariant

\* A query that a request hit returns cancelled.
LEMMA JudgeQueryKeeps ==
  ASSUME MacInvariant, NEW p \in Callers, JudgeQuery(p)
  PROVE  MacInvariant'
<1>1. TypeOK'
  BY Shapes DEF MacInvariant, TypeOK, JudgeQuery, Verdict
<1>2. RunningIsOwned'
  BY Shapes DEF MacInvariant, TypeOK, RunningIsOwned, JudgeQuery, Verdict
<1>3. SlotScope'
  BY Shapes DEF MacInvariant, TypeOK, SlotScope, JudgeQuery, Verdict, CallScope, CallTracked, SessionScope, Calling, Owning, Ended
<1>4. CallScope'
  BY Shapes DEF MacInvariant, TypeOK, CallScope, JudgeQuery, Verdict, CallTracked, Calling, Owning, Ended
<1>5. FreshCalls'
  BY Shapes DEF MacInvariant, TypeOK, FreshCalls, JudgeQuery, Verdict, CallScope, CallTracked, Calling, Owning, Ended
<1>6. SessionScope'
  BY Shapes DEF MacInvariant, TypeOK, SessionScope, JudgeQuery, Verdict
<1>7. RequestIsKept'
  BY Shapes DEF MacInvariant, TypeOK, RequestIsKept, JudgeQuery, Verdict
<1>8. FlagHasOwner'
  BY Shapes DEF MacInvariant, TypeOK, FlagHasOwner, JudgeQuery, Verdict, SlotScope, SessionScope, Owning, Ended
<1>9. ReportScope'
  BY Shapes DEF MacInvariant, TypeOK, ReportScope, JudgeQuery, Verdict, CallScope, CallTracked, Calling, Owning, Ended, Unjudged
<1>10. TargetScope'
  BY Shapes DEF MacInvariant, TypeOK, TargetScope, JudgeQuery, Verdict, CallScope, CallTracked, Calling, Owning, Ended
<1>11. HitScope'
  <2>1. ASSUME NEW c \in hit, command[c[1]] = "scan"
        PROVE  WillBeCancelled(c)'
    <3>1. WillBeCancelled(c) /\ c \in Children /\ Mine(p) \in Children
      BY <2>1, Shapes DEF MacInvariant, TypeOK, HitScope, JudgeQuery, CallScope, CallTracked, Calling, Owning, Ended
    <3>2. CASE c = Mine(p)
      <4>1. promised
        BY <3>1, <3>2 DEF MacInvariant, ReportScope, WillBeCancelled, Unjudged, JudgeQuery
      <4>2. report'[c] = "cancelled"
        BY <3>1, <3>2, <4>1 DEF MacInvariant, TypeOK, RequestIsKept, JudgeQuery, Verdict
      <4> QED
        BY <4>2 DEF WillBeCancelled
    <3>3. CASE c # Mine(p)
      <4>1. report'[c] = report[c] /\ calls' = calls /\ session' = session /\ promised' = promised
        BY <3>1, <3>3 DEF MacInvariant, TypeOK, JudgeQuery
      <4>2. c = Mine(c[1]) => pc'[c[1]] = pc[c[1]]
        BY <3>1, <3>3, Shapes DEF MacInvariant, TypeOK, JudgeQuery
      <4> QED
        BY <3>1, <4>1, <4>2 DEF WillBeCancelled
    <3> QED
      BY <3>2, <3>3
  <2> QED
    BY <2>1 DEF HitScope, JudgeQuery
<1> QED
  BY <1>1, <1>2, <1>3, <1>4, <1>5, <1>6, <1>7, <1>8, <1>9, <1>10, <1>11 DEF MacInvariant

\* A call takes its own process out of the slot, and no other.
LEMMA ReleaseQueryKeeps ==
  ASSUME MacInvariant, NEW p \in Callers, ReleaseQuery(p)
  PROVE  MacInvariant'
<1>1. TypeOK'
  BY Shapes DEF MacInvariant, TypeOK, ReleaseQuery, SlotWithout
<1>2. RunningIsOwned'
  <2>1. ASSUME NEW c \in Children, Running(c)
        PROVE  current' = c
    <3>1. ~Running(Mine(p))
      BY DEF MacInvariant, CallScope, CallTracked, ReleaseQuery, Calling, Owning, Ended
    <3>2. current = c /\ c # Mine(p)
      BY <2>1, <3>1 DEF MacInvariant, RunningIsOwned
    <3> QED
      BY <3>2 DEF ReleaseQuery, SlotWithout
  <2> QED
    BY <2>1 DEF RunningIsOwned, ReleaseQuery
<1>3. SlotScope'
  BY Shapes DEF MacInvariant, TypeOK, SlotScope, ReleaseQuery, SlotWithout, CallScope, CallTracked, SessionScope, Calling, Owning, Ended
<1>4. CallScope'
  BY Shapes DEF MacInvariant, TypeOK, CallScope, ReleaseQuery, SlotWithout, CallTracked, Calling, Owning, Ended
<1>5. FreshCalls'
  BY Shapes DEF MacInvariant, TypeOK, FreshCalls, ReleaseQuery, SlotWithout, CallScope, CallTracked, Calling, Owning, Ended
<1>6. SessionScope'
  BY Shapes DEF MacInvariant, TypeOK, SessionScope, ReleaseQuery, SlotWithout
<1>7. RequestIsKept'
  BY Shapes DEF MacInvariant, TypeOK, RequestIsKept, ReleaseQuery, SlotWithout
<1>8. FlagHasOwner'
  BY Shapes DEF MacInvariant, TypeOK, FlagHasOwner, ReleaseQuery, SlotWithout, SlotScope, SessionScope, Owning, Ended
<1>9. ReportScope'
  BY Shapes DEF MacInvariant, TypeOK, ReportScope, ReleaseQuery, SlotWithout, CallScope, CallTracked, Calling, Owning, Ended, Unjudged
<1>10. TargetScope'
  BY Shapes DEF MacInvariant, TypeOK, TargetScope, ReleaseQuery, SlotWithout, CallScope, CallTracked, Calling, Owning, Ended
<1>11. HitScope'
  <2>1. ASSUME NEW c \in hit, command[c[1]] = "scan"
        PROVE  WillBeCancelled(c)'
    <3>1. WillBeCancelled(c) /\ c \in Children
      BY <2>1 DEF MacInvariant, TypeOK, HitScope, ReleaseQuery
    <3>2. pc[c[1]] \in Unjudged => pc'[c[1]] = pc[c[1]]
      BY <3>1, Shapes DEF MacInvariant, TypeOK, ReleaseQuery, Unjudged
    <3> QED
      BY <3>1, <3>2 DEF WillBeCancelled, ReleaseQuery
  <2> QED
    BY <2>1 DEF HitScope, ReleaseQuery
<1> QED
  BY <1>1, <1>2, <1>3, <1>4, <1>5, <1>6, <1>7, <1>8, <1>9, <1>10, <1>11 DEF MacInvariant

\* A query drops the flag only when it is nobody else's.
LEMMA ClearUtilityProcessCancellationKeeps ==
  ASSUME MacInvariant, NEW p \in Callers, ClearUtilityProcessCancellation(p)
  PROVE  MacInvariant'
<1>1. TypeOK'
  BY Shapes DEF MacInvariant, TypeOK, ClearUtilityProcessCancellation, MayForget
<1>2. RunningIsOwned'
  BY Shapes DEF MacInvariant, TypeOK, RunningIsOwned, ClearUtilityProcessCancellation, MayForget
<1>3. SlotScope'
  BY Shapes DEF MacInvariant, TypeOK, SlotScope, ClearUtilityProcessCancellation, MayForget, CallScope, CallTracked, SessionScope, Calling, Owning, Ended
<1>4. CallScope'
  BY Shapes DEF MacInvariant, TypeOK, CallScope, ClearUtilityProcessCancellation, MayForget, CallTracked, Calling, Owning, Ended
<1>5. FreshCalls'
  BY Shapes DEF MacInvariant, TypeOK, FreshCalls, ClearUtilityProcessCancellation, MayForget, CallScope, CallTracked, Calling, Owning, Ended
<1>6. SessionScope'
  BY Shapes DEF MacInvariant, TypeOK, SessionScope, ClearUtilityProcessCancellation, MayForget
<1>7. RequestIsKept'
  BY Shapes DEF MacInvariant, TypeOK, RequestIsKept, ClearUtilityProcessCancellation, MayForget
<1>8. FlagHasOwner'
  <2>1. CASE session = None /\ current = None
    BY <2>1 DEF FlagHasOwner, ClearUtilityProcessCancellation, MayForget
  <2>2. CASE session = None /\ current # None
    <3>1. PICK q \in Callers : command[q] = "query" /\ pc[q] \in {"waiting", "judging", "releasing"}
      BY <2>2, QueryOwnsSlot
    <3>2. command'[q] = "query" /\ pc'[q] = pc[q]
      BY <3>1 DEF MacInvariant, TypeOK, ClearUtilityProcessCancellation
    <3> QED
      BY <3>1, <3>2 DEF FlagHasOwner
  <2>3. CASE session # None
    BY <2>3 DEF FlagHasOwner, ClearUtilityProcessCancellation
  <2> QED
    BY <2>1, <2>2, <2>3
<1>9. ReportScope'
  BY Shapes DEF MacInvariant, TypeOK, ReportScope, ClearUtilityProcessCancellation, MayForget, CallScope, CallTracked, Calling, Owning, Ended, Unjudged
<1>10. TargetScope'
  BY Shapes DEF MacInvariant, TypeOK, TargetScope, ClearUtilityProcessCancellation, MayForget, CallScope, CallTracked, Calling, Owning, Ended
<1>11. HitScope'
  BY Shapes DEF MacInvariant, TypeOK, HitScope, ClearUtilityProcessCancellation, MayForget, WillBeCancelled, SessionScope, Unjudged
<1> QED
  BY <1>1, <1>2, <1>3, <1>4, <1>5, <1>6, <1>7, <1>8, <1>9, <1>10, <1>11 DEF MacInvariant

\* The launching thread ends its part.
LEMMA StartWatchdogKeeps ==
  ASSUME MacInvariant, NEW p \in Callers, StartWatchdog(p)
  PROVE  MacInvariant'
<1>1. TypeOK'
  <2>1. timer' \in [Children -> {"off", "armed", "watching", "fired", "claimed"}]
    BY DEF MacInvariant, TypeOK, StartWatchdog
  <2>2. starting' \subseteq Callers
    BY DEF MacInvariant, TypeOK, StartWatchdog
  <2> QED
    BY <2>1, <2>2 DEF MacInvariant, TypeOK, StartWatchdog
<1>2. RunningIsOwned'
  BY Shapes DEF MacInvariant, TypeOK, RunningIsOwned, StartWatchdog
<1>3. SlotScope'
  BY Shapes DEF MacInvariant, TypeOK, SlotScope, StartWatchdog, CallScope, CallTracked, SessionScope, Calling, Owning, Ended
<1>4. CallScope'
  BY Shapes DEF MacInvariant, TypeOK, CallScope, StartWatchdog, CallTracked, Calling, Owning, Ended
<1>5. FreshCalls'
  BY Shapes DEF MacInvariant, TypeOK, FreshCalls, StartWatchdog, CallScope, CallTracked, Calling, Owning, Ended
<1>6. SessionScope'
  BY Shapes DEF MacInvariant, TypeOK, SessionScope, StartWatchdog
<1>7. RequestIsKept'
  BY Shapes DEF MacInvariant, TypeOK, RequestIsKept, StartWatchdog
<1>8. FlagHasOwner'
  BY Shapes DEF MacInvariant, TypeOK, FlagHasOwner, StartWatchdog, SlotScope, SessionScope, Owning, Ended
<1>9. ReportScope'
  BY Shapes DEF MacInvariant, TypeOK, ReportScope, StartWatchdog, CallScope, CallTracked, Calling, Owning, Ended, Unjudged
<1>10. TargetScope'
  BY Shapes DEF MacInvariant, TypeOK, TargetScope, StartWatchdog, CallScope, CallTracked, Calling, Owning, Ended
<1>11. HitScope'
  BY Shapes DEF MacInvariant, TypeOK, HitScope, StartWatchdog, WillBeCancelled, SessionScope, Unjudged
<1> QED
  BY <1>1, <1>2, <1>3, <1>4, <1>5, <1>6, <1>7, <1>8, <1>9, <1>10, <1>11 DEF MacInvariant

\* The wait of an acquisition ends after its process.
LEMMA FinishWatchdogKeeps ==
  ASSUME MacInvariant, NEW p \in Callers, FinishWatchdog(p)
  PROVE  MacInvariant'
<1>1. TypeOK'
  BY Shapes DEF MacInvariant, TypeOK, FinishWatchdog
<1>2. RunningIsOwned'
  BY Shapes DEF MacInvariant, TypeOK, RunningIsOwned, FinishWatchdog
<1>3. SlotScope'
  BY Shapes DEF MacInvariant, TypeOK, SlotScope, FinishWatchdog, CallScope, CallTracked, SessionScope, Calling, Owning, Ended
<1>4. CallScope'
  <2>1. ASSUME NEW q \in Callers, q # p
        PROVE  CallTracked(q)'
    <3>1. pc'[q] = pc[q] /\ calls'[q] = calls[q]
      BY <2>1 DEF MacInvariant, TypeOK, FinishWatchdog
    <3>2. child'[Mine(q)] = child[Mine(q)]
      BY <2>1 DEF MacInvariant, TypeOK, FinishWatchdog
    <3>3. q \in starting' <=> q \in starting
      BY <2>1 DEF FinishWatchdog
    <3> QED
      BY <3>1, <3>2, <3>3, OthersTracked DEF MacInvariant, CallScope
  <2>2. CallTracked(p)'
    BY NextCall DEF MacInvariant, TypeOK, CallScope, CallTracked, FinishWatchdog, Calling, Owning, Ended
  <2> QED
    BY <2>1, <2>2 DEF CallScope
<1>5. FreshCalls'
  BY Shapes DEF MacInvariant, TypeOK, FreshCalls, FinishWatchdog, CallScope, CallTracked, Calling, Owning, Ended
<1>6. SessionScope'
  BY Shapes DEF MacInvariant, TypeOK, SessionScope, FinishWatchdog
<1>7. RequestIsKept'
  BY Shapes DEF MacInvariant, TypeOK, RequestIsKept, FinishWatchdog
<1>8. FlagHasOwner'
  BY Shapes DEF MacInvariant, TypeOK, FlagHasOwner, FinishWatchdog, SlotScope, SessionScope, Owning, Ended
<1>9. ReportScope'
  BY Shapes DEF MacInvariant, TypeOK, ReportScope, FinishWatchdog, CallScope, CallTracked, Calling, Owning, Ended, Unjudged
<1>10. TargetScope'
  BY Shapes DEF MacInvariant, TypeOK, TargetScope, FinishWatchdog, CallScope, CallTracked, Calling, Owning, Ended
<1>11. HitScope'
  BY Shapes DEF MacInvariant, TypeOK, HitScope, FinishWatchdog, WillBeCancelled, SessionScope, Unjudged
<1> QED
  BY <1>1, <1>2, <1>3, <1>4, <1>5, <1>6, <1>7, <1>8, <1>9, <1>10, <1>11 DEF MacInvariant

\* A call takes its own process out of the slot, and no other.
LEMMA ReleaseAcquisitionKeeps ==
  ASSUME MacInvariant, NEW p \in Callers, ReleaseAcquisition(p)
  PROVE  MacInvariant'
<1>1. TypeOK'
  BY Shapes DEF MacInvariant, TypeOK, ReleaseAcquisition, SlotWithout
<1>2. RunningIsOwned'
  <2>1. ASSUME NEW c \in Children, Running(c)
        PROVE  current' = c
    <3>1. ~Running(Mine(p))
      BY DEF MacInvariant, CallScope, CallTracked, ReleaseAcquisition, Calling, Owning, Ended
    <3>2. current = c /\ c # Mine(p)
      BY <2>1, <3>1 DEF MacInvariant, RunningIsOwned
    <3> QED
      BY <3>2 DEF ReleaseAcquisition, SlotWithout
  <2> QED
    BY <2>1 DEF RunningIsOwned, ReleaseAcquisition
<1>3. SlotScope'
  BY Shapes DEF MacInvariant, TypeOK, SlotScope, ReleaseAcquisition, SlotWithout, CallScope, CallTracked, SessionScope, Calling, Owning, Ended
<1>4. CallScope'
  BY Shapes DEF MacInvariant, TypeOK, CallScope, ReleaseAcquisition, SlotWithout, CallTracked, Calling, Owning, Ended
<1>5. FreshCalls'
  BY Shapes DEF MacInvariant, TypeOK, FreshCalls, ReleaseAcquisition, SlotWithout, CallScope, CallTracked, Calling, Owning, Ended
<1>6. SessionScope'
  BY Shapes DEF MacInvariant, TypeOK, SessionScope, ReleaseAcquisition, SlotWithout
<1>7. RequestIsKept'
  BY Shapes DEF MacInvariant, TypeOK, RequestIsKept, ReleaseAcquisition, SlotWithout
<1>8. FlagHasOwner'
  BY Shapes DEF MacInvariant, TypeOK, FlagHasOwner, ReleaseAcquisition, SlotWithout, SlotScope, SessionScope, Owning, Ended
<1>9. ReportScope'
  BY Shapes DEF MacInvariant, TypeOK, ReportScope, ReleaseAcquisition, SlotWithout, CallScope, CallTracked, Calling, Owning, Ended, Unjudged
<1>10. TargetScope'
  BY Shapes DEF MacInvariant, TypeOK, TargetScope, ReleaseAcquisition, SlotWithout, CallScope, CallTracked, Calling, Owning, Ended
<1>11. HitScope'
  BY Shapes DEF MacInvariant, TypeOK, HitScope, ReleaseAcquisition, SlotWithout, WillBeCancelled, SessionScope, Unjudged
<1> QED
  BY <1>1, <1>2, <1>3, <1>4, <1>5, <1>6, <1>7, <1>8, <1>9, <1>10, <1>11 DEF MacInvariant

\* An acquisition that a request hit returns cancelled.
LEMMA ResumeAcquisitionKeeps ==
  ASSUME MacInvariant, NEW p \in Callers, ResumeAcquisition(p)
  PROVE  MacInvariant'
<1>1. TypeOK'
  BY Shapes DEF MacInvariant, TypeOK, ResumeAcquisition, Verdict
<1>2. RunningIsOwned'
  BY Shapes DEF MacInvariant, TypeOK, RunningIsOwned, ResumeAcquisition, Verdict
<1>3. SlotScope'
  BY Shapes DEF MacInvariant, TypeOK, SlotScope, ResumeAcquisition, Verdict, CallScope, CallTracked, SessionScope, Calling, Owning, Ended
<1>4. CallScope'
  BY Shapes DEF MacInvariant, TypeOK, CallScope, ResumeAcquisition, Verdict, CallTracked, Calling, Owning, Ended
<1>5. FreshCalls'
  BY Shapes DEF MacInvariant, TypeOK, FreshCalls, ResumeAcquisition, Verdict, CallScope, CallTracked, Calling, Owning, Ended
<1>6. SessionScope'
  BY Shapes DEF MacInvariant, TypeOK, SessionScope, ResumeAcquisition, Verdict
<1>7. RequestIsKept'
  BY Shapes DEF MacInvariant, TypeOK, RequestIsKept, ResumeAcquisition, Verdict
<1>8. FlagHasOwner'
  BY Shapes DEF MacInvariant, TypeOK, FlagHasOwner, ResumeAcquisition, Verdict, SlotScope, SessionScope, Owning, Ended
<1>9. ReportScope'
  BY Shapes DEF MacInvariant, TypeOK, ReportScope, ResumeAcquisition, Verdict, CallScope, CallTracked, Calling, Owning, Ended, Unjudged
<1>10. TargetScope'
  BY Shapes DEF MacInvariant, TypeOK, TargetScope, ResumeAcquisition, Verdict, CallScope, CallTracked, Calling, Owning, Ended
<1>11. HitScope'
  <2>1. ASSUME NEW c \in hit, command[c[1]] = "scan"
        PROVE  WillBeCancelled(c)'
    <3>1. WillBeCancelled(c) /\ c \in Children /\ Mine(p) \in Children
      BY <2>1, Shapes DEF MacInvariant, TypeOK, HitScope, ResumeAcquisition, CallScope, CallTracked, Calling, Owning, Ended
    <3>2. CASE c = Mine(p)
      <4>1. promised
        BY <3>1, <3>2 DEF MacInvariant, ReportScope, WillBeCancelled, Unjudged, ResumeAcquisition
      <4>2. report'[c] = "cancelled"
        BY <3>1, <3>2, <4>1 DEF MacInvariant, TypeOK, RequestIsKept, ResumeAcquisition, Verdict
      <4> QED
        BY <4>2 DEF WillBeCancelled
    <3>3. CASE c # Mine(p)
      <4>1. report'[c] = report[c] /\ calls' = calls /\ session' = session /\ promised' = promised
        BY <3>1, <3>3 DEF MacInvariant, TypeOK, ResumeAcquisition
      <4>2. c = Mine(c[1]) => pc'[c[1]] = pc[c[1]]
        BY <3>1, <3>3, Shapes DEF MacInvariant, TypeOK, ResumeAcquisition
      <4> QED
        BY <3>1, <4>1, <4>2 DEF WillBeCancelled
    <3> QED
      BY <3>2, <3>3
  <2> QED
    BY <2>1 DEF HitScope, ResumeAcquisition
<1> QED
  BY <1>1, <1>2, <1>3, <1>4, <1>5, <1>6, <1>7, <1>8, <1>9, <1>10, <1>11 DEF MacInvariant

\* A verdict only changes to cancelled afterwards.
LEMMA AfterAcquisitionKeeps ==
  ASSUME MacInvariant, NEW p \in Callers, AfterAcquisition(p)
  PROVE  MacInvariant'
<1>1. TypeOK'
  BY Shapes DEF MacInvariant, TypeOK, AfterAcquisition
<1>2. RunningIsOwned'
  BY Shapes DEF MacInvariant, TypeOK, RunningIsOwned, AfterAcquisition
<1>3. SlotScope'
  BY Shapes DEF MacInvariant, TypeOK, SlotScope, AfterAcquisition, CallScope, CallTracked, SessionScope, Calling, Owning, Ended
<1>4. CallScope'
  BY Shapes DEF MacInvariant, TypeOK, CallScope, AfterAcquisition, CallTracked, Calling, Owning, Ended
<1>5. FreshCalls'
  BY Shapes DEF MacInvariant, TypeOK, FreshCalls, AfterAcquisition, CallScope, CallTracked, Calling, Owning, Ended
<1>6. SessionScope'
  BY Shapes DEF MacInvariant, TypeOK, SessionScope, AfterAcquisition
<1>7. RequestIsKept'
  BY Shapes DEF MacInvariant, TypeOK, RequestIsKept, AfterAcquisition
<1>8. FlagHasOwner'
  BY Shapes DEF MacInvariant, TypeOK, FlagHasOwner, AfterAcquisition, SlotScope, SessionScope, Owning, Ended
<1>9. ReportScope'
  BY Shapes DEF MacInvariant, TypeOK, ReportScope, AfterAcquisition, CallScope, CallTracked, Calling, Owning, Ended, Unjudged
<1>10. TargetScope'
  BY Shapes DEF MacInvariant, TypeOK, TargetScope, AfterAcquisition, CallScope, CallTracked, Calling, Owning, Ended
<1>11. HitScope'
  <2>1. ASSUME NEW c \in hit, command[c[1]] = "scan"
        PROVE  WillBeCancelled(c)'
    <3>1. WillBeCancelled(c) /\ c \in Children
      BY <2>1 DEF MacInvariant, TypeOK, HitScope, AfterAcquisition
    <3>2. CASE report[c] = "cancelled"
      BY <3>1, <3>2 DEF MacInvariant, TypeOK, AfterAcquisition, WillBeCancelled
    <3>3. CASE report[c] # "cancelled"
      <4>1. c[1] # p
        BY <3>1, <3>3 DEF WillBeCancelled, Unjudged, AfterAcquisition
      <4> QED
        BY <3>1, <3>3, <4>1, Shapes DEF MacInvariant, TypeOK, AfterAcquisition, WillBeCancelled
    <3> QED
      BY <3>2, <3>3
  <2> QED
    BY <2>1 DEF HitScope, AfterAcquisition
<1> QED
  BY <1>1, <1>2, <1>3, <1>4, <1>5, <1>6, <1>7, <1>8, <1>9, <1>10, <1>11 DEF MacInvariant

\* A request sets the flag only for a session or a process that will drop it.
LEMMA RequestCancellationKeeps ==
  ASSUME MacInvariant, NEW s \in Signals, RequestCancellation(s)
  PROVE  MacInvariant'
<1>1. TypeOK'
  <2>1. task' \in [Signals -> {"idle", "asking", "grace", "handled"}]
    BY DEF MacInvariant, TypeOK, RequestCancellation
  <2>2. target' \in [Signals -> Children \union {None}]
    BY DEF MacInvariant, TypeOK, RequestCancellation
  <2>3. cancelled' \in BOOLEAN /\ promised' \in BOOLEAN
    BY DEF MacInvariant, TypeOK, RequestCancellation
  <2> QED
    BY <2>1, <2>2, <2>3 DEF MacInvariant, TypeOK, RequestCancellation
<1>2. RunningIsOwned'
  BY Shapes DEF MacInvariant, TypeOK, RunningIsOwned, RequestCancellation
<1>3. SlotScope'
  BY Shapes DEF MacInvariant, TypeOK, SlotScope, RequestCancellation, CallScope, CallTracked, SessionScope, Calling, Owning, Ended
<1>4. CallScope'
  BY Shapes DEF MacInvariant, TypeOK, CallScope, RequestCancellation, CallTracked, Calling, Owning, Ended
<1>5. FreshCalls'
  BY Shapes DEF MacInvariant, TypeOK, FreshCalls, RequestCancellation, CallScope, CallTracked, Calling, Owning, Ended
<1>6. SessionScope'
  BY Shapes DEF MacInvariant, TypeOK, SessionScope, RequestCancellation
<1>7. RequestIsKept'
  BY Shapes DEF MacInvariant, TypeOK, RequestIsKept, RequestCancellation
<1>8. FlagHasOwner'
  <2>1. CASE session = None /\ current # None
    BY <2>1, QueryOwnsSlot DEF FlagHasOwner, RequestCancellation
  <2>2. CASE session # None
    BY <2>2 DEF FlagHasOwner, RequestCancellation
  <2>3. CASE session = None /\ current = None
    BY <2>3 DEF MacInvariant, FlagHasOwner, RequestCancellation
  <2> QED
    BY <2>1, <2>2, <2>3
<1>9. ReportScope'
  BY Shapes DEF MacInvariant, TypeOK, ReportScope, RequestCancellation, CallScope, CallTracked, Calling, Owning, Ended, Unjudged
<1>10. TargetScope'
  <2>1. ASSUME NEW t \in Signals, task'[t] \in {"asking", "grace"}, t # s
        PROVE  task[t] \in {"asking", "grace"} /\ target'[t] = target[t]
    BY <2>1 DEF MacInvariant, TypeOK, RequestCancellation
  <2>2. ASSUME task'[s] \in {"asking", "grace"}
        PROVE  /\ target'[s] = current /\ current \in Children
               /\ promised' = (session # None)
    BY <2>2 DEF MacInvariant, TypeOK, RequestCancellation
  <2>3. current \in Children => child[current] # "none"
    BY Shapes DEF MacInvariant, SlotScope, CallScope, CallTracked, Calling
  <2>4. \A q \in Callers : session = q => promised' \/ (promised' = promised)
    BY Shapes DEF RequestCancellation
  <2>5. UNCHANGED <<command, session, child>>
    BY DEF RequestCancellation
  <2>6. ASSUME NEW t \in Signals, task'[t] \in {"asking", "grace"}
        PROVE  /\ target'[t] \in Children
               /\ child[target'[t]] # "none"
               /\ command[target'[t][1]] = "scan" /\ session = target'[t][1] => promised'
    <3>1. CASE t = s
      BY <2>2, <2>3, <2>6, <3>1, Shapes
    <3>2. CASE t # s
      BY <2>1, <2>4, <2>6, <3>2, Shapes DEF MacInvariant, TargetScope
    <3> QED
      BY <3>1, <3>2
  <2> QED
    BY <2>5, <2>6 DEF TargetScope
<1>11. HitScope'
  BY Shapes DEF MacInvariant, TypeOK, HitScope, RequestCancellation, WillBeCancelled, SessionScope, Unjudged
<1> QED
  BY <1>1, <1>2, <1>3, <1>4, <1>5, <1>6, <1>7, <1>8, <1>9, <1>10, <1>11 DEF MacInvariant

\* Only a process in the slot is sent SIGTERM.
LEMMA TerminateKeeps ==
  ASSUME MacInvariant, NEW s \in Signals, Terminate(s)
  PROVE  MacInvariant'
<1>1. TypeOK'
  <2>1. task' \in [Signals -> {"idle", "asking", "grace", "handled"}] /\ hit' \subseteq Children
    BY DEF MacInvariant, TypeOK, Terminate, TargetScope
  <2> QED
    BY <2>1 DEF MacInvariant, TypeOK, Terminate
<1>2. RunningIsOwned'
  BY Shapes DEF MacInvariant, TypeOK, RunningIsOwned, Terminate
<1>3. SlotScope'
  BY Shapes DEF MacInvariant, TypeOK, SlotScope, Terminate, CallScope, CallTracked, SessionScope, Calling, Owning, Ended
<1>4. CallScope'
  BY Shapes DEF MacInvariant, TypeOK, CallScope, Terminate, CallTracked, Calling, Owning, Ended
<1>5. FreshCalls'
  BY Shapes DEF MacInvariant, TypeOK, FreshCalls, Terminate, CallScope, CallTracked, Calling, Owning, Ended
<1>6. SessionScope'
  BY Shapes DEF MacInvariant, TypeOK, SessionScope, Terminate
<1>7. RequestIsKept'
  BY Shapes DEF MacInvariant, TypeOK, RequestIsKept, Terminate
<1>8. FlagHasOwner'
  BY Shapes DEF MacInvariant, TypeOK, FlagHasOwner, Terminate, SlotScope, SessionScope, Owning, Ended
<1>9. ReportScope'
  BY Shapes DEF MacInvariant, TypeOK, ReportScope, Terminate, CallScope, CallTracked, Calling, Owning, Ended, Unjudged
<1>10. TargetScope'
  BY Shapes DEF MacInvariant, TypeOK, TargetScope, Terminate, CallScope, CallTracked, Calling, Owning, Ended
<1>11. HitScope'
  <2>1. ASSUME NEW c \in hit', command[c[1]] = "scan"
        PROVE  WillBeCancelled(c)
    <3>1. CASE c \in hit
      BY <2>1, <3>1 DEF MacInvariant, HitScope
    <3>2. CASE c \notin hit
      <4>1. c = target[s] /\ Running(c) /\ c \in Children
        BY <2>1, <3>2 DEF MacInvariant, TargetScope, Terminate
      <4>2. current = c /\ c = <<c[1], c[2]>> /\ c[1] \in Callers /\ c[2] \in 1..MaxCalls
        BY <4>1, Shapes DEF MacInvariant, RunningIsOwned
      <4>3. pc[c[1]] \in Owning /\ c[2] = calls[c[1]] /\ session = c[1]
        BY <2>1, <4>2 DEF MacInvariant, SlotScope
      <4>4. pc[c[1]] \in Unjudged
        BY <4>1, <4>2, <4>3 DEF MacInvariant, CallScope, CallTracked, Calling, Owning, Ended, Unjudged
      <4>5. promised
        BY <2>1, <4>1, <4>3 DEF MacInvariant, TargetScope, Terminate
      <4> QED
        BY <4>2, <4>3, <4>4, <4>5 DEF WillBeCancelled
    <3> QED
      BY <3>1, <3>2
  <2> QED
    BY <2>1 DEF HitScope, WillBeCancelled, Terminate
<1> QED
  BY <1>1, <1>2, <1>3, <1>4, <1>5, <1>6, <1>7, <1>8, <1>9, <1>10, <1>11 DEF MacInvariant

\* The timers change the watchdog and SIGKILL only.
LEMMA TimerStepKeeps ==
  ASSUME MacInvariant, NEW c \in Children, TimerStep(c)
  PROVE  MacInvariant'
<1>1. CASE QueryTimesOut(c)
  <2>1. TypeOK'
    BY <1>1 DEF MacInvariant, TypeOK, QueryTimesOut
  <2> QED
    BY <1>1, <2>1, QuietStepKeeps DEF QueryTimesOut
<1>2. CASE WatchdogFires(c)
  <2>1. TypeOK'
    BY <1>2 DEF MacInvariant, TypeOK, WatchdogFires
  <2> QED
    BY <1>2, <2>1, QuietStepKeeps DEF WatchdogFires
<1>3. CASE ClaimTimeout(c)
  <2>1. TypeOK'
    BY <1>3 DEF MacInvariant, TypeOK, ClaimTimeout
  <2> QED
    BY <1>3, <2>1, QuietStepKeeps DEF ClaimTimeout
<1>4. CASE TimerKills(c)
  <2>1. TypeOK'
    BY <1>4 DEF MacInvariant, TypeOK, TimerKills, SigKill
  <2> QED
    BY <1>4, <2>1, QuietStepKeeps DEF TimerKills
<1> QED
  BY <1>1, <1>2, <1>3, <1>4 DEF TimerStep

\* A reader that leaves the pipes changes nothing the invariant relates.
LEMMA HelperExitsKeeps ==
  ASSUME MacInvariant, NEW c \in Children, HelperExits(c)
  PROVE  MacInvariant'
<1>1. TypeOK'
  BY DEF MacInvariant, TypeOK, HelperExits
<1> QED
  BY <1>1, QuietStepKeeps DEF HelperExits

\* The forced end of a task's process touches neither the slot nor the flag.
LEMMA ForceKillKeeps ==
  ASSUME MacInvariant, NEW s \in Signals, ForceKill(s)
  PROVE  MacInvariant'
<1>1. TypeOK'
  BY DEF MacInvariant, TypeOK, ForceKill, SigKill, TargetScope
<1>2. UNCHANGED <<commandVars, slotVars, child, historyVars, target>>
  BY DEF ForceKill
<1>3. TargetScope'
  <2>1. \A t \in Signals : task'[t] \in {"asking", "grace"} => task[t] \in {"asking", "grace"}
    BY DEF MacInvariant, TypeOK, ForceKill
  <2> QED
    BY <1>2, <2>1 DEF MacInvariant, TargetScope
<1>4. RunningIsOwned' /\ SlotScope' /\ CallScope' /\ FreshCalls' /\ SessionScope'
  BY <1>2 DEF MacInvariant, RunningIsOwned, SlotScope, CallScope, CallTracked, FreshCalls, SessionScope,
      Calling, Owning, Ended
<1>5. RequestIsKept' /\ FlagHasOwner' /\ ReportScope' /\ HitScope'
  BY <1>2 DEF MacInvariant, RequestIsKept, FlagHasOwner, ReportScope, HitScope, WillBeCancelled, Unjudged
<1> QED
  BY <1>1, <1>3, <1>4, <1>5 DEF MacInvariant

\* A process that ends stays where it is.
LEMMA ChildExitsKeeps ==
  ASSUME MacInvariant, NEW c \in Children, ChildExits(c)
  PROVE  MacInvariant'
<1>1. TypeOK'
  <2>1. child' \in [Children -> {"none", "running", "exited"}] /\ helper' \subseteq Children
    BY DEF MacInvariant, TypeOK, ChildExits
  <2> QED
    BY <2>1 DEF MacInvariant, TypeOK, ChildExits
<1>2. UNCHANGED <<commandVars, slotVars, taskVars, historyVars>>
  BY DEF ChildExits
<1>3. \A d \in Children : /\ Running(d)' => Running(d)
                          /\ child'[d] = "none" <=> child[d] = "none"
  BY DEF MacInvariant, TypeOK, ChildExits
<1>4. RunningIsOwned' /\ SlotScope' /\ FreshCalls' /\ SessionScope'
  BY <1>2, <1>3 DEF MacInvariant, RunningIsOwned, SlotScope, FreshCalls, SessionScope, Owning, Ended
<1>5. CallScope'
  <2> SUFFICES ASSUME NEW q \in Callers PROVE CallTracked(q)'
    BY DEF CallScope
  <2>1. CallTracked(q)
    BY DEF MacInvariant, CallScope
  <2>2. pc[q] \in Calling => Mine(q) \in Children
    BY <2>1 DEF CallTracked
  <2>3. Calling \ {"waiting", "scanning"} \subseteq Calling
    OBVIOUS
  <2> QED
    BY <1>2, <1>3, <2>1, <2>2, <2>3 DEF CallTracked
<1>6. TargetScope'
  BY <1>2, <1>3 DEF MacInvariant, TargetScope
<1>7. RequestIsKept' /\ FlagHasOwner' /\ ReportScope' /\ HitScope'
  BY <1>2 DEF MacInvariant, RequestIsKept, FlagHasOwner, ReportScope, HitScope, WillBeCancelled, Unjudged
<1> QED
  BY <1>1, <1>4, <1>5, <1>6, <1>7 DEF MacInvariant

LEMMA StepKeeps ==
  ASSUME MacInvariant, [Next]_vars
  PROVE  MacInvariant'
<1>1. CASE \E p \in Callers : CallerStep(p) \/ StartWatchdog(p)
  BY <1>1, BeginScanSessionKeeps, BeginQueriesKeeps, EndScanSessionKeeps, EndQueriesKeeps,
      LaunchRefusedKeeps, LaunchKeeps, QueryDrainedKeeps, JudgeQueryKeeps, ReleaseQueryKeeps,
      ClearUtilityProcessCancellationKeeps, FinishWatchdogKeeps, ReleaseAcquisitionKeeps,
      ResumeAcquisitionKeeps, AfterAcquisitionKeeps, StartWatchdogKeeps
      DEF CallerStep
<1>2. CASE \E c \in Children : TimerStep(c) \/ ChildExits(c) \/ HelperExits(c)
  BY <1>2, TimerStepKeeps, ChildExitsKeeps, HelperExitsKeeps
<1>3. CASE \E s \in Signals : TaskStep(s)
  BY <1>3, RequestCancellationKeeps, TerminateKeeps, ForceKillKeeps DEF TaskStep
<1>4. CASE UNCHANGED vars
  <2>1. TypeOK'
    BY <1>4 DEF MacInvariant, TypeOK, vars
  <2> QED
    BY <1>4, <2>1, QuietStepKeeps DEF vars
<1> QED
  BY <1>1, <1>2, <1>3, <1>4 DEF Next, Finished

-----------------------------------------------------------------------------
\* The backend's slot, session, flag, calls and signal tasks stay related as
\* MacInvariant says, for any number of commands, calls and signals.
THEOREM MacIsInvariant == Spec => []MacInvariant
<1> QED
  BY InitHolds, StepKeeps, PTL DEF Spec

\* launchOwnedScanProcess runs a process only into the empty slot, and a process
\* leaves it only when it has exited, so one scanimage runs at a time.
THEOREM OneProcess == Spec => []OneRunningProcess
<1>1. MacInvariant => OneRunningProcess
  BY DEF MacInvariant, RunningIsOwned, OneRunningProcess
<1> QED
  BY <1>1, MacIsInvariant, PTL

\* No cancellation and no process is left behind when no command is under way.
THEOREM CleanStart == Spec => []NextCommandStartsClean
<1>1. MacInvariant => NextCommandStartsClean
  <2> SUFFICES ASSUME MacInvariant, \A p \in Callers : pc[p] \in {"idle", "done"}
               PROVE  ~cancelled /\ current = None
    BY DEF NextCommandStartsClean
  <2>1. session = None
    BY DEF MacInvariant, TypeOK, SessionScope
  <2>2. ~cancelled
    BY <2>1 DEF MacInvariant, FlagHasOwner
  <2>3. current = None
    BY <2>1, QueryOwnsSlot
  <2> QED
    BY <2>2, <2>3
<1> QED
  BY <1>1, MacIsInvariant, PTL

\* A scan's process that a request sent SIGTERM never makes its call return anything
\* but cancelled.
THEOREM InterruptedScan == Spec => []InterruptedScanIsCancelled
<1>1. MacInvariant => InterruptedScanIsCancelled
  <2> SUFFICES ASSUME MacInvariant, NEW c \in hit, command[c[1]] = "scan"
               PROVE  report[c] \in {"none", "cancelled"}
    BY DEF InterruptedScanIsCancelled
  <2>1. WillBeCancelled(c) /\ c \in Children
    BY DEF MacInvariant, TypeOK, HitScope
  <2>2. c[1] \in Callers
    BY <2>1, Shapes
  <2> QED
    BY <2>1, <2>2 DEF MacInvariant, ReportScope, WillBeCancelled
<1> QED
  BY <1>1, MacIsInvariant, PTL

\* Launch is the only step that starts a process.
LEMMA OnlyLaunchStarts ==
  ASSUME MacInvariant, [Next]_vars, NEW c \in Children, ~Running(c), child'[c] = "running"
  PROVE  \E p \in Callers : Launch(p)
<1>1. child' # child
  OBVIOUS
<1>2. \A d \in Children : ~ChildExits(d)
  BY DEF MacInvariant, TypeOK, ChildExits
<1> QED
  BY <1>1, <1>2 DEF Next, CallerStep, TimerStep, TaskStep, Finished, vars, BeginScanSession, BeginQueries,
      EndScanSession, EndQueries, LaunchRefused, QueryDrained, JudgeQuery, ReleaseQuery,
      ClearUtilityProcessCancellation, FinishWatchdog, ReleaseAcquisition, ResumeAcquisition,
      AfterAcquisition, StartWatchdog, QueryTimesOut, WatchdogFires, ClaimTimeout, TimerKills,
      RequestCancellation, Terminate, ForceKill, HelperExits

\* An accepted request of a session stops every later launch in it, since no query can
\* clear the flag (clearUtilityProcessCancellation) while the session is open.
THEOREM HeedsRequest == Spec => SessionHeedsRequest
<1>1. MacInvariant /\ [Next]_vars
        => [\A c \in Children : ~Running(c) /\ child'[c] = "running" => ~promised]_vars
  <2> SUFFICES ASSUME MacInvariant, [Next]_vars,
                      NEW c \in Children, ~Running(c), child'[c] = "running"
               PROVE  ~promised
    OBVIOUS
  <2>1. PICK p \in Callers : Launch(p)
    BY OnlyLaunchStarts
  <2> QED
    BY <2>1 DEF MacInvariant, RequestIsKept, Launch, LaunchVerdict
<1> QED
  BY <1>1, MacIsInvariant, PTL DEF Spec, SessionHeedsRequest

-----------------------------------------------------------------------------
\* Behind AskedProcessIsKilled: where a task that is done left its process, and what
\* the timer of a process is.
HandledScope ==
  \A s \in Signals :
    /\ task[s] = "idle" => target[s] = None
    /\ task[s] = "handled" /\ target[s] # None => child[target[s]] = "exited" \/ target[s] \in killed

TimerTracked(c) ==
  /\ child[c] = "none" => claim[c] = "open" /\ timer[c] = "off"
  /\ Running(c) /\ c \notin killed =>
       /\ claim[c] = "timedOut" => timer[c] = "claimed"
       /\ pc[c[1]] = "waiting" => timer[c] \in {"armed", "claimed"}

KillScope == HandledScope /\ \A c \in Children : TimerTracked(c)

\* What has ended stays so, and what was killed too.
LEMMA HandledKept ==
  ASSUME HandledScope, TypeOK, UNCHANGED taskVars, killed \subseteq killed',
         \A c \in Children : child[c] = "exited" => child'[c] = "exited"
  PROVE  HandledScope'
BY DEF HandledScope, TypeOK

\* A step that leaves the timer of a process alone and starts neither it nor a wait.
LEMMA TimerKept ==
  ASSUME NEW c \in Children, TimerTracked(c), claim'[c] = claim[c], timer'[c] = timer[c],
         killed \subseteq killed', Running(c)' => Running(c), child'[c] = "none" => child[c] = "none",
         pc'[c[1]] = "waiting" => pc[c[1]] = "waiting"
  PROVE  TimerTracked(c)'
BY DEF TimerTracked

\* Only a launch makes a command wait for a process that runs.
LEMMA CallerKeepsKills ==
  ASSUME MacInvariant, KillScope, NEW p \in Callers, CallerStep(p) \/ StartWatchdog(p)
  PROVE  KillScope'
<1>1. UNCHANGED <<killed, taskVars>>
  BY DEF CallerStep, BeginScanSession, BeginQueries, EndScanSession, EndQueries, LaunchRefused, Launch,
      QueryDrained, JudgeQuery, ReleaseQuery, ClearUtilityProcessCancellation, FinishWatchdog,
      ReleaseAcquisition, ResumeAcquisition, AfterAcquisition, StartWatchdog
<1>2. CASE Launch(p)
  <2>0. PICK d \in Children : d = <<p, calls[p] + 1>>
    BY <1>2, NextCall DEF MacInvariant, Launch
  <2>1. child[d] = "none" /\ child'[d] = "running" /\ claim' = claim
    BY <1>2, <2>0, NextCall, Shapes DEF MacInvariant, TypeOK, FreshCalls, Launch
  <2>2. \A c \in Children : c # d => child'[c] = child[c] /\ timer'[c] = timer[c]
    BY <1>2, <2>0 DEF MacInvariant, TypeOK, Launch
  <2>3. HandledScope'
    BY <1>1, <2>1, <2>2, HandledKept DEF KillScope, MacInvariant
  <2>4. TimerTracked(d)'
    <3>1. claim'[d] # "timedOut"
      BY <2>1 DEF KillScope, TimerTracked
    <3>2. pc'[p] = "waiting" => timer'[d] = "armed"
      <4>1. CASE LaunchedQuery(p)
        BY <2>0, <2>1, <4>1 DEF MacInvariant, TypeOK, LaunchedQuery
      <4>2. CASE LaunchedScan(p)
        BY <4>2 DEF MacInvariant, TypeOK, LaunchedScan
      <4> QED
        BY <1>2, <4>1, <4>2, LaunchedEither
    <3>3. d[1] = p
      BY <2>0
    <3> QED
      BY <2>1, <3>1, <3>2, <3>3 DEF TimerTracked
  <2>5. ASSUME NEW c \in Children, c # d
        PROVE  TimerTracked(c)'
    <3>1. ~Running(c)
      BY <1>2, Shapes DEF MacInvariant, RunningIsOwned, Launch, LaunchVerdict
    <3> QED
      BY <2>1, <2>2, <2>5, <3>1 DEF KillScope, TimerTracked
  <2>6. \A c \in Children : TimerTracked(c)'
    BY <2>4, <2>5
  <2> QED
    BY <2>3, <2>6 DEF KillScope
<1>3. CASE ~Launch(p)
  <2>0. /\ UNCHANGED child
        /\ pc' = pc \/ \E to \in {"ready", "judging", "releasing", "forgetting", "clearing", "resuming",
                               "resumed", "done"} : pc' = [pc EXCEPT ![p] = to]
    BY <1>3 DEF CallerStep, BeginScanSession, BeginQueries, EndScanSession, EndQueries,
        LaunchRefused, QueryDrained, JudgeQuery, ReleaseQuery, ClearUtilityProcessCancellation,
        FinishWatchdog, ReleaseAcquisition, ResumeAcquisition, AfterAcquisition, StartWatchdog
  <2>1. UNCHANGED child /\ \A q \in Callers : pc'[q] = "waiting" => pc[q] = "waiting"
    BY <2>0 DEF MacInvariant, TypeOK
  <2>2. HandledScope'
    BY <1>1, <2>1, HandledKept DEF KillScope, MacInvariant
  <2>3. ASSUME NEW c \in Children
        PROVE  TimerTracked(c)'
    <3>1. c[1] \in Callers /\ TimerTracked(c)
      BY Shapes DEF KillScope
    <3>2. CASE claim'[c] = claim[c] /\ timer'[c] = timer[c]
      BY <1>1, <2>1, <3>1, <3>2, TimerKept
    <3>3. CASE ReleaseQuery(p) \/ FinishWatchdog(p)
      <4>1. ~Running(Mine(p)) /\ child[Mine(p)] # "none"
        BY <3>3 DEF MacInvariant, CallScope, CallTracked, ReleaseQuery, FinishWatchdog, Calling, Owning, Ended
      <4>2. CASE c = Mine(p)
        BY <2>1, <4>1, <4>2 DEF TimerTracked
      <4>3. CASE c # Mine(p)
        BY <3>2, <3>3, <4>3 DEF MacInvariant, TypeOK, ReleaseQuery, FinishWatchdog
      <4> QED
        BY <4>2, <4>3
    <3>4. CASE StartWatchdog(p)
      <4>1. child[Mine(p)] # "none" /\ pc[p] # "waiting" /\ UNCHANGED <<pc, claim>>
        BY <3>4 DEF MacInvariant, CallScope, CallTracked, StartWatchdog, Calling, Owning, Ended
      <4>2. CASE c = Mine(p) /\ claim[c] = "open"
        BY <2>1, <4>1, <4>2 DEF TimerTracked
      <4>3. CASE c # Mine(p) \/ claim[c] # "open"
        BY <3>2, <3>4, <4>1, <4>3 DEF MacInvariant, TypeOK, StartWatchdog
      <4> QED
        BY <4>2, <4>3
    <3>5. CASE ~ReleaseQuery(p) /\ ~FinishWatchdog(p) /\ ~StartWatchdog(p)
      BY <1>3, <3>2, <3>5 DEF CallerStep, BeginScanSession, BeginQueries, EndScanSession, EndQueries, LaunchRefused,
          QueryDrained, JudgeQuery, ClearUtilityProcessCancellation, ReleaseAcquisition, ResumeAcquisition,
          AfterAcquisition
    <3> QED
      BY <3>3, <3>4, <3>5
  <2> QED
    BY <2>2, <2>3 DEF KillScope
<1> QED
  BY <1>2, <1>3

\* A timer that claimed a process kills it.
LEMMA TimerKeepsKills ==
  ASSUME MacInvariant, KillScope, NEW d \in Children, TimerStep(d)
  PROVE  KillScope'
<1>1. UNCHANGED <<commandVars, child, taskVars>> /\ killed \subseteq killed'
  BY DEF TimerStep, QueryTimesOut, WatchdogFires, ClaimTimeout, TimerKills, SigKill
<1>2. HandledScope'
  BY <1>1, HandledKept DEF KillScope, MacInvariant
<1>3. \A c \in Children : c # d => claim'[c] = claim[c] /\ timer'[c] = timer[c]
  BY DEF MacInvariant, TypeOK, TimerStep, QueryTimesOut, WatchdogFires, ClaimTimeout, TimerKills
<1>4. \A c \in Children : c # d => TimerTracked(c)'
  BY <1>1, <1>3, TimerKept DEF KillScope
<1>5. TimerTracked(d)'
  <2>1. TimerTracked(d)
    BY DEF KillScope
  <2>2. CASE QueryTimesOut(d)
    BY <1>1, <2>1, <2>2 DEF MacInvariant, TypeOK, QueryTimesOut, TimerTracked
  <2>3. CASE WatchdogFires(d)
    BY <1>1, <2>1, <2>3 DEF MacInvariant, TypeOK, WatchdogFires, TimerTracked
  <2>4. CASE ClaimTimeout(d)
    BY <1>1, <2>1, <2>4 DEF MacInvariant, TypeOK, ClaimTimeout, TimerTracked
  <2>5. CASE TimerKills(d)
    BY <1>1, <2>1, <2>5 DEF MacInvariant, TypeOK, TimerKills, SigKill, TimerTracked
  <2> QED
    BY <2>2, <2>3, <2>4, <2>5 DEF TimerStep
<1> QED
  BY <1>2, <1>4, <1>5 DEF KillScope

\* A task is done with a process that has ended or that it killed.
LEMMA TaskKeepsKills ==
  ASSUME MacInvariant, KillScope, NEW s \in Signals, TaskStep(s)
  PROVE  KillScope'
<1>1. UNCHANGED <<commandVars, child, timer, claim>> /\ killed \subseteq killed'
  BY DEF TaskStep, RequestCancellation, Terminate, ForceKill, SigKill
<1>2. \A c \in Children : TimerTracked(c)'
  BY <1>1, TimerKept DEF KillScope
<1>3. \A t \in Signals : t # s => task'[t] = task[t] /\ target'[t] = target[t]
  BY DEF MacInvariant, TypeOK, TaskStep, RequestCancellation, Terminate, ForceKill
<1>4. task'[s] # "idle"
  BY DEF MacInvariant, TypeOK, TaskStep, RequestCancellation, Terminate, ForceKill
<1>5. task'[s] = "handled" /\ target'[s] # None => child[target'[s]] = "exited" \/ target'[s] \in killed'
  <2>1. CASE RequestCancellation(s)
    BY <2>1 DEF MacInvariant, TypeOK, RequestCancellation, KillScope, HandledScope
  <2>2. CASE Terminate(s)
    BY <2>2 DEF MacInvariant, TypeOK, TargetScope, Terminate
  <2>3. CASE ForceKill(s)
    BY <2>3 DEF MacInvariant, TypeOK, TargetScope, ForceKill, SigKill
  <2> QED
    BY <2>1, <2>2, <2>3 DEF TaskStep
<1>6. HandledScope'
  BY <1>1, <1>3, <1>4, <1>5 DEF KillScope, HandledScope
<1> QED
  BY <1>2, <1>6 DEF KillScope

LEMMA StepKeepsKills ==
  ASSUME MacInvariant, KillScope, [Next]_vars
  PROVE  KillScope'
<1>1. CASE \E c \in Children : ChildExits(c) \/ HelperExits(c)
  <2>1. UNCHANGED <<commandVars, killed, timer, claim, taskVars>>
    BY <1>1 DEF ChildExits, HelperExits
  <2>2. \A c \in Children : /\ child[c] = "exited" => child'[c] = "exited"
                            /\ Running(c)' => Running(c)
                            /\ child'[c] = "none" => child[c] = "none"
    BY <1>1 DEF MacInvariant, TypeOK, ChildExits, HelperExits
  <2> QED
    BY <2>1, <2>2, HandledKept, TimerKept DEF KillScope, MacInvariant
<1>2. CASE UNCHANGED vars
  BY <1>2, HandledKept, TimerKept DEF KillScope, MacInvariant, vars
<1> QED
  BY <1>1, <1>2, CallerKeepsKills, TimerKeepsKills, TaskKeepsKills DEF Next, Finished

\* A process that a signal or a timeout asked to end is killed when it does not
\* (cancelScan and the timers): neither the end of a call nor a late watchdog takes
\* the timer away before.
THEOREM AskedIsKilled == Spec => []AskedProcessIsKilled
<1>1. Init => KillScope
  BY DEF Init, KillScope, HandledScope, TimerTracked
<1>2. MacInvariant /\ KillScope /\ [Next]_vars => KillScope'
  BY StepKeepsKills
<1>3. MacInvariant /\ KillScope => AskedProcessIsKilled
  BY DEF MacInvariant, TypeOK, KillScope, HandledScope, TimerTracked, AskedProcessIsKilled
<1> QED
  BY <1>1, <1>2, <1>3, MacIsInvariant, PTL DEF Spec

-----------------------------------------------------------------------------
\* beginScanSession and endScanSession drop an exited process only.
LEMMA DropsExited ==
  ASSUME MacInvariant, current' = CurrentIfRunning, UNCHANGED <<cancelled, child>>
  PROVE  [Slot!SlotNext]_(Slot!slotVars)
<1>1. CASE current # None /\ ~Running(current)
  <2>1. current \in Children
    BY <1>1 DEF MacInvariant, TypeOK
  <2>2. child[current] = "exited"
    <3>1. PICK q \in Callers, n \in 1..MaxCalls : current = <<q, n>>
      BY <2>1
    <3>2. child[current] # "none"
      BY <3>1 DEF MacInvariant, SlotScope, CallScope, CallTracked, Calling
    <3> QED
      BY <1>1, <2>1, <3>2 DEF MacInvariant, TypeOK
  <2>3. Slot!Vacate
    BY <1>1, <2>1, <2>2 DEF CurrentIfRunning, Slot!Vacate
  <2> QED
    BY <2>3 DEF Slot!SlotNext
<1>2. CASE current = None \/ Running(current)
  BY <1>2 DEF CurrentIfRunning, Slot!slotVars
<1> QED
  BY <1>1, <1>2

\* A call takes its own exited process out of the slot, or finds it gone.
LEMMA ReleasesOwn ==
  ASSUME MacInvariant, NEW p \in Callers, pc[p] \in Ended \union {"forgetting"},
         current' = SlotWithout(Mine(p)), UNCHANGED <<cancelled, child>>
  PROVE  [Slot!SlotNext]_(Slot!slotVars)
<1>1. Mine(p) \in Children /\ child[Mine(p)] = "exited"
  BY DEF MacInvariant, TypeOK, CallScope, CallTracked, Calling, Owning, Ended
<1>2. CASE current = Mine(p)
  <2>1. Slot!Vacate
    BY <1>1, <1>2 DEF SlotWithout, Slot!Vacate
  <2> QED
    BY <2>1 DEF Slot!SlotNext
<1>3. CASE current # Mine(p)
  BY <1>3 DEF SlotWithout, Slot!slotVars
<1> QED
  BY <1>2, <1>3

\* When a scan ends its session, no process is in the slot.
LEMMA SessionEndsEmpty ==
  ASSUME MacInvariant, NEW p \in Callers, pc[p] = "ready", session = p
  PROVE  current = None
<1> SUFFICES ASSUME current # None PROVE FALSE
  OBVIOUS
<1>1. PICK q \in Callers, n \in 1..MaxCalls : current = <<q, n>>
  BY DEF MacInvariant, TypeOK
<1>2. pc[q] \in Owning /\ session = IF command[q] = "scan" THEN q ELSE None
  BY <1>1 DEF MacInvariant, SlotScope
<1> QED
  BY <1>2, Shapes DEF Owning, Ended

LEMMA CallerRefines ==
  ASSUME MacInvariant, NEW p \in Callers, CallerStep(p) \/ StartWatchdog(p)
  PROVE  [Slot!SlotNext]_(Slot!slotVars)
<1>1. CASE BeginScanSession(p)
  BY <1>1, DropsExited DEF BeginScanSession
<1>2. CASE EndScanSession(p)
  <2>1. CASE session = p
    <3>1. current = None
      BY <1>2, <2>1, SessionEndsEmpty DEF EndScanSession
    <3>2. session = p => current' = None /\ cancelled' = FALSE /\ child' = child
      BY <1>2, <2>1, <3>1 DEF EndScanSession, CurrentIfRunning
    <3>3. Slot!Forget
      BY <2>1, <3>1, <3>2 DEF Slot!Forget
    <3> QED
      BY <3>3 DEF Slot!SlotNext
  <2>2. CASE session # p
    BY <1>2, <2>2 DEF EndScanSession, Slot!slotVars
  <2> QED
    BY <2>1, <2>2
<1>3. CASE Launch(p)
  <2>1. <<p, calls[p] + 1>> \in Children /\ child[<<p, calls[p] + 1>>] = "none"
    BY <1>3, NextCall, Shapes DEF MacInvariant, TypeOK, FreshCalls, Launch
  <2>2. {c \in Children : child'[c] = "exited"} = {c \in Children : child[c] = "exited"}
    BY <1>3, <2>1 DEF MacInvariant, TypeOK, Launch
  <2>3. Slot!Occupy(<<p, calls[p] + 1>>)
    BY <1>3, <2>2 DEF Launch, LaunchVerdict, Slot!Occupy
  <2> QED
    BY <2>1, <2>3 DEF Slot!SlotNext
<1>4. CASE ReleaseQuery(p) \/ ReleaseAcquisition(p)
  BY <1>4, ReleasesOwn DEF ReleaseQuery, ReleaseAcquisition, Ended
<1>5. CASE ClearUtilityProcessCancellation(p)
  <2>1. CASE MayForget
    <3>1. Slot!Forget
      BY <1>5, <2>1 DEF ClearUtilityProcessCancellation, MayForget, Slot!Forget
    <3> QED
      BY <3>1 DEF Slot!SlotNext
  <2>2. CASE ~MayForget
    BY <1>5, <2>2 DEF ClearUtilityProcessCancellation, Slot!slotVars
  <2> QED
    BY <2>1, <2>2
<1>6. CASE UNCHANGED <<current, cancelled, child>>
  BY <1>6 DEF Slot!slotVars
<1> QED
  BY <1>1, <1>2, <1>3, <1>4, <1>5, <1>6 DEF CallerStep, BeginQueries, EndQueries, LaunchRefused,
      QueryDrained, JudgeQuery, FinishWatchdog, ResumeAcquisition, AfterAcquisition, StartWatchdog

LEMMA StepRefines ==
  ASSUME MacInvariant, [Next]_vars
  PROVE  [Slot!SlotNext]_(Slot!slotVars)
<1>1. ASSUME NEW c \in Children, ChildExits(c)
      PROVE  Slot!SlotNext
  <2>1. {d \in Children : child'[d] = "exited"} = {d \in Children : child[d] = "exited"} \union {c}
    BY <1>1 DEF MacInvariant, TypeOK, ChildExits
  <2>2. Slot!End(c)
    BY <1>1, <2>1 DEF ChildExits, Slot!End
  <2> QED
    BY <2>2 DEF Slot!SlotNext
<1>2. ASSUME NEW s \in Signals, RequestCancellation(s)
      PROVE  [Slot!SlotNext]_(Slot!slotVars)
  BY <1>2 DEF RequestCancellation, Slot!SlotNext, Slot!Cancel, Slot!slotVars
<1>3. CASE UNCHANGED <<current, cancelled, child>>
  BY <1>3 DEF Slot!slotVars
<1> QED
  BY <1>1, <1>2, <1>3, CallerRefines DEF Next, TimerStep, TaskStep, Finished, vars, QueryTimesOut,
      WatchdogFires, ClaimTimeout, TimerKills, Terminate, ForceKill, HelperExits

\* The backend keeps the slot discipline of ChildSlot, as the Windows adapter does
\* (ImplementsSlot of ProcessOwnershipProofs): a process enters the empty slot with no
\* request pending, leaves it ended, and a request is dropped only without a process.
THEOREM MacImplementsSlot == Spec => SlotDiscipline
<1>1. Init => Slot!SlotInit
  BY DEF Init, Slot!SlotInit
<1>2. MacInvariant /\ [Next]_vars => [Slot!SlotNext]_(Slot!slotVars)
  BY StepRefines
<1> QED
  BY <1>1, <1>2, MacIsInvariant, PTL DEF Spec, SlotDiscipline, Slot!SlotSpec
=============================================================================
