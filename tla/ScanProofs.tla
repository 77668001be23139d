----------------------------- MODULE ScanProofs -----------------------------
(***************************************************************************)
(* The command scan for every set of scanners and addresses, every backend *)
(* and any number of brackets: what it leaves on disk, that it heeds a     *)
(* cancellation, and which frames it scans again.                          *)
(***************************************************************************)
EXTENDS ScanCommand, FiniteSetTheorems, TLAPS

USE DEF Error

-----------------------------------------------------------------------------
(***************************************************************************)
(* Paths and brackets.                                                     *)
(***************************************************************************)
\* The results and the brackets are different files.
LEMMA Paths ==
  /\ {"output", "partial", "infrared"} \subseteq Path /\ Brackets \subseteq Path
  /\ {"output", "partial", "infrared"} \cap Brackets = {}
BY ScanAssumption DEF Path

\* The first bracket, and the one after another.
LEMMA BracketAfter ==
  /\ Samples[1] \in Brackets
  /\ file \in Brackets /\ Bracket < Len(Samples) => Samples[Bracket + 1] \in Brackets
<1>1. Samples \in Seq(STRING) /\ Samples # <<>> /\ DOMAIN Samples = 1..Len(Samples) /\ Len(Samples) \in Nat
  BY ScanAssumption
<1>2. 1 \in DOMAIN Samples
  BY <1>1
<1>3. ASSUME file \in Brackets, Bracket < Len(Samples) PROVE Bracket + 1 \in DOMAIN Samples
  <2>1. \E i \in DOMAIN Samples : Samples[i] = file
    BY <1>3 DEF Brackets
  <2>2. Bracket \in DOMAIN Samples
    BY <2>1 DEF Bracket
  <2> QED
    BY <1>1, <1>3, <2>2
<1> QED
  BY <1>2, <1>3 DEF Brackets

\* What was to be removed is gone, or counts as stuck; no other file changes.
LEMMA Removed ==
  ASSUME FileTypeOK, NEW disk \in [Path -> Content], NEW doomed \in SUBSET Path, Remove(doomed, disk)
  PROVE  /\ files' \in [Path -> Content] /\ stuck' \in SUBSET Path
         /\ \A p \in Path : files'[p] \in {"absent", disk[p]}
         /\ \A p \in Path \ doomed : files'[p] = disk[p] /\ (p \in stuck <=> p \in stuck')
         /\ \A p \in doomed : files'[p] = "absent" \/ p \in stuck'
<1>1. PICK kept \in SUBSET {p \in doomed : disk[p] # "absent"} :
        /\ files' = [p \in Path |-> IF p \in doomed \ kept THEN "absent" ELSE disk[p]]
        /\ stuck' = (stuck \ doomed) \cup kept
  BY DEF Remove
<1>2. "absent" \in Content
  BY DEF Content
<1> QED
  BY <1>1, <1>2 DEF FileTypeOK

-----------------------------------------------------------------------------
(***************************************************************************)
(* The start.                                                              *)
(***************************************************************************)
LEMMA InitScan == Init => ScanInvariant
<1> SUFFICES ASSUME Init PROVE ScanInvariant
  OBVIOUS
<1>0. InitDiscovery
  BY DEF Init
<1>1. PICK t \in [name : Name, identity : Models \cup {None}] \cup {NoToken} :
        job = [NewJob EXCEPT !.token = t]
  BY DEF Init
<1>2. job = [multi |-> FALSE, infrared |-> FALSE, token |-> t]
  BY <1>1 DEF NewJob
<1>3. t \in [name : Name \cup {None}, identity : Models \cup {None}]
  BY <1>1 DEF NoToken
<1>4. files = Untouched
  BY DEF Init, Untouched
<1>5. FileTypeOK
  <2>1. files \in [Path -> Content]
    BY <1>4 DEF Untouched, Content
  <2> QED
    BY <1>2, <1>3, <2>1, Paths DEF FileTypeOK, Init
<1>6. Early /\ PhaseScope
  BY <1>0 DEF Init, InitDiscovery, Early, PhaseScope
<1>7. FileScope
  BY <1>0, <1>2, <1>4, Paths DEF Init, InitDiscovery, FileScope, Untouched, Passing, Asking
<1>8. ErrorScope /\ StopScope /\ SeenScope
  BY <1>0 DEF Init, InitDiscovery, ErrorScope, StopScope, SeenScope, Nothing
<1>9. FailureLeavesNothing /\ SuccessIsWhole /\ ScanHeedsStop
  BY <1>0 DEF Init, InitDiscovery, FailureLeavesNothing, SuccessIsWhole, ScanHeedsStop
<1> QED
  BY <1>5, <1>6, <1>7, <1>8, <1>9 DEF ScanInvariant

-----------------------------------------------------------------------------
(***************************************************************************)
(* Steps that leave the files alone.                                       *)
(***************************************************************************)
\* While the command is under way the outcome is open.
LEMMA OpenOutcome ==
  ASSUME result' = "none", ~late'
  PROVE  FailureLeavesNothing' /\ SuccessIsWhole' /\ ScanHeedsStop'
BY DEF FailureLeavesNothing, SuccessIsWhole, ScanHeedsStop

\* A phase that goes on with the same files keeps what is known of them.
LEMMA SamePhase ==
  ASSUME ScanInvariant, pc # "done", pc' # "done", UNCHANGED <<job, file, files, withIR, result, try, seen, stuck>>,
         \/ Early /\ Early'
         \/ Passing /\ Passing' /\ ~Early'
  PROVE  FileTypeOK' /\ PhaseScope' /\ FileScope'
<1>1. FileTypeOK' /\ PhaseScope'
  BY DEF ScanInvariant, FileTypeOK, PhaseScope
<1>2. CASE Early /\ Early'
  <2>1. ~Passing' /\ pc' \notin {"merge", "artifacts"}
    BY <1>2 DEF Early, Passing, Asking
  <2> QED
    BY <1>1, <1>2, <2>1 DEF ScanInvariant, FileScope
<1>3. CASE Passing /\ Passing' /\ ~Early'
  <2>1. pc' \notin {"merge", "artifacts"}
    BY <1>3 DEF Passing, Asking
  <2> QED
    BY <1>1, <1>3, <2>1 DEF ScanInvariant, FileScope
<1> QED
  BY <1>1, <1>2, <1>3

\* A call answers with an error or a success; it answers Cancelled only for a request
\* that stays, and a scan that was cancelled launches nothing.
LEMMA CallAnswer ==
  ASSUME command = "scan", ~late, "Cancelled" \in stopped => flag, NEW n, RunScanimage(n)
  PROVE  /\ ~late' /\ command' = "scan"
         /\ ret'.code = "Ok" => ret' = Success
         /\ "Cancelled" \in stopped' => flag' /\ ret' = Error("Cancelled")
<1>0. /\ stopped' = stopped \cup ({ret'.code} \cap {"Cancelled", "Timeout"}) /\ command' = "scan"
  BY DEF RunScanimage, control
<1>1. CASE Refused
  BY <1>0, <1>1 DEF Refused, Success
<1>2. CASE Launched(n)
  <2>1. ~flag /\ "Cancelled" \notin stopped /\ ~late'
    BY <1>2 DEF Launched
  <2>2. /\ ret'.code = "Cancelled" => ret' = Error("Cancelled") /\ flag'
        /\ ret'.code = "Ok" => ret' = Success
    <3>1. CASE LaunchFails \/ TimesOut(n) \/ ExitsBadly(n)
      BY <3>1 DEF LaunchFails, TimesOut, ExitsBadly
    <3>2. CASE Answers(n)
      BY <3>2 DEF Answers, Success
    <3>3. CASE TurnedAway(n)
      BY <3>3 DEF TurnedAway
    <3>4. CASE Interrupted(n)
      BY <3>4 DEF Interrupted
    <3> QED
      BY <1>2, <3>1, <3>2, <3>3, <3>4 DEF Launched
  <2> QED
    BY <1>0, <2>1, <2>2
<1> QED
  BY <1>0, <1>1, <1>2 DEF RunScanimage

\* A call of the scan keeps the invariant.
LEMMA CallInvariant ==
  ASSUME ScanInvariant, NEW n, RunScanimage(n), UNCHANGED scanVars,
         pc \in {"list", "legacy", "dump", "redump", "scandump"}
  PROVE  ScanInvariant'
<1>1. UNCHANGED <<pc, purpose, lastError, job, file, files, withIR, result, try, seen, stuck>>
  BY DEF RunScanimage, scanVars
<1>2. Early \/ Passing
  BY DEF ScanInvariant, PhaseScope
<1>3. (Early <=> Early') /\ (Passing <=> Passing') /\ ~(Early /\ Passing)
  BY <1>1 DEF Early, Passing, Asking
<1>4. FileTypeOK' /\ PhaseScope' /\ FileScope'
  BY <1>1, <1>2, <1>3, SamePhase
<1>5. /\ ~late' /\ command' = "scan"
      /\ ret'.code = "Ok" => ret' = Success
      /\ "Cancelled" \in stopped' => flag' /\ ret' = Error("Cancelled")
  BY CallAnswer DEF ScanInvariant, StopScope
<1>6. ErrorScope'
  BY <1>1, <1>5 DEF ScanInvariant, ErrorScope
<1>7. StopScope'
  BY <1>1, <1>5 DEF StopScope
<1>8. SeenScope'
  BY <1>1 DEF ScanInvariant, SeenScope
<1>9. result' = "none"
  BY <1>1 DEF ScanInvariant, PhaseScope
<1> QED
  BY <1>4, <1>5, <1>6, <1>7, <1>8, <1>9, OpenOutcome DEF ScanInvariant

\* The steps between the calls of a listing keep the invariant.
LEMMA ListedInvariant ==
  ASSUME ScanInvariant, FormattedListed \/ LegacyListed \/ CurrentDeviceAddress, UNCHANGED scanVars
  PROVE  ScanInvariant'
<1>1. /\ UNCHANGED <<command, purpose, lastError, flag, stopped, late>>
      /\ UNCHANGED <<job, file, files, withIR, result, try, seen, stuck>>
      /\ pc \in {"list", "legacy", "listed"} /\ pc' \in {"legacy", "listed", "addressed"}
  BY DEF FormattedListed, LegacyListed, CurrentDeviceAddress, Local, control, world, history, scanVars
<1>2. /\ ret'.code = "Ok" => ret' = Success
      /\ ret # Nothing \/ pc # "list"
      /\ ret = Error("Cancelled") => ret' = ret
  BY DEF FormattedListed, LegacyListed, CurrentDeviceAddress, Nothing, Success, ScanInvariant, ErrorScope
<1>3. Early \/ Passing
  BY <1>1 DEF ScanInvariant, PhaseScope
<1>4. (Early <=> Early') /\ (Passing <=> Passing') /\ ~(Early /\ Passing)
  BY <1>1 DEF Early, Passing, Asking
<1>5. FileTypeOK' /\ PhaseScope' /\ FileScope'
  BY <1>1, <1>3, <1>4, SamePhase
<1>6. ErrorScope' /\ StopScope'
  BY <1>1, <1>2 DEF ScanInvariant, ErrorScope, StopScope
<1>7. SeenScope'
  BY <1>1 DEF ScanInvariant, SeenScope
<1>8. result' = "none" /\ ~late'
  BY <1>1 DEF ScanInvariant, PhaseScope, StopScope
<1> QED
  BY <1>5, <1>6, <1>7, <1>8, OpenOutcome DEF ScanInvariant

\* A step of the early phase that neither calls scanimage nor ends keeps the invariant.
LEMMA EarlyInvariant ==
  ASSUME ScanInvariant, Early, Early', "Cancelled" \in stopped => StopScope',
         UNCHANGED <<command, flag, stopped, late, job, file, files, withIR, result, try, seen, stuck>>,
         ret'.code = "Ok" => ret' = Success, lastError'.code # "Ok",
         pc' = "failed" => ret'.code # "Ok"
  PROVE  ScanInvariant'
<1>1. /\ pc # "done" /\ pc # "scanning" /\ pc' # "done" /\ pc' # "scanning"
  BY DEF Early, Asking
<1>2. FileTypeOK' /\ PhaseScope' /\ FileScope'
  BY <1>1, SamePhase
<1>3. ErrorScope' /\ SeenScope'
  BY <1>1 DEF ScanInvariant, ErrorScope, SeenScope
<1>4. StopScope'
  BY DEF ScanInvariant, StopScope
<1>5. result' = "none" /\ ~late'
  BY <1>1 DEF ScanInvariant, PhaseScope, StopScope
<1> QED
  BY <1>2, <1>3, <1>4, <1>5, OpenOutcome DEF ScanInvariant

\* A read is tried again or has failed.
LEMMA RetryInvariant ==
  ASSUME ScanInvariant, Early, NEW e, e.code # "Ok", RetryRead(e), UNCHANGED scanVars
  PROVE  ScanInvariant'
<1>1. UNCHANGED <<command, flag, stopped, late, job, file, files, withIR, result, try, seen, stuck>>
  BY DEF RetryRead, Local, control, world, history, scanVars
<1>2. /\ lastError' = Nothing
      /\ \/ pc' = "list" /\ purpose' = "resolve" /\ ret' = Nothing
         \/ pc' = "failed" /\ ret' = e
  BY DEF RetryRead, Ask
<1>3. Early'
  BY <1>2 DEF Early, Asking
<1>4. "Cancelled" \in stopped => StopScope'
  BY <1>1, <1>2 DEF ScanInvariant, StopScope
<1>5. /\ ret'.code = "Ok" => ret' = Success
      /\ lastError'.code # "Ok"
      /\ pc' = "failed" => ret'.code # "Ok"
  BY <1>2 DEF Nothing
<1> QED
  BY <1>1, <1>3, <1>4, <1>5, EarlyInvariant

\* The read goes on.
LEMMA ProceedInvariant ==
  ASSUME ScanInvariant, Early, "Cancelled" \notin stopped,
         NEW next \in {"dump", "redump", "dumped", "scandump", "validate"}, NEW n, NEW second,
         Proceed(next, n, second), UNCHANGED <<job, file, files, withIR, result, try, seen, stuck>>
  PROVE  ScanInvariant'
<1>1. UNCHANGED <<command, flag, stopped, late>> /\ pc' = next /\ ret' = Nothing /\ lastError' = Nothing
  BY DEF Proceed, Local, control, world, history
<1>2. Early'
  BY <1>1 DEF Early, Asking
<1>3. /\ ret'.code = "Ok" => ret' = Success
      /\ lastError'.code # "Ok"
      /\ pc' = "failed" => ret'.code # "Ok"
  BY <1>1 DEF Nothing
<1> QED
  BY <1>1, <1>2, <1>3, EarlyInvariant

\* A dump found a stale address: list the devices again.
LEMMA ReopenInvariant ==
  ASSUME ScanInvariant, Early, "Cancelled" \notin stopped, ret.code # "Ok",
         NEW who \in {"reopen", "reopenScan"}, NEW m, Reopen(who, m), UNCHANGED scanVars
  PROVE  ScanInvariant'
<1>1. /\ UNCHANGED <<command, flag, stopped, late, job, file, files, withIR, result, try, seen, stuck>>
      /\ pc' = "list" /\ purpose' = who /\ ret' = Nothing /\ lastError' = ret
  BY DEF Reopen, Ask, Local, control, world, history, scanVars
<1>2. Early'
  BY <1>1 DEF Early, Asking
<1>3. /\ ret'.code = "Ok" => ret' = Success
      /\ lastError'.code # "Ok"
      /\ pc' = "failed" => ret'.code # "Ok"
  BY <1>1 DEF Nothing
<1> QED
  BY <1>1, <1>2, <1>3, EarlyInvariant

\* A scan that was cancelled has no answer to use.
LEMMA NoAnswer ==
  ASSUME ScanInvariant, pc \in {"addressed", "dump", "redump", "scandump"}, ret = Success \/ ret.stale
  PROVE  "Cancelled" \notin stopped
BY DEF ScanInvariant, StopScope, Success

\* The answers of the option dumps are used, retried or given up.
LEMMA AnswerInvariant ==
  ASSUME ScanInvariant, AddressResolved \/ OptionsDumped \/ SourceDumped \/ Reopened,
         UNCHANGED scanVars
  PROVE  ScanInvariant'
<1>1. Early
  BY DEF AddressResolved, OptionsDumped, SourceDumped, Reopened, Early, Asking
<1>2. /\ Error("IoFailure").code # "Ok" /\ lastError.code # "Ok"
      /\ ret # Success => ret.code # "Ok"
  BY DEF ScanInvariant, ErrorScope
<1>3. UNCHANGED <<job, file, files, withIR, result, try, seen, stuck>>
  BY DEF scanVars
<1>4. CASE AddressResolved
  <2>1. CASE ret = Success /\ Proceed("dump", found, FALSE)
    BY <1>1, <1>3, <1>4, <2>1, NoAnswer, ProceedInvariant DEF AddressResolved
  <2>2. CASE ret # Success /\ RetryRead(ret)
    BY <1>1, <1>2, <2>2, RetryInvariant
  <2> QED
    BY <1>4, <2>1, <2>2 DEF AddressResolved
<1>5. CASE OptionsDumped
  <2>1. CASE RetryRead(Error("IoFailure"))
    BY <1>1, <1>2, <2>1, RetryInvariant
  <2>2. CASE ret # Success /\ RetryRead(ret)
    BY <1>1, <1>2, <2>2, RetryInvariant
  <2>3. CASE ret = Success /\ \E next \in {"dumped", "redump"} : Proceed(next, dev, FALSE)
    BY <1>1, <1>3, <1>5, <2>3, NoAnswer, ProceedInvariant DEF OptionsDumped
  <2> QED
    BY <1>5, <2>1, <2>2, <2>3 DEF OptionsDumped
<1>6. CASE SourceDumped
  <2>1. CASE RetryRead(Error("IoFailure"))
    BY <1>1, <1>2, <2>1, RetryInvariant
  <2>2. CASE ret # Success /\ RetryRead(ret)
    BY <1>1, <1>2, <2>2, RetryInvariant
  <2>3. CASE ret = Success /\ Proceed("dumped", dev, FALSE)
    BY <1>1, <1>3, <1>6, <2>3, NoAnswer, ProceedInvariant DEF SourceDumped
  <2>4. CASE ret # Success /\ ret.stale /\ Reopen("reopen", expected)
    BY <1>1, <1>2, <1>6, <2>4, NoAnswer, ReopenInvariant DEF SourceDumped
  <2>5. ret.stale => ret # Success
    BY DEF Success
  <2> QED
    BY <1>6, <2>1, <2>2, <2>3, <2>4, <2>5 DEF SourceDumped
<1>7. CASE Reopened
  <2>1. CASE ret = Success /\ Proceed("redump", found, TRUE)
    BY <1>1, <1>3, <1>7, <2>1, NoAnswer, ProceedInvariant DEF Reopened
  <2>2. CASE RetryRead(lastError)
    BY <1>1, <1>2, <2>2, RetryInvariant
  <2> QED
    BY <1>7, <2>1, <2>2 DEF Reopened
<1> QED
  BY <1>4, <1>5, <1>6, <1>7

-----------------------------------------------------------------------------
(***************************************************************************)
(* The end of the command, and the steps from pass to pass.                *)
(***************************************************************************)
\* A command that leaves such files behind ends well.
LEMMA LeaveInvariant ==
  ASSUME ScanInvariant, NEW r, NEW doomed \in SUBSET Path, NEW disk \in [Path -> Content],
         LeaveWith(r, doomed, disk),
         ~job.multi => \A p \in Brackets : disk[p] = "absent",
         r # "Ok" => /\ \A p \in {"output", "infrared"} \ (doomed \cup stuck) : disk[p] \in {"absent", "old"}
                     /\ "partial" \in doomed \/ disk["partial"] \in {"absent", "torn"},
         r = "Ok" => /\ doomed = {} /\ disk["output"] \in Whole /\ disk["partial"] = "absent"
                     /\ job.infrared => disk["infrared"] = disk["output"],
         r = "Ok" => "Cancelled" \notin stopped
  PROVE  ScanInvariant'
<1>0. /\ UNCHANGED <<command, stopped, late, flag, job, file, withIR, try, seen>>
      /\ pc' = "done" /\ result' = r /\ ret' = Nothing /\ lastError' = Nothing
      /\ Remove(doomed \cup Leftovers, disk)
  BY DEF LeaveWith, Local, control, world, history
<1>1. /\ files' \in [Path -> Content] /\ stuck' \in SUBSET Path
      /\ \A p \in Path : files'[p] \in {"absent", disk[p]}
      /\ \A p \in Path \ (doomed \cup Leftovers) : files'[p] = disk[p] /\ (p \in stuck <=> p \in stuck')
      /\ \A p \in doomed \cup Leftovers : files'[p] = "absent" \/ p \in stuck'
  <2>1. doomed \cup Leftovers \in SUBSET Path /\ FileTypeOK
    BY Paths DEF Leftovers, ScanInvariant
  <2> QED
    BY <1>0, <2>1, Removed
<1>10. /\ {"output", "partial", "infrared"} \subseteq Path \ Leftovers
       /\ ~KeepSamples => \A p \in Brackets \ stuck' : files'[p] = "absent"
  <2>1. {"output", "partial", "infrared"} \subseteq Path \ Leftovers
    BY Paths DEF Leftovers
  <2>2. ASSUME ~KeepSamples, NEW p \in Brackets \ stuck' PROVE files'[p] = "absent"
    <3>1. CASE job.multi
      BY <1>1, <2>2, <3>1, Paths DEF Leftovers
    <3>2. CASE ~job.multi
      BY <1>1, <2>2, <3>2, Paths
    <3> QED
      BY <3>1, <3>2
  <2> QED
    BY <2>1, <2>2
<1>2. FileTypeOK'
  BY <1>0, <1>1 DEF ScanInvariant, FileTypeOK
<1>3. PhaseScope' /\ FileScope' /\ SeenScope' /\ ErrorScope'
  BY <1>0 DEF PhaseScope, FileScope, SeenScope, ErrorScope, Early, Passing, Asking, Nothing
<1>4. StopScope' /\ ScanHeedsStop'
  BY <1>0 DEF ScanInvariant, StopScope, ScanHeedsStop
<1>5. FailureLeavesNothing'
  <2> SUFFICES ASSUME r # "Ok", NEW p \in Path \ stuck'
               PROVE  \/ p \in {"output", "infrared"} /\ files'[p] \in {"absent", "old"}
                      \/ p = "partial" /\ files'[p] \in {"absent", "torn"}
                      \/ p \in Brackets /\ (KeepSamples \/ files'[p] = "absent")
    BY <1>0 DEF FailureLeavesNothing
  <2>1. CASE p \in {"output", "infrared"}
    BY <1>1, <1>10, <2>1
  <2>2. CASE p = "partial"
    BY <1>1, <1>10, <2>2
  <2>3. CASE p \in Brackets
    BY <1>10, <2>3
  <2> QED
    BY <2>1, <2>2, <2>3 DEF Path
<1>6. SuccessIsWhole'
  BY <1>0, <1>1, <1>10 DEF SuccessIsWhole
<1> QED
  BY <1>2, <1>3, <1>4, <1>5, <1>6 DEF ScanInvariant

\* A command that fails before its options are accepted has touched no file.
LEMMA EarlyLeave ==
  ASSUME ScanInvariant, Early, NEW r, r # "Ok", Leave(r)
  PROVE  ScanInvariant'
<1>1. files = Untouched /\ ~job.multi
  BY DEF ScanInvariant, FileScope
<1>2. /\ files \in [Path -> Content] /\ files["output"] = "old" /\ files["infrared"] = "old"
      /\ files["partial"] = "absent" /\ \A p \in Brackets : files[p] = "absent"
  BY <1>1, Paths DEF Untouched, ScanInvariant, FileTypeOK
<1> QED
  BY <1>2, LeaveInvariant DEF Leave

\* The next pass, the merge or the validation begins with such files.
LEMMA ToInvariant ==
  ASSUME ScanInvariant, pc # "done", NEW next \in {"resolve", "merge", "artifacts"},
         To(next), FileTypeOK', FileScope',
         "Cancelled" \in stopped => next = "artifacts" /\ job.infrared /\ ~withIR'
  PROVE  ScanInvariant'
<1>1. /\ UNCHANGED <<command, stopped, late, flag, job, result>>
      /\ pc' = next /\ ret' = Nothing /\ lastError' = Nothing /\ seen' = FALSE
  BY DEF To, Forgotten, world
<1>2. result' = "none" /\ ~late'
  BY <1>1 DEF ScanInvariant, PhaseScope, StopScope
<1>3. PhaseScope' /\ SeenScope' /\ ErrorScope'
  BY <1>1, <1>2 DEF PhaseScope, SeenScope, ErrorScope, Passing, Nothing
<1>4. StopScope'
  BY <1>1 DEF ScanInvariant, StopScope
<1> QED
  BY <1>2, <1>3, <1>4, OpenOutcome DEF ScanInvariant

\* What is known of the files during a pass.
LEMMA PassFiles ==
  ASSUME ScanInvariant, Passing
  PROVE  /\ pc # "done" /\ ~Early /\ FileTypeOK /\ ~withIR /\ file \in {"output", "infrared"} \cup Brackets
         /\ files["partial"] = "absent"
         /\ ~job.multi => \A p \in Brackets : files[p] = "absent"
         /\ file = "infrared" => job.infrared
         /\ file # "infrared" => files["infrared"] = "old"
         /\ file \in Brackets => files["output"] = "old" /\ job.multi
<1>1. pc # "done" /\ ~Early
  BY DEF Passing, Early, Asking
<1> QED
  BY <1>1 DEF ScanInvariant, FileScope, FileTypeOK, Path

\* A pass that failed ends the scan, unless it was the one for infrared.
LEMMA PassFailsInvariant ==
  ASSUME ScanInvariant, Passing, NEW code, code # "Ok", PassFails(code)
  PROVE  ScanInvariant'
<1>0. FileTypeOK /\ files \in [Path -> Content] /\ {file} \in SUBSET Path
  BY PassFiles DEF FileTypeOK
<1>1. CASE file # "infrared" /\ LeaveWith(code, {file}, files)
  BY <1>0, <1>1, PassFiles, Paths, LeaveInvariant
<1>2. CASE /\ file = "infrared" /\ Remove({file}, files)
           /\ To("artifacts") /\ UNCHANGED <<file, withIR>>
  <2>1. pc' = "artifacts" /\ UNCHANGED <<job, file, withIR>>
    BY <1>2 DEF To
  <2>2. /\ files' \in [Path -> Content] /\ stuck' \in SUBSET Path
        /\ files'["partial"] = "absent"
        /\ ~job.multi => \A p \in Brackets : files'[p] = "absent"
        /\ files'["infrared"] = "absent" \/ "infrared" \in stuck'
    BY <1>0, <1>2, PassFiles, Paths, Removed
  <2>3. FileTypeOK'
    BY <2>1, <2>2, PassFiles DEF FileTypeOK
  <2>4. FileScope'
    BY <1>2, <2>1, <2>2 DEF FileScope, Early, Passing, Asking
  <2> QED
    BY <1>2, <2>1, <2>3, <2>4, PassFiles, ToInvariant
<1> QED
  BY <1>1, <1>2 DEF PassFails

-----------------------------------------------------------------------------
(***************************************************************************)
(* The session and the options.                                            *)
(***************************************************************************)
LEMMA StartInvariant ==
  ASSUME ScanInvariant, Busy \/ RefusedSession \/ BadToken \/ WithToken \/ WithoutToken
  PROVE  ScanInvariant'
<1>0. pc = "start" /\ Early
  BY DEF Busy, RefusedSession, BadToken, WithToken, WithoutToken, Early
<1>1. CASE Busy \/ RefusedSession \/ BadToken
  BY <1>0, <1>1, EarlyLeave DEF Busy, RefusedSession, BadToken
<1>2. CASE WithToken \/ WithoutToken
  <2>1. UNCHANGED <<command, flag, stopped, late, job, file, files, withIR, result, try, seen, stuck, lastError>>
    BY <1>2 DEF WithToken, WithoutToken, Local, control, world, history, scanVars
  <2>2. /\ ret' = Nothing
        /\ pc' \in {"validate", "scandump", "dump"} \/ (pc' = "list" /\ purpose' = "resolve")
    BY <1>2 DEF WithToken, WithoutToken, BeginOptionsDump, Ask
  <2>3. Early' /\ pc' # "failed"
    BY <2>2 DEF Early, Asking
  <2>4. "Cancelled" \notin stopped
    BY <1>0 DEF ScanInvariant, StopScope
  <2>5. lastError'.code # "Ok"
    BY <2>1 DEF ScanInvariant, ErrorScope
  <2>6. ret'.code = "Ok" => ret' = Success
    BY <2>2 DEF Nothing
  <2> QED
    BY <1>0, <2>1, <2>3, <2>4, <2>5, <2>6, EarlyInvariant
<1> QED
  BY <1>1, <1>2

LEMMA OptionsInvariant ==
  ASSUME ScanInvariant, OptionsFail \/ OptionsRead \/ ScanDumped \/ ScanReopened \/ OptionsRejected
  PROVE  ScanInvariant'
<1>0. Early
  BY DEF OptionsFail, OptionsRead, ScanDumped, ScanReopened, OptionsRejected, Early, Asking
<1>1. /\ lastError.code # "Ok" /\ ret # Success => ret.code # "Ok"
  BY DEF ScanInvariant, ErrorScope
<1>2. CASE OptionsFail
  BY <1>0, <1>2, EarlyLeave DEF OptionsFail, ScanInvariant, ErrorScope
<1>3. CASE OptionsRejected
  BY <1>0, <1>3, EarlyLeave DEF OptionsRejected
<1>4. CASE OptionsRead
  <2>1. "Cancelled" \notin stopped
    BY <1>4 DEF OptionsRead, ScanInvariant, StopScope
  <2> QED
    BY <1>0, <1>4, <2>1, ProceedInvariant DEF OptionsRead
<1>5. CASE ScanDumped
  <2>1. CASE ret = Success /\ Proceed("validate", dev, FALSE) /\ UNCHANGED <<job, try, file, files, withIR, result, seen, stuck>>
    <3>1. "Cancelled" \notin stopped
      BY <1>5, <2>1, NoAnswer DEF ScanDumped
    <3> QED
      BY <1>0, <2>1, <3>1, ProceedInvariant
  <2>2. CASE Leave("IoFailure")
    BY <1>0, <2>2, EarlyLeave
  <2>3. CASE ret # Success /\ Leave(ret.code)
    BY <1>0, <2>3, EarlyLeave DEF ScanInvariant, ErrorScope
  <2>4. CASE ret.stale /\ Reopen("reopenScan", identity) /\ UNCHANGED scanVars
    <3>1. "Cancelled" \notin stopped
      BY <1>5, <2>4, NoAnswer DEF ScanDumped
    <3>2. ret.code # "Ok"
      <4>1. ret.stale => ret # Success
        BY DEF Success
      <4> QED
        BY <2>4, <4>1 DEF ScanInvariant, ErrorScope
    <3> QED
      BY <1>0, <2>4, <3>1, <3>2, ReopenInvariant
  <2> QED
    BY <1>5, <2>1, <2>2, <2>3, <2>4 DEF ScanDumped
<1>6. CASE ScanReopened
  <2>1. CASE ret = Success /\ Proceed("scandump", found, TRUE) /\ UNCHANGED scanVars
    <3>1. "Cancelled" \notin stopped
      BY <1>6, <2>1, NoAnswer DEF ScanReopened
    <3> QED
      BY <1>0, <2>1, <3>1, ProceedInvariant DEF scanVars
  <2>2. CASE Leave(lastError.code)
    BY <1>0, <2>2, EarlyLeave DEF ScanInvariant, ErrorScope
  <2> QED
    BY <1>6, <2>1, <2>2 DEF ScanReopened
<1> QED
  BY <1>2, <1>3, <1>4, <1>5, <1>6

\* The first pass begins with the files of the start.
LEMMA AcceptedInvariant ==
  ASSUME ScanInvariant, OptionsAccepted
  PROVE  ScanInvariant'
<1>0. Early /\ pc = "validate"
  BY DEF OptionsAccepted, Early
<1>1. PICK m \in BOOLEAN, i \in BOOLEAN :
        /\ job' = [NewJob EXCEPT !.multi = m, !.infrared = i]
        /\ file' = IF m THEN Samples[1] ELSE "output"
  BY DEF OptionsAccepted
<1>2. /\ UNCHANGED <<command, stopped, late, flag, result, files, withIR, seen, stuck>>
      /\ pc' = "resolve" /\ ret' = Nothing /\ lastError' = Nothing
  BY DEF OptionsAccepted, Forgotten, world
<1>3. job' = [multi |-> m, infrared |-> i, token |-> NoToken]
  BY <1>1 DEF NewJob
<1>4. "Cancelled" \notin stopped /\ ~seen /\ ~late /\ command = "scan" /\ result = "none"
  BY <1>0 DEF ScanInvariant, StopScope, SeenScope, PhaseScope
<1>5. files = Untouched /\ ~withIR
  BY <1>0 DEF ScanInvariant, FileScope
<1>6. file' \in {"output"} \cup Brackets /\ (file' \in Brackets => m)
  BY <1>1, BracketAfter, Paths
<1>7. FileTypeOK'
  <2>1. job' \in [multi : BOOLEAN, infrared : BOOLEAN,
                 token : [name : Name \cup {None}, identity : Models \cup {None}]]
    BY <1>3 DEF NoToken
  <2> QED
    BY <1>2, <1>6, <2>1, Paths DEF ScanInvariant, FileTypeOK
<1>8. FileScope'
  <2>1. files'["output"] = "old" /\ files'["infrared"] = "old" /\ files'["partial"] = "absent"
    BY <1>2, <1>5, Paths DEF Untouched
  <2>2. \A p \in Brackets : files'[p] = "absent"
    BY <1>2, <1>5, Paths DEF Untouched
  <2>3. ~Early' /\ ~withIR'
    BY <1>2, <1>5 DEF Early, Asking
  <2>4. file' \notin {"infrared", "partial"}
    BY <1>6, Paths
  <2>5. file' \in Brackets => job'.multi
    BY <1>3, <1>6
  <2> QED
    BY <1>2, <2>1, <2>2, <2>3, <2>4, <2>5 DEF FileScope
<1>9. PhaseScope' /\ ErrorScope' /\ StopScope' /\ SeenScope'
  BY <1>2, <1>4 DEF PhaseScope, ErrorScope, StopScope, SeenScope, Passing, Nothing
<1> QED
  BY <1>2, <1>4, <1>7, <1>8, <1>9, OpenOutcome DEF ScanInvariant

-----------------------------------------------------------------------------
(***************************************************************************)
(* The address of a pass.                                                  *)
(***************************************************************************)
\* A step of a pass that only moves on keeps the invariant.
LEMMA PassInvariant ==
  ASSUME ScanInvariant, Passing, Passing', ~Early', "Cancelled" \notin stopped, ~seen,
         UNCHANGED <<command, flag, stopped, late, job, file, files, withIR, result, try, seen, stuck>>,
         ret' = Nothing, lastError'.code # "Ok"
  PROVE  ScanInvariant'
<1>1. pc # "done" /\ pc' # "done" /\ pc' # "failed"
  BY DEF Passing, Asking
<1>2. FileTypeOK' /\ PhaseScope' /\ FileScope'
  BY <1>1, SamePhase
<1>3. ErrorScope' /\ StopScope' /\ SeenScope'
  BY DEF ScanInvariant, ErrorScope, StopScope, SeenScope, Nothing
<1>4. result' = "none" /\ ~late'
  BY <1>1 DEF ScanInvariant, PhaseScope, StopScope
<1> QED
  BY <1>2, <1>3, <1>4, OpenOutcome DEF ScanInvariant

LEMMA OpenWithInvariant ==
  ASSUME ScanInvariant, Passing, NEW n, OpenWith(n), "Cancelled" \notin stopped, ~seen
  PROVE  ScanInvariant'
<1>1. /\ UNCHANGED <<command, flag, stopped, late, job, file, files, withIR, result, try, seen, stuck>>
      /\ pc' = "scanning" /\ ret' = Nothing /\ lastError' = Nothing
  BY DEF OpenWith, Forgotten, world
<1>2. Passing' /\ ~Early'
  BY <1>1 DEF Passing, Early, Asking
<1> QED
  BY <1>1, <1>2, PassInvariant DEF Nothing

LEMMA ResolveInvariant ==
  ASSUME ScanInvariant, ResolveKnown \/ ResolveAgain \/ AddressFound \/ UnsafeAddress \/ AddressMissing
  PROVE  ScanInvariant'
<1>0. Passing /\ pc \in {"resolve", "addressed", "scanning"}
  BY DEF ResolveKnown, ResolveAgain, AddressFound, UnsafeAddress, AddressMissing, Passing, Asking
<1>1. CASE ResolveKnown
  <2>1. "Cancelled" \notin stopped /\ ~seen
    BY <1>1 DEF ResolveKnown, ScanInvariant, StopScope, SeenScope
  <2> QED
    BY <1>0, <1>1, <2>1, OpenWithInvariant DEF ResolveKnown
<1>2. CASE AddressFound
  <2>1. "Cancelled" \notin stopped /\ ~seen
    BY <1>2, NoAnswer DEF AddressFound, ScanInvariant, SeenScope
  <2> QED
    BY <1>0, <1>2, <2>1, OpenWithInvariant DEF AddressFound
<1>3. CASE UnsafeAddress
  BY <1>0, <1>3, PassFailsInvariant DEF UnsafeAddress
<1>4. CASE AddressMissing /\ PassFails(ret.code)
  <2>1. ret.code # "Ok"
    BY <1>4 DEF AddressMissing, ScanInvariant, ErrorScope
  <2> QED
    BY <1>0, <1>4, <2>1, PassFailsInvariant
<1>5. ASSUME ResolveAgain \/ (AddressMissing /\ RetryableAddress(ret)),
             Ask("address", identity), Local, UNCHANGED <<lastError, scanVars>>
      PROVE  ScanInvariant'
  <2>1. "Cancelled" \notin stopped /\ ~seen
    <3>1. CASE ResolveAgain
      BY <3>1 DEF ResolveAgain, ScanInvariant, StopScope, SeenScope
    <3>2. CASE AddressMissing /\ RetryableAddress(ret)
      BY <3>2 DEF AddressMissing, RetryableAddress, ScanInvariant, StopScope, SeenScope
    <3> QED
      BY <1>5, <3>1, <3>2
  <2>2. /\ UNCHANGED <<command, flag, stopped, late, job, file, files, withIR, result, try, seen, stuck>>
        /\ pc' = "list" /\ purpose' = "address" /\ ret' = Nothing
    BY <1>5 DEF Ask, Local, control, world, history, scanVars
  <2>3. Passing' /\ ~Early'
    BY <2>2 DEF Passing, Early, Asking
  <2>4. lastError'.code # "Ok"
    BY <1>5 DEF ScanInvariant, ErrorScope
  <2> QED
    BY <1>0, <2>1, <2>2, <2>3, <2>4, PassInvariant
<1> QED
  BY <1>1, <1>2, <1>3, <1>4, <1>5 DEF ResolveAgain, AddressMissing

-----------------------------------------------------------------------------
(***************************************************************************)
(* The acquisition.                                                        *)
(***************************************************************************)
\* What a scan makes of an outcome is no success of the command; it is Cancelled exactly
\* when a cancellation was seen, and Retry only when no data arrived.
LEMMA AnswerOf ==
  ASSUME NEW o \in Possible(Backend)
  PROVE  /\ Answer(o) \in {"Succeed", "Retry", "Cancelled", "UnsupportedOption", "Timeout", "IoFailure"}
         /\ Answer(o) = "Cancelled" <=> o.cancelled
         /\ Answer(o) = "Retry" => ~o.progress
<1>1. /\ o.cancelled \in BOOLEAN /\ o.exit0 \in BOOLEAN /\ o.inexact \in BOOLEAN /\ o.progress \in BOOLEAN
      /\ o.kind = "firstProgress" => ~o.progress
  BY DEF Possible, Outcomes
<1>2. CASE o.cancelled
  BY <1>2 DEF Answer, DecideRetry, FailureCode
<1>3. CASE ~o.cancelled /\ o.exit0
  BY <1>3 DEF Answer, DecideRetry, FailureCode
<1>4. CASE ~o.cancelled /\ ~o.exit0
  BY <1>1, <1>4 DEF Answer, DecideRetry, FailureCode, Hopeful
<1> QED
  BY <1>1, <1>2, <1>3, <1>4

LEMMA AcquireInvariant ==
  ASSUME ScanInvariant, Acquire
  PROVE  ScanInvariant'
<1>0. /\ pc = "scanning" /\ ret = Nothing /\ Passing
      /\ UNCHANGED <<command, pc, purpose, lastError, job, file, withIR, result, try>>
      /\ late' = (late \/ "Cancelled" \in stopped)
  BY DEF Acquire, AcquisitionLaunchFails, AcquisitionTurnedAway, AcquisitionRuns, RunAcquisition,
         control, Passing
<1>1. "Cancelled" \notin stopped /\ ~seen /\ ~late /\ command = "scan"
  BY <1>0 DEF ScanInvariant, StopScope, SeenScope, Nothing
<1>2. \/ UNCHANGED <<files, stuck>>
      \/ \E image \in {"torn"} \cup Readable : Writes(image)
  <2>1. CASE AcquisitionLaunchFails
    BY <2>1 DEF AcquisitionLaunchFails
  <2>2. CASE AcquisitionTurnedAway
    BY <2>2 DEF AcquisitionTurnedAway
  <2>3. CASE AcquisitionRuns
    BY <2>3 DEF AcquisitionRuns
  <2> QED
    BY <2>1, <2>2, <2>3 DEF Acquire
<1>3. /\ ret'.code \notin {"none", "Ok"}
      /\ "Cancelled" \in stopped' => flag' /\ ret' = Error("Cancelled")
      /\ seen' => ret'.code # "Retry"
  <2>1. CASE AcquisitionLaunchFails
    BY <1>1, <2>1 DEF AcquisitionLaunchFails
  <2>2. CASE AcquisitionTurnedAway
    BY <1>1, <2>2 DEF AcquisitionTurnedAway
  <2>3. CASE AcquisitionRuns
    <3>1. PICK o \in Possible(Backend) :
            /\ flag' = o.cancelled
            /\ ret' = Error(Answer(o))
            /\ stopped' = stopped \cup ({Answer(o)} \cap {"Timeout"})
                                   \cup (IF o.cancelled THEN {"Cancelled"} ELSE {})
            /\ seen' = (seen \/ o.progress)
      BY <2>3 DEF AcquisitionRuns
    <3>2. "Cancelled" \in stopped' => o.cancelled
      BY <1>1, <3>1
    <3> QED
      BY <1>1, <3>1, <3>2, AnswerOf
  <2> QED
    BY <2>1, <2>2, <2>3 DEF Acquire
<1>4. /\ files' \in [Path -> Content] /\ stuck' \in SUBSET Path
      /\ \A q \in Path \ {file} : files'[q] = files[q]
  BY <1>2 DEF ScanInvariant, FileTypeOK, Content, Readable, Writes
<1>5. FileTypeOK' /\ PhaseScope'
  BY <1>0, <1>4 DEF ScanInvariant, FileTypeOK, PhaseScope, Passing
<1>6. FileScope'
  <2>1. ~Early' /\ ~withIR' /\ file' # "partial"
    BY <1>0, PassFiles, Paths DEF Early, Asking
  <2>2. /\ files'["partial"] = "absent"
        /\ ~job'.multi => \A p \in Brackets : files'[p] = "absent"
    BY <1>0, <1>4, PassFiles, Paths
  <2>3. /\ IF file' = "infrared" THEN job'.infrared ELSE files'["infrared"] = "old"
        /\ file' \in Brackets => files'["output"] = "old" /\ job'.multi
    BY <1>0, <1>4, PassFiles, Paths
  <2> QED
    BY <1>0, <2>1, <2>2, <2>3 DEF FileScope
<1>7. ErrorScope' /\ StopScope' /\ SeenScope' /\ ~late'
  BY <1>0, <1>1, <1>3 DEF ScanInvariant, ErrorScope, StopScope, SeenScope
<1>8. result' = "none"
  BY <1>0 DEF ScanInvariant, PhaseScope
<1> QED
  BY <1>5, <1>6, <1>7, <1>8, OpenOutcome DEF ScanInvariant

\* A pass that is repeated has seen no data, and no file but its own changes.
LEMMA RetriedInvariant ==
  ASSUME ScanInvariant, AcquisitionRetried
  PROVE  ScanInvariant' /\ ~seen'
<1>0. /\ pc = "scanning" /\ ret.code = "Retry" /\ Passing
      /\ UNCHANGED <<command, stopped, late, flag, job, result, file, withIR, seen>>
      /\ pc' = "resolve" /\ Remove({file}, files) /\ ret' = Nothing /\ lastError' = Nothing
  BY DEF AcquisitionRetried, Forgotten, world, Passing
<1>1. "Cancelled" \notin stopped /\ ~seen /\ ~late /\ command = "scan" /\ result = "none"
  BY <1>0 DEF ScanInvariant, StopScope, SeenScope, PhaseScope
<1>2. /\ files' \in [Path -> Content] /\ stuck' \in SUBSET Path
      /\ \A q \in Path \ {file} : files'[q] = files[q]
  <2>1. FileTypeOK /\ files \in [Path -> Content] /\ {file} \in SUBSET Path
    BY DEF ScanInvariant, FileTypeOK
  <2> QED
    BY <1>0, <2>1, Removed
<1>3. FileTypeOK' /\ PhaseScope'
  BY <1>0, <1>1, <1>2 DEF ScanInvariant, FileTypeOK, PhaseScope, Passing
<1>4. FileScope'
  <2>1. ~Early' /\ ~withIR' /\ file' # "partial"
    BY <1>0, PassFiles, Paths DEF Early, Asking
  <2>2. /\ files'["partial"] = "absent"
        /\ ~job'.multi => \A p \in Brackets : files'[p] = "absent"
    BY <1>0, <1>2, PassFiles, Paths
  <2>3. /\ IF file' = "infrared" THEN job'.infrared ELSE files'["infrared"] = "old"
        /\ file' \in Brackets => files'["output"] = "old" /\ job'.multi
    BY <1>0, <1>2, PassFiles, Paths
  <2> QED
    BY <1>0, <2>1, <2>2, <2>3 DEF FileScope
<1>5. ErrorScope' /\ StopScope' /\ SeenScope'
  BY <1>0, <1>1 DEF ErrorScope, StopScope, SeenScope, Nothing
<1> QED
  BY <1>0, <1>1, <1>3, <1>4, <1>5, OpenOutcome DEF ScanInvariant

\* The next bracket, the merge, the infrared pass or the validation begins.
LEMMA SucceededInvariant ==
  ASSUME ScanInvariant, AcquisitionSucceeded
  PROVE  ScanInvariant'
<1>0. pc = "scanning" /\ ret.code = "Succeed" /\ Passing
  BY DEF AcquisitionSucceeded, Passing
<1>1. "Cancelled" \notin stopped
  BY <1>0 DEF ScanInvariant, StopScope
<1>2. CASE PassFails("IoFailure")
  BY <1>0, <1>2, PassFailsInvariant
<1>3. ASSUME NEW f \in {"output", "infrared"} \cup Brackets, NEW next \in {"resolve", "merge", "artifacts"},
             NextPass(f, next),
             \/ file \in Brackets /\ f \in Brackets /\ next \in {"resolve", "merge"} /\ withIR' = withIR
             \/ file = "output" /\ f = "infrared" /\ next = "resolve" /\ job.infrared /\ withIR' = withIR
             \/ file = "output" /\ next = "artifacts" /\ withIR' = withIR
             \/ file = "infrared" /\ next = "artifacts" /\ withIR' = TRUE
      PROVE  ScanInvariant'
  <2>1. /\ UNCHANGED <<job, files, stuck>> /\ file' = f /\ pc' = next /\ To(next) /\ withIR' \in BOOLEAN
    BY <1>0, <1>3, PassFiles DEF NextPass, To, FileTypeOK
  <2>2. FileTypeOK'
    BY <1>0, <2>1, PassFiles, Paths DEF FileTypeOK
  <2>3. FileScope'
    <3>1. ~Early'
      BY <2>1 DEF Early, Asking
    <3>2. f \in Brackets => f \notin {"output", "partial", "infrared"}
      BY Paths
    <3>3. CASE next = "artifacts"
      <4>1. ~Passing' /\ pc' # "merge"
        BY <2>1, <3>3 DEF Passing, Asking
      <4> QED
        BY <1>0, <1>3, <2>1, <3>1, <3>3, <4>1, PassFiles, Paths DEF FileScope
    <3>4. CASE next # "artifacts"
      BY <1>0, <1>3, <2>1, <3>1, <3>2, <3>4, PassFiles, Paths DEF FileScope
    <3> QED
      BY <3>3, <3>4
  <2> QED
    BY <1>0, <1>1, <2>1, <2>2, <2>3, PassFiles, ToInvariant
<1>4. CASE file \in Brackets /\ Bracket < Len(Samples) /\ NextPass(Samples[Bracket + 1], "resolve") /\ UNCHANGED withIR
  BY <1>3, <1>4, BracketAfter
<1>5. CASE file \in Brackets /\ NextPass(file, "merge") /\ UNCHANGED withIR
  BY <1>3, <1>5
<1>6. CASE file = "output" /\ job.infrared /\ NextPass("infrared", "resolve") /\ UNCHANGED withIR
  BY <1>3, <1>6
<1>7. CASE file = "output" /\ NextPass(file, "artifacts") /\ UNCHANGED withIR
  BY <1>3, <1>7
<1>8. CASE file = "infrared" /\ NextPass(file, "artifacts") /\ withIR' = TRUE
  BY <1>3, <1>8
<1> QED
  BY <1>2, <1>4, <1>5, <1>6, <1>7, <1>8 DEF AcquisitionSucceeded

-----------------------------------------------------------------------------
(***************************************************************************)
(* The merge and the validation.                                           *)
(***************************************************************************)
LEMMA MergeInvariant ==
  ASSUME ScanInvariant, MergeFails \/ WriteFails \/ MergeWritten
  PROVE  ScanInvariant'
<1>0. /\ pc = "merge" /\ file \in Brackets /\ files["partial"] = "absent" /\ files["output"] = "old"
      /\ files["infrared"] = "old" /\ job.multi /\ ~withIR /\ files \in [Path -> Content] /\ FileTypeOK
  BY Paths DEF MergeFails, WriteFails, MergeWritten, Mergeable, ScanInvariant, FileScope, FileTypeOK
<1>1. CASE MergeFails
  BY <1>0, <1>1, LeaveInvariant DEF MergeFails, Leave
<1>2. CASE WriteFails
  <2>1. ASSUME NEW left \in Content, NEW doomed \in SUBSET Path, left \in {"torn", "absent"} \/ doomed = {"partial"},
               LeaveWith("IoFailure", doomed, [files EXCEPT !["partial"] = left])
        PROVE  ScanInvariant'
    <3>1. /\ [files EXCEPT !["partial"] = left] \in [Path -> Content]
          /\ [files EXCEPT !["partial"] = left]["partial"] = left
          /\ [files EXCEPT !["partial"] = left]["output"] = "old"
          /\ [files EXCEPT !["partial"] = left]["infrared"] = "old"
      BY <1>0, Paths
    <3> QED
      BY <1>0, <2>1, <3>1, LeaveInvariant
  <2>2. {"partial"} \in SUBSET Path /\ {} \in SUBSET Path /\ Whole \cup {"torn", "absent"} \subseteq Content
    BY Paths DEF Content, Readable
  <2> QED
    BY <1>0, <1>2, <2>1, <2>2 DEF WriteFails
<1>3. CASE MergeWritten
  <2> DEFINE next == IF job.infrared THEN "resolve" ELSE "artifacts"
  <2>1. PICK image \in Whole : files' = [files EXCEPT !["output"] = image, !["partial"] = "absent"]
    BY <1>3 DEF MergeWritten
  <2>0. To(next) /\ stuck' = stuck \ {"output"}
    BY <1>3 DEF MergeWritten
  <2>2. /\ UNCHANGED <<job, withIR>> /\ pc' = next
        /\ file' = IF job.infrared THEN "infrared" ELSE "output"
    BY <1>3, <2>0 DEF MergeWritten, To
  <2>3. /\ files' \in [Path -> Content] /\ files'["partial"] = "absent" /\ files'["infrared"] = "old"
    BY <1>0, <2>1, Paths DEF Content, Readable
  <2>4. FileTypeOK'
    BY <1>0, <2>0, <2>2, <2>3, Paths DEF FileTypeOK
  <2>5. FileScope'
    <3>1. ~Early' /\ pc' # "merge" /\ (Passing' => job.infrared) /\ file' \notin Brackets
      BY <2>2, Paths DEF Early, Passing, Asking
    <3> QED
      BY <1>0, <2>2, <2>3, <3>1 DEF FileScope
  <2>6. "Cancelled" \notin stopped
    BY <1>0 DEF ScanInvariant, StopScope
  <2>7. next \in {"resolve", "merge", "artifacts"}
    OBVIOUS
  <2> QED
    BY <1>0, <2>0, <2>4, <2>5, <2>6, <2>7, ToInvariant
<1> QED
  BY <1>1, <1>2, <1>3

LEMMA ArtifactsInvariant ==
  ASSUME ScanInvariant, ValidateArtifacts
  PROVE  ScanInvariant'
<1>0. /\ pc = "artifacts" /\ files["partial"] = "absent" /\ files \in [Path -> Content]
      /\ ~job.multi => \A p \in Brackets : files[p] = "absent"
      /\ ~withIR => files["infrared"] \in {"absent", "old"} \/ "infrared" \in stuck
  BY DEF ValidateArtifacts, ScanInvariant, FileScope, FileTypeOK
<1>1. CASE ArtifactsValid /\ Leave("Ok")
  <2>1. "Cancelled" \notin stopped
    BY <1>0, <1>1 DEF ArtifactsValid, ScanInvariant, StopScope, Nothing
  <2> QED
    BY <1>0, <1>1, <2>1, LeaveInvariant DEF ArtifactsValid, Leave
<1>2. CASE LeaveWith("IoFailure", Rejected, files)
  <2>1. Rejected \in SUBSET Path /\ "output" \in Rejected /\ (withIR => "infrared" \in Rejected)
    BY Paths DEF Rejected
  <2> QED
    BY <1>0, <1>2, <2>1, LeaveInvariant
<1> QED
  BY <1>1, <1>2 DEF ValidateArtifacts

\* A request, and a scanner that is switched off, change nothing the command has learnt.
LEMMA EnvironmentInvariant ==
  ASSUME ScanInvariant, UNCHANGED <<command, pc, purpose, ret, lastError, stopped, late, scanVars>>,
         flag => flag'
  PROVE  ScanInvariant'
<1>1. UNCHANGED <<job, try, file, files, withIR, result, seen, stuck>>
  BY DEF scanVars
<1>2. FileTypeOK' /\ PhaseScope' /\ FileScope' /\ ErrorScope' /\ SeenScope'
  BY <1>1 DEF ScanInvariant, FileTypeOK, PhaseScope, FileScope, ErrorScope, SeenScope, Early, Passing, Asking
<1>3. StopScope'
  BY <1>1 DEF ScanInvariant, StopScope
<1>4. FailureLeavesNothing' /\ SuccessIsWhole' /\ ScanHeedsStop'
  BY <1>1 DEF ScanInvariant, FailureLeavesNothing, SuccessIsWhole, ScanHeedsStop
<1> QED
  BY <1>2, <1>3, <1>4 DEF ScanInvariant

-----------------------------------------------------------------------------
(***************************************************************************)
(* The theorems.                                                           *)
(***************************************************************************)
LEMMA ScanStepInvariant == ScanInvariant /\ [Next]_vars => ScanInvariant'
<1> SUFFICES ASSUME ScanInvariant, [Next]_vars PROVE ScanInvariant'
  OBVIOUS
<1>1. CASE DiscoveryStep /\ UNCHANGED scanVars
  <2>1. CASE ListFormatted \/ ListLegacy
    BY <1>1, <2>1, CallInvariant DEF ListFormatted, ListLegacy
  <2>2. CASE OptionsDump \/ SourceDump
    BY <1>1, <2>2, CallInvariant DEF OptionsDump, SourceDump
  <2>3. CASE FormattedListed \/ LegacyListed \/ CurrentDeviceAddress
    BY <1>1, <2>3, ListedInvariant
  <2>4. CASE AddressResolved \/ OptionsDumped \/ SourceDumped \/ Reopened
    BY <1>1, <2>4, AnswerInvariant
  <2> QED
    BY <1>1, <2>1, <2>2, <2>3, <2>4 DEF DiscoveryStep
<1>2. CASE ScanStep
  <2>1. CASE Busy \/ RefusedSession \/ BadToken \/ WithToken \/ WithoutToken
    BY <2>1, StartInvariant
  <2>2. CASE OptionsFail \/ OptionsRead \/ ScanDumped \/ ScanReopened \/ OptionsRejected
    BY <2>2, OptionsInvariant
  <2>3. CASE ScanDump
    BY <2>3, CallInvariant DEF ScanDump
  <2>4. CASE OptionsAccepted
    BY <2>4, AcceptedInvariant
  <2>5. CASE ResolveKnown \/ ResolveAgain \/ AddressFound \/ UnsafeAddress \/ AddressMissing
    BY <2>5, ResolveInvariant
  <2>6. CASE Acquire
    BY <2>6, AcquireInvariant
  <2>7. CASE AcquisitionFailed
    <3>1. Passing /\ ret.code # "Ok" /\ PassFails(ret.code)
      BY <2>7 DEF AcquisitionFailed, Passing, ScanInvariant, ErrorScope
    <3> QED
      BY <3>1, PassFailsInvariant
  <2>8. CASE AcquisitionRetried
    BY <2>8, RetriedInvariant
  <2>9. CASE AcquisitionSucceeded
    BY <2>9, SucceededInvariant
  <2>10. CASE MergeFails \/ WriteFails \/ MergeWritten
    BY <2>10, MergeInvariant
  <2>11. CASE ValidateArtifacts
    BY <2>11, ArtifactsInvariant
  <2> QED
    BY <1>2, <2>1, <2>2, <2>3, <2>4, <2>5, <2>6, <2>7, <2>8, <2>9, <2>10, <2>11 DEF ScanStep
<1>3. CASE Environment
  BY <1>3, EnvironmentInvariant DEF Environment, RequestCancellation, SwitchOff, control, history
<1>4. CASE UNCHANGED vars
  BY <1>4, EnvironmentInvariant DEF vars, discoveryVars
<1> QED
  BY <1>1, <1>2, <1>3, <1>4 DEF Next, Command, Done

\* The invariant of the scan: which files it may have written in each of its phases although
\* any removal may fail, that a cancellation once answered is never lost, and that progress
\* is forgotten with its pass.
THEOREM ScanIsInvariant == Spec => []ScanInvariant
BY InitScan, ScanStepInvariant, PTL DEF Spec

\* A scan that fails leaves no image of its own that a reader could take for a result,
\* whatever scanners and addresses there are and however many brackets it scans, but for a
\* file whose last removal failed, which removeQuietly tells nobody (backend.cpp:104).
THEOREM FailuresLeaveNothing == Spec => []FailureLeavesNothing
<1>1. ScanInvariant => FailureLeavesNothing
  BY DEF ScanInvariant
<1> QED
  BY <1>1, ScanIsInvariant, PTL

\* A scan that succeeds has written what it was asked for, and leaves nothing else but
\* brackets that could not be removed.
THEOREM SuccessesAreWhole == Spec => []SuccessIsWhole
<1>1. ScanInvariant => SuccessIsWhole
  BY DEF ScanInvariant
<1> QED
  BY <1>1, ScanIsInvariant, PTL

\* A scan that was cancelled starts no further scanimage and does not succeed.
THEOREM ScansHeedStop == Spec => []ScanHeedsStop
<1>1. ScanInvariant => ScanHeedsStop
  BY DEF ScanInvariant
<1> QED
  BY <1>1, ScanIsInvariant, PTL

\* A frame of which data have arrived is never scanned again.  A new attempt begins with the
\* options, with a new pass, which forgets the progress, or with a retry, which saw none.
LEMMA FrameStep == ScanInvariant /\ [Next]_vars => (seen /\ seen' => try' = try)
<1> SUFFICES ASSUME ScanInvariant, [Next]_vars, seen, seen' PROVE try' = try
  OBVIOUS
<1>1. pc # "validate" /\ ~AcquisitionRetried
  BY RetriedInvariant DEF ScanInvariant, SeenScope
<1>2. ASSUME NEW next PROVE ~To(next)
  BY DEF To
<1>3. ASSUME NEW code, PassFails(code) PROVE try' = try
  BY <1>2, <1>3 DEF PassFails, LeaveWith
<1>4. CASE UNCHANGED scanVars
  BY <1>4 DEF scanVars
<1>5. CASE Busy \/ RefusedSession \/ BadToken \/ WithToken \/ OptionsFail \/ OptionsRead
           \/ ScanDumped \/ ScanReopened \/ OptionsRejected
  BY <1>5 DEF Busy, RefusedSession, BadToken, WithToken, OptionsFail, OptionsRead, ScanDumped,
              ScanReopened, OptionsRejected, Leave, LeaveWith, scanVars
<1>6. CASE WithoutToken \/ ScanDump \/ ResolveAgain
  BY <1>6 DEF WithoutToken, ScanDump, ResolveAgain, scanVars
<1>7. CASE ResolveKnown \/ AddressFound
  BY <1>7 DEF ResolveKnown, AddressFound, OpenWith
<1>8. CASE UnsafeAddress \/ AddressMissing \/ AcquisitionFailed
  BY <1>3, <1>8 DEF UnsafeAddress, AddressMissing, AcquisitionFailed, scanVars
<1>9. CASE Acquire
  BY <1>9 DEF Acquire, AcquisitionLaunchFails, AcquisitionTurnedAway, AcquisitionRuns, RunAcquisition
<1>10. CASE AcquisitionSucceeded
  BY <1>2, <1>3, <1>10 DEF AcquisitionSucceeded, NextPass
<1>11. CASE MergeFails \/ WriteFails \/ MergeWritten \/ ValidateArtifacts
  BY <1>2, <1>11 DEF MergeFails, WriteFails, MergeWritten, ValidateArtifacts, Leave, LeaveWith
<1>12. CASE UNCHANGED vars
  BY <1>12 DEF vars, scanVars
<1> QED
  BY <1>1, <1>4, <1>5, <1>6, <1>7, <1>8, <1>9, <1>10, <1>11, <1>12
     DEF Next, Command, ScanStep, Environment, Done, OptionsAccepted

\* A frame of which data have arrived is never scanned again: the film may have moved on.
THEOREM FramesOnce == Spec => NoFrameTwice
<1>1. ScanInvariant /\ [Next]_vars => [seen /\ seen' => try' = try]_vars
  BY FrameStep
<1> QED
  BY <1>1, ScanIsInvariant, PTL DEF Spec, NoFrameTwice

-----------------------------------------------------------------------------
(***************************************************************************)
(* Which scanners are opened, where addresses are volatile.                *)
(***************************************************************************)
LEMMA NamesApart ==
  /\ Off \notin Name \cup {None} /\ None \notin Name /\ Selector \in Name /\ Selector \notin Addr
  /\ Addr \subseteq Name
BY DiscoveryAssumption DEF Name, Off, None

\* What is known of the cached name.
CacheScope == cache.want # None /\ Trusted(cache.name) => OfModel(cache.name, cache.want)

\* While scanners stay where they are, or are switched off, a list and the kept names stay
\* right.
LEMMA QuietModel ==
  ASSUME ModelInvariant, NamesOK', complete' => complete, \A d \in Device : at'[d] \in {at[d], Off},
         \/ listed' = NothingListed
         \/ listed' = listed /\ (Listing = {} \/ pc' \in {"list", "legacy", "listed"}),
         cache' \in {cache, NoCache}
  PROVE  ListScope' /\ CacheScope'
<1>1. at \in [Device -> Addr \cup {Off}] /\ at' \in [Device -> Addr \cup {Off}]
  BY DEF ModelInvariant, NamesOK
<1>2. ListScope'
  <2>1. \A d \in Present' : d \in Present /\ at'[d] = at[d]
    BY <1>1 DEF Present
  <2>2. CASE listed' = NothingListed
    <3>1. Listing' = {}
      BY <2>2 DEF Listing, NothingListed
    <3> QED
      BY <2>1, <3>1 DEF ModelInvariant, ListScope
  <2>3. CASE listed' = listed /\ (Listing = {} \/ pc' \in {"list", "legacy", "listed"})
    <3>1. Listing' = Listing
      BY <2>3 DEF Listing
    <3> QED
      BY <2>1, <2>3, <3>1 DEF ModelInvariant, ListScope
  <2> QED
    BY <2>2, <2>3
<1>3. CacheScope'
  <2> SUFFICES ASSUME cache'.want # None, Trusted(cache.name)' PROVE OfModel(cache.name, cache.want)'
    BY DEF CacheScope
  <2>1. cache' = cache /\ cache.want # None /\ Trusted(cache.name)
    BY DEF NoCache, Trusted
  <2>2. cache.name \in Name \cup {None}
    BY DEF ModelInvariant, NamesOK
  <2>3. \A d \in Named(cache.name)' : d \in Named(cache.name)
    BY <1>1, <2>1, <2>2, NamesApart DEF Named, Present
  <2> QED
    BY <2>1, <2>3 DEF ModelInvariant, NameScope, OfModel
<1> QED
  BY <1>2, <1>3

\* A step before the passes, or out of them.
LEMMA EarlyModel ==
  ASSUME ModelInvariant, NamesOK', DumpScope', UNCHANGED <<at, complete>>, cache' \in {cache, NoCache},
         listed' = NothingListed \/ (listed' = listed /\ Listing = {}),
         \/ pc' \in {"start", "dump", "redump", "dumped", "failed", "scandump", "validate", "done"}
         \/ pc' = "list" /\ purpose' # "address"
  PROVE  ModelInvariant'
<1>1. ListScope' /\ CacheScope'
  BY QuietModel
<1>2. NameScope' /\ ScansExpectedModel'
  BY <1>1 DEF NameScope, CacheScope, ScansExpectedModel, Passing, Asking
<1> QED
  BY <1>1, <1>2 DEF ModelInvariant

\* A step to another phase of the passes.
LEMMA PassModel ==
  ASSUME ModelInvariant, NamesOK', DumpScope', UNCHANGED <<at, complete>>, cache' \in {cache, NoCache},
         listed' = NothingListed, opened' = {}, acq' \in {None, Selector},
         \/ pc' \in {"resolve", "merge", "artifacts"}
         \/ /\ pc' = "scanning"
            /\ identity' # None /\ acq' # Selector /\ Trusted(dev)' => OfModel(dev, identity)'
  PROVE  ModelInvariant'
<1>1. ListScope' /\ CacheScope'
  BY QuietModel
<1>2. NameScope' /\ ScansExpectedModel'
  BY <1>1 DEF NameScope, CacheScope, ScansExpectedModel, Asking
<1> QED
  BY <1>1, <1>2 DEF ModelInvariant

\* Opening a scanner gives it an address that nobody has, and turns none on.
LEMMA OpeningMoves ==
  ASSUME NamesOK, ListScope, Listing = {}, NEW n \in Name \cup {None}, NEW d \in Named(n), Opens(d),
         UNCHANGED <<listed, pc>>, complete' => complete
  PROVE  /\ d \in Device /\ d \in Present /\ at' \in [Device -> Addr \cup {Off}]
         /\ Present' = Present /\ ListScope'
<1>1. d \in Device /\ d \in Present /\ at \in [Device -> Addr \cup {Off}]
  BY NamesApart DEF Named, Present, NamesOK
<1>2. /\ at' \in [Device -> Addr \cup {Off}] /\ at'[d] # Off
      /\ \A e \in Device \ {d} : at'[e] = at[e] /\ at[e] # at'[d]
  <2>1. CASE at' = at
    <3>1. at[d] # Off
      BY <1>1 DEF Present
    <3>2. \A e \in Device : at[e] = at[d] => e \in Present
      BY <3>1 DEF Present
    <3> QED
      BY <1>1, <2>1, <3>1, <3>2 DEF ListScope
  <2>2. ASSUME NEW a \in Addr \ {at[e] : e \in Device}, at' = [at EXCEPT ![d] = a]
        PROVE  /\ at' \in [Device -> Addr \cup {Off}] /\ at'[d] # Off
               /\ \A e \in Device \ {d} : at'[e] = at[e] /\ at[e] # at'[d]
    BY <1>1, <2>2, NamesApart
  <2> QED
    BY <2>1, <2>2 DEF Opens
<1>3. Present' = Present
  BY <1>1, <1>2 DEF Present
<1>4. Listing' = {}
  BY DEF Listing
<1> QED
  BY <1>1, <1>2, <1>3, <1>4 DEF ListScope, Present

\* What a call that names a scanner, or that may, does to addresses and to the cache.
LEMMA OpeningModel ==
  ASSUME ModelInvariant, Listing = {}, NEW n \in Name \cup {None}, UNCHANGED <<listed, pc, raw, dev, found, acq>>,
         complete' => complete,
         \/ UNCHANGED <<at, opened>> /\ cache' \in {cache, NoCache}
         \/ NoteDeviceOpened(n) /\ \E d \in Named(n) : Opens(d)
  PROVE  /\ NamesOK' /\ ListScope'
         /\ CacheScope'
         /\ \A d \in opened' \ opened : d \in Named(n)
<1>1. CASE UNCHANGED <<at, opened>> /\ cache' \in {cache, NoCache}
  <2>1. NamesOK'
    BY <1>1 DEF ModelInvariant, NamesOK, NoCache
  <2> QED
    BY <1>1, <2>1, QuietModel
<1>2. ASSUME NoteDeviceOpened(n), NEW d \in Named(n), Opens(d)
      PROVE  /\ NamesOK' /\ ListScope'
             /\ CacheScope'
             /\ \A e \in opened' \ opened : e \in Named(n)
  <2>1. /\ at' \in [Device -> Addr \cup {Off}]
        /\ Present' = Present /\ ListScope' /\ opened' = opened \cup {d}
    BY <1>2, OpeningMoves DEF ModelInvariant, Opens
  <2>2. n # None
    BY <1>2, NamesApart DEF ModelInvariant, NamesOK, Named
  <2>3. IF cache.name = Selector THEN cache' = cache ELSE cache' = NoCache
    BY <1>2, <2>2 DEF NoteDeviceOpened
  <2>4. NamesOK'
    BY <2>1, <2>3 DEF ModelInvariant, NamesOK, NoCache
  <2>5. CacheScope'
    <3>1. CASE cache.name = Selector
      <4>1. cache' = cache /\ Named(cache.name)' = Named(cache.name)
        BY <2>1, <2>3, <3>1 DEF Named
      <4> QED
        BY <4>1 DEF ModelInvariant, NameScope, CacheScope, OfModel, Trusted
    <3>2. CASE cache.name # Selector
      BY <2>3, <3>2 DEF NoCache, CacheScope
    <3> QED
      BY <3>1, <3>2
  <2> QED
    BY <1>2, <2>1, <2>4, <2>5
<1> QED
  BY <1>1, <1>2

\* A call of scanimage to list, or to dump the options of dev.
LEMMA CallModel ==
  ASSUME ModelInvariant, UNCHANGED scanVars, NEW n, RunScanimage(n),
         \/ pc \in {"list", "legacy"} /\ n = None
         \/ pc \in {"dump", "redump", "scandump"} /\ n = dev
  PROVE  ModelInvariant'
<1>0. /\ UNCHANGED <<pc, purpose, want, dev, found, raw, acq, identity>>
      /\ complete' = (complete /\ (Listing' = {} \/ Present \subseteq Listing'))
  BY DEF RunScanimage, control, scanVars
<1>1. CASE pc \in {"list", "legacy"} /\ n = None
  <2>1. /\ UNCHANGED <<at, cache>>
        /\ \/ listed' = listed
           \/ \E S \in SUBSET Present : listed' = ListOf(S)
    <3>1. CASE Refused
      BY <3>1 DEF Refused
    <3>2. CASE Launched(n)
      BY <1>1, <3>2 DEF Launched, NoteDeviceOpened, LaunchFails, TurnedAway, Interrupted, TimesOut,
                        ExitsBadly, Answers, MayOpen
    <3> QED
      BY <3>1, <3>2 DEF RunScanimage
  <2>2. NamesOK'
    <3>1. \A S \in SUBSET Present : ListOf(S) \in [Device -> Addr \cup {Off}]
      BY DEF ListOf, ModelInvariant, NamesOK
    <3> QED
      BY <1>0, <2>1, <3>1 DEF ModelInvariant, NamesOK
  <2>3. ListScope' /\ CacheScope'
    <3>1. CASE listed' = listed
      BY <1>0, <1>1, <2>1, <2>2, <3>1, QuietModel
    <3>2. ASSUME NEW S \in SUBSET Present, listed' = ListOf(S) PROVE ListScope' /\ CacheScope'
      <4>1. CacheScope'
        BY <1>0, <2>1 DEF ModelInvariant, NameScope, CacheScope, OfModel, Named, Present, Trusted
      <4>2. Listing' = S /\ Present' = Present /\ \A d \in S : listed'[d] = at[d]
        BY <2>1, <3>2 DEF Listing, ListOf, Present
      <4>3. ListScope'
        <5>1. S \subseteq Present /\ \A d, e \in Present : at[d] = at[e] => d = e
          BY DEF ModelInvariant, ListScope
        <5>2. /\ \A d, e \in Present' : at'[d] = at'[e] => d = e
              /\ \A d, e \in Listing' : listed'[d] = listed'[e] => d = e
              /\ \A d \in Listing', e \in Present' : listed'[d] = at'[e] => d = e
          BY <2>1, <4>2, <5>1
        <5>3. Listing' # {} /\ complete' => Present' \subseteq Listing'
          BY <1>0, <4>2
        <5>4. pc' \in {"list", "legacy", "listed"}
          BY <1>0, <1>1
        <5> QED
          BY <5>2, <5>3, <5>4 DEF ListScope
      <4> QED
        BY <4>1, <4>3
    <3> QED
      BY <2>1, <3>1, <3>2
  <2>4. NameScope' /\ ScansExpectedModel'
    BY <1>0, <1>1, <2>3 DEF ModelInvariant, NameScope, CacheScope, ScansExpectedModel, Passing, Asking
  <2>5. DumpScope'
    BY <1>0, <1>1 DEF ModelInvariant, DumpScope, scanVars
  <2> QED
    BY <2>2, <2>3, <2>4, <2>5 DEF ModelInvariant
<1>2. CASE pc \in {"dump", "redump", "scandump"} /\ n = dev
  <2>1. n \in Name /\ Listing = {}
    BY <1>2, NamesApart DEF ModelInvariant, NamesOK, ListScope, DumpScope
  <2>2. /\ \/ UNCHANGED <<at, opened>> /\ cache' \in {cache, NoCache}
           \/ NoteDeviceOpened(n) /\ \E d \in Named(n) : Opens(d)
        /\ listed' = listed
    <3>1. n # None
      BY <2>1, NamesApart
    <3>2. CASE Refused
      BY <3>2 DEF Refused
    <3>3. CASE Launched(n)
      BY <3>1, <3>3 DEF Launched, NoteDeviceOpened, LaunchFails, TurnedAway, Interrupted, TimesOut,
                        ExitsBadly, Answers, MayOpen
    <3> QED
      BY <3>2, <3>3 DEF RunScanimage
  <2>3. /\ NamesOK' /\ ListScope'
        /\ CacheScope'
    BY <1>0, <2>1, <2>2, OpeningModel
  <2>4. NameScope' /\ ScansExpectedModel'
    BY <1>0, <1>2, <2>3 DEF NameScope, CacheScope, ScansExpectedModel, Passing, Asking
  <2>5. DumpScope'
    BY <1>0, <1>2 DEF ModelInvariant, DumpScope, scanVars
  <2> QED
    BY <2>3, <2>4, <2>5 DEF ModelInvariant
<1> QED
  BY <1>1, <1>2

\* The steps between the calls of a listing.
LEMMA ListedModel ==
  ASSUME ModelInvariant, FormattedListed \/ LegacyListed, UNCHANGED scanVars
  PROVE  ModelInvariant'
<1>1. /\ UNCHANGED <<raw, at, cache, complete, listed, purpose, want, dev, found, acq, identity, job>>
      /\ pc \in {"list", "legacy"} /\ pc' \in {"legacy", "listed"}
  BY DEF FormattedListed, LegacyListed, Local, control, world, history, scanVars
<1>2. NamesOK' /\ DumpScope'
  BY <1>1 DEF ModelInvariant, NamesOK, DumpScope
<1>3. ListScope' /\ CacheScope'
  BY <1>1, <1>2, QuietModel
<1>4. NameScope' /\ ScansExpectedModel'
  BY <1>1, <1>3 DEF ModelInvariant, NameScope, CacheScope, ScansExpectedModel, Passing, Asking
<1> QED
  BY <1>2, <1>3, <1>4 DEF ModelInvariant

\* The name given to a device that was chosen is that of no scanner of another model: it
\* is its own address, or there is no other scanner that the lists could have left out.
LEMMA ChosenName ==
  ASSUME NamesOK, ListScope, NEW d \in Chosen
  PROVE  /\ NameFor(d) \in Name /\ want \in {None, Model[d]}
         /\ Trusted(NameFor(d)) => OfModel(NameFor(d), Model[d])
<1>1. d \in Listing /\ want \in {None, Model[d]} /\ d \in Device
  BY DEF Chosen, Exact, Matching, Listing
<1>2. CASE NameFor(d) = Selector
  <2>1. listed[d] \in Addr /\ listed[d] # Selector
    BY <1>1, NamesApart DEF NamesOK, Listing
  <2>2. Cardinality(Listing) = 1
    BY <1>2, <2>1 DEF NameFor
  <2>3. IsFiniteSet(Listing)
    BY DiscoveryAssumption, FS_Subset DEF Listing
  <2>4. Listing = {d}
    BY <1>1, <2>2, <2>3, FS_Singleton
  <2>5. complete => \A e \in Present : e \in Listing
    BY <1>1 DEF ListScope
  <2> QED
    BY <1>1, <1>2, <2>4, <2>5, NamesApart DEF OfModel, Named, Trusted
<1>3. CASE NameFor(d) = listed[d]
  <2>1. listed[d] \in Addr /\ listed[d] # Selector /\ listed[d] # Off
    BY <1>1, NamesApart DEF NamesOK, Listing
  <2>2. ASSUME NEW e \in Named(listed[d]) PROVE e = d
    <3>1. e \in Present /\ at[e] = listed[d]
      BY <2>1, <2>2 DEF Named, Present
    <3>2. listed[e] = listed[d] /\ e \in Listing
      BY <1>1, <2>1, <3>1 DEF ListScope, Listing, Present
    <3> QED
      BY <1>1, <3>2 DEF ListScope
  <2> QED
    BY <1>1, <1>3, <2>1, <2>2, NamesApart DEF OfModel
<1> QED
  BY <1>2, <1>3 DEF NameFor

LEMMA ResolvedModel ==
  ASSUME ModelInvariant, CurrentDeviceAddress, UNCHANGED scanVars
  PROVE  ModelInvariant'
<1>1. /\ UNCHANGED <<raw, at, complete, purpose, want, dev, acq, identity, job>>
      /\ pc = "listed" /\ pc' = "addressed" /\ listed' = NothingListed
  BY DEF CurrentDeviceAddress, Local, control, world, history, scanVars
<1>2. NothingListed \in [Device -> Addr \cup {Off}] /\ Present' = Present
      /\ \A n \in Name \cup {None} : Named(n)' = Named(n)
  BY <1>1 DEF NothingListed, Present, Named
<1>3. \/ UNCHANGED found /\ cache' \in {cache, NoCache} /\ ret' # Success
      \/ \E d \in Chosen : /\ found' = NameFor(d)
                           /\ cache' = [name |-> NameFor(d), want |-> want, device |-> d]
  BY DEF CurrentDeviceAddress, Success
<1>4. CASE UNCHANGED found /\ cache' \in {cache, NoCache} /\ ret' # Success
  <2>1. NamesOK'
    BY <1>1, <1>2, <1>4 DEF ModelInvariant, NamesOK, NoCache
  <2>2. ListScope' /\ CacheScope'
    BY <1>1, <1>4, <2>1, QuietModel
  <2>3. NameScope' /\ ScansExpectedModel' /\ DumpScope'
    BY <1>1, <1>4, <2>2 DEF ModelInvariant, NameScope, CacheScope, ScansExpectedModel, DumpScope, Passing, Asking
  <2> QED
    BY <2>1, <2>2, <2>3 DEF ModelInvariant
<1>5. ASSUME NEW d \in Chosen, found' = NameFor(d),
             cache' = [name |-> NameFor(d), want |-> want, device |-> d]
      PROVE  ModelInvariant'
  <2>0. /\ NameFor(d) \in Name /\ want \in {None, Model[d]}
        /\ Trusted(NameFor(d)) => OfModel(NameFor(d), Model[d])
    BY ChosenName DEF ModelInvariant
  <2>1. NamesOK'
    BY <1>1, <1>2, <1>5, <2>0 DEF ModelInvariant, NamesOK
  <2>2. ListScope'
    <3>1. Listing' = {}
      BY <1>1 DEF Listing, NothingListed
    <3> QED
      BY <1>1, <1>2, <3>1 DEF ModelInvariant, ListScope
  <2>3. want # None /\ Trusted(NameFor(d)) => OfModel(found, want)' /\ OfModel(cache.name, cache.want)'
    BY <1>1, <1>2, <1>5, <2>0 DEF OfModel
  <2>4. NameScope' /\ ScansExpectedModel' /\ DumpScope'
    BY <1>1, <1>5, <2>0, <2>3, NamesApart DEF ModelInvariant, NameScope, ScansExpectedModel, DumpScope,
       Passing, Asking, Trusted
  <2> QED
    BY <2>1, <2>2, <2>4 DEF ModelInvariant
<1> QED
  BY <1>3, <1>4, <1>5

\* What the steps before the passes have in common: the next device name, or the next list.
LEMMA ProceedModel ==
  ASSUME ModelInvariant, Listing = {}, NEW n \in Name, NEW second, UNCHANGED job, acq' \in {acq, dev, n},
         NEW next \in {"dump", "redump", "dumped", "scandump", "validate"}, Proceed(next, n, second)
  PROVE  ModelInvariant'
<1>1. /\ UNCHANGED <<raw, at, complete, listed, cache>> /\ dev' = n /\ found' = None /\ pc' = next
  BY DEF Proceed, Local, control, world, history
<1>2. NamesOK' /\ DumpScope'
  BY <1>1, NamesApart DEF ModelInvariant, NamesOK, DumpScope
<1> QED
  BY <1>1, <1>2, EarlyModel

LEMMA AskModel ==
  ASSUME ModelInvariant, Listing = {}, UNCHANGED scanVars,
         \/ \E e : RetryRead(e)
         \/ \E who \in {"reopen", "reopenScan"} : \E m : Reopen(who, m)
  PROVE  ModelInvariant'
<1>1. /\ UNCHANGED <<raw, at, complete, listed, dev, acq, job>> /\ found' \in {None, found} /\ cache' \in {cache, NoCache}
      /\ pc' = "failed" \/ (pc' = "list" /\ purpose' # "address")
  BY DEF RetryRead, Reopen, Ask, Local, control, world, history, scanVars
<1>2. NamesOK' /\ DumpScope'
  BY <1>1 DEF ModelInvariant, NamesOK, DumpScope, NoCache
<1> QED
  BY <1>1, <1>2, EarlyModel

LEMMA LeaveModel ==
  ASSUME ModelInvariant, NEW r, NEW doomed, NEW disk, LeaveWith(r, doomed, disk)
  PROVE  ModelInvariant'
<1>1. /\ UNCHANGED <<raw, at, complete, cache, dev, found, acq, job>>
      /\ listed' = NothingListed /\ pc' = "done"
  BY DEF LeaveWith, Local, control, world, history
<1>2. NamesOK' /\ DumpScope'
  <2>1. NothingListed \in [Device -> Addr \cup {Off}]
    BY DEF NothingListed
  <2> QED
    BY <1>1, <2>1 DEF ModelInvariant, NamesOK, DumpScope
<1> QED
  BY <1>1, <1>2, EarlyModel

LEMMA AnswerModel ==
  ASSUME ModelInvariant, UNCHANGED scanVars, AddressResolved \/ OptionsDumped \/ SourceDumped \/ Reopened
  PROVE  ModelInvariant'
<1>1. Listing = {} /\ UNCHANGED <<job, acq>>
  BY DEF AddressResolved, OptionsDumped, SourceDumped, Reopened, ModelInvariant, ListScope, scanVars
<1>2. /\ pc \in {"dump", "redump"} => dev \in Name
      /\ pc = "addressed" /\ ret = Success => found \in Name
  BY DEF ModelInvariant, NamesOK, DumpScope
<1>3. CASE AddressResolved
  BY <1>1, <1>2, <1>3, ProceedModel, AskModel DEF AddressResolved
<1>4. CASE OptionsDumped
  BY <1>1, <1>2, <1>4, ProceedModel, AskModel DEF OptionsDumped
<1>5. CASE SourceDumped
  BY <1>1, <1>2, <1>5, ProceedModel, AskModel DEF SourceDumped
<1>6. CASE Reopened
  BY <1>1, <1>2, <1>6, ProceedModel, AskModel DEF Reopened
<1> QED
  BY <1>3, <1>4, <1>5, <1>6

LEMMA StartModel ==
  ASSUME ModelInvariant, WithToken \/ WithoutToken
  PROVE  ModelInvariant'
<1>1. /\ UNCHANGED <<raw, at, complete, listed, found, cache, job>> /\ Listing = {}
      /\ acq' = acq \/ (acq' = job.token.name /\ job.token # NoToken)
      /\ \/ dev' = dev /\ (pc' = "validate" \/ (pc' = "list" /\ purpose' # "address"))
         \/ dev' = job.token.name /\ job.token # NoToken /\ pc' = "scandump"
         \/ dev' = raw /\ pc' = "dump"
  BY DEF WithToken, WithoutToken, BeginOptionsDump, Ask, Local, control, world, history, scanVars,
         ModelInvariant, ListScope
<1>2. NamesOK' /\ DumpScope'
  BY <1>1, NamesApart DEF ModelInvariant, NamesOK, DumpScope
<1> QED
  BY <1>1, <1>2, EarlyModel

LEMMA OptionsModel ==
  ASSUME ModelInvariant, OptionsRead \/ ScanDumped \/ ScanReopened
  PROVE  ModelInvariant'
<1>1. Listing = {}
  BY DEF OptionsRead, ScanDumped, ScanReopened, ModelInvariant, ListScope
<1>2. /\ pc \in {"dumped", "scandump"} => dev \in Name
      /\ pc = "addressed" /\ ret = Success => found \in Name
  BY DEF ModelInvariant, NamesOK, DumpScope
<1>3. CASE OptionsRead
  BY <1>1, <1>2, <1>3, ProceedModel DEF OptionsRead
<1>4. CASE ScanDumped
  <2>1. CASE Proceed("validate", dev, FALSE) /\ acq' = dev /\ UNCHANGED job
    BY <1>1, <1>2, <1>4, <2>1, ProceedModel DEF ScanDumped
  <2>2. CASE Leave("IoFailure") \/ Leave(ret.code)
    BY <2>2, LeaveModel DEF Leave
  <2>3. CASE Reopen("reopenScan", identity) /\ UNCHANGED scanVars
    BY <1>1, <2>3, AskModel
  <2> QED
    BY <1>4, <2>1, <2>2, <2>3 DEF ScanDumped
<1>5. CASE ScanReopened
  <2>1. CASE ret = Success /\ Proceed("scandump", found, TRUE) /\ UNCHANGED scanVars
    BY <1>1, <1>2, <1>5, <2>1, ProceedModel DEF ScanReopened, scanVars
  <2>2. CASE Leave(lastError.code)
    BY <2>2, LeaveModel DEF Leave
  <2> QED
    BY <1>5, <2>1, <2>2 DEF ScanReopened
<1> QED
  BY <1>3, <1>4, <1>5

\* What the steps of the passes have in common: what was learnt about devices is forgotten.
LEMMA ForgottenModel ==
  ASSUME ModelInvariant, Forgotten, cache' \in {cache, NoCache}, dev' \in Name \cup {None, dev},
         acq' \in {None, Selector}, job'.token \in {NoToken, job.token},
         \/ pc' \in {"resolve", "merge", "artifacts"}
         \/ /\ pc' = "scanning"
            /\ identity # None /\ acq' # Selector /\ Trusted(dev)' => OfModel(dev, identity)'
  PROVE  ModelInvariant'
<1>1. /\ UNCHANGED <<raw, at, complete, identity>> /\ listed' = NothingListed /\ found' = None /\ opened' = {}
  BY DEF Forgotten, world
<1>2. NamesOK' /\ DumpScope'
  <2>1. NothingListed \in [Device -> Addr \cup {Off}]
    BY DEF NothingListed
  <2> QED
    BY <1>1, <2>1, NamesApart DEF ModelInvariant, NamesOK, DumpScope, NoCache
<1> QED
  BY <1>1, <1>2, PassModel

LEMMA ToModel ==
  ASSUME ModelInvariant, NEW next \in {"resolve", "merge", "artifacts"}, To(next), acq \in {None, Selector}
  PROVE  ModelInvariant'
BY ForgottenModel DEF To

LEMMA PassFailsModel ==
  ASSUME ModelInvariant, NEW code, PassFails(code), acq \in {None, Selector}
  PROVE  ModelInvariant'
BY LeaveModel, ToModel DEF PassFails

LEMMA AcceptedModel ==
  ASSUME ModelInvariant, Libusb, OptionsAccepted
  PROVE  ModelInvariant'
<1>1. job'.token = NoToken
  BY DEF OptionsAccepted, NewJob
<1>2. acq' \in {None, Selector}
  BY DEF OptionsAccepted
<1> QED
  BY <1>1, <1>2, ForgottenModel DEF OptionsAccepted

\* The address is kept from an earlier pass, or it is found in a new list.
LEMMA ResolveModel ==
  ASSUME ModelInvariant, Libusb, ResolveKnown \/ ResolveAgain \/ AddressFound \/ UnsafeAddress \/ AddressMissing
  PROVE  ModelInvariant'
<1>0. Passing /\ acq \in {None, Selector}
  BY DEF ResolveKnown, ResolveAgain, AddressFound, UnsafeAddress, AddressMissing, Passing, Asking,
         ModelInvariant, NameScope
<1>1. CASE UnsafeAddress \/ (AddressMissing /\ PassFails(ret.code))
  BY <1>0, <1>1, PassFailsModel DEF UnsafeAddress
<1>2. ASSUME NEW n \in Name, OpenWith(n),
             identity # None /\ acq # Selector /\ Trusted(n) => OfModel(n, identity)
      PROVE  ModelInvariant'
  <2>1. /\ UNCHANGED <<at, complete, identity, acq, job, cache>> /\ dev' = n /\ pc' = "scanning" /\ Forgotten
    BY <1>2 DEF OpenWith, Forgotten, world
  <2>2. identity # None /\ acq' # Selector /\ Trusted(dev)' => OfModel(dev, identity)'
    BY <1>2, <2>1 DEF OfModel, Named, Present, Trusted
  <2> QED
    BY <1>0, <2>1, <2>2, ForgottenModel
<1>3. CASE ResolveKnown
  <2>1. CASE CachedAddress # None /\ OpenWith(CachedAddress)
    <3>1. CachedAddress = cache.name /\ cache.want = identity /\ cache.name \in Name
      BY <2>1 DEF CachedAddress, ModelInvariant, NamesOK
    <3> QED
      BY <1>2, <2>1, <3>1 DEF ModelInvariant, NameScope
  <2>2. CASE acq = Selector /\ OpenWith(acq)
    BY <1>2, <2>2, NamesApart
  <2> QED
    BY <1>3, <2>1, <2>2 DEF ResolveKnown
<1>4. CASE AddressFound
  <2>1. found \in Name /\ (identity # None /\ Trusted(found) => OfModel(found, identity))
    BY <1>4 DEF AddressFound, ModelInvariant, NamesOK, DumpScope, NameScope
  <2> QED
    BY <1>2, <1>4, <2>1 DEF AddressFound
<1>5. ASSUME ResolveAgain \/ AddressMissing, Ask("address", identity), Local,
             UNCHANGED <<dev, found, listed, cache, scanVars>>
      PROVE  ModelInvariant'
  <2>1. /\ UNCHANGED <<raw, at, complete, identity, acq, job, listed, cache, dev, found>> /\ Listing = {}
        /\ pc' = "list" /\ purpose' = "address" /\ want' = identity
    BY <1>5 DEF Ask, Local, control, world, history, scanVars, ResolveAgain, AddressMissing, ModelInvariant, ListScope
  <2>2. NamesOK' /\ DumpScope'
    BY <2>1 DEF ModelInvariant, NamesOK, DumpScope
  <2>3. ListScope' /\ CacheScope'
    BY <2>1, <2>2, QuietModel
  <2>4. NameScope' /\ ScansExpectedModel'
    BY <1>0, <2>1, <2>3 DEF NameScope, CacheScope, ScansExpectedModel
  <2> QED
    BY <2>2, <2>3, <2>4 DEF ModelInvariant
<1> QED
  BY <1>1, <1>3, <1>4, <1>5 DEF ResolveAgain, AddressMissing

\* The acquisition opens a scanner that its name names.
LEMMA AcquireModel ==
  ASSUME ModelInvariant, Acquire
  PROVE  ModelInvariant'
<1>1. /\ pc = "scanning" /\ ret = Nothing /\ ret' # Nothing /\ ret' # Success /\ Listing = {}
      /\ UNCHANGED <<raw, pc, dev, found, acq, listed, complete, job, identity>>
  <2>1. /\ pc = "scanning" /\ ret = Nothing
        /\ UNCHANGED <<raw, pc, dev, found, acq, listed, complete, job, identity>>
    BY DEF Acquire, AcquisitionLaunchFails, AcquisitionTurnedAway, AcquisitionRuns, RunAcquisition, control
  <2>2. ret' # Nothing /\ ret' # Success
    <3>1. CASE AcquisitionLaunchFails \/ AcquisitionTurnedAway
      BY <3>1 DEF AcquisitionLaunchFails, AcquisitionTurnedAway, Nothing, Success
    <3>2. CASE AcquisitionRuns
      BY <3>2, AnswerOf DEF AcquisitionRuns, Nothing, Success
    <3> QED
      BY <3>1, <3>2 DEF Acquire
  <2> QED
    BY <2>1, <2>2 DEF ModelInvariant, ListScope
<1>2. \/ UNCHANGED <<at, opened>> /\ cache' \in {cache, NoCache}
      \/ NoteDeviceOpened(dev) /\ \E d \in Named(dev) : Opens(d)
  BY DEF Acquire, AcquisitionLaunchFails, AcquisitionTurnedAway, AcquisitionRuns, RunAcquisition,
         MayOpen, world, NoteDeviceOpened
<1>3. dev \in Name \cup {None}
  BY DEF ModelInvariant, NamesOK
<1>4. /\ NamesOK' /\ ListScope'
      /\ CacheScope'
      /\ \A d \in opened' \ opened : d \in Named(dev)
  BY <1>1, <1>2, <1>3, OpeningModel
<1>5. NameScope' /\ DumpScope'
  BY <1>1, <1>4 DEF ModelInvariant, NameScope, CacheScope, DumpScope, Passing, Asking
<1>6. ScansExpectedModel'
  BY <1>1, <1>4 DEF ModelInvariant, NameScope, ScansExpectedModel, OfModel, Trusted
<1> QED
  BY <1>4, <1>5, <1>6 DEF ModelInvariant

LEMMA InitModel == Init => ModelInvariant
<1> SUFFICES ASSUME Init PROVE ModelInvariant
  OBVIOUS
<1>0. InitDiscovery
  BY DEF Init
<1>1. PICK t \in [name : Name, identity : Models \cup {None}] \cup {NoToken} :
        job = [NewJob EXCEPT !.token = t]
  BY DEF Init
<1>2. job.token = t
  BY <1>1 DEF NewJob
<1>3. NamesOK
  BY <1>0, NamesApart DEF Init, InitDiscovery, NamesOK, NothingListed, NoCache
<1>4. DumpScope
  BY <1>0, <1>2 DEF InitDiscovery, DumpScope
<1>5. ListScope
  BY <1>0 DEF InitDiscovery, ListScope, Listing, NothingListed, Present
<1>6. NameScope /\ ScansExpectedModel
  BY <1>0 DEF Init, InitDiscovery, NameScope, ScansExpectedModel, NoCache, Passing, Asking
<1> QED
  BY <1>3, <1>4, <1>5, <1>6 DEF ModelInvariant

LEMMA ScanStepModel == Libusb /\ ModelInvariant /\ [Next]_vars => ModelInvariant'
<1> SUFFICES ASSUME Libusb, ModelInvariant, [Next]_vars PROVE ModelInvariant'
  OBVIOUS
<1>0. pc \in {"resolve", "scanning", "merge", "artifacts"} => acq \in {None, Selector}
  BY DEF ModelInvariant, NameScope, Passing
<1>1. CASE DiscoveryStep /\ UNCHANGED scanVars
  <2>1. CASE ListFormatted \/ ListLegacy \/ OptionsDump \/ SourceDump
    BY <1>1, <2>1, CallModel DEF ListFormatted, ListLegacy, OptionsDump, SourceDump
  <2>2. CASE FormattedListed \/ LegacyListed
    BY <1>1, <2>2, ListedModel
  <2>3. CASE CurrentDeviceAddress
    BY <1>1, <2>3, ResolvedModel
  <2>4. CASE AddressResolved \/ OptionsDumped \/ SourceDumped \/ Reopened
    BY <1>1, <2>4, AnswerModel
  <2> QED
    BY <1>1, <2>1, <2>2, <2>3, <2>4 DEF DiscoveryStep
<1>2. CASE ScanStep
  <2>1. CASE Busy \/ RefusedSession \/ BadToken \/ OptionsFail \/ OptionsRejected
    BY <2>1, LeaveModel DEF Busy, RefusedSession, BadToken, OptionsFail, OptionsRejected, Leave
  <2>2. CASE WithToken \/ WithoutToken
    BY <2>2, StartModel
  <2>3. CASE ScanDump
    BY <2>3, CallModel DEF ScanDump
  <2>4. CASE OptionsRead \/ ScanDumped \/ ScanReopened
    BY <2>4, OptionsModel
  <2>5. CASE OptionsAccepted
    BY <2>5, AcceptedModel
  <2>6. CASE ResolveKnown \/ ResolveAgain \/ AddressFound \/ UnsafeAddress \/ AddressMissing
    BY <2>6, ResolveModel
  <2>7. CASE Acquire
    BY <2>7, AcquireModel
  <2>8. CASE AcquisitionFailed
    BY <1>0, <2>8, PassFailsModel DEF AcquisitionFailed
  <2>9. CASE AcquisitionRetried
    BY <1>0, <2>9, ForgottenModel DEF AcquisitionRetried
  <2>10. CASE AcquisitionSucceeded
    BY <1>0, <2>10, ToModel, PassFailsModel DEF AcquisitionSucceeded, NextPass
  <2>11. CASE MergeFails \/ WriteFails \/ ValidateArtifacts
    BY <2>11, LeaveModel DEF MergeFails, WriteFails, ValidateArtifacts, Leave
  <2>12. CASE MergeWritten
    BY <1>0, <2>12, ToModel DEF MergeWritten, Mergeable
  <2> QED
    BY <1>2, <2>1, <2>2, <2>3, <2>4, <2>5, <2>6, <2>7, <2>8, <2>9, <2>10, <2>11, <2>12 DEF ScanStep
<1>3. CASE Environment \/ UNCHANGED vars
  <2>1. /\ UNCHANGED <<raw, pc, purpose, want, dev, found, ret, listed, cache, opened, complete, acq, job,
                       identity>>
        /\ at' \in [Device -> Addr \cup {Off}] /\ \A d \in Device : at'[d] \in {at[d], Off}
    <3>1. at \in [Device -> Addr \cup {Off}]
      BY DEF ModelInvariant, NamesOK
    <3>2. CASE at' = at
      BY <1>3, <3>1, <3>2 DEF Environment, RequestCancellation, SwitchOff, control, history, scanVars,
                              vars, discoveryVars
    <3>3. CASE Environment /\ \E d \in Present : at' = [at EXCEPT ![d] = Off]
      BY <3>1, <3>3 DEF Environment, RequestCancellation, SwitchOff, control, history, scanVars
    <3> QED
      BY <1>3, <3>2, <3>3 DEF Environment, RequestCancellation, SwitchOff, vars, discoveryVars
  <2>2. NamesOK' /\ DumpScope'
    BY <2>1 DEF ModelInvariant, NamesOK, DumpScope
  <2>3. ListScope' /\ CacheScope'
    BY <2>1, <2>2, QuietModel DEF ModelInvariant, ListScope
  <2>4. \A n \in Name \cup {None} : \A d \in Named(n)' : d \in Named(n)
    BY <2>1, NamesApart DEF ModelInvariant, NamesOK, Named, Present
  <2>5. NameScope' /\ ScansExpectedModel'
    BY <2>1, <2>3, <2>4 DEF ModelInvariant, NamesOK, NameScope, CacheScope, ScansExpectedModel, OfModel,
                            Passing, Asking, Trusted
  <2> QED
    BY <2>2, <2>3, <2>5 DEF ModelInvariant
<1> QED
  BY <1>1, <1>2, <1>3 DEF Next, Command, Done

\* Where addresses are volatile, the passes of a scan whose identity is known open scanners
\* of that model only, however many there are and however their addresses change, whether or
\* not lists leave scanners out.  The bare backend name is the exception: a token's is used
\* without a list, and one taken from a list that left scanners out may mean any of them.
THEOREM OnlyExpectedModelScanned == Libusb => (Spec => []ScansExpectedModel)
<1>1. ModelInvariant => ScansExpectedModel
  BY DEF ModelInvariant
<1>2. ASSUME Libusb PROVE Spec => []ModelInvariant
  <2>1. ModelInvariant /\ [Next]_vars => ModelInvariant'
    BY <1>2, ScanStepModel
  <2> QED
    BY <2>1, InitModel, PTL DEF Spec
<1>3. ASSUME Libusb PROVE Spec => []ScansExpectedModel
  BY <1>1, <1>2, <1>3, PTL
<1> QED
  BY <1>3
=============================================================================
