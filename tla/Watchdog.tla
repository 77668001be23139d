------------------------------ MODULE Watchdog ------------------------------
(***************************************************************************)
(* AcquisitionWatchdog (process/watchdog.cpp) around one acquisition: the  *)
(* main thread starts it, reads the child's stderr, marks progress, and    *)
(* finishes it once the child has exited; the watchdog's own thread waits  *)
(* for the deadline and then calls back to terminate the child.  Each      *)
(* action is one critical section of mutex_, or what happens between two.  *)
(*                                                                         *)
(* Time is discrete.  A deadline is kept as the time that is left until    *)
(* it, so that time needs no bound.                                        *)
(***************************************************************************)
EXTENDS Naturals

CONSTANTS FirstTimeout,   \* time allowed until the first progress record
          StallTimeout    \* time allowed between two progress records

ASSUME TimeoutAssumption == FirstTimeout \in Nat /\ StallTimeout \in Nat

VARIABLES
  started, finished, observed,    \* started_, finished_, observedProgress_
  timedOut,    \* timedOut_
  left,        \* deadline_ - now, or 0 when the deadline has passed
  sleep,       \* the same for the deadline that the thread's wait_until was given
  dog,         \* where the watchdog thread is
  reader,      \* where the main thread is in runAcquisition
  child,       \* scanimage
  killed,      \* terminateChild was called while the child ran
  result,      \* what finish() returned
  (* history *)
  quiet,       \* time since start() or the last progress that counted
  fires        \* how often the callback was called

vars == <<started, finished, observed, timedOut, left, sleep, dog, reader, child, killed,
          result, quiet, fires>>

Kinds == {"none", "firstProgress", "stalled"}
NoResult == [kind |-> "none", observed |-> FALSE]

\* quiet counts no further than any deadline can tell apart.
QuietCap == FirstTimeout + StallTimeout

Init ==
  /\ started = FALSE
  /\ finished = FALSE
  /\ observed = FALSE
  /\ timedOut = "none"
  /\ left = 0
  /\ sleep = 0
  /\ dog = "none"
  /\ reader = "launched"
  /\ child = "running"
  /\ killed = FALSE
  /\ result = NoResult
  /\ quiet = 0
  /\ fires = 0

(***************************************************************************)
(* The main thread in runAcquisition.                                      *)
(***************************************************************************)
\* pieusb scans without a watchdog; markProgress and finish are called anyway.
Start ==
  /\ reader = "launched"
  /\ reader' = "reading"
  /\ \/ UNCHANGED <<started, left, dog, quiet>>
     \/ /\ started' = TRUE
        /\ left' = FirstTimeout
        /\ dog' = "begin"
        /\ quiet' = 0
  /\ UNCHANGED <<finished, observed, timedOut, sleep, child, killed, result, fires>>

\* A chunk with a new progress record.  The host is told before markProgress.
ReadProgress ==
  /\ reader = "reading"
  /\ reader' = "marking"
  /\ UNCHANGED <<started, finished, observed, timedOut, left, sleep, dog, child, killed,
                 result, quiet, fires>>

MarkProgress ==
  /\ reader = "marking"
  /\ reader' = "reading"
  /\ \/ /\ finished \/ timedOut # "none"
        /\ UNCHANGED <<observed, left, quiet>>
     \/ /\ ~finished /\ timedOut = "none"
        /\ observed' = TRUE
        /\ left' = StallTimeout
        /\ quiet' = 0
  /\ UNCHANGED <<started, finished, timedOut, sleep, dog, child, killed, result, fires>>

\* The pipe reaches EOF and the process handle is signalled.
ChildIsGone ==
  /\ reader = "reading"
  /\ child = "exited"
  /\ reader' = "finish"
  /\ UNCHANGED <<started, finished, observed, timedOut, left, sleep, dog, child, killed,
                 result, quiet, fires>>

\* finish(): its critical section reads the verdict, then it joins the thread.
Finish ==
  /\ reader = "finish"
  /\ finished' = TRUE
  /\ result' = [kind |-> timedOut, observed |-> observed]
  /\ reader' = "join"
  /\ UNCHANGED <<started, observed, timedOut, left, sleep, dog, child, killed, quiet, fires>>

\* Mutant of Join: the thread is left to itself.
JoinNot ==
  /\ reader = "join"
  /\ reader' = "returned"
  /\ UNCHANGED <<started, finished, observed, timedOut, left, sleep, dog, child, killed,
                 result, quiet, fires>>

Join ==
  /\ reader = "join"
  /\ dog \in {"none", "gone"}
  /\ reader' = "returned"
  /\ UNCHANGED <<started, finished, observed, timedOut, left, sleep, dog, child, killed,
                 result, quiet, fires>>

(***************************************************************************)
(* The watchdog thread.  The mutex is free only inside wait_until and      *)
(* during the callback.                                                    *)
(***************************************************************************)
\* The top of the loop: leave when finished, else wait for the current deadline.
Loop ==
  \/ finished /\ dog' = "gone" /\ UNCHANGED sleep
  \/ ~finished /\ dog' = "waiting" /\ sleep' = left

\* The thread's first round, and every wakeup that is not a timeout: notified by
\* markProgress or finish, or spurious.
DogLoops ==
  /\ dog \in {"begin", "waiting"}
  /\ Loop
  /\ UNCHANGED <<started, finished, observed, timedOut, left, reader, child, killed, result,
                 quiet, fires>>

Verdict == IF observed THEN "stalled" ELSE "firstProgress"

\* Mutant of DogTimesOut: does not look again whether the deadline was moved.
DogTimesOutUnchecked ==
  /\ dog = "waiting"
  /\ sleep = 0
  /\ \/ finished /\ Loop /\ UNCHANGED timedOut
     \/ ~finished /\ timedOut' = Verdict /\ dog' = "fire" /\ UNCHANGED sleep
  /\ UNCHANGED <<started, finished, observed, left, reader, child, killed, result, quiet, fires>>

\* Mutant of DogTimesOut: does not look whether the scan is over.
DogTimesOutAfterFinish ==
  /\ dog = "waiting"
  /\ sleep = 0
  /\ \/ left > 0 /\ Loop /\ UNCHANGED timedOut
     \/ left = 0 /\ timedOut' = Verdict /\ dog' = "fire" /\ UNCHANGED sleep
  /\ UNCHANGED <<started, finished, observed, left, reader, child, killed, result, quiet, fires>>

\* Mutant of DogTimesOut: gives up when progress moved the deadline.
DogTimesOutGivesUp ==
  /\ dog = "waiting"
  /\ sleep = 0
  /\ \/ (finished \/ left > 0) /\ dog' = "gone" /\ UNCHANGED <<timedOut, sleep>>
     \/ ~finished /\ left = 0 /\ timedOut' = Verdict /\ dog' = "fire" /\ UNCHANGED sleep
  /\ UNCHANGED <<started, finished, observed, left, reader, child, killed, result, quiet, fires>>

\* wait_until returned timeout: progress may have moved the deadline meanwhile.
DogTimesOut ==
  /\ dog = "waiting"
  /\ sleep = 0
  /\ \/ /\ finished \/ left > 0
        /\ Loop
        /\ UNCHANGED timedOut
     \/ /\ ~finished /\ left = 0
        /\ timedOut' = Verdict
        /\ dog' = "fire"
        /\ UNCHANGED sleep
  /\ UNCHANGED <<started, finished, observed, left, reader, child, killed, result, quiet, fires>>

\* The callback, outside the mutex: terminateChild on the main thread's child.
DogFires ==
  /\ dog = "fire"
  /\ dog' = "firing"
  /\ fires' = fires + 1
  /\ killed' = (killed \/ child = "running")
  /\ UNCHANGED <<started, finished, observed, timedOut, left, sleep, reader, child, result,
                 quiet>>

DogReturns ==
  /\ dog = "firing"
  /\ dog' = "gone"
  /\ UNCHANGED <<started, finished, observed, timedOut, left, sleep, reader, child, killed,
                 result, quiet, fires>>

(***************************************************************************)
(* scanimage and time.                                                     *)
(***************************************************************************)
ChildExits ==
  /\ child = "running"
  /\ child' = "exited"
  /\ UNCHANGED <<started, finished, observed, timedOut, left, sleep, dog, reader, killed,
                 result, quiet, fires>>

Less(t) == IF t = 0 THEN 0 ELSE t - 1

Tick ==
  /\ left' = Less(left)
  /\ sleep' = Less(sleep)
  /\ quiet' = IF quiet <= QuietCap THEN quiet + 1 ELSE quiet
  /\ UNCHANGED <<started, finished, observed, timedOut, dog, reader, child, killed, result,
                 fires>>

ReaderStep == Start \/ MarkProgress \/ ChildIsGone \/ Finish \/ Join

DogStep == DogTimesOut \/ DogFires \/ DogReturns

Done == reader = "returned" /\ UNCHANGED vars

Next == ReaderStep \/ ReadProgress \/ DogLoops \/ DogStep \/ ChildExits \/ Tick \/ Done

Spec == Init /\ [][Next]_vars

(***************************************************************************)
(* Time passes, both threads run and a terminated child ends.  Progress    *)
(* and the child's own exit are not to be relied on.                       *)
(***************************************************************************)
Fairness ==
  /\ WF_vars(Tick)
  /\ WF_vars(ReaderStep)
  /\ WF_vars(dog = "begin" /\ DogLoops)
  /\ WF_vars(finished /\ DogLoops)
  /\ WF_vars(DogStep)
  /\ WF_vars(killed /\ ChildExits)

FairSpec == Spec /\ Fairness

-----------------------------------------------------------------------------
FlagTypeOK ==
  /\ started \in BOOLEAN /\ finished \in BOOLEAN /\ observed \in BOOLEAN /\ killed \in BOOLEAN
  /\ timedOut \in Kinds
  /\ result \in [kind : Kinds, observed : BOOLEAN]

PlaceTypeOK ==
  /\ dog \in {"none", "begin", "waiting", "fire", "firing", "gone"}
  /\ reader \in {"launched", "reading", "marking", "finish", "join", "returned"}
  /\ child \in {"running", "exited"}

TimeTypeOK ==
  /\ left \in Nat
  /\ sleep \in Nat
  /\ quiet \in Nat
  /\ fires \in 0..1

TypeOK == FlagTypeOK /\ PlaceTypeOK /\ TimeTypeOK

\* The silence the watchdog has to put up with.
Limit == IF observed THEN StallTimeout ELSE FirstTimeout

\* The watchdog gives up on a scan only after a whole timeout without progress,
\* although progress may move the deadline while the thread sleeps on the old one.
FiresOnlyOnSilence == [][timedOut' # timedOut => quiet >= Limit]_vars

\* The callback, which holds a reference to runAcquisition's child, never runs
\* when runAcquisition has returned.
CallbackInsideCall == reader = "returned" => dog \notin {"fire", "firing"}

\* finish() reports a timeout exactly when the callback was called for one, and the
\* verdict agrees with the progress it reports: decideRetry trusts all three.  It returns
\* only when the callback, which refers to runAcquisition's child, has ended.
ReportIsTrue ==
  /\ CallbackInsideCall
  /\ reader = "returned" => (result.kind # "none" <=> fires = 1)
  /\ result.kind # "none" => (result.observed <=> result.kind = "stalled")

\* watchdog.h: calling finish() again returns the same value.
FinishIsStable == finished => result = [kind |-> timedOut, observed |-> observed]

\* A watched scan ends, unless progress keeps coming for ever.
WatchedScanEnds == (started ~> reader = "returned") \/ []<>(reader = "marking")

-----------------------------------------------------------------------------
(***************************************************************************)
(* The inductive invariant behind the safety properties above.             *)
(***************************************************************************)
\* The deadline is never sooner than a whole timeout after the last progress.
DeadlineCovers ==
  started /\ timedOut = "none" => left + quiet >= Limit

\* Where the watchdog thread is tells the verdict and whether it was carried out.
DogScope ==
  /\ reader = "launched" => dog = "none" /\ ~started /\ ~observed
  /\ dog # "none" => started
  /\ dog \in {"none", "begin", "waiting"} => timedOut = "none" /\ fires = 0
  /\ dog = "fire" => timedOut # "none" /\ fires = 0
  /\ dog = "firing" => timedOut # "none" /\ fires = 1
  /\ dog = "gone" => (timedOut # "none" <=> fires = 1)
  /\ timedOut # "none" => timedOut = Verdict

FinishScope ==
  /\ finished <=> reader \in {"join", "returned"}
  /\ reader = "returned" => dog \in {"none", "gone"}
  /\ ~finished => result = NoResult

WatchdogInvariant == TypeOK /\ DeadlineCovers /\ DogScope /\ FinishScope /\ FinishIsStable
=============================================================================
