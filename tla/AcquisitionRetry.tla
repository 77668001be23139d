-------------------------- MODULE AcquisitionRetry --------------------------
(***************************************************************************)
(* process/acquisition.cpp: what a scan does with the outcome of one       *)
(* acquisition.  An outcome says whether scanimage exited with 0, whether  *)
(* it warned that an option was rounded, whether any progress was seen,    *)
(* which watchdog fired, whether stderr reads like a stale address, and    *)
(* whether a cancellation had been requested when the call ended.          *)
(***************************************************************************)
EXTENDS Integers

Outcomes == [exit0 : BOOLEAN, inexact : BOOLEAN, progress : BOOLEAN,
             kind : {"none", "firstProgress", "stalled"}, stale : BOOLEAN, cancelled : BOOLEAN]

\* What the watchdog promises of its verdicts (Watchdog!ReportIsTrue), for a
\* backend that it watches.
Watched(backend) == backend # "pieusb"

Possible(backend) ==
  {o \in Outcomes : /\ o.kind = "firstProgress" => ~o.progress
                    /\ o.kind = "stalled" => o.progress
                    /\ ~Watched(backend) => o.kind = "none"}

\* A second scan moves the slide on a pieusb scanner.
AttemptCount(backend) == IF backend = "pieusb" THEN 1 ELSE 2

\* The two reasons to scan again: the scanner never answered, or its address was stale.
Hopeful(backend, o) ==
  \/ backend = "genesys" /\ o.kind = "firstProgress"
  \/ ~o.progress /\ o.stale

\* Mutant of DecideRetry: the first attempt is repeated after any stale error.
DecideRetryStale(backend, attempt, total, o) ==
  IF o.cancelled THEN "Fail"
  ELSE IF o.exit0 THEN IF o.inexact THEN "Fail" ELSE "Succeed"
  ELSE IF attempt = 0 /\ total > 1 /\ (o.stale \/ o.kind = "firstProgress") THEN "Retry" ELSE "Fail"

\* Mutant of DecideRetry: the exit code is looked at before the cancellation.
DecideRetryExitFirst(backend, attempt, total, o) ==
  IF o.exit0 THEN IF o.inexact THEN "Fail" ELSE "Succeed"
  ELSE IF o.cancelled THEN "Fail"
  ELSE IF attempt = 0 /\ total > 1 /\ Hopeful(backend, o) THEN "Retry" ELSE "Fail"

DecideRetry(backend, attempt, total, o) ==
  IF o.cancelled THEN "Fail"
  ELSE IF o.exit0 THEN IF o.inexact THEN "Fail" ELSE "Succeed"
  ELSE IF attempt = 0 /\ total > 1 /\ Hopeful(backend, o) THEN "Retry" ELSE "Fail"

\* The error that runSingleAcquisition makes of an outcome it gives up on.
FailureCode(o) ==
  IF o.cancelled THEN "Cancelled"
  ELSE IF o.exit0 THEN "UnsupportedOption"
  ELSE IF o.kind # "none" THEN "Timeout" ELSE "IoFailure"
=============================================================================
