------------------------- MODULE WatchedAcquisition -------------------------
(***************************************************************************)
(* The drain loop of runAcquisition (process/child.cpp): the driver writes *)
(* its progress to the pipe, the main thread reads it through the tracker  *)
(* and marks the progress it finds, and the watchdog judges by the marks.  *)
(* It composes ProgressTracker and Watchdog; a step is one of either.      *)
(***************************************************************************)
EXTENDS Watchdog, Integers, Sequences

CONSTANTS Lines, BufferTail, PipeSize
VARIABLES pipe, buffer, update, new, latest

T == INSTANCE ProgressTracker

ASSUME LinesAssumption == T!LinesAreWhole

tracked == <<pipe, buffer, update, new, latest>>
acquisition == <<vars, tracked>>

AcquisitionInit == Init /\ T!Init

DriverWrites == child = "running" /\ T!Write /\ UNCHANGED vars

ReadChunk ==
  /\ reader = "reading"
  /\ T!Read
  /\ IF update'.madeProgress THEN ReadProgress ELSE UNCHANGED vars

\* EOF comes after all that was written.
EndOfFile == pipe = <<>> /\ ChildIsGone

MainStep == Start \/ MarkProgress \/ EndOfFile \/ Finish \/ Join

\* The rest leaves the pipe and the tracker alone.
Others == MainStep \/ DogLoops \/ DogStep \/ ChildExits \/ Tick

AcquisitionNext ==
  \/ DriverWrites
  \/ ReadChunk
  \/ Others /\ UNCHANGED tracked
  \/ Done /\ UNCHANGED tracked

AcquisitionSpec == AcquisitionInit /\ [][AcquisitionNext]_acquisition

\* What ReadChunk does to the pipe; nothing else takes from it.
Drains == reader = "reading" /\ \E n \in 1..Len(pipe) : pipe' = SubSeq(pipe, n + 1, Len(pipe))

\* The main thread comes back to the pipe as long as something is in it.
FairAcquisition == AcquisitionSpec /\ Fairness /\ WF_pipe(Drains)

-----------------------------------------------------------------------------
\* The tracker reports each record once, in the read that completes it, and the fraction
\* of the last one: child.cpp:614 marks progress, and tells the host, by nothing else.
UpdateIsTrue == T!RecordsAreSeen /\ T!FractionIsLatest
=============================================================================
