------------------------------ MODULE Adapters ------------------------------
(***************************************************************************)
(* Several adapters (main.cpp), each a process that the host starts for    *)
(* one command and may kill: the lock that scans of one scanner share      *)
(* between processes (process/cancel.cpp), the numbered events of a scan   *)
(* (wire/emitter.cpp), and the loop that writes each of them to a pipe     *)
(* which takes a few bytes at a time, fails, or loses its reader           *)
(* (wire/writer.cpp, wire/win_sink.cpp).                                   *)
(*                                                                         *)
(* A line is LineLength bytes.  What the host has read is a sequence of    *)
(* pieces, each one line or the beginning of one that was given up.        *)
(***************************************************************************)
EXTENDS Integers, Sequences

CONSTANTS
  Adapter,      \* the adapter processes
  Key,          \* the scanner IDs of requests
  LineLength,   \* bytes of a line
  MaxStalled,   \* maxStalledAttempts
  MaxProgress   \* bound on the progress events of a scan

None == "none"

ASSUME AdaptersAssumption ==
  /\ None \notin Adapter
  /\ LineLength \in Nat \ {0} /\ MaxStalled \in Nat \ {0} /\ MaxProgress \in Nat

VARIABLES
  command,  \* "scan", or "reply" for detect and capabilities
  key,      \* deviceKey
  pc,       \* where the main thread is
  owner,    \* who holds the mutex of each key
  locked,   \* machineLock_ is set
  busy,     \* scanimage of the adapter may be using the scanner
  next,     \* nextSequence_
  line,     \* the event being written and where writeAll is in it
  code,     \* the exit code that the command has come to, or -1
  written,  \* what the host can read
  reader,   \* whether the host reads its end, reads no more, or has closed it
  (* history *)
  still,    \* attempts since the last byte, of the line being written
  sound     \* no line was given up so far

vars == <<command, key, pc, owner, locked, busy, next, line, code, written, reader, still, sound>>
lock == <<owner, locked, busy>>
stream == <<next, line, written, reader, still, sound>>

NoLine == [event |-> None, seq |-> 0, left |-> 0, stalled |-> 0]
PipeClosed(p) == reader[p] = "closed"
Alive(p) == pc[p] \notin {"exited", "killed"}
Terminal == {"result", "error", "reply"}

Init ==
  /\ command \in [Adapter -> {"scan", "reply"}]
  /\ key \in [Adapter -> Key]
  /\ pc = [p \in Adapter |-> "start"]
  /\ owner = [k \in Key |-> None]
  /\ locked = [p \in Adapter |-> FALSE]
  /\ busy = [p \in Adapter |-> FALSE]
  /\ next = [p \in Adapter |-> 0]
  /\ line = [p \in Adapter |-> NoLine]
  /\ code = [p \in Adapter |-> -1]
  /\ written = [p \in Adapter |-> <<>>]
  /\ reader = [p \in Adapter |-> "reads"]
  /\ still = [p \in Adapter |-> 0]
  /\ sound = [p \in Adapter |-> TRUE]

Goto(p, place) == pc' = [pc EXCEPT ![p] = place]

(***************************************************************************)
(* EventEmitter::emit and writeAll.                                        *)
(***************************************************************************)
\* Mutant of Consumed: the number is taken before the event is encoded.
ConsumedFirst(p) == next' = [next EXCEPT ![p] = @ + 1]

Consumed(p) == UNCHANGED next

\* An event that cannot be encoded takes no number.
Unencodable(p) ==
  /\ Consumed(p)
  /\ UNCHANGED <<line, written, reader, still, sound>>

\* Encode the event and start to write it.
Emit(p, event) ==
  /\ line' = [line EXCEPT ![p] = [event |-> event, seq |-> next[p], left |-> LineLength, stalled |-> 0]]
  /\ next' = [next EXCEPT ![p] = IF event = "reply" THEN @ ELSE @ + 1]
  /\ still' = [still EXCEPT ![p] = 0]
  /\ UNCHANGED <<written, reader, sound>>

\* emitError, and the stderr text of the other commands: exit 1 in any case.
ReportError(p) ==
  /\ code' = [code EXCEPT ![p] = 1]
  /\ \/ command[p] = "scan" /\ Goto(p, "write") /\ Emit(p, "error")
     \/ command[p] = "scan" /\ Goto(p, "exit") /\ Unencodable(p)
     \/ command[p] = "reply" /\ Goto(p, "exit") /\ UNCHANGED stream

Piece(p, whole) == [event |-> line[p].event, seq |-> line[p].seq, whole |-> whole]

\* Give the line up; what has been written of it stays.
GiveUp(p, failed) ==
  /\ line' = [line EXCEPT ![p] = NoLine]
  /\ still' = [still EXCEPT ![p] = 0]
  /\ sound' = [sound EXCEPT ![p] = FALSE]
  /\ written' = [written EXCEPT ![p] =
                   IF line[p].left < LineLength THEN Append(@, Piece(p, FALSE)) ELSE @]
  /\ code' = [code EXCEPT ![p] = IF failed /\ line[p].event = "reply" THEN 1 ELSE @]

\* Where main goes on after writeAll; a scan does not look at what it answered.
Resume(p) == Goto(p, IF line[p].event = "progress" THEN "scan" ELSE "exit")

\* Mutant of WriteSome: progress does not give the stalled attempts back.
WriteSomeSpent(p) ==
  /\ pc[p] = "write" /\ ~PipeClosed(p)
  /\ \E n \in 1..(line[p].left - 1) :
       line' = [line EXCEPT ![p].left = @ - n]
  /\ still' = [still EXCEPT ![p] = 0]
  /\ UNCHANGED <<command, key, pc, lock, next, code, written, reader, sound>>

\* WriteFile took a part of what is left.
WriteSome(p) ==
  /\ pc[p] = "write" /\ ~PipeClosed(p)
  /\ \E n \in 1..(line[p].left - 1) :
       line' = [line EXCEPT ![p].left = @ - n, ![p].stalled = 0]
  /\ still' = [still EXCEPT ![p] = 0]
  /\ UNCHANGED <<command, key, pc, lock, next, code, written, reader, sound>>

WriteRest(p) ==
  /\ pc[p] = "write" /\ ~PipeClosed(p)
  /\ written' = [written EXCEPT ![p] = Append(@, Piece(p, TRUE))]
  /\ line' = [line EXCEPT ![p] = NoLine]
  /\ still' = [still EXCEPT ![p] = 0]
  /\ Resume(p)
  /\ UNCHANGED <<command, key, lock, next, code, reader, sound>>

\* Mutant of WriteStalls: the stalled attempts start over when they are used up.
WriteStallsForever(p) ==
  /\ pc[p] = "write" /\ ~PipeClosed(p)
  /\ line' = [line EXCEPT ![p].stalled = (@ + 1) % MaxStalled]
  /\ still' = [still EXCEPT ![p] = (@ + 1) % MaxStalled]
  /\ UNCHANGED <<command, key, pc, lock, next, code, written, reader, sound>>

\* Nothing was taken: zero bytes, or an error that may pass.
WriteStalls(p) ==
  /\ pc[p] = "write" /\ ~PipeClosed(p)
  /\ \/ /\ line[p].stalled + 1 < MaxStalled
        /\ line' = [line EXCEPT ![p].stalled = @ + 1]
        /\ still' = [still EXCEPT ![p] = @ + 1]
        /\ UNCHANGED <<pc, code, written, sound>>
     \/ /\ line[p].stalled + 1 >= MaxStalled
        /\ GiveUp(p, TRUE) /\ Resume(p)
  /\ UNCHANGED <<command, key, lock, next, reader>>

\* Any other error of WriteFile.
WriteFatal(p) ==
  /\ pc[p] = "write" /\ ~PipeClosed(p)
  /\ GiveUp(p, TRUE) /\ Resume(p)
  /\ UNCHANGED <<command, key, lock, next, reader>>

\* Nobody reads: not an error.
WriteBroken(p) ==
  /\ pc[p] = "write" /\ PipeClosed(p)
  /\ GiveUp(p, FALSE) /\ Resume(p)
  /\ UNCHANGED <<command, key, lock, next, reader>>

Write(p) == WriteSome(p) \/ WriteRest(p) \/ WriteStalls(p) \/ WriteFatal(p) \/ WriteBroken(p)

(***************************************************************************)
(* runDetect and runCapabilities.                                          *)
(***************************************************************************)
Reply(p) ==
  /\ pc[p] = "start" /\ command[p] = "reply"
  /\ \/ ReportError(p)
     \/ code' = [code EXCEPT ![p] = 0] /\ Goto(p, "write") /\ Emit(p, "reply")
  /\ UNCHANGED <<command, key, lock>>

(***************************************************************************)
(* runScan, with beginScanSession and endScanSession.                      *)
(***************************************************************************)
\* A request that cannot be parsed, and has no requestID either.
Unreadable(p) ==
  /\ pc[p] = "start" /\ command[p] = "scan"
  /\ code' = [code EXCEPT ![p] = 1] /\ Goto(p, "exit")
  /\ UNCHANGED <<command, key, lock, stream>>

\* One that has, an invalid one, and a cancellation that came before the session.
Invalid(p) ==
  /\ pc[p] = "start" /\ command[p] = "scan"
  /\ ReportError(p)
  /\ UNCHANGED <<command, key, lock>>

\* The mutex may fail to be created; then there is no lock, and the scan goes on.
BeginUnlocked(p) ==
  /\ pc[p] = "start" /\ command[p] = "scan"
  /\ Goto(p, "scan")
  /\ UNCHANGED <<command, key, lock, stream, code>>

\* Mutant of Available: an abandoned mutex is taken for a held one.
AvailableUnlessHeld(k) == owner[k] = None

\* Mutant of Available: any answer of the wait counts as the lock.
AvailableAlways(k) == TRUE

\* Free, or abandoned by an adapter that died.
Available(k) == ~\E q \in Adapter : owner[k] = q /\ Alive(q)

BeginScanSession(p) ==
  /\ pc[p] = "start" /\ command[p] = "scan"
  /\ Available(key[p])
  /\ owner' = [owner EXCEPT ![key[p]] = p]
  /\ locked' = [locked EXCEPT ![p] = TRUE]
  /\ Goto(p, "scan")
  /\ UNCHANGED <<command, key, busy, stream, code>>

BeginBusy(p) ==
  /\ pc[p] = "start" /\ command[p] = "scan"
  /\ ~Available(key[p])
  /\ ReportError(p)
  /\ UNCHANGED <<command, key, lock>>

ScanimageStarts(p) ==
  /\ pc[p] = "scan" /\ ~busy[p]
  /\ busy' = [busy EXCEPT ![p] = TRUE]
  /\ UNCHANGED <<command, key, pc, owner, locked, stream, code>>

ScanimageEnds(p) ==
  /\ pc[p] = "scan" /\ busy[p]
  /\ busy' = [busy EXCEPT ![p] = FALSE]
  /\ UNCHANGED <<command, key, pc, owner, locked, stream, code>>

\* progress, whatever becomes of the line.
Progress(p) ==
  /\ pc[p] = "scan" /\ next[p] < MaxProgress
  /\ \/ Emit(p, "progress") /\ Goto(p, "write")
     \/ Unencodable(p) /\ UNCHANGED pc
  /\ UNCHANGED <<command, key, lock, code>>

\* endScanSession: the lock is released when Backend::scan returns.
Release(p) ==
  /\ locked' = [locked EXCEPT ![p] = FALSE]
  /\ owner' = IF locked[p] THEN [owner EXCEPT ![key[p]] = None] ELSE owner
  /\ UNCHANGED busy

\* The scan failed, or its outcome is not what was asked for.
ScanFails(p) ==
  /\ pc[p] = "scan" /\ ~busy[p]
  /\ Release(p)
  /\ ReportError(p)
  /\ UNCHANGED <<command, key>>

\* Mutant of ScanSucceeds: a result that cannot be encoded counts as sent.
ScanSucceedsQuietly(p) ==
  /\ pc[p] = "scan" /\ ~busy[p]
  /\ Release(p)
  /\ code' = [code EXCEPT ![p] = 0]
  /\ \/ Goto(p, "write") /\ Emit(p, "result")
     \/ Goto(p, "exit") /\ Unencodable(p)
  /\ UNCHANGED <<command, key>>

ScanSucceeds(p) ==
  /\ pc[p] = "scan" /\ ~busy[p]
  /\ Release(p)
  /\ \/ code' = [code EXCEPT ![p] = 0] /\ Goto(p, "write") /\ Emit(p, "result")
     \/ ReportError(p)
  /\ UNCHANGED <<command, key>>

Exit(p) ==
  /\ pc[p] = "exit"
  /\ Goto(p, "exited")
  /\ UNCHANGED <<command, key, lock, stream, code>>

Main(p) ==
  \/ Write(p) \/ Reply(p) \/ Unreadable(p) \/ Invalid(p) \/ BeginUnlocked(p) \/ BeginScanSession(p)
  \/ BeginBusy(p) \/ ScanimageStarts(p) \/ ScanimageEnds(p) \/ Progress(p) \/ ScanFails(p)
  \/ ScanSucceeds(p) \/ Exit(p)

(***************************************************************************)
(* The host and the system.                                                *)
(***************************************************************************)
\* The part of a line that was written stays; scanimage is left to the job object.
Kill(p) ==
  /\ Alive(p)
  /\ Goto(p, "killed")
  /\ written' = [written EXCEPT ![p] = IF line[p].left \in 1..(LineLength - 1)
                                       THEN Append(@, Piece(p, FALSE)) ELSE @]
  /\ line' = [line EXCEPT ![p] = NoLine]
  /\ UNCHANGED <<command, key, lock, next, code, reader, still, sound>>

JobKills(p) ==
  /\ pc[p] = "killed" /\ busy[p]
  /\ busy' = [busy EXCEPT ![p] = FALSE]
  /\ UNCHANGED <<command, key, pc, owner, locked, stream, code>>

HostCloses(p) ==
  /\ Alive(p) /\ ~PipeClosed(p)
  /\ reader' = [reader EXCEPT ![p] = "closed"]
  /\ UNCHANGED <<command, key, pc, lock, next, line, code, written, still, sound>>

\* It never reads again.  The pipe still takes what it has room for.
HostStops(p) ==
  /\ Alive(p) /\ reader[p] = "reads"
  /\ reader' = [reader EXCEPT ![p] = "stopped"]
  /\ UNCHANGED <<command, key, pc, lock, next, line, code, written, still, sound>>

Host(p) == Kill(p) \/ HostStops(p) \/ HostCloses(p) \/ JobKills(p)

Finished == (\A p \in Adapter : ~Alive(p) /\ ~busy[p]) /\ UNCHANGED vars

Next == (\E p \in Adapter : Main(p) \/ Host(p)) \/ Finished

Spec == Init /\ [][Next]_vars

\* WriteFile waits for room in the pipe (win_sink.cpp:49), and nobody makes any.
Blocked(p) == pc[p] = "write" /\ reader[p] = "stopped"

\* The main thread runs unless it is blocked, scanimage ends, and a scan calls scanimage only
\* finitely often (ScanCommand); the host need not act.
FairSpec ==
  /\ Spec
  /\ \A p \in Adapter : WF_vars(~Blocked(p) /\ Main(p)) /\ SF_vars(ScanFails(p) \/ ScanSucceeds(p))

-----------------------------------------------------------------------------
Line == [event : {None, "progress", "result", "error", "reply"}, seq : Nat, left : 0..LineLength,
         stalled : 0..(MaxStalled - 1)]

TypeOK ==
  /\ command \in [Adapter -> {"scan", "reply"}] /\ key \in [Adapter -> Key]
  /\ pc \in [Adapter -> {"start", "scan", "write", "exit", "exited", "killed"}]
  /\ owner \in [Key -> Adapter \cup {None}]
  /\ locked \in [Adapter -> BOOLEAN] /\ busy \in [Adapter -> BOOLEAN]
  /\ next \in [Adapter -> Nat] /\ line \in [Adapter -> Line]
  /\ code \in [Adapter -> {-1, 0, 1}]
  /\ reader \in [Adapter -> {"reads", "stopped", "closed"}] /\ sound \in [Adapter -> BOOLEAN]
  /\ still \in [Adapter -> Nat]

Scanning(p) == pc[p] = "scan" \/ (pc[p] = "write" /\ line[p].event = "progress")

\* Two scans of one scanner ID never run at once, whichever adapters were killed when;
\* only a scan whose mutex could not be created is outside of this.
OneScanPerKey ==
  \A p, q \in Adapter :
    p # q /\ key[p] = key[q] /\ Scanning(p) /\ Scanning(q) => ~(locked[p] /\ locked[q])

\* A scan is refused as busy only while a live adapter scans under this ID: one that
\* died never blocks the scanner.
BusyIsTrue ==
  [][\A p \in Adapter :
       BeginBusy(p) => \E q \in Adapter \ {p} : key[q] = key[p] /\ locked[q] /\ Scanning(q)]_vars

\* What the host reads of a scan, until a line was given up, is whole events numbered
\* from zero without a gap, and nothing follows a result or an error.
EventsInOrder ==
  \A p \in Adapter :
    /\ command[p] = "scan" /\ sound[p] =>
         \A i \in DOMAIN written[p] :
           /\ written[p][i].seq = i - 1
           /\ ~written[p][i].whole => i = Len(written[p])
    /\ \A i \in DOMAIN written[p] : written[p][i].event \in Terminal => i = Len(written[p])

Ends(p) == IF written[p] = <<>> THEN None ELSE written[p][Len(written[p])].event

\* The exit code and the stream agree: 0 without a line given up comes with the whole
\* result, and 1 never with a result.
ExitMatchesStream ==
  \A p \in Adapter : pc[p] = "exited" =>
    /\ code[p] = 0 /\ sound[p] => Ends(p) \in {"result", "reply"} /\ written[p][Len(written[p])].whole
    /\ code[p] = 1 => Ends(p) # "result" /\ (Ends(p) = "reply" => ~sound[p])

\* The stalled attempts of writeAll are used up only by attempts that followed one
\* another without a byte being taken.
GivesUpOnlyWhenStuck ==
  [][\A p \in Adapter : WriteStalls(p) /\ line'[p] = NoLine => still[p] + 1 = MaxStalled]_vars

\* An adapter ends, also with a sink that answers and takes nothing, unless its host neither
\* reads its events any more nor closes the pipe: then it may wait in WriteFile for ever.
AdapterEnds == \A p \in Adapter : <>~Alive(p) \/ <>[]Blocked(p)
=============================================================================
