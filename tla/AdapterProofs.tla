---------------------------- MODULE AdapterProofs ----------------------------
(***************************************************************************)
(* Adapters for any number of adapters and scanner IDs, every length of a  *)
(* line and every bound on the stalled attempts.                           *)
(***************************************************************************)
EXTENDS Adapters, SequenceTheorems, TLAPS

USE AdaptersAssumption DEF None

Events == Terminal \cup {"progress"}
Pieces == [event : Events, seq : Nat, whole : BOOLEAN]

Typed == TypeOK /\ written \in [Adapter -> Seq(Pieces)]

\* Where an adapter is, the line it writes and the exit code it has come to agree.
Placed(p) ==
  /\ pc[p] = "start" => ~locked[p]
  /\ pc[p] = "scan" => command[p] = "scan"
  /\ pc[p] \in {"start", "scan"} => code[p] = -1
  /\ pc[p] # "write" => line[p] = NoLine
  /\ pc[p] = "write" =>
       /\ line[p].left \in 1..LineLength
       /\ still[p] = line[p].stalled
       /\ <<line[p].event, code[p], command[p]>> \in
            {<<"progress", -1, "scan">>, <<"result", 0, "scan">>, <<"error", 1, "scan">>,
             <<"reply", 0, "reply">>}

\* While no line was given up, the host has as many whole events as numbers were taken,
\* but for the line being written.
Numbered(p) ==
  command[p] = "scan" /\ sound[p] =>
    /\ \A i \in DOMAIN written[p] :
         /\ written[p][i].seq = i - 1
         /\ written[p][i].whole \/ (~Alive(p) /\ i = Len(written[p]))
    /\ pc[p] \in {"start", "scan", "exit"} => next[p] = Len(written[p])
    /\ pc[p] = "write" => next[p] = Len(written[p]) + 1 /\ line[p].seq = Len(written[p])

\* The last event of a command is the last thing it writes.
Closed(p) ==
  \A i \in DOMAIN written[p] :
    written[p][i].event \in Terminal => i = Len(written[p]) /\ pc[p] \in {"exit", "exited", "killed"}

\* What the stream ends with when the exit code is settled.
Told(p) ==
  pc[p] \in {"exit", "exited"} =>
    /\ code[p] = 0 /\ sound[p] =>
         /\ written[p] # <<>>
         /\ Ends(p) \in {"result", "reply"} /\ written[p][Len(written[p])].whole
    /\ code[p] = 1 => Ends(p) # "result" /\ (Ends(p) = "reply" => ~sound[p])

\* A scan that got the lock owns its mutex, and a mutex a live adapter owns is that of its
\* scan.
Owned ==
  /\ \A p \in Adapter : Scanning(p) /\ locked[p] => owner[key[p]] = p
  /\ \A k \in Key, p \in Adapter :
       owner[k] = p /\ Alive(p) => key[p] = k /\ locked[p] /\ Scanning(p)

AdapterInvariant ==
  /\ Typed /\ Owned
  /\ \A p \in Adapter : Placed(p) /\ Numbered(p) /\ Closed(p) /\ Told(p)

-----------------------------------------------------------------------------
(* One step moves one adapter.                                              *)

Kept(q) ==
  /\ command' = command /\ key' = key /\ pc'[q] = pc[q] /\ locked'[q] = locked[q]
  /\ next'[q] = next[q] /\ line'[q] = line[q] /\ code'[q] = code[q]
  /\ written'[q] = written[q] /\ still'[q] = still[q] /\ sound'[q] = sound[q]

\* A step of one adapter leaves the variables of every other one alone.
LEMMA OthersKept ==
  ASSUME Typed, NEW p \in Adapter, NEW q \in Adapter \ {p}, Main(p) \/ Host(p)
  PROVE  Kept(q)
<1> USE DEF Typed, TypeOK, Kept, lock, stream, Goto
<1>1. CASE Write(p)
  BY <1>1 DEF Write, WriteSome, WriteRest, WriteStalls, WriteFatal, WriteBroken, GiveUp, Resume
<1>2. ASSUME ReportError(p), UNCHANGED <<command, key, lock>>
      PROVE  Kept(q)
  BY <1>2 DEF ReportError, Emit, Unencodable, Consumed
<1>3. CASE Reply(p)
  BY <1>2, <1>3 DEF Reply, Emit
<1>4. CASE Unreadable(p) \/ Invalid(p) \/ BeginUnlocked(p) \/ BeginScanSession(p) \/ BeginBusy(p)
  BY <1>2, <1>4 DEF Unreadable, Invalid, BeginUnlocked, BeginScanSession, BeginBusy
<1>5. CASE ScanimageStarts(p) \/ ScanimageEnds(p) \/ Exit(p)
  BY <1>5 DEF ScanimageStarts, ScanimageEnds, Exit
<1>6. CASE Progress(p)
  BY <1>6 DEF Progress, Emit, Unencodable, Consumed
<1>7. CASE ScanFails(p) \/ ScanSucceeds(p)
  BY <1>7 DEF ScanFails, ScanSucceeds, Release, ReportError, Emit, Unencodable, Consumed
<1>8. CASE Host(p)
  BY <1>8 DEF Host, Kill, HostStops, HostCloses, JobKills
<1> QED
  BY <1>1, <1>3, <1>4, <1>5, <1>6, <1>7, <1>8 DEF Main

\* What is kept of an adapter keeps what is known of it.
LEMMA KeptIsKnown ==
  ASSUME NEW q \in Adapter, Kept(q), Placed(q), Numbered(q), Closed(q), Told(q)
  PROVE  Placed(q)' /\ Numbered(q)' /\ Closed(q)' /\ Told(q)'
BY DEF Kept, Placed, Numbered, Closed, Told, Alive, Ends, NoLine

-----------------------------------------------------------------------------
(* Types.                                                                   *)

\* What is written of a line is a piece.
LEMMA PieceType ==
  ASSUME Typed, NEW p \in Adapter, Placed(p), pc[p] = "write", NEW whole \in BOOLEAN
  PROVE  Piece(p, whole) \in Pieces /\ line[p].event \in Events
BY DEF Typed, TypeOK, Placed, Piece, Pieces, Events, Terminal, Line

\* What the host reads stays a sequence of pieces.
LEMMA PieceWritten ==
  ASSUME Typed, NEW p \in Adapter, Placed(p), pc[p] = "write", NEW whole \in BOOLEAN
  PROVE  Append(written[p], Piece(p, whole)) \in Seq(Pieces)
<1>1. written[p] \in Seq(Pieces) /\ Piece(p, whole) \in Pieces
  BY PieceType DEF Typed
<1> QED
  BY <1>1, AppendProperties

\* A piece was added to what the host can read.
Added(p, whole) ==
  LET n == Len(written[p])
  IN /\ DOMAIN written'[p] = 1..(n + 1) /\ Len(written'[p]) = n + 1 /\ written'[p] # <<>>
     /\ \A i \in 1..n : written'[p][i] = written[p][i]
     /\ written'[p][n + 1] = [event |-> line[p].event, seq |-> line[p].seq, whole |-> whole]

\* That is what Append does.
LEMMA AppendAdds ==
  ASSUME Typed, NEW p \in Adapter, Placed(p), pc[p] = "write", NEW whole \in BOOLEAN,
         written'[p] = Append(written[p], Piece(p, whole))
  PROVE  Added(p, whole)
<1>1. written[p] \in Seq(Pieces) /\ Piece(p, whole) \in Pieces
  BY PieceType DEF Typed
<1>2. /\ Append(written[p], Piece(p, whole)) \in Seq(Pieces)
      /\ Append(written[p], Piece(p, whole)) # <<>>
      /\ Len(Append(written[p], Piece(p, whole))) = Len(written[p]) + 1
      /\ \A i \in 1..Len(written[p]) : Append(written[p], Piece(p, whole))[i] = written[p][i]
      /\ Append(written[p], Piece(p, whole))[Len(written[p]) + 1] = Piece(p, whole)
  BY <1>1, AppendProperties
<1>3. DOMAIN written'[p] = 1..Len(written'[p])
  BY <1>2, LenProperties
<1> QED
  BY <1>2, <1>3 DEF Added, Piece

\* Every variable keeps its type, and the host reads a sequence of pieces.
LEMMA StepTyped ==
  ASSUME Typed, NEW p \in Adapter, Placed(p), Main(p) \/ Host(p)
  PROVE  Typed'
<1> USE DEF Typed, TypeOK, lock, stream, Goto
<1>e. ASSUME NEW event \in Events, Emit(p, event)
      PROVE  /\ line' \in [Adapter -> Line] /\ next' \in [Adapter -> Nat]
             /\ still' \in [Adapter -> Nat] /\ written' = written /\ reader' = reader /\ sound' = sound
  BY <1>e DEF Emit, Line, Events, Terminal
<1>n. NoLine \in Line
  BY DEF NoLine, Line
<1>g. ASSUME NEW failed \in BOOLEAN, GiveUp(p, failed), Resume(p), pc[p] = "write"
      PROVE  /\ line' \in [Adapter -> Line] /\ still' \in [Adapter -> Nat]
             /\ sound' \in [Adapter -> BOOLEAN] /\ code' \in [Adapter -> {-1, 0, 1}]
             /\ written' \in [Adapter -> Seq(Pieces)]
             /\ pc' \in [Adapter -> {"start", "scan", "write", "exit", "exited", "killed"}]
  <2>1. Append(written[p], Piece(p, FALSE)) \in Seq(Pieces)
    BY <1>g, PieceWritten
  <2>2. written' \in [Adapter -> Seq(Pieces)]
    BY <1>g, <2>1 DEF GiveUp
  <2> QED
    BY <1>g, <1>n, <2>2 DEF GiveUp, Resume
<1>1. CASE WriteSome(p)
  <2>1. PICK n \in 1..(line[p].left - 1) :
          line' = [line EXCEPT ![p].left = @ - n, ![p].stalled = 0]
    BY <1>1 DEF WriteSome
  <2>2. line[p] \in Line /\ line[p].left - n \in 0..LineLength
    BY <2>1 DEF Line
  <2>3. line'[p] = [event |-> line[p].event, seq |-> line[p].seq, left |-> line[p].left - n,
                    stalled |-> 0]
    BY <2>1, <2>2 DEF Line
  <2>4. line'[p] \in Line
    BY <2>2, <2>3 DEF Line
  <2>5. line' \in [Adapter -> Line]
    BY <2>1, <2>4
  <2> QED
    BY <1>1, <2>5 DEF WriteSome
<1>2. CASE WriteRest(p)
  <2>1. Append(written[p], Piece(p, TRUE)) \in Seq(Pieces)
    BY <1>2, PieceWritten DEF WriteRest
  <2> QED
    BY <1>2, <1>n, <2>1 DEF WriteRest, Resume
<1>3. CASE WriteStalls(p)
  <2>1. CASE GiveUp(p, TRUE) /\ Resume(p)
    BY <1>3, <1>g, <2>1 DEF WriteStalls
  <2>2. CASE ~(GiveUp(p, TRUE) /\ Resume(p))
    <3>1. /\ line[p].stalled + 1 < MaxStalled
          /\ line' = [line EXCEPT ![p].stalled = @ + 1]
          /\ still' = [still EXCEPT ![p] = @ + 1]
          /\ UNCHANGED <<pc, code, written, sound>>
      BY <1>3, <2>2 DEF WriteStalls
    <3>2. line[p] \in Line
      OBVIOUS
    <3>3. line[p].stalled + 1 \in 0..(MaxStalled - 1)
      BY <3>1, <3>2 DEF Line
    <3>4. line'[p] = [line[p] EXCEPT !.stalled = line[p].stalled + 1]
      BY <3>1
    <3>5. line'[p] \in Line
      BY <3>2, <3>3, <3>4 DEF Line
    <3>6. line' \in [Adapter -> Line]
      BY <3>1, <3>5
    <3> QED
      BY <1>3, <3>1, <3>6 DEF WriteStalls
  <2> QED
    BY <2>1, <2>2
<1>4. CASE WriteFatal(p) \/ WriteBroken(p)
  <2>1. CASE WriteFatal(p)
    BY <1>g, <2>1 DEF WriteFatal
  <2>2. CASE WriteBroken(p)
    BY <1>g, <2>2 DEF WriteBroken
  <2> QED
    BY <1>4, <2>1, <2>2
<1>5. ASSUME ReportError(p), UNCHANGED <<command, key, owner>>,
             locked' \in [Adapter -> BOOLEAN], busy' = busy
      PROVE  Typed'
  BY <1>5, <1>e DEF ReportError, Unencodable, Consumed, Events, Terminal
<1>6. CASE Reply(p)
  BY <1>5, <1>6, <1>e DEF Reply, Events, Terminal
<1>7. CASE Unreadable(p) \/ Invalid(p) \/ BeginUnlocked(p) \/ BeginScanSession(p) \/ BeginBusy(p)
  <2>1. CASE Unreadable(p) \/ BeginUnlocked(p)
    BY <2>1 DEF Unreadable, BeginUnlocked
  <2>2. CASE Invalid(p) \/ BeginBusy(p)
    BY <1>5, <2>2 DEF Invalid, BeginBusy
  <2>3. CASE BeginScanSession(p)
    BY <2>3 DEF BeginScanSession
  <2> QED
    BY <1>7, <2>1, <2>2, <2>3
<1>8. CASE ScanimageStarts(p) \/ ScanimageEnds(p) \/ Exit(p)
  BY <1>8 DEF ScanimageStarts, ScanimageEnds, Exit
<1>9. CASE Progress(p)
  BY <1>9, <1>e DEF Progress, Unencodable, Consumed, Events
<1>10. CASE ScanFails(p) \/ ScanSucceeds(p)
  <2>1. owner' \in [Key -> Adapter \cup {None}] /\ locked' \in [Adapter -> BOOLEAN] /\ busy' = busy
    BY <1>10 DEF ScanFails, ScanSucceeds, Release
  <2> QED
    BY <1>10, <1>e, <2>1 DEF ScanFails, ScanSucceeds, ReportError, Unencodable, Consumed, Events,
        Terminal
<1>11. CASE Kill(p)
  <2>1. line[p].left \in 1..(LineLength - 1) => Append(written[p], Piece(p, FALSE)) \in Seq(Pieces)
    <3>1. line[p].left \in 1..(LineLength - 1) => pc[p] = "write"
      BY DEF Placed, NoLine
    <3> QED
      BY <3>1, PieceWritten
  <2>2. written' \in [Adapter -> Seq(Pieces)]
    BY <1>11, <2>1 DEF Kill
  <2>3. line' \in [Adapter -> Line]
    BY <1>11, <1>n DEF Kill
  <2>4. pc' \in [Adapter -> {"start", "scan", "write", "exit", "exited", "killed"}]
    BY <1>11 DEF Kill
  <2>5. UNCHANGED <<command, key, owner, locked, busy, next, code, reader, still, sound>>
    BY <1>11 DEF Kill
  <2> QED
    BY <2>2, <2>3, <2>4, <2>5
<1>12. CASE HostStops(p) \/ HostCloses(p) \/ JobKills(p)
  BY <1>12 DEF HostStops, HostCloses, JobKills
<1> QED
  BY <1>1, <1>2, <1>3, <1>4, <1>6, <1>7, <1>8, <1>9, <1>10, <1>11, <1>12 DEF Main, Write, Host

-----------------------------------------------------------------------------
(* The adapter that takes the step.                                         *)

\* An event is begun where none was under way: the numbers go on.
LEMMA EmitStep ==
  ASSUME Typed, NEW p \in Adapter, Placed(p), Numbered(p), Closed(p),
         pc[p] \in {"start", "scan"}, NEW event \in Events, Emit(p, event),
         event = "reply" <=> command[p] = "reply", UNCHANGED command,
         pc'[p] = "write",
         <<event, code'[p], command[p]>> \in
            {<<"progress", -1, "scan">>, <<"result", 0, "scan">>, <<"error", 1, "scan">>,
             <<"reply", 0, "reply">>}
  PROVE  Placed(p)' /\ Numbered(p)' /\ Closed(p)' /\ Told(p)'
<1> USE DEF Typed, TypeOK
<1>1. /\ line'[p] = [event |-> event, seq |-> next[p], left |-> LineLength, stalled |-> 0]
      /\ next'[p] = (IF event = "reply" THEN next[p] ELSE next[p] + 1)
      /\ still'[p] = 0 /\ UNCHANGED <<written, reader, sound>>
  BY DEF Emit
<1>2. Placed(p)'
  BY <1>1 DEF Placed
<1>3. Numbered(p)'
  <2> SUFFICES ASSUME command'[p] = "scan", sound'[p]
               PROVE  /\ \A i \in DOMAIN written'[p] : /\ written'[p][i].seq = i - 1
                                                       /\ written'[p][i].whole
                      /\ next'[p] = Len(written'[p]) + 1 /\ line'[p].seq = Len(written'[p])
    BY DEF Numbered
  <2>1. /\ \A i \in DOMAIN written[p] : written[p][i].seq = i - 1 /\ written[p][i].whole
        /\ next[p] = Len(written[p])
    BY <1>1 DEF Numbered, Alive
  <2>2. event # "reply"
    OBVIOUS
  <2> QED
    BY <1>1, <2>1, <2>2
<1>4. Closed(p)' /\ Told(p)'
  BY <1>1 DEF Closed, Told
<1> QED
  BY <1>2, <1>3, <1>4

\* An event that cannot be encoded is as if it had not been tried.
LEMMA UnencodableStep ==
  ASSUME Typed, NEW p \in Adapter, Placed(p), Numbered(p), Closed(p),
         pc[p] \in {"start", "scan"}, Unencodable(p), UNCHANGED command,
         \/ pc'[p] = "scan" /\ code'[p] = -1 /\ command[p] = "scan"
         \/ pc'[p] = "exit" /\ code'[p] = 1
  PROVE  Placed(p)' /\ Numbered(p)' /\ Closed(p)' /\ Told(p)'
<1> USE DEF Typed, TypeOK
<1>1. UNCHANGED <<line, next, still, written, sound>>
  BY DEF Unencodable, Consumed
<1>2. Placed(p)' /\ Numbered(p)'
  BY <1>1 DEF Placed, Numbered, Alive
<1>3. Closed(p)'
  BY <1>1 DEF Closed
<1>4. Told(p)'
  <2>1. DOMAIN written[p] = 1..Len(written[p]) /\ Len(written[p]) \in Nat
    BY LenProperties
  <2>2. written[p] # <<>> => Len(written[p]) \in DOMAIN written[p]
    BY <2>1, EmptySeq
  <2>3. Ends(p) \notin {"result", "reply"}
    BY <2>2 DEF Ends, Closed, Terminal
  <2> QED
    BY <1>1, <2>3 DEF Told, Ends
<1> QED
  BY <1>2, <1>3, <1>4

\* A line is finished, or given up and its beginning stays where something was written.
LEMMA LineEnds ==
  ASSUME Typed, NEW p \in Adapter, Placed(p), Numbered(p), Closed(p), pc[p] = "write",
         UNCHANGED <<command, next>>, locked'[p] = locked[p],
         Resume(p), line' = [line EXCEPT ![p] = NoLine],
         NEW whole \in BOOLEAN,
         \/ Added(p, whole) /\ (sound'[p] => whole)
         \/ written'[p] = written[p] /\ ~sound'[p],
         sound'[p] => sound[p],
         code'[p] = code[p] \/ (~sound'[p] /\ line[p].event = "reply" /\ code'[p] = 1)
  PROVE  Placed(p)' /\ Numbered(p)' /\ Closed(p)' /\ Told(p)'
<1>0. /\ pc'[p] = (IF line[p].event = "progress" THEN "scan" ELSE "exit")
      /\ line'[p] = NoLine
      /\ line[p].event \in Events
  BY PieceType DEF Resume, Goto, Typed, TypeOK
<1>1. Len(written[p]) \in Nat /\ DOMAIN written[p] = 1..Len(written[p])
  BY LenProperties
<1>2. \A i \in 1..Len(written[p]) : written[p][i].event \notin Terminal
  BY <1>1 DEF Closed
<1>3. Placed(p)'
  BY <1>0 DEF Placed
<1>4. Numbered(p)'
  <2> SUFFICES ASSUME command[p] = "scan", sound'[p]
               PROVE  /\ \A i \in DOMAIN written'[p] : /\ written'[p][i].seq = i - 1
                                                       /\ written'[p][i].whole
                      /\ next[p] = Len(written'[p])
    BY <1>0 DEF Numbered
  <2>1. Added(p, whole) /\ whole
    OBVIOUS
  <2>2. /\ \A i \in 1..Len(written[p]) : written[p][i].seq = i - 1 /\ written[p][i].whole
        /\ next[p] = Len(written[p]) + 1 /\ line[p].seq = Len(written[p])
    BY <1>1 DEF Numbered, Alive
  <2>3. /\ DOMAIN written'[p] = 1..(Len(written[p]) + 1) /\ Len(written'[p]) = Len(written[p]) + 1
        /\ \A i \in 1..Len(written[p]) : written'[p][i] = written[p][i]
        /\ LET last == written'[p][Len(written[p]) + 1]
           IN last.seq = Len(written[p]) /\ last.whole
    BY <2>1, <2>2 DEF Added
  <2>4. ASSUME NEW i \in DOMAIN written'[p]
        PROVE  written'[p][i].seq = i - 1 /\ written'[p][i].whole
    <3>1. i \in 1..Len(written[p]) \/ i = Len(written[p]) + 1
      BY <1>1, <2>3
    <3>2. Len(written[p]) = (Len(written[p]) + 1) - 1
      BY <1>1
    <3> QED
      BY <2>2, <2>3, <3>1, <3>2
  <2> QED
    BY <2>2, <2>3, <2>4
<1>5. Closed(p)'
  <2>1. CASE written'[p] = written[p]
    BY <1>1, <1>2, <2>1 DEF Closed
  <2>2. CASE Added(p, whole)
    BY <1>0, <1>1, <1>2, <2>2 DEF Added, Closed, Terminal, Events
  <2> QED
    BY <2>1, <2>2
<1>6. Told(p)'
  <2> SUFFICES ASSUME line[p].event # "progress"
               PROVE  Told(p)'
    BY <1>0 DEF Told
  <2>1. <<line[p].event, code[p], command[p]>> \in
            {<<"result", 0, "scan">>, <<"error", 1, "scan">>, <<"reply", 0, "reply">>}
    BY DEF Placed
  <2>2. CASE Added(p, whole) /\ (sound'[p] => whole)
    <3>1. /\ written'[p] # <<>> /\ Ends(p)' = line[p].event
          /\ written'[p][Len(written'[p])].whole = whole
      BY <1>1, <2>2 DEF Ends, Added
    <3> QED
      BY <2>1, <2>2, <3>1 DEF Told
  <2>3. CASE written'[p] = written[p] /\ ~sound'[p]
    <3>1. written[p] # <<>> => Len(written[p]) \in Nat \ {0}
      BY EmptySeq
    <3>2. Ends(p)' \notin Terminal
      BY <1>2, <2>3, <3>1 DEF Ends, Terminal
    <3> QED
      BY <2>3, <3>2 DEF Told, Terminal
  <2> QED
    BY <2>2, <2>3
<1> QED
  BY <1>3, <1>4, <1>5, <1>6

\* The adapter that takes a step keeps its place, its numbers and what it said.
LEMMA StepKnown ==
  ASSUME Typed, NEW p \in Adapter, Main(p) \/ Host(p), Placed(p), Numbered(p), Closed(p), Told(p)
  PROVE  Placed(p)' /\ Numbered(p)' /\ Closed(p)' /\ Told(p)'
<1> USE DEF Typed, TypeOK, lock, stream
<1>1. CASE WriteSome(p)
  <2>1. /\ line'[p].left \in 1..LineLength /\ line'[p].stalled = 0 /\ still'[p] = 0
        /\ line'[p].event = line[p].event /\ line'[p].seq = line[p].seq
    <3>1. line[p] \in Line /\ LineLength \in Nat
      OBVIOUS
    <3>2. PICK n \in 1..(line[p].left - 1) :
            line' = [line EXCEPT ![p].left = @ - n, ![p].stalled = 0]
      BY <1>1 DEF WriteSome
    <3> QED
      BY <1>1, <3>1, <3>2 DEF WriteSome, Line
  <2> QED
    BY <1>1, <2>1 DEF WriteSome, Placed, Numbered, Closed, Told, Ends, Alive
<1>2. CASE WriteRest(p)
  <2>1. Added(p, TRUE)
    BY <1>2, AppendAdds DEF WriteRest
  <2> QED
    BY <1>2, <2>1, LineEnds DEF WriteRest
<1>3. ASSUME NEW failed \in BOOLEAN, GiveUp(p, failed), Resume(p), pc[p] = "write",
             UNCHANGED <<command, key, lock, next, reader>>
      PROVE  Placed(p)' /\ Numbered(p)' /\ Closed(p)' /\ Told(p)'
  <2>1. /\ sound'[p] = FALSE
        /\ line' = [line EXCEPT ![p] = NoLine]
        /\ \/ written'[p] = Append(written[p], Piece(p, FALSE))
           \/ written'[p] = written[p]
        /\ code'[p] = code[p] \/ (line[p].event = "reply" /\ code'[p] = 1)
    BY <1>3 DEF GiveUp
  <2>2. Added(p, FALSE) \/ written'[p] = written[p]
    BY <1>3, <2>1, AppendAdds
  <2> QED
    BY <1>3, <2>1, <2>2, LineEnds
<1>4. CASE WriteStalls(p)
  <2>1. CASE GiveUp(p, TRUE) /\ Resume(p)
    BY <1>3, <1>4, <2>1 DEF WriteStalls
  <2>2. CASE ~(GiveUp(p, TRUE) /\ Resume(p))
    <3>1. /\ line' = [line EXCEPT ![p].stalled = @ + 1]
          /\ still' = [still EXCEPT ![p] = @ + 1]
          /\ UNCHANGED <<pc, code, written, sound, command, lock, next>>
          /\ pc[p] = "write"
      BY <1>4, <2>2 DEF WriteStalls
    <3>2. /\ line'[p].left = line[p].left /\ line'[p].event = line[p].event
          /\ line'[p].seq = line[p].seq /\ line'[p].stalled = line[p].stalled + 1
          /\ still'[p] = still[p] + 1
      BY <3>1 DEF Line
    <3> QED
      BY <3>1, <3>2 DEF Placed, Numbered, Closed, Told, Ends, Alive
  <2> QED
    BY <2>1, <2>2
<1>5. CASE WriteFatal(p)
  BY <1>3, <1>5 DEF WriteFatal
<1>6. CASE WriteBroken(p)
  BY <1>3, <1>6 DEF WriteBroken
<1>7. ASSUME ReportError(p), UNCHANGED <<command, key>>, pc[p] \in {"start", "scan"}
      PROVE  Placed(p)' /\ Numbered(p)' /\ Closed(p)' /\ Told(p)'
  <2>0. code'[p] = 1
    BY <1>7 DEF ReportError
  <2>1. CASE command[p] = "scan" /\ Goto(p, "write") /\ Emit(p, "error")
    BY <1>7, <2>0, <2>1, EmitStep DEF Goto, Events, Terminal
  <2>2. CASE Goto(p, "exit") /\ Unencodable(p)
    BY <1>7, <2>0, <2>2, UnencodableStep DEF Goto
  <2>3. CASE Goto(p, "exit") /\ UNCHANGED stream
    <3>1. Unencodable(p)
      BY <2>3 DEF Unencodable, Consumed
    <3> QED
      BY <1>7, <2>0, <2>3, <3>1, UnencodableStep DEF Goto
  <2> QED
    BY <1>7, <2>1, <2>2, <2>3 DEF ReportError
<1>8. CASE Reply(p)
  <2>1. CASE ReportError(p)
    BY <1>7, <1>8, <2>1 DEF Reply
  <2>2. CASE code' = [code EXCEPT ![p] = 0] /\ Goto(p, "write") /\ Emit(p, "reply")
    BY <1>8, <2>2, EmitStep DEF Reply, Goto, Events, Terminal
  <2> QED
    BY <1>8, <2>1, <2>2 DEF Reply
<1>9. CASE Unreadable(p)
  <2>1. Unencodable(p)
    BY <1>9 DEF Unreadable, Unencodable, Consumed
  <2> QED
    BY <1>9, <2>1, UnencodableStep DEF Unreadable, Goto
<1>10. CASE Invalid(p) \/ BeginBusy(p)
  BY <1>7, <1>10 DEF Invalid, BeginBusy
<1>11. CASE BeginUnlocked(p) \/ BeginScanSession(p)
  <2>1. /\ pc[p] = "start" /\ pc'[p] = "scan" /\ command[p] = "scan"
        /\ UNCHANGED <<command, stream, code>>
    BY <1>11 DEF BeginUnlocked, BeginScanSession, Goto
  <2> QED
    BY <2>1 DEF Placed, Numbered, Closed, Told, Alive
<1>12. CASE ScanimageStarts(p) \/ ScanimageEnds(p) \/ JobKills(p) \/ HostStops(p) \/ HostCloses(p)
  <2>1. UNCHANGED <<command, pc, locked, next, line, code, written, still, sound>>
    BY <1>12 DEF ScanimageStarts, ScanimageEnds, JobKills, HostStops, HostCloses
  <2> QED
    BY <2>1 DEF Placed, Numbered, Closed, Told, Ends, Alive, NoLine
<1>13. CASE Progress(p)
  <2>0. pc[p] = "scan" /\ command[p] = "scan" /\ code[p] = -1 /\ UNCHANGED <<command, code>>
    BY <1>13 DEF Progress, Placed
  <2>1. CASE Emit(p, "progress") /\ Goto(p, "write")
    BY <2>0, <2>1, EmitStep DEF Goto, Events
  <2>2. CASE Unencodable(p) /\ UNCHANGED pc
    BY <2>0, <2>2, UnencodableStep
  <2> QED
    BY <1>13, <2>1, <2>2 DEF Progress
<1>14. CASE ScanFails(p)
  BY <1>7, <1>14 DEF ScanFails
<1>15. CASE ScanSucceeds(p)
  <2>0. pc[p] = "scan" /\ command[p] = "scan" /\ UNCHANGED <<command, key>>
    BY <1>15 DEF ScanSucceeds, Placed
  <2>1. CASE ReportError(p)
    BY <1>7, <2>0, <2>1
  <2>2. CASE code' = [code EXCEPT ![p] = 0] /\ Goto(p, "write") /\ Emit(p, "result")
    BY <2>0, <2>2, EmitStep DEF Goto, Events, Terminal
  <2> QED
    BY <1>15, <2>1, <2>2 DEF ScanSucceeds
<1>16. CASE Exit(p)
  <2>1. pc[p] = "exit" /\ pc'[p] = "exited" /\ UNCHANGED <<command, stream, code, locked>>
    BY <1>16 DEF Exit, Goto
  <2> QED
    BY <2>1 DEF Placed, Numbered, Closed, Told, Ends, Alive
<1>17. CASE Kill(p)
  <2>0. /\ Alive(p) /\ pc'[p] = "killed" /\ line'[p] = NoLine
        /\ UNCHANGED <<command, locked, next, code, still, sound>>
    BY <1>17 DEF Kill, Goto
  <2>1. Placed(p)' /\ Told(p)'
    BY <2>0 DEF Placed, Told
  <2>2. CASE line[p].left \in 1..(LineLength - 1)
    <3>1. pc[p] = "write"
      BY <2>2 DEF Placed, NoLine
    <3>2. Added(p, FALSE)
      BY <1>17, <2>2, <3>1, AppendAdds DEF Kill
    <3>3. Len(written[p]) \in Nat /\ DOMAIN written[p] = 1..Len(written[p])
      BY LenProperties
    <3>4. Numbered(p)'
      BY <2>0, <3>1, <3>2, <3>3 DEF Numbered, Added, Alive
    <3>5. Closed(p)'
      <4>1. \A i \in 1..Len(written[p]) : written[p][i].event \notin Terminal
        BY <3>1, <3>3 DEF Closed
      <4> QED
        <5> SUFFICES ASSUME NEW i \in DOMAIN written'[p], written'[p][i].event \in Terminal
                     PROVE  i = Len(written'[p])
          BY <2>0 DEF Closed
        <5>1. i \in 1..Len(written[p]) => written'[p][i] = written[p][i]
          BY <3>2 DEF Added
        <5>2. i \notin 1..Len(written[p])
          BY <4>1, <5>1
        <5> QED
          BY <3>2, <3>3, <5>2 DEF Added
    <3> QED
      BY <2>1, <3>4, <3>5
  <2>3. CASE line[p].left \notin 1..(LineLength - 1)
    <3>1. UNCHANGED written
      BY <1>17, <2>3 DEF Kill
    <3> QED
      BY <2>0, <2>1, <3>1 DEF Numbered, Closed, Alive
  <2> QED
    BY <2>2, <2>3
<1> QED
  BY <1>1, <1>2, <1>4, <1>5, <1>6, <1>8, <1>9, <1>10, <1>11, <1>12, <1>13, <1>14, <1>15, <1>16,
     <1>17 DEF Main, Write, Host

-----------------------------------------------------------------------------
(* The lock.                                                                *)

\* Scanning depends on the place and the line only.
LEMMA KeptScans ==
  ASSUME NEW q \in Adapter, Kept(q)
  PROVE  Scanning(q)' = Scanning(q) /\ Alive(q)' = Alive(q)
BY DEF Kept, Scanning, Alive

\* An adapter that is not at its start and keeps lock and owners keeps what Owned says, as
\* long as it scans on or is no longer alive.
LEMMA OwnedUnlessLeft ==
  ASSUME Typed, Owned, NEW p \in Adapter, Main(p) \/ Host(p), UNCHANGED <<owner, locked, key>>,
         Scanning(p)' => Scanning(p) \/ ~locked[p],
         Alive(p)' => Alive(p) /\ (Scanning(p) => Scanning(p)')
  PROVE  Owned'
<1>1. \A q \in Adapter \ {p} : Scanning(q)' = Scanning(q) /\ Alive(q)' = Alive(q)
  BY OthersKept, KeptScans
<1> QED
  BY <1>1 DEF Owned

\* A step leaves every mutex with the scan that holds it.
LEMMA StepOwned ==
  ASSUME Typed, Owned, NEW p \in Adapter, Placed(p), Main(p) \/ Host(p)
  PROVE  Owned'
<1> USE DEF Typed, TypeOK, lock
<1>0. \A q \in Adapter \ {p} : /\ Scanning(q)' = Scanning(q) /\ Alive(q)' = Alive(q)
                               /\ locked'[q] = locked[q]
  BY OthersKept, KeptScans DEF Kept
<1>1. CASE Write(p)
  <2>1. UNCHANGED <<owner, locked, key>> /\ pc[p] = "write"
    BY <1>1 DEF Write, WriteSome, WriteRest, WriteStalls, WriteFatal, WriteBroken
  <2>2. \/ pc'[p] = "write" /\ line'[p].event = line[p].event
        \/ Resume(p)
    <3>1. CASE WriteSome(p)
      BY <3>1 DEF WriteSome, Line
    <3>2. CASE WriteStalls(p)
      <4>1. CASE line' = [line EXCEPT ![p].stalled = @ + 1] /\ UNCHANGED pc
        BY <2>1, <4>1 DEF Line
      <4> QED
        BY <3>2, <4>1 DEF WriteStalls
    <3> QED
      BY <1>1, <3>1, <3>2 DEF Write, WriteRest, WriteFatal, WriteBroken
  <2>3. Scanning(p)' = Scanning(p) /\ Alive(p)
    BY <2>1, <2>2 DEF Scanning, Resume, Goto, Alive
  <2> QED
    BY <2>1, <2>3, OwnedUnlessLeft
<1>2. ASSUME ReportError(p), UNCHANGED <<owner, key, locked>>, pc[p] = "start"
      PROVE  Owned'
  <2>1. pc'[p] \in {"write", "exit"} /\ (pc'[p] = "write" => line'[p].event = "error")
    BY <1>2 DEF ReportError, Emit, Goto
  <2>2. ~Scanning(p)' /\ ~Scanning(p) /\ Alive(p)
    BY <1>2, <2>1 DEF Scanning, Alive
  <2> QED
    BY <1>2, <2>2, OwnedUnlessLeft
<1>3. CASE Reply(p)
  <2>1. CASE ReportError(p)
    BY <1>2, <1>3, <2>1 DEF Reply
  <2>2. CASE ~ReportError(p)
    <3>1. UNCHANGED <<owner, key, locked>> /\ pc[p] = "start"
          /\ pc'[p] = "write" /\ line'[p].event = "reply"
      BY <1>3, <2>2 DEF Reply, Emit, Goto
    <3>2. ~Scanning(p)' /\ ~Scanning(p) /\ Alive(p)
      BY <3>1 DEF Scanning, Alive
    <3> QED
      BY <3>1, <3>2, OwnedUnlessLeft
  <2> QED
    BY <2>1, <2>2
<1>4. CASE Invalid(p) \/ BeginBusy(p)
  BY <1>2, <1>4 DEF Invalid, BeginBusy
<1>5. CASE Unreadable(p) \/ BeginUnlocked(p)
  <2>1. UNCHANGED <<owner, key, locked>> /\ pc[p] = "start" /\ ~locked[p]
    BY <1>5 DEF Unreadable, BeginUnlocked, Placed
  <2>2. ~Scanning(p) /\ Alive(p)
    BY <2>1 DEF Scanning, Alive
  <2> QED
    BY <2>1, <2>2, OwnedUnlessLeft
<1>6. CASE BeginScanSession(p)
  <2>1. /\ pc[p] = "start" /\ pc'[p] = "scan" /\ UNCHANGED key
        /\ Available(key[p]) /\ locked'[p]
        /\ owner'[key[p]] = p /\ \A k \in Key \ {key[p]} : owner'[k] = owner[k]
    BY <1>6 DEF BeginScanSession, Goto
  <2>2. Scanning(p)'
    BY <2>1 DEF Scanning
  <2>3. \A q \in Adapter \ {p} : Scanning(q) /\ locked[q] => key[q] # key[p]
    BY <2>1 DEF Owned, Available, Scanning, Alive
  <2>4. \A k \in Key : owner[k] # p
    BY <2>1 DEF Owned, Scanning, Alive
  <2>5. ASSUME NEW q \in Adapter, Scanning(q)', locked'[q]
        PROVE  owner'[key'[q]] = q
    <3>1. CASE q = p
      BY <2>1, <3>1
    <3>2. CASE q # p
      BY <1>0, <2>1, <2>3, <2>5, <3>2 DEF Owned
    <3> QED
      BY <3>1, <3>2
  <2>6. ASSUME NEW k \in Key, NEW q \in Adapter, owner'[k] = q, Alive(q)'
        PROVE  key'[q] = k /\ locked'[q] /\ Scanning(q)'
    <3>1. CASE q = p
      BY <2>1, <2>2, <2>4, <2>6, <3>1
    <3>2. CASE q # p
      BY <1>0, <2>1, <2>6, <3>2 DEF Owned
    <3> QED
      BY <3>1, <3>2
  <2> QED
    BY <2>5, <2>6 DEF Owned
<1>7. CASE ScanimageStarts(p) \/ ScanimageEnds(p) \/ HostStops(p) \/ HostCloses(p) \/ JobKills(p)
  <2>1. UNCHANGED <<owner, locked, key, pc, line>>
    BY <1>7 DEF ScanimageStarts, ScanimageEnds, HostStops, HostCloses, JobKills, stream
  <2>2. Scanning(p)' = Scanning(p) /\ Alive(p)' = Alive(p)
    BY <2>1 DEF Scanning, Alive
  <2> QED
    BY <2>1, <2>2, OwnedUnlessLeft
<1>8. CASE Progress(p)
  <2>1. /\ UNCHANGED <<owner, locked, key>> /\ pc[p] = "scan"
        /\ \/ pc'[p] = "scan"
           \/ pc'[p] = "write" /\ line'[p].event = "progress"
    BY <1>8 DEF Progress, Emit, Goto
  <2>2. Scanning(p)' /\ Scanning(p) /\ Alive(p)
    BY <2>1 DEF Scanning, Alive
  <2> QED
    BY <2>1, <2>2, OwnedUnlessLeft
<1>9. CASE ScanFails(p) \/ ScanSucceeds(p)
  <2>1. Release(p) /\ pc[p] = "scan" /\ UNCHANGED key
    BY <1>9 DEF ScanFails, ScanSucceeds
  <2>2. pc'[p] \in {"write", "exit"} /\ (pc'[p] = "write" => line'[p].event # "progress")
    BY <1>9 DEF ScanFails, ScanSucceeds, ReportError, Emit, Goto
  <2>3. ~Scanning(p)' /\ Scanning(p) /\ Alive(p)
    BY <2>1, <2>2 DEF Scanning, Alive
  <2>4. \A k \in Key : owner'[k] # p /\ owner'[k] \in {owner[k], None}
    BY <2>1, <2>3 DEF Release, Owned
  <2>5. \A q \in Adapter \ {p} : Scanning(q) /\ locked[q] => owner'[key[q]] = q
    BY <2>1, <2>3 DEF Release, Owned
  <2>6. ASSUME NEW k \in Key, NEW q \in Adapter, owner'[k] = q, Alive(q)'
        PROVE  key'[q] = k /\ locked'[q] /\ Scanning(q)'
    <3>1. q # p /\ owner[k] = q
      BY <2>4, <2>6
    <3> QED
      BY <1>0, <2>1, <2>6, <3>1 DEF Owned
  <2>7. ASSUME NEW q \in Adapter, Scanning(q)', locked'[q]
        PROVE  owner'[key'[q]] = q
    BY <1>0, <2>1, <2>3, <2>5, <2>7
  <2> QED
    BY <2>6, <2>7 DEF Owned
<1>10. CASE Exit(p)
  <2>1. UNCHANGED <<owner, locked, key>> /\ pc[p] = "exit" /\ pc'[p] = "exited"
    BY <1>10 DEF Exit, Goto
  <2>2. ~Scanning(p)' /\ ~Alive(p)'
    BY <2>1 DEF Scanning, Alive
  <2> QED
    BY <2>1, <2>2, OwnedUnlessLeft
<1>11. CASE Kill(p)
  <2>1. UNCHANGED <<owner, locked, key>> /\ pc'[p] = "killed"
    BY <1>11 DEF Kill, Goto
  <2>2. ~Scanning(p)' /\ ~Alive(p)'
    BY <2>1 DEF Scanning, Alive
  <2> QED
    BY <2>1, <2>2, OwnedUnlessLeft
<1> QED
  BY <1>1, <1>3, <1>4, <1>5, <1>6, <1>7, <1>8, <1>9, <1>10, <1>11 DEF Main, Host

-----------------------------------------------------------------------------
(* The invariant, and what follows from it.                                 *)

\* The adapters have just been started.
LEMMA InitAdapters == Init => AdapterInvariant
<1> SUFFICES ASSUME Init PROVE AdapterInvariant
  OBVIOUS
<1>1. NoLine \in Line
  BY DEF NoLine, Line
<1>2. \A p \in Adapter : /\ pc[p] = "start" /\ ~locked[p] /\ code[p] = -1 /\ line[p] = NoLine
                         /\ next[p] = 0 /\ written[p] = <<>>
  BY DEF Init
<1>3. Typed
  BY <1>1, EmptySeq DEF Init, Typed, TypeOK
<1>4. Owned
  BY <1>2 DEF Init, Owned, Scanning
<1>5. \A p \in Adapter : Placed(p)
  BY <1>2 DEF Placed
<1>6. \A p \in Adapter : Numbered(p) /\ Closed(p) /\ Told(p)
  <2>1. Len(<<>>) = 0 /\ DOMAIN <<>> = {}
    OBVIOUS
  <2> QED
    BY <1>2, <2>1 DEF Numbered, Closed, Told, Alive
<1> QED
  BY <1>3, <1>4, <1>5, <1>6 DEF AdapterInvariant

\* Every step keeps the invariant.
LEMMA StepAdapters ==
  ASSUME AdapterInvariant, [Next]_vars
  PROVE  AdapterInvariant'
<1>1. CASE UNCHANGED vars
  BY <1>1 DEF AdapterInvariant, Typed, TypeOK, Owned, Placed, Numbered, Closed, Told, Ends,
      Alive, Scanning, vars
<1>2. ASSUME NEW p \in Adapter, Main(p) \/ Host(p)
      PROVE  AdapterInvariant'
  <2>1. Typed' /\ Owned'
    BY <1>2, StepTyped, StepOwned DEF AdapterInvariant
  <2>2. Placed(p)' /\ Numbered(p)' /\ Closed(p)' /\ Told(p)'
    BY <1>2, StepKnown DEF AdapterInvariant
  <2>3. \A q \in Adapter \ {p} : Placed(q)' /\ Numbered(q)' /\ Closed(q)' /\ Told(q)'
    BY <1>2, OthersKept, KeptIsKnown DEF AdapterInvariant
  <2> QED
    BY <2>1, <2>2, <2>3 DEF AdapterInvariant
<1> QED
  BY <1>1, <1>2 DEF Next, Finished

\* The inductive invariant of the adapters holds in every reachable state.
THEOREM AdaptersAreInvariant == Spec => []AdapterInvariant
<1>1. Init => AdapterInvariant
  BY InitAdapters
<1>2. AdapterInvariant /\ [Next]_vars => AdapterInvariant'
  BY StepAdapters
<1> QED
  BY <1>1, <1>2, PTL DEF Spec

\* Every variable keeps its type (Adapters.tla, TypeOK).
THEOREM TypeCorrect == Spec => []TypeOK
<1>1. AdapterInvariant => TypeOK
  BY DEF AdapterInvariant, Typed
<1> QED
  BY <1>1, AdaptersAreInvariant, PTL

\* Two scans that hold the lock of one scanner ID never run at once, whichever adapters were
\* killed when (beginScanSession).
THEOREM MutualExclusion == Spec => []OneScanPerKey
<1>1. AdapterInvariant => OneScanPerKey
  BY DEF AdapterInvariant, Owned, OneScanPerKey
<1> QED
  BY <1>1, AdaptersAreInvariant, PTL

\* Busy is answered only while another live adapter scans under this ID.
THEOREM BusyIsNeverStale == Spec => BusyIsTrue
<1>1. ASSUME AdapterInvariant, NEW p \in Adapter, BeginBusy(p)
      PROVE  \E q \in Adapter \ {p} : key[q] = key[p] /\ locked[q] /\ Scanning(q)
  <2>1. PICK q \in Adapter : owner[key[p]] = q /\ Alive(q)
    BY <1>1 DEF BeginBusy, Available
  <2>2. key[q] = key[p] /\ locked[q] /\ Scanning(q)
    BY <1>1, <2>1 DEF AdapterInvariant, Owned, Typed, TypeOK
  <2>3. ~Scanning(p)
    BY <1>1 DEF BeginBusy, Scanning
  <2> QED
    BY <2>2, <2>3
<1>2. AdapterInvariant /\ [Next]_vars =>
        [\A p \in Adapter :
           BeginBusy(p) => \E q \in Adapter \ {p} : key[q] = key[p] /\ locked[q] /\ Scanning(q)]_vars
  BY <1>1
<1> QED
  BY <1>2, AdaptersAreInvariant, PTL DEF Spec, BusyIsTrue

\* Until a line was given up the host reads whole events numbered from zero without a gap,
\* and nothing follows a result or an error (EventEmitter::emit).
THEOREM StreamInOrder == Spec => []EventsInOrder
<1>1. AdapterInvariant => EventsInOrder
  BY DEF AdapterInvariant, Numbered, Closed, EventsInOrder
<1> QED
  BY <1>1, AdaptersAreInvariant, PTL

\* Exit code and stream agree when an adapter has exited (runScan, runDetect).
THEOREM ExitCodeIsTold == Spec => []ExitMatchesStream
<1>1. AdapterInvariant => ExitMatchesStream
  BY DEF AdapterInvariant, Told, ExitMatchesStream
<1> QED
  BY <1>1, AdaptersAreInvariant, PTL

\* writeAll gives a line up only after the whole budget of stalled attempts in a row.
THEOREM PatienceIsUsedUp == Spec => GivesUpOnlyWhenStuck
<1>1. ASSUME AdapterInvariant, NEW p \in Adapter, WriteStalls(p), line'[p] = NoLine
      PROVE  still[p] + 1 = MaxStalled
  <2>1. /\ pc[p] = "write" /\ still[p] = line[p].stalled
        /\ line[p].stalled \in 0..(MaxStalled - 1)
    BY <1>1 DEF WriteStalls, AdapterInvariant, Placed, Typed, TypeOK, Line
  <2>2. line[p].stalled + 1 >= MaxStalled
    <3>1. CASE line' = [line EXCEPT ![p].stalled = @ + 1]
      <4>1. line'[p].stalled = line[p].stalled + 1
        BY <1>1, <3>1 DEF AdapterInvariant, Typed, TypeOK, Line
      <4>2. line'[p].stalled = 0
        BY <1>1 DEF NoLine
      <4> QED
        BY <2>1, <4>1, <4>2
    <3>2. CASE ~(line' = [line EXCEPT ![p].stalled = @ + 1])
      BY <1>1, <3>2 DEF WriteStalls
    <3> QED
      BY <3>1, <3>2
  <2> QED
    BY <2>1, <2>2
<1>2. AdapterInvariant /\ [Next]_vars =>
        [\A p \in Adapter : WriteStalls(p) /\ line'[p] = NoLine => still[p] + 1 = MaxStalled]_vars
  BY <1>1
<1> QED
  BY <1>2, AdaptersAreInvariant, PTL DEF Spec, GivesUpOnlyWhenStuck
=============================================================================
