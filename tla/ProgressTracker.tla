-------------------------- MODULE ProgressTracker --------------------------
(***************************************************************************)
(* How runAcquisition finds the progress in what scanimage writes to       *)
(* stderr: drainPipe reads whatever the pipe holds, ProgressTracker joins  *)
(* it to the end of what was read before and counts records, and the       *)
(* watchdog and the host are told (process/progress.cpp, watchdog.cpp).    *)
(*                                                                         *)
(* A text is a sequence of symbols, each a byte or a part of the word      *)
(* "progress", which a read may split.  The driver says of each symbol     *)
(* whether it ends a record, and what fraction (in thousandths) that tells.*)
(***************************************************************************)
EXTENDS Integers, SequencesExt

CONSTANTS Lines,      \* what the driver may write: sequences of [symbol, ends, fraction]
          BufferTail, \* kProgressBufferTail
          PipeSize    \* how much the pipe holds

NoFraction == -1

VARIABLES
  pipe,     \* written, and not yet read
  buffer,   \* buffer_
  update,   \* what the last append returned
  (* history *)
  new,      \* the fractions of the records that ended in the last read
  latest    \* the last fraction of all that was read

vars == <<pipe, buffer, update, new, latest>>

-----------------------------------------------------------------------------
(* progress.cpp, on a text t from position i *)

Digits == <<"0", "1", "2", "3", "4", "5", "6", "7", "8", "9">>
At(t, i, symbols) == i \in DOMAIN t /\ t[i] \in symbols
Spaces == {" ", "CR"}
Points == {".", ","}

\* The first position from i on that has none of the symbols.
Skip(t, i, symbols) ==
  CHOOSE j \in i..(Len(t) + 1) : ~At(t, j, symbols) /\ \A k \in i..(j - 1) : At(t, k, symbols)

SkipSeparator(t, i) ==
  LET colon == Skip(t, i, Spaces)
  IN  IF At(t, colon, {":"}) THEN Skip(t, colon + 1, Spaces) ELSE colon

\* Where the number ends that begins at i, if one does: three digits at most, and a
\* decimal part when it has a digit.
ScanPercentNumber(t, i) ==
  LET digits == Skip(t, i, ToSet(Digits))
      whole  == IF digits > i + 3 THEN i + 3 ELSE digits
  IN  IF whole > i /\ At(t, whole, Points) /\ At(t, whole + 1, ToSet(Digits))
        THEN Skip(t, whole + 1, ToSet(Digits))
        ELSE whole

NoRecord == [end |-> 0, number |-> <<>>]

\* The record that begins at i, if one does.  The form with parentheses has no number.
MatchRecord(t, i) ==
  IF ~(At(t, i, {"prog"}) /\ At(t, i + 1, {"ress"})) THEN NoRecord ELSE
  LET value == SkipSeparator(t, i + 2)
      close == {j \in value..Len(t) : t[j] = ")"}
      stop  == ScanPercentNumber(t, value)
      sign  == Skip(t, stop, Spaces)
  IN  IF At(t, value, {"("})
        THEN IF close = {} THEN NoRecord
             ELSE [end |-> CHOOSE j \in close : \A k \in close : j <= k, number |-> <<>>]
      ELSE IF stop > value /\ At(t, sign, {"%"})
        THEN [end |-> sign, number |-> SubSeq(t, value, stop - 1)]
      ELSE NoRecord

\* Where the records begin.  The search goes on behind a record it has found; one that
\* begins inside another never reaches past its end, so none is hidden by a hidden one.
Records(t) ==
  LET begun == {i \in DOMAIN t : MatchRecord(t, i) # NoRecord}
  IN  {i \in begun : \A j \in begun : j < i => MatchRecord(t, j).end < i}

ProgressRecordCount(t) == Cardinality(Records(t))

\* A number in thousandths, at most the whole; decimals after the first are left out.
Fraction(number) ==
  LET point  == SelectInSeq(number, LAMBDA c : c \in Points)
      shown  == SelectSeq(number, LAMBDA c : c \in ToSet(Digits))
      tenths == FoldLeft(LAMBDA n, c : 10 * n + SelectInSeq(Digits, LAMBDA d : d = c) - 1, 0, shown)
                * (IF point = 0 THEN 10 ELSE 1)
  IN  IF tenths > 1000 THEN 1000 ELSE tenths

Numbered(t) == {i \in Records(t) : MatchRecord(t, i).number # <<>>}

\* Mutant of ProgressFraction: of several numbers the first.
ProgressFractionFirst(t) ==
  LET numbered == Numbered(t)
  IN  IF numbered = {} THEN NoFraction ELSE Fraction(MatchRecord(t, Min(numbered)).number)

ProgressFraction(t) ==
  LET numbered == Numbered(t)
  IN  IF numbered = {} THEN NoFraction ELSE Fraction(MatchRecord(t, Max(numbered)).number)

-----------------------------------------------------------------------------
(* ProgressTracker, and the loop that feeds it *)

\* utf8TailStart: what is left of a character of several bytes is not kept.
TailOf(t) ==
  IF Len(t) <= BufferTail THEN t
  ELSE LET start == Len(t) - BufferTail + 1
           first == Skip(t, start, {"cont"})
       IN  SubSeq(t, IF first > start + 3 THEN start + 3 ELSE first, Len(t))

\* Mutant of AppendChunk: a record that is still in the buffer counts again.
AppendChunkAny(chunk) ==
  LET combined == buffer \o chunk
  IN  /\ update' = [madeProgress |-> ProgressRecordCount(combined) > 0,
                    fraction |-> ProgressFraction(combined)]
      /\ buffer' = TailOf(combined)

AppendChunk(chunk) ==
  LET combined == buffer \o chunk
  IN  /\ update' = [madeProgress |-> ProgressRecordCount(combined) > ProgressRecordCount(buffer),
                    fraction |-> ProgressFraction(combined)]
      /\ buffer' = TailOf(combined)

Init ==
  /\ pipe = <<>> /\ buffer = <<>>
  /\ update = [madeProgress |-> FALSE, fraction |-> NoFraction]
  /\ new = {} /\ latest = NoFraction

\* The driver waits while the pipe is full.
Write ==
  /\ \E line \in Lines : Len(pipe) + Len(line) <= PipeSize /\ pipe' = pipe \o line
  /\ UNCHANGED <<buffer, update, new, latest>>

\* ReadFile returns as much as it likes of what is there.
Read ==
  \E n \in 1..Len(pipe) :
    LET ended == {i \in 1..n : pipe[i].ends}
        told  == {i \in ended : pipe[i].fraction # NoFraction}
    IN  /\ AppendChunk([i \in 1..n |-> pipe[i].symbol])
        /\ pipe' = SubSeq(pipe, n + 1, Len(pipe))
        /\ new' = {pipe[i].fraction : i \in ended}
        /\ latest' = IF told = {} THEN latest ELSE pipe[Max(told)].fraction

Next == Write \/ Read

Spec == Init /\ [][Next]_vars

-----------------------------------------------------------------------------
TypeOK ==
  /\ Len(pipe) <= PipeSize /\ Len(buffer) <= BufferTail
  /\ update \in [madeProgress : BOOLEAN, fraction : {NoFraction} \cup 0..1000]

\* Progress is marked for exactly those reads in which a record came to its end, wherever
\* the reads split it: a record missed is a scan that the watchdog kills or that is made
\* again, and one counted twice is a watchdog that never fires.
RecordsAreSeen == update.madeProgress <=> new # {}

\* The host is told the fraction of the last record that has one, or nothing; and always
\* that of a record that came to its end in this read.
FractionIsLatest ==
  /\ update.fraction \in {NoFraction, latest}
  /\ new \ {NoFraction} # {} => update.fraction = latest

-----------------------------------------------------------------------------
(* What the driver's lines must be like for that, and what follows for the text between *)
(* the buffer's beginning and the pipe's end.                                           *)

Written == [symbol : STRING, ends : BOOLEAN, fraction : {NoFraction} \cup 0..1000]

Symbols(line) == [i \in DOMAIN line |-> line[i].symbol]

RecordsOf(t) == {i \in DOMAIN t : MatchRecord(t, i) # NoRecord}

\* What begins at i will never be a record: no parenthesis is open, and the number it
\* should have is over, with a symbol after it.
IsNone(t, i) ==
  LET value == SkipSeparator(t, i + 2)
  IN  /\ ~At(t, value, {"("})
      /\ Skip(t, ScanPercentNumber(t, value), Spaces) < Len(t)

\* The end of a record says the record's fraction.
Tells(end, number) ==
  /\ end.ends
  /\ end.fraction = IF number = <<>> THEN NoFraction ELSE Fraction(number)
  /\ number = <<>> <=> end.fraction = NoFraction

\* A record fits into the buffer but for its last symbol, and none begins inside another.
FitsBuffer(t) == \A i \in RecordsOf(t) : MatchRecord(t, i).end - i <= BufferTail
IsFlat(t) == \A i, j \in RecordsOf(t) : i < j => MatchRecord(t, i).end < j

\* The text does not stop in what could become a record.
IsSettled(t) ==
  \A i \in DOMAIN t : t[i] = "prog" =>
    i < Len(t) /\ (t[i + 1] = "ress" /\ i \notin RecordsOf(t) => IsNone(t, i))

\* All but the first kept symbols are still unread: the ends of the records among those say
\* that they are, and nothing else does.
EndsAreTold(t, kept, unread) ==
  \A i \in RecordsOf(t) : MatchRecord(t, i).end > kept =>
    Tells(unread[MatchRecord(t, i).end - kept], MatchRecord(t, i).number)

ToldAreEnds(t, kept, unread) ==
  \A p \in DOMAIN unread :
    unread[p].ends => \E i \in RecordsOf(t) : MatchRecord(t, i).end = kept + p

IsWhole(t, kept, unread) ==
  /\ FitsBuffer(t) /\ IsFlat(t) /\ IsSettled(t)
  /\ EndsAreTold(t, kept, unread) /\ ToldAreEnds(t, kept, unread)

\* What is known of the driver: each of its lines is whole.
LinesAreWhole ==
  BufferTail \in Nat /\ \A line \in Lines : line \in Seq(Written) /\ IsWhole(Symbols(line), 0, line)

\* What was kept and what is in the pipe are whole together, and what was kept says nothing
\* newer than the latest fraction.
TrackerInvariant ==
  /\ pipe \in Seq(Written) /\ buffer \in Seq(STRING)
  /\ IsWhole(buffer \o Symbols(pipe), Len(buffer), pipe)
  /\ ProgressFraction(buffer) \in {NoFraction, latest}
  /\ RecordsAreSeen /\ FractionIsLatest
=============================================================================
