--------------------------- MODULE WatchdogProofs ---------------------------
(***************************************************************************)
(* Watchdog for every pair of timeouts: its invariant is inductive, the    *)
(* safety properties follow, and so does that it fires only on silence.    *)
(* The drain loop around it implements it, so all this holds of the loop.  *)
(* The progress tracker in that loop, for any lines that are whole: it     *)
(* counts each record in the read that completes it, and no other.         *)
(***************************************************************************)
EXTENDS WatchedAcquisition, FiniteSetTheorems, SequenceTheorems, WellFoundedInduction, TLAPS

USE TimeoutAssumption

\* The watchdog's invariant holds before the watchdog is started.
LEMMA InitWatchdog == Init => WatchdogInvariant
<1> SUFFICES ASSUME Init PROVE WatchdogInvariant
  OBVIOUS
<1>1. FlagTypeOK /\ PlaceTypeOK
  BY DEF Init, FlagTypeOK, PlaceTypeOK, Kinds, NoResult
<1>2. TimeTypeOK
  BY DEF Init, TimeTypeOK
<1>3. DeadlineCovers /\ DogScope /\ FinishScope /\ FinishIsStable
  BY DEF Init, DeadlineCovers, DogScope, FinishScope, FinishIsStable
<1> QED
  BY <1>1, <1>2, <1>3 DEF WatchdogInvariant, TypeOK

\* Every variable keeps its type: the callback is called at most once, because the
\* thread that calls it ends after it.
LEMMA StepTypeOK ==
  ASSUME WatchdogInvariant, [Next]_vars
  PROVE  TypeOK'
<1>1. FlagTypeOK'
  <2>0. FlagTypeOK
    BY DEF WatchdogInvariant, TypeOK
  <2>1. CASE Finish
    BY <2>0, <2>1 DEF FlagTypeOK, Finish
  <2>2. CASE DogTimesOut
    <3>1. timedOut' \in Kinds
      BY <2>0, <2>2 DEF FlagTypeOK, DogTimesOut, Verdict, Kinds
    <3> QED
      BY <2>0, <2>2, <3>1 DEF FlagTypeOK, DogTimesOut
  <2>3. CASE DogFires
    BY <2>0, <2>3 DEF FlagTypeOK, DogFires
  <2>4. CASE Start \/ MarkProgress
    BY <2>0, <2>4 DEF FlagTypeOK, Start, MarkProgress
  <2>5. CASE UNCHANGED <<started, finished, observed, killed, timedOut, result>>
    BY <2>0, <2>5 DEF FlagTypeOK
  <2> QED
    BY <2>1, <2>2, <2>3, <2>4, <2>5 DEF Next, vars, Done, ReaderStep, ChildIsGone, Join,
        ReadProgress, DogLoops, DogStep, DogReturns, ChildExits, Tick
<1>2. PlaceTypeOK'
  BY DEF WatchdogInvariant, TypeOK, PlaceTypeOK, Next, vars, Done, ReaderStep, Start,
      MarkProgress, ChildIsGone, Finish, Join, ReadProgress, DogLoops, DogStep, DogTimesOut,
      DogFires, DogReturns, Loop, ChildExits, Tick
<1>3. left' \in Nat /\ sleep' \in Nat /\ quiet' \in Nat
  <2>0. left \in Nat /\ sleep \in Nat /\ quiet \in Nat
    BY DEF WatchdogInvariant, TypeOK, TimeTypeOK
  <2>1. CASE Tick
    BY <2>0, <2>1 DEF Tick, Less
  <2>2. CASE UNCHANGED <<left, sleep, quiet>>
    BY <2>0, <2>2
  <2>3. CASE Start \/ MarkProgress
    <3>1. /\ left' \in {left, FirstTimeout, StallTimeout}
          /\ quiet' \in {quiet, 0}
          /\ sleep' = sleep
      BY <2>3 DEF Start, MarkProgress
    <3> QED
      BY <2>0, <3>1
  <2>4. CASE DogLoops \/ DogTimesOut
    <3>1. sleep' \in {sleep, left} /\ left' = left /\ quiet' = quiet
      BY <2>4 DEF DogLoops, DogTimesOut, Loop
    <3> QED
      BY <2>0, <3>1
  <2> QED
    BY <2>1, <2>2, <2>3, <2>4 DEF Next, vars, Done, ReaderStep, ChildIsGone, Finish, Join,
        ReadProgress, DogStep, DogFires, DogReturns, ChildExits
<1>4. fires' \in 0..1
  <2>1. CASE DogFires
    <3>1. fires = 0 /\ fires' = fires + 1
      BY <2>1 DEF DogFires, WatchdogInvariant, DogScope
    <3> QED
      BY <3>1
  <2>2. CASE ~DogFires
    <3>1. fires' = fires
      BY <2>2 DEF Next, vars, Done, ReaderStep, Start, MarkProgress, ChildIsGone, Finish, Join,
          ReadProgress, DogLoops, DogStep, DogTimesOut, DogReturns, ChildExits, Tick
    <3> QED
      BY <3>1 DEF WatchdogInvariant, TypeOK, TimeTypeOK
  <2> QED
    BY <2>1, <2>2
<1> QED
  BY <1>1, <1>2, <1>3, <1>4 DEF TypeOK, TimeTypeOK

\* A tick takes no more from the deadline than it adds to the silence.
LEMMA TickKeepsCover ==
  ASSUME NEW l \in Nat, NEW q \in Nat, NEW l2 \in Nat, NEW q2 \in Nat,
         NEW lim \in Nat, NEW cap \in Nat,
         lim <= cap, l + q >= lim, l2 >= l - 1,
         q2 = q + 1 \/ (q2 = q /\ ~(q <= cap))
  PROVE  l2 + q2 >= lim
<1>1. CASE q2 = q + 1
  BY <1>1
<1>2. CASE q2 = q /\ ~(q <= cap)
  BY <1>2
<1> QED
  BY <1>1, <1>2

\* Progress moves the deadline a whole stall timeout away; time brings it nearer by
\* as much as the silence grows.
LEMMA StepDeadlineCovers ==
  ASSUME WatchdogInvariant, [Next]_vars
  PROVE  DeadlineCovers'
<1> SUFFICES ASSUME started', timedOut' = "none"
             PROVE  left' + quiet' >= Limit'
  BY DEF DeadlineCovers
<1>1. left \in Nat /\ quiet \in Nat /\ left' \in Nat /\ quiet' \in Nat
  BY StepTypeOK DEF WatchdogInvariant, TypeOK, TimeTypeOK
<1>2. Limit \in Nat /\ Limit' \in Nat /\ Limit <= QuietCap
  BY DEF Limit, QuietCap
<1>3. CASE Start /\ ~started
  <2>1. left' = FirstTimeout /\ quiet' = 0 /\ Limit' = FirstTimeout
    BY <1>3 DEF Start, WatchdogInvariant, DogScope, Limit
  <2> QED
    BY <2>1
<1>4. CASE MarkProgress /\ left' = StallTimeout /\ quiet' = 0 /\ observed'
  <2>1. Limit' = StallTimeout
    BY <1>4 DEF Limit
  <2> QED
    BY <1>4, <2>1
<1>5. CASE started /\ timedOut = "none" /\ UNCHANGED <<left, quiet, observed>>
  <2>1. left + quiet >= Limit /\ Limit' = Limit
    BY <1>5 DEF WatchdogInvariant, DeadlineCovers, Limit
  <2> QED
    BY <1>5, <2>1
<1>6. CASE Tick
  <2>1. left + quiet >= Limit /\ Limit' = Limit
    BY <1>6 DEF Tick, WatchdogInvariant, DeadlineCovers, Limit
  <2>2. left' >= left - 1
    BY <1>1, <1>6 DEF Tick, Less
  <2>3. quiet' = quiet + 1 \/ (quiet' = quiet /\ ~(quiet <= QuietCap))
    BY <1>6 DEF Tick
  <2>4. QuietCap \in Nat
    BY DEF QuietCap
  <2>5. left' + quiet' >= Limit
    BY <1>1, <1>2, <2>1, <2>2, <2>3, <2>4, TickKeepsCover, Zenon
  <2> QED
    BY <2>1, <2>5
<1>7. (started /\ timedOut = "none") \/ (Start /\ ~started)
  <2>1. CASE Start
    BY <2>1 DEF Start
  <2>2. CASE DogTimesOut
    BY <2>2 DEF WatchdogInvariant, DogScope, DogTimesOut
  <2>3. CASE UNCHANGED <<started, timedOut>>
    BY <2>3
  <2> QED
    BY <2>1, <2>2, <2>3 DEF Next, vars, Done, ReaderStep, MarkProgress, ChildIsGone, Finish,
        Join, ReadProgress, DogLoops, DogStep, DogFires, DogReturns, ChildExits, Tick
<1>8. CASE Start /\ started
  BY <1>8 DEF WatchdogInvariant, DogScope, Start
<1>9. CASE ~Start /\ ~Tick
  <2>1. \/ UNCHANGED <<left, quiet, observed>>
        \/ MarkProgress /\ left' = StallTimeout /\ quiet' = 0 /\ observed'
    BY <1>9 DEF Next, vars, Done, ReaderStep, MarkProgress, ChildIsGone, Finish, Join,
        ReadProgress, DogLoops, DogStep, DogTimesOut, DogFires, DogReturns, ChildExits
  <2> QED
    BY <1>4, <1>5, <1>7, <1>9, <2>1
<1> QED
  BY <1>3, <1>6, <1>8, <1>9

\* The verdict is given once, before finish() and before the callback, and the main
\* thread waits for the callback.
LEMMA StepScopes ==
  ASSUME WatchdogInvariant, [Next]_vars
  PROVE  DogScope' /\ FinishScope' /\ FinishIsStable'
<1> USE DEF WatchdogInvariant, TypeOK, FlagTypeOK, DogScope, FinishScope, FinishIsStable, Verdict, NoResult
<1>1. CASE Start
  BY <1>1 DEF Start
<1>2. CASE MarkProgress
  BY <1>2 DEF MarkProgress
<1>3. CASE ChildIsGone \/ ReadProgress \/ ChildExits
  BY <1>3 DEF ChildIsGone, ReadProgress, ChildExits
<1>4. CASE Finish
  BY <1>4 DEF Finish
<1>5. CASE Join
  BY <1>5 DEF Join
<1>6. CASE DogLoops
  BY <1>6 DEF DogLoops, Loop
<1>7. CASE DogTimesOut
  BY <1>7 DEF DogTimesOut, Loop
<1>8. CASE DogFires
  BY <1>8 DEF DogFires
<1>9. CASE DogReturns
  BY <1>9 DEF DogReturns
<1>10. CASE Tick
  BY <1>10 DEF Tick
<1>11. CASE UNCHANGED vars
  BY <1>11 DEF vars
<1> QED
  BY <1>1, <1>2, <1>3, <1>4, <1>5, <1>6, <1>7, <1>8, <1>9, <1>10, <1>11
  DEF Next, ReaderStep, DogStep, Done

\* The watchdog's invariant (process/watchdog.cpp) holds in every reachable state,
\* for every first and every stall timeout.
THEOREM WatchdogIsInvariant == Spec => []WatchdogInvariant
<1>1. WatchdogInvariant /\ [Next]_vars => WatchdogInvariant'
  BY StepTypeOK, StepDeadlineCovers, StepScopes DEF WatchdogInvariant
<1> QED
  BY InitWatchdog, <1>1, PTL DEF Spec

\* finish() joins the callback, so no callback runs once runAcquisition returned.
THEOREM CallbackStaysInside == Spec => []CallbackInsideCall
<1>1. WatchdogInvariant => CallbackInsideCall
  BY DEF WatchdogInvariant, FinishScope, CallbackInsideCall
<1> QED
  BY <1>1, WatchdogIsInvariant, PTL

\* finish() reports a timeout exactly when the callback was called for one, and its
\* verdict agrees with the progress it reports; the callback has ended then.
THEOREM ReportsAreTrue == Spec => []ReportIsTrue
<1>1. ASSUME WatchdogInvariant
      PROVE  reader = "returned" => (result.kind # "none" <=> fires = 1)
  BY <1>1 DEF WatchdogInvariant, DogScope, FinishScope, FinishIsStable
<1>2. ASSUME WatchdogInvariant
      PROVE  result.kind # "none" => (result.observed <=> result.kind = "stalled")
  BY <1>2 DEF WatchdogInvariant, TypeOK, FlagTypeOK, DogScope, FinishScope, FinishIsStable,
      NoResult, Verdict
<1> QED
  BY <1>1, <1>2, WatchdogIsInvariant, CallbackStaysInside, PTL DEF ReportIsTrue

\* Whenever the watchdog gives its verdict, a whole timeout has passed without
\* progress, whatever progress did to the deadline while the thread slept.
THEOREM SilenceBeforeVerdict == Spec => FiresOnlyOnSilence
<1>1. WatchdogInvariant /\ [Next]_vars
        => [timedOut' # timedOut
              => quiet >= Limit]_vars
  <2> SUFFICES ASSUME WatchdogInvariant, [Next]_vars, timedOut' # timedOut
               PROVE  quiet >= Limit
    OBVIOUS
  <2>1. dog = "waiting" /\ ~finished /\ left = 0
    BY DEF Next, ReaderStep, DogStep, Done, vars, Start, MarkProgress, ChildIsGone, Finish, Join,
        ReadProgress, DogLoops, DogTimesOut, DogFires, DogReturns, ChildExits, Tick
  <2>2. started /\ timedOut = "none"
    BY <2>1 DEF WatchdogInvariant, DogScope
  <2>3. left + quiet >= Limit
    BY <2>2 DEF WatchdogInvariant, DeadlineCovers
  <2>4. quiet \in Nat
    BY DEF WatchdogInvariant, TypeOK, TimeTypeOK
  <2> QED
    BY <2>1, <2>3, <2>4
<1> QED
  BY <1>1, WatchdogIsInvariant, PTL DEF Spec, FiresOnlyOnSilence

\* runAcquisition's drain loop is the watchdog's reader and the tracker's: each of its
\* steps is one of the watchdog, one of the tracker, or both, and nothing else.
THEOREM LoopImplementsBoth == AcquisitionSpec => Spec /\ T!Spec
<1>1. AcquisitionInit => Init /\ T!Init
  BY DEF AcquisitionInit
<1>2. [AcquisitionNext]_acquisition => [Next]_vars /\ [T!Next]_(T!vars)
  <2> SUFFICES ASSUME [AcquisitionNext]_acquisition
               PROVE  [Next]_vars /\ [T!Next]_(T!vars)
    OBVIOUS
  <2>1. CASE DriverWrites
    BY <2>1 DEF DriverWrites, T!Next
  <2>2. CASE ReadChunk
    BY <2>2 DEF ReadChunk, T!Next, Next
  <2>3. CASE Others /\ UNCHANGED tracked
    <3>1. Next
      BY <2>3 DEF Others, MainStep, EndOfFile, Next, ReaderStep
    <3>2. UNCHANGED T!vars
      BY <2>3 DEF tracked, T!vars
    <3> QED
      BY <3>1, <3>2
  <2>4. CASE Done /\ UNCHANGED tracked
    BY <2>4 DEF Done, tracked, T!vars
  <2>5. CASE UNCHANGED acquisition
    BY <2>5 DEF acquisition, tracked, T!vars
  <2> QED
    BY <2>1, <2>2, <2>3, <2>4, <2>5 DEF AcquisitionNext
<1> QED
  BY <1>1, <1>2, PTL DEF AcquisitionSpec, Spec, T!Spec

\* So the loop gives up on a scan only after a whole timeout without a mark of progress,
\* and believes a true report, whatever the driver writes and however reads split it.
THEOREM LoopIsJust == AcquisitionSpec => []ReportIsTrue /\ FiresOnlyOnSilence
  BY LoopImplementsBoth, ReportsAreTrue, SilenceBeforeVerdict, PTL

-----------------------------------------------------------------------------
(***************************************************************************)
(* The tracker.  Whether a record begins at a place of a text, and where   *)
(* it ends, depends on the symbols up to its end alone; so a text that is  *)
(* cut anywhere, and goes on with anything, has the same records.          *)
(***************************************************************************)
\* A set of numbers has a least one.
LEMMA LeastPlace ==
  ASSUME NEW S, S \subseteq Nat, S # {}
  PROVE  \E i \in S : \A j \in S : i <= j
<1> DEFINE R == OpToRel(<, Nat)
<1>1. PICK i \in S : \A j \in S : ~ (<<j, i>> \in R)
  BY NatLessThanWellFounded, WFMin
<1>2. ASSUME NEW j \in S PROVE i <= j
  <2>1. ~ (<<j, i>> \in R)
    BY <1>1
  <2>2. <<j, i>> \in Nat \X Nat
    OBVIOUS
  <2>3. ~ (j < i)
    BY <2>1, <2>2 DEF OpToRel
  <2> QED
    BY <2>3
<1> QED
  BY <1>2

\* A text has a length, and places from 1 to it.
Text(t) == Len(t) \in Nat /\ DOMAIN t = 1..Len(t)

\* Skip stops at the first place that has none of the symbols, and there is one.
LEMMA SkipPlace ==
  ASSUME NEW t, Text(t), NEW i \in 1..(Len(t) + 1), NEW symbols
  PROVE  LET j == T!Skip(t, i, symbols)
         IN  /\ j \in i..(Len(t) + 1) /\ ~T!At(t, j, symbols)
             /\ \A k \in i..(j - 1) : T!At(t, k, symbols)
<1> DEFINE places == {j \in i..(Len(t) + 1) : ~T!At(t, j, symbols)}
           Stop(j) == ~T!At(t, j, symbols) /\ \A k \in i..(j - 1) : T!At(t, k, symbols)
<1>1. Len(t) + 1 \in places
  BY DEF Text, T!At
<1>2. places \subseteq Nat /\ places # {}
  BY <1>1 DEF Text
<1>3. PICK j \in places : \A k \in places : j <= k
  <2> HIDE DEF places
  <2> QED
    BY <1>2, LeastPlace
<1>4. j \in i..(Len(t) + 1) /\ Stop(j)
  BY <1>3 DEF Text
<1>5. T!Skip(t, i, symbols) = CHOOSE k \in i..(Len(t) + 1) : Stop(k)
  BY DEF T!Skip
<1> HIDE DEF Stop
<1>6. /\ (CHOOSE k \in i..(Len(t) + 1) : Stop(k)) \in i..(Len(t) + 1)
      /\ Stop(CHOOSE k \in i..(Len(t) + 1) : Stop(k))
  BY <1>4
<1> QED
  BY <1>5, <1>6 DEF Stop

\* There is only one.
LEMMA SkipOnly ==
  ASSUME NEW t, Text(t), NEW i \in 1..(Len(t) + 1), NEW symbols,
         NEW j \in i..(Len(t) + 1), ~T!At(t, j, symbols),
         \A k \in i..(j - 1) : T!At(t, k, symbols)
  PROVE  T!Skip(t, i, symbols) = j
<1> DEFINE s == T!Skip(t, i, symbols)
<1>1. /\ s \in i..(Len(t) + 1) /\ ~T!At(t, s, symbols)
      /\ \A k \in i..(s - 1) : T!At(t, k, symbols)
  BY SkipPlace
<1> HIDE DEF s
<1>2. ~(s < j) /\ ~(j < s)
  BY <1>1 DEF Text
<1> QED
  BY <1>1, <1>2 DEF s, Text

\* From i to e the text x has what y has d places further on, and ends only where y does.
Agree(x, y, d, i, e) ==
  \A p \in i..e : /\ p \in DOMAIN x <=> p + d \in DOMAIN y
                  /\ p \in DOMAIN x => x[p] = y[p + d]

\* So Skip stops at the same place.
LEMMA SkipSame ==
  ASSUME NEW x, NEW y, Text(x), Text(y), NEW d \in Int, NEW e \in Int, NEW symbols,
         NEW i \in 1..(Len(x) + 1), i + d \in 1..(Len(y) + 1),
         Agree(x, y, d, i, e), T!Skip(x, i, symbols) <= e
  PROVE  /\ T!Skip(x, i, symbols) + d \in (i + d)..(Len(y) + 1)
         /\ T!Skip(y, i + d, symbols) = T!Skip(x, i, symbols) + d
<1> DEFINE j == T!Skip(x, i, symbols)
<1>1. /\ j \in i..(Len(x) + 1) /\ ~T!At(x, j, symbols)
      /\ \A k \in i..(j - 1) : T!At(x, k, symbols)
  BY SkipPlace
<1>2. j <= e
  OBVIOUS
<1> HIDE DEF j
<1>3. \A k \in i..j : T!At(x, k, symbols) <=> T!At(y, k + d, symbols)
  BY <1>1, <1>2 DEF Agree, T!At, Text
<1>4. ~T!At(y, j + d, symbols)
  BY <1>1, <1>3 DEF Text
<1>5. \A k \in (i + d)..(j + d - 1) : T!At(y, k, symbols)
  <2> SUFFICES ASSUME NEW k \in (i + d)..(j + d - 1) PROVE T!At(y, k, symbols)
    OBVIOUS
  <2>1. k - d \in i..(j - 1) /\ k - d \in i..j /\ (k - d) + d = k
    BY <1>1 DEF Text
  <2>2. T!At(x, k - d, symbols)
    BY <1>1, <2>1
  <2>3. T!At(y, (k - d) + d, symbols)
    BY <1>3, <2>1, <2>2
  <2> QED
    BY <2>1, <2>3
<1>6. j + d \in (i + d)..(Len(y) + 1)
  <2>1. CASE j = i
    BY <1>1, <2>1 DEF Text
  <2>2. CASE j # i
    <3>1. j + d - 1 \in (i + d)..(j + d - 1)
      BY <1>1, <2>2 DEF Text
    <3>2. j + d - 1 \in DOMAIN y
      BY <1>5, <3>1 DEF T!At
    <3> QED
      BY <1>1, <3>2 DEF Text
  <2> QED
    BY <2>1, <2>2
<1>7. T!Skip(y, i + d, symbols) = j + d
  <2> DEFINE a == i + d
             b == j + d
  <2>1. a \in 1..(Len(y) + 1) /\ b \in a..(Len(y) + 1)
    BY <1>6
  <2>2. ~T!At(y, b, symbols)
    BY <1>4
  <2>3. ASSUME NEW k \in a..(b - 1) PROVE T!At(y, k, symbols)
    <3>1. k \in (i + d)..(j + d - 1)
      BY <1>1 DEF Text
    <3> QED
      BY <1>5, <3>1
  <2> HIDE DEF a, b
  <2>4. T!Skip(y, a, symbols) = b
    BY <2>1, <2>2, <2>3, SkipOnly
  <2> QED
    BY <2>4 DEF a, b
<1> QED
  BY <1>6, <1>7 DEF j

LEMMA AgreeAt ==
  ASSUME NEW x, NEW y, Text(x), Text(y), NEW d \in Int, NEW i \in Int, NEW e \in Int,
         Agree(x, y, d, i, e), NEW p \in i..e, NEW symbols
  PROVE  T!At(x, p, symbols) <=> T!At(y, p + d, symbols)
BY DEF Agree, T!At

\* Agreement up to e holds up to every earlier place, and from every later one.
LEMMA AgreePart ==
  ASSUME NEW x, NEW y, NEW d \in Int, NEW i \in Int, NEW e \in Int, Agree(x, y, d, i, e),
         NEW j \in Int, NEW f \in Int, i <= j, f <= e
  PROVE  Agree(x, y, d, j, f)
BY DEF Agree

\* A symbol is found in the text only.
LEMMA AtPlace ==
  ASSUME NEW t, Text(t), NEW p, NEW symbols, T!At(t, p, symbols)
  PROVE  p \in 1..Len(t)
BY DEF T!At, Text

LEMMA SeparatorPlace ==
  ASSUME NEW t, Text(t), NEW i \in 1..(Len(t) + 1)
  PROVE  T!SkipSeparator(t, i) \in i..(Len(t) + 1)
<1> DEFINE colon == T!Skip(t, i, T!Spaces)
<1>1. colon \in i..(Len(t) + 1)
  BY SkipPlace
<1> HIDE DEF colon
<1>2. CASE T!At(t, colon, {":"})
  <2>1. colon + 1 \in 1..(Len(t) + 1)
    BY <1>1, <1>2 DEF T!At, Text
  <2>2. T!Skip(t, colon + 1, T!Spaces) \in (colon + 1)..(Len(t) + 1)
    BY <2>1, SkipPlace
  <2> QED
    BY <1>1, <1>2, <2>2 DEF T!SkipSeparator, colon, Text
<1>3. CASE ~T!At(t, colon, {":"})
  BY <1>1, <1>3 DEF T!SkipSeparator, colon
<1> QED
  BY <1>2, <1>3

LEMMA SeparatorSame ==
  ASSUME NEW x, NEW y, Text(x), Text(y), NEW d \in Int, NEW e \in Int,
         NEW i \in 1..(Len(x) + 1), i + d \in 1..(Len(y) + 1),
         Agree(x, y, d, i, e), T!SkipSeparator(x, i) <= e
  PROVE  T!SkipSeparator(y, i + d) = T!SkipSeparator(x, i) + d
<1> DEFINE colon == T!Skip(x, i, T!Spaces)
           value == T!SkipSeparator(x, i)
<1>1. colon \in i..(Len(x) + 1)
  BY SkipPlace
<1>2. value = IF T!At(x, colon, {":"}) THEN T!Skip(x, colon + 1, T!Spaces) ELSE colon
  BY DEF T!SkipSeparator
<1>3. T!SkipSeparator(y, i + d) =
        IF T!At(y, T!Skip(y, i + d, T!Spaces), {":"})
          THEN T!Skip(y, T!Skip(y, i + d, T!Spaces) + 1, T!Spaces)
          ELSE T!Skip(y, i + d, T!Spaces)
  BY DEF T!SkipSeparator
<1>4. value <= e
  OBVIOUS
<1>5. T!At(x, colon, {":"}) => colon + 1 \in 1..(Len(x) + 1)
  BY <1>1 DEF T!At, Text
<1>6. T!At(x, colon, {":"}) => T!Skip(x, colon + 1, T!Spaces) \in (colon + 1)..(Len(x) + 1)
  BY <1>5, SkipPlace
<1>7. colon \in i..e
  <2> HIDE DEF colon, value
  <2> QED
    BY <1>1, <1>2, <1>4, <1>6 DEF Text
<1>8. /\ colon + d \in (i + d)..(Len(y) + 1)
      /\ T!Skip(y, i + d, T!Spaces) = colon + d
  BY <1>7, SkipSame
<1> HIDE DEF colon, value
<1>9. T!At(x, colon, {":"}) <=> T!At(y, colon + d, {":"})
  BY <1>1, <1>7, AgreeAt DEF Text
<1>10. CASE T!At(x, colon, {":"})
  <2> DEFINE a == colon + 1
  <2>1. a \in 1..(Len(x) + 1) /\ T!Skip(x, a, T!Spaces) = value /\ a + d = colon + d + 1
    BY <1>1, <1>2, <1>5, <1>10 DEF Text
  <2>2. a + d \in 1..(Len(y) + 1)
    BY <1>1, <1>8, <1>9, <1>10, <2>1 DEF T!At, Text
  <2>3. Agree(x, y, d, a, e)
    BY <1>1, <2>1, AgreePart DEF Text
  <2> HIDE DEF a
  <2>4. T!Skip(y, a + d, T!Spaces) = value + d
    BY <1>4, <2>1, <2>2, <2>3, SkipSame
  <2> QED
    BY <1>3, <1>8, <1>9, <1>10, <2>1, <2>4 DEF value
<1>11. CASE ~T!At(x, colon, {":"})
  BY <1>2, <1>3, <1>8, <1>9, <1>11 DEF value
<1> QED
  BY <1>10, <1>11

\* The digits before the point, three at most.
WholePart(t, i) ==
  LET digits == T!Skip(t, i, T!ToSet(T!Digits))
  IN  IF digits > i + 3 THEN i + 3 ELSE digits

LEMMA WholePlace ==
  ASSUME NEW t, Text(t), NEW i \in 1..(Len(t) + 1)
  PROVE  WholePart(t, i) \in i..(Len(t) + 1)
BY SkipPlace DEF WholePart, Text

LEMMA WholeSame ==
  ASSUME NEW x, NEW y, Text(x), Text(y), NEW d \in Int, NEW e \in Int,
         NEW i \in 1..(Len(x) + 1), i + d \in 1..(Len(y) + 1),
         Agree(x, y, d, i, e), WholePart(x, i) <= e
  PROVE  WholePart(y, i + d) = WholePart(x, i) + d
<1> DEFINE D == T!ToSet(T!Digits)
           j == T!Skip(x, i, D)
           k == T!Skip(y, i + d, D)
<1>1. j \in i..(Len(x) + 1) /\ \A p \in i..(j - 1) : T!At(x, p, D)
  BY SkipPlace
<1>2. k \in (i + d)..(Len(y) + 1) /\ ~T!At(y, k, D)
  BY SkipPlace
<1>3. WholePart(x, i) = IF j > i + 3 THEN i + 3 ELSE j
  BY DEF WholePart
<1>4. WholePart(y, i + d) = IF k > i + d + 3 THEN i + d + 3 ELSE k
  BY DEF WholePart
<1>5. CASE j > i + 3
  <2> HIDE DEF D, j, k
  <2>1. i + 3 <= e
    BY <1>3, <1>5
  <2>2. \A p \in i..(i + 3) : T!At(x, p, D)
    BY <1>1, <1>5 DEF Text
  <2>3. \A p \in i..(i + 3) : p \in i..e
    BY <2>1
  <2>4. \A p \in i..(i + 3) : T!At(y, p + d, D)
    BY <2>2, <2>3, AgreeAt
  <2>5. ~(k <= i + d + 3)
    <3> SUFFICES ASSUME k <= i + d + 3 PROVE FALSE
      OBVIOUS
    <3>1. k - d \in i..(i + 3) /\ (k - d) + d = k
      BY <1>2 DEF Text
    <3>2. T!At(y, (k - d) + d, D)
      BY <2>4, <3>1
    <3> QED
      BY <1>2, <3>1, <3>2
  <2> QED
    BY <1>2, <1>3, <1>4, <1>5, <2>5 DEF Text
<1>6. CASE ~(j > i + 3)
  <2>1. j <= e
    BY <1>3, <1>6
  <2>2. k = j + d
    BY <2>1, SkipSame
  <2> HIDE DEF D, j, k
  <2> QED
    BY <1>1, <1>3, <1>4, <1>6, <2>2 DEF Text
<1> QED
  BY <1>5, <1>6

\* The number ends where the whole part does, or behind its decimals.
LEMMA NumberIs ==
  ASSUME NEW t, NEW i
  PROVE  LET whole == WholePart(t, i)
             decimal == whole > i /\ T!At(t, whole, T!Points)
                          /\ T!At(t, whole + 1, T!ToSet(T!Digits))
         IN  T!ScanPercentNumber(t, i) =
               IF decimal THEN T!Skip(t, whole + 1, T!ToSet(T!Digits)) ELSE whole
BY DEF T!ScanPercentNumber, WholePart

LEMMA NumberPlace ==
  ASSUME NEW t, Text(t), NEW i \in 1..(Len(t) + 1)
  PROVE  /\ T!ScanPercentNumber(t, i) \in i..(Len(t) + 1)
         /\ WholePart(t, i) <= T!ScanPercentNumber(t, i)
<1> DEFINE D == T!ToSet(T!Digits)
           whole == WholePart(t, i)
           number == T!ScanPercentNumber(t, i)
           decimal == whole > i /\ T!At(t, whole, T!Points) /\ T!At(t, whole + 1, D)
<1>1. whole \in i..(Len(t) + 1) /\ Len(t) \in Nat
  BY WholePlace DEF Text
<1>2. number = IF decimal THEN T!Skip(t, whole + 1, D) ELSE whole
  BY NumberIs
<1> SUFFICES number \in i..(Len(t) + 1) /\ whole <= number
  OBVIOUS
<1> HIDE DEF D, whole, number
<1>3. CASE decimal
  <2>1. whole \in 1..Len(t)
    BY <1>3, AtPlace
  <2>2. whole + 1 \in 1..(Len(t) + 1)
    BY <1>1, <2>1
  <2>3. T!Skip(t, whole + 1, D) \in (whole + 1)..(Len(t) + 1)
    BY <2>2, SkipPlace
  <2> QED
    BY <1>1, <1>2, <1>3, <2>3
<1>4. CASE ~decimal
  BY <1>1, <1>2, <1>4
<1> QED
  BY <1>3, <1>4

\* Only behind a point does it depend on what comes after it.
LEMMA NumberSame ==
  ASSUME NEW x, NEW y, Text(x), Text(y), NEW d \in Int, NEW e \in Int,
         NEW i \in 1..(Len(x) + 1), i + d \in 1..(Len(y) + 1),
         Agree(x, y, d, i, e), T!ScanPercentNumber(x, i) <= e,
         T!At(x, T!ScanPercentNumber(x, i), T!Points) => T!ScanPercentNumber(x, i) + 1 <= e
  PROVE  T!ScanPercentNumber(y, i + d) = T!ScanPercentNumber(x, i) + d
<1> DEFINE D == T!ToSet(T!Digits)
           number == T!ScanPercentNumber(x, i)
           w == WholePart(x, i)
           v == WholePart(y, i + d)
           xDecimal == w > i /\ T!At(x, w, T!Points) /\ T!At(x, w + 1, D)
           yDecimal == v > i + d /\ T!At(y, v, T!Points) /\ T!At(y, v + 1, D)
<1>1. number = IF xDecimal THEN T!Skip(x, w + 1, D) ELSE w
  BY NumberIs
<1>2. T!ScanPercentNumber(y, i + d) = IF yDecimal THEN T!Skip(y, v + 1, D) ELSE v
  BY NumberIs
<1>3. w \in i..(Len(x) + 1) /\ w <= number /\ number \in i..(Len(x) + 1)
  BY WholePlace, NumberPlace
<1>4. number <= e /\ (T!At(x, number, T!Points) => number + 1 <= e)
  OBVIOUS
<1>5. v = w + d
  <2>1. WholePart(x, i) <= e
    <3> HIDE DEF number, w
    <3>1. w <= e
      BY <1>3, <1>4 DEF Text
    <3> QED
      BY <3>1 DEF w
  <2> QED
    BY <2>1, WholeSame
<1>6. v \in (i + d)..(Len(y) + 1)
  BY WholePlace
<1> SUFFICES T!ScanPercentNumber(y, i + d) = number + d
  OBVIOUS
<1> HIDE DEF D, number, w, v
<1>7. Len(x) \in Nat /\ Len(y) \in Nat /\ i \in Int /\ w \in Int /\ number \in Int
  BY <1>3 DEF Text
<1>8. T!At(x, w, T!Points) => T!At(y, w + d, T!Points)
  <2>1. w \in i..e
    BY <1>3, <1>4, <1>7
  <2> QED
    BY <1>7, <2>1, AgreeAt
<1>9. T!At(y, w + d, T!Points) => T!At(x, w, T!Points)
  <2>1. w \in i..e
    BY <1>3, <1>4, <1>7
  <2> QED
    BY <1>7, <2>1, AgreeAt
<1>10. xDecimal => w + 1 \in 1..(Len(x) + 1) /\ number \in (w + 1)..(Len(x) + 1)
  <2> SUFFICES ASSUME xDecimal
               PROVE  w + 1 \in 1..(Len(x) + 1) /\ number \in (w + 1)..(Len(x) + 1)
    OBVIOUS
  <2>1. w \in 1..Len(x)
    BY AtPlace
  <2>2. w + 1 \in 1..(Len(x) + 1)
    BY <1>7, <2>1
  <2>3. T!Skip(x, w + 1, D) \in (w + 1)..(Len(x) + 1)
    BY <2>2, SkipPlace
  <2> QED
    BY <1>1, <2>2, <2>3
<1>11. T!At(x, w, T!Points) => w + 1 \in i..e
  <2>1. CASE xDecimal
    BY <1>3, <1>4, <1>7, <1>10, <2>1
  <2>2. CASE ~xDecimal
    <3>1. number = w
      BY <1>1, <2>2
    <3> QED
      BY <1>3, <1>4, <1>7, <3>1
  <2> QED
    BY <2>1, <2>2
<1>12. (w + 1) + d = v + 1 /\ (w > i <=> v > i + d)
  BY <1>5, <1>7
<1>13. T!At(x, w, T!Points) => (T!At(x, w + 1, D) <=> T!At(y, v + 1, D))
  <2> SUFFICES ASSUME T!At(x, w, T!Points) PROVE T!At(x, w + 1, D) <=> T!At(y, v + 1, D)
    OBVIOUS
  <2> DEFINE a == w + 1
  <2>1. a \in i..e /\ a + d = v + 1
    BY <1>11, <1>12
  <2> HIDE DEF a
  <2>2. T!At(x, a, D) <=> T!At(y, a + d, D)
    BY <1>7, <2>1, AgreeAt
  <2> QED
    BY <2>1, <2>2 DEF a
<1>14. xDecimal <=> yDecimal
  BY <1>5, <1>8, <1>9, <1>12, <1>13
<1>15. CASE xDecimal
  <2> DEFINE a == w + 1
  <2>1. a \in 1..(Len(x) + 1) /\ T!Skip(x, a, D) = number /\ a + d = v + 1
    BY <1>1, <1>10, <1>12, <1>15
  <2>2. v \in 1..Len(y)
    BY <1>14, <1>15, AtPlace
  <2>3. a + d \in 1..(Len(y) + 1)
    BY <1>7, <2>1, <2>2
  <2>4. Agree(x, y, d, a, e)
    BY <1>3, <1>7, AgreePart
  <2> HIDE DEF a
  <2>5. T!Skip(y, a + d, D) = number + d
    BY <1>4, <2>1, <2>3, <2>4, SkipSame
  <2>6. T!ScanPercentNumber(y, i + d) = T!Skip(y, v + 1, D)
    BY <1>2, <1>14, <1>15
  <2> QED
    BY <2>1, <2>5, <2>6
<1>16. CASE ~xDecimal
  <2>1. number = w
    BY <1>1, <1>16
  <2>2. T!ScanPercentNumber(y, i + d) = v
    BY <1>2, <1>14, <1>16
  <2> QED
    BY <1>5, <2>1, <2>2
<1> QED
  BY <1>15, <1>16

-----------------------------------------------------------------------------
(***************************************************************************)
(* A record by its parts.                                                  *)
(***************************************************************************)
Begins(t, i) == T!At(t, i, {"prog"}) /\ T!At(t, i + 1, {"ress"})
ValueAt(t, i) == T!SkipSeparator(t, i + 2)
NumberEnd(t, i) == T!ScanPercentNumber(t, ValueAt(t, i))
SignAt(t, i) == T!Skip(t, NumberEnd(t, i), T!Spaces)
Opens(t, i) == T!At(t, ValueAt(t, i), {"("})
Closes(t, i) == {j \in ValueAt(t, i)..Len(t) : t[j] = ")"}
IsPercent(t, i) == NumberEnd(t, i) > ValueAt(t, i) /\ T!At(t, SignAt(t, i), {"%"})

LEMMA MatchParts ==
  ASSUME NEW t, NEW i
  PROVE  T!MatchRecord(t, i) =
           IF ~Begins(t, i) THEN T!NoRecord
           ELSE IF Opens(t, i)
             THEN IF Closes(t, i) = {} THEN T!NoRecord
                  ELSE [end |-> CHOOSE j \in Closes(t, i) : \A k \in Closes(t, i) : j <= k,
                        number |-> <<>>]
           ELSE IF IsPercent(t, i)
             THEN [end |-> SignAt(t, i), number |-> SubSeq(t, ValueAt(t, i), NumberEnd(t, i) - 1)]
           ELSE T!NoRecord
BY DEF T!MatchRecord, Begins, Opens, Closes, IsPercent, ValueAt, NumberEnd, SignAt

\* The parts follow one another.
LEMMA PartPlaces ==
  ASSUME NEW t, Text(t), NEW i, Begins(t, i)
  PROVE  /\ i \in 1..Len(t) /\ i + 1 \in 1..Len(t) /\ i + 2 \in 1..(Len(t) + 1)
         /\ ValueAt(t, i) \in (i + 2)..(Len(t) + 1)
         /\ NumberEnd(t, i) \in ValueAt(t, i)..(Len(t) + 1)
         /\ SignAt(t, i) \in NumberEnd(t, i)..(Len(t) + 1)
         /\ Len(t) \in Nat
<1>1. i \in 1..Len(t) /\ i + 1 \in 1..Len(t) /\ Len(t) \in Nat
  BY AtPlace DEF Begins, Text
<1>2. i + 2 \in 1..(Len(t) + 1)
  BY <1>1
<1>3. ValueAt(t, i) \in (i + 2)..(Len(t) + 1)
  BY <1>2, SeparatorPlace DEF ValueAt
<1>4. ValueAt(t, i) \in 1..(Len(t) + 1)
  BY <1>1, <1>3
<1>5. NumberEnd(t, i) \in ValueAt(t, i)..(Len(t) + 1)
  BY <1>4, NumberPlace DEF NumberEnd
<1>6. NumberEnd(t, i) \in 1..(Len(t) + 1)
  BY <1>1, <1>4, <1>5
<1>7. SignAt(t, i) \in NumberEnd(t, i)..(Len(t) + 1)
  BY <1>6, SkipPlace DEF SignAt
<1> QED
  BY <1>1, <1>2, <1>3, <1>5, <1>7

\* A record ends behind its beginning and inside the text.
LEMMA RecordPlace ==
  ASSUME NEW t, Text(t), NEW i, T!MatchRecord(t, i) # T!NoRecord
  PROVE  /\ Begins(t, i) /\ i \in 1..Len(t)
         /\ T!MatchRecord(t, i).end \in (i + 2)..Len(t)
<1>1. Begins(t, i)
  BY MatchParts
<1> DEFINE value == ValueAt(t, i)
           stop == NumberEnd(t, i)
           sign == SignAt(t, i)
<1>2. /\ i \in 1..Len(t) /\ value \in (i + 2)..(Len(t) + 1) /\ stop \in value..(Len(t) + 1)
      /\ sign \in stop..(Len(t) + 1) /\ Len(t) \in Nat
  BY <1>1, PartPlaces
<1>3. CASE Opens(t, i)
  <2> DEFINE close == Closes(t, i)
             first == CHOOSE j \in close : \A k \in close : j <= k
  <2>1. close # {} /\ T!MatchRecord(t, i) = [end |-> first, number |-> <<>>]
    BY <1>1, <1>3, MatchParts
  <2>2. close \subseteq value..Len(t)
    BY DEF Closes
  <2> HIDE DEF value, stop, sign, close
  <2>3. close \subseteq Nat
    BY <1>2, <2>2
  <2>4. first \in close
    BY <2>1, <2>3, LeastPlace
  <2> HIDE DEF first
  <2>5. first \in (i + 2)..Len(t)
    BY <1>2, <2>2, <2>4
  <2> QED
    BY <1>1, <1>2, <2>1, <2>5
<1>4. CASE ~Opens(t, i)
  <2>1. T!MatchRecord(t, i) = [end |-> sign, number |-> SubSeq(t, value, stop - 1)]
        /\ T!At(t, sign, {"%"})
    BY <1>1, <1>4, MatchParts DEF IsPercent
  <2>2. T!MatchRecord(t, i).end = sign
    BY <2>1
  <2> HIDE DEF value, stop, sign
  <2>3. sign \in 1..Len(t)
    BY <2>1, AtPlace
  <2> QED
    BY <1>1, <1>2, <2>2, <2>3
<1> QED
  BY <1>3, <1>4

\* Agreement on what is looked at makes the parts the same: the beginning and the value,
LEMMA ValueSame ==
  ASSUME NEW x, NEW y, Text(x), Text(y), NEW d \in Int, NEW e \in Int,
         NEW i, Begins(x, i), i + d >= 1, Agree(x, y, d, i, e), ValueAt(x, i) <= e
  PROVE  /\ Begins(y, i + d) /\ ValueAt(y, i + d) = ValueAt(x, i) + d
         /\ Opens(y, i + d) <=> Opens(x, i)
<1> DEFINE value == ValueAt(x, i)
<1>1. /\ i \in 1..Len(x) /\ i + 1 \in 1..Len(x) /\ i + 2 \in 1..(Len(x) + 1)
      /\ value \in (i + 2)..(Len(x) + 1) /\ Len(x) \in Nat /\ value <= e
  BY PartPlaces
<1> HIDE DEF value
<1>2. i \in i..e /\ i + 1 \in i..e /\ value \in i..e /\ i + 2 <= e
  BY <1>1
<1>3. T!At(y, i + d, {"prog"}) /\ T!At(y, (i + 1) + d, {"ress"})
  BY <1>1, <1>2, AgreeAt DEF Begins
<1>4. Begins(y, i + d)
  BY <1>1, <1>3 DEF Begins
<1>5. ValueAt(y, i + d) = value + d
  <2> DEFINE j == i + 2
  <2>1. j \in 1..(Len(x) + 1) /\ T!SkipSeparator(x, j) = value /\ (i + d) + 2 = j + d
    BY <1>1 DEF ValueAt, value
  <2>2. j + d \in 1..(Len(y) + 1)
    BY <1>1, <1>4, <2>1, PartPlaces
  <2>3. Agree(x, y, d, j, e)
    BY <1>1, AgreePart
  <2> HIDE DEF j
  <2>4. T!SkipSeparator(y, j + d) = value + d
    BY <1>1, <2>1, <2>2, <2>3, SeparatorSame
  <2> QED
    BY <2>1, <2>4 DEF ValueAt
<1>6. T!At(x, value, {"("}) <=> T!At(y, value + d, {"("})
  BY <1>1, <1>2, AgreeAt
<1>7. Opens(y, i + d) <=> Opens(x, i)
  BY <1>5, <1>6 DEF Opens, value
<1> QED
  BY <1>4, <1>5, <1>7 DEF value

\* and the number and the sign behind it.
LEMMA SignSame ==
  ASSUME NEW x, NEW y, Text(x), Text(y), NEW d \in Int, NEW e \in Int,
         NEW i, Begins(x, i), i + d >= 1, Agree(x, y, d, i, e), SignAt(x, i) <= e,
         T!At(x, NumberEnd(x, i), T!Points) => NumberEnd(x, i) + 1 <= e
  PROVE  /\ NumberEnd(y, i + d) = NumberEnd(x, i) + d
         /\ SignAt(y, i + d) = SignAt(x, i) + d
         /\ IsPercent(y, i + d) <=> IsPercent(x, i)
<1> DEFINE value == ValueAt(x, i)
           stop == NumberEnd(x, i)
           sign == SignAt(x, i)
<1>1. /\ i \in 1..Len(x) /\ value \in (i + 2)..(Len(x) + 1) /\ stop \in value..(Len(x) + 1)
      /\ sign \in stop..(Len(x) + 1) /\ Len(x) \in Nat /\ sign <= e
  BY PartPlaces
<1>2. T!At(x, stop, T!Points) => stop + 1 <= e
  OBVIOUS
<1>3. T!ScanPercentNumber(x, value) = stop /\ T!Skip(x, stop, T!Spaces) = sign
  BY DEF NumberEnd, SignAt
<1> HIDE DEF value, stop, sign
<1>4. value \in 1..(Len(x) + 1) /\ stop \in 1..(Len(x) + 1) /\ value <= e /\ stop <= e
  BY <1>1
<1>5. Begins(y, i + d) /\ ValueAt(y, i + d) = value + d
  BY <1>4, ValueSame DEF value
<1>6. value + d \in 1..(Len(y) + 1)
  <2>1. ValueAt(y, i + d) \in ((i + d) + 2)..(Len(y) + 1)
    BY <1>5, PartPlaces
  <2> QED
    BY <1>1, <1>5, <2>1
<1>7. Agree(x, y, d, value, e) /\ Agree(x, y, d, stop, e)
  BY <1>1, AgreePart
<1>8. T!ScanPercentNumber(y, value + d) = stop + d
  BY <1>2, <1>3, <1>4, <1>6, <1>7, NumberSame
<1>9. NumberEnd(y, i + d) = stop + d
  BY <1>5, <1>8 DEF NumberEnd
<1>10. stop + d \in 1..(Len(y) + 1)
  <2>1. NumberEnd(y, i + d) \in ValueAt(y, i + d)..(Len(y) + 1) /\ Len(y) \in Nat
    BY <1>5, PartPlaces
  <2> QED
    BY <1>1, <1>5, <1>6, <1>9, <2>1
<1>11. T!Skip(y, stop + d, T!Spaces) = sign + d
  <2>1. T!Skip(x, stop, T!Spaces) <= e
    BY <1>1, <1>3
  <2>2. T!Skip(y, stop + d, T!Spaces) = T!Skip(x, stop, T!Spaces) + d
    BY <1>4, <1>7, <1>10, <2>1, SkipSame
  <2> QED
    BY <1>3, <2>2
<1>12. SignAt(y, i + d) = sign + d
  BY <1>9, <1>11 DEF SignAt
<1>13. T!At(x, sign, {"%"}) <=> T!At(y, sign + d, {"%"})
  <2>1. sign \in i..e
    BY <1>1
  <2> QED
    BY <1>1, <2>1, AgreeAt
<1>14. stop > value <=> stop + d > value + d
  BY <1>1
<1>15. IsPercent(y, i + d) <=> IsPercent(x, i)
  BY <1>5, <1>9, <1>12, <1>13, <1>14 DEF IsPercent, value, stop, sign
<1> QED
  BY <1>9, <1>12, <1>15 DEF stop, sign

LEMMA SubSeqSame ==
  ASSUME NEW x, NEW y, NEW d \in Int, NEW a \in Int, NEW b \in Int,
         \A p \in a..b : x[p] = y[p + d]
  PROVE  SubSeq(x, a, b) = SubSeq(y, a + d, b + d)
<1> DEFINE S == {x[p] : p \in a..b}
<1>1. \A p \in a..b : x[p] \in S
  OBVIOUS
<1>2. \A p \in (a + d)..(b + d) : y[p] \in S
  <2> SUFFICES ASSUME NEW p \in (a + d)..(b + d) PROVE y[p] \in S
    OBVIOUS
  <2>1. p - d \in a..b /\ (p - d) + d = p
    OBVIOUS
  <2> QED
    BY <1>1, <2>1
<1> HIDE DEF S
<1>3. /\ SubSeq(x, a, b) \in Seq(S)
      /\ Len(SubSeq(x, a, b)) = IF a <= b THEN b - a + 1 ELSE 0
      /\ \A i \in 1..(b - a + 1) : SubSeq(x, a, b)[i] = x[a + i - 1]
  BY <1>1, SubSeqProperties
<1>4. /\ SubSeq(y, a + d, b + d) \in Seq(S)
      /\ Len(SubSeq(y, a + d, b + d)) = IF a <= b THEN b - a + 1 ELSE 0
      /\ \A i \in 1..(b - a + 1) : SubSeq(y, a + d, b + d)[i] = y[a + d + i - 1]
  <2> DEFINE f == a + d
             g == b + d
  <2>1. f \in Int /\ g \in Int /\ g - f + 1 = b - a + 1 /\ (f <= g <=> a <= b)
    OBVIOUS
  <2>2. \A p \in f..g : y[p] \in S
    BY <1>2
  <2> HIDE DEF f, g
  <2>3. /\ SubSeq(y, f, g) \in Seq(S)
        /\ Len(SubSeq(y, f, g)) = IF f <= g THEN g - f + 1 ELSE 0
        /\ \A i \in 1..(g - f + 1) : SubSeq(y, f, g)[i] = y[f + i - 1]
    BY <2>1, <2>2, SubSeqProperties
  <2> QED
    BY <2>1, <2>3 DEF f, g
<1>5. \A i \in 1..(b - a + 1) : x[a + i - 1] = y[a + d + i - 1]
  <2> SUFFICES ASSUME NEW i \in 1..(b - a + 1) PROVE x[a + i - 1] = y[a + d + i - 1]
    OBVIOUS
  <2>1. a + i - 1 \in a..b /\ (a + i - 1) + d = a + d + i - 1
    OBVIOUS
  <2> QED
    BY <2>1
<1>6. \A i \in 1..Len(SubSeq(x, a, b)) : SubSeq(x, a, b)[i] = SubSeq(y, a + d, b + d)[i]
  BY <1>3, <1>4, <1>5
<1> QED
  BY <1>3, <1>4, <1>6, SeqEqual

LEMMA PercentIsNoPoint == "%" \notin T!Points
BY Zenon DEF T!Points

\* So a record of one text is one of the other, if they agree up to its end.
LEMMA RecordSame ==
  ASSUME NEW x, NEW y, Text(x), Text(y), NEW d \in Int, NEW e \in Int,
         NEW i, T!MatchRecord(x, i) # T!NoRecord, i + d >= 1, Agree(x, y, d, i, e),
         T!MatchRecord(x, i).end <= e
  PROVE  T!MatchRecord(y, i + d) =
           [end |-> T!MatchRecord(x, i).end + d, number |-> T!MatchRecord(x, i).number]
<1> DEFINE r == T!MatchRecord(x, i)
           value == ValueAt(x, i)
           stop == NumberEnd(x, i)
           sign == SignAt(x, i)
<1>1. Begins(x, i) /\ i \in 1..Len(x) /\ r.end \in (i + 2)..Len(x) /\ r.end <= e
  BY RecordPlace
<1>2. /\ i \in 1..Len(x) /\ value \in (i + 2)..(Len(x) + 1) /\ stop \in value..(Len(x) + 1)
      /\ sign \in stop..(Len(x) + 1) /\ Len(x) \in Nat
  BY <1>1, PartPlaces
<1>3. CASE Opens(x, i)
  <2> DEFINE close == Closes(x, i)
             first == CHOOSE j \in close : \A k \in close : j <= k
             others == Closes(y, i + d)
  <2>1. close # {} /\ r = [end |-> first, number |-> <<>>]
    BY <1>1, <1>3, MatchParts
  <2>2. close = {j \in value..Len(x) : x[j] = ")"}
    BY DEF Closes
  <2> HIDE DEF value, stop, sign, close, r
  <2>3. close \subseteq Nat
    BY <1>2, <2>2
  <2>4. first \in close /\ \A k \in close : first <= k
    BY <2>1, <2>3, LeastPlace
  <2> HIDE DEF first
  <2>5. r.end = first /\ r.number = <<>> /\ first \in value..Len(x) /\ x[first] = ")"
    BY <2>1, <2>2, <2>4
  <2>6. value <= e
    BY <1>1, <1>2, <2>5
  <2>7. Begins(y, i + d) /\ ValueAt(y, i + d) = value + d /\ Opens(y, i + d)
    BY <1>1, <1>3, <2>6, ValueSame DEF value
  <2>8. others = {j \in (value + d)..Len(y) : y[j] = ")"}
    BY <2>7 DEF Closes
  <2> HIDE DEF others
  <2>9. \A j \in value..first : j \in DOMAIN x /\ j + d \in 1..Len(y) /\ x[j] = y[j + d]
    BY <1>1, <1>2, <2>5 DEF Agree, Text
  <2>10. first + d \in others
    BY <1>2, <2>5, <2>8, <2>9 DEF Text
  <2>11. ASSUME NEW k \in others PROVE first + d <= k
    <3> SUFFICES ASSUME k < first + d PROVE FALSE
      BY <1>2, <2>5, <2>8, <2>11 DEF Text
    <3>1. k - d \in value..first /\ (k - d) + d = k /\ k - d < first
      BY <1>2, <2>5, <2>8 DEF Text
    <3>2. x[k - d] = ")"
      BY <2>8, <2>9, <3>1
    <3>3. k - d \in close
      BY <1>2, <2>2, <2>5, <3>1, <3>2
    <3> QED
      BY <1>2, <2>4, <2>5, <3>1, <3>3
  <2>12. ASSUME NEW j \in others, \A k \in others : j <= k PROVE j = first + d
    <3>1. j <= first + d /\ first + d <= j /\ j \in Int /\ first + d \in Int
      BY <1>2, <2>5, <2>8, <2>10, <2>11, <2>12 DEF Text
    <3> QED
      BY <3>1
  <2>13. (CHOOSE j \in others : \A k \in others : j <= k) = first + d
    BY <2>10, <2>11, <2>12
  <2>14. T!MatchRecord(y, i + d) =
           [end |-> CHOOSE j \in others : \A k \in others : j <= k, number |-> <<>>]
    BY <2>7, <2>10, MatchParts DEF others
  <2> QED
    BY <2>5, <2>13, <2>14 DEF r
<1>4. CASE ~Opens(x, i)
  <2> DEFINE number == SubSeq(x, value, stop - 1)
  <2>1. IsPercent(x, i) /\ r = [end |-> sign, number |-> number]
    BY <1>1, <1>4, MatchParts
  <2>2. r.end = sign /\ r.number = number
    <3> HIDE DEF r, sign, number
    <3> QED
      BY <2>1
  <2>3. T!At(x, stop, T!Points) => stop + 1 <= e
    <3>1. CASE sign = stop
      <4>1. x[stop] = "%"
        BY <2>1, <3>1 DEF IsPercent, T!At
      <4> QED
        BY <4>1, PercentIsNoPoint DEF T!At
    <3>2. CASE sign # stop
      <4> HIDE DEF r, sign, stop, value
      <4> QED
        BY <1>1, <1>2, <2>2, <3>2
    <3> QED
      BY <3>1, <3>2
  <2>4. value <= e /\ sign <= e
    <3> HIDE DEF r, sign, stop, value
    <3> QED
      BY <1>1, <1>2, <2>2
  <2>5. Begins(y, i + d) /\ ValueAt(y, i + d) = value + d /\ ~Opens(y, i + d)
    BY <1>1, <1>4, <2>4, ValueSame
  <2>6. NumberEnd(y, i + d) = stop + d /\ SignAt(y, i + d) = sign + d /\ IsPercent(y, i + d)
    BY <1>1, <2>1, <2>3, <2>4, SignSame
  <2>7. T!MatchRecord(y, i + d) =
          [end |-> sign + d, number |-> SubSeq(y, value + d, (stop + d) - 1)]
    BY <2>5, <2>6, MatchParts
  <2> HIDE DEF r, sign, stop, value, number
  <2>8. ASSUME NEW p \in value..(stop - 1) PROVE x[p] = y[p + d]
    <3>1. p \in i..e /\ p \in 1..Len(x)
      BY <1>1, <1>2, <2>2
    <3> QED
      BY <3>1 DEF Agree, Text
  <2>9. SubSeq(x, value, stop - 1) = SubSeq(y, value + d, (stop - 1) + d)
    <3> DEFINE b == stop - 1
    <3>1. b \in Int /\ value \in Int /\ \A p \in value..b : x[p] = y[p + d]
      BY <1>2, <2>8
    <3> HIDE DEF b
    <3>2. SubSeq(x, value, b) = SubSeq(y, value + d, b + d)
      BY ONLY <3>1, d \in Int, SubSeqSame
    <3> QED
      BY <3>2 DEF b
  <2>10. (stop - 1) + d = (stop + d) - 1
    BY <1>2
  <2> QED
    BY <2>2, <2>7, <2>9, <2>10 DEF r, number
<1> QED
  BY <1>3, <1>4

\* What will never be a record is none in a longer text, and never will be there.
LEMMA NoneSame ==
  ASSUME NEW x, NEW y, Text(x), Text(y), NEW d \in Int, NEW i, Begins(x, i), T!IsNone(x, i),
         T!MatchRecord(x, i) = T!NoRecord, i + d >= 1,
         Agree(x, y, d, i, Len(x)), Len(x) + d <= Len(y)
  PROVE  T!MatchRecord(y, i + d) = T!NoRecord /\ T!IsNone(y, i + d)
<1> DEFINE stop == NumberEnd(x, i)
           sign == SignAt(x, i)
<1>1. /\ i \in 1..Len(x) /\ ValueAt(x, i) \in (i + 2)..(Len(x) + 1)
      /\ stop \in ValueAt(x, i)..(Len(x) + 1) /\ sign \in stop..(Len(x) + 1)
      /\ Len(x) \in Nat /\ Len(y) \in Nat
  BY PartPlaces DEF Text
<1>2. ~Opens(x, i) /\ sign < Len(x)
  BY DEF T!IsNone, Opens, SignAt, NumberEnd, ValueAt
<1>3. ~IsPercent(x, i)
  <2> SUFFICES ASSUME IsPercent(x, i) PROVE FALSE
    OBVIOUS
  <2>1. T!MatchRecord(x, i).end = sign
    BY <1>2, MatchParts
  <2>2. T!NoRecord.end = 0
    BY DEF T!NoRecord
  <2> HIDE DEF sign, stop
  <2> QED
    BY <1>1, <2>1, <2>2
<1>4. ValueAt(x, i) <= Len(x) /\ sign <= Len(x) /\ stop + 1 <= Len(x)
  <2> HIDE DEF sign, stop
  <2> QED
    BY <1>1, <1>2
<1>5. Begins(y, i + d) /\ ValueAt(y, i + d) = ValueAt(x, i) + d /\ ~Opens(y, i + d)
  BY <1>1, <1>2, <1>4, ValueSame
<1>6. NumberEnd(y, i + d) = stop + d /\ SignAt(y, i + d) = sign + d /\ ~IsPercent(y, i + d)
  BY <1>1, <1>3, <1>4, SignSame
<1>7. T!MatchRecord(y, i + d) = T!NoRecord
  BY <1>5, <1>6, MatchParts
<1>8. SignAt(y, i + d) < Len(y)
  <2> HIDE DEF sign, stop
  <2> QED
    BY <1>1, <1>2, <1>6
<1>9. T!IsNone(y, i + d)
  BY <1>5, <1>8 DEF T!IsNone, Opens, SignAt, NumberEnd, ValueAt
<1> QED
  BY <1>7, <1>9

-----------------------------------------------------------------------------
(***************************************************************************)
(* The records of a text that is cut or goes on.                           *)
(***************************************************************************)
\* u is t from behind place k on, as far as it goes.
IsPart(u, t, k) ==
  /\ Text(u) /\ Text(t) /\ k \in Nat /\ k + Len(u) <= Len(t)
  /\ \A p \in 1..Len(u) : u[p] = t[p + k]

LEMMA PartAgrees ==
  ASSUME NEW u, NEW t, NEW k, IsPart(u, t, k), NEW i \in Int, i >= 1
  PROVE  Agree(u, t, k, i, Len(u)) /\ Agree(t, u, -k, i + k, Len(u) + k)
<1>1. /\ Len(u) \in Nat /\ Len(t) \in Nat /\ DOMAIN u = 1..Len(u) /\ DOMAIN t = 1..Len(t)
      /\ k \in Nat /\ k + Len(u) <= Len(t) /\ \A p \in 1..Len(u) : u[p] = t[p + k]
  BY DEF IsPart, Text
<1>2. Agree(u, t, k, i, Len(u))
  BY <1>1 DEF Agree
<1>3. ASSUME NEW p \in (i + k)..(Len(u) + k)
      PROVE  p \in DOMAIN t /\ p + (-k) \in DOMAIN u /\ t[p] = u[p + (-k)]
  <2>1. p - k \in 1..Len(u) /\ (p - k) + k = p /\ p + (-k) = p - k /\ p \in 1..Len(t)
    BY <1>1
  <2> QED
    BY <1>1, <2>1
<1> QED
  BY <1>2, <1>3 DEF Agree

\* A part's records are those of the text that lie in it.
LEMMA PartRecords ==
  ASSUME NEW u, NEW t, NEW k, IsPart(u, t, k)
  PROVE  /\ \A i \in T!RecordsOf(u) :
              /\ i + k \in T!RecordsOf(t)
              /\ T!MatchRecord(t, i + k).end = T!MatchRecord(u, i).end + k
              /\ T!MatchRecord(t, i + k).number = T!MatchRecord(u, i).number
              /\ i \in 1..Len(u) /\ T!MatchRecord(u, i).end \in (i + 2)..Len(u)
         /\ \A i \in T!RecordsOf(t) :
              i > k /\ T!MatchRecord(t, i).end <= Len(u) + k => i - k \in T!RecordsOf(u)
<1>0. Text(u) /\ Text(t)
  BY DEF IsPart
<1>1. /\ Len(u) \in Nat /\ Len(t) \in Nat /\ DOMAIN u = 1..Len(u) /\ DOMAIN t = 1..Len(t)
      /\ k \in Nat
  BY DEF IsPart, Text
<1>2. T!NoRecord.end = 0
  BY DEF T!NoRecord
<1>3. ASSUME NEW i \in T!RecordsOf(u)
      PROVE  /\ i + k \in T!RecordsOf(t)
             /\ T!MatchRecord(t, i + k).end = T!MatchRecord(u, i).end + k
             /\ T!MatchRecord(t, i + k).number = T!MatchRecord(u, i).number
             /\ i \in 1..Len(u) /\ T!MatchRecord(u, i).end \in (i + 2)..Len(u)
  <2>1. i \in 1..Len(u) /\ T!MatchRecord(u, i) # T!NoRecord
    BY <1>1 DEF T!RecordsOf
  <2>2. T!MatchRecord(u, i).end \in (i + 2)..Len(u)
    BY <1>0, <2>1, RecordPlace
  <2>3. Agree(u, t, k, i, Len(u)) /\ i + k >= 1 /\ T!MatchRecord(u, i).end <= Len(u)
    BY <1>1, <2>1, <2>2, PartAgrees
  <2>4. T!MatchRecord(t, i + k) =
          [end |-> T!MatchRecord(u, i).end + k, number |-> T!MatchRecord(u, i).number]
    <3> DEFINE e == Len(u)
    <3>1. e \in Int /\ k \in Int /\ T!MatchRecord(u, i).end <= e /\ Agree(u, t, k, i, e)
      BY <1>1, <2>3
    <3> HIDE DEF e
    <3> QED
      BY <1>0, <2>1, <2>3, <3>1, RecordSame
  <2>5. /\ T!MatchRecord(t, i + k).end = T!MatchRecord(u, i).end + k
        /\ T!MatchRecord(t, i + k).number = T!MatchRecord(u, i).number
    BY <2>4
  <2>6. T!MatchRecord(t, i + k) # T!NoRecord
    BY <1>1, <1>2, <2>1, <2>2, <2>5
  <2>7. i + k \in DOMAIN t
    BY <1>0, <2>6, RecordPlace
  <2> QED
    BY <2>1, <2>2, <2>5, <2>6, <2>7 DEF T!RecordsOf
<1>4. ASSUME NEW i \in T!RecordsOf(t), i > k, T!MatchRecord(t, i).end <= Len(u) + k
      PROVE  i - k \in T!RecordsOf(u)
  <2>1. i \in 1..Len(t) /\ T!MatchRecord(t, i) # T!NoRecord
    BY <1>1 DEF T!RecordsOf
  <2>2. T!MatchRecord(t, i).end \in (i + 2)..Len(t)
    BY <1>0, <2>1, RecordPlace
  <2> DEFINE j == i - k
             n == -k
             e == Len(u) + k
  <2>3. j \in Int /\ j >= 1 /\ j + k = i /\ i + n = j /\ n \in Int /\ e \in Int
    BY <1>1, <1>4, <2>1
  <2>4. Agree(t, u, n, i, e)
    BY <2>3, PartAgrees
  <2>5. T!MatchRecord(t, i).end <= e
    BY <1>4
  <2> HIDE DEF j, n, e
  <2>6. T!MatchRecord(u, i + n) =
          [end |-> T!MatchRecord(t, i).end + n, number |-> T!MatchRecord(t, i).number]
    BY <1>0, <2>1, <2>3, <2>4, <2>5, RecordSame
  <2>7. T!MatchRecord(u, j).end = T!MatchRecord(t, i).end + n
    BY <2>3, <2>6
  <2>8. T!MatchRecord(t, i).end + n > 0
    BY <1>1, <2>1, <2>2, <2>3
  <2>9. T!MatchRecord(u, j) # T!NoRecord
    BY <1>2, <2>7, <2>8
  <2>10. j \in DOMAIN u
    BY <1>0, <2>9, RecordPlace
  <2>11. j \in T!RecordsOf(u)
    BY <2>9, <2>10 DEF T!RecordsOf
  <2> QED
    BY <2>11 DEF j
<1> QED
  BY <1>3, <1>4

\* What lies in the text is a record of the part under its own place.
LEMMA PartOf ==
  ASSUME NEW u, NEW t, NEW k, IsPart(u, t, k), NEW i \in T!RecordsOf(t), i > k,
         T!MatchRecord(t, i).end <= Len(u) + k
  PROVE  /\ i - k \in T!RecordsOf(u) /\ (i - k) + k = i
         /\ T!MatchRecord(t, i).end = T!MatchRecord(u, i - k).end + k
         /\ T!MatchRecord(t, i).number = T!MatchRecord(u, i - k).number
<1>1. k \in Nat /\ i \in Nat
  BY DEF IsPart, Text, T!RecordsOf
<1>2. i - k \in T!RecordsOf(u) /\ (i - k) + k = i
  BY <1>1, PartRecords
<1> QED
  BY <1>2, PartRecords

\* Two texts one after the other have the records of both, if the first is settled.
LEMMA JoinRecords ==
  ASSUME NEW t, NEW l, NEW y, IsPart(t, y, 0), IsPart(l, y, Len(t)), Len(y) = Len(t) + Len(l),
         T!IsSettled(t), NEW i \in T!RecordsOf(y)
  PROVE  i \in T!RecordsOf(t) \/ (i > Len(t) /\ i - Len(t) \in T!RecordsOf(l))
<1>0. Text(t) /\ Text(y)
  BY DEF IsPart
<1>1. /\ Len(t) \in Nat /\ Len(l) \in Nat /\ DOMAIN t = 1..Len(t)
      /\ \A p \in 1..Len(t) : t[p] = y[p + 0]
  BY DEF IsPart, Text
<1>2. i \in DOMAIN y /\ T!MatchRecord(y, i) # T!NoRecord
  BY DEF T!RecordsOf
<1>3. Begins(y, i) /\ i \in 1..Len(y) /\ T!MatchRecord(y, i).end \in (i + 2)..Len(y)
  BY <1>0, <1>2, RecordPlace
<1>4. CASE i > Len(t)
  <2>1. T!MatchRecord(y, i).end <= Len(l) + Len(t)
    BY <1>1, <1>3
  <2> QED
    BY <1>4, <2>1, PartRecords
<1>5. CASE ~(i > Len(t))
  <2> SUFFICES ASSUME i \notin T!RecordsOf(t) PROVE FALSE
    OBVIOUS
  <2>1. i \in 1..Len(t) /\ i \in DOMAIN t
    BY <1>1, <1>3, <1>5
  <2>2. y[i] = "prog" /\ y[i + 1] = "ress"
    BY <1>3 DEF Begins, T!At
  <2>3. t[i] = "prog"
    BY <1>1, <2>1, <2>2
  <2>4. i < Len(t) /\ i + 1 \in 1..Len(t)
    BY <1>1, <2>1, <2>3 DEF T!IsSettled
  <2>5. t[i + 1] = "ress"
    BY <1>1, <2>2, <2>4
  <2>6. T!IsNone(t, i)
    BY <2>1, <2>3, <2>5 DEF T!IsSettled
  <2>7. Begins(t, i)
    BY <1>1, <2>1, <2>3, <2>4, <2>5 DEF Begins, T!At
  <2>8. T!MatchRecord(t, i) = T!NoRecord
    BY <2>1 DEF T!RecordsOf
  <2>9. Agree(t, y, 0, i, Len(t)) /\ i + 0 = i /\ i + 0 >= 1 /\ Len(t) + 0 <= Len(y)
    BY <1>1, <2>1, PartAgrees
  <2>10. T!MatchRecord(y, i + 0) = T!NoRecord
    BY <1>0, <2>6, <2>7, <2>8, <2>9, NoneSame
  <2> QED
    BY <1>2, <2>9, <2>10
<1> QED
  BY <1>4, <1>5

-----------------------------------------------------------------------------
(***************************************************************************)
(* A whole text stays whole when a whole line follows it, and when what    *)
(* is before a place is dropped that no unread record has begun before.    *)
(***************************************************************************)
LEMMA WholeAppend ==
  ASSUME NEW t, NEW l, NEW y, IsPart(t, y, 0), IsPart(l, y, Len(t)), Len(y) = Len(t) + Len(l),
         NEW u, NEW line, NEW w, IsPart(u, w, 0), IsPart(line, w, Len(u)),
         Len(w) = Len(u) + Len(line), Len(line) = Len(l),
         NEW kept \in Nat, Len(t) = kept + Len(u),
         T!IsWhole(t, kept, u), T!IsWhole(l, 0, line)
  PROVE  T!IsWhole(y, kept, w)
<1> DEFINE N == Len(t)
<1>1. /\ N \in Nat /\ Len(l) \in Nat /\ Len(u) \in Nat
      /\ DOMAIN t = 1..N /\ DOMAIN l = 1..Len(l) /\ DOMAIN y = 1..Len(y)
      /\ DOMAIN u = 1..Len(u) /\ DOMAIN line = 1..Len(line) /\ DOMAIN w = 1..Len(w)
  BY DEF IsPart, Text
<1>2. /\ \A p \in 1..N : t[p] = y[p]
      /\ \A p \in 1..Len(l) : l[p] = y[p + N]
      /\ \A p \in 1..Len(u) : u[p] = w[p]
      /\ \A p \in 1..Len(line) : line[p] = w[p + Len(u)]
  BY <1>1 DEF IsPart
<1>3. /\ T!FitsBuffer(t) /\ T!IsFlat(t) /\ T!IsSettled(t)
      /\ T!EndsAreTold(t, kept, u) /\ T!ToldAreEnds(t, kept, u)
      /\ T!FitsBuffer(l) /\ T!IsFlat(l) /\ T!IsSettled(l)
      /\ T!EndsAreTold(l, 0, line) /\ T!ToldAreEnds(l, 0, line)
  BY DEF T!IsWhole
<1> DEFINE First(i) == /\ i \in T!RecordsOf(t) /\ i \in 1..N
                       /\ T!MatchRecord(y, i).end = T!MatchRecord(t, i).end
                       /\ T!MatchRecord(y, i).number = T!MatchRecord(t, i).number
                       /\ T!MatchRecord(t, i).end \in (i + 2)..N
           Second(i) == /\ i - N \in T!RecordsOf(l) /\ i - N \in 1..Len(l) /\ i \in Int
                        /\ T!MatchRecord(y, i).end = T!MatchRecord(l, i - N).end + N
                        /\ T!MatchRecord(y, i).number = T!MatchRecord(l, i - N).number
                        /\ T!MatchRecord(l, i - N).end \in ((i - N) + 2)..Len(l)
<1>4. ASSUME NEW i \in T!RecordsOf(t) PROVE i \in T!RecordsOf(y) /\ First(i)
  <2>1. /\ i + 0 \in T!RecordsOf(y) /\ i \in 1..N
        /\ T!MatchRecord(y, i + 0).end = T!MatchRecord(t, i).end + 0
        /\ T!MatchRecord(y, i + 0).number = T!MatchRecord(t, i).number
        /\ T!MatchRecord(t, i).end \in (i + 2)..N
    BY PartRecords
  <2>2. i + 0 = i /\ T!MatchRecord(t, i).end + 0 = T!MatchRecord(t, i).end
    BY <1>1, <2>1
  <2> QED
    BY <2>1, <2>2
<1>5. ASSUME NEW j \in T!RecordsOf(l) PROVE j + N \in T!RecordsOf(y) /\ Second(j + N) /\ (j + N) - N = j
  <2>1. /\ j + N \in T!RecordsOf(y) /\ j \in 1..Len(l)
        /\ T!MatchRecord(y, j + N).end = T!MatchRecord(l, j).end + N
        /\ T!MatchRecord(y, j + N).number = T!MatchRecord(l, j).number
        /\ T!MatchRecord(l, j).end \in (j + 2)..Len(l)
    BY PartRecords
  <2>2. (j + N) - N = j /\ j + N \in Int
    BY <1>1, <2>1
  <2> QED
    BY <2>1, <2>2
<1>6. ASSUME NEW i \in T!RecordsOf(y) PROVE First(i) \/ Second(i)
  <2>1. CASE i \in T!RecordsOf(t)
    BY <1>4, <2>1
  <2>2. CASE i > N /\ i - N \in T!RecordsOf(l)
    <3>1. (i - N) + N = i
      BY <1>1, <1>6 DEF T!RecordsOf
    <3> QED
      BY <1>5, <2>2, <3>1
  <2> QED
    BY <2>1, <2>2, JoinRecords, <1>3
<1> HIDE DEF N
<1>7. T!FitsBuffer(y)
  <2> SUFFICES ASSUME NEW i \in T!RecordsOf(y) PROVE T!MatchRecord(y, i).end - i <= BufferTail
    BY DEF T!FitsBuffer
  <2>1. CASE First(i)
    BY <1>3, <2>1 DEF T!FitsBuffer
  <2>2. CASE Second(i)
    <3>1. T!MatchRecord(l, i - N).end - (i - N) <= BufferTail
      BY <1>3, <2>2 DEF T!FitsBuffer
    <3>2. T!MatchRecord(y, i).end - i = T!MatchRecord(l, i - N).end - (i - N)
      BY <1>1, <2>2
    <3> QED
      BY <3>1, <3>2
  <2> QED
    BY <1>6, <2>1, <2>2
<1>8. T!IsFlat(y)
  <2> SUFFICES ASSUME NEW i \in T!RecordsOf(y), NEW j \in T!RecordsOf(y), i < j
               PROVE  T!MatchRecord(y, i).end < j
    BY DEF T!IsFlat
  <2>1. CASE First(i) /\ First(j)
    BY <1>3, <2>1 DEF T!IsFlat
  <2>2. CASE First(i) /\ Second(j)
    BY <1>1, <2>2
  <2>3. CASE Second(i) /\ First(j)
    BY <1>1, <2>3
  <2>4. CASE Second(i) /\ Second(j)
    <3>1. i - N < j - N
      BY <1>1, <2>4
    <3>2. T!MatchRecord(l, i - N).end < j - N
      BY <1>3, <2>4, <3>1 DEF T!IsFlat
    <3> QED
      BY <1>1, <2>4, <3>2
  <2> QED
    BY <1>6, <2>1, <2>2, <2>3, <2>4
<1>9. T!IsSettled(y)
  <2> SUFFICES ASSUME NEW i \in DOMAIN y, y[i] = "prog"
               PROVE  i < Len(y) /\ (y[i + 1] = "ress" /\ i \notin T!RecordsOf(y) => T!IsNone(y, i))
    BY DEF T!IsSettled
  <2>1. CASE i <= N
    <3>1. i \in 1..N /\ i \in DOMAIN t /\ t[i] = "prog"
      BY <1>1, <1>2, <2>1
    <3>2. i < N /\ (t[i + 1] = "ress" /\ i \notin T!RecordsOf(t) => T!IsNone(t, i))
      BY <1>3, <3>1 DEF T!IsSettled, N
    <3>3. i < Len(y) /\ i + 1 \in 1..N
      BY <1>1, <3>1, <3>2 DEF N
    <3> SUFFICES ASSUME y[i + 1] = "ress", i \notin T!RecordsOf(y) PROVE T!IsNone(y, i)
      BY <3>3
    <3>4. t[i + 1] = "ress" /\ i \notin T!RecordsOf(t)
      BY <1>2, <1>4, <3>3
    <3>5. T!IsNone(t, i) /\ Begins(t, i) /\ T!MatchRecord(t, i) = T!NoRecord
      BY <1>1, <3>1, <3>2, <3>3, <3>4 DEF Begins, T!At, T!RecordsOf
    <3>6. i + 0 = i /\ i + 0 >= 1 /\ Len(t) + 0 <= Len(y) /\ i \in Int /\ i >= 1
      BY <1>1, <3>1 DEF N
    <3>7. Agree(t, y, 0, i, Len(t))
      BY <3>6, PartAgrees
    <3>8. T!IsNone(y, i + 0)
      BY <3>5, <3>6, <3>7, NoneSame DEF IsPart
    <3> QED
      BY <3>6, <3>8
  <2>2. CASE ~(i <= N)
    <3> DEFINE j == i - N
    <3>1. j \in 1..Len(l) /\ j \in DOMAIN l /\ l[j] = "prog" /\ j + N = i
      BY <1>1, <1>2, <2>2 DEF N
    <3>2. j < Len(l) /\ (l[j + 1] = "ress" /\ j \notin T!RecordsOf(l) => T!IsNone(l, j))
      BY <1>3, <3>1 DEF T!IsSettled
    <3> HIDE DEF j
    <3>3. i < Len(y) /\ j + 1 \in 1..Len(l) /\ (j + 1) + N = i + 1
      <4>1. Len(y) = N + Len(l) /\ i \in Int /\ j \in 1..Len(l) /\ j < Len(l) /\ i = j + N
        BY <1>1, <3>1, <3>2 DEF N
      <4> QED
        BY <1>1, <4>1
    <3> SUFFICES ASSUME y[i + 1] = "ress", i \notin T!RecordsOf(y) PROVE T!IsNone(y, i)
      BY <3>3
    <3>4. l[j + 1] = "ress" /\ j \notin T!RecordsOf(l)
      BY <1>2, <1>5, <3>1, <3>3
    <3>5. T!IsNone(l, j) /\ Begins(l, j) /\ T!MatchRecord(l, j) = T!NoRecord
      BY <1>1, <3>1, <3>2, <3>3, <3>4 DEF Begins, T!At, T!RecordsOf
    <3>6. Agree(l, y, N, j, Len(l)) /\ j + N >= 1 /\ Len(l) + N <= Len(y) /\ N \in Int
      BY <1>1, <3>1, PartAgrees DEF N
    <3>7. T!IsNone(y, j + N)
      BY <3>5, <3>6, NoneSame DEF IsPart
    <3> QED
      BY <3>1, <3>7
  <2> QED
    BY <2>1, <2>2
<1>10. T!EndsAreTold(y, kept, w)
  <2> SUFFICES ASSUME NEW i \in T!RecordsOf(y), T!MatchRecord(y, i).end > kept
               PROVE  T!Tells(w[T!MatchRecord(y, i).end - kept], T!MatchRecord(y, i).number)
    BY DEF T!EndsAreTold
  <2>1. CASE First(i)
    <3> DEFINE p == T!MatchRecord(y, i).end - kept
    <3>1. T!Tells(u[p], T!MatchRecord(t, i).number)
      BY <1>3, <2>1 DEF T!EndsAreTold
    <3>2. p \in 1..Len(u)
      BY <1>1, <2>1 DEF N
    <3>3. w[p] = u[p]
      BY <1>2, <3>2
    <3> QED
      BY <2>1, <3>1, <3>3
  <2>2. CASE Second(i)
    <3> DEFINE q == T!MatchRecord(l, i - N).end
    <3>1. q \in 1..Len(line) /\ q > 0 /\ q - 0 = q
      BY <1>1, <2>2
    <3>2. T!Tells(line[q], T!MatchRecord(l, i - N).number)
      BY <1>3, <2>2, <3>1 DEF T!EndsAreTold
    <3>3. T!MatchRecord(y, i).end - kept = q + Len(u)
      BY <1>1, <2>2 DEF N
    <3>4. w[q + Len(u)] = line[q]
      BY <1>2, <3>1
    <3> QED
      BY <2>2, <3>2, <3>3, <3>4
  <2> QED
    BY <1>6, <2>1, <2>2
<1>11. T!ToldAreEnds(y, kept, w)
  <2> SUFFICES ASSUME NEW p \in DOMAIN w, w[p].ends
               PROVE  \E i \in T!RecordsOf(y) : T!MatchRecord(y, i).end = kept + p
    BY DEF T!ToldAreEnds
  <2>1. CASE p <= Len(u)
    <3>1. p \in DOMAIN u /\ u[p].ends
      BY <1>1, <1>2, <2>1
    <3>2. PICK i \in T!RecordsOf(t) : T!MatchRecord(t, i).end = kept + p
      BY <1>3, <3>1 DEF T!ToldAreEnds
    <3> QED
      BY <1>4, <3>2
  <2>2. CASE ~(p <= Len(u))
    <3> DEFINE q == p - Len(u)
    <3>1. q \in DOMAIN line /\ line[q].ends /\ 0 + q = q /\ q + Len(u) = p
      BY <1>1, <1>2, <2>2
    <3>2. PICK j \in T!RecordsOf(l) : T!MatchRecord(l, j).end = 0 + q
      BY <1>3, <3>1 DEF T!ToldAreEnds
    <3>3. j + N \in T!RecordsOf(y) /\ Second(j + N) /\ (j + N) - N = j
      BY <1>5
    <3>4. T!MatchRecord(y, j + N).end = kept + p
      BY <1>1, <3>1, <3>2, <3>3 DEF N
    <3> QED
      BY <3>3, <3>4
  <2> QED
    BY <2>1, <2>2
<1> QED
  BY <1>7, <1>8, <1>9, <1>10, <1>11 DEF T!IsWhole

LEMMA WholeDrop ==
  ASSUME NEW t, NEW y, NEW k, IsPart(y, t, k), Len(t) = k + Len(y),
         NEW u, NEW w, NEW n, IsPart(w, u, n), Len(u) = n + Len(w),
         NEW kept \in Nat, Len(t) = kept + Len(u), k <= kept + n, T!IsWhole(t, kept, u),
         \A i \in T!RecordsOf(t) : T!MatchRecord(t, i).end > kept + n => i > k
  PROVE  T!IsWhole(y, (kept + n) - k, w)
<1> DEFINE behind == (kept + n) - k
<1>1. /\ Len(y) \in Nat /\ Len(t) \in Nat /\ Len(u) \in Nat /\ Len(w) \in Nat
      /\ DOMAIN t = 1..Len(t) /\ DOMAIN y = 1..Len(y) /\ DOMAIN u = 1..Len(u)
      /\ DOMAIN w = 1..Len(w) /\ k \in Nat /\ n \in Nat
  BY DEF IsPart, Text
<1>2. /\ \A p \in 1..Len(y) : y[p] = t[p + k]
      /\ \A p \in 1..Len(w) : w[p] = u[p + n]
  BY DEF IsPart
<1>3. /\ T!FitsBuffer(t) /\ T!IsFlat(t) /\ T!IsSettled(t)
      /\ T!EndsAreTold(t, kept, u) /\ T!ToldAreEnds(t, kept, u)
  BY DEF T!IsWhole
<1>4. \A i \in T!RecordsOf(y) :
        /\ i + k \in T!RecordsOf(t)
        /\ T!MatchRecord(t, i + k).end = T!MatchRecord(y, i).end + k
        /\ T!MatchRecord(t, i + k).number = T!MatchRecord(y, i).number
        /\ i \in 1..Len(y) /\ T!MatchRecord(y, i).end \in (i + 2)..Len(y)
  BY PartRecords
<1>5. \A i \in T!RecordsOf(t) :
        i > k => /\ i - k \in T!RecordsOf(y) /\ (i - k) + k = i
                 /\ T!MatchRecord(t, i).end = T!MatchRecord(y, i - k).end + k
  <2> SUFFICES ASSUME NEW i \in T!RecordsOf(t), i > k
               PROVE  /\ i - k \in T!RecordsOf(y) /\ (i - k) + k = i
                      /\ T!MatchRecord(t, i).end = T!MatchRecord(y, i - k).end + k
    OBVIOUS
  <2>1. T!MatchRecord(t, i) # T!NoRecord /\ Text(t)
    BY DEF T!RecordsOf, IsPart
  <2>2. T!MatchRecord(t, i).end <= Len(y) + k
    <3>1. T!MatchRecord(t, i).end \in (i + 2)..Len(t)
      BY <2>1, RecordPlace
    <3> QED
      BY <1>1, <3>1
  <2> QED
    BY <2>2, PartOf
<1>6. T!FitsBuffer(y)
  <2> SUFFICES ASSUME NEW i \in T!RecordsOf(y) PROVE T!MatchRecord(y, i).end - i <= BufferTail
    BY DEF T!FitsBuffer
  <2>1. T!MatchRecord(t, i + k).end - (i + k) <= BufferTail
    BY <1>3, <1>4 DEF T!FitsBuffer
  <2>2. T!MatchRecord(t, i + k).end - (i + k) = T!MatchRecord(y, i).end - i
    BY <1>1, <1>4
  <2> QED
    BY <2>1, <2>2
<1>7. T!IsFlat(y)
  <2> SUFFICES ASSUME NEW i \in T!RecordsOf(y), NEW j \in T!RecordsOf(y), i < j
               PROVE  T!MatchRecord(y, i).end < j
    BY DEF T!IsFlat
  <2>1. i + k < j + k
    BY <1>1, <1>4
  <2>2. T!MatchRecord(t, i + k).end < j + k
    BY <1>3, <1>4, <2>1 DEF T!IsFlat
  <2> QED
    BY <1>1, <1>4, <2>2
<1>8. T!IsSettled(y)
  <2> SUFFICES ASSUME NEW i \in DOMAIN y, y[i] = "prog"
               PROVE  i < Len(y) /\ (y[i + 1] = "ress" /\ i \notin T!RecordsOf(y) => T!IsNone(y, i))
    BY DEF T!IsSettled
  <2> DEFINE j == i + k
  <2>1. j \in DOMAIN t /\ t[j] = "prog" /\ j > k /\ j - k = i /\ j >= 1 /\ j \in Int
    BY <1>1, <1>2
  <2>2. j < Len(t) /\ (t[j + 1] = "ress" /\ j \notin T!RecordsOf(t) => T!IsNone(t, j))
    BY <1>3, <2>1 DEF T!IsSettled
  <2>3. i < Len(y) /\ i + 1 \in 1..Len(y) /\ (i + 1) + k = j + 1
    BY <1>1, <2>2
  <2> SUFFICES ASSUME y[i + 1] = "ress", i \notin T!RecordsOf(y) PROVE T!IsNone(y, i)
    BY <2>3
  <2> HIDE DEF j
  <2>4. t[j + 1] = "ress" /\ j \notin T!RecordsOf(t)
    BY <1>2, <1>5, <2>1, <2>3
  <2>5. j + 1 \in DOMAIN t
    BY <1>1, <2>1, <2>2
  <2>6. T!IsNone(t, j) /\ Begins(t, j) /\ T!MatchRecord(t, j) = T!NoRecord
    BY <2>1, <2>2, <2>4, <2>5 DEF Begins, T!At, T!RecordsOf
  <2> DEFINE d == -k
             e == Len(t)
  <2>7. d \in Int /\ j + d = i /\ i >= 1 /\ e + d <= Len(y) /\ i \in Int /\ i + k = j
        /\ Len(y) + k = e
    BY <1>1, <2>1 DEF j
  <2>8. Agree(t, y, -k, i + k, Len(y) + k)
    BY <2>7, PartAgrees
  <2>9. Agree(t, y, d, j, e)
    BY <2>7, <2>8
  <2> HIDE DEF d
  <2>10. T!IsNone(y, j + d)
    BY <2>6, <2>7, <2>9, NoneSame DEF IsPart
  <2> QED
    BY <2>7, <2>10
<1>9. T!EndsAreTold(y, behind, w)
  <2> SUFFICES ASSUME NEW i \in T!RecordsOf(y), T!MatchRecord(y, i).end > behind
               PROVE  T!Tells(w[T!MatchRecord(y, i).end - behind], T!MatchRecord(y, i).number)
    BY DEF T!EndsAreTold
  <2> DEFINE p == T!MatchRecord(y, i).end - behind
             q == T!MatchRecord(t, i + k).end - kept
  <2>1. T!MatchRecord(t, i + k).end > kept
    BY <1>1, <1>4
  <2>2. T!Tells(u[q], T!MatchRecord(y, i).number)
    BY <1>3, <1>4, <2>1 DEF T!EndsAreTold
  <2>3. p \in 1..Len(w) /\ q = p + n
    <3> DEFINE end == T!MatchRecord(y, i).end
    <3>1. end \in Int /\ end <= Len(y) /\ end > behind /\ q = (end + k) - kept /\ p = end - behind
      BY <1>1, <1>4
    <3> HIDE DEF end, p, q
    <3> QED
      BY <1>1, <3>1
  <2> HIDE DEF p, q
  <2>4. w[p] = u[q]
    BY <1>2, <2>3
  <2> QED
    BY <2>2, <2>4 DEF p
<1>10. T!ToldAreEnds(y, behind, w)
  <2> SUFFICES ASSUME NEW p \in DOMAIN w, w[p].ends
               PROVE  \E i \in T!RecordsOf(y) : T!MatchRecord(y, i).end = behind + p
    BY DEF T!ToldAreEnds
  <2>1. p + n \in DOMAIN u /\ u[p + n].ends
    BY <1>1, <1>2
  <2>2. PICK i \in T!RecordsOf(t) : T!MatchRecord(t, i).end = kept + (p + n)
    BY <1>3, <2>1 DEF T!ToldAreEnds
  <2>3. T!MatchRecord(t, i).end > kept + n
    BY <1>1, <2>2
  <2>4. /\ i - k \in T!RecordsOf(y)
        /\ T!MatchRecord(t, i).end = T!MatchRecord(y, i - k).end + k
    BY <1>5, <2>3
  <2>5. T!MatchRecord(y, i - k).end \in Int
    BY <1>1, <1>4, <2>4
  <2>6. T!MatchRecord(y, i - k).end = behind + p
    <3> DEFINE end == T!MatchRecord(y, i - k).end
    <3>1. end \in Int /\ end + k = kept + (p + n) /\ p \in Int
      BY <1>1, <2>2, <2>4, <2>5
    <3> HIDE DEF end
    <3>2. kept \in Int /\ n \in Int /\ k \in Int
      BY <1>1
    <3>3. end = behind + p
      BY <3>1, <3>2
    <3> QED
      BY <3>3 DEF end
  <2> QED
    BY <2>4, <2>6
<1> QED
  BY <1>6, <1>7, <1>8, <1>9, <1>10 DEF T!IsWhole

-----------------------------------------------------------------------------
(***************************************************************************)
(* What the tracker computes from its records.                             *)
(***************************************************************************)
\* In a flat text no record hides another.
LEMMA FlatRecords ==
  ASSUME NEW t, T!IsFlat(t)
  PROVE  T!Records(t) = T!RecordsOf(t)
BY DEF T!Records, T!RecordsOf, T!IsFlat

\* A beginning of the text has the records that end in it.
LEMMA PrefixRecords ==
  ASSUME NEW u, NEW t, IsPart(u, t, 0)
  PROVE  /\ T!RecordsOf(u) = {i \in T!RecordsOf(t) : T!MatchRecord(t, i).end <= Len(u)}
         /\ \A i \in T!RecordsOf(u) :
              /\ T!MatchRecord(t, i).end = T!MatchRecord(u, i).end
              /\ T!MatchRecord(t, i).number = T!MatchRecord(u, i).number
         /\ T!IsFlat(t) => T!IsFlat(u)
<1>1. Len(u) \in Nat /\ Len(u) + 0 = Len(u)
  BY DEF IsPart, Text
<1>2. ASSUME NEW i \in T!RecordsOf(u)
      PROVE  /\ i \in T!RecordsOf(t) /\ T!MatchRecord(t, i).end = T!MatchRecord(u, i).end
             /\ T!MatchRecord(t, i).number = T!MatchRecord(u, i).number
             /\ T!MatchRecord(t, i).end <= Len(u) /\ i \in Nat
  <2>1. /\ i + 0 \in T!RecordsOf(t)
        /\ T!MatchRecord(t, i + 0).end = T!MatchRecord(u, i).end + 0
        /\ T!MatchRecord(t, i + 0).number = T!MatchRecord(u, i).number
        /\ i \in 1..Len(u) /\ T!MatchRecord(u, i).end \in (i + 2)..Len(u)
    BY PartRecords
  <2>2. i + 0 = i /\ T!MatchRecord(u, i).end + 0 = T!MatchRecord(u, i).end
        /\ T!MatchRecord(u, i).end <= Len(u) /\ i \in Nat
    BY <1>1, <2>1
  <2> QED
    BY <2>1, <2>2
<1>3. ASSUME NEW i \in T!RecordsOf(t), T!MatchRecord(t, i).end <= Len(u)
      PROVE  i \in T!RecordsOf(u)
  <2>1. i > 0 /\ i - 0 = i
    BY DEF T!RecordsOf, IsPart, Text
  <2>2. T!MatchRecord(t, i).end <= Len(u) + 0
    BY <1>1, <1>3
  <2>3. i - 0 \in T!RecordsOf(u)
    BY <2>1, <2>2, PartRecords
  <2> QED
    BY <2>1, <2>3
<1>4. T!IsFlat(t) => T!IsFlat(u)
  BY <1>2 DEF T!IsFlat
<1> QED
  BY <1>2, <1>3, <1>4

\* A set grows when it gains a member.
LEMMA CountGrows ==
  ASSUME NEW R, IsFiniteSet(R), NEW S, S \subseteq R
  PROVE  Cardinality(R) > Cardinality(S) <=> R # S
<1>1. IsFiniteSet(S) /\ Cardinality(S) <= Cardinality(R)
  BY FS_Subset
<1>2. Cardinality(R) = Cardinality(S) => R = S
  BY FS_Subset
<1>3. Cardinality(R) \in Nat /\ Cardinality(S) \in Nat
  BY <1>1, FS_CardinalityType
<1> QED
  BY <1>1, <1>2, <1>3

\* The greatest number of a set.
LEMMA GreatestOnly ==
  ASSUME NEW S, S \subseteq Int, NEW m \in S, \A j \in S : j <= m
  PROVE  T!Max(S) = m
<1>1. T!Max(S) = CHOOSE x \in S : \A y \in S : x >= y
  BY DEF T!Max
<1>2. \A y \in S : m >= y
  OBVIOUS
<1>3. ASSUME NEW x \in S, \A y \in S : x >= y PROVE x = m
  <2>1. x >= m /\ x <= m /\ x \in Int /\ m \in Int
    BY <1>3
  <2> QED
    BY <2>1
<1> QED
  BY <1>1, <1>2, <1>3

LEMMA GreatestPlace ==
  ASSUME NEW n \in Nat, NEW S, S \subseteq 1..n, S # {}
  PROVE  T!Max(S) \in S /\ \A j \in S : j <= T!Max(S)
<1> DEFINE R == {n - j : j \in S}
<1>1. R \subseteq Nat /\ R # {}
  <2>1. \A j \in S : n - j \in Nat
    OBVIOUS
  <2>2. PICK j \in S : TRUE
    OBVIOUS
  <2>3. n - j \in R
    OBVIOUS
  <2> QED
    BY <2>1, <2>3
<1>2. PICK r \in R : \A q \in R : r <= q
  <2> HIDE DEF R
  <2> QED
    BY <1>1, LeastPlace
<1>3. PICK m \in S : r = n - m
  BY <1>2
<1>4. ASSUME NEW j \in S PROVE j <= m
  <2>1. r <= n - j
    BY <1>2
  <2> QED
    BY <1>3, <2>1
<1>5. S \subseteq Int
  OBVIOUS
<1>6. T!Max(S) = m
  BY <1>4, <1>5, GreatestOnly
<1> QED
  BY <1>4, <1>6

\* The fraction that is told of a flat text, by the place of its last number.
LEMMA FractionIs ==
  ASSUME NEW t, Text(t), T!IsFlat(t)
  PROVE  /\ T!Numbered(t) = {i \in T!RecordsOf(t) : T!MatchRecord(t, i).number # <<>>}
         /\ T!Numbered(t) = {} => T!ProgressFraction(t) = T!NoFraction
         /\ \A m \in T!Numbered(t) : (\A j \in T!Numbered(t) : j <= m) =>
              T!ProgressFraction(t) = T!Fraction(T!MatchRecord(t, m).number)
         /\ T!Numbered(t) # {} =>
              \E m \in T!Numbered(t) : \A j \in T!Numbered(t) : j <= m
<1> DEFINE N == T!Numbered(t)
<1>1. N = {i \in T!RecordsOf(t) : T!MatchRecord(t, i).number # <<>>}
  BY FlatRecords DEF T!Numbered
<1>2. T!ProgressFraction(t) = IF N = {} THEN T!NoFraction
                              ELSE T!Fraction(T!MatchRecord(t, T!Max(N)).number)
  BY DEF T!ProgressFraction
<1>3. N \subseteq 1..Len(t) /\ N \subseteq Int /\ Len(t) \in Nat
  BY <1>1 DEF T!RecordsOf, Text
<1> HIDE DEF N
<1>4. ASSUME NEW m \in N, \A j \in N : j <= m
      PROVE  T!ProgressFraction(t) = T!Fraction(T!MatchRecord(t, m).number)
  <2>1. T!Max(N) = m
    BY <1>3, <1>4, GreatestOnly
  <2> QED
    BY <1>2, <2>1
<1>5. N # {} => \E m \in N : \A j \in N : j <= m
  BY <1>3, GreatestPlace
<1> QED
  BY <1>1, <1>2, <1>4, <1>5 DEF N

\* What is kept of a flat text tells its fraction, or none.
LEMMA FractionOfTail ==
  ASSUME NEW u, NEW t, NEW k, IsPart(u, t, k), Len(t) = k + Len(u), T!IsFlat(t), T!IsFlat(u)
  PROVE  T!ProgressFraction(u) \in {T!NoFraction, T!ProgressFraction(t)}
<1>1. Text(u) /\ Text(t) /\ k \in Nat /\ Len(u) \in Nat
  BY DEF IsPart, Text
<1>2. CASE T!Numbered(u) = {}
  BY <1>1, <1>2, FractionIs
<1>3. CASE T!Numbered(u) # {}
  <2>1. PICK m \in T!Numbered(u) : \A j \in T!Numbered(u) : j <= m
    BY <1>1, <1>3, FractionIs
  <2>2. T!ProgressFraction(u) = T!Fraction(T!MatchRecord(u, m).number)
    BY <1>1, <2>1, FractionIs
  <2>3. m \in T!RecordsOf(u) /\ T!MatchRecord(u, m).number # <<>>
    BY <1>1, FractionIs
  <2>4. /\ m + k \in T!RecordsOf(t) /\ T!MatchRecord(t, m + k).number = T!MatchRecord(u, m).number
        /\ m \in 1..Len(u)
    BY <2>3, PartRecords
  <2>5. m + k \in T!Numbered(t)
    BY <1>1, <2>3, <2>4, FractionIs
  <2>6. ASSUME NEW j \in T!Numbered(t) PROVE j <= m + k
    <3>1. j \in T!RecordsOf(t) /\ T!MatchRecord(t, j).number # <<>> /\ j \in 1..Len(t)
      BY <1>1, FractionIs DEF T!RecordsOf, Text
    <3> SUFFICES ASSUME j > k PROVE j <= m + k
      BY <1>1, <2>4, <3>1
    <3>2. T!MatchRecord(t, j).end <= Len(u) + k
      <4>1. T!MatchRecord(t, j) # T!NoRecord
        BY <3>1 DEF T!RecordsOf
      <4>2. T!MatchRecord(t, j).end \in (j + 2)..Len(t)
        BY <1>1, <4>1, RecordPlace
      <4> QED
        BY <1>1, <3>1, <4>2
    <3>3. /\ j - k \in T!RecordsOf(u)
          /\ T!MatchRecord(t, j).number = T!MatchRecord(u, j - k).number
      BY <3>1, <3>2, PartOf
    <3>4. j - k \in T!Numbered(u)
      BY <1>1, <3>1, <3>3, FractionIs
    <3>5. j - k <= m
      BY <2>1, <3>4
    <3> QED
      BY <1>1, <2>4, <3>1, <3>5
  <2>7. T!ProgressFraction(t) = T!Fraction(T!MatchRecord(t, m + k).number)
    BY <1>1, <2>5, <2>6, FractionIs
  <2> QED
    BY <2>2, <2>4, <2>7
<1> QED
  BY <1>2, <1>3

\* What TailOf drops is before what the buffer keeps, or the rest of a character.
LEMMA TailIs ==
  ASSUME NEW c \in Seq(STRING), BufferTail \in Nat
  PROVE  /\ T!TailOf(c) \in Seq(STRING)
         /\ \E k \in 0..Len(c) :
              /\ IsPart(T!TailOf(c), c, k) /\ Len(c) = k + Len(T!TailOf(c))
              /\ \A i \in 1..k : c[i] = "prog" => i <= Len(c) - BufferTail
<1>1. Len(c) \in Nat /\ DOMAIN c = 1..Len(c) /\ Text(c)
  BY DEF Text
<1>2. CASE Len(c) <= BufferTail
  <2>1. T!TailOf(c) = c
    BY <1>2 DEF T!TailOf
  <2>2. IsPart(c, c, 0) /\ Len(c) = 0 + Len(c) /\ 0 \in 0..Len(c)
    BY <1>1 DEF IsPart
  <2>3. \A i \in 1..0 : c[i] = "prog" => i <= Len(c) - BufferTail
    OBVIOUS
  <2>4. \E k \in 0..Len(c) :
          /\ IsPart(c, c, k) /\ Len(c) = k + Len(c)
          /\ \A i \in 1..k : c[i] = "prog" => i <= Len(c) - BufferTail
    BY <2>2, <2>3
  <2> QED
    BY <2>1, <2>4
<1>3. CASE ~(Len(c) <= BufferTail)
  <2> DEFINE start == Len(c) - BufferTail + 1
             first == T!Skip(c, start, {"cont"})
             from == IF first > start + 3 THEN start + 3 ELSE first
             tail == SubSeq(c, from, Len(c))
  <2>1. T!TailOf(c) = tail
    BY <1>3 DEF T!TailOf
  <2>2. start \in 1..(Len(c) + 1) /\ start \in Int
    BY <1>1, <1>3
  <2>3. first \in start..(Len(c) + 1) /\ \A i \in start..(first - 1) : T!At(c, i, {"cont"})
    BY <1>1, <2>2, SkipPlace
  <2> HIDE DEF first
  <2>4. from \in start..(Len(c) + 1) /\ from <= first
    BY <1>1, <2>2, <2>3
  <2>5. ASSUME NEW i \in 1..(from - 1), c[i] = "prog" PROVE i <= Len(c) - BufferTail
    <3> SUFFICES ASSUME i \in start..(first - 1) PROVE FALSE
      BY <1>1, <2>2, <2>3, <2>4
    <3> QED
      BY <2>3, <2>5 DEF T!At
  <2>6. \A i \in from..Len(c) : c[i] \in STRING
    BY <1>1, <2>2, <2>4
  <2> HIDE DEF from
  <2>7. /\ tail \in Seq(STRING) /\ Len(tail) = IF from <= Len(c) THEN Len(c) - from + 1 ELSE 0
        /\ \A i \in 1..(Len(c) - from + 1) : tail[i] = c[from + i - 1]
    <3>1. from \in Int /\ Len(c) \in Int
      BY <1>1, <2>2, <2>4
    <3> QED
      BY <2>6, <3>1, SubSeqProperties
  <2> DEFINE k == from - 1
  <2> HIDE DEF tail
  <2>8. k \in 0..Len(c) /\ Len(c) = k + Len(tail)
    BY <1>1, <2>2, <2>4, <2>7
  <2>9. \A p \in 1..Len(tail) : tail[p] = c[p + k]
    <3> SUFFICES ASSUME NEW p \in 1..Len(tail) PROVE tail[p] = c[p + k]
      OBVIOUS
    <3>1. p \in 1..(Len(c) - from + 1) /\ from + p - 1 = p + k
      BY <1>1, <2>2, <2>4, <2>7
    <3> QED
      BY <2>7, <3>1
  <2>10. IsPart(tail, c, k)
    <3>1. Text(tail)
      BY <2>7 DEF Text
    <3> QED
      BY <1>1, <2>8, <2>9, <3>1 DEF IsPart
  <2>11. \A i \in 1..k : c[i] = "prog" => i <= Len(c) - BufferTail
    BY <2>5
  <2> HIDE DEF k
  <2>12. \E j \in 0..Len(c) :
           /\ IsPart(tail, c, j) /\ Len(c) = j + Len(tail)
           /\ \A i \in 1..j : c[i] = "prog" => i <= Len(c) - BufferTail
    BY <2>8, <2>10, <2>11
  <2> QED
    BY <2>1, <2>7, <2>12
<1> QED
  BY <1>2, <1>3

\* The symbols of what is written, and the part of a text that follows another.
LEMMA SymbolsOf ==
  ASSUME NEW line \in Seq(T!Written)
  PROVE  /\ T!Symbols(line) \in Seq(STRING) /\ Len(T!Symbols(line)) = Len(line)
         /\ \A p \in 1..Len(line) : T!Symbols(line)[p] = line[p].symbol
<1> DEFINE n == Len(line)
           s == T!Symbols(line)
<1>1. n \in Nat /\ DOMAIN line = 1..n /\ \A p \in 1..n : line[p] \in T!Written
  OBVIOUS
<1>2. \A p \in 1..n : line[p].symbol \in STRING
  BY <1>1 DEF T!Written
<1>3. s = [p \in 1..n |-> line[p].symbol]
  BY <1>1 DEF T!Symbols
<1> HIDE DEF n, s
<1>4. s \in [1..n -> STRING] /\ \A p \in 1..n : s[p] = line[p].symbol
  BY <1>2, <1>3
<1>5. s \in Seq(STRING) /\ Len(s) = n
  BY <1>1, <1>4
<1> QED
  BY <1>4, <1>5 DEF n, s

LEMMA JoinedParts ==
  ASSUME NEW S, NEW a \in Seq(S), NEW b \in Seq(S)
  PROVE  /\ a \o b \in Seq(S) /\ Len(a \o b) = Len(a) + Len(b)
         /\ IsPart(a, a \o b, 0) /\ IsPart(b, a \o b, Len(a))
<1> DEFINE c == a \o b
<1>1. /\ c \in Seq(S) /\ Len(c) = Len(a) + Len(b)
      /\ \A i \in 1..(Len(a) + Len(b)) : c[i] = IF i <= Len(a) THEN a[i] ELSE b[i - Len(a)]
  BY ConcatProperties
<1> HIDE DEF c
<1>2. Text(a) /\ Text(b) /\ Text(c) /\ Len(a) \in Nat /\ Len(b) \in Nat
  BY <1>1 DEF Text
<1>3. \A p \in 1..Len(a) : a[p] = c[p + 0]
  BY <1>1, <1>2
<1>4. ASSUME NEW p \in 1..Len(b) PROVE b[p] = c[p + Len(a)]
  <2>1. p + Len(a) \in 1..(Len(a) + Len(b)) /\ ~(p + Len(a) <= Len(a)) /\ (p + Len(a)) - Len(a) = p
    BY <1>2
  <2> QED
    BY <1>1, <2>1
<1>5. IsPart(a, c, 0) /\ IsPart(b, c, Len(a))
  BY <1>1, <1>2, <1>3, <1>4 DEF IsPart
<1> QED
  BY <1>1, <1>5 DEF c

-----------------------------------------------------------------------------
(***************************************************************************)
(* The loop.                                                               *)
(***************************************************************************)
LEMMA InitTracker == T!Init => T!TrackerInvariant
<1> SUFFICES ASSUME T!Init PROVE T!TrackerInvariant
  OBVIOUS
<1>1. /\ pipe = <<>> /\ buffer = <<>> /\ new = {} /\ latest = T!NoFraction
      /\ update = [madeProgress |-> FALSE, fraction |-> T!NoFraction]
  BY DEF T!Init
<1>2. pipe \in Seq(T!Written) /\ buffer \in Seq(STRING)
  BY <1>1
<1> DEFINE t == buffer \o T!Symbols(pipe)
<1>3. T!Symbols(pipe) \in Seq(STRING) /\ Len(T!Symbols(pipe)) = 0
  BY <1>1, <1>2, SymbolsOf
<1>4. t \in Seq(STRING) /\ Len(t) = 0 /\ Len(buffer) = 0
  BY <1>1, <1>2, <1>3, JoinedParts
<1> HIDE DEF t
<1>5. DOMAIN t = {} /\ DOMAIN pipe = {} /\ DOMAIN buffer = {}
  BY <1>1, <1>4
<1>6. T!RecordsOf(t) = {} /\ T!RecordsOf(buffer) = {}
  BY <1>5 DEF T!RecordsOf
<1>7. T!IsWhole(t, Len(buffer), pipe)
  BY <1>5, <1>6 DEF T!IsWhole, T!FitsBuffer, T!IsFlat, T!IsSettled, T!EndsAreTold, T!ToldAreEnds
<1>8. T!ProgressFraction(buffer) = T!NoFraction
  <2>1. Text(buffer) /\ T!IsFlat(buffer)
    BY <1>4, <1>5, <1>6 DEF Text, T!IsFlat
  <2> QED
    BY <1>6, <2>1, FractionIs
<1>9. T!RecordsAreSeen /\ T!FractionIsLatest
  BY <1>1 DEF T!RecordsAreSeen, T!FractionIsLatest
<1> QED
  BY <1>2, <1>7, <1>8, <1>9 DEF T!TrackerInvariant, t

LEMMA WriteKeepsTracker == T!TrackerInvariant /\ T!Write => T!TrackerInvariant'
<1> SUFFICES ASSUME T!TrackerInvariant, T!Write PROVE T!TrackerInvariant'
  OBVIOUS
<1>1. PICK line \in Lines : pipe' = pipe \o line
  BY DEF T!Write
<1>2. UNCHANGED <<buffer, update, new, latest>>
  BY DEF T!Write
<1>3. line \in Seq(T!Written) /\ T!IsWhole(T!Symbols(line), 0, line)
  BY LinesAssumption DEF T!LinesAreWhole
<1>4. pipe \in Seq(T!Written) /\ buffer \in Seq(STRING)
      /\ T!IsWhole(buffer \o T!Symbols(pipe), Len(buffer), pipe)
  BY DEF T!TrackerInvariant
<1> DEFINE s == T!Symbols(pipe)
           l == T!Symbols(line)
           t == buffer \o s
           w == pipe \o line
           z == T!Symbols(w)
           y == buffer \o z
<1>5. /\ s \in Seq(STRING) /\ Len(s) = Len(pipe) /\ \A p \in 1..Len(pipe) : s[p] = pipe[p].symbol
      /\ l \in Seq(STRING) /\ Len(l) = Len(line) /\ \A p \in 1..Len(line) : l[p] = line[p].symbol
  BY <1>3, <1>4, SymbolsOf
<1>6. /\ w \in Seq(T!Written) /\ Len(w) = Len(pipe) + Len(line)
      /\ IsPart(pipe, w, 0) /\ IsPart(line, w, Len(pipe))
  BY <1>3, <1>4, JoinedParts
<1>7. z \in Seq(STRING) /\ Len(z) = Len(w) /\ \A p \in 1..Len(w) : z[p] = w[p].symbol
  BY <1>6, SymbolsOf
<1>8. /\ t \in Seq(STRING) /\ Len(t) = Len(buffer) + Len(s)
      /\ IsPart(buffer, t, 0) /\ IsPart(s, t, Len(buffer))
  BY <1>4, <1>5, JoinedParts
<1>9. /\ y \in Seq(STRING) /\ Len(y) = Len(buffer) + Len(z)
      /\ IsPart(buffer, y, 0) /\ IsPart(z, y, Len(buffer))
  BY <1>4, <1>7, JoinedParts
<1> HIDE DEF s, l, t, w, z, y
<1>10. /\ Len(buffer) \in Nat /\ Len(pipe) \in Nat /\ Len(line) \in Nat /\ Text(t) /\ Text(y) /\ Text(l)
  BY <1>3, <1>4, <1>5, <1>8, <1>9 DEF Text
<1>11. Len(t) = Len(buffer) + Len(pipe) /\ Len(y) = Len(t) + Len(l)
  BY <1>5, <1>6, <1>7, <1>8, <1>9, <1>10
<1>12. \A p \in 1..Len(t) : t[p] = y[p + 0]
  <2> SUFFICES ASSUME NEW p \in 1..Len(t) PROVE t[p] = y[p]
    BY <1>10 DEF Text
  <2>1. CASE p <= Len(buffer)
    <3>1. p \in 1..Len(buffer) /\ p + 0 = p
      BY <1>10, <2>1 DEF Text
    <3> QED
      BY <1>8, <1>9, <3>1 DEF IsPart
  <2>2. CASE ~(p <= Len(buffer))
    <3> DEFINE q == p - Len(buffer)
    <3>1. q \in 1..Len(pipe) /\ q + Len(buffer) = p /\ q \in 1..Len(w) /\ q + 0 = q
      BY <1>6, <1>10, <1>11, <2>2 DEF Text
    <3> HIDE DEF q
    <3>2. t[p] = s[q] /\ y[p] = z[q]
      BY <1>5, <1>7, <1>8, <1>9, <3>1 DEF IsPart
    <3>3. pipe[q] = w[q]
      BY <1>6, <3>1 DEF IsPart
    <3> QED
      BY <1>5, <1>7, <3>1, <3>2, <3>3
  <2> QED
    BY <2>1, <2>2
<1>13. \A p \in 1..Len(l) : l[p] = y[p + Len(t)]
  <2> SUFFICES ASSUME NEW p \in 1..Len(l) PROVE l[p] = y[p + Len(t)]
    OBVIOUS
  <2> DEFINE q == p + Len(pipe)
  <2>1. q \in 1..Len(w) /\ q + Len(buffer) = p + Len(t) /\ p \in 1..Len(line) /\ q \in 1..Len(z)
    BY <1>5, <1>6, <1>7, <1>10, <1>11
  <2>2. line[p] = w[q]
    BY <1>6, <2>1 DEF IsPart
  <2> HIDE DEF q
  <2>3. z[q] = y[q + Len(buffer)]
    BY <1>9, <2>1 DEF IsPart
  <2> QED
    BY <1>5, <1>7, <2>1, <2>2, <2>3
<1>14. IsPart(t, y, 0) /\ IsPart(l, y, Len(t))
  BY <1>10, <1>11, <1>12, <1>13 DEF IsPart, Text
<1>15. T!IsWhole(y, Len(buffer), w)
  BY <1>3, <1>4, <1>5, <1>6, <1>10, <1>11, <1>14, WholeAppend DEF t, s, l
<1>16. T!IsWhole(buffer \o T!Symbols(pipe), Len(buffer), pipe)'
  BY <1>1, <1>2, <1>15 DEF y, z, w
<1>17. (T!ProgressFraction(buffer) \in {T!NoFraction, latest})'
  BY <1>2 DEF T!TrackerInvariant
<1>18. (T!RecordsAreSeen /\ T!FractionIsLatest)'
  BY <1>2 DEF T!TrackerInvariant, T!RecordsAreSeen, T!FractionIsLatest
<1>19. (pipe \in Seq(T!Written) /\ buffer \in Seq(STRING))'
  BY <1>1, <1>2, <1>4, <1>6 DEF w
<1> QED
  BY <1>16, <1>17, <1>18, <1>19 DEF T!TrackerInvariant

\* What is read joins what was kept to a beginning of the text.
ReadText(b, q, n) == b \o [i \in 1..n |-> q[i].symbol]

LEMMA ReadPrefix ==
  ASSUME NEW b \in Seq(STRING), NEW q \in Seq(T!Written), NEW n \in 1..Len(q)
  PROVE  LET c == ReadText(b, q, n)
             t == b \o T!Symbols(q)
         IN  /\ c \in Seq(STRING) /\ Len(c) = Len(b) + n /\ IsPart(b, c, 0)
             /\ t \in Seq(STRING) /\ Len(t) = Len(b) + Len(q) /\ IsPart(b, t, 0)
             /\ IsPart(c, t, 0) /\ \A p \in 1..Len(q) : t[p + Len(b)] = q[p].symbol
<1> DEFINE s == T!Symbols(q)
           r == [i \in 1..n |-> q[i].symbol]
           c == b \o r
           t == b \o s
<1>1. s \in Seq(STRING) /\ Len(s) = Len(q) /\ \A p \in 1..Len(q) : s[p] = q[p].symbol
  BY SymbolsOf
<1>2. r \in Seq(STRING) /\ Len(r) = n /\ \A p \in 1..n : r[p] = q[p].symbol
  <2>1. n \in Nat /\ \A p \in 1..n : q[p] \in T!Written
    OBVIOUS
  <2>2. \A p \in 1..n : q[p].symbol \in STRING
    BY <2>1 DEF T!Written
  <2> HIDE DEF r
  <2>3. r \in [1..n -> STRING] /\ \A p \in 1..n : r[p] = q[p].symbol
    BY <2>2 DEF r
  <2> QED
    BY <2>1, <2>3
<1> HIDE DEF s, r
<1>3. /\ c \in Seq(STRING) /\ Len(c) = Len(b) + Len(r) /\ IsPart(b, c, 0) /\ IsPart(r, c, Len(b))
  BY <1>2, JoinedParts
<1>4. /\ t \in Seq(STRING) /\ Len(t) = Len(b) + Len(s) /\ IsPart(b, t, 0) /\ IsPart(s, t, Len(b))
  BY <1>1, JoinedParts
<1> HIDE DEF c, t
<1>5. Len(b) \in Nat /\ Len(q) \in Nat /\ n \in 1..Len(q) /\ Text(c) /\ Text(t)
  BY <1>3, <1>4 DEF Text
<1>6. \A p \in 1..Len(q) : t[p + Len(b)] = q[p].symbol
  BY <1>1, <1>4 DEF IsPart
<1>7. ASSUME NEW p \in 1..Len(c) PROVE c[p] = t[p + 0]
  <2> SUFFICES c[p] = t[p]
    BY <1>3, <1>5
  <2>1. CASE p <= Len(b)
    <3>1. p \in 1..Len(b) /\ p + 0 = p
      BY <1>3, <1>5, <2>1
    <3> QED
      BY <1>3, <1>4, <3>1 DEF IsPart
  <2>2. CASE ~(p <= Len(b))
    <3> DEFINE j == p - Len(b)
    <3>1. j \in 1..n /\ j \in 1..Len(q) /\ j + Len(b) = p
      BY <1>2, <1>3, <1>5, <2>2
    <3> HIDE DEF j
    <3>2. c[p] = r[j]
      BY <1>2, <1>3, <3>1 DEF IsPart
    <3> QED
      BY <1>2, <1>6, <3>1, <3>2
  <2> QED
    BY <2>1, <2>2
<1>8. IsPart(c, t, 0)
  BY <1>2, <1>3, <1>1, <1>4, <1>5, <1>7 DEF IsPart
<1>9. c = ReadText(b, q, n)
  BY DEF c, r, ReadText
<1> QED
  BY <1>1, <1>2, <1>3, <1>4, <1>6, <1>8, <1>9 DEF t, s

\* What is kept of it and what is left in the pipe are whole again.
LEMMA ReadRest ==
  ASSUME NEW b \in Seq(STRING), NEW q \in Seq(T!Written), NEW n \in 1..Len(q),
         T!IsWhole(b \o T!Symbols(q), Len(b), q), BufferTail \in Nat
  PROVE  LET tail == T!TailOf(ReadText(b, q, n))
             w == SubSeq(q, n + 1, Len(q))
         IN  /\ tail \in Seq(STRING) /\ w \in Seq(T!Written)
             /\ T!IsWhole(tail \o T!Symbols(w), Len(tail), w)
             /\ T!ProgressFraction(tail) \in {T!NoFraction, T!ProgressFraction(ReadText(b, q, n))}
<1> DEFINE c == ReadText(b, q, n)
           t == b \o T!Symbols(q)
           tail == T!TailOf(c)
           w == SubSeq(q, n + 1, Len(q))
           z == T!Symbols(w)
           y == tail \o z
<1>1. /\ c \in Seq(STRING) /\ Len(c) = Len(b) + n
      /\ t \in Seq(STRING) /\ Len(t) = Len(b) + Len(q) /\ IsPart(c, t, 0)
      /\ \A p \in 1..Len(q) : t[p + Len(b)] = q[p].symbol
  BY ReadPrefix
<1>2. Len(b) \in Nat /\ Len(q) \in Nat /\ n \in 1..Len(q) /\ DOMAIN q = 1..Len(q)
  OBVIOUS
<1>3. T!IsWhole(t, Len(b), q)
  OBVIOUS
<1>4. /\ w \in Seq(T!Written) /\ Len(q) = n + Len(w)
      /\ \A p \in 1..Len(w) : w[p] = q[p + n]
  <2> DEFINE m == n + 1
             e == Len(q)
  <2>1. m \in Int /\ e \in Int /\ \A i \in m..e : q[i] \in T!Written
    BY <1>2
  <2>2. w = SubSeq(q, m, e) /\ m + 0 = n + 1
    BY <1>2
  <2> HIDE DEF m, e, w
  <2>3. /\ w \in Seq(T!Written) /\ Len(w) = IF m <= e THEN e - m + 1 ELSE 0
        /\ \A p \in 1..(e - m + 1) : w[p] = q[m + p - 1]
    BY <2>1, <2>2, SubSeqProperties
  <2>4. Len(q) = n + Len(w) /\ Len(w) = e - m + 1
    <3>1. m = n + 1 /\ e = Len(q)
      BY DEF m, e
    <3>2. Len(w) = IF m <= e THEN e - m + 1 ELSE 0
      BY <2>3
    <3>3. n \in Int /\ n <= Len(q) /\ Len(q) \in Int
      BY <1>2
    <3> QED
      BY <3>1, <3>2, <3>3
  <2>5. ASSUME NEW p \in 1..Len(w) PROVE w[p] = q[p + n]
    <3>1. m + p - 1 = p + n /\ p \in 1..(e - m + 1)
      BY <1>2, <2>4 DEF m
    <3> QED
      BY <2>3, <3>1
  <2> QED
    BY <2>3, <2>4, <2>5
<1> HIDE DEF c, t, w
<1>5. PICK k \in 0..Len(c) :
        /\ IsPart(tail, c, k) /\ Len(c) = k + Len(tail)
        /\ \A i \in 1..k : c[i] = "prog" => i <= Len(c) - BufferTail
  BY <1>1, TailIs
<1>6. tail \in Seq(STRING)
  BY <1>1, TailIs
<1>7. z \in Seq(STRING) /\ Len(z) = Len(w) /\ \A p \in 1..Len(w) : z[p] = w[p].symbol
  BY <1>4, SymbolsOf
<1> HIDE DEF tail, z
<1>8. /\ y \in Seq(STRING) /\ Len(y) = Len(tail) + Len(z)
      /\ IsPart(tail, y, 0) /\ IsPart(z, y, Len(tail))
  BY <1>6, <1>7, JoinedParts
<1> HIDE DEF y
<1>9. /\ Len(tail) \in Nat /\ Len(w) \in Nat /\ Text(y) /\ Text(t) /\ Text(w) /\ Text(q) /\ Text(c)
      /\ Text(tail) /\ k \in Nat
  BY <1>1, <1>4, <1>5, <1>6, <1>8 DEF Text
<1>10. IsPart(w, q, n)
  BY <1>2, <1>4, <1>9 DEF IsPart
<1>11. Len(t) = k + Len(y) /\ Len(b) + n = k + Len(tail)
  <2>1. n \in Int /\ Len(c) = Len(b) + n /\ Len(t) = Len(b) + Len(q) /\ Len(q) = n + Len(w)
    BY <1>1, <1>2, <1>4
  <2>2. Len(c) = k + Len(tail) /\ Len(y) = Len(tail) + Len(w)
    BY <1>5, <1>7, <1>8
  <2> QED
    BY <1>2, <1>9, <2>1, <2>2
<1>12. ASSUME NEW p \in 1..Len(y) PROVE y[p] = t[p + k]
  <2>1. CASE p <= Len(tail)
    <3>1. p \in 1..Len(tail) /\ p + 0 = p /\ p + k \in 1..Len(c) /\ (p + k) + 0 = p + k
      BY <1>5, <1>9, <2>1
    <3>2. y[p] = tail[p] /\ tail[p] = c[p + k]
      BY <1>5, <1>8, <3>1 DEF IsPart
    <3>3. c[p + k] = t[p + k]
      BY <1>1, <3>1 DEF IsPart
    <3> QED
      BY <3>2, <3>3
  <2>2. CASE ~(p <= Len(tail))
    <3> DEFINE j == p - Len(tail)
    <3>1. /\ j \in 1..Len(w) /\ j + Len(tail) = p /\ j + n \in 1..Len(q)
          /\ (j + n) + Len(b) = p + k
      <4>1. p \in Int /\ p <= Len(tail) + Len(w) /\ p > Len(tail)
        BY <1>7, <1>8, <1>9, <2>2
      <4>2. n \in Int /\ n >= 1 /\ Len(q) = n + Len(w) /\ Len(q) \in Int /\ Len(b) \in Int
        BY <1>2, <1>4
      <4>3. Len(b) + n = k + Len(tail) /\ k \in Int /\ Len(tail) \in Int /\ Len(w) \in Int
        BY <1>9, <1>11
      <4> QED
        BY <4>1, <4>2, <4>3
    <3> HIDE DEF j
    <3>2. y[p] = z[j]
      BY <1>7, <1>8, <3>1 DEF IsPart
    <3>3. z[j] = q[j + n].symbol
      BY <1>4, <1>7, <3>1
    <3>4. t[(j + n) + Len(b)] = q[j + n].symbol
      BY <1>1, <3>1
    <3> QED
      BY <3>1, <3>2, <3>3, <3>4
  <2> QED
    BY <2>1, <2>2
<1>13. IsPart(y, t, k)
  <2>1. k + Len(y) <= Len(t)
    BY <1>9, <1>11 DEF Text
  <2> QED
    BY <1>9, <1>12, <2>1 DEF IsPart
<1>14. ASSUME NEW i \in T!RecordsOf(t), T!MatchRecord(t, i).end > Len(b) + n PROVE i > k
  <2> SUFFICES ASSUME ~(i > k) PROVE FALSE
    OBVIOUS
  <2>1. T!MatchRecord(t, i) # T!NoRecord
    BY DEF T!RecordsOf
  <2>2. Begins(t, i) /\ i \in 1..Len(t) /\ T!MatchRecord(t, i).end \in (i + 2)..Len(t)
    BY <1>9, <2>1, RecordPlace
  <2>3. T!MatchRecord(t, i).end - i <= BufferTail
    BY <1>3 DEF T!IsWhole, T!FitsBuffer
  <2>4. i \in 1..k /\ i \in 1..Len(c) /\ i + 0 = i
    BY <1>5, <1>9, <2>2 DEF Text
  <2>5. c[i] = "prog"
    BY <1>1, <2>2, <2>4 DEF Begins, T!At, IsPart
  <2>6. i <= Len(c) - BufferTail
    BY <1>5, <2>4, <2>5
  <2> QED
    BY <1>1, <1>2, <1>9, <1>14, <2>2, <2>3, <2>6 DEF Text
<1>15. T!IsWhole(y, (Len(b) + n) - k, w)
  <2>1. n \in Nat /\ k <= Len(b) + n /\ Len(t) = Len(b) + Len(q)
    BY <1>1, <1>2, <1>5
  <2> QED
    BY <1>2, <1>3, <1>4, <1>10, <1>11, <1>13, <1>14, <2>1, WholeDrop
<1>16. (Len(b) + n) - k = Len(tail)
  BY <1>9, <1>11
<1>17. T!ProgressFraction(tail) \in {T!NoFraction, T!ProgressFraction(c)}
  <2>1. T!IsFlat(t) /\ T!IsFlat(y)
    BY <1>3, <1>15 DEF T!IsWhole
  <2>2. T!IsFlat(c) /\ T!IsFlat(tail)
    BY <1>1, <1>8, <2>1, PrefixRecords
  <2> QED
    BY <1>5, <2>2, FractionOfTail
<1> QED
  BY <1>4, <1>6, <1>15, <1>16, <1>17 DEF c, tail, w, y, z

\* The tracker's count is the number of its records.
LEMMA RecordCount == ASSUME NEW t PROVE T!ProgressRecordCount(t) = Cardinality(T!Records(t))
<1>1. ASSUME NEW S PROVE T!Cardinality(S) = Cardinality(S)
  BY Zenon DEF T!Cardinality, Cardinality
<1> QED
  BY <1>1 DEF T!ProgressRecordCount

\* Of the first n symbols those that end a record, those that tell a fraction too, and the
\* last fraction told.
Ended(q, n) == {i \in 1..n : q[i].ends}
Told(q, n) == {i \in Ended(q, n) : q[i].fraction # T!NoFraction}
Newest(q, n, last) == IF Told(q, n) = {} THEN last ELSE q[T!Max(Told(q, n))].fraction

\* What the read tells: that a record ended in it, and the fraction of the last that has one.
LEMMA ReadTells ==
  ASSUME NEW b \in Seq(STRING), NEW q \in Seq(T!Written), NEW n \in 1..Len(q),
         T!IsWhole(b \o T!Symbols(q), Len(b), q), NEW last,
         T!ProgressFraction(b) \in {T!NoFraction, last}
  PROVE  LET c == ReadText(b, q, n)
         IN  /\ T!ProgressRecordCount(c) > T!ProgressRecordCount(b) <=> Ended(q, n) # {}
             /\ T!ProgressFraction(c) \in {T!NoFraction, Newest(q, n, last)}
             /\ Told(q, n) # {} => T!ProgressFraction(c) = Newest(q, n, last)
<1> DEFINE c == ReadText(b, q, n)
           t == b \o T!Symbols(q)
           M == Len(b)
           end(i) == T!MatchRecord(t, i).end
           number(i) == T!MatchRecord(t, i).number
           ended == {i \in 1..n : q[i].ends}
           told == {i \in ended : q[i].fraction # T!NoFraction}
           newest == IF told = {} THEN last ELSE q[T!Max(told)].fraction
<1>1. /\ c \in Seq(STRING) /\ Len(c) = M + n /\ t \in Seq(STRING) /\ Len(t) = M + Len(q)
      /\ IsPart(b, t, 0) /\ IsPart(c, t, 0)
  BY ReadPrefix
<1>2. /\ T!IsFlat(t) /\ T!EndsAreTold(t, M, q) /\ T!ToldAreEnds(t, M, q)
  BY DEF T!IsWhole
<1>3. M \in Nat /\ n \in Nat /\ DOMAIN q = 1..Len(q) /\ n <= Len(q) /\ Len(q) \in Nat
  OBVIOUS
<1> HIDE DEF c, t
<1>4. Text(b) /\ Text(c) /\ Text(t)
  BY <1>1 DEF IsPart
<1>5. /\ T!RecordsOf(b) = {i \in T!RecordsOf(t) : end(i) <= M}
      /\ \A i \in T!RecordsOf(b) : T!MatchRecord(b, i).number = number(i)
      /\ T!IsFlat(b)
  BY <1>1, <1>2, PrefixRecords
<1>6. /\ T!RecordsOf(c) = {i \in T!RecordsOf(t) : end(i) <= M + n}
      /\ \A i \in T!RecordsOf(c) : T!MatchRecord(c, i).number = number(i)
      /\ T!IsFlat(c)
  <2>1. T!RecordsOf(c) = {i \in T!RecordsOf(t) : end(i) <= Len(c)}
    BY <1>1, PrefixRecords
  <2> QED
    BY <1>1, <1>2, <2>1, PrefixRecords
<1>7. ASSUME NEW i \in T!RecordsOf(t) PROVE i \in Nat /\ end(i) \in Nat /\ i < end(i)
  <2>1. T!MatchRecord(t, i) # T!NoRecord
    BY DEF T!RecordsOf
  <2>2. i \in 1..Len(t) /\ end(i) \in (i + 2)..Len(t)
    BY <1>4, <2>1, RecordPlace
  <2> QED
    BY <1>1, <1>3, <2>2
<1>8. ASSUME NEW i \in T!RecordsOf(c), i \notin T!RecordsOf(b)
      PROVE  end(i) - M \in ended /\ T!Tells(q[end(i) - M], number(i))
  <2>1. i \in T!RecordsOf(t) /\ end(i) <= M + n /\ ~(end(i) <= M)
    BY <1>5, <1>6, <1>8
  <2>2. end(i) - M \in 1..n /\ end(i) > M
    <3> DEFINE E == end(i)
    <3>1. E \in Nat /\ E <= M + n /\ ~(E <= M)
      BY <1>7, <2>1
    <3> HIDE DEF E
    <3>2. E - M \in 1..n /\ E > M
      BY <1>3, <3>1
    <3> QED
      BY <3>2 DEF E
  <2>3. T!Tells(q[end(i) - M], number(i))
    BY <1>2, <2>1, <2>2 DEF T!EndsAreTold
  <2> QED
    BY <2>2, <2>3 DEF T!Tells
<1>9. ASSUME NEW p \in ended
      PROVE  \E i \in T!RecordsOf(c) : i \notin T!RecordsOf(b) /\ end(i) = M + p /\ end(i) - M = p
  <2>1. p \in DOMAIN q /\ q[p].ends /\ p \in 1..n
    BY <1>3
  <2>2. PICK i \in T!RecordsOf(t) : end(i) = M + p
    BY <1>2, <2>1 DEF T!ToldAreEnds
  <2>3. end(i) <= M + n /\ ~(end(i) <= M) /\ end(i) - M = p
    BY <1>3, <2>1, <2>2
  <2> QED
    BY <1>5, <1>6, <2>2, <2>3
<1>10. T!RecordsOf(b) \subseteq T!RecordsOf(c)
  <2> SUFFICES ASSUME NEW i \in T!RecordsOf(t), end(i) <= M PROVE end(i) <= M + n
    BY <1>5, <1>6
  <2> DEFINE E == end(i)
  <2>1. E \in Nat /\ E <= M
    BY <1>7
  <2> HIDE DEF E
  <2>2. E <= M + n
    BY <1>3, <2>1
  <2> QED
    BY <2>2 DEF E
<1>11. T!ProgressRecordCount(c) > T!ProgressRecordCount(b) <=> ended # {}
  <2>1. T!ProgressRecordCount(c) = Cardinality(T!RecordsOf(c))
        /\ T!ProgressRecordCount(b) = Cardinality(T!RecordsOf(b))
    <3>1. T!Records(c) = T!RecordsOf(c) /\ T!Records(b) = T!RecordsOf(b)
      BY <1>5, <1>6, FlatRecords
    <3> QED
      BY <3>1, RecordCount
  <2>2. IsFiniteSet(T!RecordsOf(c))
    <3>1. T!RecordsOf(c) \subseteq 1..Len(c) /\ Len(c) \in Nat
      BY <1>4 DEF T!RecordsOf, Text
    <3>2. IsFiniteSet(1..Len(c))
      BY <3>1, FS_Interval
    <3> QED
      BY <3>1, <3>2, FS_Subset
  <2>3. T!RecordsOf(c) # T!RecordsOf(b) <=> ended # {}
    BY <1>8, <1>9, <1>10
  <2>4. Cardinality(T!RecordsOf(c)) > Cardinality(T!RecordsOf(b))
          <=> T!RecordsOf(c) # T!RecordsOf(b)
    BY <1>10, <2>2, CountGrows
  <2> QED
    BY <2>1, <2>3, <2>4
<1>12. /\ T!Numbered(b) = {i \in T!RecordsOf(b) : number(i) # <<>>}
       /\ T!Numbered(c) = {i \in T!RecordsOf(c) : number(i) # <<>>}
  BY <1>4, <1>5, <1>6, FractionIs
<1>13. ASSUME NEW i \in T!Numbered(c), i \notin T!Numbered(b)
       PROVE  /\ end(i) - M \in told
              /\ q[end(i) - M].fraction = T!Fraction(T!MatchRecord(c, i).number)
  BY <1>6, <1>8, <1>12, <1>13 DEF T!Tells
<1> SUFFICES /\ T!ProgressFraction(c) \in {T!NoFraction, newest}
             /\ told # {} => T!ProgressFraction(c) = newest
  BY <1>11 DEF c, Ended, Told, Newest
<1>14. CASE told = {}
  <2>1. T!Numbered(c) = T!Numbered(b)
    BY <1>10, <1>12, <1>13, <1>14
  <2>2. T!ProgressFraction(c) = T!ProgressFraction(b)
    <3>1. CASE T!Numbered(b) = {}
      BY <1>4, <1>5, <1>6, <2>1, <3>1, FractionIs
    <3>2. CASE T!Numbered(b) # {}
      <4>1. PICK m \in T!Numbered(b) : \A j \in T!Numbered(b) : j <= m
        BY <1>4, <1>5, <3>2, FractionIs
      <4>2. T!ProgressFraction(b) = T!Fraction(T!MatchRecord(b, m).number)
        BY <1>4, <1>5, <4>1, FractionIs
      <4>3. T!ProgressFraction(c) = T!Fraction(T!MatchRecord(c, m).number)
        BY <1>4, <1>6, <2>1, <4>1, FractionIs
      <4>4. T!MatchRecord(b, m).number = T!MatchRecord(c, m).number
        BY <1>5, <1>6, <1>10, <1>12
      <4> QED
        BY <4>2, <4>3, <4>4
    <3> QED
      BY <3>1, <3>2
  <2>3. newest = last
    BY <1>14
  <2> HIDE DEF newest, told
  <2> QED
    BY <1>14, <2>2, <2>3
<1>15. CASE told # {}
  <2> DEFINE p == T!Max(told)
  <2>1. told \subseteq 1..n
    OBVIOUS
  <2>2. p \in told /\ \A r \in told : r <= p
    <3> HIDE DEF told
    <3> QED
      BY <1>3, <1>15, <2>1, GreatestPlace
  <2> HIDE DEF p
  <2>3. p \in ended /\ q[p].fraction # T!NoFraction /\ p \in 1..n
    BY <2>2
  <2>4. PICK i \in T!RecordsOf(c) : i \notin T!RecordsOf(b) /\ end(i) = M + p /\ end(i) - M = p
    BY <1>9, <2>3
  <2>5. T!Tells(q[p], number(i))
    BY <1>8, <2>4
  <2>6. i \in T!Numbered(c) /\ q[p].fraction = T!Fraction(T!MatchRecord(c, i).number)
    BY <1>6, <1>12, <2>3, <2>4, <2>5 DEF T!Tells
  <2>7. ASSUME NEW j \in T!Numbered(c) PROVE j <= i
    <3>1. i \in T!RecordsOf(t) /\ j \in T!RecordsOf(t)
      BY <1>6, <1>12, <2>4
    <3>2. i \in Nat /\ j \in Nat /\ end(j) \in Nat /\ j < end(j)
      BY <1>7, <3>1
    <3> SUFFICES ASSUME i < j PROVE FALSE
      BY <3>2
    <3>3. M + p < j
      BY <1>2, <2>4, <3>1 DEF T!IsFlat
    <3>4. M < end(j)
      BY <1>3, <2>3, <3>2, <3>3
    <3>5. j \notin T!Numbered(b)
      BY <1>3, <1>5, <1>12, <3>2, <3>4
    <3>6. end(j) - M \in told
      BY <1>13, <3>5
    <3>7. end(j) - M <= p
      BY <2>2, <3>6
    <3> QED
      BY <1>3, <2>3, <3>2, <3>3, <3>7
  <2>8. T!ProgressFraction(c) = T!Fraction(T!MatchRecord(c, i).number)
    BY <1>4, <1>6, <2>6, <2>7, FractionIs
  <2>9. newest = q[p].fraction
    BY <1>15 DEF p
  <2> HIDE DEF newest, told
  <2> QED
    BY <2>6, <2>8, <2>9
<1> QED
  BY <1>14, <1>15

LEMMA ReadKeepsTracker == T!TrackerInvariant /\ T!Read => T!TrackerInvariant'
<1> SUFFICES ASSUME T!TrackerInvariant, T!Read PROVE T!TrackerInvariant'
  OBVIOUS
<1>1. PICK n \in 1..Len(pipe) :
        /\ T!AppendChunk([i \in 1..n |-> pipe[i].symbol])
        /\ pipe' = SubSeq(pipe, n + 1, Len(pipe))
        /\ new' = {pipe[i].fraction : i \in Ended(pipe, n)}
        /\ latest' = Newest(pipe, n, latest)
  BY DEF T!Read, Ended, Told, Newest
<1> DEFINE c == ReadText(buffer, pipe, n)
<1>2. /\ update' = [madeProgress |-> T!ProgressRecordCount(c) > T!ProgressRecordCount(buffer),
                    fraction |-> T!ProgressFraction(c)]
      /\ buffer' = T!TailOf(c)
  BY <1>1 DEF T!AppendChunk, ReadText
<1>3. /\ pipe \in Seq(T!Written) /\ buffer \in Seq(STRING)
      /\ T!IsWhole(buffer \o T!Symbols(pipe), Len(buffer), pipe)
      /\ T!ProgressFraction(buffer) \in {T!NoFraction, latest}
  BY DEF T!TrackerInvariant
<1>4. BufferTail \in Nat
  BY LinesAssumption DEF T!LinesAreWhole
<1>5. /\ buffer' \in Seq(STRING) /\ pipe' \in Seq(T!Written)
      /\ T!IsWhole(buffer' \o T!Symbols(pipe'), Len(buffer'), pipe')
      /\ T!ProgressFraction(buffer') \in {T!NoFraction, T!ProgressFraction(c)}
  BY <1>1, <1>2, <1>3, <1>4, ReadRest
<1>6. /\ T!ProgressRecordCount(c) > T!ProgressRecordCount(buffer) <=> Ended(pipe, n) # {}
      /\ T!ProgressFraction(c) \in {T!NoFraction, latest'}
      /\ Told(pipe, n) # {} => T!ProgressFraction(c) = latest'
  BY <1>1, <1>3, ReadTells
<1> HIDE DEF c
<1>7. T!RecordsAreSeen'
  <2>1. new' # {} <=> Ended(pipe, n) # {}
    BY <1>1
  <2>2. update'.madeProgress = (T!ProgressRecordCount(c) > T!ProgressRecordCount(buffer))
    BY <1>2
  <2> QED
    BY <1>6, <2>1, <2>2 DEF T!RecordsAreSeen
<1>8. T!FractionIsLatest'
  <2>1. update'.fraction = T!ProgressFraction(c)
    BY <1>2
  <2>2. new' \ {T!NoFraction} # {} => Told(pipe, n) # {}
    BY <1>1 DEF Told
  <2> QED
    BY <1>6, <2>1, <2>2 DEF T!FractionIsLatest
<1>9. (T!ProgressFraction(buffer) \in {T!NoFraction, latest})'
  BY <1>5, <1>6
<1> QED
  BY <1>5, <1>7, <1>8, <1>9 DEF T!TrackerInvariant

\* The tracker's inductive invariant, for any lines of which each is whole, any division into
\* reads and any size of the buffer that each record fits into.
THEOREM TrackerIsInvariant == T!Spec => []T!TrackerInvariant
<1>1. T!TrackerInvariant /\ [T!Next]_(T!vars) => T!TrackerInvariant'
  <2> SUFFICES ASSUME T!TrackerInvariant, [T!Next]_(T!vars) PROVE T!TrackerInvariant'
    OBVIOUS
  <2>1. CASE T!Write
    BY <2>1, WriteKeepsTracker
  <2>2. CASE T!Read
    BY <2>2, ReadKeepsTracker
  <2>3. CASE UNCHANGED T!vars
    BY <2>3 DEF T!vars, T!TrackerInvariant, T!RecordsAreSeen, T!FractionIsLatest
  <2> QED
    BY <2>1, <2>2, <2>3 DEF T!Next
<1> QED
  BY <1>1, InitTracker, PTL DEF T!Spec

\* So progress is marked in exactly the reads that complete a record, and the host is told
\* the latest fraction (progress.cpp:102, watchdog.cpp:44, child.cpp:611).
THEOREM UpdatesAreTrue == AcquisitionSpec => []UpdateIsTrue
<1>1. T!TrackerInvariant => UpdateIsTrue
  BY DEF T!TrackerInvariant, UpdateIsTrue
<1> QED
  BY <1>1, LoopImplementsBoth, TrackerIsInvariant, PTL
=============================================================================
