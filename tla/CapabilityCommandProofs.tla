---------------------- MODULE CapabilityCommandProofs ----------------------
(***************************************************************************)
(* detect and capabilities for every set of scanners and addresses and     *)
(* every budget that fits: the time stays under the host's ceiling, no     *)
(* scanner of another model is opened, the address cache stays live, the   *)
(* scanner that is opened is the one asked for, the token names the one    *)
(* whose options it holds, and a stopped detect says so.                   *)
(***************************************************************************)
EXTENDS CapabilityCommand, FiniteSetTheorems, TLAPS

\* The numbers of the source satisfy what the model assumes of its constants
\* (budget.cpp:28-42, budget.h:54 and 89, child.cpp:31, backend.cpp:31).
LEMMA SourceValuesFit ==
  BudgetsFit(SourceTotals, SourceCeilings, 180000, 500, 500, 800)
BY DEF BudgetsFit, SourceTotals, SourceCeilings, Budgeted

-----------------------------------------------------------------------------
(***************************************************************************)
(* Time.                                                                   *)
(***************************************************************************)
\* nextCallTimeout never reaches past the budget.
LEMMA TimeoutInBudget ==
  ASSUME NEW c \in Budgeted, NEW t \in Nat, MayCall(c, t)
  PROVE  /\ NextCallTimeout(c, t) \in Nat
         /\ t + NextCallTimeout(c, t) <= TotalBudget[c]
BY BudgetAssumption DEF BudgetsFit, MayCall, NextCallTimeout, Remaining

\* A call ends within the budget, or is refused, cancelled or timed out and ends
\* within the grace.
LEMMA CallTime ==
  ASSUME TypeOK, NEW n, RunScanimage(n)
  PROVE  /\ now' \in Nat
         /\ \/ now' = now /\ ret'.code \in {"Cancelled", "Timeout"}
            \/ now' <= TotalBudget[command]
            \/ /\ now' <= TotalBudget[command] + TimeoutGrace
               /\ ret'.code \in {"Cancelled", "Timeout"}
         /\ ret'.stale => ret'.code \notin {"Cancelled", "Timeout"}
<1>0. /\ command \in Budgeted /\ command # "scan" /\ now \in Nat
      /\ TimeoutGrace \in Nat /\ TotalBudget[command] \in Nat
  BY BudgetAssumption DEF TypeOK, InputTypeOK, MemoryTypeOK, Budgeted, BudgetsFit
<1>1. CASE Refused
  BY <1>0, <1>1 DEF Refused, Error
<1>2. CASE Launched(n)
  <2>0. NextCallTimeout(command, now) \in Nat /\ now + NextCallTimeout(command, now) <= TotalBudget[command]
    BY <1>0, <1>2, TimeoutInBudget DEF Launched
  <2>1. CASE LaunchFails
    BY <1>0, <2>0, <2>1 DEF LaunchFails, Error
  <2>2. CASE TurnedAway(n)
    BY <1>0, <2>0, <2>2 DEF TurnedAway, Error
  <2>3. CASE Interrupted(n)
    <3>1. PICK t \in 0..(NextCallTimeout(command, now) + TimeoutGrace) : now' = now + t
      BY <1>0, <2>3 DEF Interrupted, Elapse
    <3>2. ret' = Error("Cancelled")
      BY <2>3 DEF Interrupted
    <3> QED
      BY <1>0, <2>0, <3>1, <3>2 DEF Error
  <2>4. CASE TimesOut(n)
    <3>1. PICK t \in 0..TimeoutGrace : now' = now + (NextCallTimeout(command, now) + t)
      BY <1>0, <2>4 DEF TimesOut, Elapse
    <3>2. ret' = Error("Timeout")
      BY <2>4 DEF TimesOut
    <3> QED
      BY <1>0, <2>0, <3>1, <3>2 DEF Error
  <2>5. CASE ExitsBadly(n)
    <3>1. PICK t \in 0..NextCallTimeout(command, now) : now' = now + t
      BY <1>0, <2>5 DEF ExitsBadly, Elapse
    <3>2. ret'.code \in {"Busy", "NotConnected", "IoFailure"}
      BY <2>5 DEF ExitsBadly
    <3> QED
      BY <1>0, <2>0, <3>1, <3>2
  <2>6. CASE Answers(n)
    <3>1. PICK t \in 0..NextCallTimeout(command, now) : now' = now + t
      BY <1>0, <2>6 DEF Answers, Elapse
    <3>2. ret' = Success
      BY <2>6 DEF Answers
    <3> QED
      BY <1>0, <2>0, <3>1, <3>2 DEF Success, Error
  <2> QED
    BY <1>2, <2>1, <2>2, <2>3, <2>4, <2>5, <2>6 DEF Launched
<1> QED
  BY <1>1, <1>2 DEF RunScanimage

-----------------------------------------------------------------------------
(***************************************************************************)
(* Types.                                                                  *)
(***************************************************************************)
LEMMA ErrorType ==
  /\ \A c \in Codes : Error(c) \in [code : Codes, stale : BOOLEAN]
  /\ Nothing \in [code : Codes, stale : BOOLEAN]
  /\ Success \in [code : Codes, stale : BOOLEAN]
BY DEF Error, Codes, Nothing, Success

LEMMA InitTypeOK == Init => TypeOK
<1> SUFFICES ASSUME Init PROVE TypeOK
  OBVIOUS
<1>0. InitDiscovery
  BY DEF Init
<1>1. InputTypeOK
  <2>1. command \in Budgeted /\ expected \in Models \cup {None}
    BY DEF Init, Budgeted
  <2> QED
    BY <1>0, <2>1 DEF InitDiscovery, InputTypeOK
<1>2. PlaceTypeOK
  <2>1. attempt = 0
    BY <1>0 DEF InitDiscovery
  <2>2. attempt \in 0..2
    BY <2>1
  <2> QED
    BY <1>0, <2>2, ZenonT(20) DEF InitDiscovery, PlaceTypeOK
<1>3. AnswerTypeOK
  BY <1>0 DEF InitDiscovery, AnswerTypeOK, NothingListed, Nothing, Error, Codes
<1>4. MemoryTypeOK
  BY <1>0 DEF InitDiscovery, MemoryTypeOK, NoCache, NothingKnown
<1>5. WorldTypeOK
  BY <1>0 DEF InitDiscovery, WorldTypeOK
<1>6. OutcomeTypeOK
  BY DEF Init, OutcomeTypeOK, NoToken, Codes
<1> QED
  BY <1>1, <1>2, <1>3, <1>4, <1>5, <1>6 DEF TypeOK

\* Opening a device keeps the bus well-typed.
LEMMA OpensType ==
  ASSUME WorldTypeOK, NEW d \in Device, Opens(d)
  PROVE  at' \in [Device -> Addr \cup {Off}] /\ opened' \subseteq Device
BY DEF WorldTypeOK, Opens

LEMMA MayOpenType ==
  ASSUME WorldTypeOK, NEW n, MayOpen(n)
  PROVE  at' \in [Device -> Addr \cup {Off}] /\ opened' \subseteq Device
<1>1. CASE UNCHANGED <<at, opened>>
  BY <1>1 DEF WorldTypeOK
<1>2. CASE \E d \in Named(n) : Opens(d)
  <2>1. PICK d \in Device : Opens(d)
    BY <1>2 DEF Named, Present
  <2> QED
    BY <2>1, OpensType
<1> QED
  BY <1>1, <1>2 DEF MayOpen

\* A call keeps every type.
LEMMA CallType ==
  ASSUME TypeOK, NEW n, RunScanimage(n), UNCHANGED <<result, token>>
  PROVE  TypeOK'
<1>1. InputTypeOK' /\ PlaceTypeOK' /\ OutcomeTypeOK'
  BY DEF TypeOK, InputTypeOK, PlaceTypeOK, OutcomeTypeOK, RunScanimage, control
<1>2. now' \in Nat
  BY CallTime
<1>3. MemoryTypeOK'
  <2>1. cache' \in {cache, NoCache} /\ known' = known
    BY DEF RunScanimage, Refused, Launched, NoteDeviceOpened
  <2> QED
    BY <1>2, <2>1 DEF TypeOK, MemoryTypeOK, NoCache
<1>4. AnswerTypeOK'
  <2>1. lastError' = lastError /\ (listed' = listed \/ \E S \in SUBSET Present : listed' = ListOf(S))
    BY DEF RunScanimage, Refused, Launched, LaunchFails, TurnedAway, Interrupted, TimesOut,
        ExitsBadly, Answers
  <2>2. listed' \in [Device -> Addr \cup {Off}]
    BY <2>1 DEF TypeOK, AnswerTypeOK, WorldTypeOK, ListOf
  <2>3. ret' \in [code : Codes, stale : BOOLEAN]
    <3>1. CASE ExitsBadly(n)
      BY <3>1 DEF ExitsBadly, Codes
    <3>2. CASE Refused \/ LaunchFails \/ TurnedAway(n) \/ Interrupted(n) \/ TimesOut(n) \/ Answers(n)
      <4>1. \E c \in Codes : ret' = Error(c)
        BY <3>2 DEF Refused, LaunchFails, TurnedAway, Interrupted, TimesOut, Answers, Success, Codes
      <4> QED
        BY <4>1, ErrorType
    <3> QED
      BY <3>1, <3>2 DEF RunScanimage, Launched
  <2> QED
    BY <2>1, <2>2, <2>3 DEF TypeOK, AnswerTypeOK
<1>5. WorldTypeOK'
  <2>0. WorldTypeOK
    BY DEF TypeOK
  <2>1. flag' \in BOOLEAN /\ late' \in BOOLEAN
    BY <2>0 DEF WorldTypeOK, RunScanimage, Refused, Launched, LaunchFails, TurnedAway,
        Interrupted, TimesOut, ExitsBadly, Answers
  <2>2. stopped' \subseteq {"Cancelled", "Timeout"} /\ complete' \in BOOLEAN
    BY <2>0 DEF WorldTypeOK, RunScanimage
  <2>3. /\ at' \in [Device -> Addr \cup {Off}] /\ opened' \subseteq Device
        /\ dumped' \in Device \cup {None}
    <3>1. CASE Refused
      BY <2>0, <3>1 DEF WorldTypeOK, Refused
    <3>2. CASE LaunchFails
      BY <2>0, <3>2 DEF WorldTypeOK, LaunchFails
    <3>3. CASE TurnedAway(n) \/ Interrupted(n) \/ TimesOut(n) \/ ExitsBadly(n)
      <4>1. MayOpen(n) /\ dumped' = dumped
        BY <3>3 DEF TurnedAway, Interrupted, TimesOut, ExitsBadly
      <4> QED
        BY <2>0, <4>1, MayOpenType DEF WorldTypeOK
    <3>4. CASE Answers(n)
      <4>1. CASE UNCHANGED <<at, opened, dumped>>
        BY <2>0, <4>1 DEF WorldTypeOK
      <4>2. CASE \E d \in Named(n) : Opens(d) /\ dumped' = d
        <5>1. PICK d \in Device : Opens(d) /\ dumped' = d
          BY <4>2 DEF Named, Present
        <5> QED
          BY <2>0, <5>1, OpensType
      <4> QED
        BY <3>4, <4>1, <4>2 DEF Answers
    <3> QED
      BY <3>1, <3>2, <3>3, <3>4 DEF RunScanimage, Launched
  <2> QED
    BY <2>1, <2>2, <2>3 DEF WorldTypeOK
<1> QED
  BY <1>1, <1>3, <1>4, <1>5 DEF TypeOK

\* The steps between two calls that go on or try again keep every type.
LEMMA RetryReadType ==
  ASSUME TypeOK, NEW e \in [code : Codes, stale : BOOLEAN], RetryRead(e)
  PROVE  InputTypeOK' /\ PlaceTypeOK' /\ AnswerTypeOK' /\ MemoryTypeOK' /\ WorldTypeOK'
<1>1. InputTypeOK' /\ WorldTypeOK'
  BY DEF TypeOK, RetryRead, Local, control, world, history, InputTypeOK, WorldTypeOK
<1>2. PlaceTypeOK'
  <2>1. attempt \in 0..2 /\ (attempt' = attempt \/ (attempt < 2 /\ attempt' = attempt + 1))
    BY DEF TypeOK, PlaceTypeOK, RetryRead
  <2>2. attempt' \in 0..2
    BY <2>1
  <2>3. /\ pc' \in {"list", "failed"} /\ purpose' \in {purpose, "resolve"}
        /\ want' \in {want, expected} /\ again' = FALSE /\ dev' = dev /\ found' = None
    BY DEF RetryRead, Ask
  <2> QED
    BY <2>2, <2>3, ZenonT(20) DEF TypeOK, PlaceTypeOK, InputTypeOK
<1>3. AnswerTypeOK'
  <2>1. ret' \in {e, Nothing} /\ lastError' = Nothing /\ listed' = listed
    BY DEF RetryRead, Ask
  <2> QED
    BY <2>1, ErrorType DEF TypeOK, AnswerTypeOK
<1>4. MemoryTypeOK'
  <2>1. RetryDelay \in Nat /\ now \in Nat
    BY BudgetAssumption DEF BudgetsFit, TypeOK, MemoryTypeOK
  <2>2. now' \in {now, now + RetryDelay}
    BY DEF RetryRead, Elapse
  <2>3. now' \in Nat
    BY <2>1, <2>2
  <2>4. cache' \in {cache, NoCache} /\ known' = known
    BY DEF RetryRead
  <2> QED
    BY <2>3, <2>4 DEF TypeOK, MemoryTypeOK, NoCache
<1> QED
  BY <1>1, <1>2, <1>3, <1>4

LEMMA ProceedType ==
  ASSUME TypeOK, NEW next \in {"dump", "redump", "dumped"}, NEW n \in Name \cup {None},
         NEW second \in BOOLEAN, Proceed(next, n, second)
  PROVE  InputTypeOK' /\ PlaceTypeOK' /\ AnswerTypeOK' /\ MemoryTypeOK' /\ WorldTypeOK'
<1>1. InputTypeOK' /\ WorldTypeOK' /\ MemoryTypeOK'
  BY DEF TypeOK, Proceed, Local, control, world, history, InputTypeOK, WorldTypeOK, MemoryTypeOK
<1>2. PlaceTypeOK'
  BY DEF TypeOK, Proceed, PlaceTypeOK
<1>3. AnswerTypeOK'
  BY DEF TypeOK, Proceed, AnswerTypeOK, Nothing, Error, Codes
<1> QED
  BY <1>1, <1>2, <1>3

LEMMA KnownFromType ==
  ASSUME TypeOK PROVE KnownFrom(listed) \in [Name \cup {None} -> Models \cup {None}]
<1>1. \A d \in Device : Model[d] \in Models
  BY DEF Models
<1> QED
  BY <1>1 DEF KnownFrom, TypeOK, MemoryTypeOK

\* The end of a listing keeps every type.
LEMMA ListedType ==
  ASSUME TypeOK, FormattedListed \/ LegacyListed, UNCHANGED <<result, token>>
  PROVE  TypeOK'
<1>1. InputTypeOK' /\ WorldTypeOK' /\ OutcomeTypeOK'
  BY DEF TypeOK, FormattedListed, LegacyListed, Local, control, world, history, InputTypeOK, WorldTypeOK,
      OutcomeTypeOK
<1>2. PlaceTypeOK'
  <2>1. /\ pc' \in {"listed", "legacy"}
        /\ UNCHANGED <<purpose, want, attempt, again, dev, found>>
    BY DEF FormattedListed, LegacyListed
  <2> QED
    BY <2>1, ZenonT(20) DEF TypeOK, PlaceTypeOK
<1>3. AnswerTypeOK'
  <2>1. ret' \in {ret, Nothing} /\ UNCHANGED <<lastError, listed>>
    BY DEF FormattedListed, LegacyListed
  <2> QED
    BY <2>1, ErrorType DEF TypeOK, AnswerTypeOK
<1>4. MemoryTypeOK'
  <2>1. known' \in {known, KnownFrom(listed)} /\ UNCHANGED <<cache, now>>
    BY DEF FormattedListed, LegacyListed
  <2> QED
    BY <2>1, KnownFromType DEF TypeOK, MemoryTypeOK
<1> QED
  BY <1>1, <1>2, <1>3, <1>4 DEF TypeOK

\* The device that currentDeviceAddress chooses is in the list.
LEMMA ChosenType ==
  ASSUME TypeOK, NEW d \in Chosen
  PROVE  /\ d \in Device /\ listed[d] \in Addr /\ NameFor(d) \in Name
         /\ want \in {None, Model[d]}
<1>1. d \in Listing /\ want \in {None, Model[d]}
  BY DEF Chosen, Exact, Matching
<1>2. d \in Device /\ listed[d] \in Addr
  BY <1>1 DEF Listing, TypeOK, AnswerTypeOK
<1> QED
  BY <1>1, <1>2 DEF NameFor, Name

LEMMA CurrentDeviceAddressType ==
  ASSUME TypeOK, CurrentDeviceAddress, UNCHANGED <<result, token>>
  PROVE  TypeOK'
<1>1. InputTypeOK' /\ WorldTypeOK' /\ OutcomeTypeOK'
  BY DEF TypeOK, CurrentDeviceAddress, Local, control, world, history, InputTypeOK, WorldTypeOK, OutcomeTypeOK
<1>2. /\ found' \in Name \cup {None}
      /\ cache' \in {NoCache} \cup [name : Name, want : Models \cup {None}, device : Device]
      /\ known' \in [Name \cup {None} -> Models \cup {None}]
      /\ ret' \in [code : Codes, stale : BOOLEAN]
  <2>1. CASE UNCHANGED <<found, cache, known, ret>>
    BY <2>1 DEF TypeOK, PlaceTypeOK, MemoryTypeOK, AnswerTypeOK
  <2>2. CASE \E d \in Chosen :
               /\ found' = NameFor(d)
               /\ cache' = [name |-> NameFor(d), want |-> want, device |-> d]
               /\ known' = [known EXCEPT ![NameFor(d)] = Model[d], ![listed[d]] = Model[d]]
               /\ ret' = ret
    <3>1. PICK d \in Chosen :
               /\ found' = NameFor(d)
               /\ cache' = [name |-> NameFor(d), want |-> want, device |-> d]
               /\ known' = [known EXCEPT ![NameFor(d)] = Model[d], ![listed[d]] = Model[d]]
               /\ ret' = ret
      BY <2>2
    <3>2. d \in Device /\ NameFor(d) \in Name /\ Model[d] \in Models
      BY ChosenType DEF Models
    <3>3. want \in Models \cup {None} /\ known \in [Name \cup {None} -> Models \cup {None}]
      BY DEF TypeOK, PlaceTypeOK, MemoryTypeOK
    <3> QED
      BY <3>1, <3>2, <3>3 DEF TypeOK, AnswerTypeOK
  <2>3. CASE /\ cache' = NoCache /\ UNCHANGED <<found, known>>
             /\ ret' \in {Error("Ambiguous"), Error("NotConnected")}
    BY <2>3, ErrorType DEF TypeOK, PlaceTypeOK, MemoryTypeOK, NoCache, Codes
  <2> QED
    BY <2>1, <2>2, <2>3 DEF CurrentDeviceAddress
<1>3. PlaceTypeOK'
  <2>1. pc' = "addressed" /\ UNCHANGED <<purpose, want, attempt, again, dev>>
    BY DEF CurrentDeviceAddress
  <2> QED
    BY <1>2, <2>1, ZenonT(20) DEF TypeOK, PlaceTypeOK
<1>4. AnswerTypeOK' /\ MemoryTypeOK'
  BY <1>2 DEF TypeOK, AnswerTypeOK, MemoryTypeOK, CurrentDeviceAddress, NothingListed
<1> QED
  BY <1>1, <1>3, <1>4 DEF TypeOK

\* Asking for a device list keeps every type.
LEMMA AskType ==
  ASSUME TypeOK, NEW who \in {"detect", "resolve", "reopen", "identity"}, NEW i \in Models \cup {None},
         Ask(who, i), Local, lastError' \in {lastError, ret}, cache' \in {cache, NoCache},
         UNCHANGED <<attempt, again, dev, found, listed, known, now, result, token>>
  PROVE  TypeOK'
<1>1. InputTypeOK' /\ WorldTypeOK' /\ OutcomeTypeOK'
  BY DEF TypeOK, Local, control, world, history, InputTypeOK, WorldTypeOK, OutcomeTypeOK
<1>2. PlaceTypeOK'
  BY ZenonT(20) DEF TypeOK, PlaceTypeOK, Ask
<1>3. AnswerTypeOK' /\ MemoryTypeOK'
  BY ErrorType DEF TypeOK, AnswerTypeOK, MemoryTypeOK, Ask, NoCache
<1> QED
  BY <1>1, <1>2, <1>3 DEF TypeOK

LEMMA EndsType ==
  ASSUME TypeOK, NEW r \in Codes, Ends(r),
         token' \in [name : Name \cup {None}, identity : Models \cup {None}]
  PROVE  TypeOK'
<1>1. InputTypeOK' /\ WorldTypeOK' /\ MemoryTypeOK' /\ OutcomeTypeOK'
  BY DEF TypeOK, Ends, Local, control, world, history, InputTypeOK, WorldTypeOK, MemoryTypeOK, OutcomeTypeOK
<1>2. PlaceTypeOK'
  BY ZenonT(20) DEF TypeOK, PlaceTypeOK, Ends
<1>3. AnswerTypeOK'
  BY ErrorType DEF TypeOK, AnswerTypeOK, Ends, NothingListed
<1> QED
  BY <1>1, <1>2, <1>3 DEF TypeOK

LEMMA ListedIdentityType ==
  ASSUME TypeOK PROVE ListedIdentity \in Models \cup {None}
<1>1. \A d \in Listing : d \in Device
  BY DEF Listing
<1>2. \A d \in Device : Model[d] \in Models
  BY DEF Models
<1>3. CASE \E d \in Listing : listed[d] = dev
  <2>1. (CHOOSE d \in Listing : listed[d] = dev) \in Listing
    BY <1>3
  <2> QED
    BY <1>1, <1>2, <1>3, <2>1 DEF ListedIdentity
<1>4. CASE ~(\E d \in Listing : listed[d] = dev) /\ Cardinality(Listing) = 1
  <2>1. Listing # {}
    BY <1>4, FS_EmptySet
  <2>2. (CHOOSE d \in Listing : TRUE) \in Listing
    BY <2>1
  <2> QED
    BY <1>1, <1>2, <1>4, <2>2 DEF ListedIdentity
<1> QED
  BY <1>3, <1>4 DEF ListedIdentity

\* What follows an option dump or a resolved address: an attempt that ends, a step
\* on with a name, or another listing.
LEMMA AnswerActions ==
  ASSUME AddressResolved \/ OptionsDumped \/ SourceDumped \/ Reopened
  PROVE  \/ \E e \in {ret, lastError, Error("IoFailure")} : RetryRead(e)
         \/ \E next \in {"dump", "redump", "dumped"}, n \in {dev, found}, second \in BOOLEAN :
              Proceed(next, n, second)
         \/ pc = "redump" /\ dev # Selector /\ Reopen("reopen", expected)
<1>1. CASE AddressResolved
  BY <1>1 DEF AddressResolved
<1>2. CASE OptionsDumped
  BY <1>2 DEF OptionsDumped
<1>3. CASE SourceDumped
  BY <1>3 DEF SourceDumped
<1>4. CASE Reopened
  BY <1>4 DEF Reopened
<1> QED
  BY <1>1, <1>2, <1>3, <1>4

LEMMA AnswerType ==
  ASSUME TypeOK, AddressResolved \/ OptionsDumped \/ SourceDumped \/ Reopened,
         UNCHANGED <<result, token>>
  PROVE  TypeOK'
<1>0. OutcomeTypeOK'
  BY DEF TypeOK, OutcomeTypeOK
<1>1. CASE \E e \in {ret, lastError, Error("IoFailure")} : RetryRead(e)
  <2>1. PICK e \in {ret, lastError, Error("IoFailure")} : RetryRead(e)
    BY <1>1
  <2>2. e \in [code : Codes, stale : BOOLEAN]
    BY ErrorType DEF Codes, TypeOK, AnswerTypeOK
  <2> QED
    BY <1>0, <2>1, <2>2, RetryReadType DEF TypeOK
<1>2. CASE \E next \in {"dump", "redump", "dumped"}, n \in {dev, found}, second \in BOOLEAN :
             Proceed(next, n, second)
  <2>1. PICK next \in {"dump", "redump", "dumped"}, n \in {dev, found}, second \in BOOLEAN :
               Proceed(next, n, second)
    BY <1>2
  <2>2. n \in Name \cup {None}
    BY DEF TypeOK, PlaceTypeOK
  <2> QED
    BY <1>0, <2>1, <2>2, ProceedType DEF TypeOK
<1>3. CASE Reopen("reopen", expected)
  <2>1. expected \in Models \cup {None}
    BY DEF TypeOK, InputTypeOK
  <2> QED
    BY <1>3, <2>1, AskType DEF Reopen
<1> QED
  BY <1>1, <1>2, <1>3, AnswerActions

LEMMA DiscoveryType ==
  ASSUME TypeOK, DiscoveryStep, UNCHANGED <<result, token>>
  PROVE  TypeOK'
<1>1. CASE ListFormatted \/ ListLegacy \/ OptionsDump \/ SourceDump
  BY <1>1, CallType DEF ListFormatted, ListLegacy, OptionsDump, SourceDump
<1> QED
  BY <1>1, ListedType, CurrentDeviceAddressType, AnswerType DEF DiscoveryStep

LEMMA StartType ==
  ASSUME TypeOK, Start PROVE TypeOK'
<1>1. CASE Ask("detect", None) /\ UNCHANGED dev
  BY <1>1, AskType DEF Start
<1>2. CASE BeginOptionsDump
  <2>1. CASE expected # None
    <3>1. expected \in Models \cup {None}
      BY DEF TypeOK, InputTypeOK
    <3>2. Ask("resolve", expected) /\ UNCHANGED dev
      BY <1>2, <2>1 DEF BeginOptionsDump
    <3> QED
      BY <3>1, <3>2, AskType DEF Start
  <2>2. CASE expected = None
    <3>1. pc' = "dump" /\ dev' = raw /\ ret' = Nothing /\ UNCHANGED <<purpose, want>>
      BY <1>2, <2>2 DEF BeginOptionsDump
    <3>2. raw \in Name
      BY DEF TypeOK, InputTypeOK, Name
    <3>3. InputTypeOK' /\ WorldTypeOK' /\ AnswerTypeOK' /\ MemoryTypeOK' /\ OutcomeTypeOK'
      BY <3>1, ErrorType DEF TypeOK, Start, Local, control, world, history, InputTypeOK, WorldTypeOK, AnswerTypeOK,
          MemoryTypeOK, OutcomeTypeOK
    <3>4. PlaceTypeOK'
      BY <3>1, <3>2, ZenonT(20) DEF TypeOK, Start, PlaceTypeOK
    <3> QED
      BY <3>3, <3>4 DEF TypeOK
  <2> QED
    BY <2>1, <2>2
<1> QED
  BY <1>1, <1>2 DEF Start

LEMMA EndingType ==
  ASSUME TypeOK, Fail \/ DetectEnds \/ Identify \/ IdentityListed PROVE TypeOK'
<1>0. ret.code \in Codes /\ "Ok" \in Codes
  BY DEF TypeOK, AnswerTypeOK, Codes
<1>1. CASE Fail \/ DetectEnds
  <2>1. token' \in [name : Name \cup {None}, identity : Models \cup {None}]
    BY <1>1 DEF Fail, DetectEnds, TypeOK, OutcomeTypeOK
  <2> QED
    BY <1>0, <1>1, <2>1, EndsType DEF Fail, DetectEnds
<1>2. CASE Identify
  <2>1. CASE Ends("Ok") /\ token' = [name |-> dev, identity |-> IF known[dev] # None THEN known[dev] ELSE expected]
             /\ (known[dev] # None \/ expected # None)
    <3>1. dev \in Name \cup {None} /\ expected \in Models \cup {None}
      BY DEF TypeOK, InputTypeOK, PlaceTypeOK
    <3>2. known[dev] \in Models \cup {None}
      BY <3>1 DEF TypeOK, MemoryTypeOK
    <3> QED
      BY <1>0, <2>1, <3>1, <3>2, EndsType
  <2>2. CASE /\ Ask("identity", None) /\ Local
             /\ UNCHANGED <<attempt, again, dev, found, lastError, listed, cache, known, now, result, token>>
    BY <2>2, AskType
  <2> QED
    BY <1>2, <2>1, <2>2 DEF Identify
<1>3. CASE IdentityListed
  <2>1. token' \in [name : Name \cup {None}, identity : Models \cup {None}]
    BY <1>3, ListedIdentityType DEF IdentityListed, TypeOK, PlaceTypeOK
  <2> QED
    BY <1>0, <1>3, <2>1, EndsType DEF IdentityListed
<1> QED
  BY <1>1, <1>2, <1>3

\* A cancellation request or a scanner that is switched off keeps every type.
LEMMA EnvironmentType ==
  ASSUME TypeOK, Environment PROVE TypeOK'
<1>1. InputTypeOK' /\ OutcomeTypeOK'
  BY DEF TypeOK, Environment, RequestCancellation, SwitchOff, control, InputTypeOK, OutcomeTypeOK
<1>2. PlaceTypeOK'
  BY ZenonT(20) DEF TypeOK, Environment, RequestCancellation, SwitchOff, PlaceTypeOK
<1>3. AnswerTypeOK' /\ MemoryTypeOK'
  BY DEF TypeOK, Environment, RequestCancellation, SwitchOff, AnswerTypeOK, MemoryTypeOK
<1>4. WorldTypeOK'
  BY DEF TypeOK, Environment, RequestCancellation, SwitchOff, history, WorldTypeOK, Present
<1> QED
  BY <1>1, <1>2, <1>3, <1>4 DEF TypeOK

LEMMA StepTypeOK == TypeOK /\ [Next]_vars => TypeOK'
<1> SUFFICES ASSUME TypeOK, [Next]_vars PROVE TypeOK'
  OBVIOUS
<1>1. CASE UNCHANGED vars
  BY <1>1 DEF vars, TypeOK, InputTypeOK, PlaceTypeOK, AnswerTypeOK, MemoryTypeOK, WorldTypeOK, OutcomeTypeOK
<1>2. CASE Command
  BY <1>2, DiscoveryType, StartType, EndingType DEF Command
<1> QED
  BY <1>1, <1>2, EnvironmentType DEF Next, Done

\* TypeOK of every reachable state.
THEOREM TypeCorrect == Spec => []TypeOK
<1> QED
  BY InitTypeOK, StepTypeOK, PTL DEF Spec

-----------------------------------------------------------------------------
(***************************************************************************)
(* BudgetScope is inductive.                                               *)
(***************************************************************************)
LEMMA CommandIsBudgeted ==
  ASSUME TypeOK
  PROVE  /\ command \in Budgeted /\ command # "scan" /\ now \in Nat
         /\ TotalBudget[command] \in Nat /\ TimeoutGrace \in Nat /\ RetryDelay \in Nat
         /\ TotalBudget[command] + TimeoutGrace + RetryDelay <= HostCeiling[command]
BY BudgetAssumption DEF TypeOK, InputTypeOK, MemoryTypeOK, Budgeted, BudgetsFit

LEMMA BudgetOrder ==
  ASSUME TypeOK
  PROVE  (InBudget => InGrace) /\ (InGrace => InDelay)
BY CommandIsBudgeted DEF InBudget, InGrace, InDelay

LEMMA BudgetKept ==
  ASSUME UNCHANGED <<command, now>>
  PROVE  InBudget' = InBudget /\ InGrace' = InGrace /\ InDelay' = InDelay
BY DEF InBudget, InGrace, InDelay

LEMMA PauseTime ==
  ASSUME TypeOK, InGrace, Elapse(RetryDelay), UNCHANGED command
  PROVE  InDelay'
BY CommandIsBudgeted DEF InGrace, InDelay, Elapse

LEMMA CallBudget ==
  ASSUME TypeOK, NEW n, RunScanimage(n)
  PROVE  /\ \/ InBudget' /\ InGrace' /\ InDelay'
            \/ InGrace' /\ InDelay' /\ ret'.code \in {"Cancelled", "Timeout"}
            \/ /\ ret'.code \in {"Cancelled", "Timeout"}
               /\ InBudget' = InBudget /\ InGrace' = InGrace /\ InDelay' = InDelay
         /\ ret'.stale => ret'.code \notin {"Cancelled", "Timeout"}
<1>1. command' = command
  BY DEF RunScanimage, control
<1>2. CASE now' = now /\ ret'.code \in {"Cancelled", "Timeout"}
  BY <1>1, <1>2, CallTime, BudgetKept
<1>3. CASE now' <= TotalBudget[command]
  <2>1. InBudget' /\ InGrace' /\ InDelay'
    BY <1>1, <1>3, CommandIsBudgeted, CallTime DEF InBudget, InGrace, InDelay
  <2> QED
    BY <2>1, CallTime
<1>4. CASE now' <= TotalBudget[command] + TimeoutGrace /\ ret'.code \in {"Cancelled", "Timeout"}
  <2>1. InGrace' /\ InDelay'
    BY <1>1, <1>4, CommandIsBudgeted, CallTime DEF InGrace, InDelay
  <2> QED
    BY <1>4, <2>1, CallTime
<1> QED
  BY <1>2, <1>3, <1>4, CallTime

LEMMA BudgetCall ==
  ASSUME TypeOK, BudgetScope, NEW n, RunScanimage(n)
  PROVE  BudgetScope'
<1>1. UNCHANGED <<pc, purpose>>
  BY DEF RunScanimage
<1> QED
  BY <1>1, CallBudget, ZenonT(20) DEF BudgetScope

\* Every other step but a pause leaves the time alone; it keeps BudgetScope if it
\* asks for nothing more once the grace is used up.
LEMMA BudgetLocal ==
  ASSUME BudgetScope, UNCHANGED <<command, now>>,
         InGrace \/ pc' \in {"failed", "done"} \/
           (purpose' = "resolve" /\ pc' \in Listings \cup {"addressed"}),
         \/ pc' \notin Listings \cup {"addressed", "dump", "redump"}
         \/ ret' = Nothing
         \/ InBudget
         \/ ret'.code \in {"Timeout", "Cancelled"},
         pc' # "redump" \/ ret' = Nothing
  PROVE  BudgetScope'
<1>1. InBudget' = InBudget /\ InGrace' = InGrace /\ InDelay' = InDelay
  BY BudgetKept
<1>2. ~Nothing.stale
  BY DEF Nothing, Error
<1> QED
  BY <1>1, <1>2 DEF BudgetScope

LEMMA BudgetRetry ==
  ASSUME TypeOK, BudgetScope, NEW e, RetryRead(e),
         RetryableRead(e) => InGrace
  PROVE  BudgetScope'
<1>0. command' = command
  BY DEF RetryRead, Local, control
<1>1. CASE pc' = "failed" /\ UNCHANGED now
  BY <1>0, <1>1, BudgetLocal DEF Listings
<1>2. CASE RetryableRead(e) /\ Elapse(RetryDelay) /\ Ask("resolve", expected)
  <2>1. InDelay'
    BY <1>0, <1>2, PauseTime
  <2> QED
    BY <1>2, <2>1 DEF BudgetScope, Ask, Listings
<1> QED
  BY <1>1, <1>2 DEF RetryRead

\* An answer is there, it is not of the kind that is final: it came in time.
LEMMA InTime ==
  ASSUME BudgetScope, pc \in Listings \cup {"addressed", "dump", "redump"}, ret # Nothing,
         ret.code \notin {"Timeout", "Cancelled"}
  PROVE  InBudget
BY DEF BudgetScope

LEMMA BudgetAnswers ==
  ASSUME TypeOK, BudgetScope, AddressResolved \/ OptionsDumped \/ SourceDumped \/ Reopened
  PROVE  BudgetScope'
<1>0. Success # Nothing /\ Success.code \notin {"Timeout", "Cancelled"} /\ ~RetryableRead(Nothing)
      /\ ~Success.stale
  BY DEF Success, Nothing, Error, RetryableRead
<1>1. InBudget => InGrace
  BY BudgetOrder
<1>2. CASE RetryRead(ret)
  <2>1. RetryableRead(ret) => ret # Nothing /\ ret.code \notin {"Timeout", "Cancelled"}
    BY <1>0 DEF RetryableRead
  <2>2. pc \in {"addressed", "dump", "redump"}
    BY <1>2 DEF AddressResolved, OptionsDumped, SourceDumped, Reopened
  <2> QED
    BY <1>1, <1>2, <2>1, <2>2, InTime, BudgetRetry
<1>3. CASE ret = Success
  <2>1. pc \in {"addressed", "dump", "redump"}
    BY DEF AddressResolved, OptionsDumped, SourceDumped, Reopened
  <2>2. InBudget
    BY <1>0, <1>3, <2>1, InTime
  <2>3. CASE \E e \in {ret, lastError, Error("IoFailure")} : RetryRead(e)
    BY <1>1, <2>2, <2>3, BudgetRetry
  <2>4. CASE \E next \in {"dump", "redump", "dumped"}, n \in {dev, found}, second \in BOOLEAN :
               Proceed(next, n, second)
    BY <1>1, <2>2, <2>4, BudgetLocal DEF Proceed, Local, control
  <2>5. CASE Reopen("reopen", expected)
    BY <1>1, <2>2, <2>5, BudgetLocal DEF Reopen, Ask, Local, control
  <2> QED
    BY <2>3, <2>4, <2>5, AnswerActions
<1>4. CASE Reopen("reopen", expected) /\ pc = "redump" /\ ret # Nothing /\ ret.stale
  <2>1. InBudget
    BY <1>4, InTime DEF BudgetScope
  <2> QED
    BY <1>1, <1>4, <2>1, BudgetLocal DEF Reopen, Ask, Local, control
<1>5. CASE RetryRead(lastError) /\ pc = "addressed" /\ purpose = "reopen"
  <2>1. InGrace
    BY <1>5 DEF BudgetScope
  <2> QED
    BY <1>5, <2>1, BudgetRetry
<1> QED
  BY <1>2, <1>3, <1>4, <1>5 DEF AddressResolved, OptionsDumped, SourceDumped, Reopened

LEMMA BudgetListed ==
  ASSUME TypeOK, BudgetScope, FormattedListed \/ LegacyListed \/ CurrentDeviceAddress
  PROVE  BudgetScope'
<1>1. UNCHANGED <<command, now, purpose>> /\ pc \in Listings /\ pc' \in {"listed", "legacy", "addressed"}
  BY DEF FormattedListed, LegacyListed, CurrentDeviceAddress, Local, control, Listings
<1>2. pc' # "redump" /\ pc' \in Listings \cup {"addressed"}
  BY <1>1 DEF Listings
<1>3. InGrace \/ purpose = "resolve"
  BY <1>1 DEF BudgetScope, Listings
<1>4. CASE ret' = Nothing
  BY <1>1, <1>2, <1>3, <1>4, BudgetLocal
<1>5. CASE ret' = ret
  <2>1. ret = Nothing \/ InBudget \/ ret.code \in {"Timeout", "Cancelled"}
    BY <1>1, InTime
  <2> QED
    BY <1>1, <1>2, <1>3, <1>5, <2>1, BudgetLocal
<1>6. CASE CurrentDeviceAddress /\ ret = Success
  <2>1. InBudget
    BY <1>1, <1>6, InTime DEF Success, Nothing, Error
  <2> QED
    BY <1>1, <1>2, <1>3, <2>1, BudgetLocal
<1> QED
  BY <1>4, <1>5, <1>6 DEF FormattedListed, LegacyListed, CurrentDeviceAddress

LEMMA BudgetStart ==
  ASSUME TypeOK, BudgetScope, Start
  PROVE  BudgetScope'
<1>1. InGrace /\ UNCHANGED <<command, now>>
  BY DEF BudgetScope, Start, Local, control, Listings
<1>2. ret' = Nothing
  BY DEF Start, Ask, BeginOptionsDump
<1> QED
  BY <1>1, <1>2, BudgetLocal

LEMMA BudgetEnds ==
  ASSUME TypeOK, BudgetScope, Fail \/ DetectEnds \/ Identify \/ IdentityListed
  PROVE  BudgetScope'
<1>1. UNCHANGED <<command, now>> /\ ret' = Nothing
  BY DEF Fail, DetectEnds, Identify, IdentityListed, Ends, Ask, Local, control
<1>2. CASE pc' = "done"
  BY <1>1, <1>2, BudgetLocal
<1>3. CASE Identify
  <2>1. InGrace
    BY <1>3 DEF BudgetScope, Identify, Listings
  <2> QED
    BY <1>1, <2>1, BudgetLocal
<1> QED
  BY <1>2, <1>3 DEF Fail, DetectEnds, IdentityListed, Ends

LEMMA BudgetKeeps ==
  ASSUME BudgetScope, UNCHANGED <<command, now, pc, purpose, ret>>
  PROVE  BudgetScope'
<1>1. InBudget' = InBudget /\ InGrace' = InGrace /\ InDelay' = InDelay
  BY BudgetKept
<1> QED
  BY <1>1 DEF BudgetScope

LEMMA StepBudget == TypeOK /\ BudgetScope /\ [Next]_vars => BudgetScope'
<1> SUFFICES ASSUME TypeOK, BudgetScope, [Next]_vars PROVE BudgetScope'
  OBVIOUS
<1>1. CASE UNCHANGED vars \/ Environment
  <2>1. UNCHANGED <<command, now, pc, purpose, ret>>
    BY <1>1 DEF vars, Environment, RequestCancellation, SwitchOff, control
  <2> QED
    BY <2>1, BudgetKeeps
<1>2. CASE DiscoveryStep
  <2>1. CASE ListFormatted \/ ListLegacy \/ OptionsDump \/ SourceDump
    BY <2>1, BudgetCall DEF ListFormatted, ListLegacy, OptionsDump, SourceDump
  <2> QED
    BY <1>2, <2>1, BudgetListed, BudgetAnswers DEF DiscoveryStep
<1> QED
  BY <1>1, <1>2, BudgetStart, BudgetEnds DEF Next, Command, Done

LEMMA InitBudget == Init => BudgetScope
<1> SUFFICES ASSUME Init PROVE BudgetScope
  OBVIOUS
<1>1. TypeOK /\ now = 0 /\ pc = "start" /\ ret = Nothing
  BY InitTypeOK DEF Init, InitDiscovery
<1>2. InGrace /\ InDelay
  BY <1>1, CommandIsBudgeted DEF InGrace, InDelay
<1> QED
  BY <1>1, <1>2 DEF BudgetScope, Listings

\* budget.h:13-21, the host ceiling is never reached: whatever the calls take, with
\* the grace of the last one and the pause after it.
THEOREM CeilingIsKept == Spec => []CeilingKept
<1>1. TypeOK /\ BudgetScope => CeilingKept
  <2> SUFFICES ASSUME TypeOK, BudgetScope PROVE CeilingKept
    OBVIOUS
  <2>1. InDelay
    BY DEF BudgetScope
  <2>2. HostCeiling[command] \in Nat
    BY CommandIsBudgeted, BudgetAssumption DEF BudgetsFit
  <2> QED
    BY <2>1, <2>2, CommandIsBudgeted DEF InDelay, CeilingKept
<1> QED
  BY <1>1, InitTypeOK, InitBudget, StepTypeOK, StepBudget, PTL DEF Spec

-----------------------------------------------------------------------------
(***************************************************************************)
(* Which scanner a name opens.                                             *)
(***************************************************************************)
Scopes == ListScope /\ NameScope /\ OpensExpectedModel /\ CacheIsLive

NamesExpected(n) == Trusted(n) => \A d \in Named(n) : Model[d] = expected

LEMMA Codomains ==
  ASSUME TypeOK
  PROVE  /\ at \in [Device -> Addr \cup {Off}] /\ listed \in [Device -> Addr \cup {Off}]
         /\ Off \notin Addr /\ None \notin Addr /\ Off # None /\ Selector \notin Addr
         /\ Selector # None /\ None \notin Models
         /\ dev \in Addr \cup {Selector, None} /\ found \in Addr \cup {Selector, None}
<1>1. Off # None /\ Selector # None
  BY DEF Off, None, Selector
<1> QED
  BY <1>1, DiscoveryAssumption DEF TypeOK, WorldTypeOK, AnswerTypeOK, PlaceTypeOK, Name

\* The effect of a call on the bus and on the last device list.
LEMMA CallEffect ==
  ASSUME NEW n, RunScanimage(n)
  PROVE  /\ \/ UNCHANGED <<at, opened>>
            \/ /\ n # None /\ \E d \in Named(n) : Opens(d)
               /\ cache' = NoCache \/ (cache' = cache /\ cache.name = Selector)
         /\ cache' \in {cache, NoCache}
         /\ listed' = listed \/ (n = None /\ \E S \in SUBSET Present : listed' = ListOf(S))
         /\ complete' => complete /\ (Listing' = {} \/ Present \subseteq Listing')
<1>0. complete' => complete /\ (Listing' = {} \/ Present \subseteq Listing')
  BY DEF RunScanimage
<1>1. CASE Refused
  BY <1>0, <1>1 DEF Refused
<1>2. CASE Launched(n)
  <2>1. NoteDeviceOpened(n)
    BY <1>2 DEF Launched
  <2>2. \/ UNCHANGED <<at, opened>>
        \/ n # None /\ \E d \in Named(n) : Opens(d)
    BY <1>2 DEF Launched, LaunchFails, TurnedAway, Interrupted, TimesOut, ExitsBadly, Answers, MayOpen
  <2>3. listed' = listed \/ (n = None /\ \E S \in SUBSET Present : listed' = ListOf(S))
    BY <1>2 DEF Launched, LaunchFails, TurnedAway, Interrupted, TimesOut, ExitsBadly, Answers
  <2> QED
    BY <1>0, <2>1, <2>2, <2>3 DEF NoteDeviceOpened
<1> QED
  BY <1>1, <1>2 DEF RunScanimage

LEMMA OpensBus ==
  ASSUME TypeOK, NEW d \in Device, Opens(d), at[d] # Off
  PROVE  /\ \A e \in Device : e # d => at'[e] = at[e]
         /\ at'[d] # Off
         /\ \A e \in Device : e # d => at'[d] # at'[e] \/ at'[d] = at[d]
BY Codomains DEF Opens

\* Opening a scanner of the expected model leaves every name expected.
LEMMA OpensNames ==
  ASSUME TypeOK, NEW d \in Device, Opens(d), at[d] # Off, Model[d] = expected,
         NEW n, NamesExpected(n), UNCHANGED expected, complete' => complete
  PROVE  NamesExpected(n)'
BY OpensBus, Codomains DEF NamesExpected, Named, Present, Trusted

LEMMA CallScopes ==
  ASSUME TypeOK, SelectorScope, Scopes, NEW n, RunScanimage(n),
         (n = None /\ pc \in Listings) \/ (n = dev /\ pc \in {"dump", "redump"})
  PROVE  Scopes'
<1>0. UNCHANGED <<pc, purpose, want, dev, found, expected>>
  BY DEF RunScanimage, control
<1>n. pc # "addressed"
  BY DEF Listings
<1>1. CASE UNCHANGED <<at, opened>>
  <2>1. ListScope'
    <3>1. CASE listed' = listed
      BY <1>0, <1>1, <3>1, CallEffect DEF Scopes, ListScope, Listing, Present, NothingListed
    <3>2. CASE n = None /\ \E S \in SUBSET Present : listed' = ListOf(S)
      <4>1. pc \in Listings
        BY <3>2 DEF Scopes, NameScope
      <4>2. PICK S \in SUBSET Present : listed' = ListOf(S)
        BY <3>2
      <4>3. \A d \in Device : listed'[d] = at[d] \/ listed'[d] = Off
        BY <4>2 DEF ListOf
      <4>4. complete' /\ listed' # NothingListed => Present' \subseteq Listing'
        <5>1. Listing' = {} => listed' = NothingListed
          BY <4>2 DEF Listing, ListOf, NothingListed
        <5> QED
          BY <1>1, <5>1, CallEffect DEF Present
      <4> QED
        BY <1>0, <1>1, <4>1, <4>3, <4>4 DEF Scopes, ListScope
    <3> QED
      BY <3>1, <3>2, CallEffect
  <2>2. NameScope' /\ OpensExpectedModel'
    BY <1>0, <1>n, <1>1, CallEffect DEF Scopes, NameScope, OpensExpectedModel, Named, Present, Trusted
  <2>3. CacheIsLive'
    BY <1>1, CallEffect DEF Scopes, CacheIsLive
  <2> QED
    BY <2>1, <2>2, <2>3 DEF Scopes
<1>2. CASE /\ n # None /\ \E d \in Named(n) : Opens(d)
           /\ cache' = NoCache \/ (cache' = cache /\ cache.name = Selector)
  <2>1. n = dev /\ pc \in {"dump", "redump"} /\ listed = NothingListed
    BY <1>2 DEF Scopes, ListScope, Listings
  <2>2. PICK d \in Named(n) : Opens(d)
    BY <1>2
  <2>3. d \in Device /\ at[d] # Off
    BY <1>2, <2>1, <2>2, Codomains DEF Named, Present
  <2>4. listed' = NothingListed
    BY <1>2, <2>1, CallEffect
  <2>5. ListScope'
    <3>1. \A d1, e1 \in Device : at'[d1] = at'[e1] /\ at'[d1] # Off => d1 = e1
      BY <2>2, <2>3, OpensBus DEF Scopes, ListScope
    <3> QED
      BY <1>0, <2>1, <2>4, <3>1 DEF Scopes, ListScope, NothingListed, Listings
  <2>6. ASSUME expected = None PROVE NameScope' /\ OpensExpectedModel'
    BY <1>0, <1>n, <2>6 DEF Scopes, NameScope, OpensExpectedModel
  <2>7. ASSUME expected # None PROVE NameScope' /\ OpensExpectedModel'
    <3>0. complete' => complete
      BY CallEffect
    <3>1. Trusted(dev) => Model[d] = expected
      BY <2>1, <2>2, <2>7 DEF Scopes, NameScope
    <3>2. NamesExpected(dev)
      BY <2>7 DEF Scopes, NameScope, NamesExpected
    <3>3. NamesExpected(dev)' /\ NamesExpected(found)'
      <4>1. NamesExpected(found)'
        <5>1. found' = None
          BY <1>0, <1>n DEF SelectorScope
        <5>2. Named(None)' = {}
          BY <2>2, <2>3, Codomains, OpensBus DEF Named, Present, Opens
        <5> QED
          BY <5>1, <5>2 DEF NamesExpected, Named, Present
      <4>2. CASE Trusted(dev)
        BY <1>0, <2>2, <2>3, <3>0, <3>1, <3>2, <4>1, <4>2, OpensNames DEF NamesExpected
      <4>3. CASE ~Trusted(dev)
        BY <1>0, <3>0, <4>1, <4>3 DEF NamesExpected, Trusted
      <4> QED
        BY <4>2, <4>3
    <3>4. NameScope'
      BY <1>0, <1>n, <3>3 DEF Scopes, NameScope, NamesExpected
    <3>5. opened' = opened \cup {d}
      BY <2>2 DEF Opens
    <3>6. OpensExpectedModel'
      BY <1>0, <3>0, <3>1, <3>5 DEF Scopes, OpensExpectedModel, Trusted
    <3> QED
      BY <3>4, <3>6
  <2>8. CacheIsLive'
    BY <1>2 DEF CacheIsLive
  <2> QED
    BY <2>5, <2>6, <2>7, <2>8 DEF Scopes
<1> QED
  BY <1>1, <1>2, CallEffect

\* The name found by currentDeviceAddress names no scanner of another model.
LEMMA FoundNames ==
  ASSUME TypeOK, Scopes, pc = "listed", want = expected, expected # None, NEW d \in Chosen
  PROVE  Trusted(NameFor(d)) => \A e \in Named(NameFor(d)) : Model[e] = expected
<1>1. d \in Device /\ listed[d] \in Addr /\ Model[d] = expected /\ d \in Listing
  BY ChosenType, Codomains DEF Listing
<1>2. complete => \A e \in Present : e \in Listing
  BY <1>1, Codomains DEF Scopes, ListScope, NothingListed, Present, Listing
<1>3. CASE NameFor(d) = listed[d]
  <2>1. \A e \in Named(listed[d]) : e = d
    BY <1>1, Codomains DEF Named, Present, Listing, Scopes, ListScope
  <2> QED
    BY <1>1, <1>3, <2>1
<1>4. CASE NameFor(d) = Selector /\ Cardinality(Listing) = 1
  <2>1. IsFiniteSet(Listing)
    BY FS_Subset, DiscoveryAssumption DEF Listing
  <2>2. Listing = {d}
    BY <1>1, <1>4, <2>1, FS_Singleton
  <2> QED
    BY <1>1, <1>2, <1>4, <2>2 DEF Named, Trusted
<1> QED
  BY <1>3, <1>4 DEF NameFor

LEMMA NoNames == ASSUME TypeOK PROVE Named(None) = {}
BY Codomains DEF Named

\* The steps between two calls keep the scopes, as long as they use known names.
LEMMA ScopesLocal ==
  ASSUME TypeOK, Scopes, UNCHANGED <<expected, at, opened, complete>>,
         dev = Selector => dev' = Selector,
         listed' \in {listed, NothingListed}, pc' \in Listings \/ listed' = NothingListed,
         purpose' \in {"resolve", "reopen"} => want' = expected,
         purpose' # None \/ pc' \notin Listings \cup {"addressed"},
         pc' # "addressed", pc' \in {"dump", "redump"} => dev' # None,
         found' \in {found, None}, dev' \in {dev, found} \/ expected = None,
         cache' \in {cache, NoCache}
  PROVE  Scopes'
<1>1. ListScope'
  BY DEF Scopes, ListScope, Listing, Present, NothingListed
<1>2. NameScope'
  <2>1. \A n : Named(n)' = Named(n)
    BY DEF Named, Present
  <2>2. expected # None =>
          \A n \in {dev', found'} : Trusted(n) => \A d \in Named(n) : Model[d] = expected
    BY NoNames DEF Scopes, NameScope
  <2>3. \A n : (\A d \in Named(n)' : Model[d] = expected) <=> (\A d \in Named(n) : Model[d] = expected)
    BY <2>1
  <2> QED
    BY <2>2, <2>3 DEF NameScope, Named, Present, Trusted
<1>3. OpensExpectedModel' /\ CacheIsLive'
  BY DEF Scopes, OpensExpectedModel, CacheIsLive, Trusted
<1> QED
  BY <1>1, <1>2, <1>3 DEF Scopes

LEMMA ListedScopes ==
  ASSUME TypeOK, Scopes, FormattedListed \/ LegacyListed
  PROVE  Scopes'
<1>1. /\ UNCHANGED <<expected, at, opened, complete, listed, purpose, want, found, dev, cache>>
      /\ pc \in Listings /\ pc' \in {"listed", "legacy"}
  BY DEF FormattedListed, LegacyListed, Local, control, world, history, Listings
<1>2. purpose # None /\ (purpose \in {"resolve", "reopen"} => want = expected)
  BY <1>1 DEF Scopes, NameScope
<1> QED
  BY <1>1, <1>2, ScopesLocal DEF Listings

LEMMA AnswerScopes ==
  ASSUME TypeOK, SelectorScope, Scopes, AddressResolved \/ OptionsDumped \/ SourceDumped \/ Reopened
  PROVE  Scopes'
<1>1. UNCHANGED <<expected, at, opened, complete, listed>> /\ pc \in {"addressed", "dump", "redump"}
      /\ listed = NothingListed
  BY DEF AddressResolved, OptionsDumped, SourceDumped, Reopened, RetryRead, Proceed, Reopen, Local,
      control, world, history, Scopes, ListScope, Listings
<1>2. purpose \in {"resolve", "reopen"} => want = expected
  BY DEF Scopes, NameScope
<1>3. CASE \E e \in {ret, lastError, Error("IoFailure")} : RetryRead(e)
  <2>1. PICK e \in {ret, lastError, Error("IoFailure")} : RetryRead(e)
    BY <1>3
  <2>2. /\ \/ pc' = "list" /\ purpose' = "resolve" /\ want' = expected
           \/ pc' = "failed" /\ UNCHANGED <<purpose, want>>
        /\ found' = None /\ dev' = dev /\ cache' \in {cache, NoCache}
    BY <2>1 DEF RetryRead, Ask
  <2> QED
    BY <1>1, <1>2, <2>2, ScopesLocal DEF Listings, None
<1>4. CASE \E next \in {"dump", "redump", "dumped"}, n \in {dev, found}, second \in BOOLEAN :
             Proceed(next, n, second)
  <2>1. PICK next \in {"dump", "redump", "dumped"}, n \in {dev, found}, second \in BOOLEAN :
               Proceed(next, n, second)
    BY <1>4
  <2>2. pc' = next /\ dev' = n /\ found' = None /\ UNCHANGED <<purpose, want, cache>>
    BY <2>1 DEF Proceed
  <2>3. next \notin Listings \cup {"addressed"}
    BY DEF Listings
  <2>4. dev' # None
    BY <1>4, <2>2 DEF AddressResolved, OptionsDumped, SourceDumped, Reopened, RetryRead, Proceed,
        Reopen, Ask, Scopes, NameScope
  <2>5. dev = Selector => dev' = Selector
    BY <1>1, <2>2 DEF AddressResolved, OptionsDumped, SourceDumped, Reopened, RetryRead, Proceed,
        Reopen, Ask, SelectorScope
  <2> QED
    BY <1>1, <1>2, <2>2, <2>3, <2>4, <2>5, ScopesLocal
<1>5. CASE Reopen("reopen", expected)
  <2>1. pc' = "list" /\ purpose' = "reopen" /\ want' = expected /\ cache' = NoCache
        /\ UNCHANGED <<dev, found>>
    BY <1>5 DEF Reopen, Ask
  <2> QED
    BY <1>1, <2>1, ScopesLocal DEF Listings, None
<1> QED
  BY <1>3, <1>4, <1>5, AnswerActions

LEMMA AddressScopes ==
  ASSUME TypeOK, Scopes, CurrentDeviceAddress
  PROVE  Scopes'
<1>1. /\ UNCHANGED <<expected, at, opened, complete, purpose, want, dev>>
      /\ pc = "listed" /\ pc' = "addressed"
      /\ listed' = NothingListed /\ purpose # None
      /\ (purpose \in {"resolve", "reopen"} => want = expected)
  BY DEF CurrentDeviceAddress, Local, control, world, history, None, Scopes, NameScope
<1>2. want = expected
  BY <1>1 DEF CurrentDeviceAddress, TypeOK, PlaceTypeOK
<1>3. ListScope' /\ OpensExpectedModel'
  BY <1>1 DEF Scopes, ListScope, Listing, Present, NothingListed, OpensExpectedModel, Listings, Trusted
<1>4. CASE UNCHANGED <<found, cache>> /\ ret' # Success
  <2>1. NameScope'
    BY <1>1, <1>4 DEF Scopes, NameScope, Named, Present, Trusted
  <2>2. CacheIsLive'
    BY <1>1, <1>4 DEF Scopes, CacheIsLive
  <2> QED
    BY <1>3, <2>1, <2>2 DEF Scopes
<1>5. CASE \E d \in Chosen : /\ found' = NameFor(d)
                             /\ cache' = [name |-> NameFor(d), want |-> want, device |-> d]
  <2>1. PICK d \in Chosen : /\ found' = NameFor(d)
                            /\ cache' = [name |-> NameFor(d), want |-> want, device |-> d]
    BY <1>5
  <2>2. found' # None /\ d \in Device /\ listed[d] \in Addr
    BY <2>1, ChosenType, Codomains, DiscoveryAssumption DEF Name
  <2>3. NameScope'
    <3>1. expected # None /\ Trusted(NameFor(d)) => \A e \in Named(NameFor(d)) : Model[e] = expected
      BY <1>1, <1>2, FoundNames
    <3> QED
      BY <1>1, <2>1, <2>2, <3>1 DEF Scopes, NameScope, Named, Present, Trusted
  <2>4. CacheIsLive'
    <3>1. at[d] \in {listed[d], Off}
      BY <2>2, Codomains DEF Scopes, ListScope
    <3> QED
      BY <1>1, <2>1, <3>1 DEF CacheIsLive, NameFor
  <2> QED
    BY <1>3, <2>3, <2>4 DEF Scopes
<1>6. CASE cache' = NoCache /\ UNCHANGED found /\ ret' \in {Error("Ambiguous"), Error("NotConnected")}
  <2>1. ret' # Success
    BY <1>6 DEF Success, Error
  <2>2. NameScope'
    BY <1>1, <1>6, <2>1 DEF Scopes, NameScope, Named, Present, Trusted
  <2> QED
    BY <1>3, <1>6, <2>2 DEF Scopes, CacheIsLive
<1> QED
  BY <1>4, <1>5, <1>6 DEF CurrentDeviceAddress

LEMMA StartScopes ==
  ASSUME TypeOK, SelectorScope, Scopes, Start PROVE Scopes'
<1>1. /\ UNCHANGED <<expected, at, opened, complete, listed, found, cache>> /\ listed = NothingListed
      /\ dev # Selector
  BY DEF Start, Local, control, world, history, Scopes, ListScope, Listings, SelectorScope
<1>2. CASE Ask("detect", None) /\ UNCHANGED dev
  BY <1>1, <1>2, ScopesLocal DEF Ask, Listings, None
<1>3. CASE BeginOptionsDump /\ expected = None
  <2>1. pc' = "dump" /\ dev' = raw /\ UNCHANGED <<purpose, want>>
    BY <1>3 DEF BeginOptionsDump
  <2>2. dev' # None
    BY <2>1, Codomains DEF TypeOK, InputTypeOK
  <2>3. purpose \in {"resolve", "reopen"} => want = expected
    BY DEF Scopes, NameScope
  <2> QED
    BY <1>1, <1>3, <2>1, <2>2, <2>3, ScopesLocal DEF Listings
<1>4. CASE BeginOptionsDump /\ expected # None
  <2>1. Ask("resolve", expected) /\ UNCHANGED dev
    BY <1>4 DEF BeginOptionsDump
  <2> QED
    BY <1>1, <2>1, ScopesLocal DEF Ask, Listings, None
<1> QED
  BY <1>2, <1>3, <1>4 DEF Start

LEMMA EndingScopes ==
  ASSUME TypeOK, Scopes, Fail \/ DetectEnds \/ Identify \/ IdentityListed PROVE Scopes'
<1>1. UNCHANGED <<expected, at, opened, complete, dev, found, cache>>
  BY DEF Fail, DetectEnds, Identify, IdentityListed, Ends, Local, control, world, history
<1>2. purpose \in {"resolve", "reopen"} => want = expected
  BY DEF Scopes, NameScope
<1>3. CASE pc' = "done" /\ listed' = NothingListed /\ UNCHANGED <<purpose, want>>
  BY <1>1, <1>2, <1>3, ScopesLocal DEF Listings
<1>4. CASE Identify /\ Ask("identity", None) /\ UNCHANGED listed
  <2>1. listed = NothingListed
    BY <1>4 DEF Identify, Scopes, ListScope, Listings
  <2> QED
    BY <1>1, <1>4, <2>1, ScopesLocal DEF Ask, Listings, None
<1> QED
  BY <1>3, <1>4 DEF Fail, DetectEnds, Identify, IdentityListed, Ends

\* A scanner that is switched off has no name and is in no new list.
LEMMA EnvironmentScopes ==
  ASSUME TypeOK, Scopes, Environment PROVE Scopes'
<1>0. UNCHANGED <<pc, purpose, want, dev, found, ret, listed, cache, expected, opened, complete>>
  BY DEF Environment, RequestCancellation, SwitchOff, control, history
<1>1. CASE UNCHANGED at
  BY <1>0, <1>1 DEF Scopes, ListScope, NameScope, Listing, Named, Present, OpensExpectedModel, CacheIsLive,
      Trusted
<1>2. CASE SwitchOff
  <2>1. PICK d \in Device : at' = [at EXCEPT ![d] = Off]
    BY <1>2 DEF SwitchOff, Present
  <2>2. /\ at'[d] = Off
        /\ \A e \in Device : e # d => at'[e] = at[e]
        /\ \A e \in Device : at'[e] # Off => at'[e] = at[e] /\ e # d
    BY <2>1, Codomains
  <2>3. ListScope'
    BY <1>0, <2>2 DEF Scopes, ListScope, Listing, Present, NothingListed
  <2>4. CacheIsLive'
    <3>1. CASE cache = NoCache
      BY <1>0, <3>1 DEF CacheIsLive
    <3>2. CASE cache.device \in Device
      BY <1>0, <2>2, <3>2 DEF Scopes, CacheIsLive
    <3> QED
      BY <3>1, <3>2 DEF TypeOK, MemoryTypeOK
  <2>5. NameScope'
    <3>1. \A n : n # Off => Named(n)' \subseteq Named(n)
      BY <2>2 DEF Named, Present
    <3>2. dev # Off /\ found # Off
      BY Codomains, DiscoveryAssumption DEF TypeOK, PlaceTypeOK
    <3>3. expected # None =>
            \A n \in {dev, found} : Trusted(n) => \A e \in Named(n)' : Model[e] = expected
      BY <3>1, <3>2 DEF Scopes, NameScope
    <3> QED
      BY <1>0, <3>3 DEF Scopes, NameScope, Named, Present, Trusted
  <2> QED
    BY <1>0, <2>3, <2>4, <2>5 DEF Scopes, OpensExpectedModel, Trusted
<1> QED
  BY <1>1, <1>2 DEF Environment, RequestCancellation

\* The bare backend name is taken in the last attempt and kept.
LEMMA StepSelector == TypeOK /\ SelectorScope /\ [Next]_vars => SelectorScope'
<1> SUFFICES ASSUME TypeOK, SelectorScope, [Next]_vars PROVE SelectorScope'
  OBVIOUS
<1>1. CASE UNCHANGED vars \/ Done
  BY <1>1 DEF vars, Done, SelectorScope
<1>2. CASE ListFormatted \/ ListLegacy \/ OptionsDump \/ SourceDump \/ Environment
  BY <1>2 DEF ListFormatted, ListLegacy, OptionsDump, SourceDump, RunScanimage, Environment,
      RequestCancellation, SwitchOff, SelectorScope
<1>3. CASE FormattedListed \/ LegacyListed
  BY <1>3 DEF FormattedListed, LegacyListed, SelectorScope, Listings
<1>4. CASE CurrentDeviceAddress
  <2>1. /\ UNCHANGED <<dev, purpose, attempt>> /\ pc' = "addressed" /\ pc = "listed"
        /\ purpose \in {"resolve", "reopen"}
    BY <1>4 DEF CurrentDeviceAddress, TypeOK, PlaceTypeOK, None
  <2>2. found' = found \/ \E d \in Chosen : found' = NameFor(d)
    BY <1>4 DEF CurrentDeviceAddress
  <2>3. \A d \in Chosen : NameFor(d) = Selector => purpose = "resolve" /\ attempt = 2
    BY <2>1, ChosenType, Codomains DEF NameFor, AllowSingleBackendSelector
  <2> QED
    BY <2>1, <2>2, <2>3, Codomains DEF SelectorScope, Listings
<1>5. CASE AddressResolved \/ OptionsDumped \/ SourceDumped \/ Reopened
  <2>1. CASE \E e \in {ret, lastError, Error("IoFailure")} : RetryRead(e)
    <3>1. dev = Selector => pc \in {"dump", "redump"} /\ attempt = 2
      BY <1>5 DEF AddressResolved, OptionsDumped, SourceDumped, Reopened, SelectorScope, Listings
    <3>2. /\ dev' = dev /\ found' = None
          /\ attempt = 2 => pc' = "failed" /\ attempt' = 2
      BY <2>1 DEF RetryRead
    <3> QED
      BY <3>1, <3>2, Codomains DEF SelectorScope
  <2>2. CASE \E next \in {"dump", "redump", "dumped"}, n \in {dev, found}, second \in BOOLEAN :
               Proceed(next, n, second)
    BY <1>5, <2>2, Codomains DEF Proceed, SelectorScope
  <2>3. CASE pc = "redump" /\ dev # Selector /\ Reopen("reopen", expected)
    BY <2>3, Codomains DEF Reopen, Ask, SelectorScope
  <2> QED
    BY <1>5, <2>1, <2>2, <2>3, AnswerActions
<1>6. CASE Start
  <2>1. dev # Selector /\ dev' # Selector /\ found' = found /\ found = None
    BY <1>6, Codomains DEF Start, BeginOptionsDump, SelectorScope, Listings, TypeOK, InputTypeOK
  <2> QED
    BY <2>1, Codomains DEF SelectorScope
<1>7. CASE Fail \/ DetectEnds \/ Identify \/ IdentityListed
  BY <1>7, Codomains DEF Fail, DetectEnds, Identify, IdentityListed, Ends, Ask, SelectorScope, Listings
<1> QED
  BY <1>1, <1>2, <1>3, <1>4, <1>5, <1>6, <1>7 DEF Next, Command, DiscoveryStep

LEMMA StepScopes == TypeOK /\ SelectorScope /\ Scopes /\ [Next]_vars => Scopes'
<1> SUFFICES ASSUME TypeOK, SelectorScope, Scopes, [Next]_vars PROVE Scopes'
  OBVIOUS
<1>1. CASE UNCHANGED vars
  BY <1>1 DEF vars, Scopes, ListScope, NameScope, Listing, Named, Present, OpensExpectedModel,
      CacheIsLive, Trusted
<1>2. CASE DiscoveryStep
  <2>1. CASE ListFormatted \/ ListLegacy
    BY <2>1, CallScopes DEF ListFormatted, ListLegacy, Listings
  <2>2. CASE OptionsDump \/ SourceDump
    BY <2>2, CallScopes DEF OptionsDump, SourceDump
  <2> QED
    BY <1>2, <2>1, <2>2, ListedScopes, AddressScopes, AnswerScopes DEF DiscoveryStep
<1> QED
  BY <1>1, <1>2, StartScopes, EndingScopes, EnvironmentScopes DEF Next, Command, Done

LEMMA InitScopes == Init => Scopes
<1> SUFFICES ASSUME Init PROVE Scopes
  OBVIOUS
<1>0. InitDiscovery /\ TypeOK
  BY InitTypeOK DEF Init
<1>1. ListScope
  BY <1>0 DEF InitDiscovery, ListScope, NothingListed, Listings
<1>2. NameScope
  BY <1>0, NoNames DEF InitDiscovery, NameScope, Listings, None
<1> QED
  BY <1>0, <1>1, <1>2 DEF InitDiscovery, Scopes, OpensExpectedModel, CacheIsLive

LEMMA InitSelector == Init => SelectorScope
BY DEF Init, InitDiscovery, SelectorScope, None, Selector

LEMMA ScopesHold == Spec => [](TypeOK /\ BudgetScope /\ SelectorScope /\ Scopes)
BY InitTypeOK, InitBudget, InitSelector, InitScopes, StepTypeOK, StepBudget, StepSelector, StepScopes, PTL
   DEF Spec

\* backend.cpp:285-378: while addresses change under the names in use, no scanner of
\* another model than the host named is opened, unless it answers to the bare backend name
\* that was taken from a list it was missing in (backend.cpp:343).
THEOREM ExpectedModelOpened == Spec => []OpensExpectedModel
<1>1. Scopes => OpensExpectedModel
  BY DEF Scopes
<1> QED
  BY <1>1, ScopesHold, PTL

\* backend.cpp:213-227: no entry of the address cache outlives its address.
THEOREM CacheStaysLive == Spec => []CacheIsLive
<1>1. Scopes => CacheIsLive
  BY DEF Scopes
<1> QED
  BY <1>1, ScopesHold, PTL

-----------------------------------------------------------------------------
(***************************************************************************)
(* Every step advances.                                                    *)
(***************************************************************************)
\* Where each place is.
LEMMA Places ==
  ASSUME NEW second
  PROVE  /\ \A who : /\ Place("start", who, second) = 0
                     /\ Place("dump", who, second) = 5
                     /\ Place("redump", who, second) = IF second THEN 11 ELSE 6
                     /\ Place("dumped", who, second) = 12
                     /\ Place("failed", who, second) = 17
                     /\ Place("done", who, second) = 18
         /\ \A who \in {"detect", "resolve", "reopen", "identity"} :
              /\ Place("list", who, second) \in {1, 7, 13}
              /\ Place("legacy", who, second) = Place("list", who, second) + 1
              /\ Place("listed", who, second) = Place("list", who, second) + 2
              /\ Place("addressed", who, second) = Place("list", who, second) + 3
         /\ Place("list", "detect", second) = 1
         /\ Place("list", "resolve", second) = 1
         /\ Place("list", "reopen", second) = 7
         /\ Place("list", "identity", second) = 13
BY DEF Place, Within, Asked, Beyond

\* There are 19 places.
LEMMA PlaceRange ==
  ASSUME NEW where \in {"start", "list", "legacy", "listed", "addressed", "dump", "redump", "dumped",
                        "failed", "done"},
         NEW who \in {None, "detect", "resolve", "reopen", "identity"}, NEW second \in BOOLEAN,
         who # None \/ where \notin Listings \cup {"addressed"}
  PROVE  Place(where, who, second) \in 0..18
BY Places DEF Listings

\* The first to differ of attempt, place and answer decides.
LEMMA Lexicographic ==
  ASSUME NEW a \in 0..2, NEW b \in 0..2, NEW p \in 0..18, NEW q \in 0..18, NEW i \in 0..1, NEW j \in 0..1,
         b > a \/ (b = a /\ q > p) \/ (b = a /\ q = p /\ j > i)
  PROVE  2 * (19 * b + q) + j > 2 * (19 * a + p) + i /\ 2 * (19 * b + q) + j < 2 * 57
OBVIOUS

Answered(e) == IF e = Nothing THEN 0 ELSE 1

\* A later attempt, or a later place of this attempt, or the answer of a call.
LEMMA Advances ==
  ASSUME TypeOK, TypeOK', NameScope, NameScope',
         \/ attempt' = attempt + 1
         \/ attempt' = attempt /\ Place(pc, purpose, again)' > Place(pc, purpose, again)
         \/ UNCHANGED <<attempt, pc, purpose, again>> /\ ret = Nothing /\ ret' # Nothing
  PROVE  Position' > Position /\ Position' < 2 * 57
<1>1. Place(pc, purpose, again) \in 0..18 /\ Place(pc', purpose', again') \in 0..18
  BY PlaceRange DEF TypeOK, PlaceTypeOK, NameScope
<1>2. attempt \in 0..2 /\ attempt' \in 0..2
  BY DEF TypeOK, PlaceTypeOK
<1>3. Answered(ret) \in 0..1 /\ Answered(ret') \in 0..1
  BY DEF Answered
<1>4. \/ attempt' > attempt
      \/ attempt' = attempt /\ Place(pc', purpose', again') > Place(pc, purpose, again)
      \/ /\ attempt' = attempt /\ Place(pc', purpose', again') = Place(pc, purpose, again)
         /\ Answered(ret') > Answered(ret)
  <2>1. ret = Nothing /\ ret' # Nothing => Answered(ret') > Answered(ret)
    BY DEF Answered
  <2> QED
    BY <1>2, <2>1
<1>5. /\ Position = 2 * (19 * attempt + Place(pc, purpose, again)) + Answered(ret)
      /\ Position' = 2 * (19 * attempt' + Place(pc', purpose', again')) + Answered(ret')
  BY DEF Position, Answered
<1>6. /\ 2 * (19 * attempt' + Place(pc', purpose', again')) + Answered(ret')
           > 2 * (19 * attempt + Place(pc, purpose, again)) + Answered(ret)
      /\ 2 * (19 * attempt' + Place(pc', purpose', again')) + Answered(ret') < 2 * 57
  BY <1>1, <1>2, <1>3, <1>4, Lexicographic
<1> QED
  BY <1>5, <1>6

\* What a step has to do to advance.
Onward ==
  \/ attempt' = attempt + 1
  \/ attempt' = attempt /\ Place(pc', purpose', again') > Place(pc, purpose, again)
  \/ UNCHANGED <<attempt, pc, purpose, again>> /\ ret = Nothing /\ ret' # Nothing

\* A call brings its answer.
LEMMA CallOnward == ASSUME NEW n, RunScanimage(n) PROVE Onward
<1>1. ret'.code # "none"
  BY DEF RunScanimage, Refused, Launched, LaunchFails, TurnedAway, Interrupted, TimesOut, ExitsBadly,
      Answers, Error, Success
<1>2. ret' # Nothing
  BY <1>1 DEF Nothing, Error
<1> QED
  BY <1>2 DEF RunScanimage, Onward

\* A read is tried again in the next attempt, or has failed for good.
LEMMA RetryOnward ==
  ASSUME TypeOK, NEW e, RetryRead(e), pc \in {"addressed", "dump", "redump"},
         pc = "addressed" => purpose \in {"resolve", "reopen"}
  PROVE  Onward
<1>1. Place(pc, purpose, again) < 17
  BY Places DEF TypeOK, PlaceTypeOK
<1>2. pc' = "failed" => Place(pc', purpose', again') = 17
  BY Places
<1> QED
  BY <1>1, <1>2 DEF RetryRead, Ask, Onward

\* After an answer the read goes on further along, or is tried again.
LEMMA AnswerOnward ==
  ASSUME TypeOK, AddressResolved \/ OptionsDumped \/ SourceDumped \/ Reopened
  PROVE  Onward
<1>1. CASE \E e \in {ret, lastError, Error("IoFailure")} : RetryRead(e)
  <2>1. /\ pc \in {"addressed", "dump", "redump"}
        /\ pc = "addressed" => purpose \in {"resolve", "reopen"}
    BY DEF AddressResolved, OptionsDumped, SourceDumped, Reopened
  <2> QED
    BY <1>1, <2>1, RetryOnward
<1>2. CASE AddressResolved /\ Proceed("dump", found, FALSE)
  BY <1>2, Places DEF AddressResolved, Proceed, Onward
<1>3. CASE OptionsDumped /\ (Proceed("dumped", dev, FALSE) \/ Proceed("redump", dev, FALSE))
  BY <1>3, Places DEF OptionsDumped, Proceed, Onward
<1>4. CASE SourceDumped /\ Proceed("dumped", dev, FALSE)
  BY <1>4, Places DEF SourceDumped, Proceed, Onward
<1>5. CASE SourceDumped /\ ~again /\ Reopen("reopen", expected)
  BY <1>5, Places DEF SourceDumped, Reopen, Ask, Onward
<1>6. CASE Reopened /\ Proceed("redump", found, TRUE)
  <2>1. pc = "addressed" /\ purpose = "reopen" /\ pc' = "redump" /\ attempt' = attempt
    BY <1>6 DEF Reopened, Proceed
  <2>2. Place("addressed", "reopen", again) = 10
    BY Places
  <2>3. Place("redump", purpose', again') = 11
    BY <1>6, Places DEF Proceed
  <2>4. Place(pc', purpose', again') > Place(pc, purpose, again)
    <3>1. Place(pc, purpose, again) = 10
      BY <2>1, <2>2, Zenon
    <3>2. Place(pc', purpose', again') = 11
      BY <2>1, <2>3, Zenon
    <3> QED
      BY <3>1, <3>2
  <2> QED
    BY <2>1, <2>4 DEF Onward
<1>7. \/ \E e \in {ret, lastError, Error("IoFailure")} : RetryRead(e)
      \/ AddressResolved /\ Proceed("dump", found, FALSE)
      \/ OptionsDumped /\ (Proceed("dumped", dev, FALSE) \/ Proceed("redump", dev, FALSE))
      \/ SourceDumped /\ Proceed("dumped", dev, FALSE)
      \/ SourceDumped /\ ~again /\ Reopen("reopen", expected)
      \/ Reopened /\ Proceed("redump", found, TRUE)
  <2>1. CASE AddressResolved
    BY <2>1 DEF AddressResolved
  <2>2. CASE OptionsDumped
    BY <2>2 DEF OptionsDumped
  <2>3. CASE SourceDumped
    BY <2>3 DEF SourceDumped
  <2>4. CASE Reopened
    BY <2>4 DEF Reopened
  <2> QED
    BY <2>1, <2>2, <2>3, <2>4
<1> QED
  BY <1>1, <1>2, <1>3, <1>4, <1>5, <1>6, <1>7

\* The listings follow each other.
LEMMA ListedOnward ==
  ASSUME TypeOK, NameScope, FormattedListed \/ LegacyListed \/ CurrentDeviceAddress
  PROVE  Onward
<1>1. UNCHANGED <<purpose, again, attempt>>
  BY DEF FormattedListed, LegacyListed, CurrentDeviceAddress
<1>2. /\ pc \in Listings \cup {"addressed"}
      /\ \/ pc = "list" /\ pc' \in {"legacy", "listed"}
         \/ pc = "legacy" /\ pc' = "listed"
         \/ pc = "listed" /\ pc' = "addressed"
  BY DEF FormattedListed, LegacyListed, CurrentDeviceAddress, Listings
<1>3. purpose \in {"detect", "resolve", "reopen", "identity"}
  BY <1>2 DEF NameScope, TypeOK, PlaceTypeOK
<1>4. Place("list", purpose, again) \in Int
  BY <1>3, Places DEF TypeOK, PlaceTypeOK
<1>5. /\ Place("legacy", purpose, again) = Place("list", purpose, again) + 1
      /\ Place("listed", purpose, again) = Place("list", purpose, again) + 2
      /\ Place("addressed", purpose, again) = Place("list", purpose, again) + 3
  BY <1>3, Places DEF TypeOK, PlaceTypeOK
<1>6. Place(pc', purpose, again) > Place(pc, purpose, again)
  BY <1>2, <1>4, <1>5
<1> QED
  BY <1>1, <1>6 DEF Onward

\* A command starts, ends, and asks for an identity after the dump.
LEMMA EndsOnward ==
  ASSUME TypeOK, NameScope, Start \/ Fail \/ DetectEnds \/ Identify \/ IdentityListed
  PROVE  Onward
<1>1. CASE Start
  <2>1. /\ pc = "start" /\ attempt' = attempt
        /\ \/ pc' = "list" /\ purpose' \in {"detect", "resolve"}
           \/ pc' = "dump"
    BY <1>1 DEF Start, BeginOptionsDump, Ask
  <2> QED
    BY <2>1, Places DEF Onward
<1>2. CASE Identify /\ Ask("identity", None)
  BY <1>2, Places DEF Identify, Ask, Ends, Onward
<1>3. CASE \E r : Ends(r)
  <2>1. pc \in {"failed", "listed", "dumped"}
        /\ (pc = "listed" => purpose \in {"detect", "identity"})
    BY <1>3 DEF Fail, DetectEnds, Identify, IdentityListed, Start, Ends, BeginOptionsDump, Ask
  <2>2. pc' = "done" /\ attempt' = attempt
    BY <1>3 DEF Ends
  <2> QED
    BY <2>1, <2>2, Places DEF Onward
<1> QED
  BY <1>1, <1>2, <1>3 DEF Fail, DetectEnds, Identify, IdentityListed

LEMMA CommandOnward == ASSUME TypeOK, NameScope, Command PROVE Onward
<1>1. CASE ListFormatted \/ ListLegacy \/ OptionsDump \/ SourceDump
  BY <1>1, CallOnward DEF ListFormatted, ListLegacy, OptionsDump, SourceDump
<1> QED
  BY <1>1, ListedOnward, AnswerOnward, EndsOnward DEF Command, DiscoveryStep

\* backend.cpp:378-452: whatever scanimage answers, the command never comes back to
\* where it was, so that its nested retries and fallbacks end.
THEOREM EveryPathEnds == Spec => EveryStepAdvances
<1>1. ASSUME TypeOK, Scopes, TypeOK', Scopes', Command
      PROVE  Position' > Position /\ Position' < 2 * 57
  BY <1>1, CommandOnward, Advances DEF Onward, Scopes
<1>2. (TypeOK /\ Scopes) /\ (TypeOK /\ Scopes)' /\ [Next]_vars
        => [Command => Position' > Position /\ Position' < 2 * 57]_vars
  BY <1>1
<1> QED
  BY <1>2, ScopesHold, PTL DEF Spec, EveryStepAdvances

-----------------------------------------------------------------------------
(***************************************************************************)
(* detect after a call that was stopped.                                   *)
(***************************************************************************)
LEMMA CallStop ==
  ASSUME TypeOK, StopScope, NEW n, RunScanimage(n), pc \notin {"start", "done"},
         UNCHANGED <<result, token>>
  PROVE  StopScope'
<1> SUFFICES ASSUME command = "detect", command' = command PROVE StopScope'
  BY DEF StopScope, RunScanimage, control
<1>1. ret = Nothing /\ UNCHANGED <<pc, purpose>>
  BY DEF RunScanimage
<1>2. stopped' = stopped \cup ({ret'.code} \cap {"Cancelled", "Timeout"})
  BY DEF RunScanimage
<1>3. stopped = {}
  BY <1>1 DEF StopScope, Nothing, Error, TypeOK, WorldTypeOK
<1>4. late' = late \/ late' = (late \/ "Cancelled" \in stopped)
  BY DEF RunScanimage, Refused, Launched
<1> QED
  BY <1>1, <1>2, <1>3, <1>4 DEF StopScope

LEMMA StepStop == TypeOK /\ StopScope /\ [Next]_vars => StopScope'
<1> SUFFICES ASSUME TypeOK, StopScope, [Next]_vars PROVE StopScope'
  OBVIOUS
<1>0. command' = command
  BY DEF Next, Command, Environment, Done, DiscoveryStep, vars, ListFormatted, ListLegacy, FormattedListed,
      LegacyListed, CurrentDeviceAddress, AddressResolved, OptionsDump, OptionsDumped, SourceDump,
      SourceDumped, Reopened, RetryRead, Proceed, Reopen, RunScanimage, Start, Fail, DetectEnds, Identify,
      IdentityListed, Ends, RequestCancellation, SwitchOff, Local, control
<1> SUFFICES ASSUME command = "detect" PROVE StopScope'
  BY <1>0 DEF StopScope
<1>1. CASE UNCHANGED vars
  BY <1>1 DEF vars, StopScope
<1>2. CASE (ListFormatted \/ ListLegacy \/ OptionsDump \/ SourceDump) /\ UNCHANGED <<result, token>>
  BY <1>2, CallStop DEF ListFormatted, ListLegacy, OptionsDump, SourceDump
<1>3. CASE (FormattedListed \/ LegacyListed) /\ UNCHANGED <<result, token>>
  <2>1. /\ pc \in {"list", "legacy"} /\ pc' \in {"listed", "legacy"}
        /\ ret' = ret \/ ret.code \notin {"Cancelled", "Timeout"}
        /\ UNCHANGED <<purpose, stopped, late>>
    BY <1>3 DEF FormattedListed, LegacyListed, Local, history
  <2>2. stopped # {} => ret' = ret
    BY <2>1 DEF StopScope, TypeOK, WorldTypeOK
  <2> QED
    BY <1>0, <1>3, <2>1, <2>2 DEF StopScope, Listings
<1>4. CASE CurrentDeviceAddress \/ AddressResolved \/ OptionsDumped \/ SourceDumped \/ Reopened
  BY <1>4 DEF CurrentDeviceAddress, AddressResolved, OptionsDumped, SourceDumped, Reopened, StopScope,
      Listings
<1>5. CASE Start
  BY <1>0, <1>5 DEF Start, Ask, Local, history, StopScope, Listings, Nothing, Error, TypeOK, WorldTypeOK
<1>6. CASE DetectEnds
  BY <1>0, <1>6 DEF DetectEnds, Ends, Local, history, StopScope
<1>7. CASE Fail \/ Identify \/ IdentityListed
  BY <1>7 DEF Fail, Identify, IdentityListed, StopScope, Listings
<1>8. CASE Environment
  BY <1>0, <1>8 DEF Environment, RequestCancellation, SwitchOff, history, StopScope
<1> QED
  BY <1>1, <1>2, <1>3, <1>4, <1>5, <1>6, <1>7, <1>8 DEF Next, Command, DiscoveryStep, Done

LEMMA InitStop == Init => StopScope
BY DEF Init, InitDiscovery, StopScope

\* backend.cpp:400-430: a detect that was cancelled or ran out of time starts nothing
\* after a cancellation and reports what stopped it.
THEOREM DetectStops == Spec => []DetectHeedsStop
<1>1. StopScope => DetectHeedsStop
  BY DEF StopScope, DetectHeedsStop
<1> QED
  BY <1>1, InitTypeOK, InitStop, StepTypeOK, StepStop, PTL DEF Spec

-----------------------------------------------------------------------------
(***************************************************************************)
(* While every scanner stays switched on.                                  *)
(***************************************************************************)
LEMMA GoalIsOne ==
  /\ Goal \subseteq Device
  /\ \A d, e \in Goal : d = e
BY DEF Goal

\* A step that leaves the bus alone keeps the target, as long as it uses known names
\* or the name of the host.
LEMMA TargetLocal ==
  ASSUME TypeOK, TargetScope, UNCHANGED control, UNCHANGED <<at, opened>>, complete' => complete,
         found' \in {found, None}, dev' \in {dev, found, raw}
  PROVE  TargetScope'
<1>1. Goal' = Goal /\ (Steady' => Steady) /\ \A n : Named(n)' = Named(n)
  BY DEF Goal, Steady, Named, Present, control
<1>2. ASSUME Steady
      PROVE  \A n \in {dev', found'} : Named(n)' \subseteq Goal'
  <2>1. Named(None) \subseteq Goal
    BY NoNames
  <2>2. Named(raw) \subseteq Goal
    BY <1>2, Codomains DEF TargetScope, Named, TypeOK, InputTypeOK
  <2> QED
    BY <1>1, <1>2, <2>1, <2>2 DEF TargetScope
<1>3. target' = target /\ expected' = expected /\ raw' = raw
  BY DEF control
<1> QED
  BY <1>1, <1>2, <1>3 DEF TargetScope

LEMMA CallTarget ==
  ASSUME TypeOK, TargetScope, NEW n \in {None, dev}, RunScanimage(n)
  PROVE  TargetScope'
<1>0. UNCHANGED control /\ UNCHANGED <<dev, found>>
  BY DEF RunScanimage
<1>1. CASE UNCHANGED <<at, opened>>
  BY <1>0, <1>1, CallEffect, TargetLocal
<1>2. CASE n # None /\ \E d \in Named(n) : Opens(d)
  <2>1. PICK d \in Named(dev) : Opens(d)
    BY <1>2
  <2>2. d \in Device /\ at[d] # Off
    BY <2>1, Codomains DEF Named, Present
  <2>3. Goal' = Goal
    BY <1>0 DEF Goal, control
  <2>4. Steady' => Steady
    BY <1>0, <2>1, <2>2, CallEffect, OpensBus DEF Steady, Present, control
  <2>5. ASSUME Steady
        PROVE  /\ opened' \subseteq Goal
               /\ \A m \in {dev, found} : Named(m)' \subseteq Goal
               /\ \A e \in Device \ Goal : at'[e] # raw
    <3>1. d \in Goal
      BY <2>1, <2>5 DEF TargetScope
    <3>2. opened' \subseteq Goal
      BY <2>1, <2>5, <3>1 DEF Opens, TargetScope
    <3>3. \A e \in Device : e # d => at'[e] = at[e]
      BY <2>1, <2>2, OpensBus
    <3>4. \A m : Named(m)' \subseteq Named(m) \cup {d}
      BY <3>3 DEF Named, Present
    <3> QED
      BY <2>5, <3>1, <3>2, <3>3, <3>4 DEF TargetScope
  <2> QED
    BY <1>0, <2>3, <2>4, <2>5 DEF TargetScope, control
<1> QED
  BY <1>1, <1>2, CallEffect

\* The scanner that currentDeviceAddress chooses is the goal, and its name opens no other.
LEMMA ChosenIsGoal ==
  ASSUME TypeOK, Scopes, TargetScope, Steady, pc = "listed", want = expected, NEW d \in Chosen
  PROVE  d \in Goal /\ Named(NameFor(d)) \subseteq Goal
<1>1. /\ d \in Device /\ d \in Listing /\ listed[d] \in Addr
      /\ \A e \in Device : e \in Listing /\ listed[e] = at[e] /\ at[e] # Off
  <2>1. d \in Device /\ d \in Listing /\ listed[d] \in Addr
    BY ChosenType, Codomains DEF Listing
  <2>2. Present \subseteq Listing
    BY <2>1, Codomains DEF Steady, Scopes, ListScope, NothingListed
  <2> QED
    BY <2>1, <2>2, Codomains DEF Steady, Present, Listing, Scopes, ListScope
<1>2. IsFiniteSet(Listing) /\ IsFiniteSet(Matching)
  BY FS_Subset, DiscoveryAssumption DEF Listing, Matching
<1>3. d \in Goal
  <2>1. CASE d \in Exact
    BY <1>1, <2>1 DEF Exact, TargetScope
  <2>2. CASE Cardinality(Matching) = 1 /\ d \in Matching
    <3>1. Matching = {d}
      BY <1>2, <2>2, FS_Singleton
    <3>2. CASE target # None
      <4>1. target \in Device /\ expected \in {None, Model[target]}
        BY <3>2 DEF TypeOK, InputTypeOK, TargetScope
      <4>2. target \in Matching
        BY <1>1, <4>1 DEF Matching
      <4> QED
        BY <1>1, <3>1, <4>2 DEF Goal
    <3>3. CASE target = None
      <4>1. expected = None
        BY <3>3 DEF Steady
      <4>2. Device = {d}
        BY <1>1, <3>1, <4>1 DEF Matching
      <4> QED
        BY <3>3, <4>2 DEF Goal
    <3> QED
      BY <3>2, <3>3
  <2> QED
    BY <2>1, <2>2 DEF Chosen
<1>4. CASE NameFor(d) = listed[d]
  <2>1. \A e \in Named(listed[d]) : e = d
    BY <1>1, Codomains DEF Named, Present, Scopes, ListScope
  <2> QED
    BY <1>3, <1>4, <2>1
<1>5. CASE NameFor(d) = Selector /\ Cardinality(Listing) = 1
  <2>1. Listing = {d}
    BY <1>1, <1>2, <1>5, FS_Singleton
  <2> QED
    BY <1>1, <1>3, <1>5, <2>1 DEF Named, Present
<1> QED
  BY <1>3, <1>4, <1>5 DEF NameFor

\* What currentDeviceAddress is asked for by capabilities is the identity of the host.
LEMMA AddressWant ==
  ASSUME TypeOK, Scopes, CurrentDeviceAddress
  PROVE  /\ want = expected /\ pc = "listed" /\ pc' = "addressed"
         /\ UNCHANGED control /\ UNCHANGED history /\ UNCHANGED <<at, purpose, dev>>
<1>1. /\ pc = "listed" /\ pc' = "addressed" /\ UNCHANGED control /\ UNCHANGED history
      /\ UNCHANGED <<at, purpose, dev>>
  BY DEF CurrentDeviceAddress, Local, world
<1>2. purpose \in {"resolve", "reopen"}
  <2>1. purpose \in {"resolve", "reopen", "reopenScan", "address"}
    BY DEF CurrentDeviceAddress
  <2>2. purpose \in {None, "detect", "resolve", "reopen", "identity"} /\ None = "none"
    BY DEF TypeOK, PlaceTypeOK, None
  <2> QED
    BY <2>1, <2>2
<1> QED
  BY <1>1, <1>2 DEF Scopes, NameScope

LEMMA AddressTarget ==
  ASSUME TypeOK, Scopes, TargetScope, CurrentDeviceAddress
  PROVE  TargetScope'
<1>1. UNCHANGED control /\ UNCHANGED <<at, opened, complete, dev>>
  BY AddressWant DEF history
<1>2. CASE UNCHANGED found
  BY <1>1, <1>2, TargetLocal
<1>3. CASE \E d \in Chosen : found' = NameFor(d)
  <2>1. PICK d \in Chosen : found' = NameFor(d)
    BY <1>3
  <2>2. Goal' = Goal /\ Steady' = Steady /\ \A n : Named(n)' = Named(n)
    BY <1>1 DEF Goal, Steady, Named, Present, control
  <2>3. Steady => Named(NameFor(d)) \subseteq Goal
    BY AddressWant, ChosenIsGoal
  <2> QED
    BY <1>1, <2>1, <2>2, <2>3 DEF TargetScope, control
<1> QED
  BY <1>2, <1>3 DEF CurrentDeviceAddress

LEMMA EnvironmentTarget ==
  ASSUME TypeOK, TargetScope, Environment PROVE TargetScope'
<1>1. CASE RequestCancellation
  <2>1. UNCHANGED control /\ UNCHANGED <<at, opened, complete, dev, found>>
    BY <1>1 DEF RequestCancellation, history
  <2> QED
    BY <2>1, TargetLocal
<1>2. CASE SwitchOff
  <2>1. UNCHANGED control
    BY <1>2 DEF SwitchOff
  <2>2. PICK d \in Device : at' = [at EXCEPT ![d] = Off]
    BY <1>2 DEF SwitchOff, Present
  <2>3. at'[d] = Off
    BY <2>2, Codomains
  <2>4. ~Steady'
    BY <2>3 DEF Steady, Present
  <2> QED
    BY <2>1, <2>4 DEF TargetScope, control
<1> QED
  BY <1>1, <1>2 DEF Environment

LEMMA StepTarget == TypeOK /\ Scopes /\ TargetScope /\ [Next]_vars => TargetScope'
<1> SUFFICES ASSUME TypeOK, Scopes, TargetScope, [Next]_vars PROVE TargetScope'
  OBVIOUS
<1>1. CASE UNCHANGED vars
  BY <1>1, TargetLocal DEF vars, control
<1>2. CASE ListFormatted \/ ListLegacy \/ OptionsDump \/ SourceDump
  BY <1>2, CallTarget DEF ListFormatted, ListLegacy, OptionsDump, SourceDump
<1>3. CASE FormattedListed \/ LegacyListed
  <2>1. UNCHANGED control /\ UNCHANGED <<at, opened, complete, dev, found>>
    BY <1>3 DEF FormattedListed, LegacyListed, Local, world, history
  <2> QED
    BY <2>1, TargetLocal
<1>4. CASE AddressResolved \/ OptionsDumped \/ SourceDumped \/ Reopened
  <2>1. /\ UNCHANGED control /\ UNCHANGED <<at, opened, complete>>
        /\ found' \in {found, None} /\ dev' \in {dev, found}
    BY <1>4, AnswerActions DEF RetryRead, Proceed, Reopen, Local, world, history
  <2> QED
    BY <2>1, TargetLocal
<1>5. CASE Start \/ Fail \/ DetectEnds \/ Identify \/ IdentityListed
  <2>1. UNCHANGED control /\ UNCHANGED <<at, opened, complete, found>> /\ dev' \in {dev, raw}
    BY <1>5 DEF Start, Fail, DetectEnds, Identify, IdentityListed, Ends, BeginOptionsDump, Local, world,
        history
  <2> QED
    BY <2>1, TargetLocal
<1> QED
  BY <1>1, <1>2, <1>3, <1>4, <1>5, AddressTarget, EnvironmentTarget DEF Next, Command, DiscoveryStep, Done

LEMMA InitTarget == Init => TargetScope
<1> SUFFICES ASSUME Init PROVE TargetScope
  OBVIOUS
<1>0. InitDiscovery /\ TypeOK
  BY InitTypeOK DEF Init
<1>1. target # None => target \in Device /\ at[target] = raw /\ expected \in {None, Model[target]}
  BY <1>0 DEF InitDiscovery
<1>2. opened = {} /\ dev = None /\ found = None /\ Named(None) = {}
  BY <1>0, NoNames DEF InitDiscovery
<1>3. ASSUME Steady, NEW d \in Device, at[d] = raw PROVE d \in Goal
  BY <1>0, <1>1, <1>3 DEF InitDiscovery, Steady, Goal
<1> QED
  BY <1>1, <1>2, <1>3 DEF TargetScope

\* backend.cpp:285-378: while every scanner stays switched on, only the scanner asked for
\* is opened, whatever addresses the scanners take and however often a step is repeated,
\* provided that no list leaves a scanner out: from a list that names one scanner only,
\* that one may be taken (backend.cpp:325).
THEOREM TargetOpened == Spec => []OpensOnlyTarget
<1>1. TypeOK /\ TargetScope => OpensOnlyTarget
  BY DEF TargetScope, OpensOnlyTarget, Steady, Goal
<1> QED
  BY <1>1, ScopesHold, InitTarget, InitTypeOK, StepTarget, PTL DEF Spec

-----------------------------------------------------------------------------
(***************************************************************************)
(* The identity in the token.                                              *)
(***************************************************************************)
\* What a call does to the last dump.
LEMMA CallDumps ==
  ASSUME NEW n, RunScanimage(n)
  PROVE  /\ opened \subseteq opened'
         /\ dumped' = dumped \/ dumped' \in opened'
         /\ n # None /\ ret' = Success => dumped' \in opened'
<1>1. CASE Refused
  BY <1>1 DEF Refused, Success, Error
<1>2. CASE LaunchFails
  BY <1>2 DEF LaunchFails, Success, Error
<1>3. CASE TurnedAway(n) \/ Interrupted(n) \/ TimesOut(n) \/ ExitsBadly(n)
  <2>1. MayOpen(n) /\ dumped' = dumped /\ ret' # Success
    BY <1>3 DEF TurnedAway, Interrupted, TimesOut, ExitsBadly, Success, Error
  <2>2. opened \subseteq opened'
    BY <2>1 DEF MayOpen, Opens
  <2> QED
    BY <2>1, <2>2
<1>4. CASE Answers(n)
  BY <1>4 DEF Answers, Opens
<1> QED
  BY <1>1, <1>2, <1>3, <1>4 DEF RunScanimage, Launched

\* A list that left a scanner out is not forgotten, and the bare backend name is kept.
KeepsSelector == (complete' => complete) /\ (dev = Selector => dev' = Selector)

LEMMA StepKeepsSelector ==
  ASSUME TypeOK, SelectorScope, [Next]_vars PROVE KeepsSelector
<1>1. CASE UNCHANGED vars \/ Done \/ Environment
  BY <1>1 DEF vars, Done, Environment, RequestCancellation, SwitchOff, history, KeepsSelector
<1>2. CASE ListFormatted \/ ListLegacy \/ OptionsDump \/ SourceDump
  BY <1>2, CallEffect DEF ListFormatted, ListLegacy, OptionsDump, SourceDump, RunScanimage, KeepsSelector
<1>3. CASE FormattedListed \/ LegacyListed \/ CurrentDeviceAddress
  BY <1>3 DEF FormattedListed, LegacyListed, CurrentDeviceAddress, Local, history, KeepsSelector
<1>4. CASE AddressResolved \/ OptionsDumped \/ SourceDumped \/ Reopened
  BY <1>4, AnswerActions DEF AddressResolved, OptionsDumped, SourceDumped, Reopened, RetryRead, Proceed,
      Reopen, Ask, Local, history, SelectorScope, KeepsSelector
<1>5. CASE Start \/ Fail \/ DetectEnds \/ Identify \/ IdentityListed
  BY <1>5 DEF Start, BeginOptionsDump, Fail, DetectEnds, Identify, IdentityListed, Ends, Local, history,
      SelectorScope, Listings, KeepsSelector
<1> QED
  BY <1>1, <1>2, <1>3, <1>4, <1>5 DEF Next, Command, DiscoveryStep

\* No step switches a scanner on.
LEMMA StaysCertain ==
  ASSUME TypeOK, KeepsSelector, UNCHANGED control,
         UNCHANGED at \/ SwitchOff \/ \E n \in {None, dev} : RunScanimage(n)
  PROVE  /\ Certain' => Certain
         /\ Wanted' = Wanted
<1>1. Wanted' = Wanted
  BY DEF Wanted, Goal, control
<1>2. Present' \subseteq Present
  <2>1. CASE UNCHANGED at
    BY <2>1 DEF Present
  <2>2. CASE SwitchOff
    <3>1. PICK d \in Device : at' = [at EXCEPT ![d] = Off]
      BY <2>2 DEF SwitchOff, Present
    <3> QED
      BY <3>1, Codomains DEF Present
  <2>3. ASSUME NEW n \in {None, dev}, RunScanimage(n), at' # at PROVE Present' \subseteq Present
    <3>1. PICK d \in Named(n) : Opens(d)
      BY <2>3, CallEffect
    <3>2. d \in Device /\ at[d] # Off
      BY <2>3, <3>1, CallEffect, Codomains, NoNames DEF Named, Present
    <3> QED
      BY <3>1, <3>2, OpensBus DEF Present
  <2> QED
    BY <2>1, <2>2, <2>3
<1>3. Certain' => Certain
  <2>1. Present \subseteq Device
    BY DEF Present
  <2> QED
    BY <1>2, <2>1 DEF Certain, Trusted, KeepsSelector, control
<1> QED
  BY <1>1, <1>3

LEMMA CallToken ==
  ASSUME TypeOK, KeepsSelector, Scopes, TokenScope, NEW n, RunScanimage(n), UNCHANGED token,
         (n = None /\ pc \in {"list", "legacy"}) \/ (n = dev /\ pc \in {"dump", "redump"})
  PROVE  TokenScope'
<1>1. UNCHANGED control /\ UNCHANGED <<pc, purpose, dev, found, known>>
  BY DEF RunScanimage
<1>2. pc = "dump" => n # None
  BY DEF Scopes, NameScope
<1>3. (Certain' => Certain) /\ Wanted' = Wanted
  BY <1>1, StaysCertain
<1>4. expected' = expected /\ raw' = raw
  BY <1>1 DEF control
<1> QED
  BY <1>1, <1>2, <1>3, <1>4, CallDumps DEF TokenScope, NoToken

LEMMA ListedToken ==
  ASSUME TypeOK, KeepsSelector, TokenScope, FormattedListed \/ LegacyListed, UNCHANGED token
  PROVE  TokenScope'
<1>1. /\ UNCHANGED control /\ UNCHANGED <<at, purpose, opened, dumped>>
      /\ pc' \in {"listed", "legacy"}
  BY DEF FormattedListed, LegacyListed, Local, world, history
<1>2. (Certain' => Certain) /\ Wanted' = Wanted
  BY <1>1, StaysCertain
<1> QED
  BY <1>1, <1>2 DEF TokenScope, NoToken, control

LEMMA AddressToken ==
  ASSUME TypeOK, KeepsSelector, Scopes, TargetScope, TokenScope, CurrentDeviceAddress, UNCHANGED token
  PROVE  TokenScope'
<1>1. /\ want = expected /\ pc = "listed" /\ pc' = "addressed"
      /\ UNCHANGED control /\ UNCHANGED <<at, purpose, opened, dumped>>
  BY AddressWant DEF history
<1>2. (Certain' => Certain) /\ Wanted' = Wanted
  BY <1>1, StaysCertain
<1>3. Certain /\ ret' = Success => known'[found'] \in Wanted
  <2>1. CASE ret # Success /\ UNCHANGED <<found, known, ret>>
    BY <2>1
  <2>2. CASE ret' \in {Error("Ambiguous"), Error("NotConnected")}
    BY <2>2 DEF Success, Error
  <2>3. CASE \E d \in Chosen :
               /\ found' = NameFor(d)
               /\ known' = [known EXCEPT ![NameFor(d)] = Model[d], ![listed[d]] = Model[d]]
    <3>1. PICK d \in Chosen :
               /\ found' = NameFor(d)
               /\ known' = [known EXCEPT ![NameFor(d)] = Model[d], ![listed[d]] = Model[d]]
      BY <2>3
    <3>2. known'[found'] = Model[d]
      BY <3>1, ChosenType DEF TypeOK, MemoryTypeOK
    <3>3. Certain => Model[d] \in Wanted
      BY <1>1, ChosenType, ChosenIsGoal DEF Certain, Wanted, Steady
    <3> QED
      BY <3>2, <3>3
  <2> QED
    BY <2>1, <2>2, <2>3 DEF CurrentDeviceAddress
<1> QED
  BY <1>1, <1>2, <1>3 DEF TokenScope, NoToken, control

LEMMA AnswerToken ==
  ASSUME TypeOK, KeepsSelector, TokenScope, UNCHANGED token,
         AddressResolved \/ OptionsDumped \/ SourceDumped \/ Reopened
  PROVE  TokenScope'
<1>1. UNCHANGED control /\ UNCHANGED <<at, opened, dumped, known>>
  BY AnswerActions DEF RetryRead, Proceed, Reopen, Local, world, history
<1>2. (Certain' => Certain) /\ Wanted' = Wanted
  BY <1>1, StaysCertain
<1>3. CASE \E e \in {ret, lastError, Error("IoFailure")} : RetryRead(e)
  <2>1. pc' \in {"list", "failed"} /\ purpose' \in {purpose, "resolve"}
    BY <1>3 DEF RetryRead, Ask
  <2> QED
    BY <1>1, <1>2, <2>1 DEF TokenScope, NoToken, control
<1>4. CASE Reopen("reopen", expected) /\ pc = "redump"
  <2>1. pc' = "list" /\ purpose' = "reopen"
    BY <1>4 DEF Reopen, Ask
  <2> QED
    BY <1>1, <1>2, <1>4, <2>1 DEF TokenScope, NoToken, control
<1>5. CASE \E next \in {"redump", "dumped"} :
             Proceed(next, dev, FALSE) /\ (pc = "redump" \/ (pc = "dump" /\ ret = Success))
  <2>1. pc' \in {"redump", "dumped"} /\ dev' = dev /\ purpose' = purpose
    BY <1>5 DEF Proceed
  <2> QED
    BY <1>1, <1>2, <1>5, <2>1 DEF TokenScope, NoToken, control
<1>6. CASE /\ pc = "addressed" /\ ret = Success
           /\ \/ Proceed("dump", found, FALSE)
              \/ purpose = "reopen" /\ Proceed("redump", found, TRUE)
  <2>1. /\ dev' = found /\ purpose' = purpose /\ ret' = Nothing
        /\ pc' = "dump" \/ (pc' = "redump" /\ purpose = "reopen")
    BY <1>6 DEF Proceed
  <2>2. ret' # Success
    BY <2>1 DEF Nothing, Success, Error
  <2> QED
    BY <1>1, <1>2, <1>6, <2>1, <2>2 DEF TokenScope, NoToken, control
<1>7. CASE AddressResolved
  BY <1>3, <1>6, <1>7 DEF AddressResolved
<1>8. CASE OptionsDumped
  BY <1>3, <1>5, <1>8 DEF OptionsDumped
<1>9. CASE SourceDumped
  BY <1>3, <1>4, <1>5, <1>9 DEF SourceDumped
<1>10. CASE Reopened
  BY <1>3, <1>6, <1>10 DEF Reopened
<1> QED
  BY <1>7, <1>8, <1>9, <1>10

LEMMA StartToken ==
  ASSUME TypeOK, KeepsSelector, TokenScope, Start PROVE TokenScope'
<1>1. UNCHANGED control /\ UNCHANGED <<at, opened, dumped, known, token>> /\ ret' = Nothing
  BY DEF Start, BeginOptionsDump, Ask, Local, world, history
<1>2. (Certain' => Certain) /\ Wanted' = Wanted
  BY <1>1, StaysCertain
<1>3. CASE pc' = "list" /\ purpose' \in {"detect", "resolve"}
  BY <1>1, <1>2, <1>3 DEF TokenScope, NoToken, control
<1>4. CASE pc = "start" /\ pc' = "dump" /\ dev' = raw /\ purpose' = purpose
  <2>1. ret' # Success
    BY <1>1 DEF Nothing, Success, Error
  <2> QED
    BY <1>1, <1>2, <1>4, <2>1 DEF TokenScope, NoToken, control
<1> QED
  BY <1>3, <1>4 DEF Start, BeginOptionsDump, Ask

\* The identity that a device list gives is one the device of the dump can have.
LEMMA ListedIdentityWanted ==
  ASSUME TypeOK, Scopes, TargetScope, pc = "listed", expected = None, Present = Device, complete
  PROVE  ListedIdentity \in Wanted \cup {None}
<1>0. Steady /\ Wanted = {Model[d] : d \in Goal}
  BY DEF Steady, Wanted
<1>1. CASE \E d \in Listing : listed[d] = dev
  <2> DEFINE x == CHOOSE d \in Listing : listed[d] = dev
  <2>1. x \in Device /\ listed[x] = dev /\ dev \in Addr
    BY <1>1, Codomains DEF Listing
  <2>2. at[x] = dev
    BY <2>1, Codomains DEF Present, Scopes, ListScope
  <2>3. x \in Named(dev)
    BY <2>1, <2>2, Codomains DEF Named
  <2>4. x \in Goal
    BY <1>0, <2>3 DEF TargetScope
  <2> QED
    BY <1>0, <1>1, <2>4 DEF ListedIdentity
<1>2. CASE Cardinality(Listing) = 1 /\ ~\E d \in Listing : listed[d] = dev
  <2>1. IsFiniteSet(Listing)
    BY FS_Subset, DiscoveryAssumption DEF Listing
  <2>2. PICK x : Listing = {x}
    BY <1>2, <2>1, FS_Singleton
  <2>3. x \in Device /\ listed # NothingListed
    BY <2>2, Codomains DEF Listing, NothingListed
  <2>4. Device = {x}
    BY <2>2, <2>3 DEF Scopes, ListScope
  <2>5. x \in Goal
    BY <2>4 DEF Goal, TypeOK, InputTypeOK
  <2>6. (CHOOSE d \in Listing : TRUE) = x
    BY <2>2
  <2>7. ListedIdentity = Model[CHOOSE d \in Listing : TRUE]
    BY <1>2, Zenon DEF ListedIdentity
  <2>8. ListedIdentity = Model[x]
    BY <2>6, <2>7, Zenon
  <2>9. Model[x] \in Wanted
    BY <1>0, <2>5
  <2> QED
    BY <2>8, <2>9
<1> QED
  BY <1>1, <1>2 DEF ListedIdentity

LEMMA EndingToken ==
  ASSUME TypeOK, KeepsSelector, Scopes, TargetScope, TokenScope,
         Fail \/ DetectEnds \/ Identify \/ IdentityListed
  PROVE  TokenScope'
<1>1. UNCHANGED control /\ UNCHANGED <<at, opened, dumped, known>>
  BY DEF Fail, DetectEnds, Identify, IdentityListed, Ends, Local, world, history
<1>2. (Certain' => Certain) /\ Wanted' = Wanted
  BY <1>1, StaysCertain
<1>3. CASE (Fail \/ DetectEnds) /\ UNCHANGED token
  <2>1. pc' = "done" /\ purpose' = purpose
    BY <1>3 DEF Fail, DetectEnds, Ends
  <2> QED
    BY <1>1, <1>2, <1>3, <2>1 DEF TokenScope, NoToken, control
<1>4. CASE Identify
  <2>1. pc = "dumped" /\ dumped \in opened
    BY <1>4 DEF Identify, TokenScope
  <2>2. CASE /\ pc' = "done" /\ purpose' = purpose
             /\ token'.identity = IF known[dev] # None THEN known[dev] ELSE expected
             /\ known[dev] # None \/ expected # None
    <3>1. Certain => token'.identity \in Wanted
      BY <2>1, <2>2 DEF TokenScope, Wanted
    <3> QED
      BY <1>1, <1>2, <2>1, <2>2, <3>1 DEF TokenScope, control
  <2>3. CASE expected = None /\ Ask("identity", None) /\ UNCHANGED token
    BY <1>1, <1>2, <2>1, <2>3 DEF TokenScope, Ask, control
  <2> QED
    BY <1>4, <2>2, <2>3 DEF Identify, Ends
<1>5. CASE IdentityListed
  <2>1. pc = "listed" /\ purpose = "identity" /\ dumped \in opened /\ expected = None
    BY <1>5 DEF IdentityListed, TokenScope
  <2>2. pc' = "done" /\ purpose' = purpose /\ token'.identity \in {ListedIdentity, None}
    BY <1>5 DEF IdentityListed, Ends
  <2>3. Certain => token'.identity \in Wanted \cup {None}
    BY <2>1, <2>2, ListedIdentityWanted DEF Certain
  <2> QED
    BY <1>1, <1>2, <2>1, <2>2, <2>3 DEF TokenScope, control
<1> QED
  BY <1>3, <1>4, <1>5 DEF Fail, DetectEnds

LEMMA StepToken ==
  TypeOK /\ SelectorScope /\ Scopes /\ TargetScope /\ TokenScope /\ [Next]_vars => TokenScope'
<1> SUFFICES ASSUME TypeOK, SelectorScope, Scopes, TargetScope, TokenScope, [Next]_vars
             PROVE  TokenScope'
  OBVIOUS
<1>0. KeepsSelector
  BY StepKeepsSelector
<1>1. CASE UNCHANGED vars
  <2>1. UNCHANGED control /\ UNCHANGED <<at, pc, purpose, dev, found, ret, known, opened, dumped, token>>
    BY <1>1 DEF vars, control
  <2> QED
    BY <1>0, <2>1, StaysCertain DEF TokenScope, NoToken, control
<1>2. CASE (ListFormatted \/ ListLegacy \/ OptionsDump \/ SourceDump) /\ UNCHANGED token
  BY <1>0, <1>2, CallToken DEF ListFormatted, ListLegacy, OptionsDump, SourceDump
<1>3. CASE Environment
  <2>1. /\ UNCHANGED control /\ UNCHANGED <<pc, purpose, dev, found, ret, known, opened, dumped, token>>
        /\ UNCHANGED at \/ SwitchOff
    BY <1>3 DEF Environment, RequestCancellation, SwitchOff, history
  <2> QED
    BY <1>0, <2>1, StaysCertain DEF TokenScope, NoToken, control
<1> QED
  BY <1>0, <1>1, <1>2, <1>3, ListedToken, AddressToken, AnswerToken, StartToken, EndingToken
     DEF Next, Command, DiscoveryStep, Done

LEMMA InitToken == Init => TokenScope
<1> SUFFICES ASSUME Init PROVE TokenScope
  OBVIOUS
<1>0. InitDiscovery /\ token = NoToken
  BY DEF Init
<1>1. raw \in Name \cup {None} /\ known[raw] = None
  BY <1>0 DEF InitDiscovery, Name, NothingKnown
<1> QED
  BY <1>0, <1>1 DEF InitDiscovery, TokenScope, NoToken, None

LEMMA TargetsHold ==
  Spec => [](TypeOK /\ SelectorScope /\ Scopes /\ TargetScope /\ TokenScope /\ StopScope)
BY InitTypeOK, InitSelector, InitScopes, InitTarget, InitToken, InitStop,
   StepTypeOK, StepSelector, StepScopes, StepTarget, StepToken, StepStop, PTL DEF Spec

\* backend.cpp:629-683: the identity a capability token carries is that of the scanner
\* whose options it holds, although addresses change and are used again.  Certain says when
\* this can be known: a list that leaves scanners out voids it (backend.cpp:661).
THEOREM TokenMatches == Spec => []TokenMatchesDump
<1>1. TypeOK /\ Scopes /\ TargetScope /\ TokenScope => TokenMatchesDump
  <2> SUFFICES ASSUME TypeOK, Scopes, TargetScope, TokenScope, token.identity # None, Certain
               PROVE  token.identity = Model[dumped]
    BY DEF TokenMatchesDump
  <2>1. dumped \in opened /\ token.identity \in Wanted
    BY DEF TokenScope, NoToken
  <2>2. CASE expected # None
    BY <2>1, <2>2 DEF Certain, Wanted, Scopes, OpensExpectedModel
  <2>3. CASE expected = None
    <3>1. dumped \in Goal
      BY <2>1, <2>3 DEF Certain, Steady, TargetScope
    <3> QED
      BY <2>1, <2>3, <3>1, GoalIsOne DEF Wanted
  <2> QED
    BY <2>2, <2>3
<1> QED
  BY <1>1, TargetsHold, PTL

\* The inductive invariant of detect and capabilities holds in every state.  Its parts on
\* the target, and on the token without an identity from the host, speak of the behaviours in
\* which every list was complete, all others also of those in which lists left scanners out.
THEOREM InvariantHolds == Spec => []CommandInvariant
<1>1. TypeOK /\ BudgetScope /\ SelectorScope /\ Scopes /\ TargetScope /\ TokenScope /\ StopScope
        => CommandInvariant
  BY DEF CommandInvariant, Scopes
<1> QED
  BY <1>1, ScopesHold, TargetsHold, PTL
=============================================================================
