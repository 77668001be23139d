------------------------- MODULE CapabilityCommand -------------------------
(***************************************************************************)
(* The commands detect and capabilities (Backend::detect,                  *)
(* Backend::capabilities) on top of Discovery.                             *)
(***************************************************************************)
EXTENDS Discovery

VARIABLES
  result,  \* "none", "Ok" or the code of the error that the command reports
  token    \* the capability token: its device identity and the device it is named for

vars == <<command, raw, expected, target, pc, purpose, want, attempt, again, dev, found, ret, lastError,
          listed, cache, known, now, flag, at, opened, dumped, stopped, late, complete,
          result, token>>

NoToken == [identity |-> None, name |-> None]

Init ==
  /\ \/ command = "detect" /\ expected = None
     \/ command = "capabilities" /\ expected \in Models \cup {None}
  /\ InitDiscovery
  /\ result = "none"
  /\ token = NoToken

Start ==
  /\ pc = "start"
  /\ \/ command = "detect" /\ Ask("detect", None) /\ UNCHANGED dev
     \/ command = "capabilities" /\ BeginOptionsDump
  /\ Local
  /\ UNCHANGED <<attempt, again, found, lastError, listed, cache, known, now, result, token>>

Ends(r) ==
  /\ pc' = "done"
  /\ result' = r
  /\ ret' = Nothing
  /\ listed' = NothingListed
  /\ Local
  /\ UNCHANGED <<purpose, want, attempt, again, dev, found, lastError, cache, known, now>>

Fail ==
  /\ pc = "failed"
  /\ Ends(ret.code)
  /\ UNCHANGED token

DetectEnds ==
  /\ pc = "listed" /\ purpose = "detect"
  /\ Ends(ret.code)
  /\ UNCHANGED token

\* The identity comes from the listings made so far, else from the host, else a
\* device list is read for it.
Identify ==
  /\ pc = "dumped"
  /\ \/ /\ known[dev] # None \/ expected # None
        /\ token' = [name |-> dev, identity |-> IF known[dev] # None THEN known[dev] ELSE expected]
        /\ Ends("Ok")
     \/ /\ known[dev] = None /\ expected = None
        /\ Ask("identity", None)
        /\ Local
        /\ UNCHANGED <<attempt, again, dev, found, lastError, listed, cache, known, now, result,
                       token>>

\* Mutant of ListedIdentity: the first device of the backend will do.
ListedIdentityAny == IF Listing = {} THEN None ELSE Model[CHOOSE d \in Listing : TRUE]

ListedIdentity ==
  IF \E d \in Listing : listed[d] = dev THEN Model[CHOOSE d \in Listing : listed[d] = dev]
  ELSE IF Cardinality(Listing) = 1 THEN Model[CHOOSE d \in Listing : TRUE] ELSE None

\* Whatever that list says, its errors too, capabilities has succeeded.
IdentityListed ==
  /\ pc = "listed" /\ purpose = "identity"
  /\ token' = [name |-> dev, identity |-> IF ret = Success THEN ListedIdentity ELSE None]
  /\ Ends("Ok")

Command ==
  \/ DiscoveryStep /\ UNCHANGED <<result, token>>
  \/ Start \/ Fail \/ DetectEnds \/ Identify \/ IdentityListed

\* Only calls read the flag and see the bus, so that what changes between two of them may
\* as well change right before the second.
Environment ==
  /\ pc \in {"list", "legacy", "dump", "redump"} /\ ret = Nothing
  /\ RequestCancellation \/ SwitchOff
  /\ UNCHANGED <<result, token>>

Done == pc = "done" /\ UNCHANGED vars

Next == Command \/ Environment \/ Done

Spec == Init /\ [][Next]_vars

-----------------------------------------------------------------------------
InputTypeOK ==
  /\ command \in Budgeted /\ raw \in Addr
  /\ expected \in Models \cup {None} /\ target \in Device \cup {None}

PlaceTypeOK ==
  /\ pc \in {"start", "list", "legacy", "listed", "addressed", "dump", "redump", "dumped",
             "failed", "done"}
  /\ purpose \in {None, "detect", "resolve", "reopen", "identity"}
  /\ want \in Models \cup {None}
  /\ attempt \in 0..2 /\ again \in BOOLEAN
  /\ dev \in Name \cup {None} /\ found \in Name \cup {None}

AnswerTypeOK ==
  /\ ret \in [code : Codes, stale : BOOLEAN] /\ lastError \in [code : Codes, stale : BOOLEAN]
  /\ listed \in [Device -> Addr \cup {Off}]

MemoryTypeOK ==
  /\ cache \in {NoCache} \cup [name : Name, want : Models \cup {None}, device : Device]
  /\ known \in [Name \cup {None} -> Models \cup {None}]
  /\ now \in Nat

WorldTypeOK ==
  /\ flag \in BOOLEAN /\ at \in [Device -> Addr \cup {Off}]
  /\ opened \subseteq Device /\ dumped \in Device \cup {None}
  /\ stopped \subseteq {"Cancelled", "Timeout"} /\ late \in BOOLEAN /\ complete \in BOOLEAN

OutcomeTypeOK ==
  /\ result \in Codes
  /\ token \in [name : Name \cup {None}, identity : Models \cup {None}]

TypeOK ==
  InputTypeOK /\ PlaceTypeOK /\ AnswerTypeOK /\ MemoryTypeOK /\ WorldTypeOK /\ OutcomeTypeOK

\* budget.h: the host never kills a command that keeps to its budget, whatever its
\* calls, graces and pauses add up to.
CeilingKept == now <= HostCeiling[command]

\* With an identity from the host, no other model is ever opened, although addresses
\* change under the names in use and lists leave scanners out.  The bare name of the
\* backend is the exception: backend.cpp:343 takes it when a list names one scanner, and
\* it is sure to be that scanner only when the list named every one.
OpensExpectedModel ==
  expected # None /\ Trusted(dev) => \A d \in opened : Model[d] = expected

\* While all scanners stay switched on and no list leaves one of them out, no scanner but
\* the one that was asked for is ever opened, not even another one of the same model.
\* Lists have to be complete: from one that names a single scanner, whichever it is, that
\* scanner is taken when the name asked for is not in it.
OpensOnlyTarget == target # None /\ Present = Device /\ complete => opened \subseteq {target}

\* The address cache never holds an address that its device has left.
CacheIsLive == cache # NoCache => cache.name = Selector \/ at[cache.device] \in {cache.name, Off}

\* When the identity of the device that answers can be known: with one from the host,
\* unless a bare backend name was taken from a list that left scanners out; without one,
\* while every scanner stays switched on and no list leaves one out.
Certain ==
  IF expected # None THEN Trusted(dev) ELSE Present = Device /\ complete

\* The identity in the token is that of the device whose options it holds.  A list that
\* leaves scanners out voids this: backend.cpp:661 takes the identity of the only scanner
\* that is listed, even when the options came from another one.
TokenMatchesDump ==
  result = "Ok" /\ token.identity # None /\ Certain => token.identity = Model[dumped]

\* detect reports a cancellation or a timeout as such, and starts nothing after a
\* cancellation.
DetectHeedsStop ==
  command = "detect" => ~late /\ (result # "none" /\ stopped # {} => result \in stopped)

\* How far the command is: the attempt, where in it, and whether an answer has come.
Within == [list |-> 0, legacy |-> 1, listed |-> 2, addressed |-> 3]
Asked  == [detect |-> 1, resolve |-> 1, reopen |-> 7, identity |-> 13]
Beyond == [start |-> 0, dump |-> 5, dumped |-> 12, failed |-> 17, done |-> 18]

Place(where, who, second) ==
  IF where \in DOMAIN Within THEN Asked[who] + Within[where]
  ELSE IF where = "redump" THEN (IF second THEN 11 ELSE 6)
  ELSE Beyond[where]

Position == 2 * (19 * attempt + Place(pc, purpose, again)) + (IF ret = Nothing THEN 0 ELSE 1)

\* The nested retries and fallbacks end for every sequence of answers: no step comes
\* back to where the command was before, and there are fewer than 2 * 57 places to be.
EveryStepAdvances == [][Command => Position' > Position /\ Position' < 2 * 57]_vars

\* cancel.cpp:39: a cancelled command reports the cancellation.
CancelIsReported == result = "Ok" => "Cancelled" \notin stopped

-----------------------------------------------------------------------------
(***************************************************************************)
(* The inductive invariant behind the properties above.                    *)
(***************************************************************************)
InBudget == now <= TotalBudget[command]
InGrace == now <= TotalBudget[command] + TimeoutGrace
InDelay == now <= TotalBudget[command] + TimeoutGrace + RetryDelay

Listings == {"list", "legacy", "listed"}

\* An answer that came after the budget is one that nothing retries, except where
\* reopenSelector drops it; then one pause follows and no further call.
BudgetScope ==
  /\ InDelay
  /\ ~InGrace => pc \in {"failed", "done"} \/ (purpose = "resolve" /\ pc \in Listings \cup {"addressed"})
  /\ pc \in Listings \cup {"addressed", "dump", "redump"} /\ ret # Nothing /\ ~InBudget
       => ret.code \in {"Timeout", "Cancelled"}
  /\ pc = "redump" /\ ret.stale => ret.code \notin {"Timeout", "Cancelled"}

\* A device list is right about every device it names that is still there, and no two
\* devices share a name in it or on the bus.
ListScope ==
  /\ pc \notin Listings => listed = NothingListed
  /\ \A d \in Device : listed[d] # Off => at[d] \in {listed[d], Off}
  /\ listed # NothingListed /\ complete => Present \subseteq Listing
  /\ \A d, e \in Device : listed[d] # Off /\ listed[d] \in {listed[e], at[e]} => d = e
  /\ \A d, e \in Device : at[d] = at[e] /\ at[d] # Off => d = e

\* The bare backend name is taken for the last attempt, and is then kept.
SelectorScope ==
  /\ found # None => pc = "addressed"
  /\ found = Selector => purpose = "resolve" /\ attempt = 2
  /\ dev = Selector =>
       /\ attempt = 2
       /\ \/ pc \in {"dump", "redump", "dumped", "failed", "done"}
          \/ pc \in Listings /\ purpose = "identity"

\* The names in use name no device of another model.
NameScope ==
  /\ purpose \in {"resolve", "reopen"} => want = expected
  /\ purpose # None \/ pc \notin Listings \cup {"addressed"}
  /\ pc \in {"dump", "redump"} => dev # None
  /\ pc = "addressed" /\ ret = Success => found # None
  /\ expected # None => \A n \in {dev, found} :
       Trusted(n) => \A d \in Named(n) : Model[d] = expected

\* The one scanner a command may open while all stay switched on: the target, or the
\* only scanner there is when the name of the host is no scanner's.
Goal == {d \in Device : target = d \/ (target = None /\ Device = {d})}

Steady == Present = Device /\ complete /\ (target # None \/ expected = None)

TargetScope ==
  /\ target # None => expected \in {None, Model[target]}
  /\ Steady => /\ opened \subseteq Goal
               /\ \A n \in {dev, found} : Named(n) \subseteq Goal
               /\ \A d \in Device \ Goal : at[d] # raw

\* The models that the device of the token can have.
Wanted == IF expected # None THEN {expected} ELSE {Model[d] : d \in Goal}

\* A name in use is known to belong to a scanner of such a model, or not known at all.
TokenScope ==
  /\ pc = "start" => known[raw] = None
  /\ purpose = "identity" => expected = None
  /\ \/ pc = "dump" /\ ret = Success
     \/ pc \in {"redump", "dumped"}
     \/ purpose \in {"reopen", "identity"}
     \/ token # NoToken
     => dumped \in opened
  /\ Certain
       => /\ pc \in {"dump", "redump", "dumped"} => known[dev] \in Wanted \cup {None}
          /\ pc = "addressed" /\ ret = Success => known[found] \in Wanted
          /\ token.identity \in Wanted \cup {None}

\* detect: the call that was stopped is the last one, and its answer is kept.
StopScope ==
  command = "detect" =>
    /\ ~late
    /\ pc \in {"start", "done"} \cup Listings
    /\ IF pc = "start" THEN stopped = {} ELSE purpose = "detect"
    /\ pc # "done" => result = "none" /\ (stopped # {} => ret.code \in stopped)
    /\ pc = "done" => stopped = {} \/ result \in stopped

CommandInvariant ==
  /\ TypeOK /\ BudgetScope /\ ListScope /\ SelectorScope /\ NameScope /\ OpensExpectedModel /\ CacheIsLive
  /\ TargetScope /\ TokenScope /\ StopScope
=============================================================================
