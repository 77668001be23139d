----------------------------- MODULE Discovery -----------------------------
(***************************************************************************)
(* What detect, capabilities and scan share (app/backend.cpp): running     *)
(* scanimage to list devices and to dump options, the address cache, and   *)
(* finding a device again after its address has changed.                   *)
(*                                                                         *)
(* All devices are of the backend of the device asked for; others are      *)
(* never chosen.  A device name is its USB address, or Selector, the bare  *)
(* name of the backend.  Opening a device over libusb may change its       *)
(* address.  A call runs in one step; what the caller makes of its answer  *)
(* is the next.  Retries follow the attempts of the code.                  *)
(***************************************************************************)
EXTENDS CommandBudget, FiniteSets

CONSTANTS
  Device,          \* the scanners
  Model,           \* their vendor and model, a function of the device
  Addr,            \* addresses that the system can give
  StableSelector,  \* supportsStableBackendSelector
  Libusb           \* addresses are volatile (":libusb:")

Selector == "selector"
None == "none"
Off == "off"
Name == Addr \cup {Selector}
Models == {Model[d] : d \in Device}

ASSUME DiscoveryAssumption ==
  /\ IsFiniteSet(Device)
  /\ DOMAIN Model = Device
  /\ None \notin Models \cup Name \cup Device
  /\ Off \notin Name /\ Selector \notin Addr
  /\ StableSelector \in BOOLEAN /\ Libusb \in BOOLEAN

VARIABLES
  command,   \* command_
  raw,       \* the device name the host asks for
  expected,  \* expectedIdentity
  pc,        \* what the main thread does next
  purpose,   \* who listed the devices
  want,      \* the identity that currentDeviceAddress was given
  attempt,   \* of capabilityOptionsDump
  again,     \* the second attempt of sourceSpecificOptionsDump or scanSpecificOptionsDump
  dev,       \* devname, currentDevname
  found,     \* what currentDeviceAddress resolved
  ret,       \* the answer of the last call or operation
  lastError, \* lastError
  listed,    \* the names in the last device list
  cache,     \* cachedAddress_ and what it was resolved for
  known,     \* cachedDeviceIdentities_
  now,       \* time since beginCommand; not counted for a scan, which has no budget
  flag,      \* cancellationRequested
  at,        \* where each device is now
  (* history *)
  target,    \* the device that has the name raw when the command starts, if it is of
             \* the expected model, else None
  opened,    \* devices that were opened
  dumped,    \* the device of the last option dump
  stopped,   \* Cancelled and Timeout, when a call answered so
  late,      \* a scanimage was launched after a call answered Cancelled
  complete   \* every list so far that named a scanner named every one that was on

control == <<command, raw, expected, target>>
world == <<flag, at>>
history == <<opened, dumped, stopped, late, complete>>

NoCache == [name |-> None, want |-> None, device |-> None]
Error(code) == [code |-> code, stale |-> FALSE]
Success == Error("Ok")
Nothing == Error("none")
Codes == {"none", "Ok", "Cancelled", "Timeout", "Busy", "NotConnected", "Ambiguous", "IoFailure",
          "UnsupportedOption"}
NothingListed == [d \in Device |-> Off]
NothingKnown == [n \in Name \cup {None} |-> None]

\* isRetryableAddressError: Ambiguous is NotConnected with a text that will not change.
RetryableAddress(e) == e.code \in {"Busy", "IoFailure", "NotConnected"}

\* shouldRetryCapabilityRead
RetryableRead(e) == e.code \in {"Busy", "NotConnected", "Ambiguous", "IoFailure"}

(***************************************************************************)
(* scanimage and the USB bus.                                              *)
(***************************************************************************)
Present == {d \in Device : at[d] # Off}

\* A list of the scanners S, and the scanners that the last list names.
ListOf(S) == [d \in Device |-> IF d \in S THEN at[d] ELSE Off]
Listing == {d \in Device : listed[d] # Off}

\* The bare backend name, taken because a list named one scanner, is sure to be that
\* scanner only when no list left any out.
Trusted(name) == name = Selector => complete

Named(name) == IF name = Selector THEN Present ELSE {d \in Device : at[d] = name}

\* A re-enumerated device gets an address that no other device has.
Opens(d) ==
  /\ opened' = opened \cup {d}
  /\ \/ at' = at
     \/ /\ Libusb
        /\ \E a \in Addr \ {at[e] : e \in Device} : at' = [at EXCEPT ![d] = a]

\* A call that failed may have opened its device.
MayOpen(name) ==
  \/ UNCHANGED <<at, opened>>
  \/ name # None /\ \E d \in Named(name) : Opens(d)

Elapse(t) == now' = IF command = "scan" THEN now ELSE now + t

(***************************************************************************)
(* runScanimage.  name is the argument of -d, or None.                     *)
(***************************************************************************)
\* Mutant of NoteDeviceOpened: the cache survives.
NoteDeviceOpenedKeeps(name) == cache' = cache

NoteDeviceOpened(name) ==
  cache' = IF name = None \/ cache.name = Selector THEN cache ELSE NoCache

Refused ==
  /\ \/ flag /\ ret' = Error("Cancelled")
     \/ ~flag /\ ~MayCall(command, now) /\ ret' = Error("Timeout")
  /\ UNCHANGED <<now, flag, at, opened, dumped, listed, cache, late>>

LaunchFails ==
  /\ ret' = Error("IoFailure")
  /\ UNCHANGED <<now, flag, at, opened, dumped, listed>>

\* A request arrived before adoptChild, which refuses the child.
TurnedAway(name) ==
  /\ ret' = Error("Cancelled")
  /\ flag' = TRUE
  /\ MayOpen(name)
  /\ UNCHANGED <<now, dumped, listed>>

\* A request arrived before the call ended; a scan's flag stays.
Interrupted(name) ==
  /\ \E t \in 0..(NextCallTimeout(command, now) + TimeoutGrace) : Elapse(t)
  /\ ret' = Error("Cancelled")
  /\ flag' = (command = "scan")
  /\ MayOpen(name)
  /\ UNCHANGED <<dumped, listed>>

TimesOut(name) ==
  /\ \E t \in 0..TimeoutGrace : Elapse(NextCallTimeout(command, now) + t)
  /\ ret' = Error("Timeout")
  /\ MayOpen(name)
  /\ UNCHANGED <<flag, dumped, listed>>

ExitsBadly(name) ==
  /\ \E t \in 0..NextCallTimeout(command, now) : Elapse(t)
  /\ \E code \in {"Busy", "NotConnected", "IoFailure"}, stale \in BOOLEAN :
       ret' = [code |-> code, stale |-> stale]
  /\ MayOpen(name)
  /\ UNCHANGED <<flag, dumped, listed>>

\* A scanner that is on may be missing from a list: one that is re-enumerating is not
\* named yet (backend.cpp:75).
Answers(name) ==
  /\ \E t \in 0..NextCallTimeout(command, now) : Elapse(t)
  /\ ret' = Success
  /\ \/ /\ name = None
        /\ \E S \in SUBSET Present : listed' = ListOf(S)
        /\ UNCHANGED <<at, opened, dumped>>
     \/ /\ name # None
        /\ \E d \in Named(name) : Opens(d) /\ dumped' = d
        /\ UNCHANGED listed
  /\ UNCHANGED flag

Launched(name) ==
  /\ ~flag /\ MayCall(command, now)
  /\ NoteDeviceOpened(name)
  /\ late' = (late \/ "Cancelled" \in stopped)
  /\ \/ LaunchFails \/ TurnedAway(name) \/ Interrupted(name) \/ TimesOut(name)
     \/ ExitsBadly(name) \/ Answers(name)

RunScanimage(name) ==
  /\ ret = Nothing
  /\ Refused \/ Launched(name)
  /\ stopped' = stopped \cup ({ret'.code} \cap {"Cancelled", "Timeout"})
  /\ complete' = (complete /\ (Listing' = {} \/ Present \subseteq Listing'))
  /\ UNCHANGED <<pc, purpose, want, attempt, again, dev, found, lastError, known>>
  /\ UNCHANGED control

\* Between two calls nothing outside the adapter changes by its doing.
Local == UNCHANGED control /\ UNCHANGED world /\ UNCHANGED history

(***************************************************************************)
(* listDevices and currentDeviceAddress.                                   *)
(***************************************************************************)
\* cacheListedDevices
KnownFrom(names) ==
  [n \in Name \cup {None} |-> IF \E d \in Device : names[d] = n
                  THEN Model[CHOOSE d \in Device : names[d] = n]
                  ELSE known[n]]

Ask(who, identity) ==
  /\ pc' = "list"
  /\ purpose' = who
  /\ want' = identity
  /\ ret' = Nothing

ListFormatted == pc = "list" /\ RunScanimage(None)

ListLegacy == pc = "legacy" /\ RunScanimage(None)

\* Mutant of FormattedListed: any error of -f falls back to -L.
FormattedListedAlways ==
  /\ pc = "list" /\ ret # Nothing
  /\ \/ /\ Listing # {} /\ ret = Success
        /\ pc' = "listed"
        /\ known' = KnownFrom(listed)
        /\ UNCHANGED ret
     \/ /\ Listing = {} \/ ret # Success
        /\ pc' = "legacy"
        /\ ret' = Nothing
        /\ UNCHANGED known
  /\ Local
  /\ UNCHANGED <<purpose, want, attempt, again, dev, found, lastError, listed, cache, now>>

\* Mutant of FormattedListed: an empty list is asked for again.
FormattedListedAgain ==
  /\ pc = "list" /\ ret # Nothing
  /\ \/ /\ ret.code \in {"Cancelled", "Timeout"} \/ Listing # {}
        /\ pc' = "listed"
        /\ UNCHANGED <<ret, known>>
     \/ /\ ret.code \notin {"Cancelled", "Timeout"} /\ Listing = {}
        /\ ret' = Nothing
        /\ UNCHANGED <<pc, known>>
  /\ Local
  /\ UNCHANGED <<purpose, want, attempt, again, dev, found, lastError, listed, cache, now>>

\* The end of scanimage -f: only Cancelled and Timeout are final.
FormattedListed ==
  /\ pc = "list" /\ ret # Nothing
  /\ \/ /\ ret.code \in {"Cancelled", "Timeout"}
        /\ pc' = "listed"
        /\ UNCHANGED <<ret, known>>
     \/ /\ ret = Success /\ Listing # {}
        /\ pc' = "listed"
        /\ known' = KnownFrom(listed)
        /\ UNCHANGED ret
     \/ /\ ret.code \notin {"Cancelled", "Timeout"}
        /\ ret # Success \/ Listing = {}
        /\ pc' = "legacy"
        /\ ret' = Nothing
        /\ UNCHANGED known
  /\ Local
  /\ UNCHANGED <<purpose, want, attempt, again, dev, found, lastError, listed, cache, now>>

LegacyListed ==
  /\ pc = "legacy" /\ ret # Nothing
  /\ pc' = "listed"
  /\ known' = IF ret = Success THEN KnownFrom(listed) ELSE known
  /\ Local
  /\ UNCHANGED <<purpose, want, attempt, again, dev, found, lastError, ret, listed, cache, now>>

Exact == {d \in Listing : listed[d] = raw /\ want \in {None, Model[d]}}

\* The devices the identity allows, all of the backend when none is given.
Matching == {d \in Listing : want \in {None, Model[d]}}

\* Mutant of Chosen: an identity is not looked at when one device is left.
ChosenSingle == IF Exact # {} THEN Exact ELSE IF Cardinality(Listing) = 1 THEN Listing ELSE {}

\* Mutant of Chosen: any scanner that matches will do.
ChosenAny == IF Exact # {} THEN Exact ELSE Matching

Chosen == IF Exact # {} THEN Exact ELSE IF Cardinality(Matching) = 1 THEN Matching ELSE {}

AllowSingleBackendSelector == purpose = "address" \/ (purpose = "resolve" /\ attempt = 2)

NameFor(d) ==
  IF AllowSingleBackendSelector /\ StableSelector /\ Libusb /\ Cardinality(Listing) = 1
  THEN Selector ELSE listed[d]

\* currentDeviceAddress after its listing.  The cache never answers here: its callers
\* have invalidated it, or have asked it themselves.
CurrentDeviceAddress ==
  /\ pc = "listed" /\ purpose \in {"resolve", "reopen", "reopenScan", "address"}
  /\ pc' = "addressed"
  /\ listed' = NothingListed
  /\ \/ ret # Success /\ UNCHANGED <<found, cache, known, ret>>
     \/ /\ ret = Success
        /\ \E d \in Chosen :
             /\ found' = NameFor(d)
             /\ cache' = [name |-> NameFor(d), want |-> want, device |-> d]
             /\ known' = [known EXCEPT ![NameFor(d)] = Model[d], ![listed[d]] = Model[d]]
        /\ UNCHANGED ret
     \/ /\ ret = Success /\ Chosen = {}
        /\ cache' = NoCache
        /\ ret' = Error(IF want # None /\ Listing # {} THEN "Ambiguous" ELSE "NotConnected")
        /\ UNCHANGED <<found, known>>
  /\ Local
  /\ UNCHANGED <<purpose, want, attempt, again, dev, lastError, now>>

(***************************************************************************)
(* capabilityOptionsDump and, inside it, sourceSpecificOptionsDump.        *)
(***************************************************************************)
BeginOptionsDump ==
  \/ expected = None /\ pc' = "dump" /\ dev' = raw /\ ret' = Nothing /\ UNCHANGED <<purpose, want>>
  \/ expected # None /\ Ask("resolve", expected) /\ UNCHANGED dev

RetryRead(e) ==
  /\ \/ /\ attempt < 2 /\ RetryableRead(e)
        /\ attempt' = attempt + 1
        /\ cache' = NoCache
        /\ Elapse(RetryDelay)
        /\ Ask("resolve", expected)
     \/ /\ attempt = 2 \/ ~RetryableRead(e)
        /\ pc' = "failed" /\ ret' = e
        /\ UNCHANGED <<attempt, cache, now, purpose, want>>
  /\ again' = FALSE /\ lastError' = Nothing /\ found' = None
  /\ Local
  /\ UNCHANGED <<dev, listed, known>>

\* Go on with the device name n.
Proceed(next, n, second) ==
  /\ pc' = next
  /\ dev' = n
  /\ again' = second
  /\ ret' = Nothing
  /\ lastError' = Nothing /\ found' = None
  /\ Local
  /\ UNCHANGED <<purpose, want, attempt, listed, cache, known, now>>

AddressResolved ==
  /\ pc = "addressed" /\ purpose = "resolve"
  /\ \/ ret = Success /\ Proceed("dump", found, FALSE)
     \/ ret # Success /\ RetryRead(ret)

OptionsDump == pc = "dump" /\ RunScanimage(dev)

\* A dump may be empty, sufficient, or need source and mode to be selected.
OptionsDumped ==
  /\ pc = "dump" /\ ret # Nothing
  /\ \/ ret # Success /\ RetryRead(ret)
     \/ ret = Success /\ RetryRead(Error("IoFailure"))
     \/ ret = Success /\ Proceed("dumped", dev, FALSE)
     \/ ret = Success /\ Proceed("redump", dev, FALSE)

SourceDump == pc = "redump" /\ RunScanimage(dev)

\* reopenSelector of a name that has an address: list again.
Reopen(who, identity) ==
  /\ Ask(who, identity)
  /\ lastError' = ret
  /\ cache' = NoCache
  /\ Local
  /\ UNCHANGED <<attempt, again, dev, found, listed, known, now>>

SourceDumped ==
  /\ pc = "redump" /\ ret # Nothing
  /\ \/ ret = Success /\ RetryRead(Error("IoFailure"))
     \/ ret = Success /\ Proceed("dumped", dev, FALSE)
     \/ /\ ret # Success
        /\ again \/ ~ret.stale \/ dev = Selector
        /\ RetryRead(ret)
     \/ ~again /\ ret.stale /\ dev # Selector /\ Reopen("reopen", expected)

\* reopenSelector drops the errors of currentDeviceAddress; the stale error is left.
Reopened ==
  /\ pc = "addressed" /\ purpose = "reopen"
  /\ \/ ret = Success /\ found # dev /\ Proceed("redump", found, TRUE)
     \/ (ret # Success \/ found = dev) /\ RetryRead(lastError)

DiscoveryStep ==
  \/ ListFormatted \/ FormattedListed \/ ListLegacy \/ LegacyListed \/ CurrentDeviceAddress
  \/ AddressResolved \/ OptionsDump \/ OptionsDumped \/ SourceDump \/ SourceDumped \/ Reopened

\* requestCancellation between two calls.
RequestCancellation ==
  /\ ~flag
  /\ flag' = TRUE
  /\ UNCHANGED <<pc, purpose, want, attempt, again, dev, found, ret, lastError, listed, cache,
                 known, now, at>>
  /\ UNCHANGED control /\ UNCHANGED history

\* A scanner is unplugged or switched off.
SwitchOff ==
  /\ \E d \in Present : at' = [at EXCEPT ![d] = Off]
  /\ UNCHANGED <<pc, purpose, want, attempt, again, dev, found, ret, lastError, listed, cache,
                 known, now, flag>>
  /\ UNCHANGED control /\ UNCHANGED history

\* Each device has an address of its own; nothing is cached when a command starts.
InitDiscovery ==
  /\ raw \in Addr
  /\ pc = "start"
  /\ purpose = None /\ want = None
  /\ attempt = 0 /\ again = FALSE
  /\ dev = None /\ found = None
  /\ ret = Nothing /\ lastError = Nothing
  /\ listed = NothingListed
  /\ cache = NoCache
  /\ known = NothingKnown
  /\ now = 0
  /\ flag \in BOOLEAN
  /\ at \in [Device -> Addr]
  /\ \A d, e \in Device : at[d] = at[e] => d = e
  /\ \/ target \in Device /\ at[target] = raw /\ expected \in {None, Model[target]}
     \/ target = None /\ \A d \in Device : at[d] = raw => expected \notin {None, Model[d]}
  /\ opened = {} /\ dumped = None /\ stopped = {} /\ late = FALSE /\ complete = TRUE
=============================================================================
