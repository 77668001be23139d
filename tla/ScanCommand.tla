---------------------------- MODULE ScanCommand ----------------------------
(***************************************************************************)
(* The command scan (Backend::scan) on top of Discovery: the session, the  *)
(* options, the address, the passes with their retry, the merge, the       *)
(* infrared pass, the validation of the files, and what is left on disk.   *)
(*                                                                         *)
(* A file is "absent", "old" (there before the command), "torn" (cannot be *)
(* decoded), "inexact" (an image, but not of the requested depth, mode or  *)
(* tags), "exact", or "larger" (as requested, in another size).            *)
(***************************************************************************)
EXTENDS Discovery, AcquisitionRetry, Sequences

CONSTANTS
  Backend,      \* the SANE backend of the scanner
  KeepSamples,  \* keepMultipassArtifacts
  Samples       \* the paths of the exposure brackets, in the order they are scanned

Brackets == {Samples[i] : i \in DOMAIN Samples}
Path == {"output", "partial", "infrared"} \cup Brackets
Whole == {"exact", "larger"}
Readable == Whole \cup {"inexact"}
Content == {"absent", "old", "torn"} \cup Readable

ASSUME ScanAssumption ==
  /\ KeepSamples \in BOOLEAN
  /\ Samples \in Seq(STRING) /\ Samples # <<>>
  /\ \A i, j \in DOMAIN Samples : Samples[i] = Samples[j] => i = j
  /\ {"output", "partial", "infrared"} \cap Brackets = {}

VARIABLES
  job,       \* what the host asks for, and the token it gives
  identity,  \* resolved.expectedIdentity
  acq,       \* resolved.acquisitionDevice
  try,       \* attempt of runSingleAcquisition
  file,      \* outputPath of runSingleAcquisition
  files,     \* what is on disk
  withIR,    \* infraredFile
  result,    \* "none", "Ok", or the code of the error that the command reports
  (* history *)
  seen,      \* an acquisition of this pass has reported progress
  stuck      \* the files whose removal failed and that nothing has written since

scanVars == <<job, identity, acq, try, file, files, withIR, result, seen, stuck>>
discoveryVars == <<command, raw, expected, target, pc, purpose, want, attempt, again, dev, found, ret,
                   lastError, listed, cache, known, now, flag, at, opened, dumped, stopped, late,
                   complete>>
vars == <<discoveryVars, scanVars>>

NoToken == [name |-> None, identity |-> None]
NewJob == [multi |-> FALSE, infrared |-> FALSE, token |-> NoToken]

\* A token names an address that may have been given away since, or the selector.  What
\* else the host asks for only matters once the options are accepted, and is chosen there.
\* The paths of the results are taken: where they are free there is less to go wrong.
Init ==
  /\ command = "scan" /\ expected = None
  /\ InitDiscovery
  /\ \E t \in [name : Name, identity : Models \cup {None}] \cup {NoToken} :
       job = [NewJob EXCEPT !.token = t]
  /\ identity = None /\ acq = None
  /\ try = 0 /\ file = "output"
  /\ files = [p \in Path |-> IF p \in {"output", "infrared"} THEN "old" ELSE "absent"]
  /\ withIR = FALSE
  /\ result = "none"
  /\ seen = FALSE
  /\ stuck = {}

\* removeQuietly, for each path of doomed.  A file stays when something still has it open,
\* as a scanimage does that was turned away: it is not waited for, and its output was
\* opened without sharing (child.cpp:186).
Remove(doomed, disk) ==
  \E kept \in SUBSET {p \in doomed : disk[p] # "absent"} :
    /\ files' = [p \in Path |-> IF p \in doomed \ kept THEN "absent" ELSE disk[p]]
    /\ stuck' = (stuck \ doomed) \cup kept

\* The samples are removed wherever multiPassScan is left.
Leftovers == IF job.multi /\ ~KeepSamples THEN Brackets ELSE {}

\* The command ends, with the files of disk except those of doomed.
LeaveWith(r, doomed, disk) ==
  /\ pc' = "done"
  /\ result' = r
  /\ Remove(doomed \cup Leftovers, disk)
  /\ ret' = Nothing /\ lastError' = Nothing
  /\ listed' = NothingListed
  /\ Local
  /\ UNCHANGED <<purpose, want, attempt, again, dev, found, cache, known, now, job, identity, acq,
                 try, file, withIR, seen>>

Leave(r) == LeaveWith(r, {}, files)

(***************************************************************************)
(* The session, and resolveValidatedMedia.                                 *)
(***************************************************************************)
Busy == pc = "start" /\ Leave("Busy")

RefusedSession == pc = "start" /\ flag /\ Leave("Cancelled")

\* A token that is malformed, of another device, or unsafe.
BadToken == pc = "start" /\ ~flag /\ job.token # NoToken /\ Leave("UnsupportedOption")

\* The options in the token are those of the mode that was asked for, or must be read.
WithToken ==
  /\ pc = "start" /\ ~flag /\ job.token # NoToken
  /\ acq' = job.token.name /\ identity' = job.token.identity
  /\ \/ pc' = "validate" /\ UNCHANGED dev
     \/ pc' = "scandump" /\ dev' = job.token.name
  /\ ret' = Nothing
  /\ Local
  /\ UNCHANGED <<purpose, want, attempt, again, found, lastError, listed, cache, known, now,
                 job, try, file, files, withIR, result, seen, stuck>>

WithoutToken ==
  /\ pc = "start" /\ ~flag /\ job.token = NoToken
  /\ BeginOptionsDump
  /\ Local
  /\ UNCHANGED <<attempt, again, found, lastError, listed, cache, known, now, scanVars>>

OptionsFail == pc = "failed" /\ Leave(ret.code)

\* canReuseSinglePassOptionsDump, or scanSpecificOptionsDump.
OptionsRead ==
  /\ pc = "dumped"
  /\ acq' = dev /\ identity' = known[dev]
  /\ \E next \in {"validate", "scandump"} : Proceed(next, dev, FALSE)
  /\ UNCHANGED <<job, try, file, files, withIR, result, seen, stuck>>

ScanDump == pc = "scandump" /\ RunScanimage(dev) /\ UNCHANGED scanVars

\* acq still is the name that the capability options were read from.
IdentityAfterDump ==
  IF job.token # NoToken THEN identity
  ELSE IF known[dev] # None THEN known[dev] ELSE known[acq]

ScanDumped ==
  /\ pc = "scandump" /\ ret # Nothing
  /\ \/ /\ ret = Success
        /\ Proceed("validate", dev, FALSE)
        /\ acq' = dev /\ identity' = IdentityAfterDump
        /\ UNCHANGED <<job, try, file, files, withIR, result, seen, stuck>>
     \/ ret = Success /\ Leave("IoFailure")
     \/ /\ ret # Success
        /\ again \/ ~ret.stale \/ dev = Selector
        /\ Leave(ret.code)
     \/ /\ ~again /\ ret.stale /\ dev # Selector
        /\ Reopen("reopenScan", identity)
        /\ UNCHANGED scanVars

ScanReopened ==
  /\ pc = "addressed" /\ purpose = "reopenScan"
  /\ \/ ret = Success /\ found # dev /\ Proceed("scandump", found, TRUE) /\ UNCHANGED scanVars
     \/ (ret # Success \/ found = dev) /\ Leave(lastError.code)

OptionsRejected == pc = "validate" /\ Leave("UnsupportedOption")

Forgotten ==
  /\ known' = NothingKnown
  /\ purpose' = None /\ want' = None /\ found' = None
  /\ attempt' = 0 /\ again' = FALSE
  /\ ret' = Nothing /\ lastError' = Nothing
  /\ listed' = NothingListed
  /\ opened' = {} /\ dumped' = None
  /\ UNCHANGED <<command, raw, expected, world, stopped, late, complete, now, identity, result>>

\* Of what was learnt about devices, only the identity, a stable name and the cache are
\* read after this.
OptionsAccepted ==
  /\ pc = "validate"
  /\ \E m, i \in BOOLEAN :
       /\ job' = [NewJob EXCEPT !.multi = m, !.infrared = i]
       /\ file' = IF m THEN Samples[1] ELSE "output"
  /\ acq' = IF Libusb /\ acq # Selector THEN None ELSE acq
  /\ pc' = "resolve" /\ try' = 0 /\ dev' = None
  /\ target' = None
  /\ Forgotten
  /\ UNCHANGED <<cache, files, withIR, seen, stuck>>

(***************************************************************************)
(* resolveDeviceAddress and runSingleAcquisition.                          *)
(***************************************************************************)
\* Where the scan goes after a pass.
To(next) ==
  /\ pc' = next /\ dev' = None
  /\ try' = 0 /\ seen' = FALSE
  /\ Forgotten
  /\ UNCHANGED <<target, cache, job, acq>>

\* An infrared pass that failed is a warning; the validation then misses its file.
PassFails(code) ==
  \/ file # "infrared" /\ LeaveWith(code, {file}, files)
  \/ /\ file = "infrared"
     /\ Remove({file}, files)
     /\ To("artifacts") /\ UNCHANGED <<file, withIR>>

\* Whether the address of the last listing is young enough is up to the clock.
CachedAddress == IF cache # NoCache /\ cache.want = identity THEN cache.name ELSE None

OpenWith(name) ==
  /\ pc' = "scanning" /\ dev' = name
  /\ Forgotten
  /\ UNCHANGED <<target, cache, job, acq, try, file, files, withIR, seen, stuck>>

ResolveKnown ==
  /\ pc = "resolve" /\ try = 0
  /\ \/ CachedAddress # None /\ OpenWith(CachedAddress)
     \/ /\ CachedAddress # Selector
        /\ acq = Selector \/ ~Libusb
        /\ OpenWith(acq)

ResolveAgain ==
  /\ pc = "resolve"
  /\ try = 0 => CachedAddress # Selector /\ acq # Selector /\ Libusb
  /\ Ask("address", identity) /\ attempt' = 0
  /\ Local
  /\ UNCHANGED <<again, dev, found, lastError, listed, cache, known, now, scanVars>>

AddressFound ==
  /\ pc = "addressed" /\ purpose = "address" /\ ret = Success
  /\ OpenWith(found)

\* A listing may show a name that is no safe argument.
UnsafeAddress == pc = "scanning" /\ ret = Nothing /\ dev # acq /\ PassFails("UnsupportedOption")

\* Three attempts, all of them listings.
AddressMissing ==
  /\ pc = "addressed" /\ purpose = "address" /\ ret # Success
  /\ \/ /\ RetryableAddress(ret) /\ attempt < 2
        /\ Ask("address", identity) /\ attempt' = attempt + 1
        /\ Local
        /\ UNCHANGED <<again, dev, found, lastError, listed, cache, known, now, scanVars>>
     \/ ~(RetryableAddress(ret) /\ attempt < 2) /\ PassFails(ret.code)

\* noteDeviceOpened follows every return of runAcquisition.
RunAcquisition ==
  /\ pc = "scanning" /\ ret = Nothing
  /\ NoteDeviceOpened(dev)
  /\ late' = (late \/ "Cancelled" \in stopped)
  /\ UNCHANGED <<control, pc, purpose, want, attempt, again, dev, found, lastError, listed, known,
                 now, dumped, complete, job, identity, acq, try, file, withIR, result>>

\* The output file has been written, or emptied.
Writes(image) == files' = [files EXCEPT ![file] = image] /\ stuck' = stuck \ {file}

\* The output file cannot be opened, or it was, and emptied, and CreateProcessW fails.
AcquisitionLaunchFails ==
  /\ RunAcquisition
  /\ ret' = Error("IoFailure")
  /\ UNCHANGED <<files, stuck>> \/ Writes("torn")
  /\ UNCHANGED <<world, opened, stopped, seen>>

\* adoptChild refuses the child of a cancelled scan; it may have opened the scanner.
AcquisitionTurnedAway ==
  /\ RunAcquisition
  /\ flag' = TRUE
  /\ ret' = Error("Cancelled") /\ stopped' = stopped \cup {"Cancelled"}
  /\ Writes("torn")
  /\ MayOpen(dev)
  /\ UNCHANGED seen

\* What runSingleAcquisition makes of an outcome.
Answer(o) ==
  LET decision == DecideRetry(Backend, try, AttemptCount(Backend), o)
  IN  IF decision = "Fail" THEN FailureCode(o) ELSE decision

\* scanimage ran.  Data need a scanner that was opened; the image may still be anything.
AcquisitionRuns ==
  /\ RunAcquisition
  /\ ~flag
  /\ \E o \in Possible(Backend), image \in {"torn"} \cup Readable :
       /\ flag' = o.cancelled
       /\ ret' = Error(Answer(o))
       /\ stopped' = stopped \cup ({Answer(o)} \cap {"Timeout"})
                              \cup (IF o.cancelled THEN {"Cancelled"} ELSE {})
       /\ image \in Readable => o.exit0
       /\ Writes(image)
       /\ seen' = (seen \/ o.progress)
       /\ IF o.exit0 \/ o.progress THEN \E d \in Named(dev) : Opens(d) ELSE MayOpen(dev)

Acquire == AcquisitionLaunchFails \/ AcquisitionTurnedAway \/ AcquisitionRuns

AcquisitionFailed ==
  /\ pc = "scanning" /\ ret.code \notin {"none", "Succeed", "Retry"}
  /\ PassFails(ret.code)

AcquisitionRetried ==
  /\ pc = "scanning" /\ ret.code = "Retry"
  /\ pc' = "resolve" /\ try' = try + 1
  /\ Remove({file}, files)
  /\ cache' = NoCache
  /\ Forgotten
  /\ UNCHANGED <<target, dev, job, acq, file, withIR, seen>>

Bracket == CHOOSE i \in DOMAIN Samples : Samples[i] = file

NextPass(f, next) == To(next) /\ file' = f /\ UNCHANGED <<files, stuck>>

\* The next bracket, the merge, the infrared pass, or the end.  imageSize reads the header
\* only, which a torn file may have.
AcquisitionSucceeded ==
  /\ pc = "scanning" /\ ret.code = "Succeed"
  /\ \/ file \in Brackets /\ Bracket < Len(Samples)
        /\ NextPass(Samples[Bracket + 1], "resolve") /\ UNCHANGED withIR
     \/ file \in Brackets /\ Bracket = Len(Samples)
        /\ NextPass(file, "merge") /\ UNCHANGED withIR
     \/ file = "output" /\ job.infrared /\ NextPass("infrared", "resolve") /\ UNCHANGED withIR
     \/ file = "output" /\ ~job.infrared /\ NextPass(file, "artifacts") /\ UNCHANGED withIR
     \/ file = "infrared" /\ NextPass(file, "artifacts") /\ withIR' = TRUE
     \/ file = "infrared" /\ files[file] = "torn" /\ PassFails("IoFailure")

(***************************************************************************)
(* The merge, and validateScanArtifacts.                                   *)
(***************************************************************************)
Loaded == {files[p] : p \in Brackets}

\* An inexact image may be one that cannot be merged, or be of any size.
MergeFails ==
  /\ pc = "merge"
  /\ "torn" \in Loaded \/ "inexact" \in Loaded \/ Cardinality(Loaded) > 1
  /\ Leave("IoFailure")

Mergeable == pc = "merge" /\ "torn" \notin Loaded /\ Cardinality(Loaded \ {"inexact"}) <= 1

\* writeRGB16TIFF: a row that cannot be written leaves the temporary file, a rename that
\* fails tries to remove it; the temporary file may not open at all.
WriteFails ==
  /\ Mergeable
  /\ \/ \E left \in {"torn", files["partial"]} :
          LeaveWith("IoFailure", {}, [files EXCEPT !["partial"] = left])
     \/ \E image \in Whole : LeaveWith("IoFailure", {"partial"}, [files EXCEPT !["partial"] = image])

MergeWritten ==
  /\ Mergeable
  /\ \E image \in Whole :
       /\ Loaded \ {"inexact"} \subseteq {image}
       /\ files' = [files EXCEPT !["output"] = image, !["partial"] = "absent"]
  /\ stuck' = stuck \ {"output"}
  /\ To(IF job.infrared THEN "resolve" ELSE "artifacts")
  /\ file' = IF job.infrared THEN "infrared" ELSE "output"
  /\ UNCHANGED withIR

\* Mutant of ArtifactsValid: the sizes are not compared.
ArtifactsValidAnySize == files["output"] \in Whole /\ job.infrared = withIR

ArtifactsValid ==
  /\ files["output"] \in Whole
  /\ job.infrared = withIR
  /\ withIR => files["infrared"] = files["output"]

\* Mutant of Rejected: only the main image is removed.
RejectedOutput == {"output"}

\* The files that are removed when they are not what was asked for.
Rejected == {"output"} \cup (IF withIR THEN {"infrared"} ELSE {})

ValidateArtifacts ==
  /\ pc = "artifacts"
  /\ \/ ArtifactsValid /\ Leave("Ok")
     \/ ~ArtifactsValid /\ LeaveWith("IoFailure", Rejected, files)

ScanStep ==
  \/ Busy \/ RefusedSession \/ BadToken \/ WithToken \/ WithoutToken
  \/ OptionsFail \/ OptionsRead \/ ScanDump \/ ScanDumped \/ ScanReopened
  \/ OptionsRejected \/ OptionsAccepted
  \/ ResolveKnown \/ ResolveAgain \/ AddressFound \/ UnsafeAddress \/ AddressMissing
  \/ Acquire \/ AcquisitionFailed \/ AcquisitionRetried \/ AcquisitionSucceeded
  \/ MergeFails \/ WriteFails \/ MergeWritten \/ ValidateArtifacts

Command == (DiscoveryStep /\ UNCHANGED scanVars) \/ ScanStep

\* Only calls read the flag and see the bus, so that what changes between two of them may
\* as well change right before the second.
Environment ==
  /\ pc \in {"list", "legacy", "dump", "redump", "scandump", "scanning"} /\ ret = Nothing
  /\ RequestCancellation \/ SwitchOff
  /\ UNCHANGED scanVars

Done == pc = "done" /\ UNCHANGED vars

Next == Command \/ Environment \/ Done

Spec == Init /\ [][Next]_vars

-----------------------------------------------------------------------------
PlaceTypeOK ==
  /\ pc \in {"start", "list", "legacy", "listed", "addressed", "dump", "redump", "dumped", "failed",
            "scandump", "validate", "resolve", "scanning", "merge", "artifacts", "done"}
  /\ identity \in Models \cup {None} /\ acq \in Name \cup {None}
  /\ try \in 0..1 /\ seen \in BOOLEAN
  /\ result \in Codes

FileTypeOK ==
  /\ job \in [multi : BOOLEAN, infrared : BOOLEAN,
              token : [name : Name \cup {None}, identity : Models \cup {None}]]
  /\ file \in Path /\ files \in [Path -> Content]
  /\ withIR \in BOOLEAN
  /\ stuck \in SUBSET Path

TypeOK == PlaceTypeOK /\ FileTypeOK

\* A scan that fails leaves no image of its own that a reader could take for a result
\* (not the output, not the infrared file, no bracket unless they are to be kept, and of
\* the merge at most a temporary file that nothing reads), except a file that could not
\* be removed when it was tried last.  Nobody is told of such a file.
FailureLeavesNothing ==
  result \notin {"none", "Ok"} =>
    \A p \in Path \ stuck :
      \/ p \in {"output", "infrared"} /\ files[p] \in {"absent", "old"}
      \/ p = "partial" /\ files[p] \in {"absent", "torn"}
      \/ p \in Brackets /\ (KeepSamples \/ files[p] = "absent")

\* A scan that succeeds has written what it was asked for: the image in full, the
\* infrared image of the same size exactly when it was asked for, and no leftovers but
\* brackets that could not be removed.
SuccessIsWhole ==
  result = "Ok" =>
    /\ files["output"] \in Whole /\ files["partial"] = "absent"
    /\ job.infrared => files["infrared"] = files["output"]
    /\ ~KeepSamples => \A p \in Brackets \ stuck : files[p] = "absent"

\* When the identity is known, each pass of the scan opens a scanner of that model only,
\* however addresses change between the token, the dumps, the passes and the retries.
\* The bare backend name is the exception: a token that has it is used without a listing,
\* and a list that leaves scanners out may have put it into the cache.
ScansExpectedModel ==
  /\ identity # None /\ acq # Selector /\ Trusted(dev)
  /\ pc \in {"resolve", "scanning", "merge", "artifacts"}
  => \A d \in opened : Model[d] = identity

\* No scanimage is started after a call answered Cancelled, and no such scan succeeds,
\* although several places drop the errors of the calls they make.
ScanHeedsStop == ~late /\ ("Cancelled" \in stopped => result # "Ok")

\* A frame of which data have arrived is never scanned again: the film may have moved on.
NoFrameTwice == [][seen /\ seen' => try' = try]_vars

\* backend.cpp:958: a failure of the infrared pass does not void the scan.
InfraredFailureKeepsScan ==
  [][pc = "artifacts" /\ files["output"] \in Whole /\ ~withIR => files'["output"] \in Whole]_vars

-----------------------------------------------------------------------------
(***************************************************************************)
(* The inductive invariant behind what a scan leaves on disk, what it does *)
(* once it was cancelled, and which frames it scans again.                 *)
(***************************************************************************)
Asking == pc \in {"list", "legacy", "listed", "addressed"}

\* Before the options are accepted, and while a pass is being made.
Early ==
  \/ pc \in {"start", "dump", "redump", "dumped", "failed", "scandump", "validate"}
  \/ Asking /\ purpose \in {"resolve", "reopen", "reopenScan"}

Passing == pc \in {"resolve", "scanning"} \/ (Asking /\ purpose = "address")

PhaseScope ==
  /\ Early \/ Passing \/ pc \in {"merge", "artifacts", "done"}
  /\ pc # "done" => result = "none"

Untouched == [p \in Path |-> IF p \in {"output", "infrared"} THEN "old" ELSE "absent"]

\* Which files the scan may have written so far.
FileScope ==
  /\ Early => files = Untouched /\ stuck = {} /\ file = "output" /\ ~withIR /\ ~job.multi
  /\ pc # "done" => /\ files["partial"] = "absent"
                    /\ ~job.multi => \A p \in Brackets : files[p] = "absent"
  /\ Passing \/ pc = "merge" =>
       /\ ~withIR /\ file # "partial"
       /\ IF file = "infrared" THEN job.infrared ELSE files["infrared"] = "old"
  /\ (Passing \/ pc = "merge") /\ file \in Brackets => files["output"] = "old" /\ job.multi
  /\ pc = "merge" => file \in Brackets
  /\ pc = "artifacts" /\ ~withIR => files["infrared"] \in {"absent", "old"} \/ "infrared" \in stuck

\* An error that is kept for later is an error.
ErrorScope ==
  /\ ret.code = "Ok" => ret = Success
  /\ lastError.code # "Ok"
  /\ pc \in {"failed", "scanning"} => ret.code # "Ok"

\* After a call answered Cancelled every further call is refused, and whoever drops the
\* answer comes to a place from which the scan cannot succeed.
StopScope ==
  /\ command = "scan" /\ ~late
  /\ "Cancelled" \in stopped =>
       /\ flag
       /\ \/ /\ ret = Error("Cancelled")
             /\ pc \notin {"start", "dumped", "validate", "resolve", "merge", "artifacts"}
          \/ pc = "list" /\ purpose = "resolve" /\ ret = Nothing
          \/ pc = "failed"
          \/ pc = "artifacts" /\ job.infrared /\ ~withIR
          \/ pc = "done"

\* Progress is forgotten with its pass, and no pass with progress is repeated.
SeenScope == seen => pc = "done" \/ (pc = "scanning" /\ ret.code \notin {"none", "Retry"})

ScanInvariant ==
  /\ FileTypeOK /\ PhaseScope /\ FileScope /\ ErrorScope /\ StopScope /\ SeenScope
  /\ FailureLeavesNothing /\ SuccessIsWhole /\ ScanHeedsStop

(***************************************************************************)
(* The inductive invariant behind which scanners the passes open, where    *)
(* addresses are volatile.                                                 *)
(***************************************************************************)
OfModel(name, m) == \A d \in Named(name) : Model[d] = m

NamesOK ==
  /\ at \in [Device -> Addr \cup {Off}] /\ listed \in [Device -> Addr \cup {Off}]
  /\ raw \in Name
  /\ {dev, found, acq, cache.name} \subseteq Name \cup {None}

\* No two scanners have an address, and a list that is still to be used shows the scanners
\* it names where they are: nothing is opened before the list has been used.
ListScope ==
  /\ \A d, e \in Present : at[d] = at[e] => d = e
  /\ \A d, e \in Listing : listed[d] = listed[e] => d = e
  /\ \A d \in Listing, e \in Present : listed[d] = at[e] => d = e
  /\ Listing # {} => pc \in {"list", "legacy", "listed"}
  /\ Listing # {} /\ complete => Present \subseteq Listing

\* The names that a pass may open, and those that are kept for a later one, name no
\* scanner of another model.
NameScope ==
  /\ cache.want # None /\ Trusted(cache.name) => OfModel(cache.name, cache.want)
  /\ Asking /\ purpose = "address" => want = identity
  /\ Passing \/ pc \in {"merge", "artifacts"} => acq \in {None, Selector}
  /\ identity # None =>
       /\ pc = "addressed" /\ purpose = "address" /\ ret = Success /\ Trusted(found)
            => OfModel(found, identity)
       /\ acq # Selector /\ pc = "scanning" /\ ret = Nothing /\ Trusted(dev)
            => OfModel(dev, identity)

\* Options are read from a device that has a name.
DumpScope ==
  /\ job.token # NoToken => job.token.name \in Name
  /\ pc \in {"dump", "redump", "dumped", "scandump"} => dev # None
  /\ pc = "addressed" /\ ret = Success => found # None

ModelInvariant == NamesOK /\ ListScope /\ NameScope /\ DumpScope /\ ScansExpectedModel
=============================================================================
