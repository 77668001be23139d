# negaflow-scanner-sane in TLA+

negaflow-scanner-sane is a scanner adapter: a host application starts it once
per command (`detect`, `capabilities`, `scan`), it runs SANE's `scanimage` one or
more times, and it answers with JSON events on stdout. It exists twice, as a C++
program for Windows (`src/negaflow-windows`) and as a Swift program for macOS
(`src/negaflow-mac`). This directory models the program's control: who owns a
scanimage process, how a command ends, what a cancellation does, which files a scan
leaves, and checks it with TLC and TLAPS.

## 1. The system

| component | state it keeps | operations | hard behaviours |
|---|---|---|---|
| `process/cancel.cpp` `ProcessOwnership` | `current_`, `activeSessionID_`, `cancellationRequested_`, `forcedTermination_`, the machine lock | begin/end session, adopt/release child, request/clear cancellation | methods are atomic, but `requestCancellation` works on a copy of the handles after it unlocks, on a thread of its own |
| `process/child.cpp` | one child, its pipes, process and job handles | `launchChild`, `terminateChild`, `runUtility`, `runAcquisition` | deadlines, a watchdog thread, pipes held by grandchildren, handle values that the system reuses |
| `process/watchdog.cpp`, `process/progress.cpp` | the tail of stderr; deadline, verdict, started and finished flags | `append`; `start`, `markProgress`, `finish`, `run` | records split by reads, progress racing the deadline, `finish` racing the callback |
| `process/budget.cpp` | the command's start time | `remaining`, `nextCallTimeout` | a command's calls, graces and pauses against the host's ceiling |
| `app/backend.cpp` discovery | address cache and its time stamp, device identities, last stderr | `listDevices`, `currentDeviceAddress`, `reopenSelector`, `capabilityOptionsDump`, `capabilities` | USB addresses change at every open; nested retries decide on error codes and some callers swallow errors |
| `app/backend.cpp` scan | session, sample and output files, warnings | `resolveValidatedMedia`, `runSingleAcquisition`, passes, `validateScanArtifacts` | a step of several fails, a retry after partial work, a cancellation between passes |
| machine lock (`beginScanSession`) | a named mutex | acquire, abandon, release | two adapters, a crash with the mutex held |
| `wire/*`, `main.cpp` | event sequence numbers, output buffer | parse request, emit events, exit code | exactly one terminal event, short writes, a closed pipe |
| `sane/*` | none | parse option dumps, choose source, mode, resolution, depth | pure functions over device-dependent tables |
| `imaging/*` | row buffers | alignment, exposure merge, TIFF validation | pure functions over pixels |
| macOS `SANEBackend+Process.swift` | the same ownership under an `NSLock` | the same operations with signals | termination callbacks on other queues |
| macOS `SaneConfigTuner.swift` | none of its own (`dll.conf`, an older version's backup) | recover, restore | one atomic write; an edit by someone else between the read and the write is lost |

The host talks to the adapter through stdin and stdout and cancels it with a
console control event (Windows) or a signal (macOS). Inside one process the main
thread makes all scanimage calls; a watchdog thread may terminate the child of an
acquisition; each console event runs `requestCancellation` on a thread that Windows
creates. They share the `ProcessOwnership` object (its mutex makes each method
atomic) and, through copied handles, the process's handle table, which nothing
protects.

What makes each component correct is stated as properties below where it is
modelled; section 7 lists what is not.

## 2. The modules

**`ChildSlot`** is the abstract promise: one slot, a process enters it only when it
is empty and no cancellation is pending, leaves it only after it has ended, and a
pending cancellation is dropped only while the slot is empty.

**`ProcessOwnership`** is the Windows adapter's process control: `cancel.cpp`,
`child.cpp` and the pattern of calls `backend.cpp` makes. It implements `ChildSlot`.

| in the code | in the module |
|---|---|
| main thread in `runUtility` / `runAcquisition` | `pc[Main]`: launch, resume, adopt, reject, wait, (probe, grace, kill: `terminateChild`), waitExit, drain, finish, collect, flag, release, clear, close |
| the watchdog thread | `pc[Watchdog]`: off, armed, probe, grace, kill, fired |
| each console event | `pc[h]`: idle, probe, enterGrace, grace, force, handled |
| the fields of `ProcessOwnership` | `current`, `session`, `nextSession`, `cancelRequested`, `forced`, `machineLock` |
| the handle table | `open` (which process a value names now), `handleOf` (the value each call stored) |
| scanimage | `child`, `broken`, `killed`, `hasJob`, `helper` (a live grandchild on the pipes) |

One method of `ProcessOwnership` is one action. `requestCancellation` is five: its
first and last blocks hold the mutex, in between the call it found may end, its
handles may close, and their values may be given to the next child. A call is
numbered by the child it launches. Durations are abstracted: a bounded wait either
sees the child's exit or expires while the child runs. The callers are abstracted
to what they have in common: `detect` stops at a Cancelled call, no acquisition
follows one, and `capabilities` may go on (`reopenSelector` drops the error).
`requested`, `promised`, `adopted` and `cancelHit` are history variables.

**`ProcessOwnershipProofs`** and **`InterruptionProofs`** hold the theorems,
**`MCProcessOwnership`** the symmetry of the runs.

**`Watchdog`** is `AcquisitionWatchdog` around one acquisition, in discrete time.
`dog` is the watchdog thread (in `wait_until`, about to call back, calling back),
`reader` the main thread in `runAcquisition`. `left` is the time to `deadline_`,
`sleep` the time to the copy of it that `wait_until` was given; the two part when
`markProgress` moves the deadline under a sleeping thread. A wakeup that is not a
timeout may happen at any time (notification or spurious). `ProcessOwnership` keeps
only that the watchdog may fire; here it is shown when. `quiet` (the silence so
far) and `fires` are history. **`WatchdogProofs`** holds its theorems.

**`CommandBudget`**, **`Discovery`** and **`CapabilityCommand`** are the commands
`detect` and `capabilities`. `CommandBudget` is `budget.cpp`: `Remaining`, `MayCall`
(does `nextCallTimeout` answer) and `NextCallTimeout`. `Discovery` holds what a scan
shares with them: `runScanimage`, `listDevices`, `currentDeviceAddress`,
`reopenSelector`, `capabilityOptionsDump` with `sourceSpecificOptionsDump` inside it,
and the address cache. `CapabilityCommand` adds the two commands themselves.

| in the code | in the modules |
|---|---|
| one call of `runScanimage`, refused or with one of its endings | `RunScanimage(name)`: one step; `ret` is its answer |
| what the caller does with the answer | the next step: `FormattedListed`, `LegacyListed`, `CurrentDeviceAddress`, `AddressResolved`, `OptionsDumped`, `SourceDumped`, `Reopened` |
| the loop variables `attempt` of the two retry loops | `attempt`, `again` |
| `devname`, the address just resolved, `lastError` | `dev`, `found`, `lastError` |
| `cachedAddress_` and its companions; `cachedDeviceIdentities_` | `cache`; `known` |
| steady_clock minus `commandStart_` | `now` |
| scanners, their USB addresses | `Device`, `Model`, `at`; a call with `-d` may move its scanner to a free address |

Abstracted: a call takes any time up to its timeout, or up to `kTimeoutGraceMs` more
when it is terminated (a drain that a grandchild blocks is in section 6); computing
between two calls takes none. All scanners are of one SANE backend, whose name alone
is `Selector`. Scanners are switched off during a command but not on. An option dump
is empty, sufficient, or needs the second dump, by choice. A list names any of the
scanners that are on: one that is re-enumerating may be missing from a list that holds
others (backend.cpp:75). The code then may pick another scanner: the one of its backend
that is left (325-337), its identity for the token (661-670), or the bare backend name on
its account (343). Nothing in the repository promises otherwise, so the properties say
what is guaranteed: with an identity from the host no scanner of another model is opened
and none gets into the token, whatever the lists leave out, except under a bare backend
name taken from a list that left scanners out (`Trusted`); that the very scanner asked for
is opened (`OpensOnlyTarget`), and the token's identity without one from the host, only
while no list left a scanner out (`complete`). What changes between two calls of scanimage
(a cancellation, a scanner switched off) may as well change right before the second, since
nothing but a call sees it; `Environment` acts only there. The time stamp of the
cache is left out because within these commands every caller of
`currentDeviceAddress` has just invalidated it or is the first, and so is
`SANE_DEFAULT_DEVICE`. `target`, `opened`, `dumped`, `stopped`, `late` and
`complete` are history.

**`CapabilityCommandProofs`** holds the theorems, **`MCCapabilityCommand`** the
scanners, addresses and budgets of the runs.

**`AcquisitionRetry`** is `decideRetry`, `attemptCount` and the outcomes an
acquisition can end with: one record per outcome, holding just what the decision
reads. **`ScanCommand`** is the command `scan` from the session to its answer. It
extends `Discovery`, so address resolution, the second dump and the cache are the
ones of `detect` and `capabilities`, and adds

| in the code | in the module |
|---|---|
| `resolveValidatedMedia` with a capability token, or without one | `WithToken`, `BadToken`; `WithoutToken`, `OptionsRead`, `ScanDump`, `ScanDumped`, `IdentityAfterDump` |
| `resolveDeviceAddress`, `liveCachedSelector` | `OpenWith`, `ResolveKnown`, `ResolveAgain`, `AddressFound`, `CachedAddress` |
| the loop of `runSingleAcquisition` | `AcquisitionRuns`, `AcquisitionRetried`, `AcquisitionFailed` |
| `singlePassScan`, `multiPassScan`, `acquireInfraredPass` | `Bracket`, `NextPass`, `To`, `PassFails` |
| `validatedScannedTIFF`, `loadScannerTIFF`, `writeRGB16TIFF`, `validateScanArtifacts`, `SampleCleanup` | `Whole`, `Loaded`, `MergeFails`, `MergeWritten`, `WriteFails`, `ArtifactsValid`, `Rejected`, `Leftovers`, `LeaveWith` |
| `removeQuietly` | `Remove`: each file goes, or stays because its removal failed (`stuck`) |
| the files: output, infrared, brackets, `.partial` | `files`, from a path to what it holds |

A file is absent, there from before, torn, an image that is not as requested, as
requested, or as requested in another size; pixels are left out. A removal may fail
(`removeQuietly` drops the error, and a scanimage that was turned away may still hold its
output, child.cpp:186 and 593), and nobody is told: the properties speak of the files
whose removal did not fail. `seen` and `stuck` are history.
`ScanCommand` sees a call of scanimage as one step with all its endings; how a call
ends while threads interleave is `ProcessOwnership`. **`ScanProofs`** holds its
theorems.

**`Adapters`** is several adapter processes with a host each: the mutex of
`beginScanSession` between processes, `EventEmitter`, `writeAll` over the sink, and
`runDetect`, `runCapabilities` and `runScan` with their exit codes. A line is a
number of bytes; what the host can read is a sequence of pieces, each a whole line
or the torn beginning of one. A host may stop reading, close its end or kill the
adapter at any moment; a killed adapter's mutex is abandoned, and the job object kills its
scanimage a moment later. `still` and `sound` are history.
**`AdapterProofs`** holds its theorems.

**`OptionDump`**, **`Capabilities`**, **`MediaOptions`** and **`CommandLine`** are
pure: a dump is a sequence of option lines, and each function of `sane/*`,
`util/numeric.cpp` and `process/command_line.cpp` is one operator of the same name
(`resolveMedia`, which answers many questions, is one operator for each).
Millimetres are counted in tenths. **`ScanRequest`** runs them in the order of the
program: a document is decoded (`wire/parse.cpp`), validated (`wire/request.cpp`),
the media are resolved and validated, and the arguments of both passes are written.
**`MCScanRequest`** holds the scanners, documents and requests of its run; the six
scanners are made after the dumps in the repository's tests. **`RequestProofs`** holds
the theorems about all of these modules.

Which dump a scan is validated against is `ScanDump`. With a token it is the dump in the
token when that was taken in the mode asked for (backend.cpp:735), without one it is the
settled dump on a genesys scanner with nothing to choose (757), and otherwise the options
are read again (`scanSpecificOptionsDump`). A scanner shows one dump before and one after
the settings of the capabilities (`before`, `after`), and one for each setting of mode,
depth and preview (`shows`, `ScanSettings`). These need not agree, except where the code
takes it for granted: in the mode of the settled dump neither depth nor preview changes
what is shown (`DriversShowByMode`). The
source is chosen by the settled dump alone, and the resolution is left out, since no option
comes or goes with its value. A token holds what the scanner showed when it was
made, which is the settled dump: that its device and its decoding are checked is
`TokenIsUsable`, whose scanner it names is `ScanCommand`'s matter. What arguments may be is
judged by what the scanner shows under the settings of the scan, never by the dump that was
reused.
A focus position is sent as it comes, unchecked against the range of the device, and a
lens setting the device does not have is dropped without a word; `media.h` documents
this, and the properties leave the focus out for it.

**`MacOwnership`** is the ownership object of the macOS program
(`SANEBackend+Process.swift`), the second implementation of `ChildSlot`.

| in the code | in the module |
|---|---|
| `currentProcess`, `activeScanSessionID`, `scanCancellationRequested` | `current`, `session`, `cancelled` |
| `startFullScan`; `detect` and `capabilities` | a command with a session; one of queries: `command`, `pc`, `calls` |
| `runScanimage`, blocking | `Launch`, `QueryDrained`, `JudgeQuery`, `ReleaseQuery`, `ClearUtilityProcessCancellation` |
| `runScanimageTo`, the launching thread and the termination callback | `Launch`, `StartWatchdog`, `AfterAcquisition`; `FinishWatchdog`, `ReleaseAcquisition`, `ResumeAcquisition` |
| the two timers, and the block half a second later | `timer`, `claim`: `QueryTimesOut`; `WatchdogFires`, `ClaimTimeout`; `TimerKills` |
| the task of a signal | `task`, `target`: `RequestCancellation`, `Terminate`, `ForceKill` |
| scanimage, and what it leaves on its pipes | `child`, `killed`, `helper` |

Each critical section under `processLock` is one step. A task and a timer keep the
`Process` object, not a number, so finding 2 of the Windows port (section 6) has no
counterpart; that a process could end between `isRunning` and `kill`, and its number be given to
another process, is left out, and
so are the address cache and the text on stderr. The program serves one command; two
commands share the backend here because the class allows it and its tests do it.
`promised` and `hit` are history. With a third command, a query that ends could drop
the flag of another query that has yet to read it, which is why
`InterruptedScanIsCancelled` speaks of scans: their session keeps the flag.
**`MacOwnershipProofs`** holds the theorems.

**`ProgressTracker`** is the tracker behind the watchdog: the driver writes lines into
the pipe, a read takes any part of what is there (`Read`), and `AppendChunk` counts the
records of buffer and chunk with `MatchRecord`, the parser of `progress.cpp`. A text is
a sequence of symbols; the word `progress` is two of them, so that a read can split it.

**`WatchedAcquisition`** composes the two into the drain loop of `runAcquisition`:
`ReadChunk` is a `Read` of the tracker and, when the tracker saw progress, the watchdog's
`ReadProgress` in one step; the child is gone only when the pipe is empty. It implements
both specifications (`LoopImplementsBoth` in `WatchdogProofs`). **`MCWatchedAcquisition`**
holds the lines: both forms of record, a number with a decimal comma, and a line with
a character of two bytes before its record. A driver that leaves a
parenthesis open, or ends a line with the bare word and begins the next with a
percentage, is left out: the parser would join the two.
## 3. The runs

| run | what it checks | bounds |
|---|---|---|
| `own_safety` | a whole scan, or detect: current_ never dangles; one running child; nothing left behind; an interrupted call is Cancelled; in a scan CTRL_BREAK before kill; no child after a request; the slot discipline | see `own_safety.cfg` and below |
| `own_live` | a requested cancellation ends the scan, and detect and capabilities end in any case | 2 calls, 1 console event, 1 handle value |
| `own_lost_request`, `own_wrong_child` | findings 1 and 2, section 6 | as above |
| `dog` | each record marks progress once, in the read that ends it, and the fraction told is that of the last record; a verdict needs a whole timeout of silence; the callback runs at most once and is over when runAcquisition returns; the report is true and agrees with the progress; a watched scan ends unless progress keeps coming | timeouts of 2 ticks and 1; 3 lines of 5 to 8 symbols, reads of every length, a tail of 7 symbols (longer than a record's text, shorter than two), a pipe of 12, which holds two records |
| `cap_two_models` | detect and capabilities: the host's ceiling; no scanner of another model is opened, nor, while lists are complete, the other one of the same model; the cache is live; the token's identity is that of the scanner whose options it holds; detect stops on a cancellation; every nesting of retries and fallbacks ends | 3 scanners of 2 models, 4 addresses, of which at most one is off (`MostAreOn`); a list that names scanners leaves at most one out (`FewMissing`), which is enough for a list of one wrong scanner and for a bare backend name that is not to be trusted; budget 3, calls up to 2, grace 1, pause 1, ceiling 5 (the least budget with which a third attempt still makes calls). 4.4 million states |
| `cap_cancel_hidden` | finding 3 | 1 scanner, 2 addresses |
| `scan` | after a success all files that were asked for are whole, and after a failure there are none but those whose removal failed; every pass opens a scanner of the expected model; after a call that was cancelled no pass starts and the scan does not succeed; a frame of which data have arrived is not scanned again | 2 scanners of different models, 3 addresses, two brackets, with and without token and infrared; lists leave out any scanners, any removal may fail. 4.1 million states |
| `scan_ir` | finding 4 | the same, one scanner |
| `adapters` | one scan per scanner ID; Busy only while a live adapter scans; events are numbered without a gap and nothing follows the last one; exit code and stream agree; the stalled attempts are given up only when nothing advances; an adapter ends, or waits for ever for a host that neither reads nor closes | 2 adapters, 1 ID, lines of 2 bytes, 2 stalled attempts, 1 progress event |
| `inputs` | arguments are options the device shows as active, with values it lists; they say what was asked; what the capabilities offer a scan accepts, in every mode, with the exceptions of section 5; a request is refused under its own id; a value survives the command line | 6 scanners with each line inactive, repeated or changed (or removed, where an inactive line still counts), always, only before the settings or only in deep gray; requests with up to 2 changes, with and without a token; broken documents; all texts of up to 5 characters |
| `mac` | nothing left for the next command; an interrupted scan returns cancelled; a process that was asked to end is killed in the end; no launch after an accepted signal; the slot discipline | 2 commands of 2 calls each, 1 signal, all interleavings of queries and scans |
In the watchdog runs the timeouts are as small as lets progress arrive early, late
and just at the deadline; the theorems cover all others.

Bounds of the ownership runs. Two calls are the least in which a handler can
outlive the call it copied, a handle value can be reused and a rejected child can
overlap the next call; a third call adds no new pair of overlapping calls, because
everything but a handler's copy and a dying child is reset at the return. Two
console events show two concurrent `requestCancellation`s; more events only repeat
one of them. One handle value makes reuse certain; two let a call get a fresh one.
Grandchildren multiply the states and matter only to the drain, so one run has them.
The runs do not repeat the inductive invariants of section 5; TLC checked each of them
before it was proved, `OwnershipInvariant` with three calls too.

## 4. Fairness

`Fairness` says that the main thread, a terminating watchdog and each console
thread keep running (the operating system schedules them and every wait they make
is bounded or waits for a process that was told to terminate), and that a process
told to terminate ends (TerminateProcess and TerminateJobObject). It does not say
that scanimage ever exits by itself, that a grandchild ever exits, that a
cancellation arrives or that the watchdog fires. `own_live` sets `Helpers = FALSE`:
with grandchildren the calls need not end, as section 6 tells.

In `Watchdog`, time passes, both threads run, a first round of the loop and a
notified wakeup take place and a terminated child ends. Progress is not assumed.
`FairAcquisition` adds that what is in the pipe is read. The main thread is fair between
two reads because it only writes an event in between; that write is taken not to block
for ever, which holds while the host reads.

In `Adapters` a scan that may end as often as it likes ends
(`SF_vars(ScanFails(p) \/ ScanSucceeds(p))`): it calls scanimage finitely often, as the
loops of `ScanCommand` show. The main thread is fair unless it is `Blocked`:
`WriteFile` on a pipe waits for room (win_sink.cpp:49), so a write is taken to return
while the host reads and once it has closed its end, and not while it does neither. The
host need not act, and `AdapterEnds` has the wait for such a host as its exception. Text
on stderr is not modelled; a host that does not read that pipe could hold an adapter up
as well.

`CapabilityCommand` and `MacOwnership` state no fairness. That the nested retries of
detect and capabilities end is the safety property `EveryStepAdvances` (the main
thread does nothing else, and each call ends by its timeout). That a macOS process
which was asked to end does end is `AskedProcessIsKilled`: when the tasks and timers
that asked are through, it has exited or was sent SIGKILL. A drain that waits for a
process which inherited the pipe is outside of it, as on Windows (child.cpp:545).

## 5. What is proved

`ProcessOwnershipProofs` proves, for every number of calls, console events and
handle values (assumption `OwnershipAssumption`: the constants have their types and
the thread names differ):

- the inductive invariant `SlotInvariant`, and from it `TypeCorrect`,
  `CurrentIsValid`, `NoCallIsBusy`, `NoOrphans`, `ExitCodesAreFinal`;
- with one more induction each `OneProcessAtATime` and `ScanHeedsRequests`;
- `ImplementsSlot`: the detailed protocol implements `ChildSlot`.

The properties are not inductive by themselves. That current_ is valid needs to
know that current_ is the child of the call under way exactly between adoption and
release (`SlotScope`) and that this call's handle is open and still its own
(`CallScope`); that the slot is free at adoption needs both. That exit codes are
final needs that a call collects only after its child exited (`CallScope`, `Ended`).
One running child is the subtle one: a rejected child is resumed before it is
rejected and may still be dying when the call returns, so `DyingIsRefused` says
that then a cancellation is pending and the last call answered Cancelled, which
`runScanimage` and the acquisition's callers turn into no further launch. There is
one lemma per action, and one step per conjunct the action can disturb.

`InterruptionProofs` strengthens it to `OwnershipInvariant` (`OwnershipIsInvariant`)
and proves of a scan that a child is asked before it is killed (`ScanAsksFirst`) and
that a call whose child was hit reports Cancelled (`InterruptedScanCallIsCancelled`).
The difficulty is the handler's copy of the handles, which nothing protects: it may
outlive its child and the value may be given to a later one. That later child was
launched after the request, so a scan never adopts it (`CopyScope`). Whoever waits
or kills has sent the break (`AskedScope`), and a child killed before its adoption
was killed for a request (`EarlyScope`). An adopted child that was hit belongs to the
call under way, which reads the flag only after its child ended (`HitScope`,
`AdoptedScope`, `ReportScope`), and in a scan nothing erases the flag
(`RequestIsKept`).

Only model-checked: the liveness properties. `RequestTurnsNextChildAway` and
`BreakBeforeKill` do not hold (section 6).

`WatchdogProofs` proves, for every pair of timeouts, the inductive invariant
(`WatchdogIsInvariant`) and from it `CallbackStaysInside`, `ReportsAreTrue` and
`SilenceBeforeVerdict`. The last rests on `DeadlineCovers`: the
time left to the deadline and the silence so far are together at least the timeout
that applies, which a tick and a `markProgress` both keep; when the deadline has
passed, the silence alone is that long.

`LoopImplementsBoth` shows that every step of `WatchedAcquisition` is a step of the
watchdog, of the tracker or of both, so that the theorems about `Watchdog` hold of the
drain loop (`LoopIsJust`) for every set of lines and every size of buffer and pipe.

`TrackerIsInvariant` proves the tracker's `TrackerInvariant`, and `UpdatesAreTrue` with it
that each record is counted in the read that completes it and the host is told the latest
fraction, for every way the reads may split the lines. It needs `LinesAssumption`, which
says what the lines of a driver are like (`LinesAreWhole`): a record fits into the 160
bytes kept but for its last symbol, none begins inside another, the marks on the symbols
tell where records end, and a line does not stop in what could become a record. TLC
evaluates it for the lines of the run. Without it the property is false: of a longer
record the beginning is lost, and it is never counted.

The invariant says the same of everything from the beginning of the buffer to the end of
the pipe (`IsWhole`), and that the buffer alone says nothing newer than the latest
fraction. What is kept of a text by `TailOf` is then never the cause of a wrong count:

- Whether a record begins at a place, and which, depends only on the symbols up to its end
  (`RecordSame`); what can no longer become one is none whatever follows (`NoneSame`). So
  a part of a text has the records that lie in it (`PartRecords`, `PrefixRecords`), and two
  texts together have those of each (`JoinRecords`).
- `WriteKeepsTracker`: the line written is whole, and so is what it is appended to
  (`WholeAppend`).
- `ReadKeepsTracker`: the symbols dropped before the tail belong to no record that is still
  to end, since such a record began at most `BufferTail` before the end of what was read
  (`WholeDrop`, `ReadRest`). `ReadTells` compares the records of the buffer before the read
  with those of the text after it: those that are new are the ones marked in the read.

`CapabilityCommandProofs` proves, for every finite set of scanners, every assignment
of models, every set of addresses and all budgets that fit (`BudgetsFit`; the lemma
`SourceValuesFit` shows that the numbers in the source do), `TypeCorrect`,
`CeilingIsKept`, `ExpectedModelOpened`, `CacheStaysLive` and `EveryPathEnds`, and in its second half
`TargetOpened`, `TokenMatches`, `DetectStops` and the whole inductive
`CommandInvariant` (`InvariantHolds`). Six parts carry it.

- `BudgetScope`: an answer that is still to be used came within the budget, or it is
  Cancelled or Timeout, which no caller retries. The exception is `reopenSelector`,
  which drops such an answer and retries on the older error: so after the grace one
  more pause may follow, and then the next call is refused. That is why the margin
  must cover budget, grace and one pause, and why more retries would not widen it.
- `ListScope`: while a device list is being used it is right about every scanner that it
  names and that is still on, since only opening moves a scanner and no list is kept over
  an opening. Scanners may be missing from it.
- `NameScope`: the names in use (`dev`, `found`) name no scanner of another model.
  A name can go stale and its address be free, but only scanners of the expected
  model are opened, hence moved, so nobody else can take it. This holds with any lists,
  but not for the bare backend name from a list that left scanners out (`Trusted`).
- `TargetScope`: while every scanner stays on and every list is complete, the names in use name no scanner but
  the one asked for (`Goal`), and no other scanner is at the address the host gave. Hence
  the exact name finds the goal or nobody; a single
  match must be the goal, since the goal matches too. Only the goal is opened, so
  only the goal moves, and nobody comes to the address it left.
- `TokenScope`: from the first dump to the token, what is known about the name in use
  is a model the goal (or a scanner of the expected model) has, or nothing: each
  resolution writes what it found under the name it returns, before that name is used.
  `Certain` says when: with an identity from the host unless the bare backend name was
  taken from an incomplete list, without one while all scanners are on and listed.
- `StopScope`: in `detect` an answer that stops the command is the last answer.

`EveryPathEnds` is the termination of the nested retries, stated as a safety property:
`Position` orders the places of a command by attempt, by place within the attempt and
by whether the answer has come, and `Onward` says for each action which of the three
it raises (`Lexicographic`). There are fewer than 2 * 57 positions, so a command whose
calls return takes a bounded number of steps, whatever the answers are.

`AdapterProofs` proves, for any number of adapters and scanner IDs, every length of a
line and every bound on stalled attempts and progress events (`AdaptersAssumption`),
the inductive `AdapterInvariant` and from it `MutualExclusion`, `BusyIsNeverStale`,
`StreamInOrder`, `ExitCodeIsTold` and `PatienceIsUsedUp`. `Owned` says both ways that a
scan with the lock owns its mutex and that a mutex whose owner lives is that of its
scan; an abandoned one is the exception that `Available` makes, and it cannot break the
first half because its owner no longer scans. `Numbered` relates the numbers taken to
what was written: one ahead while a line is being written, which is what makes a number
taken by an unsent event a gap. `Placed`, `Closed` and `Told` tie the exit code to the
event under way and to the last one. One step moves one adapter (`OthersKept`), so each
action is looked at for its own adapter only. Not proved: `AdapterEnds`,
which is liveness.

`ScanProofs` proves, for every backend, every set of scanners and addresses and any
number of brackets (`ScanAssumption`: their paths differ from each other and from the
results), the inductive `ScanInvariant` (`ScanIsInvariant`) and from it
`FailuresLeaveNothing`, `SuccessesAreWhole`, `ScansHeedStop` and `FramesOnce`.
`FileScope` says for each phase which files the scan may have written, so that removing
one file, as every failing place does, is enough; a file whose removal failed is in `stuck`
until it is written again, and the two theorems about files except these (`Removed` says
what a removal does either way). `StopScope` lists where a command can
be whose call answered Cancelled: with that answer in hand, on the way to the `failed`
of `capabilityOptionsDump`, or before a validation that must fail because the infrared
file is missing; hence dropping the error (`reopenSelector`, the infrared pass) cannot
turn into a success. `SeenScope` says that progress is remembered only until the pass
is decided. The steps of `Discovery` and of each phase go through a few lemmas on what
a call, a failed pass, the next pass and the end of the command keep.

`OnlyExpectedModelScanned` needs a second invariant, `ModelInvariant`, and addresses
that are volatile (`Libusb`): elsewhere the host's token is believed without a listing.
`ListScope` holds because nothing is opened between a list and its use; `ChosenName`
because the selector is only chosen when nobody else is on, if no list left anybody out
(`Trusted`; where one did, the theorem claims nothing of that name); `NameScope` carries the
cached address from pass to pass: opening a scanner gives it an address nobody has, and
the cache is dropped with it unless it holds the selector, which means the same scanners
as before.

Only model-checked of it: the types of `ScanCommand`. The invariants of the proofs are
not part of the runs; TLC checked them on the runs' instances before they were proved.

`MacOwnershipProofs` proves, for any number of commands, calls and signals
(`MacAssumption`: `None` is neither a command nor a process), the inductive
`MacInvariant` (`MacIsInvariant`) and from it `OneProcess`, `CleanStart`,
`InterruptedScan`, `HeedsRequest`, `AskedIsKilled` and `MacImplementsSlot`. `SlotScope` says whose call
the slot's process belongs to and that during a session it is one of that session;
with `SessionScope` this lets a query that ends forget a request only when nobody else
could need it, and `FlagHasOwner` says that somebody will. `TargetScope` and
`HitScope` follow a signal from the task that holds a process to the verdict of its
call: the process a task hits is the one in the slot, so its call is under way and has
yet to read the flag, which `RequestIsKept` keeps until the session ends. `KillScope`
says of every process that was asked to end who is about to kill it: a task between
SIGTERM and SIGKILL, or a timer that a timeout has claimed or a query still holds.

`RequestProofs` proves, for every set of scanners and of documents, that the inductive
`RequestInvariant` holds (`RequestInvariantHolds`) and from it `ArgumentsLegalAlways`,
`AnsweredUnderItsId`, `ArgumentsSayRequestAlways`, `OfferedIsAcceptedAlways` and
`ValuesSurviveAlways`. The
invariant is short (a request let through was decoded, `CheckedScope`; a scan's command
lines are those of a request its device does exactly, `ScanScope`; a refusal names what
could be read, `ReplyScope`); the work is in what the algorithms do with any dump.

- A command line is put together with `++`, where the first part that has a name gives
  its value. `AtArgs`, `MainArgs` and `GeometryArgs` say once what each part has under
  which name, so that `ScanIsLegal` can go through the names one by one: each value was
  looked up in a line of that name (`FirstAtPlace`), in the dump in which the name is
  active.
- `ScanSaysRequest` has a lemma per field (`ResolutionSaid`, `DepthSaid`, `LightSaid`,
  `PolaritySaid`, `ToneSaid`, `InfraredSaid`, `AreaSaid`). The area needs arithmetic:
  `PixelsCover` (a rounded length is at most half a pixel off) and `AlignedIsNear` (the
  height epson2 is given differs by less than a millimetre, and the bottom edge is still
  on the surface). A source for infrared is used for the picture only if every source
  that is transparent is one.
- `OfferServed` sets the rules of `parseCapabilities` against those of
  `validateExactOptions`, one lemma for each thing offered. `ListHasLargest` (a list that
  is not empty has a largest number) takes the least counterexample in place of an
  induction over the list.
- `CommandLineRead` proves of any list of arguments that the child reads what was
  written. It needs an induction over characters, for which the library's theorems
  cannot be used; `CountsUp` says that a set of numbers which holds 0 and with each number
  the next one holds them all, and the set is then that of the places where the writer
  and the reader agree (`QuotedRead`, `PlainRead`). `ReadingStep`, `QuotingStep` and
  `LinesStep` show that the recursive functions exist, `ReadJoined` that a text may be
  read in two parts. Between quotes the two agree up to the backslashes held back
  (`QuotedSoFar`): the reader has the argument without them, and the writer owes them,
  doubled if a quote comes next.

The assumptions say what hands the data over. `DevicesAreParsed`: the constraint of an
option is read as words, as numbers or as one range, and a switch has none.
`DocumentsAreRead`: lengths are whole tenths. `TextsAreSpelled`: a text is a sequence of
characters. `DriversShowRanges` is about the drivers:
brightness and contrast are ranges, resolutions are positive, and no range of a length or a
position is empty or starts before the surface. It is
needed, because `validateAdjustment` lets a zero through without looking where no range
is shown (validate.cpp:55): a tone given as a list without 0 would be sent a value it
does not list. `DriversShowByMode` says what the code takes for granted when it reuses a
dump in its own mode (backend.cpp:735): there neither the depth nor a preview changes what
the scanner shows. `VouchedIsShown` is where it is used: the dump whose mode the token
vouches for is the dump that a scan in this mode would have read.

`ArgumentsAreLegal` has one exception, `ReusedInAnotherMode`: without a token the dump of a
genesys scanner with nothing to choose serves in any mode (backend.cpp:757), although
media.h:183 says that a dump is not reused in another mode; whether the driver then shows
something else is up to it.

`OfferedIsAccepted` is about every mode the report offers, and says what may be refused all
the same. In another mode than the token's the options are read again, and what they no
longer offer may be refused. `AreaIsTellable` excepts a maximum off the grid of its own
range, which capabilities.cpp:252 offers and validate.cpp:174 refuses, and an origin that
cannot be told, which is offered as the minimum of `-l` and `-t` and accepted only at 0 (195).
`Tellable` excepts devices that have no value for the polarity asked for (133), that move the
slide (143) or cannot leave the colours alone (147). Nothing in the repository promises that
what is offered is accepted, so these are no findings.

TLC alone checks, and why:

- `CommandEnds`, `WatchedScanEnds`, `AdapterEnds`: liveness under fairness.
## 6. Findings

1. `own_lost_request`: `cancel.h:113` says a request that finds no child turns the
   next child away; a request between child.cpp:551 and 554 is erased.
2. `own_wrong_child`: `cancel.h:18-24` promises CTRL_BREAK before the kill; with a
   reused handle value `requestCancellation` kills the next call's child directly.
3. `cap_cancel_hidden`: `cancel.cpp:39` says a cancelled command emits the
   cancellation; `capabilities` ignores a Cancelled listing (backend.cpp:654), as
   `reopenSelector` does (backend.cpp:391), and can report success.
4. `scan_ir`: `backend.cpp:958` says a failed infrared pass does not void the scan;
   `validateScanArtifacts` (backend.cpp:993) then fails it and removes the image.

Two smaller disagreements show in the model without a run of their own. `cancel.h:102`
says the child is adopted before it is resumed, but `launchChild` resumes it
(child.cpp:330) before `adoptChild` is called (`ResumeChild`, `AdoptChild`; the
theorem `OneProcessAtATime` shows that this does no harm). `child.cpp:315` says a
terminated call leaves no grandchild, but `terminateChild` returns without touching
the job when the child exits in time (child.cpp:355), so a grandchild that holds a
pipe can keep a call waiting: `own_live` assumes there is none.
## 7. What is not modelled

Of the macOS program only the process ownership is modelled; the rest of it the
Windows port mirrors. Of the Windows program: what a scanner shows under the settings of
the infrared pass (nothing is read again for it); pipe creation, environment blocks and UTF-8 sanitising; splitting the text
of dumps, device lists and JSON into words, and formatting numbers;
the command line of the adapter (`wire/cli.cpp`) and the encoding of tokens; the
arithmetic on pixels (alignment and merge are floating point) and TIFF bytes; the two
commands that only print a text. Installers, scripts and the patches of
sane-backends are left out. `PROJECT.json` lists every component with its status.

## 8. Plan
Done: `ProcessOwnership` and `ChildSlot`, `Watchdog` with `ProgressTracker` in
`WatchedAcquisition`, the capability commands, `ScanCommand`, `Adapters`, the pure
algorithms from a request to the command line, and `MacOwnership`.
Left, in this order:

1. Alignment and merge bookkeeping (strips and rows), parsing of device lists and
   dumps.
2. The lines `SaneConfigTuner` restores.

The theorem most worth proving next is the liveness of `Adapters` as a bound on steps,
the way `EveryPathEnds` states it for the capability commands.
