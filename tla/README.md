# A TLA+ model of pairflix

pairflix streams a torrent to a media player while it downloads. `pairflix
<torrent>` serves one file over HTTP and optionally launches VLC or casts to a
Chromecast; `pairflix webserver` takes torrents from a web page, one stream at
a time. This directory models the parts of it that coordinate goroutines,
timers, contexts and callbacks, checks them with TLC on small instances, and
proves with TLAPS, for every instance, the type correctness of every component
and all the safety properties the passing runs check.

Line numbers in `PROJECT.json` ("map") tie each definition to the Go code.

## The system

| Part | Code | State it keeps | Operations |
|---|---|---|---|
| streaming manager | `internal/stream/manager.go` | state, error, current session, generation; per session its files, choice channel, context, done channel | `Start`, `Select`, `Stop`, `Close`, `Status`; the goroutine `runSession` |
| media server | `internal/server/server.go` | listener, HTTP server | `Start`, `Serve`, `Close`; range requests |
| torrent engine | `internal/engine/` | torrent client, torrent, file | `New`, `Open`, `Select`, `Close`; snapshots |
| web API | `internal/web/web.go` | temporary files of uploads | start, select, stop, status |
| web server life cycle | `internal/cli/webserver.go` | errgroup, signal context | `runWebserver` |
| web page | `internal/web/index.html` | choices and state last seen | polling, buttons |
| address selection | `internal/cli/run.go`, `manager.go`, `web.go`, `internal/cast/localip.go` | none | `validateCastListen`, `resolveListen`, `bindAddr`, `requestHost` |
| prompts | `internal/cli/picker.go` | a scanner on standard input | `pick` |
| caster | `internal/cast/session.go` | app, channels and counters of the poller | `Run`, `Pause`, `Unpause`, `Stop` |
| discovery | `internal/cast/discover.go`, `device.go` | devices by UUID | `Devices`, `ByName`, `round` |
| command-line session | `internal/cli/run.go` | errgroup, client, server, watchdog | `run`, `serveLoop` |
| dashboard | `internal/tui/` | buffer of early messages, playback, log and transfer panes | `CastStatus`, `Logf`, `Run`, keys, refresh |
| VLC launcher, plain output, units | `internal/vlc`, `internal/cli`, `internal/units` | little or none | |

How they interact:

- The web API's handlers, each in its goroutine, call the manager. `Start`
  begins a session and returns; everything else happens in the session's own
  goroutine, which takes the manager's mutex for each change it shows.
- While it streams, a session runs three goroutines in an errgroup: the media
  server, a closer that shuts the server down when the group's context ends,
  and a *backend*, which is VLC, a cast, or just a wait for the context.
- The context tree is: process (signals) > session (`Stop`) > group (first
  error). Sessions cancel themselves when their backend returns.
- A cast polls the device from a goroutine of its own, which talks to `Run`
  through the channels `ended` and `gone` and reports to the dashboard through
  `OnStatus`. The dashboard's keys call the caster's controls.
- The command-line mode composes the same parts without a manager. Both modes
  arm a watchdog that exits the process `shutdownGrace` after the context is
  done.

What is hard about it: a `Stop` that races the end of its session and the next
`Start`; a choice that races a cancellation; three goroutines that must all end
for their own reasons; a `Close` that may hang in a library; the hand-over of
an uploaded file from a handler to a session; a shutdown with handlers still
running; a poller whose verdicts race timers; messages sent before the event
loop runs; snapshots that overtake each other; a page that shows a copy of a
state that has changed since; two prompts that share one input. `PROJECT.json`
lists each of these hazards at its line, with the properties aimed at it.

What makes each part correct:

- manager: one session at a time holds a torrent client or a listener, the slot
  is always freed, a stop is thorough and hits the session it was meant for,
  what the API shows is consistent, what streams was chosen;
- web API and shutdown: a temporary file has one keeper, a signal ends the
  process;
- caster: it ends when playback ends and not before, always closes what it
  connected, never overlaps its callbacks, survives a hanging `Close`;
- command line: one goroutine ending ends all, nothing stays open, exactly the
  failures are reported, a Chromecast gets a URL it can reach unless `--listen`
  names a host that is neither refused nor replaced;
- web page: it catches up with the manager, whatever it missed;
- dashboard: no message is lost, repeated or left blocking its sender, rates and
  piece strip are true;
- discovery: complete over failing rounds, and it ends.

## Modules

| Module | Models |
|---|---|
| `SessionSlot` | what the manager promises: an abstract slot that one session holds at a time |
| `StreamManager` | `manager.go`, with the life cycles of engine and media server |
| `MCStreamManager` | symmetry for TLC |
| `WebServer` | `web.go` and `webserver.go`; extends `StreamManager`, whose callers are its handlers and its shutdown goroutine |
| `WebPage` | `index.html` in front of `StreamManager`, which it extends |
| `Addresses` | where the media server listens and which host its URL names; pure |
| `Playback` | what a backend promises the session that runs it |
| `Caster` | `session.go`; implements `Playback` |
| `CommandLine` | `run.go` and `picker.go`; uses `Addresses` |
| `Dashboard` | `tui.go` and `model.go`: messages, playback, keys |
| `Transfer` | `model.go`, `snapshot.go` and `view.go`: refresh, rates, piece strip |
| `MCTransfer` | the piece maps TLC tries |
| `Discovery` | `discover.go` and `device.go` |
| `StreamManagerProofs`, `WebServerProofs`, `WebPageProofs`, `CasterProofs`, `CommandLineProofs`, `DashboardProofs`, `TransferProofs`, `DiscoveryProofs` | theorems about the module of that name; those about `Addresses` are in `CommandLineProofs` |

Conventions. An action is a critical section, a channel operation, or a
blocking call with the sequential code that follows it up to the next of those.
`pc` values are the places where a goroutine can be preempted visibly. A timer
may fire at any moment after it was armed, so that every race between a timer
and anything else is explored. Calls into libraries succeed or fail freely
unless the code's own use of them says more. Definitions headed "Variant with a
defect" are not part of any specification: each is the form a definition would
take under a plausible bug, and shows which property notices it.

### StreamManager

`state`, `err`, `cur` and `gen` are the manager's fields; `cur` is the
generation of `m.sess`, 0 for nil, so that the comparison `m.sess != sess` in
`setState` is `cur # g`. Sessions are numbered by generation and keep their
record (`sess`), the position and locals of their goroutine (`pc`, `loc`), the
engine, listener and source file (`eng`, `lis`, `source`) and the errgroup
(`grp`). `Select` is one critical section with its non-blocking send. `Stop` is
four steps: read the session under the lock, cancel it, wait for `done` or
`stopGrace`, return. `Start` when busy, `Select` when refused and `Stop`
without a session change nothing and are stuttering steps. The `select` of
`resolveFile` may take either branch when both are ready, as Go's does.

`CloseServer` may leave the listener to `Serve`: `http.Server.Close` closes
only the listeners that `Serve` has registered, and `Serve` may not have been
scheduled yet.

### WebServer

Each element of `Requests` is a slot for one handler in progress. `stored` holds
the handlers that own a temporary file; `source` of `StreamManager` is the same
file once a session owns it. Requests refused before they reach the manager and
GET requests change nothing and are left out. `Shutdown` ... `Exit` are the
goroutine of `runWebserver` that waits for the context, closes the manager and
then the HTTP server.

### Caster

`run` and `poll` are the positions of `Run` and `pollStatus`. The client's
cached media (`cached`) is distinct from what the device does (`receiver`):
`Update` may fail, and its error is dropped, so that the poller sees an old
status. `closing` is the goroutine of `closeBounded`, which may outlive `Run`.

### WebPage

`lastState` and `choices` are what the page keeps of the last poll; a poll
fetches and renders `Status` in one step, since what is rendered is stale until
the next poll anyway. Buttons act only while they are shown. The module adds
the page to `StreamManager`, whose own actions go on: other clients of the API
may call at any time.

### Addresses

A host is one of the spellings the code compares (`""`, `0.0.0.0`, `::`,
`localhost`, a loopback IP), or a class of those it does not compare: another
spelling of the unspecified address, another name of the loopback interface,
this machine's address on the player's network, its address on another one (a
VPN, a bridge), an address of another machine. `net.Listen` binds all but the
last. `Unchecked` collects the hosts that a device cannot reach and that neither
`validateCastListen` refuses nor `resolveListen` replaces. Ports play no part.

### CommandLine

The flags are chosen at the start: which player, what kind of `--cast` value,
any `--listen`. Each preparation step goes on or fails (`Proceed`, `Fail`); the
error path closes the torrent client once there is one. `pick` reads lines from
`input` through the `buffer` of a scanner that lives as long as the prompt:
from a terminal a line at a time, from a pipe whatever is there. What a scanner
has read ahead goes away with it (`lost`). The prompt ignores the context.

A goroutine of `serveLoop` that ends the session is `ending` after `cancel()`
and before it returns to the errgroup: in between others return first. What it
returns is fixed at the first step (`result`) and filtered at the second
(`FilteredResult`), and the errgroup keeps the first error.

### Dashboard

A message travels from its sender through `pending` (before `Run`), `flushing`
(`Run`'s goroutine) or `sending` (blocked in `Program.Send`) to the event loop.
Bubble Tea is external: `Send` hands over to a running loop, blocks before, and
does nothing once the program has ended.

### Transfer

A snapshot is three steps: the command starts, reads the counters (`Count`),
takes the time (`Take`); then its message may be received (`Deliver`), in any
order with others. `bytes` stands for either counter. A rate is kept exactly, as
so many bytes in so much time: the code divides by seconds and fractions of
them, so that a rate may be far higher than the bytes it is computed from when
two snapshots are stamped a moment apart, and nothing is claimed of its size.
What is claimed is that it is not negative, that the time is not zero, and that
the bytes were counted. `Snapshot` is what may have been found by now, so that
`TypeOK` also says that no snapshot is ahead of the counter or the clock.

The pieces are read after the time, and may be any map of `Maps`. `PieceStrip`
and `DominantState` are the functions of `view.go` on runs. The loop of
`dominantState` is a recursive function over the runs whose step, `LookAt`, is
the loop's body: `Skipped` is its `continue`, `Breaks` its `break`.
`StripShowsEveryPiece` compares the strip with the pieces laid out one by one.

### Discovery

`entry` fixes what each device answers. A round fails or collects any answers
from any devices any number of times. Names that differ in case only are
represented by numbers that `EqualFold` identifies.

## Runs

State counts are distinct states; each run takes a minute or two at most.

| Run | Instance | Checks |
|---|---|---|
| `StreamManagerSafety` | 2 sessions, 1 caller of Stop, 2 files and an index of neither, symmetric; 1.06M states | 8 invariants, refinement of `SessionSlot` |
| `WebPage` | 1 session, 1 caller, 2 files, a page; 50k | Stop returns, a cancelled session ends, a choice is acted on, the page catches up |
| `StreamManagerDoubleSelect` | 1 session | counterexample, see Findings |
| `StreamManagerUploadLeak` | 1 session | counterexample, see Findings |
| `WebPageStalePicker` | 2 sessions and a page | counterexample, see Findings |
| `WebServer` | 1 session, 1 handler at a time and the shutdown, a player; 264k | keepers of temporary files, a signal ends the process |
| `Caster` | the code's constants, 3 attempts and 3 misses; 6.5k | 3 invariants, refinement of `Playback`, the end of an idle cast |
| `CommandLine` | any player and flags, the dashboard on a terminal, 2 lines of input; 372k | releases, failures, which URL a device is given, the end of the group and of the process |
| `CommandLinePipe` | plain output, 2 lines from a pipe | counterexample, see Findings |
| `Dashboard` | 3 messages, 2 commands, 2 log lines; 115k | delivery, order, no sender blocked |
| `Transfer` | 2 snapshots on their way, 2 bytes, 3 moments, 12 piece maps on 4 and 5 columns; 175k | sound rates, catching up, the strip |
| `Discovery` | 3 devices, 3 names, 2 rounds; 1.63M | complete and sound answers, termination |

Why the bounds are enough to be interesting:

- Two sessions are what a stale `Stop`, a late teardown or a missed `setState`
  needs: it is always the *next* session that suffers. More sessions repeat the
  pair. The properties proved hold for any number.
- One caller of `Stop` is enough for a race with the session's own end and with
  `Start` and `Select`, which any goroutine may call at any time. Stops of a
  handler, or of the page, and of the shutdown race each other in `WebServer`,
  and the proved properties cover any number of callers.
- Two files distinguish none, one and several; a third index that is no video's
  distinguishes a right choice from a wrong one. Resolving to no file is a step
  of its own.
- `WebServer` has one session because a handler's file concerns one session. A
  second handler that takes the slot first shows to the other one as a refused
  `Start`, which is possible at any time, so one handler at a time meets every
  outcome.
- Three messages cover one buffered, one being flushed and one sent directly,
  which is what overtaking takes; two log lines make the pane drop one.
- Two snapshots on their way overtake each other, and three moments let the
  time between two of them differ. The strip's piece maps have three runs of
  four or seven pieces in all, so that columns are too few or too many, and the
  loop over the runs stops with runs left to look at.
- Two lines of input are one for each prompt. `CommandLine` has a terminal and
  `CommandLinePipe` a pipe.
- Two discovery rounds allow one to fail and one to answer, three devices make
  a sort by name with a tie.

Deadlock is checked for `Transfer`, whose ticks go on for ever, and not
elsewhere: the sessions, messages and rounds of an instance are
finite and the process of each module ends, so every run stops by design. What
must not stop early is stated as a liveness property instead.

## Fairness

Each specification with fairness names what it relies on; nothing relies on the
user, the device, the network or the player.

- `StreamManager!Fairness`: a session's goroutines run (`Prompt`), which
  includes that `Open` and the player heed a context that is done, since the
  engine waits on `ctx.Done()`, VLC runs under `exec.CommandContext` and a cast
  implements `Playback`; and Stop's timer fires (`CallerFairness`). Metadata,
  a choice and the end of playback are not promised. `Close` of the torrent
  client may hang; `EndedContextEndsSession` alone assumes that it does not
  (`ClosesEventually`), `StopReturns` holds without.
- `WebPage!FairPageSpec`: the same, and a poll gets through now and then, since
  each poll arms the timer of the next whether it failed or not.
- `WebServer!ShutdownSpec`: the shutdown goroutine runs and its timer fires.
  Neither sessions nor the watchdog are relied upon.
- `Caster!FairSpec`: `Run` and the poller run and calls into the client return,
  except `Close`. `IdleDeviceEndsSession` assumes in addition that the `select`
  on a deadline that has passed is fair and that `Update` succeeds now and then
  (`DeviceIsHeard`).
- `CommandLine`: `OneEndsAll` assumes that serveLoop's goroutines heed their
  context and that the client closes; `SignalEndsProcess` assumes only that the
  watchdog's timer fires.
- `Dashboard!FairSpec`: the event loop turns, and a receive from several
  blocked goroutines starves none, as Go's channels queue their senders.
- `Transfer!FairSpec`: ticks come, and a command that was started ends, since
  `Snapshot` does not wait.
- `Discovery!FairSpec`: timers fire and the query returns.

## Proofs

The theorems hold for every value of the constants that the assumptions of the
modules allow. Those assumptions say that counts are natural numbers, that
limits of the code are positive, and that `Video` (the videos of one torrent)
and `UUID` (the devices on one network) are finite.

An invariant is proved from an inductive one, `IInv` unless named otherwise: it
holds initially, each step keeps it, and it implies the property. The proof
that steps keep it is one lemma for each part of the invariant, or for each
goroutine, with a case for each action.

### The streaming manager (`StreamManagerProofs`)

| Theorem | Property |
|---|---|
| `Inductive` | `IInv`, the inductive invariant |
| `TypeCorrect` | `TypeOK` |
| `SlotIsExclusive` | `OneSessionHoldsResources` |
| `BusyMeansLive` | `CurrentIsLive` |
| `StopIsThorough` | `StoppedMeansTornDown` |
| `StopHitsItsSession` | `CancelledWasAskedFor` |
| `ImplementsSlot` | `SlotSpec`, the refinement of `SessionSlot` |
| `StatusIsTrue` | `StatusIsConsistent` |
| `ShownMeansServed` | `AdvertisedURLIsServed` |
| `StreamedMeansChosen` | `StreamedFileWasChosen` |
| `ConsumedMeansRemoved` | `OpenedUploadIsRemoved` |

That two sessions never hold resources at once is not visible from the
resources: it holds because a session holds them only between two positions of
its goroutine, and because only the current session's goroutine is between
Start and its last `setState`. `IInv` says that: `SessionInv` ties `cur`, `gen`,
engine, listener and `done` to `pc` for each session, `GroupInv` ties the
errgroup to `pc` and the listener to `Serve`, `CallInv` ties a call of Stop to
a session that was started (and a returned one to a closed `done`), and
`SlotFree` ties the state shown to `cur`. For the refinement, `Holding` reduces
the set of users to the open torrent clients, and `SlotStep` maps `Start` to
`Acquire`, `NewEngine` to `Use`, `CloseEngine` to `StopUsing`, `Finish` to
`Release`, and everything else to a stutter.

What the status shows and what streams needs more, `SInv`, proved on top of
`IInv`. `ShownInv` says from which position on the torrent's name and the URL
are there; `ChoiceInv` follows a choice from the channel (filled only by an
acknowledged `Select`, with a video of this torrent) through `picked` to the
published file name; `ServeInv` says that a media server that is not listening
any more has ended the group's context, which is why a URL may be shown but not
served only while the session winds down; `UploadInv` follows the uploaded file
to its removal. They depend on each other: the published files are those of the
torrent, so that an index `Select` accepts is one of them.

### Around the manager (`WebServerProofs`, `WebPageProofs`)

| Theorem | What it states |
|---|---|
| `WebDrivesManager` | `WebSpec => Spec` |
| `WebTypeCorrect` | `WebTypeOK` |
| `UploadIsHandedOver` | `UploadHasOneKeeper` |
| `PageDrivesManager` | `PageSpec => Spec` |
| `PageTypeCorrect` | `PageTypeOK` |

`WebServer` and `WebPage` constrain how `StreamManager` is called. The first
theorem of each says that whatever handlers, shutdown and page do, the manager
sees calls it may get, its own steps, or nothing: so every theorem about the
manager holds of the web mode and under a stale page, without a proof of its
own. A file has one keeper because a handler keeps it only until `Start` has
succeeded (`HandlerKeeps`) and no step of a session removes it before it was
opened (`SessionKeeps`); this holds for any number of handlers, of which the
run has one.

### The cast (`CasterProofs`)

| Theorem | Property |
|---|---|
| `CastTypeCorrect` | `TypeOK` |
| `StatusCallsAreSerial` | `StatusCallsDoNotOverlap` |
| `GoneIsSilent` | `GoneMeansSilence` |
| `EveryWayOutCloses` | `ReturnedMeansClosed` |
| `ImplementsPlayback` | `Backend!PlaybackSteps`, the safety half of `BackendSpec` |

For any number of attempts and of misses. The calls of `OnStatus` do not
overlap because the poller is off until the stream is loaded (`RunInv`) and has
ended when it declares the device gone (`PollInv`), while `Run` reports only
before the one and after the other. `GoneMeansSilence` is about the device and
a ghost count of silent polls (`silent`); what the code counts is `misses`, and
`misses <= silent` connects them.

### The command line (`CommandLineProofs`)

| Theorem | Property, or what it says |
|---|---|
| `CommandTypeCorrect` | `TypeOK` |
| `EveryReturnReleases` | `ReturnReleases` |
| `NoFailureIsLost` | `FailuresAreReported` |
| `ListenDecidesTheURL` | `UnreachableOnlyIfUnchecked` |
| `CastHost` | of `Addresses`: of what `validateCastListen` lets through and `net.Listen` accepts, `resolveListen` makes a host on the device's network, except that an `Unchecked` host is handed to the device as it was bound, off its network |
| `WebCastHost` | in the web mode the host is on the device's network exactly when `LocalIPFor` found the address; `bindAddr` goes on with the unspecified address otherwise |
| `WebLinkHost` | a browser is shown a stream on the host it named, and the unspecified address if it said `localhost` |
| `WebVLCHost` | VLC gets the loopback interface |

The four about `Addresses` split on the classes of hosts. The check of
`--listen` and its use are many steps apart: `CastInv` carries the outcome of
the check (`ValidateCastListen`) from `FindCastDevice` to `StartServer`, where
`CastHost` applies. `HeldInv` says what is open where `run` is;
`FailureInv` follows a failure from the goroutine it happens in to the group's
error to the outcome, and needs that no cancellation ever is the group's error,
since it would hide a failure that comes after it.

### The dashboard (`DashboardProofs`, `TransferProofs`)

| Theorem | Property, or what it says |
|---|---|
| `DashboardTypeCorrect` | `TypeOK` of `Dashboard` |
| `NoMessageIsLost` | `MessagesAreConserved` |
| `StatusesKeepTheirOrder` | `OvertakenOnlyAtStart`, an action property |
| `RatesAreOfTransfers` | `TypeOK` of `Transfer`: no negative rate, no division by zero, no bytes that were not counted |
| `ColumnsAreToScale` | a column of the piece strip stands for pieces that lie under it |
| `EveryPieceHasAColumn` | no piece is left out |
| `DominantStateIsTheMostAdvanced` | the loop of `dominantState` finds the most advanced state of all runs that overlap a range |
| `EveryPieceIsShown` | each piece of a run lies under a column that shows its state or a more advanced one |
| `EveryColumnShowsAPiece` | each column shows the state of a piece that lies under it |
| `StripIsTrue` | `StripShowsEveryPiece` |

For any number of messages, keys and log lines. That messages are in exactly
one place is no invariant by itself, since a message received twice would be
counted twice: `OnceInv` says that the places are disjoint, `OrderInv` that the
buffer and its flush are sorted and older than anything sent directly, and
`StartInv` that nothing is buffered once `Run` has begun. The order of statuses
needs in addition that the caster sends one at a time (`StatusInv`).

The strip's divisions, which are the hazard here, are covered for all widths
and all numbers of pieces (`ColumnsAreToScale`, `EveryPieceHasAColumn`); that
every column shows a piece under it needs in addition that each run has one at
least, since a run without pieces could lend a column its state.
`StripShowsEveryPiece` compares the strip with the pieces laid out one by one.
The offsets of the runs, that layout and the loop of `dominantState` are
recursive functions, and what they compute is proved by induction on the number
of runs, as the least exception that does not exist: `LeastNumber` is the
least-number principle for sets of numbers, which follows from `WFMin` of the
library. `Recursion` shows that such recursions define anything at all, and
`LaidOut` that offsets and layout agree. The invariant of the loop is `FoundIn`:
the early stop loses nothing since offsets grow, so that every run after the
one that ended the loop is behind the range too.

### Discovery (`DiscoveryProofs`)

| Theorem | Property |
|---|---|
| `DiscoveryTypeCorrect` | `TypeOK` |
| `EnumerationMergesRounds` | `EnumerationIsComplete` |
| `SearchMissesNothing` | `SearchIsThorough` |

For any network, any answers and any number of rounds. `ListInv` ties the list
to the devices seen, each once; `RoundInv` says that a round in which a device
answered never counts as failed, so that a list is not given up; `SearchInv`
says that a device of the wanted name does not survive a look at the list. That
the sorted list loses nothing takes a pigeonhole argument (`DistinctCounts`,
`SortedListing`).

### Only model-checked

- Liveness, since the prover has no ENABLED: `StopReturns`,
  `EndedContextEndsSession`, `ChoiceIsActedOn`, `PageCatchesUp`,
  `SignalEndsProcess` of both modes, `OneEndsAll`, `IdleDeviceEndsSession`,
  `EverySendReturns`, `TransferCatchesUp`, `SearchEnds`, and the fairness in
  `BackendSpec`.
- The findings, which are counterexamples.

## Findings

1. `Select` acknowledges a second choice that is never read when it arrives
   after the session has received the first and before it leaves the selecting
   state (`manager.go:264`): run `StreamManagerDoubleSelect`.
2. An uploaded `.torrent` stays on disk when the torrent client cannot be
   created: `prepareAndStream` returns before either `removeSource`
   (`manager.go:341`): run `StreamManagerUploadLeak`. It is removed in all
   other cases (`OpenedUploadIsRemoved`).
3. The page rebuilds its picker only when it sees the state turn to selecting
   (`index.html:71`). When one session ends and the next reaches selecting
   between two polls, it shows the files of the first torrent under the name of
   the second, and a click sends an index of the wrong list: run
   `WebPageStalePicker`. The page does not recover while the state lasts, which
   is the one exception `PageCatchesUp` makes.
4. Each prompt reads standard input through a scanner of its own
   (`picker.go:35`), which reads ahead when the input is a pipe. With a device
   and a file to choose, the first prompt takes both answers and the second
   ends with `errNoSelection`: run `CommandLinePipe`.

Smaller observations, which no run shows: "validateCastListen rejects --listen
addresses a Chromecast cannot reach" (`run.go:308`) is not so for the
`Unchecked` hosts, other names of the loopback interface, unusual spellings of
the unspecified address and this machine's addresses on other networks, which
the device is given as they were bound (`CastHost`); `bindAddr` builds
`addr:port` without the brackets an IPv6 address needs, so that for such a
device it always takes its fallback, the unspecified address (`WebCastHost`);
`runWebserver` closes the manager before the HTTP server (`webserver.go:143`),
so that a handler in progress can start a session on a closed manager, which
ends with its context or with the process.

`OnStatus` is documented to be "Called from a single goroutine"
(`session.go:76`), while both `Run` and the poller call it. The calls never
overlap, which is what a receiver needs, and what `StatusCallsDoNotOverlap`
checks.

## Not modelled

- The bytes: range requests, torrent transfers, priorities, readers.
- Layout, formatting (units included), flag parsing, the terminal's capabilities.
- Ports, and DNS: a host name is classed by what it stands for.
- The devices and libraries behind the code, beyond what it assumes of them.
- What the user interface does with its own errors: `tui.Run` drops those of a
  program that was killed (`tui.go:88`), before `serveLoop` could see them. The
  error of `UserInterfaceEnds` is one that it returns.
- Wall-clock durations. Where two timers are equal (`stopGrace` and the
  watchdog's `shutdownGrace`), either may fire first.

## Plan

Done: every component of the inventory that coordinates anything is modelled
and checked, and every safety property of a passing run is proved.

Left to prove:

1. Safety parts of the liveness properties: that the invariants leave no
   position of a goroutine without a step once its context is done.
2. The web mode and the page together, as one composition.
