# muesli-studio: models, checks and proofs

muesli-studio inspects runs of muesli-bt behaviour trees. A run is a log of
`mbt.evt.v1` events, one JSON object per line. The **inspector bridge** (C++)
drives the runtime and streams its events to a log file and to WebSocket
clients; the **Studio** (a React application) loads logs or follows a live
stream, replays them tick by tick, and exports evidence bundles; the **replay
library** holds the parser, the event store, the tick sidecar index and the
bundle loader that Studio and the command line share.

This directory holds TLA+ modules translated from that code, the TLC
configurations that check them, and theorems checked by TLAPS.
`PROJECT.json` maps every definition to the source lines it stands for.

## The system's parts

| part | where | state it keeps | operations |
|---|---|---|---|
| replay store | `packages/replay/src/replay-store.ts` | events in append order, events by tick, node statuses by node, blackboard value and snapshot, tree definition and its override | append, appendMany, status / blackboard queries, snapshot, override |
| JSONL parser | `packages/replay/src/jsonl.ts`, `packages/protocol/src/validate.ts` | none (a stream keeps the partial last line) | parse whole text, strict parse, parse a byte stream, tell events from other lines |
| sidecar tick index | `packages/replay/src/sidecar/tick-index.ts` | none | build, parse and validate, parse a log with it, extract a tick |
| lazy hydration | `apps/studio/src/store.ts` | `lazySidecar` (source, index, loaded and pending ticks), `replay`, `selectedTick` | open, seek, hydrate nearby, hydrate all, settle a read |
| replay loading | `apps/studio/src/store.ts` | load progress, replay metadata | load from text, files, URL, with fallbacks |
| live session | `apps/studio/src/store.ts` | `replay`, `liveAutoFollow`, pinned flag, buffered events | append live events, seek, auto-follow, pin, resume, load |
| live connection | `apps/studio/src/App.tsx` | socket, intentional-close flag, retry timer, connection status | connect, disconnect, toggle auto-reconnect, socket events, retry, unmount |
| live payloads | `apps/studio/src/live.ts` | none | decode and parse a message |
| evidence and live capture export | `apps/studio/src/App.tsx`, `evidence.ts` | busy flags | hydrate everything, wait, write a bundle |
| inspector bridge | `apps/inspector/src/main.cpp` | clients, bootstrap cache, log file, tick counter | client opens, publish a line, tick loop, shutdown |
| bundle loading, validation | `packages/replay/src/bundle`, `validate` | none | read a bundle, run the validator as a subprocess, version gate |
| run summary | `packages/replay/src/summarise-run.ts` | none | fold a run into counters |
| DSL compiler, preview, diff | `apps/studio/src/dsl-compiler.ts`, `dsl-preview.ts` | none | compile a text to a tree, compare two trees |
| DSL editor | `apps/studio/src/components/DslEditor.tsx`, `App.tsx` | draft, preview and its diagnostics; the override in the store; the evidence kept for the next bundle | type, preview, apply, revert, mount |
| panels, links, CLI, scripts | the rest | view state | not modelled |

**How they interact.** The inspector publishes each event line to the log and to
every connected client, and replays the two bootstrap lines to a client that
connects late. The Studio's connection hands each decoded message to the
store's `appendLiveEvents`; the user's clicks call the store's actions; the
store appends to one `ReplayStore`, which panels query by tick. Loading and
hydrating await file or HTTP reads and then write to whatever replay is current.

**What is hard.** Everything in the Studio runs on one thread but is cut into
segments by `await`, by socket callbacks and by timers: calls overlap, the state
a call read before an `await` is old when it resumes, answers arrive out of
order, reads fail, sockets close for reasons of their own and retries are
scheduled for later. The `hazards` list in `PROJECT.json` names each place.

## What is modelled

### Lazy hydration: `SidecarIndex`, `LazyHydration`, `HydrateSession`, `ReplayView`

A log with a sidecar that is too large to parse at once is opened with its first
tick; user actions then start asynchronous calls that read more.

*State.* `replay` is the sequence of `appendMany` calls the store received, each
the set of ticks whose events it appended and the log they came from; `lazy` is
`lazySidecar`; `flight` holds, for each call that is suspended, the batch whose
read it awaits and the ticks of its later batches. A log is its sidecar: a
function from ticks to byte ranges. Events are abstracted to their tick.

*Actions.* One per segment between two awaits: a user action runs up to the
first read it issues (`SetSelectedTick`, `HydrateTickWindow`,
`HydrateAllLazyTicks`), and a settled read runs its callback and the next
iteration of the loop (`ReadArrives`, `ReadFails`, `FullTextArrives`).
`OpenLazy`, `OpenEager` and `AppendLiveEvents` replace or end the lazy replay
while calls are in flight. `NextIteration` is the top of the `for` loop.
The reads that precede the final `set()` of a load change nothing hydration
looks at, so a load is its final `set()`.

*Promise.* `ReplayView` is what the user is promised: one log is open, and more
and more of its events are available until another is opened.

*Sessions.* `HydrateSession` is one opened replay with a history variable,
`overlapped`: whether two calls have ever been in flight at once. Some properties
hold only until they were.

### Live connection: `LiveConnection`

*State.* The WebSocket objects that still have their handlers (`sockets`), each
connecting, open, or failed between its error and its close; `wsRef`, the retry
timer with the address its closure will use, the manual flag, and what the panel
shows. The delay of a retry grows with the attempt; here a timer may fire at any
moment, so the attempt number is not kept.

*Actions.* One per event of the browser: `ConnectLiveManual`, `DisconnectLive`,
`SetLiveUrl`, `SetLiveReconnectEnabled`, the four socket events, and
`RetryTimerFires`. `OpenSocket` is what `connectLive` does from the removal of
the old socket on, for a click and for a retry.

### Live session: `LiveSession`

*State.* The store's `replay` (the ticks of its events and their maximum),
`replayMaxTick`, `selectedTick`, `mode`, `liveAutoFollow`, `livePinned`, whether
the panel sees a connection, which of the two views is open, and two history
variables: the log opened last and the events delivered since. An event is its
tick, or `Untimed`.

*Actions.* One per store action and per way the interface calls it. `Message` is
`onmessage` with the valid lines of a payload; seeking is four actions because
each of the keyboard, the explorer, the scrubber and the presentation view's
scrubber treats auto-follow in its own way. `LoadJsonl` opens a log without a
sidecar. `Capture` is what "save capture bundle" writes.

### The live Studio: `LiveStudio`

The two composed. A message arrives from a socket that is open and still has its
handlers; a change of `liveStatus` is seen by the session in the same step; the
user's inspection leaves the connection alone. `LiveStudio` implements both
specifications, so what is said of each part holds of the whole, and
`NothingAfterDisconnect` relates the two.

### Inspector bridge: `Inspector`

*State.* Where `main` is, the flag a signal clears, where `publish_line` is and
which clients its loop has left, the log, the cache of bootstrap lines with its
mutex, and each client's status and what it was sent. A line is its number.

*Actions.* The main thread: a line is cached (`PublishLine`, called by the
runtime or for a failure), logged and the clients listed
(`WriteAndListClients`), sent to one client at a time (`Broadcast`);
`Succeeds`, `Fails`, `LoopHead`, `TickReturns` and the two steps of the
shutdown. A server thread: a client is listed before its handshake ends
(`Joins`, `Opens`), and greeted with two sends under the mutex
(`GreetsRunStart`, `GreetsBtDef`). `Signal` comes at any moment. `max_ticks` is a
variable that never changes, so that one run covers several values. The runtime and
the WebSocket library are not in the repository; they are modelled from how the
code uses them.

### Replay store: `ReplayStore`

*State.* The events and the indexes built from them: node timelines, blackboard
history, sorted snapshots, the diff by tick, the definition and its override,
and the cursor. A point of an index is the position of its event.

*Actions.* `AppendEvent` with one operator per type of event; the override, and
`Seek`. The queries (`GetNodeStatusAt`, `GetBlackboardAt`) are operators; the
properties compare them with definitions that look at the events alone.

### Recorded runs: `EventLines`, `TickIndexFile`, `BundleLoad`, `RecordedRun`

What reads a log. `EventLines` has the lines and which of them the protocol
accepts as events, for the tolerant and the strict parser; `TickIndexFile` builds
a tick index, accepts it, and reads a log with it, whole or tick by tick;
`BundleLoad` is `loadBundle` with its version gate and validators.

*State.* `RecordedRun` puts the three around one log that a runtime appends to:
the index beside it, the reader that looks at it, how far a chunked reader has
read and what it delivered, the live payloads that are still being decoded and
the events captured, and where a load stands with its validator process.

*Actions.* `Record` and `WriteIndex`; `ReadChunk` and `EndStream`; `OnMessage` and
`Decoded` (the text of a binary payload arrives whenever it is ready);
`LoadBundle`, one step per await of `loadBundle`, and `ValidatorExits`,
`LaunchFails` and `TimesOut`, which race for its result.

A line is a record of what the readers tell apart: whether it is JSON, its type,
its tick, whether its number is a number, and how complete its data are. Every
offset of an index is the start of a line, so an offset is a number of lines.
The chunked reader's position counts thirds of lines: a chunk may end after a
line, inside one, or before its newline.

### Replay loading and export: `ReplayLoad`

*State.* The replays opened so far, of which the last is shown; the calls that are
in flight and what each awaits; the progress bar, the messages of failed calls
and the call that ended last; the export in progress and the bundle saved last.
Ticks that were asked for arrive in any portions or fail: which bytes are read,
and by whom, is the subject of `LazyHydration`.

*Actions.* `Open` starts a load of a file, a URL or a saved bundle; the index, the
slices and the text arrive or fail, and the code's fallbacks follow
(`SidecarArrives`, `SlicesArrive`, `FullTextArrives`, `SlicesFail`,
`TextArrives`, `ReadFails`, `ProgressMoves`). `StartExport`, `ContinueExport`,
`ExportTimesOut` and `FinishExport` are the segments of the export.

### Tree sources: `BtDsl`, `BtNodes`, `BtCapabilities`, `BtDiff`, `NodePairs`, `DslEditor`, `EditedTree`

The compiler is in three modules. `BtDsl` reads a text, a sequence of lexemes, into
tokens and expressions and finds the tree in its wrapper; `BtNodes` turns the
expression of a tree into nodes and edges, one visit at a time, where the calls of
`visit` that are still to come are a list; `BtCapabilities` compares the words of a
tree that name capabilities with the metadata of a run. Diagnostics are kept by
kind. There is no bound on how deep a text nests: `tokenize`, `parseSExpr` and
`compileTree` are recursive functions over the lexemes, the tokens and the visits.

The diff of two trees is in two modules: `BtDiff` makes the path map of a tree, and
says what a tree is (`IsTree`); `NodePairs` compares path maps: nodes at the same
place first, what is left over by likeness, in the order of its scores. It also says
what a path map is (`IsPathMap`).

`DslEditor` is the panel. *State*: the run, the override in the store, where the
editor is mounted, the draft, the preview with its diff (and, for the properties, the
tree the diff was made of), and the evidence that the application keeps. The tree on
screen is what the run recorded, nodes and edges, or what was applied over it; the
source beside recorded nodes may compile to another tree, or not at all. *Actions*:
the event handlers, each with the effects React runs before the next one: an editor
starts over when the source of the tree it shows is another one and whenever it is
mounted. The compiler and the check of
capabilities are parameters of `DslEditor`: what it promises is proved for all of
them, as long as what compiles are trees (`CompiledTreesAreTrees`). `EditedTree` is
the editor with `compileBtDsl` (`CompilesWithBtDsl`), which the runs use and of which
it is proved that it makes trees.

## What the runs show

| run | question | answer |
|---|---|---|
| HydrateMixed | a file log and a URL log, two calls, failing reads, replays replaced during reads, batches of one tick | the store holds exactly the loaded ticks of the log on screen, every pending tick is being read, `ReplayView` is implemented |
| HydrateSession | one opened replay, file or URL, two calls, several batches per request, a byte limit smaller than the log, a gap in the ticks | while calls do not overlap, statuses are those of the tick, nothing stays pending and no event is appended twice; in a file log, every tick asked for arrives |
| HydrateOverlap | two calls, several batches | **violated**: later batches are read and appended twice |
| LiveStudio | clicks, socket events, the timer, a rejected address; messages, pins, resumes, seeks, loads | one connection, a status that is its socket's; a capture holds each event once, the scrubber fits, arrivals leave a held view alone, following shows the newest tick, nothing arrives after a disconnect, a lost connection is tried again |
| InspectorStream | a client that comes and goes at any moment of an endless run and of one of two ticks, with failures and signals | no line missed since it opened, both bootstrap lines, the log first, the failure last; the process ends |
| InspectorTwice | a client opens while a bootstrap line is published | **violated**: it receives the line twice |
| StoreOfLog | any four events, in any order | statuses, blackboard, its diff and the override are what the events say |
| BundleOfLog | a log of up to four lines that grows while it is indexed, read in chunks, received live, or loaded, with validators that run, refuse, hang or are missing | the index of a log loses nothing of it; tick by tick nothing of a tick is lost; a chunked reader ends with all it read; a reopened capture is complete; a loaded bundle is valid; a load ends |
| StaleIndex | the same log, read with an index it has outgrown | **violated**: it is shown without its end |
| LoadExport | two of four logs are opened, also at once, and the evidence of one is exported meanwhile | the bar and the messages belong to somebody, the last load to end is what the user sees, a bundle of the shown replay is whole, an export ends |
| EditorSession | nineteen drafts, among them broken ones, and four runs whose recorded trees are not what their sources compile to; typing, previewing, applying, reverting, loading and mounting in any order | the tree compiled has every form at its place, a preview is of the draft and of a tree with the source on screen, evidence is of the preview, a diff counts every node once, a mere reordering is one row |
| AppliedEvidence | a preview is applied | **violated**: the editor starts over and takes the evidence of it back |

Some properties have a premise because the code does not give more. Each was
seen to fail without it:

- `ShownIsLoaded` and `ImplementsView` speak of logs of different kinds, and of one
  opened replay. The callback of a read compares the kind of the source only
  (`store.ts:639`), so a second file opened during a read receives events of the
  first.
- `SequentialStatus`, `SequentialNothingStuck` and `SequentialNoDuplicates` speak
  of calls that do not overlap. Two calls append their batches in the order their
  reads settle, and `getNodeStatusAt` takes the last point appended, so an
  earlier status may be shown at a tick appended first. When the server answers
  one of two calls with the whole log, the source becomes a text and the other
  call returns without unmarking its ticks, which every later request then
  skips; `AllAskedForArrives` speaks of file logs for the same reason.
- `FollowShowsNewest` excludes the presentation view, whose scrubber is given
  `setSelectedTick` itself and leaves auto-follow on.
- `CaptureComplete` counts the log opened last as part of the capture: a log
  opened while connected is what later live events are appended to.
- No property says that a retry is not made after auto-reconnect was switched
  off: one that was scheduled before is (`App.tsx:967`, against
  `docs/live.md:49`). `AttemptsVisible` is a theorem for addresses the
  constructor accepts: a rejected one leaves the panel connecting with no socket,
  which only the button can bring about (`RetriesNeverThrow`).
- `StatusIsLatest` and `BlackboardIsLatest` speak of events that came by tick,
  and the second of logs whose snapshots close their ticks: `getBlackboardAt`
  skips a change that follows a snapshot in the same tick. `DiffIsNetEffect` and
  `OverrideIsOfLatestDefinition` need neither.
- `FreshIndexLosesNothing` speaks of the index of the log as it is. One that the log
  has outgrown is used as well, although `docs/studio/large-logs.md:68` says that
  stale sidecars fall back to normal parsing; that is the run StaleIndex.
- `EachTickIsExtracted` speaks of logs recorded tick by tick. An event that comes
  after the first line of the next tick is in that tick's range, and extraction
  by tick drops it.
- `ProgressOwned` excludes a file that cannot be read: its bar stays until the
  next load.
- `LastToEndIsTold` says that screen and messages agree with the load that ended
  last. It may be the one that was asked for first.
- `BundleIsWhole` speaks of the replay that is still shown, without live events:
  when another is opened during the wait, the bundle is of the former one and may
  lack ticks. `ExportEnds` includes an export that fails after 30 s, which is what
  happens when the last tick is loaded and others are not: selecting it reads
  nothing.
- `NoGap` begins when a client's handshake is done: a line that is broadcast to a
  listed client before is lost to it, unless it is a bootstrap line. `LogIsAhead`
  ends when a write to the log fails: the code goes on broadcasting, and nobody is
  told.
- `PreviewIsCurrent` says that a diff starts from a tree with the source on screen.
  The editor starts over when the source changes (`DslEditor.tsx:332`), while the diff
  is made of the recorded nodes and edges, so a definition with the same source and
  other nodes leaves a preview with the diff of the former tree. To tell, a preview
  here keeps the tree it was made of, which the code does not.
- `EvidenceIsCurrent` speaks of evidence of an edit that was not applied. Of an applied
  one there is none, as AppliedEvidence shows against
  `docs/studio/evidence-bundles.md:44`; the screenshots of the export make the editor
  start over as well.
- `DiffBalances` and `PureReorderIsOneRow` speak of recorded trees that are numbered
  like compiled ones (`IsTree`), as those of the repository's runs are. No property
  says that trees without rows between them are equal: a leaf moved under another
  parent of the same kind leaves none.

*Bounds.* `Calls` bounds how many calls of hydration are in flight: two is the
least that overlap, and every disagreement found needs no more. Logs have three
to seven ticks: enough for a first tick, a batch boundary by count, one by bytes,
and a tick asked for that the log lacks. `SeekInputs` contains ticks below,
inside, in a gap of and beyond the logs. `Lookahead` and `Radius` are 1, so that
a request covers some ticks and not all. The number of steps is finite because
ticks are loaded once per opening, except in HydrateOverlap, where duplicates
would grow without end and the run stops at the first.

Two `Sockets` are one more than the code has at once, since the handlers are taken
off the old one before a new one is made. `MaxSeen` bounds the live events
between two loads; four are enough to be split over replay, buffer and replay
again. The inspector's `MaxLines` bounds what the runtime emits: three
are both bootstrap lines and one more, to which a failure adds a fourth; `TickLimits`
are values of an option. There is one client, which keeps the fair runs small: what a
client is sent depends on the main thread and the cache, and on other clients only
through the mutex and the length of a broadcast. The theorems are about any number
of clients. `MaxEvents` bounds
the store; four events are two changes of a key, a snapshot and a later change.

`MaxLines` of BundleOfLog is four: a preamble, two lines of one tick and one of
another, or a late line behind it; the kinds of lines are one for each answer a
reader can give. `MaxLoads` is two, the least that overlap, and three ticks
are a first one, a last one and one between. The drafts are the smallest trees
that have a reordering, a move, a repeated name, a nested composite, and every
kind of rejection. The runs are two with one source and other trees, of which one is
shorter than its source, as in `tests/fixtures/large_replay`, and the other has names
of its own, as in `studio_demo`; one whose source does not compile, beside two roots;
and one without source or nodes.

*Fairness.* HydrateSession assumes that the promise of a read settles and that the
call it resumes runs (`WF_vars(ReadSettles(c))`): the browser guarantees both.
LiveStudio assumes that a timer fires and that the close event of a failed socket
is delivered (`ConnectionFairness`). InspectorStream assumes that the
main thread runs, its ticks included, and that a server thread that holds the
mutex goes on (`WF_vars(MainNext)`, `WF_vars(GreetsBtDef(c))`). BundleOfLog
assumes that the timer of the validator fires and that the loader goes on when
what it awaits has come (`WF_vars(Timer)`, `WF_vars(LoadBundle)`), and LoadExport
that the interval of the export keeps firing and its screenshots end or throw
(`WF_vars(ContinueExport \/ ExportTimesOut)`, `WF_vars(FinishExport)`). Nothing
forces a user, a client, a signal, a server, a validator or the runtime to do
anything.

*Deadlock.* It is checked in all runs but three. In BundleOfLog and StaleIndex a run
that was loaded or read to its end, at the bound of its lines, has nothing left to do;
in LoadExport neither has a session whose loads all failed before any replay was
shown. Elsewhere a state of the Studio always has seeks or clicks, and the inspector
that stopped stutters by `Stopped`.

Each property is accompanied by a faulty variant of one definition, kept beside
it, under which the property fails.

## What is proved

The assumptions of every theorem are those its module declares about its
constants, which TLC evaluates in the runs.

**Hydration.** `LazyHydrationProofs` proves, for every set of logs with well-formed
sidecars, every limit and any number of calls:

- `TypeCorrect`: types. The clamping of a seek takes the greatest tick of the
  store, so the invariant `TypeInv` also says that there is one.
- `PendingTicksOwned`: a pending tick is being read by a call that will release
  it. It is inductive with `TypeInv`: the loop marks exactly what it issues.
- `ShownIsLoadedAlways`, `ShownIsLoadedInSession`: the store holds exactly the
  loaded ticks. `ShownInv` adds `OneLog`: every call that can still write works
  on the log on screen. Opening a log keeps `OneLog` only when no other log has
  its kind (`OneLogPerKind`); within one replay nothing is assumed.
- `OneBatchNoDuplicates`: with `OneBatch`, when every request fits one batch, no
  event is appended twice, whichever calls overlap. The invariant adds
  `DisjointReads`: batches in flight are pending, not loaded and pairwise
  disjoint. HydrateOverlap shows the assumption is needed.
- `HydrationImplementsView`: the step-by-step refinement of `ReplayView`.

- `SequentialSessionsShowTheTick`, `SequentialSessionsEndClean`,
  `SequentialSessionsAppendOnce`: the sessions of `HydrateSession`, while calls do
  not overlap. `SequentialInv` adds to `ShownInv` what a lone call looks like
  (`LoneCall`): what is pending is its batch, and neither its batch nor what it
  has left was loaded before. That statuses are those of the tick needs
  `LoadedInOrder` besides: what is loaded, and what will be once the call ends,
  are the first ticks of the log, so later chunks have later ticks. It assumes
  that reads do not fail: a failed batch leaves a gap that a later request fills
  behind later ticks.

**Live.** `LiveStudioProofs` proves, for all sockets and addresses,
`ConnectionSafe` (the four invariants of `ConnectionSafety`, which together are
inductive), `StatusTellsTheSocket`, which is one of them, and `AttemptsVisible`,
from `BadUrls = {}`. Two theorems say what a retry is: `ErrorsAreRetried`, that
while auto-reconnect is on and the field has an address, an error has a retry
scheduled or the close event that schedules one to come (inductive with
`DisconnectIsFinal`: a socket that still has its handlers was not disconnected by
the user); and `RetriesNeverThrow`, that a scheduled retry has an address that the
constructor accepted before, whatever was typed since. The module proves types and
the four properties of the session for all payloads, logs and ticks: the maximum
of an appended store is a `CHOOSE`, which needs a lemma that it exists and bounds
the ticks; capture completeness rests on the associativity of concatenation;
`FollowShowsNewest` needs to know that a pin excludes following. Of the composition it proves that it implements
both specifications (`StudioImplementsBoth`: every step is a step or a stutter of
each), and from `DisconnectIsFinal` that nothing is delivered after a disconnect
(`QuietAfterDisconnect`).

**Inspector.** `InspectorProofs` proves `ClientsMissNothing` (from its open on),
`LogFirst` (while the log is good) and `FailureReachesClients` (of what attaching, the
initialisation or a tick throws), for any number of clients, lines and ticks. The
invariant `StreamInv` says of each client how far it has been sent the stream,
which depends on whether the loop of the current broadcast has reached it
(`SentUpTo`); of the cache, that it holds every bootstrap line that was
published, so what a client opened too late for is in its greeting; of the log,
that it holds every line before the one being broadcast unless it went bad.
Three more theorems are about how the process ends: `MutexIsReleasable` (the mutex
is held by the client being greeted and by nobody else, so no two waits are
circular, and a stopped server has let every client go), `TicksAreLimited`
(`max_ticks` ticks at most) and `SignalsAreHeeded` (after a signal no tick starts).

**Replay store.** `ReplayStoreProofs` proves the four properties of the store for
any events in any order: `StatusOfRun`, `BlackboardOfRun`, `DiffOfTick` and
`OverrideOverLast`. The invariant `StoreInv` relates each index to the events:
timelines and histories list the positions of their events in increasing order
(`Lists`), snapshots are listed by tick and then by position (`SnapshotsInv`,
kept by the insertion behind the last snapshot of no later tick), and a diff has
what the last change of a key in the tick left. The queries then answer what
`Latest` does, from the greatest position of a bounded set.

**Loads and export.** `ReplayLoadProofs` proves `BarIsOwned`, `LastEndIsSeen` and
`ExportIsWhole` for any logs and any number of loads. The first two are
inductive with the types of the calls. The third needs `WholeInv`: a shown
replay that is not lazy was read whole, and one that is being captured is whole,
which an arriving tick cannot undo and a new replay escapes by having a number
no export has.

**Recorded runs.** `RecordedRunProofs` proves the five safety properties of
`RecordedRun` for logs of any length and any kinds of lines, for chunks cut
anywhere and for payloads decoded in any order. The readers are built from
`Among`, which flattens a sequence of sequences; the lemmas it needs (what it
returns for an appended line, a concatenation, a part of a log) are proved by
induction over sequences. Each theorem has the invariant of its reader, beside
`LogInv`, which says that a log holds lines numbered in order:

- `ChunksReadTheLog` from `StreamInv`: what was delivered are the events before
  some place in the log: the position of the reader while it goes on, the first line
  that is no event if it threw, and the end of the text it read once it ended, with a
  last line that has no newline.
- `IndexedLogsLoseNothing` needs `LogInv` alone: if the ranges of an index are
  accepted they lie end to end, and the bootstrap part with the ranges is the log
  (`IndexRead`).
- `LazyTicksAreWhole` from `IndexInv`: the index is that of the log as it once was,
  and the lines of a tick lie in its range when ticks come in order.
- `CapturesReopenComplete` from `CaptureInv`: each event that was sent was captured
  once or is awaited, in one payload. Reopening uses the index saved beside the
  capture, hence the lemmas of `IndexedLogsLoseNothing`.
- `BundlesAreValid` from `LoadInv`: the records of a load are records of the log,
  valid once the validator accepted them. A log only grows, so lines the
  validator accepts later include those that were loaded.

**Editor and diff.** `DslEditorProofs` proves four properties of the editor for
every compiler that makes trees and every check of capabilities, all texts and runs:
`PreviewsAreCurrent`, `EvidenceIsOfThePreview`, `PreviewsBalance` and
`ReorderedPreviews`. `EditorInv` adds to the first two that an editor that is not
mounted has no preview; that drafts and overrides are texts, so that none of them
is mistaken for the absence of one; that an override compiles, since only what a
preview was made of is applied, so that the tree shown is one recorded beside the
source shown or compiled from it (`ShownIsOfSource`); and that the diagnostics on
screen are those of the preview, for the run on screen or one opened before it: a
preview outlives the opening of a run with the same source, and its diagnostics are
then those of the former run. The assumptions are `NoTextIsNoText` and
`CompiledTreesAreTrees`; nothing is assumed of recorded trees, which the last two
theorems ask to be trees (`IsTree`) where they speak of them. The theorem
`TextsKeepPlaces` shows that `compileBtDsl` satisfies the last one.

The last two rest on theorems about all path maps. The order of pairs is total
(`BetterTotal`: score, then the places of both nodes), so there is a best one
(`BestPairExists`), and the matching is *greedy* (`TakenIsGreedy`, by induction
over the set of sets of pairs, since every match leaves fewer): no two matches share
a node, and a pair of alike nodes that is not matched shares a node with a better
match. Hence the rows balance (`DiffsBalance`: places shared, matched and told
add up to all places), nodes told as removed and added are not alike
(`LeftoversAreUnlike`), equal trees have no rows (`SameTreeNoRows`), and among
reordered children with names of their own every node is matched with its twin,
which has the highest score there is (`TwinsAreMatched`, `ReorderIsOneRow`).

They are about trees because the path map of a tree is one (`PathMapsAreMaps`):
`childEdges` lists the edges of a node by their rank, every node is reached from the
root along one path only, as many places as nodes, and the children of a node are
right below it.

**Compiler.** The fifth property, `CompileKeepsPlaces`, says that the tree compiled
from a draft has the form that is written there at every place and no other
(`formsIn`, by the shape of the expression alone). `CompiledDraftsKeepPlaces` proves
it for all texts that are sequences of lexemes, with `compileBtDsl` for the compiler.
`TextsKeepPlaces` is the same for a single text, in three parts:

- *Nodes are a tree.* `CompiledAreTrees`: `InProgress` holds between two visits:
  ids are places in the list of nodes, each node but the first has one edge to it,
  from a node with a smaller id, and what is still to do hangs from nodes that are
  there.
- *Forms are followed.* `Follows` relates the nodes to the forms they were made of:
  an edge leads to the form written at its index in the form of its parent, and every
  form within one that has a node has an edge or is still to be visited, once.
  When nothing is left to visit, the edges of a node have the indexes from 0 on, so
  `childEdges` lists its children as they are written (`ChildrenAreForms`), and
  path map and expression agree level by level (`PlacesOfForms`).
- *Nothing is left.* There are no more visits than tokens. The parser is defined by
  the positions of tokens, from the last one backwards; `LaidAt` says that what is
  read from a position on lies behind it, and the items of a list one behind the
  other within it (`ReadsAreLaid`). What is still to be visited then lies, in order,
  behind as many positions as there are nodes (`Ahead`), and behind the last token
  there is nothing (`AllVisited`).

A recursive function is a `CHOOSE`: that there is one that satisfies its equation
is a lemma for each (`VisitExists`, `CompilingExists`, `FormsExist`,
`ReadingExists`, `ParsingExists`).

`NaturalLemmas` proves from the well-foundedness of `<` that sets of naturals
have least and, when bounded, greatest elements, and the two forms of induction
the other modules use: over a set of naturals, and over a set of sequences that
is closed under appending. The induction rules of the library take the formula
as an operator, which the provers cannot instantiate; these take the set of the
values of which it holds.

**Only model-checked**: the liveness properties `AllAskedForArrives`,
`LossIsRetried`, `SignalStops`, `RunEnds`, `LoadEnds` and `ExportEnds`, since
liveness under fairness is beyond the prover. What they need of safety is proved:
that a pending tick is being read (`PendingTicksOwned`), that an error has its retry
under way (`ErrorsAreRetried`), that the mutex is releasable, ticks limited and
signals heeded, and whose the loading bar is (the theorem about `BarIsOwned`); what
is left to them is that what can go on does. Also only model-checked is which capabilities `BtCapabilities`,
with its recursive operator, finds missing: the proofs hold for every
check of capabilities. That the texts of the runs are lexemes and that their compiler
is `compileBtDsl` are assumptions which TLC evaluates.

## What is not modelled

Text: characters, formatting, digests, the wording and positions of messages, and
layout. The run summary, one pass of counters nothing else depends on. The
event explorer and the panels, which filter and render what the store answers.
Deep links, text of a URL to and from a view. The artefacts of an evidence bundle
other than the log and the edit evidence. The tools, which run once and touch
files; the runtime, the WebSocket library and the browser, beyond how the code
uses them. `PROJECT.json` lists every component with its reason, and notes at each
hazard what its properties leave open.

## Plan

1. `LivePipeline`: the inspector composed with `LiveStudio`, with a network
   between them. An abstract stream (every line once, in order, until the
   connection is lost) is the promise; a reconnect repeats the bootstrap lines.
2. `ReplayLoad` composed with `LazyHydration`, so that the ticks an export waits
   for are those of the calls hydration really has in flight.
3. Binary payloads in `LiveSession`, and with them a payload that is still being
   decoded when the user disconnects or opens a log.
4. The run summary against a reference definition.
