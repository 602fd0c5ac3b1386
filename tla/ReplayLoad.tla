----------------------------- MODULE ReplayLoad -----------------------------
(***************************************************************************)
(* Opening replays in Studio (loadJsonl, loadJsonlFromFiles and             *)
(* loadJsonlFromUrl of apps/studio/src/store.ts, onFileChange and the       *)
(* initial load of App.tsx) and exporting the evidence bundle of one while  *)
(* others are opened (exportEvidenceBundle of App.tsx).                     *)
(*                                                                          *)
(* Which bytes hydration reads, and what becomes of reads whose replay was  *)
(* replaced, is LazyHydration's subject: here ticks of the shown replay     *)
(* that were asked for arrive in any portions, or fail.                     *)
(***************************************************************************)
EXTENDS Integers, FiniteSets, Sequences

CONSTANTS
  Docs,        \* the logs that can be opened
  Kind(_),     \* how a log is opened: "file", "url", or "zip" for a saved bundle
  Large(_),    \* it reaches LARGE_LOG_LAZY_THRESHOLD_BYTES
  Sidecar(_),  \* the index beside it: "none", "good" or "bad"
  LastTick(_), \* the ticks of a log are 1 .. LastTick
  Lookahead,   \* LAZY_HYDRATION_LOOKAHEAD_TICKS
  MaxLoads     \* bound: replays opened in a session

ASSUME LoadAssumption ==
  /\ Lookahead \in Nat /\ MaxLoads \in Nat
  /\ \A d \in Docs : /\ Kind(d) \in {"file", "url", "zip"} /\ Large(d) \in BOOLEAN
                     /\ Sidecar(d) \in {"none", "good", "bad"} /\ LastTick(d) \in Nat \ {0}

Ticks(d) == 1 .. LastTick(d)

VARIABLES
  replays,      \* the ReplayStore objects so far: log and ticks read; the last is shown
  source,       \* lazySidecar.source.kind of the shown one, "none" when it is not lazy
  mode,         \* "replay" or "live"
  reading,      \* ticks of the shown one that are being read
  selectedTick,
  loads,        \* the calls in flight: log and what each awaits, by number
  asked,        \* calls made so far
  progress,     \* replayLoadProgress is not null: the bar is shown
  ended,        \* the call that ended last
  told,         \* the failed calls whose message is in parseErrors
  export,       \* the export in progress
  saved         \* the bundle saved last

viewVars == <<replays, source, mode, reading, selectedTick>>
loadVars == <<loads, asked, progress, ended, told>>
exportVars == <<export, saved>>
vars == <<viewVars, loadVars, exportVars>>

NoExport == [stage |-> "idle", of |-> 0, tick |-> 0]
NothingSaved == [of |-> 0, ticks |-> {}]

Init ==
  /\ replays = <<>> /\ source = "none" /\ mode = "replay" /\ reading = {} /\ selectedTick = 0
  /\ loads = <<>> /\ asked = 0 /\ progress = FALSE
  /\ ended = [call |-> 0, outcome |-> "none"] /\ told = {}
  /\ export = NoExport /\ saved = NothingSaved

InFlight == {c \in DOMAIN loads : loads[c].awaits # "nothing"}
Awaiting(c, what) == c \in DOMAIN loads /\ loads[c].awaits = what

Shown == replays[Len(replays)]
Complete(replay) == replay.ticks = Ticks(replay.doc)

-----------------------------------------------------------------------------
(* How a call ends.                                                         *)

Settle(c, outcome) ==
  /\ loads' = [loads EXCEPT ![c].awaits = "nothing"]
  /\ ended' = [call |-> c, outcome |-> outcome]

\* The set call that replaces the replay: lazy with the first tick, or the whole log.
Show(c, kind) ==
  LET d == loads[c].doc
  IN  /\ Settle(c, "shown")
      /\ replays' = Append(replays, [doc |-> d, ticks |-> IF kind = "none" THEN Ticks(d) ELSE {1}])
      /\ source' = kind
      /\ selectedTick' = IF kind = "none" THEN LastTick(d) ELSE 1
      /\ mode' = "replay"
      /\ reading' = {}
      /\ progress' = FALSE
      /\ told' = {}
      /\ UNCHANGED <<asked, exportVars>>

\* loadJsonl: a large text with an index is kept as text and parsed tick by tick.
loadJsonl(c) ==
  LET d == loads[c].doc
  IN  Show(c, IF Large(d) /\ Sidecar(d) = "good" THEN "text" ELSE "none")

\* Faulty variant: what fetch throws is caught and forgotten.
FailsUntold(c) ==
  /\ Settle(c, "failed")
  /\ progress' = IF Kind(loads[c].doc) = "url" THEN FALSE ELSE progress
  /\ told' = IF Kind(loads[c].doc) = "url" THEN told ELSE told \cup {c}
  /\ UNCHANGED <<viewVars, asked, exportVars>>

\* Faulty variant: no load that fails takes the bar away.
FailsKeepingBar(c) ==
  /\ Settle(c, "failed")
  /\ told' = told \cup {c}
  /\ UNCHANGED <<viewVars, asked, progress, exportVars>>

\* The error goes to the caller, which adds a parse error; only a URL load clears the bar.
Fails(c) ==
  /\ Settle(c, "failed")
  /\ progress' = IF Kind(loads[c].doc) = "url" THEN FALSE ELSE progress
  /\ told' = told \cup {c}
  /\ UNCHANGED <<viewVars, asked, exportVars>>

Goes(c, what) ==
  /\ loads' = [loads EXCEPT ![c].awaits = what]
  /\ UNCHANGED <<viewVars, asked, progress, ended, told, exportVars>>

-----------------------------------------------------------------------------
(* The calls.                                                               *)

\* A saved bundle is unpacked first, and shows no bar.
Open ==
  /\ asked < MaxLoads
  /\ \E d \in Docs :
       /\ loads' = Append(loads, [doc |-> d,
                     awaits |-> IF Kind(d) = "zip" THEN "unpacking"
                                ELSE IF Sidecar(d) = "none" THEN "text" ELSE "sidecar"])
       /\ progress' = IF Kind(d) = "zip" THEN progress ELSE TRUE
       /\ told' = IF Kind(d) = "zip" THEN told ELSE {}
  /\ asked' = asked + 1
  /\ UNCHANGED <<viewVars, ended, exportVars>>

\* The index: one that is not accepted, or a small log, leads to the whole text.
SidecarArrives(c) ==
  /\ Awaiting(c, "sidecar")
  /\ LET d == loads[c].doc
     IN  Goes(c, IF Large(d) /\ Sidecar(d) = "good" THEN "slices" ELSE "text")

\* The lines before the first tick and those of it.  Each read moves the bar.
SlicesArrive(c) ==
  /\ Awaiting(c, "slices")
  /\ Show(c, Kind(loads[c].doc))

\* A server that ignores ranges answers with the whole text.
FullTextArrives(c) ==
  /\ Awaiting(c, "slices") /\ Kind(loads[c].doc) = "url"
  /\ loadJsonl(c)

\* A slice that cannot be read leads to the whole text as well.
SlicesFail(c) == Awaiting(c, "slices") /\ Goes(c, "text")

TextArrives(c) ==
  /\ Awaiting(c, "text") \/ Awaiting(c, "unpacking")
  /\ loadJsonl(c)

\* A chunk of a file has been read, or a slice: the bar is shown again if another call hid it.
ProgressMoves(c) ==
  /\ (Awaiting(c, "text") /\ Kind(loads[c].doc) = "file") \/ Awaiting(c, "slices")
  /\ progress' = TRUE
  /\ UNCHANGED <<viewVars, loads, asked, ended, told, exportVars>>

ReadFails(c) ==
  /\ Awaiting(c, "sidecar") \/ Awaiting(c, "text") \/ Awaiting(c, "unpacking")
  /\ Fails(c)

LoadSettles(c) ==
  \/ SidecarArrives(c) \/ SlicesArrive(c) \/ FullTextArrives(c) \/ SlicesFail(c)
  \/ TextArrives(c) \/ ReadFails(c)

-----------------------------------------------------------------------------
(* The shown replay.                                                        *)

\* setSelectedTick: reads the ticks up to the selected one and a few more.
Seek(tick) ==
  LET top == LastTick(Shown.doc)
      bounded == IF tick < top THEN tick ELSE top
      target == IF bounded + Lookahead < top THEN bounded + Lookahead ELSE top
      missing == (1 .. target) \ Shown.ticks
  IN  /\ selectedTick' = bounded
      /\ IF source = "none" \/ bounded \in Shown.ticks
         THEN UNCHANGED <<replays, reading>>
         ELSE IF source = "text"
         THEN replays' = [replays EXCEPT ![Len(replays)].ticks = @ \cup missing] /\ UNCHANGED reading
         ELSE reading' = reading \cup missing /\ UNCHANGED replays

SetSelectedTick ==
  /\ replays # <<>>
  /\ \E tick \in Ticks(Shown.doc) : Seek(tick)
  /\ UNCHANGED <<source, mode, loadVars, exportVars>>

TicksArrive ==
  /\ \E batch \in (SUBSET reading) \ {{}} :
       /\ replays' = [replays EXCEPT ![Len(replays)].ticks = @ \cup batch]
       /\ reading' = reading \ batch
  /\ UNCHANGED <<source, mode, selectedTick, loadVars, exportVars>>

TicksFail ==
  /\ reading # {}
  /\ reading' = {}
  /\ UNCHANGED <<replays, source, mode, selectedTick, loadVars, exportVars>>

\* A live event is appended to the shown replay, which is lazy no more.
AppendLiveEvents ==
  /\ replays # <<>> /\ mode = "replay"
  /\ mode' = "live" /\ source' = "none" /\ reading' = {}
  /\ UNCHANGED <<replays, selectedTick, loadVars, exportVars>>

-----------------------------------------------------------------------------
(* exportEvidenceBundle.  It writes the replay that was shown when it was   *)
(* called; what it waits for is the state of whichever is shown by then.    *)

NothingMissing == source = "none" \/ Complete(Shown)

StartExport ==
  /\ export.stage = "idle" /\ replays # <<>>
  /\ export' = [stage |-> IF NothingMissing THEN "capturing" ELSE "waiting",
                of |-> Len(replays), tick |-> selectedTick]
  /\ IF NothingMissing THEN UNCHANGED viewVars
     ELSE Seek(LastTick(Shown.doc)) /\ UNCHANGED <<source, mode>>
  /\ UNCHANGED <<saved, loadVars>>

\* Faulty variant: waits until nothing is being read.
NothingMissingOrRead == source = "none" \/ reading = {}

ContinueExportWhenIdle ==
  /\ export.stage = "waiting" /\ NothingMissingOrRead
  /\ export' = [export EXCEPT !.stage = "capturing"]
  /\ IF export.tick # selectedTick THEN Seek(export.tick) /\ UNCHANGED <<source, mode>>
     ELSE UNCHANGED viewVars
  /\ UNCHANGED <<saved, loadVars>>

\* Asked every 40 ms; then the tick is put back.
ContinueExport ==
  /\ export.stage = "waiting" /\ NothingMissing
  /\ export' = [export EXCEPT !.stage = "capturing"]
  /\ IF export.tick # selectedTick THEN Seek(export.tick) /\ UNCHANGED <<source, mode>>
     ELSE UNCHANGED viewVars
  /\ UNCHANGED <<saved, loadVars>>

\* Faulty variant: there is no limit to the wait.
ExportWaits == FALSE /\ UNCHANGED vars

\* 30 s have passed: the export fails and the tick stays where it is.
ExportTimesOut ==
  /\ export.stage = "waiting" /\ ~NothingMissing
  /\ export' = NoExport
  /\ UNCHANGED <<saved, viewVars, loadVars>>

\* The screenshots are taken and the bundle is written, or something throws.
FinishExport ==
  /\ export.stage = "capturing"
  /\ export' = NoExport
  /\ \/ saved' = [of |-> export.of, ticks |-> replays[export.of].ticks]
     \/ UNCHANGED saved
  /\ UNCHANGED <<viewVars, loadVars>>

-----------------------------------------------------------------------------
Calls == 1 .. MaxLoads

Next ==
  \/ Open
  \/ \E c \in Calls : LoadSettles(c) \/ ProgressMoves(c)
  \/ SetSelectedTick \/ TicksArrive \/ TicksFail \/ AppendLiveEvents
  \/ StartExport \/ ContinueExport \/ ExportTimesOut \/ FinishExport

(***************************************************************************)
(* The interval of the export keeps running, so the wait either ends or     *)
(* reaches its limit, and what follows ends.  A server need not answer.     *)
(***************************************************************************)
Spec == Init /\ [][Next]_vars /\ WF_vars(ContinueExport \/ ExportTimesOut) /\ WF_vars(FinishExport)

-----------------------------------------------------------------------------
(***************************************************************************)
(* A progress bar with nothing loading means that the last call to end was  *)
(* one of a file that could not be read: whichever calls overlap, every     *)
(* other end of a call takes the bar away (loadJsonlFromFiles,              *)
(* loadJsonlFromUrl).                                                       *)
(***************************************************************************)
ProgressOwned ==
  (progress /\ InFlight = {}) =>
     /\ ended.outcome = "failed"
     /\ Kind(loads[ended.call].doc) # "url"

(***************************************************************************)
(* Once no call is in flight, the user sees what the last one to end        *)
(* brought: its replay, or its failure with the replay before it left       *)
(* alone, whatever the order in which calls were made and ended.            *)
(***************************************************************************)
LastToEndIsTold ==
  InFlight = {} =>
    /\ ended.outcome = "shown" => Shown.doc = loads[ended.call].doc
    /\ ended.outcome = "failed" => ended.call \in told

(***************************************************************************)
(* docs/studio/large-logs.md "bundle export hydrates the remaining ticks    *)
(* first": the bundle of the replay that is still shown holds all of it,    *)
(* though ticks arrive in portions and reads fail, unless live events were  *)
(* appended to it.                                                          *)
(***************************************************************************)
BundleIsWhole ==
  (saved.of # 0 /\ saved.of = Len(replays) /\ mode = "replay") => saved.ticks = Ticks(Shown.doc)

(***************************************************************************)
(* An export ends whatever the reads it waits for do, also when the last    *)
(* tick is loaded and selecting it reads nothing (exportEvidenceBundle).    *)
(***************************************************************************)
ExportEnds == export.stage # "idle" ~> export.stage = "idle"
=============================================================================
