---------------------------- MODULE LiveSession ----------------------------
(***************************************************************************)
(* The live session of the Studio: what the store does with the events of a *)
(* stream (appendLiveEvents), following the newest tick, pinning the view,  *)
(* resuming, seeking, and opening a log meanwhile.                          *)
(*                                                                          *)
(* Store actions are synchronous, so each is one action here.  An event is  *)
(* reduced to its tick, Untimed if it has none.                             *)
(* A log is opened whole: LazyHydration is about the logs that are not.     *)
(* The connection is reduced to the status that the panel shows; messages   *)
(* may come at any moment: LiveStudio says when they do.                    *)
(***************************************************************************)
EXTENDS Integers, Sequences

CONSTANTS
  MaxTick,     \* ticks are 0 .. MaxTick
  Payloads,    \* the valid lines of a message: a sequence of ticks
  Logs,        \* the events of a log: a sequence of ticks
  KeyStep,     \* ticks an arrow key moves by
  MaxSeen,     \* bound: live events received between two loads
  NoReplay,    \* null
  NotPinned    \* null

Untimed == -1

Ticks == Untimed .. MaxTick

ASSUME SessionAssumption ==
  /\ MaxTick \in Nat
  /\ Payloads \subseteq Seq(Ticks)
  /\ Logs \subseteq Seq(Ticks)
  /\ KeyStep \in Nat
  /\ MaxSeen \in Nat
  /\ NoReplay \notin [events : Seq(Ticks), maxTick : Ticks]
  /\ NotPinned \notin Seq(Ticks)

VARIABLES
  replay,           \* the ReplayStore: its events and its maxTick
  replayMaxTick,    \* replayMaxTick, the range of the scrubber
  selectedTick,     \* selectedTick
  mode,             \* mode
  liveAutoFollow,   \* liveAutoFollow
  livePinned,       \* livePinned.bufferedEvents, or NotPinned
  connected,        \* liveStatus = "connected"
  heroView,         \* whether this user opens the presentation view "hero"
  opened,           \* history: the events of the log opened last
  delivered         \* history: the live events received since then

vars == <<replay, replayMaxTick, selectedTick, mode, liveAutoFollow, livePinned,
          connected, heroView, opened, delivered>>

\* What a seek leaves alone, auto-follow apart.
inspected ==
  <<replay, replayMaxTick, mode, livePinned, connected, heroView, opened, delivered>>

Store == [events : Seq(Ticks), maxTick : Ticks]

TypeOK ==
  /\ replay = NoReplay \/ replay \in Store
  /\ replayMaxTick \in 0 .. MaxTick
  /\ selectedTick \in 0 .. MaxTick
  /\ mode \in {"replay", "live"}
  /\ liveAutoFollow \in BOOLEAN
  /\ livePinned = NotPinned \/ livePinned \in Seq(Ticks)
  /\ connected \in BOOLEAN
  /\ heroView \in BOOLEAN
  /\ opened \in Seq(Ticks)
  /\ delivered \in Seq(Ticks)

EmptyStore == [events |-> <<>>, maxTick |-> Untimed]

\* appendMany
AppendMany(store, events) ==
  [events  |-> store.events \o events,
   maxTick |-> LET ticks == {store.maxTick} \cup {events[i] : i \in DOMAIN events}
               IN  CHOOSE m \in ticks : \A t \in ticks : t <= m]

\* A maxTick as the views use it: 0 for a store without ticks.
Shown(store) == IF store = NoReplay \/ store.maxTick < 0 THEN 0 ELSE store.maxTick

Clamped(tick, greatest) ==
  IF tick < 0 THEN 0 ELSE IF tick > greatest THEN greatest ELSE tick

Init ==
  /\ replay = NoReplay
  /\ replayMaxTick = 0
  /\ selectedTick = 0
  /\ mode = "replay"
  /\ liveAutoFollow = TRUE
  /\ livePinned = NotPinned
  /\ connected = FALSE
  /\ heroView \in BOOLEAN
  /\ opened = <<>>
  /\ delivered = <<>>

-----------------------------------------------------------------------------

\* loadJsonl, or the fallback of the other loads.
LoadJsonl(ticks) ==
  LET store == AppendMany(EmptyStore, ticks)
  IN  /\ replay' = store
      /\ replayMaxTick' = Shown(store)
      /\ selectedTick' = Shown(store)
      /\ mode' = "replay"
      /\ livePinned' = NotPinned
      /\ opened' = ticks
      /\ delivered' = <<>>
      /\ UNCHANGED <<liveAutoFollow, connected, heroView>>

\* appendLiveEvents while the view is not pinned.
ApplyEvents(events) ==
  /\ replay' = AppendMany(IF replay = NoReplay THEN EmptyStore ELSE replay, events)
  /\ replayMaxTick' = Shown(replay')
  /\ selectedTick' = IF liveAutoFollow
                     THEN Shown(replay')
                     ELSE Clamped(selectedTick, Shown(replay'))
  /\ UNCHANGED livePinned

\* Faulty variant: the pin only stops the view from following.
ApplyWhilePinned(events) == ApplyEvents(events)

\* Faulty variant: a payload overwrites what the buffer held.
BufferLastPayload(events) ==
  /\ livePinned' = events
  /\ UNCHANGED <<replay, replayMaxTick, selectedTick>>

\* appendLiveEvents while it is.
BufferEvents(events) ==
  /\ livePinned' = livePinned \o events
  /\ UNCHANGED <<replay, replayMaxTick, selectedTick>>

\* appendLiveEvents
AppendLiveEvents(events) ==
  /\ IF livePinned = NotPinned THEN ApplyEvents(events) ELSE BufferEvents(events)
  /\ mode' = "live"
  /\ UNCHANGED <<liveAutoFollow, connected, heroView>>

\* onmessage: a payload without a valid line leaves the store alone.
Message(ticks) ==
  /\ ticks # <<>>
  /\ Len(delivered) + Len(ticks) <= MaxSeen
  /\ AppendLiveEvents(ticks)
  /\ delivered' = delivered \o ticks
  /\ UNCHANGED opened

\* setLiveStatus
ConnectionChanges ==
  /\ connected' \in BOOLEAN
  /\ UNCHANGED <<replay, replayMaxTick, selectedTick, mode, liveAutoFollow, livePinned,
                 heroView, opened, delivered>>

\* setSelectedTick of a replay that is not lazy.
SetSelectedTick(tick) ==
  selectedTick' = IF replay = NoReplay
                  THEN 0
                  ELSE LET greatest == IF replayMaxTick > Shown(replay)
                                       THEN replayMaxTick ELSE Shown(replay)
                       IN  Clamped(tick, greatest)

\* Faulty variant: an arrow key leaves auto-follow on.
KeepsFollowing(tick) ==
  /\ replay # NoReplay
  /\ tick \in {selectedTick - KeyStep, selectedTick + KeyStep, 0, replayMaxTick}
  /\ SetSelectedTick(tick)
  /\ UNCHANGED <<inspected, liveAutoFollow>>

\* The arrow, Home and End keys.
KeyboardSeek(tick) ==
  /\ replay # NoReplay
  /\ tick \in {selectedTick - KeyStep, selectedTick + KeyStep, 0, replayMaxTick}
  /\ liveAutoFollow' = (liveAutoFollow /\ mode # "live")
  /\ SetSelectedTick(tick)
  /\ UNCHANGED inspected

\* A hit of the event explorer.
JumpToTick(tick) ==
  /\ replay # NoReplay
  /\ tick # Untimed
  /\ \E i \in DOMAIN replay.events : replay.events[i] = tick
  /\ liveAutoFollow' = (liveAutoFollow /\ mode # "live")
  /\ SetSelectedTick(tick)
  /\ UNCHANGED inspected

\* The scrubber of the main view.
Scrub(tick) ==
  /\ replay # NoReplay
  /\ replayMaxTick > 0
  /\ tick \in 0 .. replayMaxTick
  /\ liveAutoFollow' = FALSE
  /\ SetSelectedTick(tick)
  /\ UNCHANGED inspected

\* The scrubber of the presentation view "hero".
ScrubHero(tick) ==
  /\ heroView
  /\ replay # NoReplay
  /\ replayMaxTick > 0
  /\ tick \in 0 .. replayMaxTick
  /\ SetSelectedTick(tick)
  /\ UNCHANGED <<inspected, liveAutoFollow>>

\* The auto-follow box, which is disabled while pinned.
SetLiveAutoFollow(enabled) ==
  /\ livePinned = NotPinned
  /\ liveAutoFollow' = enabled
  /\ selectedTick' = IF enabled THEN Shown(replay) ELSE selectedTick
  /\ UNCHANGED inspected

\* The button "pin current tick".
PinLiveInspection ==
  /\ mode = "live" /\ replay # NoReplay
  /\ connected
  /\ livePinned = NotPinned
  /\ livePinned' = <<>>
  /\ liveAutoFollow' = FALSE
  /\ UNCHANGED <<replay, replayMaxTick, selectedTick, mode, connected, heroView, opened,
                 delivered>>

\* Faulty variant: the range of the scrubber is not that of the buffer.
ResumeKeepsRange ==
  /\ livePinned # NotPinned
  /\ replay' = AppendMany(replay, livePinned)
  /\ selectedTick' = Shown(replay')
  /\ liveAutoFollow' = TRUE
  /\ livePinned' = NotPinned
  /\ mode' = "live"
  /\ UNCHANGED <<replayMaxTick, connected, heroView, opened, delivered>>

\* The button "resume live".
ResumeLiveInspection ==
  /\ livePinned # NotPinned
  /\ replay' = AppendMany(replay, livePinned)
  /\ replayMaxTick' = Shown(replay')
  /\ selectedTick' = Shown(replay')
  /\ liveAutoFollow' = TRUE
  /\ livePinned' = NotPinned
  /\ mode' = "live"
  /\ UNCHANGED <<connected, heroView, opened, delivered>>

SeekNext ==
  \E tick \in Untimed - KeyStep .. MaxTick + KeyStep :
    KeyboardSeek(tick) \/ JumpToTick(tick) \/ Scrub(tick) \/ ScrubHero(tick)

\* What the user does.
InspectNext ==
  \/ \E ticks \in Logs : LoadJsonl(ticks)
  \/ SeekNext
  \/ \E enabled \in BOOLEAN : SetLiveAutoFollow(enabled)
  \/ PinLiveInspection
  \/ ResumeLiveInspection

Next ==
  \/ InspectNext
  \/ \E ticks \in Payloads : Message(ticks)
  \/ ConnectionChanges

Spec == Init /\ [][Next]_vars

-----------------------------------------------------------------------------

Buffer == IF livePinned = NotPinned THEN <<>> ELSE livePinned

Recorded == IF replay = NoReplay THEN <<>> ELSE replay.events

\* What "save capture bundle" writes: the replay, then the buffer.
Capture == Recorded \o Buffer

\* However pins, resumes and messages interleave, a capture holds the events
\* received, each once and in order, after those of the log opened before.
CaptureComplete == Capture = opened \o delivered

\* While following, the view is at the newest tick, whatever arrives and however
\* the user moves; while pinned, nothing follows.  The scrubber of the view
\* "hero" is excluded: it moves the tick and leaves auto-follow on.
FollowShowsNewest ==
  /\ mode = "live" /\ liveAutoFollow /\ ~heroView => selectedTick = Shown(replay)
  /\ livePinned # NotPinned => ~liveAutoFollow

\* The scrubber reaches every tick of the replay and no other: neither a
\* resume nor a load leaves the range of what was shown before.
ScrubberFits == replayMaxTick = Shown(replay) /\ selectedTick \in 0 .. replayMaxTick

\* What arrives never moves a view the user holds, nor alters a pinned replay.
ArrivalsLeaveViewAlone ==
  [][Len(delivered') > Len(delivered) /\ ~liveAutoFollow
       => /\ selectedTick' = selectedTick
          /\ livePinned # NotPinned => UNCHANGED <<replay, replayMaxTick>>]_vars

=============================================================================
