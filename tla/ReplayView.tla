----------------------------- MODULE ReplayView -----------------------------
(***************************************************************************)
(* What opening a large indexed replay promises the user                    *)
(* (docs/studio/large-logs.md), whatever is read when: the store holds      *)
(* events of the opened log only, and they only accumulate until another    *)
(* replay is opened or the replay stops being lazy.                         *)
(***************************************************************************)
CONSTANTS Docs,      \* the logs that can be opened
          Ticks(_),  \* the ticks of a log
          NoDoc      \* no lazy replay is open

VARIABLES doc,    \* the log that is open
          shown   \* the <<log, tick>> pairs whose events are in the store

view == <<doc, shown>>

ViewInit == doc = NoDoc /\ shown = {}

\* A log opens with the events of one of its ticks.
OpenLog(d) ==
  /\ doc' = d
  /\ \E t \in Ticks(d) : shown' = {<<d, t>>}

\* Some further ticks of the open log become available.
Load ==
  /\ doc # NoDoc
  /\ \E S \in SUBSET Ticks(doc) : shown' = shown \cup ({doc} \X S)
  /\ UNCHANGED doc

CloseLog == doc' = NoDoc /\ shown' = {}

ViewNext == (\E d \in Docs : OpenLog(d)) \/ Load \/ CloseLog

ViewSpec == ViewInit /\ [][ViewNext]_view
=============================================================================
