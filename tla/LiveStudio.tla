----------------------------- MODULE LiveStudio -----------------------------
(***************************************************************************)
(* The live side of the Studio: the connection of App.tsx and the session   *)
(* of the store, composed.  A message comes from a socket that is open and   *)
(* has its handlers; a change of liveStatus is seen by the panel at once.    *)
(*                                                                          *)
(* onmessage awaits the decoding of the payload.  That of a text, which is   *)
(* what the inspector sends, resumes before any other event of the browser;  *)
(* binary payloads are left out.                                             *)
(***************************************************************************)
EXTENDS LiveConnection, LiveSession

studioVars == <<connectionVars, vars>>

StudioInit == ConnectionInit /\ Init

\* What the connection does not change of the session.
session == <<replay, replayMaxTick, selectedTick, mode, liveAutoFollow, livePinned,
             heroView, opened, delivered>>

\* setLiveStatus, within whatever the connection does.
ConnectionStep ==
  /\ ConnectionNext
  /\ connected' = (liveStatus' = "connected")
  /\ UNCHANGED session

\* onmessage
MessageArrives(s, ticks) ==
  /\ s \in DOMAIN sockets
  /\ sockets[s].phase = "open"
  /\ Message(ticks)
  /\ UNCHANGED connectionVars

UserStep == InspectNext /\ UNCHANGED connectionVars

StudioNext ==
  \/ ConnectionStep
  \/ \E s \in Sockets, ticks \in Payloads : MessageArrives(s, ticks)
  \/ UserStep

StudioSpec == StudioInit /\ [][StudioNext]_studioVars

FairStudioSpec == StudioSpec /\ ConnectionFairness

-----------------------------------------------------------------------------

\* After the disconnect button nothing is added to the replay or the buffer
\* until the user connects again: no late message and no retry gets through.
NothingAfterDisconnect ==
  [][Len(delivered') > Len(delivered) => ~manual]_studioVars

=============================================================================
