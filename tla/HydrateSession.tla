--------------------------- MODULE HydrateSession ---------------------------
(***************************************************************************)
(* One opened replay, with a history variable that tells the sessions whose *)
(* calls never overlapped: some properties of LazyHydration hold for those  *)
(* only.                                                                    *)
(***************************************************************************)
EXTENDS LazyHydration

VARIABLE overlapped    \* history: two calls have been in flight at once

historyVars == <<vars, overlapped>>

Overlapping == \E c, d \in DOMAIN flight : c # d

HistoryInit == Opened /\ overlapped = FALSE

HistoryNext == SessionNext /\ overlapped' = (overlapped \/ Overlapping')

HistorySafeSpec == HistoryInit /\ [][HistoryNext]_historyVars

HistorySpec == HistorySafeSpec /\ \A c \in Calls : WF_vars(ReadSettles(c))

-----------------------------------------------------------------------------

\* While a user waits for each request to end before making the next, the tree
\* shows at a loaded tick the status of that tick: the order in which a call
\* reads its batches is the order of the ticks (getNodeStatusAt takes the last
\* point appended).
SequentialStatus == ~overlapped => StatusIsOfTheTick

\* And every mark in pendingTicks goes with the call that set it, also when the
\* server answers with the whole log.
SequentialNothingStuck == ~overlapped => NothingStuck

\* And no event is appended twice, however many batches a request has and
\* whichever ticks earlier requests left out.
SequentialNoDuplicates == ~overlapped => NoDuplicates

-----------------------------------------------------------------------------
(* Inductive strengthenings *)

\* A lone call reads the log on screen; what is marked pending is its batch, and
\* neither its batch nor what it has left was loaded before.
LoneCall ==
  /\ lazy.kind # "none" /\ lazy.kind \in {Kind[lazy.index], "text"}
  /\ ~overlapped =>
       /\ ~Overlapping
       /\ DOMAIN flight = {} => lazy.pending = {}
       /\ \A c \in DOMAIN flight :
            /\ SameKind(flight[c])
            /\ lazy.pending = flight[c].batch
            /\ flight[c].batch \cap lazy.loaded = {}
            /\ flight[c].rest \cap (lazy.loaded \cup flight[c].batch) = {}
       /\ NoDuplicates

\* Some ticks of the log on screen, and with each of them all the earlier ones.
FirstTicks(ticks) == \A t \in ticks, u \in Ticks(lazy.index) : u < t => u \in ticks

\* Later chunks have later ticks.
ChunksInOrder ==
  \A i, j \in DOMAIN replay : i < j =>
    \A t \in replay[i].ticks, u \in replay[j].ticks : t < u

\* What is loaded, what is loaded once the batch has come, and once the call has
\* ended, are first ticks of the log; the last of them reach the selected tick.
LoadedInOrder ==
  /\ ChunksInOrder
  /\ FirstTicks(lazy.loaded)
  /\ \A c \in DOMAIN flight :
       /\ FirstTicks(lazy.loaded \cup flight[c].batch)
       /\ FirstTicks(lazy.loaded \cup flight[c].batch \cup flight[c].rest)
  /\ \A u \in Ticks(lazy.index) : u <= selectedTick => u \in lazy.loaded \cup Requested

SequentialInv == ShownInv /\ LoneCall

SequentialOrderInv == SequentialInv /\ (~overlapped => LoadedInOrder)
=============================================================================
