--------------------------- MODULE LazyHydration ---------------------------
(***************************************************************************)
(* Lazy hydration of a large indexed replay (apps/studio/src/store.ts).     *)
(*                                                                          *)
(* A large log opened with its sidecar starts with its first tick only; the *)
(* rest is read on demand, in batches, by asynchronous calls that several   *)
(* user actions start and that overlap freely.  JavaScript runs each call   *)
(* without interruption up to its next await, so one action here is one     *)
(* such segment: from the event that wakes a call (a user action, a file or *)
(* HTTP read that settled) to the await that suspends it again.             *)
(***************************************************************************)
EXTENDS SidecarIndex, Sequences

CONSTANTS
  Docs,         \* the logs the user can open, each with its sidecar
  Index,        \* Index[d]: the tick index of log d
  Kind,         \* Kind[d]: where log d is read from, "file", "url" or "text"
  NoDoc,        \* the log of a replay that is not lazy
  Live,         \* the source of live events
  Calls,        \* names for hydration calls: bounds how many are in flight
  SeekInputs,   \* the ticks the user may ask for (need not exist in a log)
  Lookahead,    \* LAZY_HYDRATION_LOOKAHEAD_TICKS
  Radius,       \* LAZY_HYDRATION_WINDOW_RADIUS
  ReadsMayFail  \* whether a file or HTTP read may be rejected

ASSUME LimitsAssumption ==
  /\ BatchTickLimit \in Nat \ {0}
  /\ BatchByteLimit \in Nat
  /\ Lookahead \in Nat
  /\ Radius \in Nat
  /\ SeekInputs \subseteq Int
  /\ ReadsMayFail \in BOOLEAN

ASSUME DocsAssumption ==
  /\ NoDoc \notin Docs
  /\ Live \notin Docs
  /\ Kind \in [Docs -> {"file", "url", "text"}]
  /\ \A d \in Docs : WellFormedIndex(Index[d]) /\ HasFirstAndLast(Index[d])

VARIABLES
  replay,        \* the ReplayStore: the appendMany calls it received, in order
  lazy,          \* lazySidecar
  selectedTick,  \* selectedTick
  flight         \* the calls awaiting a read, by name

vars == <<replay, lazy, selectedTick, flight>>

Ticks(d) == DOMAIN Index[d]
AllTicks == UNION {Ticks(d) : d \in Docs}

\* One appendMany call: the ticks whose events it appended, in tick order.
Chunk == [doc : Docs \cup {Live}, ticks : SUBSET Nat]

\* LazySidecarReplayState.  index and source are the log whose sidecar and
\* whose bytes are in use; they differ only if a source was swapped mid-call.
LazyState == [kind : {"none", "file", "url", "text"},
              index : Docs \cup {NoDoc}, source : Docs \cup {NoDoc},
              loaded : SUBSET Nat, pending : SUBSET Nat]

\* A call suspended in its for loop: the log whose index its batches were cut
\* from, the log the awaited read was issued against, the batch being read and
\* the ticks of the batches after it.
Flight == [index : Docs, source : Docs, batch : SUBSET Nat, rest : SUBSET Nat]

NotLazy == [kind |-> "none", index |-> NoDoc, source |-> NoDoc,
            loaded |-> {}, pending |-> {}]

\* The <<log, tick>> pairs whose events the store holds.
ShownBy(chunks) == UNION {{chunks[i].doc} \X chunks[i].ticks : i \in DOMAIN chunks}
Shown == ShownBy(replay)

LazyOK(L) ==
  /\ L \in LazyState
  /\ L.kind = "none" <=> L.index = NoDoc
  /\ L.kind = "none" <=> L.source = NoDoc

FlightOK ==
  /\ DOMAIN flight \subseteq Calls
  /\ \A c \in DOMAIN flight : flight[c] \in Flight /\ Kind[flight[c].index] # "text"

TypeOK ==
  /\ replay \in Seq(Chunk)
  /\ LazyOK(lazy)
  /\ selectedTick \in Nat
  /\ FlightOK

Init ==
  /\ replay = <<>>
  /\ lazy = NotLazy
  /\ selectedTick = 0
  /\ flight = [c \in {} |-> NoDoc]

-----------------------------------------------------------------------------
(* Appending to the ReplayStore *)

\* if (tickEvents.length > 0) replay.appendMany(tickEvents)
Appended(d, ticks) ==
  IF ticks = {} THEN replay ELSE Append(replay, [doc |-> d, ticks |-> ticks])

ReplayTicks(chunks) == UNION {chunks[i].ticks : i \in DOMAIN chunks}

\* max(replay.maxTick, 0), where maxTick is -1 until an event has a tick.
ReplayMaxTick(chunks) ==
  LET ticks == ReplayTicks(chunks)
  IN  IF ticks = {} THEN 0 ELSE CHOOSE t \in ticks : \A u \in ticks : u <= t

-----------------------------------------------------------------------------
(* Opening a replay.  The reads that precede the final set() change nothing *)
(* a hydration call looks at; the call that finishes last wins.             *)

\* Faulty variant: the chunk joins the previous replay instead of a new store.
OpenLazyKeepsStore(d) ==
  LET first == FirstTick(Index[d])
  IN  /\ replay' = Append(replay, [doc |-> d, ticks |-> {first}])
      /\ lazy' = [kind |-> Kind[d], index |-> d, source |-> d,
                  loaded |-> {first}, pending |-> {}]
      /\ selectedTick' = first
      /\ UNCHANGED flight

\* Final set() of the lazy branch of loadJsonl / loadJsonlFromFiles / FromUrl.
OpenLazy(d) ==
  LET first == FirstTick(Index[d])
  IN  /\ replay' = <<[doc |-> d, ticks |-> {first}]>>
      /\ lazy' = [kind |-> Kind[d], index |-> d, source |-> d,
                  loaded |-> {first}, pending |-> {}]
      /\ selectedTick' = first
      /\ UNCHANGED flight

\* Final set() of loadJsonl's standard path: every tick, no lazySidecar.
OpenEager(d) ==
  /\ replay' = <<[doc |-> d, ticks |-> Ticks(d)]>>
  /\ lazy' = NotLazy
  /\ selectedTick' = MaxTick(Index[d])
  /\ UNCHANGED flight

\* appendLiveEvents, not pinned, reaching a lazy replay: the live event joins
\* the replay on screen and lazySidecar is dropped.
AppendLiveEvents(tick, liveAutoFollow) ==
  /\ lazy.kind # "none"
  /\ replay' = Append(replay, [doc |-> Live, ticks |-> {tick}])
  /\ LET maxTick == ReplayMaxTick(replay')
     IN  selectedTick' = IF liveAutoFollow \/ selectedTick > maxTick
                         THEN maxTick ELSE selectedTick
  /\ lazy' = NotLazy
  /\ UNCHANGED flight

-----------------------------------------------------------------------------
(* Starting a hydration call *)

\* The top of the for loop of ensureLazyFileTicksLoaded / ensureLazyUrlTicks-
\* Loaded, for call c with index log d and remaining ticks, when lazySidecar
\* is L: mark the next batch pending and issue its read, or return.
NextIteration(c, d, ticks, L) ==
  IF ticks # {} /\ L.kind = Kind[d]
  THEN LET batch == NextBatch(Index[d], ticks)
       IN  /\ lazy' = [L EXCEPT !.pending = @ \cup batch]
           /\ flight' = [x \in DOMAIN flight \cup {c} |->
                           IF x = c
                           THEN [index |-> d, source |-> L.source,
                                 batch |-> batch, rest |-> ticks \ batch]
                           ELSE flight[x]]
  ELSE /\ lazy' = L
       /\ flight' = [x \in DOMAIN flight \ {c} |-> flight[x]]

\* ensureLazy*TicksLoaded up to its first await.
EnsureTicksLoaded(c, ticks) ==
  /\ c \notin DOMAIN flight
  /\ NextIteration(c, lazy.index, ticks, lazy)
  /\ UNCHANGED replay

\* hydrateLazyTextTicks: the whole log is in memory and nothing is awaited.
HydrateLazyTextTicks(ticks) ==
  /\ replay' = Appended(lazy.source,
                        TicksExtracted(Index[lazy.source], Index[lazy.index], ticks))
  /\ lazy' = [lazy EXCEPT !.loaded = @ \cup ticks]
  /\ UNCHANGED flight

\* Dispatch on the kind of source.
Hydrate(c, ticks) ==
  IF lazy.kind = "text" THEN HydrateLazyTextTicks(ticks) ELSE EnsureTicksLoaded(c, ticks)

\* Faulty variant: no lower clamp.
BoundedAbove(tick) ==
  LET shownMax == ReplayMaxTick(replay)
      maxTick == IF lazy.kind # "none" /\ MaxTick(Index[lazy.index]) > shownMax
                 THEN MaxTick(Index[lazy.index]) ELSE shownMax
  IN  IF tick > maxTick THEN maxTick ELSE tick

\* Clamping of a tick the user asks for.
Bounded(tick) ==
  LET shownMax == ReplayMaxTick(replay)
      maxTick == IF lazy.kind # "none" /\ MaxTick(Index[lazy.index]) > shownMax
                 THEN MaxTick(Index[lazy.index]) ELSE shownMax
  IN  IF tick < 0 THEN 0 ELSE IF tick > maxTick THEN maxTick ELSE tick

SetSelectedTick(c, tick) ==
  /\ replay # <<>>
  /\ selectedTick' = Bounded(tick)
  /\ IF lazy.kind = "none" \/ selectedTick' \in lazy.loaded
     THEN UNCHANGED <<replay, lazy, flight>>
     ELSE LET ix == Index[lazy.index]
              target == IF selectedTick' + Lookahead > MaxTick(ix)
                        THEN MaxTick(ix) ELSE selectedTick' + Lookahead
          IN  Hydrate(c, lazyTicksToHydrate(ix, lazy.loaded, lazy.pending, target))

\* The button "hydrate nearby" passes the selected tick.
HydrateTickWindow(c) ==
  /\ lazy.kind # "none"
  /\ LET ix == Index[lazy.index]
         lower == IF selectedTick < Radius THEN 0 ELSE selectedTick - Radius
         upper == IF selectedTick + Radius > MaxTick(ix)
                  THEN MaxTick(ix) ELSE selectedTick + Radius
     IN  /\ lower <= upper
         /\ Hydrate(c, lazyTicksToHydrateInRange(ix, lazy.loaded, lazy.pending,
                                                 lower, upper))
  /\ UNCHANGED selectedTick

HydrateAllLazyTicks(c) ==
  /\ lazy.kind # "none"
  /\ LET ix == Index[lazy.index]
     IN  Hydrate(c, lazyTicksToHydrate(ix, lazy.loaded, lazy.pending, MaxTick(ix)))
  /\ UNCHANGED selectedTick

-----------------------------------------------------------------------------
(* A read settles *)

\* lazySidecar is still of the kind call f works on.
SameKind(f) == lazy.kind = Kind[f.index]

\* Faulty variant: the callback does not test the kind of the source.
ReadArrivesAnyKind(c) ==
  LET f == flight[c]
      got == TicksInSlice(Index[f.source], Index[f.index], f.batch)
      L == [lazy EXCEPT !.pending = @ \ f.batch, !.loaded = @ \cup f.batch]
  IN  /\ replay' = IF ~(f.batch \subseteq lazy.loaded) THEN Appended(f.source, got) ELSE replay
      /\ NextIteration(c, f.index, f.rest, L)
      /\ UNCHANGED selectedTick

\* Faulty variant: the call returns after its first batch.
ReadArrivesOnce(c) ==
  LET f == flight[c]
      got == TicksInSlice(Index[f.source], Index[f.index], f.batch)
      L == [lazy EXCEPT !.pending = @ \ f.batch, !.loaded = @ \cup f.batch]
  IN  /\ replay' = IF SameKind(f) /\ ~(f.batch \subseteq lazy.loaded)
                   THEN Appended(f.source, got) ELSE replay
      /\ NextIteration(c, f.index, {}, IF SameKind(f) THEN L ELSE lazy)
      /\ UNCHANGED selectedTick

\* A slice arrived (File.slice, or HTTP 206): the set() after it, then the
\* next iteration.  The callback tests the kind of the source, not which log.
ReadArrives(c) ==
  LET f == flight[c]
      got == TicksInSlice(Index[f.source], Index[f.index], f.batch)
      L == [lazy EXCEPT !.pending = @ \ f.batch, !.loaded = @ \cup f.batch]
  IN  /\ replay' = IF SameKind(f) /\ ~(f.batch \subseteq lazy.loaded)
                   THEN Appended(f.source, got) ELSE replay
      /\ NextIteration(c, f.index, f.rest, IF SameKind(f) THEN L ELSE lazy)
      /\ UNCHANGED selectedTick

\* Faulty variant: the catch block forgets pendingTicks.
ReadFailsKeepsPending(c) ==
  LET f == flight[c]
  IN  /\ ReadsMayFail
      /\ NextIteration(c, f.index, f.rest, lazy)
      /\ UNCHANGED <<replay, selectedTick>>

\* The read was rejected: the catch block, then the next iteration.
ReadFails(c) ==
  LET f == flight[c]
      L == [lazy EXCEPT !.pending = @ \ f.batch]
  IN  /\ ReadsMayFail
      /\ NextIteration(c, f.index, f.rest, IF SameKind(f) THEN L ELSE lazy)
      /\ UNCHANGED <<replay, selectedTick>>

\* Faulty variant: the fallback forgets pendingTicks.
FullTextKeepsPending(c) ==
  LET f == flight[c]
      remaining == f.batch \cup f.rest
  IN  /\ Kind[f.index] = "url"
      /\ IF lazy.kind = "url"
         THEN /\ replay' = Appended(f.source, TicksExtracted(Index[f.source],
                                                Index[lazy.index], remaining))
              /\ lazy' = [lazy EXCEPT !.kind = "text", !.source = f.source,
                                      !.loaded = @ \cup remaining]
         ELSE UNCHANGED <<replay, lazy>>
      /\ flight' = [x \in DOMAIN flight \ {c} |-> flight[x]]
      /\ UNCHANGED selectedTick

\* The server ignored the Range header and sent the whole log: the replay
\* becomes a text replay and the call hydrates all it had left, then returns.
FullTextArrives(c) ==
  LET f == flight[c]
      remaining == f.batch \cup f.rest
  IN  /\ Kind[f.index] = "url"
      /\ IF lazy.kind = "url"
         THEN /\ replay' = Appended(f.source, TicksExtracted(Index[f.source],
                                                Index[lazy.index], remaining))
              /\ lazy' = [kind |-> "text", index |-> lazy.index, source |-> f.source,
                          loaded |-> lazy.loaded \cup remaining,
                          pending |-> lazy.pending \ remaining]
         ELSE UNCHANGED <<replay, lazy>>
      /\ flight' = [x \in DOMAIN flight \ {c} |-> flight[x]]
      /\ UNCHANGED selectedTick

ReadSettles(c) ==
  /\ c \in DOMAIN flight
  /\ \/ ReadArrives(c)
     \/ ReadFails(c)
     \/ FullTextArrives(c)

-----------------------------------------------------------------------------

\* The user and the network within one opened replay.
SessionNext ==
  \/ \E c \in Calls, tick \in SeekInputs : SetSelectedTick(c, tick)
  \/ \E c \in Calls : HydrateTickWindow(c)
  \/ \E c \in Calls : HydrateAllLazyTicks(c)
  \/ \E c \in Calls : ReadSettles(c)

Next ==
  \/ SessionNext
  \/ \E d \in Docs : OpenLazy(d)
  \/ \E d \in Docs : OpenEager(d)
  \/ \E tick \in AllTicks, follow \in BOOLEAN : AppendLiveEvents(tick, follow)

Spec == Init /\ [][Next]_vars

\* One replay, just opened lazily, and never replaced.
Opened ==
  /\ \E d \in Docs :
       LET first == FirstTick(Index[d])
       IN  /\ replay = <<[doc |-> d, ticks |-> {first}]>>
           /\ lazy = [kind |-> Kind[d], index |-> d, source |-> d,
                      loaded |-> {first}, pending |-> {}]
           /\ selectedTick = first
  /\ flight = [c \in {} |-> NoDoc]

SessionSpec == Opened /\ [][SessionNext]_vars

\* A promise of File.slice().text() or fetch() settles, and the microtask that
\* resumes the call runs; nothing makes the user do anything.
FairSessionSpec == SessionSpec /\ \A c \in Calls : WF_vars(ReadSettles(c))

-----------------------------------------------------------------------------
(* Safety *)

\* A tick marked pending is being read by some call that will unmark it, so no
\* later request skips it for ever (the pendingTicks bookkeeping of both
\* ensureLazy*TicksLoaded).  A replay that became a text replay is excluded:
\* see NothingStuck.
PendingOwned ==
  lazy.kind \in {"file", "url"} =>
    lazy.pending \subseteq
      UNION {flight[c].batch : c \in {x \in DOMAIN flight : SameKind(flight[x])}}

\* With no call in flight no tick is left marked pending: what is marked is
\* skipped by every later request, "hydrate all" and the export included.
NothingStuck == DOMAIN flight = {} => lazy.pending = {}

\* What the ReplayStore holds is exactly the events of the ticks marked loaded,
\* of the log on screen: none missing, none from another log.
ShownIsLoaded == lazy.kind # "none" => Shown = {lazy.index} \X lazy.loaded

\* No event is appended to the ReplayStore twice; eventCount, the run summary
\* and the exported events.jsonl count what was appended.
NoDuplicates ==
  \A i, j \in DOMAIN replay :
    i # j /\ replay[i].doc = replay[j].doc => replay[i].ticks \cap replay[j].ticks = {}

\* getNodeStatusAt(t) for a node with a status at every tick: it walks the
\* points of the node from the last one appended to the first with a tick <= t.
StatusShownAt(t) ==
  LET upTo(i) == {u \in replay[i].ticks : u <= t}
      last == CHOOSE i \in DOMAIN replay :
                upTo(i) # {} /\ \A j \in DOMAIN replay : upTo(j) # {} => j <= i
  IN  CHOOSE u \in upTo(last) : \A v \in upTo(last) : v <= u

\* At a loaded tick the tree shows the status reported at that very tick, and
\* not that of an earlier tick which happened to be appended later.
StatusIsOfTheTick ==
  lazy.kind # "none" => \A t \in lazy.loaded : StatusShownAt(t) = t

-----------------------------------------------------------------------------
(* Inductive strengthenings *)

\* replay.maxTick is the greatest tick ever appended, so there is one.
HasMaxTick(chunks) ==
  chunks # <<>> =>
    \E t \in ReplayTicks(chunks) : \A u \in ReplayTicks(chunks) : u <= t

TypeInv == TypeOK /\ HasMaxTick(replay)

\* The lazy replay reads one log by its own sidecar, and every call that can
\* still write to it was started on that very log.
OneLog ==
  /\ lazy.kind # "none" =>
       /\ lazy.source = lazy.index
       /\ lazy.loaded \subseteq Ticks(lazy.index)
  /\ \A c \in DOMAIN flight :
       /\ flight[c].source = flight[c].index
       /\ flight[c].batch \cup flight[c].rest \subseteq Ticks(flight[c].index)
       /\ SameKind(flight[c]) => flight[c].index = lazy.index

ShownInv == TypeInv /\ OneLog /\ ShownIsLoaded

\* At most one log of each kind can be opened.
OneLogPerKind == \A d, e \in Docs : Kind[d] = Kind[e] => d = e

\* Whatever is asked for fits one batch.
OneBatch == \A d \in Docs : \A S \in SUBSET Ticks(d) : NextBatch(Index[d], S) = S

\* The batches being read are marked pending, not loaded, and do not overlap.
DisjointReads ==
  \A c \in DOMAIN flight :
    /\ flight[c].rest = {}
    /\ SameKind(flight[c]) => flight[c].batch \subseteq lazy.pending \ lazy.loaded
    /\ \A x \in DOMAIN flight :
         x # c /\ SameKind(flight[c]) /\ SameKind(flight[x])
           => flight[c].batch \cap flight[x].batch = {}

NoDuplicatesInv == ShownInv /\ DisjointReads /\ NoDuplicates

-----------------------------------------------------------------------------
(* Liveness *)

\* A tick some call in flight has still to read.
Requested == UNION {flight[c].batch \cup flight[c].rest : c \in DOMAIN flight}

\* Once every tick of a file log has been asked for, every tick arrives: a
\* request skips the ticks other calls are reading, and relies on those to
\* arrive.  A log behind a URL is excluded: see NothingStuck.
AllAskedForArrives ==
  (lazy.kind = "file" /\ Ticks(lazy.index) \subseteq lazy.loaded \cup Requested)
    ~> (Ticks(lazy.index) \subseteq lazy.loaded)

-----------------------------------------------------------------------------
(* Refinement *)

View == INSTANCE ReplayView
          WITH doc <- lazy.index,
               shown <- IF lazy.kind = "none" THEN {} ELSE Shown

\* Hydration is invisible but for more of the same log being available: the
\* asynchronous machinery implements ReplayView.
ImplementsView == View!ViewSpec
=============================================================================
