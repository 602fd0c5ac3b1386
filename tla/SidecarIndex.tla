---------------------------- MODULE SidecarIndex ----------------------------
(***************************************************************************)
(* The tick sidecar index (packages/replay/src/sidecar/tick-index.ts) and   *)
(* the selections the Studio store makes from it (apps/studio/src/store.ts).*)
(*                                                                          *)
(* tick_entries is an array ordered by tick; an index is modelled here as   *)
(* the function from the ticks it lists to the byte range of each one.      *)
(* A log has one event per tick: what the store does depends on the tick of *)
(* an event only.  The line numbers and the sequence numbers of an entry    *)
(* serve messages and are left out.                                         *)
(***************************************************************************)
EXTENDS Integers, FiniteSets

CONSTANTS BatchTickLimit,  \* LAZY_HYDRATION_BATCH_TICK_LIMIT
          BatchByteLimit   \* LAZY_HYDRATION_BATCH_BYTE_LIMIT

\* TickIndexEntry: where the bytes of a tick start and end.
Entry == [start : Nat, end : Nat]

(***************************************************************************)
(* What parseTickSidecarIndex accepts: ranges that do not run backwards,    *)
(* ticks in increasing order (a function is), ranges that do not overlap.   *)
(***************************************************************************)
WellFormedIndex(ix) ==
  /\ DOMAIN ix \subseteq Nat
  /\ ix \in [DOMAIN ix -> Entry]
  /\ \A t \in DOMAIN ix : ix[t].start <= ix[t].end
  /\ \A t, u \in DOMAIN ix : t < u => ix[t].end <= ix[u].start

\* The first and the last entry of tick_entries, which a lazy load requires.
HasFirstAndLast(ix) ==
  \E first, last \in DOMAIN ix : \A t \in DOMAIN ix : first <= t /\ t <= last

FirstTick(ix) == CHOOSE t \in DOMAIN ix : \A u \in DOMAIN ix : t <= u
MaxTick(ix)   == CHOOSE t \in DOMAIN ix : \A u \in DOMAIN ix : u <= t

-----------------------------------------------------------------------------

\* Faulty variant: ticks that are loaded are read again.
ticksToHydrateAgain(ix, loaded, pending, startTick, endTick) ==
  {t \in DOMAIN ix \ pending : startTick <= t /\ t <= endTick}

\* The ticks of a range that are neither loaded nor being loaded.
lazyTicksToHydrateInRange(ix, loaded, pending, startTick, endTick) ==
  {t \in DOMAIN ix \ (loaded \cup pending) : startTick <= t /\ t <= endTick}

\* Faulty variant: the ticks before the target are skipped.
ticksToHydrateFrom(ix, loaded, pending, target) ==
  lazyTicksToHydrateInRange(ix, loaded, pending, target, target)

\* All the ticks up to the target: node statuses depend on the earlier ones.
lazyTicksToHydrate(ix, loaded, pending, target) ==
  lazyTicksToHydrateInRange(ix, loaded, pending, 0, target)

(***************************************************************************)
(* buildLazyHydrationBatches walks the entries in order and closes a batch  *)
(* when one more entry would exceed the tick limit or stretch the byte      *)
(* range beyond the byte limit; the first entry always enters.  The batches *)
(* are consumed from the front, so the batch that comes next is the longest *)
(* prefix of the remaining ticks within both limits.                        *)
(***************************************************************************)
NextBatch(ix, ticks) ==
  {t \in ticks :
     /\ Cardinality({u \in ticks : u <= t}) <= BatchTickLimit
     /\ \A u \in ticks : u < t => ix[t].end - ix[u].start <= BatchByteLimit}

(***************************************************************************)
(* The ticks of a batch found in the bytes read for it: one slice from the  *)
(* start of its first entry to the end of its last one, where the offsets   *)
(* come from index ix and the bytes from a log whose own index is src.      *)
(* Events of ticks outside the batch are filtered out.                      *)
(***************************************************************************)
TicksInSlice(src, ix, batch) ==
  {t \in batch \cap DOMAIN src :
     \E a, b \in batch : ix[a].start <= src[t].start /\ src[t].end <= ix[b].end}

(***************************************************************************)
(* extractTickEventsBySidecar, for each of the ticks: the events of the     *)
(* tick found in the bytes its own entry names; nothing without an entry.   *)
(***************************************************************************)
TicksExtracted(src, ix, ticks) ==
  {t \in ticks \cap DOMAIN ix \cap DOMAIN src :
     ix[t].start <= src[t].start /\ src[t].end <= ix[t].end}
=============================================================================
