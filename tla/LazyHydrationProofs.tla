------------------------ MODULE LazyHydrationProofs ------------------------
(***************************************************************************)
(* What holds of LazyHydration for every set of logs, every sidecar a load  *)
(* accepts, every batch limit and any number of overlapping calls.          *)
(***************************************************************************)
EXTENDS HydrateSession, NaturalLemmas, FiniteSetTheorems

-----------------------------------------------------------------------------
(* Sidecars, slices and the chunks of the store *)

\* A well-formed index lists natural numbers and has a first and a last tick.
LEMMA IndexFacts ==
  ASSUME NEW d \in Docs
  PROVE  /\ Ticks(d) \subseteq Nat
         /\ FirstTick(Index[d]) \in Ticks(d)
         /\ MaxTick(Index[d]) \in Ticks(d)
         /\ \A t \in Ticks(d) : t <= MaxTick(Index[d])
         /\ \A t \in Ticks(d) : Index[d][t] \in Entry
<1>1. WellFormedIndex(Index[d]) /\ HasFirstAndLast(Index[d])
  BY DocsAssumption
<1>2. Ticks(d) \subseteq Nat /\ \A t \in Ticks(d) : Index[d][t] \in Entry
  BY <1>1 DEF WellFormedIndex, Ticks
<1>3. PICK first \in Ticks(d), last \in Ticks(d) :
        \A t \in Ticks(d) : first <= t /\ t <= last
  BY <1>1 DEF HasFirstAndLast, Ticks
<1>4. FirstTick(Index[d]) \in Ticks(d)
  BY <1>3 DEF FirstTick, Ticks
<1>5. /\ MaxTick(Index[d]) \in Ticks(d)
      /\ \A t \in Ticks(d) : t <= MaxTick(Index[d])
  BY <1>3 DEF MaxTick, Ticks
<1> QED
  BY <1>2, <1>4, <1>5

\* A slice of a log cut by its own index holds every tick of the batch.
LEMMA SliceIsComplete ==
  ASSUME NEW d \in Docs, NEW batch \in SUBSET Ticks(d)
  PROVE  TicksInSlice(Index[d], Index[d], batch) = batch
<1>1. \A t \in batch : Index[d][t].start \in Nat /\ Index[d][t].end \in Nat
  BY IndexFacts DEF Entry
<1>2. \A t \in batch : Index[d][t].start <= Index[d][t].start
                       /\ Index[d][t].end <= Index[d][t].end
  BY <1>1
<1> QED
  BY <1>2 DEF TicksInSlice, Ticks

\* So does what is extracted tick by tick from the whole log.
LEMMA ExtractionIsComplete ==
  ASSUME NEW d \in Docs, NEW ticks \in SUBSET Ticks(d)
  PROVE  TicksExtracted(Index[d], Index[d], ticks) = ticks
<1>1. \A t \in ticks : Index[d][t].start \in Nat /\ Index[d][t].end \in Nat
  BY IndexFacts DEF Entry
<1>2. \A t \in ticks : Index[d][t].start <= Index[d][t].start
                       /\ Index[d][t].end <= Index[d][t].end
  BY <1>1
<1> QED
  BY <1>2 DEF TicksExtracted, Ticks

\* Appending a chunk adds its ticks to those of the store.
LEMMA AppendChunk ==
  ASSUME NEW s \in Seq(Chunk), NEW ch \in Chunk
  PROVE  /\ Append(s, ch) \in Seq(Chunk)
         /\ Append(s, ch) # <<>>
         /\ DOMAIN Append(s, ch) = 1 .. (Len(s) + 1)
         /\ \A i \in DOMAIN s : i \in DOMAIN Append(s, ch) /\ Append(s, ch)[i] = s[i]
         /\ Append(s, ch)[Len(s) + 1] = ch
         /\ \A i \in DOMAIN Append(s, ch) : i \in DOMAIN s \/ i = Len(s) + 1
         /\ ReplayTicks(Append(s, ch)) = ReplayTicks(s) \cup ch.ticks
<1>1. /\ Append(s, ch) \in Seq(Chunk)
      /\ Append(s, ch) # <<>>
      /\ DOMAIN Append(s, ch) = 1 .. (Len(s) + 1)
      /\ DOMAIN s = 1 .. Len(s)
      /\ \A i \in DOMAIN s : Append(s, ch)[i] = s[i]
      /\ Append(s, ch)[Len(s) + 1] = ch
      /\ Len(s) \in Nat
  OBVIOUS
<1>2. /\ \A i \in DOMAIN s : i \in DOMAIN Append(s, ch)
      /\ \A i \in DOMAIN Append(s, ch) : i \in DOMAIN s \/ i = Len(s) + 1
      /\ Len(s) + 1 \in DOMAIN Append(s, ch)
  BY <1>1
<1>3. ReplayTicks(Append(s, ch)) = ReplayTicks(s) \cup ch.ticks
  <2>1. ASSUME NEW t PROVE t \in ReplayTicks(Append(s, ch)) <=> t \in ReplayTicks(s) \cup ch.ticks
    BY <1>1, <1>2, Zenon DEF ReplayTicks
  <2> QED
    BY <2>1
<1> QED
  BY <1>1, <1>2, <1>3, Zenon

\* Every chunk of the store holds natural numbers.
LEMMA ReplayTicksAreNatural ==
  ASSUME NEW s \in Seq(Chunk)
  PROVE  ReplayTicks(s) \subseteq Nat
<1>1. \A i \in DOMAIN s : s[i] \in Chunk
  OBVIOUS
<1>2. \A i \in DOMAIN s : s[i].ticks \in SUBSET Nat
  BY <1>1 DEF Chunk
<1> QED
  BY <1>2 DEF ReplayTicks

\* replay.maxTick, when the store has a greatest tick, is a natural number.
LEMMA ReplayMaxTickIsNatural ==
  ASSUME NEW s \in Seq(Chunk), HasMaxTick(s)
  PROVE  ReplayMaxTick(s) \in Nat
<1>1. CASE ReplayTicks(s) = {}
  BY <1>1 DEF ReplayMaxTick
<1>2. CASE ReplayTicks(s) # {}
  <2>1. s # <<>>
    BY <1>2 DEF ReplayTicks
  <2>2. \E t \in ReplayTicks(s) : \A u \in ReplayTicks(s) : u <= t
    BY <2>1 DEF HasMaxTick
  <2>3. ReplayMaxTick(s) \in ReplayTicks(s)
    BY <1>2, <2>2 DEF ReplayMaxTick
  <2> QED
    BY <2>3, ReplayTicksAreNatural
<1> QED
  BY <1>1, <1>2

\* A store with a greatest tick has one after a nonempty bounded append.
LEMMA AppendHasMaxTick ==
  ASSUME NEW s \in Seq(Chunk), HasMaxTick(s), NEW ch \in Chunk, ch.ticks # {},
         NEW n \in Nat, \A t \in ch.ticks : t <= n
  PROVE  HasMaxTick(Append(s, ch))
<1> DEFINE T == ReplayTicks(s) \cup ch.ticks
<1>1. ReplayTicks(Append(s, ch)) = T
  BY AppendChunk
<1>2. ReplayTicks(s) \subseteq Nat /\ ch.ticks \subseteq Nat
  BY ReplayTicksAreNatural DEF Chunk
<1>3. \E m \in Nat : \A t \in ReplayTicks(s) : t <= m
  <2>1. CASE s = <<>>
    BY <2>1 DEF ReplayTicks
  <2>2. CASE s # <<>>
    BY <1>2, <2>2 DEF HasMaxTick
  <2> QED
    BY <2>1, <2>2
<1>4. PICK m \in Nat : \A t \in ReplayTicks(s) : t <= m
  BY <1>3
<1>5. T \in SUBSET Nat /\ T # {} /\ m + n \in Nat /\ \A t \in T : t <= m + n
  <2>1. \A t \in ReplayTicks(s) : t <= m + n
    BY <1>2, <1>4
  <2>2. \A t \in ch.ticks : t <= m + n
    BY <1>2
  <2> QED
    BY <1>2, <2>1, <2>2
<1>6. \E t \in T : \A u \in T : u <= t
  <2> HIDE DEF T
  <2> QED
    BY <1>5, GreatestNatural
<1> QED
  BY <1>1, <1>6 DEF HasMaxTick

\* One chunk of ticks of a log, and nothing else, is in a store.
LEMMA SingleChunk ==
  ASSUME NEW d \in Docs, NEW ticks \in SUBSET Ticks(d), ticks # {}
  PROVE  /\ <<[doc |-> d, ticks |-> ticks]>> \in Seq(Chunk)
         /\ HasMaxTick(<<[doc |-> d, ticks |-> ticks]>>)
         /\ ShownBy(<<[doc |-> d, ticks |-> ticks]>>) = {d} \X ticks
<1> DEFINE ch == [doc |-> d, ticks |-> ticks]
<1>1. ch \in Chunk /\ ch.ticks = ticks /\ ch.doc = d
  BY IndexFacts DEF Chunk
<1> HIDE DEF ch
<1>2. /\ <<ch>> \in Seq(Chunk)
      /\ <<ch>> = Append(<<>>, ch)
      /\ DOMAIN <<ch>> = {1}
      /\ <<ch>>[1] = ch
      /\ << >> \in Seq(Chunk)
  BY <1>1
<1>3. HasMaxTick(<< >>)
  BY DEF HasMaxTick
<1>4. HasMaxTick(<<ch>>)
  <2>1. MaxTick(Index[d]) \in Nat /\ \A t \in ch.ticks : t <= MaxTick(Index[d])
    BY <1>1, IndexFacts
  <2> QED
    BY <1>1, <1>2, <1>3, <2>1, AppendHasMaxTick
<1>5. ShownBy(<<ch>>) = {d} \X ticks
  BY <1>1, <1>2 DEF ShownBy
<1> QED
  BY <1>2, <1>4, <1>5 DEF ch

\* What appending some ticks of a log leaves in the store.
LEMMA AppendedFacts ==
  ASSUME TypeInv, NEW d \in Docs, NEW ticks \in SUBSET Ticks(d)
  PROVE  /\ Appended(d, ticks) \in Seq(Chunk)
         /\ HasMaxTick(Appended(d, ticks))
         /\ ShownBy(Appended(d, ticks)) = Shown \cup ({d} \X ticks)
<1> DEFINE ch == [doc |-> d, ticks |-> ticks]
<1>1. replay \in Seq(Chunk) /\ HasMaxTick(replay)
  BY DEF TypeInv, TypeOK
<1>2. ch \in Chunk /\ ch.ticks = ticks /\ ch.doc = d
  BY IndexFacts DEF Chunk
<1>3. CASE ticks = {}
  <2>1. Appended(d, ticks) = replay
    BY <1>3 DEF Appended
  <2> QED
    BY <1>1, <1>3, <2>1 DEF Shown
<1>4. CASE ticks # {}
  <2>1. Appended(d, ticks) = Append(replay, ch)
    BY <1>4 DEF Appended
  <2> HIDE DEF ch
  <2>2. MaxTick(Index[d]) \in Nat /\ \A t \in ch.ticks : t <= MaxTick(Index[d])
    BY <1>2, IndexFacts
  <2>3. HasMaxTick(Append(replay, ch))
    BY <1>1, <1>2, <1>4, <2>2, AppendHasMaxTick
  <2>4. ShownBy(Append(replay, ch)) = ShownBy(replay) \cup ({ch.doc} \X ch.ticks)
    <3>1. /\ \A i \in DOMAIN replay : i \in DOMAIN Append(replay, ch)
                                       /\ Append(replay, ch)[i] = replay[i]
          /\ Len(replay) + 1 \in DOMAIN Append(replay, ch)
          /\ Append(replay, ch)[Len(replay) + 1] = ch
          /\ \A i \in DOMAIN Append(replay, ch) : i \in DOMAIN replay \/ i = Len(replay) + 1
      BY <1>1, <1>2, AppendChunk
    <3>2. ASSUME NEW p
          PROVE  p \in ShownBy(Append(replay, ch))
                   <=> p \in ShownBy(replay) \cup ({ch.doc} \X ch.ticks)
      BY <3>1, Zenon DEF ShownBy
    <3> QED
      BY <3>2, Zenon
  <2> QED
    BY <1>1, <1>2, <2>1, <2>3, <2>4, AppendChunk DEF Shown
<1> QED
  BY <1>3, <1>4

-----------------------------------------------------------------------------
(* Types *)

\* The clamped tick is a natural number.
LEMMA BoundedIsNatural ==
  ASSUME TypeInv, NEW tick \in Int
  PROVE  Bounded(tick) \in Nat
<1>1. ReplayMaxTick(replay) \in Nat
  BY ReplayMaxTickIsNatural DEF TypeInv, TypeOK
<1>2. lazy.kind # "none" => lazy.index \in Docs
  BY DEF TypeInv, TypeOK, LazyOK, LazyState
<1>3. lazy.kind # "none" => MaxTick(Index[lazy.index]) \in Nat
  BY <1>2, IndexFacts
<1> QED
  BY <1>1, <1>3 DEF Bounded

\* The for loop leaves well-typed state, whichever branch it takes.
LEMMA NextIterationType ==
  ASSUME FlightOK, NEW c \in Calls, NEW d \in Docs, Kind[d] # "text",
         NEW ticks \in SUBSET Nat, NEW L, LazyOK(L), NextIteration(c, d, ticks, L)
  PROVE  LazyOK(lazy') /\ FlightOK'
<1>1. CASE ticks # {} /\ L.kind = Kind[d]
  <2> DEFINE batch == NextBatch(Index[d], ticks)
             f == [index |-> d, source |-> L.source, batch |-> batch, rest |-> ticks \ batch]
  <2>1. batch \in SUBSET Nat
    BY DEF NextBatch
  <2>2. L.source \in Docs
    BY <1>1, DocsAssumption DEF LazyOK, LazyState
  <2>3. /\ lazy' = [L EXCEPT !.pending = @ \cup batch]
        /\ flight' = [x \in DOMAIN flight \cup {c} |-> IF x = c THEN f ELSE flight[x]]
    BY <1>1 DEF NextIteration
  <2>4. f \in Flight /\ f.index = d
    BY <2>1, <2>2 DEF Flight
  <2> HIDE DEF batch, f
  <2>5. LazyOK(lazy')
    BY <2>1, <2>3 DEF LazyOK, LazyState
  <2>6. FlightOK'
    BY <2>3, <2>4 DEF FlightOK
  <2> QED
    BY <2>5, <2>6
<1>2. CASE ~ (ticks # {} /\ L.kind = Kind[d])
  <2>1. lazy' = L /\ flight' = [x \in DOMAIN flight \ {c} |-> flight[x]]
    BY <1>2 DEF NextIteration
  <2> QED
    BY <2>1 DEF FlightOK
<1> QED
  BY <1>1, <1>2

\* A hydration request leaves well-typed state.
LEMMA HydrateType ==
  ASSUME TypeInv, NEW c \in Calls, NEW ticks \in SUBSET Nat, lazy.kind # "none",
         Hydrate(c, ticks)
  PROVE  replay' \in Seq(Chunk) /\ HasMaxTick(replay') /\ LazyOK(lazy') /\ FlightOK'
<1>1. /\ replay \in Seq(Chunk) /\ HasMaxTick(replay) /\ LazyOK(lazy) /\ FlightOK
      /\ lazy.index \in Docs /\ lazy.source \in Docs
  BY DEF TypeInv, TypeOK, LazyOK, LazyState
<1>2. CASE lazy.kind = "text"
  <2> DEFINE got == TicksExtracted(Index[lazy.source], Index[lazy.index], ticks)
  <2>1. /\ replay' = Appended(lazy.source, got)
        /\ lazy' = [lazy EXCEPT !.loaded = @ \cup ticks]
        /\ flight' = flight
    BY <1>2 DEF Hydrate, HydrateLazyTextTicks
  <2>2. got \in SUBSET Ticks(lazy.source)
    BY DEF TicksExtracted, Ticks
  <2>3. LazyOK(lazy')
    BY <1>1, <2>1 DEF LazyOK, LazyState
  <2>4. FlightOK'
    BY <1>1, <2>1 DEF FlightOK
  <2> QED
    BY <1>1, <2>1, <2>2, <2>3, <2>4, AppendedFacts
<1>3. CASE lazy.kind # "text"
  <2>1. NextIteration(c, lazy.index, ticks, lazy) /\ replay' = replay
    BY <1>3 DEF Hydrate, EnsureTicksLoaded
  <2>2. CASE Kind[lazy.index] # "text"
    BY <1>1, <2>1, <2>2, NextIterationType
  <2>3. CASE Kind[lazy.index] = "text"
    <3>1. lazy' = lazy /\ flight' = [x \in DOMAIN flight \ {c} |-> flight[x]]
      BY <1>3, <2>1, <2>3 DEF NextIteration
    <3> QED
      BY <1>1, <2>1, <3>1 DEF FlightOK
  <2> QED
    BY <2>2, <2>3
<1> QED
  BY <1>2, <1>3

\* A settled read leaves well-typed state.
LEMMA ReadSettlesType ==
  ASSUME TypeInv, NEW c \in Calls, ReadSettles(c)
  PROVE  TypeInv'
<1> DEFINE f == flight[c]
<1>1. /\ replay \in Seq(Chunk) /\ HasMaxTick(replay) /\ LazyOK(lazy) /\ FlightOK
      /\ selectedTick \in Nat /\ c \in DOMAIN flight
  BY DEF TypeInv, TypeOK, ReadSettles
<1>2. /\ f \in Flight /\ f.index \in Docs /\ f.source \in Docs
      /\ f.batch \in SUBSET Nat /\ f.rest \in SUBSET Nat /\ Kind[f.index] # "text"
  BY <1>1 DEF FlightOK, Flight
<1> HIDE DEF f
<1>3. CASE ReadArrives(c)
  <2> DEFINE L == [lazy EXCEPT !.pending = @ \ f.batch, !.loaded = @ \cup f.batch]
             got == TicksInSlice(Index[f.source], Index[f.index], f.batch)
  <2>1. /\ replay' = replay \/ replay' = Appended(f.source, got)
        /\ NextIteration(c, f.index, f.rest, IF SameKind(f) THEN L ELSE lazy)
        /\ selectedTick' = selectedTick
    BY <1>3 DEF ReadArrives, f
  <2>2. LazyOK(L)
    BY <1>1, <1>2 DEF LazyOK, LazyState
  <2>3. got \in SUBSET Ticks(f.source)
    BY DEF TicksInSlice, Ticks
  <2> HIDE DEF L, got
  <2>4. LazyOK(lazy') /\ FlightOK'
    BY <1>1, <1>2, <2>1, <2>2, NextIterationType
  <2>5. replay' \in Seq(Chunk) /\ HasMaxTick(replay')
    BY <1>1, <1>2, <2>1, <2>3, AppendedFacts
  <2> QED
    BY <1>1, <2>1, <2>4, <2>5 DEF TypeInv, TypeOK
<1>4. CASE ReadFails(c)
  <2> DEFINE L == [lazy EXCEPT !.pending = @ \ f.batch]
  <2>1. /\ NextIteration(c, f.index, f.rest, IF SameKind(f) THEN L ELSE lazy)
        /\ replay' = replay /\ selectedTick' = selectedTick
    BY <1>4 DEF ReadFails, f
  <2>2. LazyOK(L)
    BY <1>1, <1>2 DEF LazyOK, LazyState
  <2> HIDE DEF L
  <2>3. LazyOK(lazy') /\ FlightOK'
    BY <1>1, <1>2, <2>1, <2>2, NextIterationType
  <2> QED
    BY <1>1, <2>1, <2>3 DEF TypeInv, TypeOK
<1>5. CASE FullTextArrives(c)
  <2> DEFINE remaining == f.batch \cup f.rest
             got == TicksExtracted(Index[f.source], Index[lazy.index], remaining)
  <2>1. /\ flight' = [x \in DOMAIN flight \ {c} |-> flight[x]]
        /\ selectedTick' = selectedTick
    BY <1>5 DEF FullTextArrives
  <2>2. FlightOK'
    BY <1>1, <2>1 DEF FlightOK
  <2>3. CASE lazy.kind = "url"
    <3>1. /\ replay' = Appended(f.source, got)
          /\ lazy' = [kind |-> "text", index |-> lazy.index, source |-> f.source,
                      loaded |-> lazy.loaded \cup remaining,
                      pending |-> lazy.pending \ remaining]
      BY <1>5, <2>3 DEF FullTextArrives, f
    <3>2. got \in SUBSET Ticks(f.source)
      BY DEF TicksExtracted, Ticks
    <3>3. LazyOK(lazy')
      BY <1>1, <1>2, <2>3, <3>1, DocsAssumption DEF LazyOK, LazyState
    <3> QED
      BY <1>1, <1>2, <2>1, <2>2, <3>1, <3>2, <3>3, AppendedFacts DEF TypeInv, TypeOK
  <2>4. CASE lazy.kind # "url"
    <3>1. replay' = replay /\ lazy' = lazy
      BY <1>5, <2>4 DEF FullTextArrives
    <3> QED
      BY <1>1, <2>1, <2>2, <3>1 DEF TypeInv, TypeOK
  <2> QED
    BY <2>3, <2>4
<1> QED
  BY <1>3, <1>4, <1>5 DEF ReadSettles

\* The three requests of the user leave well-typed state.
LEMMA RequestType ==
  ASSUME TypeInv, NEW c \in Calls,
         \/ \E tick \in SeekInputs : SetSelectedTick(c, tick)
         \/ HydrateTickWindow(c)
         \/ HydrateAllLazyTicks(c)
  PROVE  TypeInv'
<1>1. /\ replay \in Seq(Chunk) /\ HasMaxTick(replay) /\ LazyOK(lazy) /\ FlightOK
      /\ selectedTick \in Nat
  BY DEF TypeInv, TypeOK
<1>2. lazy.kind # "none" => lazy.index \in Docs
  BY <1>1 DEF LazyOK, LazyState
<1>3. \A loaded, pending, lo, hi :
        lazy.kind # "none" =>
          lazyTicksToHydrateInRange(Index[lazy.index], loaded, pending, lo, hi) \in SUBSET Nat
  BY <1>2, IndexFacts DEF lazyTicksToHydrateInRange, Ticks
<1>4. ASSUME NEW tick \in SeekInputs, SetSelectedTick(c, tick) PROVE TypeInv'
  <2>1. selectedTick' \in Nat
    BY <1>4, BoundedIsNatural, LimitsAssumption DEF SetSelectedTick
  <2>2. CASE lazy.kind = "none" \/ selectedTick' \in lazy.loaded
    <3>1. UNCHANGED <<replay, lazy, flight>>
      BY <1>4, <2>2 DEF SetSelectedTick
    <3> QED
      BY <1>1, <2>1, <3>1 DEF TypeInv, TypeOK, FlightOK
  <2>3. CASE ~ (lazy.kind = "none" \/ selectedTick' \in lazy.loaded)
    <3>1. PICK hi : Hydrate(c, lazyTicksToHydrate(Index[lazy.index], lazy.loaded,
                                                   lazy.pending, hi))
      BY <1>4, <2>3 DEF SetSelectedTick
    <3> QED
      BY <1>3, <2>1, <2>3, <3>1, HydrateType DEF lazyTicksToHydrate, TypeInv, TypeOK
  <2> QED
    BY <2>2, <2>3
<1>5. ASSUME HydrateTickWindow(c) PROVE TypeInv'
  <2>1. PICK lo, hi : Hydrate(c, lazyTicksToHydrateInRange(Index[lazy.index], lazy.loaded,
                                                            lazy.pending, lo, hi))
    BY <1>5 DEF HydrateTickWindow
  <2>2. lazy.kind # "none" /\ selectedTick' = selectedTick
    BY <1>5 DEF HydrateTickWindow
  <2> QED
    BY <1>1, <1>3, <2>1, <2>2, HydrateType DEF TypeInv, TypeOK
<1>6. ASSUME HydrateAllLazyTicks(c) PROVE TypeInv'
  <2>1. PICK hi : Hydrate(c, lazyTicksToHydrate(Index[lazy.index], lazy.loaded,
                                                 lazy.pending, hi))
    BY <1>6 DEF HydrateAllLazyTicks
  <2>2. lazy.kind # "none" /\ selectedTick' = selectedTick
    BY <1>6 DEF HydrateAllLazyTicks
  <2> QED
    BY <1>1, <1>3, <2>1, <2>2, HydrateType DEF lazyTicksToHydrate, TypeInv, TypeOK
<1> QED
  BY <1>4, <1>5, <1>6

\* Both ways of opening a replay, and a live event, leave well-typed state.
LEMMA SwitchType ==
  ASSUME TypeInv,
         \/ \E d \in Docs : OpenLazy(d)
         \/ \E d \in Docs : OpenEager(d)
         \/ \E tick \in AllTicks, follow \in BOOLEAN : AppendLiveEvents(tick, follow)
  PROVE  TypeInv'
<1>1. /\ replay \in Seq(Chunk) /\ HasMaxTick(replay) /\ LazyOK(lazy) /\ FlightOK
      /\ selectedTick \in Nat
  BY DEF TypeInv, TypeOK
<1>2. LazyOK(NotLazy)
  BY DEF LazyOK, LazyState, NotLazy
<1>3. flight' = flight => FlightOK'
  BY <1>1 DEF FlightOK
<1>4. ASSUME NEW d \in Docs, OpenLazy(d) PROVE TypeInv'
  <2> DEFINE first == FirstTick(Index[d])
  <2>1. first \in Ticks(d) /\ first \in Nat
    BY IndexFacts
  <2>2. /\ replay' = <<[doc |-> d, ticks |-> {first}]>>
        /\ lazy' = [kind |-> Kind[d], index |-> d, source |-> d,
                    loaded |-> {first}, pending |-> {}]
        /\ selectedTick' = first /\ flight' = flight
    BY <1>4 DEF OpenLazy
  <2> HIDE DEF first
  <2>3. LazyOK(lazy')
    BY <2>1, <2>2, DocsAssumption DEF LazyOK, LazyState
  <2>4. replay' \in Seq(Chunk) /\ HasMaxTick(replay')
    BY <2>1, <2>2, SingleChunk
  <2> QED
    BY <1>3, <2>1, <2>2, <2>3, <2>4 DEF TypeInv, TypeOK
<1>5. ASSUME NEW d \in Docs, OpenEager(d) PROVE TypeInv'
  <2>1. MaxTick(Index[d]) \in Nat /\ Ticks(d) # {}
    BY IndexFacts
  <2>2. replay' \in Seq(Chunk) /\ HasMaxTick(replay')
    BY <1>5, <2>1, SingleChunk DEF OpenEager
  <2> QED
    BY <1>2, <1>3, <1>5, <2>1, <2>2 DEF OpenEager, TypeInv, TypeOK
<1>6. ASSUME NEW tick \in AllTicks, NEW follow \in BOOLEAN, AppendLiveEvents(tick, follow)
      PROVE  TypeInv'
  <2> DEFINE ch == [doc |-> Live, ticks |-> {tick}]
  <2>1. tick \in Nat
    BY IndexFacts DEF AllTicks
  <2>2. /\ replay' = Append(replay, ch)
        /\ selectedTick' = ReplayMaxTick(replay') \/ selectedTick' = selectedTick
        /\ lazy' = NotLazy /\ flight' = flight
    BY <1>6 DEF AppendLiveEvents
  <2>3. ch \in Chunk /\ ch.ticks # {} /\ \A t \in ch.ticks : t <= tick
    BY <2>1 DEF Chunk
  <2> HIDE DEF ch
  <2>4. replay' \in Seq(Chunk) /\ HasMaxTick(replay')
    BY <1>1, <2>1, <2>2, <2>3, AppendChunk, AppendHasMaxTick
  <2>5. selectedTick' \in Nat
    BY <1>1, <2>2, <2>4, ReplayMaxTickIsNatural
  <2> QED
    BY <1>2, <1>3, <2>2, <2>4, <2>5 DEF TypeInv, TypeOK
<1> QED
  BY <1>4, <1>5, <1>6

LEMMA TypeStep ==
  ASSUME TypeInv, [Next]_vars
  PROVE  TypeInv'
<1>1. CASE UNCHANGED vars
  BY <1>1 DEF vars, TypeInv, TypeOK, FlightOK
<1>2. CASE SessionNext
  BY <1>2, RequestType, ReadSettlesType DEF SessionNext
<1>3. CASE Next /\ ~ SessionNext
  BY <1>3, SwitchType DEF Next
<1> QED
  BY <1>1, <1>2, <1>3

LEMMA TypeInit ==
  ASSUME Init
  PROVE  TypeInv
BY DEF Init, TypeInv, TypeOK, LazyOK, LazyState, NotLazy, FlightOK, HasMaxTick

\* The state keeps its types whatever is opened, read, lost or interleaved.  It
\* needs that the store has a greatest tick whenever it holds anything, for
\* that is what the clamping of the selected tick computes with.
THEOREM TypeCorrect == Spec => []TypeOK
<1>1. TypeInv /\ [Next]_vars => TypeInv'
  BY TypeStep
<1>2. TypeInv => TypeOK
  BY DEF TypeInv
<1> QED
  BY <1>1, <1>2, TypeInit, PTL DEF Spec

-----------------------------------------------------------------------------
(* Every pending tick is being read *)

\* The ticks being read, for the source on screen, by calls other than c.
ReadByOthers(c) ==
  UNION {flight[x].batch : x \in {y \in DOMAIN flight \ {c} : SameKind(flight[y])}}

\* The for loop marks pending what it issues a read for.
LEMMA NextIterationPending ==
  ASSUME NEW c \in Calls, NEW d \in Docs, NEW ticks, NEW L, LazyOK(L),
         L.kind = lazy.kind,
         lazy.kind \in {"file", "url"} => L.pending \subseteq ReadByOthers(c),
         NextIteration(c, d, ticks, L)
  PROVE  PendingOwned'
<1> SUFFICES ASSUME lazy'.kind \in {"file", "url"}, NEW t \in lazy'.pending
             PROVE  \E x \in DOMAIN flight' : SameKind(flight[x])' /\ t \in flight'[x].batch
  BY DEF PendingOwned
<1>1. CASE ticks # {} /\ L.kind = Kind[d]
  <2> DEFINE batch == NextBatch(Index[d], ticks)
             f == [index |-> d, source |-> L.source, batch |-> batch, rest |-> ticks \ batch]
  <2>1. /\ lazy' = [L EXCEPT !.pending = @ \cup batch]
        /\ flight' = [x \in DOMAIN flight \cup {c} |-> IF x = c THEN f ELSE flight[x]]
        /\ f.index = d /\ f.batch = batch
    BY <1>1 DEF NextIteration
  <2> HIDE DEF f, batch
  <2>2. /\ lazy'.kind = lazy.kind /\ lazy'.pending = L.pending \cup batch
        /\ lazy'.kind = Kind[d]
    BY <1>1, <2>1 DEF LazyOK, LazyState
  <2>3. CASE t \in batch
    <3>1. c \in DOMAIN flight' /\ flight'[c] = f
      BY <2>1
    <3>2. SameKind(flight[c])' /\ t \in flight'[c].batch
      BY <2>1, <2>2, <2>3, <3>1 DEF SameKind
    <3> QED
      BY <3>1, <3>2
  <2>4. CASE t \in L.pending
    <3>1. PICK x \in DOMAIN flight \ {c} : SameKind(flight[x]) /\ t \in flight[x].batch
      BY <2>2, <2>4 DEF ReadByOthers
    <3>2. x \in DOMAIN flight' /\ flight'[x] = flight[x]
      BY <2>1, <3>1
    <3>3. SameKind(flight[x])'
      BY <2>2, <3>1, <3>2 DEF SameKind
    <3> QED
      BY <3>1, <3>2, <3>3
  <2> QED
    BY <2>2, <2>3, <2>4
<1>2. CASE ~ (ticks # {} /\ L.kind = Kind[d])
  <2>1. lazy' = L /\ flight' = [x \in DOMAIN flight \ {c} |-> flight[x]]
    BY <1>2 DEF NextIteration
  <2>2. PICK x \in DOMAIN flight \ {c} : SameKind(flight[x]) /\ t \in flight[x].batch
    BY <2>1 DEF ReadByOthers
  <2>3. x \in DOMAIN flight' /\ flight'[x] = flight[x]
    BY <2>1, <2>2
  <2>4. SameKind(flight[x])'
    BY <2>1, <2>2, <2>3 DEF SameKind
  <2> QED
    BY <2>2, <2>3, <2>4
<1> QED
  BY <1>1, <1>2

LEMMA HydratePending ==
  ASSUME TypeInv, PendingOwned, NEW c \in Calls, NEW ticks, lazy.kind # "none",
         Hydrate(c, ticks)
  PROVE  PendingOwned'
<1>1. LazyOK(lazy) /\ lazy.index \in Docs
  BY DEF TypeInv, TypeOK, LazyOK, LazyState
<1>2. CASE lazy.kind = "text"
  <2>1. lazy'.kind = "text"
    BY <1>1, <1>2 DEF Hydrate, HydrateLazyTextTicks, LazyOK, LazyState
  <2> QED
    BY <2>1 DEF PendingOwned
<1>3. CASE lazy.kind # "text"
  <2>1. c \notin DOMAIN flight /\ NextIteration(c, lazy.index, ticks, lazy)
    BY <1>3 DEF Hydrate, EnsureTicksLoaded
  <2>2. lazy.kind \in {"file", "url"} => lazy.pending \subseteq ReadByOthers(c)
    BY <2>1 DEF PendingOwned, ReadByOthers
  <2> QED
    BY <1>1, <2>1, <2>2, NextIterationPending
<1> QED
  BY <1>2, <1>3

LEMMA ReadSettlesPending ==
  ASSUME TypeInv, PendingOwned, NEW c \in Calls, ReadSettles(c)
  PROVE  PendingOwned'
<1> DEFINE f == flight[c]
<1>1. LazyOK(lazy) /\ c \in DOMAIN flight /\ f.index \in Docs /\ Kind[f.index] # "text"
  BY DEF TypeInv, TypeOK, ReadSettles, FlightOK, Flight
<1>2. lazy.kind \in {"file", "url"} =>
        \A t \in lazy.pending : t \in ReadByOthers(c) \/ (SameKind(f) /\ t \in f.batch)
  BY <1>1 DEF PendingOwned, ReadByOthers
<1> HIDE DEF f
<1>3. ASSUME NEW L, LazyOK(L), L.kind = lazy.kind, L.pending = lazy.pending \ f.batch,
             NextIteration(c, f.index, f.rest, IF SameKind(f) THEN L ELSE lazy)
      PROVE  PendingOwned'
  <2>1. CASE SameKind(f)
    <3>1. lazy.kind \in {"file", "url"} => L.pending \subseteq ReadByOthers(c)
      BY <1>2, <1>3
    <3> QED
      BY <1>1, <1>3, <2>1, <3>1, NextIterationPending
  <2>2. CASE ~ SameKind(f)
    <3>1. lazy.kind \in {"file", "url"} => lazy.pending \subseteq ReadByOthers(c)
      BY <1>2, <2>2
    <3> QED
      BY <1>1, <1>3, <2>2, <3>1, NextIterationPending
  <2> QED
    BY <2>1, <2>2
<1>4. CASE ReadArrives(c)
  <2> DEFINE L == [lazy EXCEPT !.pending = @ \ f.batch, !.loaded = @ \cup f.batch]
  <2>1. NextIteration(c, f.index, f.rest, IF SameKind(f) THEN L ELSE lazy)
    BY <1>4 DEF ReadArrives, f
  <2>2. f.batch \in SUBSET Nat
    BY <1>1 DEF TypeInv, TypeOK, FlightOK, Flight, f
  <2>3. LazyOK(L) /\ L.kind = lazy.kind /\ L.pending = lazy.pending \ f.batch
    BY <1>1, <2>2 DEF LazyOK, LazyState
  <2> HIDE DEF L
  <2> QED
    BY <1>3, <2>1, <2>3
<1>5. CASE ReadFails(c)
  <2> DEFINE L == [lazy EXCEPT !.pending = @ \ f.batch]
  <2>1. NextIteration(c, f.index, f.rest, IF SameKind(f) THEN L ELSE lazy)
    BY <1>5 DEF ReadFails, f
  <2>2. LazyOK(L) /\ L.kind = lazy.kind /\ L.pending = lazy.pending \ f.batch
    BY <1>1 DEF LazyOK, LazyState
  <2> HIDE DEF L
  <2> QED
    BY <1>3, <2>1, <2>2
<1>6. CASE FullTextArrives(c)
  <2>1. CASE lazy.kind = "url"
    <3>1. lazy'.kind = "text"
      BY <1>6, <2>1 DEF FullTextArrives
    <3> QED
      BY <3>1 DEF PendingOwned
  <2>2. CASE lazy.kind # "url"
    <3>1. /\ lazy' = lazy /\ ~ SameKind(f)
          /\ flight' = [x \in DOMAIN flight \ {c} |-> flight[x]]
      BY <1>6, <2>2 DEF FullTextArrives, SameKind, f
    <3> SUFFICES ASSUME lazy.kind \in {"file", "url"}, NEW t \in lazy.pending
                 PROVE  \E x \in DOMAIN flight' : SameKind(flight[x])' /\ t \in flight'[x].batch
      BY <3>1 DEF PendingOwned
    <3>2. PICK x \in DOMAIN flight \ {c} : SameKind(flight[x]) /\ t \in flight[x].batch
      BY <1>2, <3>1 DEF ReadByOthers
    <3>3. x \in DOMAIN flight' /\ flight'[x] = flight[x]
      BY <3>1, <3>2
    <3>4. SameKind(flight[x])'
      BY <3>1, <3>2, <3>3 DEF SameKind
    <3> QED
      BY <3>2, <3>3, <3>4
  <2> QED
    BY <2>1, <2>2
<1> QED
  BY <1>4, <1>5, <1>6 DEF ReadSettles

LEMMA PendingStep ==
  ASSUME TypeInv, PendingOwned, [Next]_vars
  PROVE  PendingOwned'
<1>1. UNCHANGED <<lazy, flight>> => PendingOwned'
  BY DEF PendingOwned, SameKind
<1>2. ASSUME NEW c \in Calls, NEW tick \in SeekInputs, SetSelectedTick(c, tick)
      PROVE  PendingOwned'
  <2>1. CASE lazy.kind = "none" \/ selectedTick' \in lazy.loaded
    BY <1>1, <1>2, <2>1 DEF SetSelectedTick
  <2>2. CASE ~ (lazy.kind = "none" \/ selectedTick' \in lazy.loaded)
    <3>1. PICK ticks : Hydrate(c, ticks)
      BY <1>2, <2>2 DEF SetSelectedTick
    <3> QED
      BY <2>2, <3>1, HydratePending
  <2> QED
    BY <2>1, <2>2
<1>3. ASSUME NEW c \in Calls, HydrateTickWindow(c) \/ HydrateAllLazyTicks(c)
      PROVE  PendingOwned'
  <2>1. PICK ticks : lazy.kind # "none" /\ Hydrate(c, ticks)
    BY <1>3 DEF HydrateTickWindow, HydrateAllLazyTicks
  <2> QED
    BY <2>1, HydratePending
<1>4. ASSUME NEW d \in Docs, OpenLazy(d) PROVE PendingOwned'
  <2>1. lazy'.pending = {}
    BY <1>4 DEF OpenLazy
  <2> QED
    BY <2>1 DEF PendingOwned
<1>5. lazy' = NotLazy => PendingOwned'
  BY DEF NotLazy, PendingOwned
<1>6. CASE UNCHANGED vars
  BY <1>1, <1>6 DEF vars
<1>7. CASE SessionNext
  BY <1>2, <1>3, <1>7, ReadSettlesPending DEF SessionNext
<1>8. CASE Next /\ ~ SessionNext
  BY <1>4, <1>5, <1>8 DEF Next, OpenEager, AppendLiveEvents
<1> QED
  BY <1>6, <1>7, <1>8

\* pendingTicks is bookkeeping spread over several set() calls and a catch
\* block per source; no interleaving of calls, failures and reloads, whatever
\* log they were started on, leaves a mark on a tick nobody reads.
THEOREM PendingTicksOwned == Spec => []PendingOwned
<1>1. Init => PendingOwned
  BY DEF Init, NotLazy, PendingOwned
<1>2. TypeInv /\ PendingOwned /\ [Next]_vars => TypeInv' /\ PendingOwned'
  BY TypeStep, PendingStep
<1> QED
  BY <1>1, <1>2, TypeInit, PTL DEF Spec

-----------------------------------------------------------------------------
(* The store holds the loaded ticks of the log on screen *)

\* What a hydration step may do to the lazy replay: load more of it.
Progress ==
  /\ lazy'.index = lazy.index
  /\ lazy'.kind = "none" <=> lazy.kind = "none"
  /\ lazy.loaded \subseteq lazy'.loaded

\* The for loop reads the log on screen, and loads nothing by itself.
LEMMA NextIterationOneLog ==
  ASSUME OneLog, FlightOK, NEW c \in Calls, NEW d \in Docs, NEW ticks \in SUBSET Ticks(d),
         NEW L, LazyOK(L),
         L.kind = lazy.kind, L.index = lazy.index, L.source = lazy.source,
         lazy.kind # "none" => L.loaded \subseteq Ticks(lazy.index),
         L.kind = Kind[d] => d = L.index,
         NextIteration(c, d, ticks, L)
  PROVE  /\ OneLog'
         /\ lazy'.kind = L.kind /\ lazy'.index = L.index
         /\ lazy'.source = L.source /\ lazy'.loaded = L.loaded
<1>1. L.kind # "none" => L.source = L.index
  BY DEF OneLog
<1>2. \A x \in DOMAIN flight :
        /\ flight[x].source = flight[x].index
        /\ flight[x].batch \cup flight[x].rest \subseteq Ticks(flight[x].index)
        /\ lazy.kind = Kind[flight[x].index] => flight[x].index = lazy.index
  BY DEF OneLog, SameKind
<1>3. CASE ticks # {} /\ L.kind = Kind[d]
  <2> DEFINE batch == NextBatch(Index[d], ticks)
             f == [index |-> d, source |-> L.source, batch |-> batch, rest |-> ticks \ batch]
  <2>1. /\ lazy' = [L EXCEPT !.pending = @ \cup batch]
        /\ flight' = [x \in DOMAIN flight \cup {c} |-> IF x = c THEN f ELSE flight[x]]
    BY <1>3 DEF NextIteration
  <2>2. batch \subseteq ticks
    BY DEF NextBatch
  <2>3. L.source = d
    BY <1>1, <1>3, DocsAssumption
  <2>4. f.index = d /\ f.source = d /\ f.batch \cup f.rest \subseteq Ticks(d)
    BY <2>2, <2>3
  <2> HIDE DEF f, batch
  <2>5. /\ lazy'.kind = L.kind /\ lazy'.index = L.index
        /\ lazy'.source = L.source /\ lazy'.loaded = L.loaded
    BY <2>1 DEF LazyOK, LazyState
  <2>6. lazy'.kind # "none" => lazy'.source = lazy'.index
                               /\ lazy'.loaded \subseteq Ticks(lazy'.index)
    BY <1>1, <2>5
  <2>7. ASSUME NEW x \in DOMAIN flight'
        PROVE  /\ flight'[x].source = flight'[x].index
               /\ flight'[x].batch \cup flight'[x].rest \subseteq Ticks(flight'[x].index)
               /\ lazy'.kind = Kind[flight'[x].index] => flight'[x].index = lazy'.index
    <3>1. CASE x = c
      <4>1. flight'[x] = f
        BY <2>1, <3>1
      <4> QED
        BY <1>3, <2>4, <2>5, <4>1
    <3>2. CASE x # c
      <4>1. x \in DOMAIN flight /\ flight'[x] = flight[x]
        BY <2>1, <3>2
      <4> QED
        BY <1>2, <2>5, <4>1
    <3> QED
      BY <3>1, <3>2
  <2> QED
    BY <2>5, <2>6, <2>7 DEF OneLog, SameKind
<1>4. CASE ~ (ticks # {} /\ L.kind = Kind[d])
  <2>1. lazy' = L /\ flight' = [x \in DOMAIN flight \ {c} |-> flight[x]]
    BY <1>4 DEF NextIteration
  <2>2. \A x \in DOMAIN flight' : x \in DOMAIN flight /\ flight'[x] = flight[x]
    BY <2>1
  <2> QED
    BY <1>1, <1>2, <2>1, <2>2 DEF OneLog, SameKind
<1> QED
  BY <1>3, <1>4

LEMMA HydrateShown ==
  ASSUME ShownInv, NEW c \in Calls, lazy.kind # "none",
         NEW ticks \in SUBSET Ticks(lazy.index), Hydrate(c, ticks)
  PROVE  OneLog' /\ ShownIsLoaded' /\ Progress
<1>1. /\ TypeInv /\ OneLog /\ LazyOK(lazy) /\ FlightOK
      /\ lazy.index \in Docs /\ lazy.source = lazy.index
      /\ lazy.loaded \subseteq Ticks(lazy.index)
      /\ Shown = {lazy.index} \X lazy.loaded
  BY DEF ShownInv, TypeInv, TypeOK, LazyOK, LazyState, OneLog, ShownIsLoaded
<1>2. CASE lazy.kind = "text"
  <2>1. /\ replay' = Appended(lazy.index,
                              TicksExtracted(Index[lazy.index], Index[lazy.index], ticks))
        /\ lazy' = [lazy EXCEPT !.loaded = @ \cup ticks]
        /\ flight' = flight
    BY <1>1, <1>2 DEF Hydrate, HydrateLazyTextTicks
  <2>2. replay' = Appended(lazy.index, ticks)
    BY <1>1, <2>1, ExtractionIsComplete
  <2>3. Shown' = Shown \cup ({lazy.index} \X ticks)
    BY <1>1, <2>2, AppendedFacts DEF Shown
  <2>4. /\ lazy'.kind = lazy.kind /\ lazy'.index = lazy.index
        /\ lazy'.source = lazy.source /\ lazy'.loaded = lazy.loaded \cup ticks
    BY <1>1, <2>1 DEF LazyOK, LazyState
  <2>5. OneLog'
    BY <1>1, <2>1, <2>4 DEF OneLog, SameKind
  <2>6. Shown' = {lazy.index} \X (lazy.loaded \cup ticks)
    BY <1>1, <2>3
  <2> QED
    BY <2>4, <2>5, <2>6 DEF ShownIsLoaded, Progress
<1>3. CASE lazy.kind # "text"
  <2>1. NextIteration(c, lazy.index, ticks, lazy) /\ replay' = replay
    BY <1>3 DEF Hydrate, EnsureTicksLoaded
  <2>2. /\ OneLog' /\ lazy'.kind = lazy.kind /\ lazy'.index = lazy.index
        /\ lazy'.loaded = lazy.loaded
    BY <1>1, <2>1, NextIterationOneLog
  <2> QED
    BY <1>1, <2>1, <2>2 DEF ShownIsLoaded, Progress, Shown
<1> QED
  BY <1>2, <1>3

LEMMA ReadSettlesShown ==
  ASSUME ShownInv, NEW c \in Calls, ReadSettles(c)
  PROVE  OneLog' /\ ShownIsLoaded' /\ Progress
<1> DEFINE f == flight[c]
<1>1. /\ TypeInv /\ OneLog /\ LazyOK(lazy) /\ FlightOK /\ c \in DOMAIN flight
      /\ f.index \in Docs /\ f.batch \in SUBSET Nat /\ Kind[f.index] # "text"
      /\ f.source = f.index /\ f.batch \in SUBSET Ticks(f.index)
      /\ f.rest \in SUBSET Ticks(f.index)
  BY DEF ShownInv, TypeInv, TypeOK, FlightOK, Flight, OneLog, ReadSettles
<1>2. lazy.kind # "none" => /\ lazy.source = lazy.index
                            /\ lazy.loaded \subseteq Ticks(lazy.index)
                            /\ Shown = {lazy.index} \X lazy.loaded
  BY <1>1 DEF ShownInv, OneLog, ShownIsLoaded
<1>3. lazy.kind = Kind[f.index] => f.index = lazy.index /\ lazy.kind # "none"
  BY <1>1, DocsAssumption DEF OneLog, SameKind
<1> HIDE DEF f
<1>4. CASE ReadArrives(c)
  <2> DEFINE L == [lazy EXCEPT !.pending = @ \ f.batch, !.loaded = @ \cup f.batch]
  <2>1. /\ replay' = IF SameKind(f) /\ ~ (f.batch \subseteq lazy.loaded)
                     THEN Appended(f.index, f.batch) ELSE replay
        /\ NextIteration(c, f.index, f.rest, IF SameKind(f) THEN L ELSE lazy)
    BY <1>1, <1>4, SliceIsComplete DEF ReadArrives, f
  <2>2. /\ LazyOK(L) /\ L.kind = lazy.kind /\ L.index = lazy.index
        /\ L.source = lazy.source /\ L.loaded = lazy.loaded \cup f.batch
    BY <1>1 DEF LazyOK, LazyState
  <2> HIDE DEF L
  <2>3. CASE SameKind(f)
    <3>1. f.index = lazy.index /\ lazy.kind # "none"
      BY <1>3, <2>3 DEF SameKind
    <3>2. /\ OneLog' /\ lazy'.kind = lazy.kind /\ lazy'.index = lazy.index
          /\ lazy'.loaded = lazy.loaded \cup f.batch
      BY <1>1, <1>2, <2>1, <2>2, <2>3, <3>1, NextIterationOneLog
    <3>3. Shown' = {lazy.index} \X (lazy.loaded \cup f.batch)
      <4>1. CASE f.batch \subseteq lazy.loaded
        <5>1. lazy.loaded \cup f.batch = lazy.loaded /\ Shown' = Shown
          BY <2>1, <4>1 DEF Shown
        <5> QED
          BY <1>2, <3>1, <5>1
      <4>2. CASE ~ (f.batch \subseteq lazy.loaded)
        <5>1. replay' = Appended(f.index, f.batch)
          BY <2>1, <2>3, <4>2
        <5>2. Shown' = Shown \cup ({f.index} \X f.batch)
          BY <1>1, <5>1, AppendedFacts DEF Shown
        <5> QED
          BY <1>2, <3>1, <5>2
      <4> QED
        BY <4>1, <4>2
    <3> QED
      BY <3>2, <3>3 DEF ShownIsLoaded, Progress
  <2>4. CASE ~ SameKind(f)
    <3>1. NextIteration(c, f.index, f.rest, lazy) /\ replay' = replay
      BY <2>1, <2>4
    <3>2. /\ OneLog' /\ lazy'.kind = lazy.kind /\ lazy'.index = lazy.index
          /\ lazy'.loaded = lazy.loaded
      BY <1>1, <1>2, <1>3, <3>1, NextIterationOneLog
    <3> QED
      BY <1>2, <3>1, <3>2 DEF ShownIsLoaded, Progress, Shown
  <2> QED
    BY <2>3, <2>4
<1>5. CASE ReadFails(c)
  <2> DEFINE L == [lazy EXCEPT !.pending = @ \ f.batch]
             M == IF SameKind(f) THEN L ELSE lazy
  <2>1. NextIteration(c, f.index, f.rest, M) /\ replay' = replay
    BY <1>5 DEF ReadFails, f
  <2>2. /\ LazyOK(M) /\ M.kind = lazy.kind /\ M.index = lazy.index
        /\ M.source = lazy.source /\ M.loaded = lazy.loaded
    BY <1>1 DEF LazyOK, LazyState
  <2> HIDE DEF M
  <2>3. /\ OneLog' /\ lazy'.kind = lazy.kind /\ lazy'.index = lazy.index
        /\ lazy'.loaded = lazy.loaded
    BY <1>1, <1>2, <1>3, <2>1, <2>2, NextIterationOneLog
  <2> QED
    BY <1>2, <2>1, <2>3 DEF ShownIsLoaded, Progress, Shown
<1>6. CASE FullTextArrives(c)
  <2> DEFINE remaining == f.batch \cup f.rest
  <2>1. /\ flight' = [x \in DOMAIN flight \ {c} |-> flight[x]]
        /\ Kind[f.index] = "url"
    BY <1>6 DEF FullTextArrives, f
  <2>2. \A x \in DOMAIN flight' : x \in DOMAIN flight /\ flight'[x] = flight[x]
    BY <2>1
  <2>3. CASE lazy.kind = "url"
    <3>1. f.index = lazy.index
      BY <1>3, <2>1, <2>3
    <3>2. /\ replay' = Appended(f.index, TicksExtracted(Index[f.index], Index[f.index], remaining))
          /\ lazy'.kind = "text" /\ lazy'.index = lazy.index /\ lazy'.source = lazy.index
          /\ lazy'.loaded = lazy.loaded \cup remaining
      BY <1>1, <1>6, <2>3, <3>1 DEF FullTextArrives, f
    <3>3. remaining \in SUBSET Ticks(f.index)
      BY <1>1
    <3> HIDE DEF remaining
    <3>4. replay' = Appended(f.index, remaining)
      BY <1>1, <3>2, <3>3, ExtractionIsComplete
    <3>5. Shown' = Shown \cup ({f.index} \X remaining)
      BY <1>1, <3>3, <3>4, AppendedFacts DEF Shown
    <3>6. Shown' = {lazy.index} \X (lazy.loaded \cup remaining)
      BY <1>2, <2>3, <3>1, <3>5
    <3>7. OneLog'
      <4>1. \A x \in DOMAIN flight' : flight'[x].index \in Docs /\ Kind[flight'[x].index] # "text"
        BY <1>1, <2>2 DEF FlightOK, Flight
      <4> QED
        BY <1>1, <1>2, <2>2, <2>3, <3>1, <3>2, <3>3, <4>1 DEF OneLog, SameKind
    <3> QED
      BY <2>3, <3>2, <3>6, <3>7 DEF ShownIsLoaded, Progress
  <2>4. CASE lazy.kind # "url"
    <3>1. replay' = replay /\ lazy' = lazy
      BY <1>6, <2>4 DEF FullTextArrives
    <3>2. OneLog'
      BY <1>1, <2>2, <3>1 DEF OneLog, SameKind
    <3> QED
      BY <1>2, <3>1, <3>2 DEF ShownIsLoaded, Progress, Shown
  <2> QED
    BY <2>3, <2>4
<1> QED
  BY <1>4, <1>5, <1>6 DEF ReadSettles

\* No step within one opened replay mixes logs or loses a loaded tick.
LEMMA SessionShown ==
  ASSUME ShownInv, SessionNext
  PROVE  ShownInv' /\ Progress
<1>1. TypeInv'
  BY RequestType, ReadSettlesType DEF ShownInv, SessionNext
<1>2. \A loaded, pending, lo, hi :
        lazyTicksToHydrateInRange(Index[lazy.index], loaded, pending, lo, hi)
          \in SUBSET Ticks(lazy.index)
  BY DEF lazyTicksToHydrateInRange, Ticks
<1>3. UNCHANGED <<replay, lazy, flight>> => OneLog' /\ ShownIsLoaded' /\ Progress
  BY DEF ShownInv, OneLog, SameKind, ShownIsLoaded, Shown, Progress
<1>4. ASSUME NEW c \in Calls, NEW tick \in SeekInputs, SetSelectedTick(c, tick)
      PROVE  OneLog' /\ ShownIsLoaded' /\ Progress
  <2>1. CASE lazy.kind = "none" \/ selectedTick' \in lazy.loaded
    BY <1>3, <1>4, <2>1 DEF SetSelectedTick
  <2>2. CASE ~ (lazy.kind = "none" \/ selectedTick' \in lazy.loaded)
    <3>1. PICK hi : Hydrate(c, lazyTicksToHydrate(Index[lazy.index], lazy.loaded,
                                                   lazy.pending, hi))
      BY <1>4, <2>2 DEF SetSelectedTick
    <3> QED
      BY <1>2, <2>2, <3>1, HydrateShown DEF lazyTicksToHydrate
  <2> QED
    BY <2>1, <2>2
<1>5. ASSUME NEW c \in Calls, HydrateTickWindow(c)
      PROVE  OneLog' /\ ShownIsLoaded' /\ Progress
  <2>1. PICK lo, hi : Hydrate(c, lazyTicksToHydrateInRange(Index[lazy.index], lazy.loaded,
                                                            lazy.pending, lo, hi))
    BY <1>5 DEF HydrateTickWindow
  <2>2. lazy.kind # "none"
    BY <1>5 DEF HydrateTickWindow
  <2> QED
    BY <1>2, <2>1, <2>2, HydrateShown
<1>6. ASSUME NEW c \in Calls, HydrateAllLazyTicks(c)
      PROVE  OneLog' /\ ShownIsLoaded' /\ Progress
  <2>1. PICK hi : Hydrate(c, lazyTicksToHydrate(Index[lazy.index], lazy.loaded,
                                                 lazy.pending, hi))
    BY <1>6 DEF HydrateAllLazyTicks
  <2>2. lazy.kind # "none"
    BY <1>6 DEF HydrateAllLazyTicks
  <2> QED
    BY <1>2, <2>1, <2>2, HydrateShown DEF lazyTicksToHydrate
<1> QED
  BY <1>1, <1>4, <1>5, <1>6, ReadSettlesShown DEF SessionNext, ShownInv

\* A replay just opened holds its first tick, and no call that could write to
\* it works on another log, provided no other log of its kind can be open.
LEMMA OpenLazyShown ==
  ASSUME OneLogPerKind, ShownInv, NEW d \in Docs, OpenLazy(d)
  PROVE  OneLog' /\ ShownIsLoaded'
<1> DEFINE first == FirstTick(Index[d])
<1>1. first \in Ticks(d)
  BY IndexFacts
<1>2. /\ replay' = <<[doc |-> d, ticks |-> {first}]>>
      /\ lazy' = [kind |-> Kind[d], index |-> d, source |-> d,
                  loaded |-> {first}, pending |-> {}]
      /\ flight' = flight
  BY DEF OpenLazy
<1> HIDE DEF first
<1>3. Shown' = {d} \X {first}
  BY <1>1, <1>2, SingleChunk DEF Shown
<1>4. ASSUME NEW c \in DOMAIN flight, SameKind(flight[c])'
      PROVE  flight[c].index = d
  <2>1. flight[c].index \in Docs
    BY DEF ShownInv, TypeInv, TypeOK, FlightOK, Flight
  <2>2. Kind[d] = Kind[flight[c].index]
    BY <1>2, <1>4 DEF SameKind
  <2> QED
    BY <2>1, <2>2 DEF OneLogPerKind
<1>5. OneLog'
  BY <1>1, <1>2, <1>4 DEF ShownInv, OneLog
<1> QED
  BY <1>2, <1>3, <1>5 DEF ShownIsLoaded

LEMMA DroppedShown ==
  ASSUME ShownInv, lazy' = NotLazy, flight' = flight
  PROVE  OneLog' /\ ShownIsLoaded'
<1>1. \A c \in DOMAIN flight : flight[c].index \in Docs /\ Kind[flight[c].index] # "none"
  BY DocsAssumption DEF ShownInv, TypeInv, TypeOK, FlightOK, Flight
<1> QED
  BY <1>1 DEF ShownInv, OneLog, SameKind, ShownIsLoaded, NotLazy

LEMMA ShownStep ==
  ASSUME OneLogPerKind, ShownInv, [Next]_vars
  PROVE  ShownInv'
<1>1. TypeInv'
  BY TypeStep DEF ShownInv
<1>2. CASE UNCHANGED vars
  BY <1>1, <1>2 DEF vars, ShownInv, OneLog, SameKind, ShownIsLoaded, Shown
<1>3. CASE SessionNext
  BY <1>3, SessionShown
<1>4. ASSUME NEW d \in Docs, OpenLazy(d) PROVE ShownInv'
  BY <1>1, <1>4, OpenLazyShown DEF ShownInv
<1>5. ASSUME NEW d \in Docs, OpenEager(d) PROVE ShownInv'
  BY <1>1, <1>5, DroppedShown DEF ShownInv, OpenEager
<1>6. ASSUME NEW tick \in AllTicks, NEW follow \in BOOLEAN, AppendLiveEvents(tick, follow)
      PROVE  ShownInv'
  BY <1>1, <1>6, DroppedShown DEF ShownInv, AppendLiveEvents
<1> QED
  BY <1>2, <1>3, <1>4, <1>5, <1>6 DEF Next

LEMMA ShownInit ==
  ASSUME Init
  PROVE  ShownInv
BY TypeInit DEF Init, ShownInv, OneLog, ShownIsLoaded, NotLazy

LEMMA OpenedShown ==
  ASSUME Opened
  PROVE  ShownInv
<1>1. PICK d \in Docs :
        LET first == FirstTick(Index[d])
        IN  /\ replay = <<[doc |-> d, ticks |-> {first}]>>
            /\ lazy = [kind |-> Kind[d], index |-> d, source |-> d,
                       loaded |-> {first}, pending |-> {}]
            /\ selectedTick = first
  BY DEF Opened
<1> DEFINE first == FirstTick(Index[d])
<1>2. first \in Ticks(d) /\ first \in Nat
  BY IndexFacts
<1>3. /\ replay = <<[doc |-> d, ticks |-> {first}]>>
      /\ lazy = [kind |-> Kind[d], index |-> d, source |-> d,
                 loaded |-> {first}, pending |-> {}]
      /\ selectedTick = first
  BY <1>1
<1> HIDE DEF first
<1>4. DOMAIN flight = {}
  BY DEF Opened
<1>5. replay \in Seq(Chunk) /\ HasMaxTick(replay) /\ Shown = {d} \X {first}
  BY <1>2, <1>3, SingleChunk DEF Shown
<1>6. LazyOK(lazy)
  BY <1>2, <1>3, DocsAssumption DEF LazyOK, LazyState
<1>7. TypeInv
  BY <1>2, <1>3, <1>4, <1>5, <1>6 DEF TypeInv, TypeOK, FlightOK
<1>8. OneLog /\ ShownIsLoaded
  BY <1>2, <1>3, <1>4, <1>5 DEF OneLog, ShownIsLoaded
<1> QED
  BY <1>7, <1>8 DEF ShownInv

\* When no two logs that can be opened are read the same way, what is shown is
\* what is loaded, through every reload, failure and full-text fallback.
THEOREM ShownIsLoadedAlways == OneLogPerKind => (Spec => []ShownIsLoaded)
<1> SUFFICES ASSUME OneLogPerKind PROVE Spec => []ShownIsLoaded
  OBVIOUS
<1>1. ShownInv /\ [Next]_vars => ShownInv'
  BY ShownStep
<1>2. ShownInv => ShownIsLoaded
  BY DEF ShownInv
<1> QED
  BY <1>1, <1>2, ShownInit, PTL DEF Spec

\* Within one opened replay it needs no assumption on the logs.
THEOREM ShownIsLoadedInSession == SessionSpec => []ShownIsLoaded
<1>1. ShownInv /\ [SessionNext]_vars => ShownInv'
  <2>1. ShownInv /\ UNCHANGED vars => ShownInv'
    BY DEF vars, ShownInv, OneLog, SameKind, ShownIsLoaded, Shown, TypeInv, TypeOK, FlightOK
  <2> QED
    BY <2>1, SessionShown
<1>2. ShownInv => ShownIsLoaded
  BY DEF ShownInv
<1> QED
  BY <1>1, <1>2, OpenedShown, PTL DEF SessionSpec

-----------------------------------------------------------------------------
(* Nothing is appended twice *)

\* An append of ticks the store does not hold yet keeps its chunks disjoint.
LEMMA AppendNoDuplicates ==
  ASSUME TypeInv, NoDuplicates, NEW d \in Docs, NEW ticks \in SUBSET Ticks(d),
         \A t \in ticks : <<d, t>> \notin Shown,
         replay' = Appended(d, ticks)
  PROVE  NoDuplicates'
<1> DEFINE ch == [doc |-> d, ticks |-> ticks]
<1>1. replay \in Seq(Chunk) /\ ch \in Chunk
  BY IndexFacts DEF TypeInv, TypeOK, Chunk
<1>2. ch.doc = d /\ ch.ticks = ticks
  OBVIOUS
<1> HIDE DEF ch
<1>3. \A i \in DOMAIN replay : replay[i].doc = d => replay[i].ticks \cap ticks = {}
  <2> SUFFICES ASSUME NEW i \in DOMAIN replay, replay[i].doc = d,
                      NEW t \in replay[i].ticks \cap ticks
               PROVE  FALSE
    OBVIOUS
  <2>1. <<d, t>> \in {replay[i].doc} \X replay[i].ticks
    OBVIOUS
  <2>2. <<d, t>> \in Shown
    BY <2>1, Zenon DEF Shown, ShownBy
  <2> QED
    BY <2>2
<1>4. CASE ticks = {}
  <2>1. replay' = replay
    BY <1>4 DEF Appended
  <2> QED
    BY <2>1 DEF NoDuplicates
<1>5. CASE ticks # {}
  <2>1. replay' = Append(replay, ch)
    BY <1>5 DEF Appended, ch
  <2>2. /\ \A i \in DOMAIN replay : replay'[i] = replay[i]
        /\ replay'[Len(replay) + 1] = ch
        /\ \A i \in DOMAIN replay' : i \in DOMAIN replay \/ i = Len(replay) + 1
    BY <1>1, <2>1, AppendChunk
  <2>3. SUFFICES ASSUME NEW i \in DOMAIN replay', NEW j \in DOMAIN replay',
                        i # j, replay'[i].doc = replay'[j].doc
                 PROVE  replay'[i].ticks \cap replay'[j].ticks = {}
    BY DEF NoDuplicates
  <2>4. CASE i \in DOMAIN replay /\ j \in DOMAIN replay
    BY <2>2, <2>3, <2>4 DEF NoDuplicates
  <2>5. CASE i \in DOMAIN replay /\ j = Len(replay) + 1
    BY <1>2, <1>3, <2>2, <2>3, <2>5
  <2>6. CASE i = Len(replay) + 1 /\ j \in DOMAIN replay
    BY <1>2, <1>3, <2>2, <2>3, <2>6
  <2> QED
    BY <2>2, <2>3, <2>4, <2>5, <2>6
<1> QED
  BY <1>4, <1>5

\* A call that starts takes ticks no other call is reading.
LEMMA StartDisjoint ==
  ASSUME OneBatch, DisjointReads, LazyOK(lazy), NEW c \in Calls, c \notin DOMAIN flight,
         lazy.index \in Docs, NEW ticks \in SUBSET Ticks(lazy.index),
         ticks \cap (lazy.loaded \cup lazy.pending) = {},
         NextIteration(c, lazy.index, ticks, lazy)
  PROVE  DisjointReads'
<1>1. CASE ticks # {} /\ lazy.kind = Kind[lazy.index]
  <2> DEFINE f == [index |-> lazy.index, source |-> lazy.source, batch |-> ticks, rest |-> {}]
  <2>1. NextBatch(Index[lazy.index], ticks) = ticks /\ ticks \ ticks = {}
    BY DEF OneBatch
  <2>2. /\ lazy' = [lazy EXCEPT !.pending = @ \cup ticks]
        /\ flight' = [x \in DOMAIN flight \cup {c} |-> IF x = c THEN f ELSE flight[x]]
    BY <1>1, <2>1 DEF NextIteration
  <2>3. /\ lazy'.kind = lazy.kind /\ lazy'.loaded = lazy.loaded
        /\ lazy'.pending = lazy.pending \cup ticks
    BY <2>2 DEF LazyOK, LazyState
  <2>4. f.batch = ticks /\ f.rest = {}
    OBVIOUS
  <2> HIDE DEF f
  <2>5. /\ flight'[c] = f
        /\ \A x \in DOMAIN flight' : x # c => x \in DOMAIN flight /\ flight'[x] = flight[x]
    BY <2>2
  <2>6. \A x \in DOMAIN flight' :
          x # c => /\ flight'[x].rest = {}
                   /\ lazy.kind = Kind[flight'[x].index]
                        => flight'[x].batch \subseteq lazy.pending \ lazy.loaded
    BY <2>5 DEF DisjointReads, SameKind
  <2>7. \A x, y \in DOMAIN flight' :
          /\ x # c /\ y # c /\ x # y
          /\ lazy.kind = Kind[flight'[x].index] /\ lazy.kind = Kind[flight'[y].index]
          => flight'[x].batch \cap flight'[y].batch = {}
    BY <2>5 DEF DisjointReads, SameKind
  <2>8. \A x \in DOMAIN flight' :
          x # c /\ lazy.kind = Kind[flight'[x].index]
            => flight'[x].batch \cap ticks = {}
    BY <2>6
  <2>9. \A x \in DOMAIN flight' :
          /\ flight'[x].rest = {}
          /\ lazy.kind = Kind[flight'[x].index]
               => flight'[x].batch \subseteq lazy'.pending \ lazy'.loaded
    BY <2>3, <2>4, <2>5, <2>6
  <2>10. \A x, y \in DOMAIN flight' :
           /\ x # y
           /\ lazy.kind = Kind[flight'[x].index] /\ lazy.kind = Kind[flight'[y].index]
           => flight'[x].batch \cap flight'[y].batch = {}
    BY <2>4, <2>5, <2>7, <2>8
  <2> QED
    BY <2>3, <2>9, <2>10 DEF DisjointReads, SameKind
<1>2. CASE ~ (ticks # {} /\ lazy.kind = Kind[lazy.index])
  <2>1. lazy' = lazy /\ flight' = [x \in DOMAIN flight \ {c} |-> flight[x]]
    BY <1>2 DEF NextIteration
  <2>2. \A x \in DOMAIN flight' : x \in DOMAIN flight /\ flight'[x] = flight[x]
    BY <2>1
  <2> QED
    BY <2>1, <2>2 DEF DisjointReads, SameKind
<1> QED
  BY <1>1, <1>2

LEMMA HydrateNoDuplicates ==
  ASSUME OneBatch, NoDuplicatesInv, NEW c \in Calls, lazy.kind # "none",
         NEW ticks \in SUBSET Ticks(lazy.index),
         ticks \cap (lazy.loaded \cup lazy.pending) = {}, Hydrate(c, ticks)
  PROVE  DisjointReads' /\ NoDuplicates'
<1>1. /\ TypeInv /\ DisjointReads /\ NoDuplicates /\ LazyOK(lazy)
      /\ lazy.index \in Docs /\ lazy.source = lazy.index
      /\ Shown = {lazy.index} \X lazy.loaded
  BY DEF NoDuplicatesInv, ShownInv, TypeInv, TypeOK, LazyOK, LazyState, OneLog, ShownIsLoaded
<1>2. CASE lazy.kind = "text"
  <2>1. /\ replay' = Appended(lazy.index, ticks)
        /\ lazy' = [lazy EXCEPT !.loaded = @ \cup ticks]
        /\ flight' = flight
    BY <1>1, <1>2, ExtractionIsComplete DEF Hydrate, HydrateLazyTextTicks
  <2>2. \A t \in ticks : <<lazy.index, t>> \notin Shown
    BY <1>1
  <2>3. NoDuplicates'
    BY <1>1, <2>1, <2>2, AppendNoDuplicates
  <2>4. lazy'.kind = "text"
    BY <1>1, <1>2, <2>1 DEF LazyOK, LazyState
  <2>5. \A x \in DOMAIN flight : Kind[flight[x].index] # "text"
    BY <1>1 DEF TypeInv, TypeOK, FlightOK
  <2>6. DisjointReads'
    BY <1>1, <2>1, <2>4, <2>5 DEF DisjointReads, SameKind
  <2> QED
    BY <2>3, <2>6
<1>3. CASE lazy.kind # "text"
  <2>1. /\ c \notin DOMAIN flight /\ NextIteration(c, lazy.index, ticks, lazy)
        /\ replay' = replay
    BY <1>3 DEF Hydrate, EnsureTicksLoaded
  <2>2. DisjointReads'
    BY <1>1, <2>1, StartDisjoint
  <2> QED
    BY <1>1, <2>1, <2>2 DEF NoDuplicates
<1> QED
  BY <1>2, <1>3

LEMMA ReadSettlesNoDuplicates ==
  ASSUME NoDuplicatesInv, NEW c \in Calls, ReadSettles(c)
  PROVE  DisjointReads' /\ NoDuplicates'
<1> DEFINE f == flight[c]
<1>1. /\ TypeInv /\ DisjointReads /\ NoDuplicates /\ LazyOK(lazy) /\ c \in DOMAIN flight
      /\ f.index \in Docs /\ Kind[f.index] # "text" /\ f.batch \in SUBSET Nat
      /\ f.source = f.index /\ f.batch \in SUBSET Ticks(f.index) /\ f.rest = {}
  BY DEF NoDuplicatesInv, ShownInv, TypeInv, TypeOK, FlightOK, Flight, OneLog,
         DisjointReads, ReadSettles
<1>2. SameKind(f) => /\ f.index = lazy.index
                     /\ f.batch \subseteq lazy.pending \ lazy.loaded
                     /\ \A t \in f.batch : <<f.index, t>> \notin Shown
  <2>1. SameKind(f) => f.index = lazy.index /\ f.batch \subseteq lazy.pending \ lazy.loaded
    BY <1>1 DEF NoDuplicatesInv, ShownInv, OneLog, DisjointReads
  <2>2. SameKind(f) => Shown = {lazy.index} \X lazy.loaded
    BY <1>1, DocsAssumption DEF NoDuplicatesInv, ShownInv, ShownIsLoaded, SameKind
  <2> QED
    BY <2>1, <2>2
<1>3. \A x \in DOMAIN flight \ {c} :
        /\ flight[x].rest = {}
        /\ SameKind(flight[x]) =>
             /\ flight[x].batch \subseteq lazy.pending \ lazy.loaded
             /\ SameKind(f) => flight[x].batch \cap f.batch = {}
             /\ \A y \in DOMAIN flight \ {c} :
                  y # x /\ SameKind(flight[y]) => flight[x].batch \cap flight[y].batch = {}
  BY <1>1 DEF DisjointReads
<1> HIDE DEF f
<1>4. ASSUME NEW L, L.kind = lazy.kind, SameKind(f) \/ L = lazy,
             lazy.pending \ f.batch \subseteq L.pending, L.loaded \subseteq lazy.loaded \cup f.batch,
             lazy' = L, flight' = [x \in DOMAIN flight \ {c} |-> flight[x]]
      PROVE  DisjointReads'
  <2>1. \A x \in DOMAIN flight' : x \in DOMAIN flight \ {c} /\ flight'[x] = flight[x]
    BY <1>4
  <2>2. \A x \in DOMAIN flight' : SameKind(flight[x])' <=> SameKind(flight[x])
    BY <1>4, <2>1 DEF SameKind
  <2>3. \A x \in DOMAIN flight' :
          SameKind(flight[x]) => flight[x].batch \subseteq lazy'.pending \ lazy'.loaded
    BY <1>3, <1>4, <2>1
  <2> QED
    BY <1>3, <2>1, <2>2, <2>3 DEF DisjointReads
<1>5. \A M : NextIteration(c, f.index, f.rest, M)
               => lazy' = M /\ flight' = [x \in DOMAIN flight \ {c} |-> flight[x]]
  BY <1>1 DEF NextIteration, f
<1>6. CASE ReadArrives(c)
  <2> DEFINE L == [lazy EXCEPT !.pending = @ \ f.batch, !.loaded = @ \cup f.batch]
  <2>1. /\ replay' = replay \/ (SameKind(f) /\ replay' = Appended(f.index, f.batch))
        /\ NextIteration(c, f.index, f.rest, IF SameKind(f) THEN L ELSE lazy)
    <3>1. TicksInSlice(Index[f.source], Index[f.index], f.batch) = f.batch
      BY <1>1, SliceIsComplete DEF f
    <3> QED
      BY <1>1, <1>6, <3>1 DEF ReadArrives, f
  <2>2. /\ L.kind = lazy.kind /\ L.pending = lazy.pending \ f.batch
        /\ L.loaded = lazy.loaded \cup f.batch
    BY <1>1 DEF LazyOK, LazyState
  <2> HIDE DEF L
  <2>3. DisjointReads'
    <3>1. CASE SameKind(f)
      BY <1>4, <1>5, <2>1, <2>2, <3>1
    <3>2. CASE ~ SameKind(f)
      BY <1>4, <1>5, <2>1, <3>2
    <3> QED
      BY <3>1, <3>2
  <2>4. CASE replay' = replay
    BY <1>1, <2>3, <2>4 DEF NoDuplicates
  <2>5. CASE SameKind(f) /\ replay' = Appended(f.index, f.batch)
    <3>1. f.index \in Docs /\ f.batch \in SUBSET Ticks(f.index)
      BY <1>1 DEF f
    <3> QED
      BY <1>1, <1>2, <2>3, <2>5, <3>1, AppendNoDuplicates
  <2> QED
    BY <2>1, <2>4, <2>5
<1>7. CASE ReadFails(c)
  <2> DEFINE L == [lazy EXCEPT !.pending = @ \ f.batch]
  <2>1. /\ NextIteration(c, f.index, f.rest, IF SameKind(f) THEN L ELSE lazy)
        /\ replay' = replay
    BY <1>7 DEF ReadFails, f
  <2>2. /\ L.kind = lazy.kind /\ L.pending = lazy.pending \ f.batch /\ L.loaded = lazy.loaded
    BY <1>1 DEF LazyOK, LazyState
  <2> HIDE DEF L
  <2>3. DisjointReads'
    <3>1. CASE SameKind(f)
      BY <1>4, <1>5, <2>1, <2>2, <3>1
    <3>2. CASE ~ SameKind(f)
      BY <1>4, <1>5, <2>1, <3>2
    <3> QED
      BY <3>1, <3>2
  <2> QED
    BY <1>1, <2>1, <2>3 DEF NoDuplicates
<1>8. CASE FullTextArrives(c)
  <2>1. /\ flight' = [x \in DOMAIN flight \ {c} |-> flight[x]]
        /\ Kind[f.index] = "url"
    BY <1>8 DEF FullTextArrives, f
  <2>2. CASE lazy.kind = "url"
    <3>1. SameKind(f)
      BY <2>1, <2>2 DEF SameKind
    <3>2. f.batch \cup f.rest = f.batch
      BY <1>1 DEF f
    <3>3. /\ replay' = Appended(f.source, TicksExtracted(Index[f.source], Index[lazy.index],
                                                          f.batch))
          /\ lazy'.kind = "text"
      <4>1. /\ replay' = Appended(f.source, TicksExtracted(Index[f.source], Index[lazy.index],
                                                            f.batch \cup f.rest))
            /\ lazy'.kind = "text"
        BY <1>8, <2>2 DEF FullTextArrives, f
      <4> QED
        BY <3>2, <4>1, Zenon
    <3>4. replay' = Appended(f.index, f.batch)
      BY <1>1, <1>2, <3>1, <3>3, ExtractionIsComplete DEF f
    <3>5. NoDuplicates'
      BY <1>1, <1>2, <3>1, <3>4, AppendNoDuplicates DEF f
    <3>6. \A x \in DOMAIN flight' : x \in DOMAIN flight \ {c} /\ flight'[x] = flight[x]
      BY <2>1
    <3>7. \A x \in DOMAIN flight' : ~ SameKind(flight[x])'
      BY <1>1, <3>3, <3>6 DEF SameKind, TypeInv, TypeOK, FlightOK
    <3>8. DisjointReads'
      BY <1>3, <3>6, <3>7 DEF DisjointReads
    <3> QED
      BY <3>5, <3>8
  <2>3. CASE lazy.kind # "url"
    <3>1. replay' = replay /\ lazy' = lazy
      BY <1>8, <2>3 DEF FullTextArrives
    <3>2. DisjointReads'
      BY <1>4, <2>1, <3>1
    <3> QED
      BY <1>1, <3>1, <3>2 DEF NoDuplicates
  <2> QED
    BY <2>2, <2>3
<1> QED
  BY <1>6, <1>7, <1>8 DEF ReadSettles

LEMMA NoDuplicatesStep ==
  ASSUME OneBatch, NoDuplicatesInv, [SessionNext]_vars
  PROVE  NoDuplicatesInv'
<1>1. CASE UNCHANGED vars
  BY <1>1 DEF vars, NoDuplicatesInv, ShownInv, OneLog, SameKind, ShownIsLoaded, Shown,
              TypeInv, TypeOK, FlightOK, DisjointReads, NoDuplicates
<1>2. CASE SessionNext
  <2>1. ShownInv'
    BY <1>2, SessionShown DEF NoDuplicatesInv
  <2>2. \A lo, hi :
          LET ticks == lazyTicksToHydrateInRange(Index[lazy.index], lazy.loaded,
                                                 lazy.pending, lo, hi)
          IN  /\ ticks \in SUBSET Ticks(lazy.index)
              /\ ticks \cap (lazy.loaded \cup lazy.pending) = {}
    BY DEF lazyTicksToHydrateInRange, Ticks
  <2>3. UNCHANGED <<replay, lazy, flight>> => DisjointReads' /\ NoDuplicates'
    BY DEF NoDuplicatesInv, DisjointReads, SameKind, NoDuplicates
  <2>4. ASSUME NEW c \in Calls, NEW tick \in SeekInputs, SetSelectedTick(c, tick)
        PROVE  DisjointReads' /\ NoDuplicates'
    <3>1. CASE lazy.kind = "none" \/ selectedTick' \in lazy.loaded
      BY <2>3, <2>4, <3>1 DEF SetSelectedTick
    <3>2. CASE ~ (lazy.kind = "none" \/ selectedTick' \in lazy.loaded)
      <4>1. PICK hi : Hydrate(c, lazyTicksToHydrate(Index[lazy.index], lazy.loaded,
                                                     lazy.pending, hi))
        BY <2>4, <3>2 DEF SetSelectedTick
      <4> QED
        BY <2>2, <3>2, <4>1, HydrateNoDuplicates DEF lazyTicksToHydrate
    <3> QED
      BY <3>1, <3>2
  <2>5. ASSUME NEW c \in Calls, HydrateTickWindow(c)
        PROVE  DisjointReads' /\ NoDuplicates'
    <3>1. PICK lo, hi : Hydrate(c, lazyTicksToHydrateInRange(Index[lazy.index], lazy.loaded,
                                                              lazy.pending, lo, hi))
      BY <2>5 DEF HydrateTickWindow
    <3>2. lazy.kind # "none"
      BY <2>5 DEF HydrateTickWindow
    <3> QED
      BY <2>2, <3>1, <3>2, HydrateNoDuplicates
  <2>6. ASSUME NEW c \in Calls, HydrateAllLazyTicks(c)
        PROVE  DisjointReads' /\ NoDuplicates'
    <3>1. PICK hi : Hydrate(c, lazyTicksToHydrate(Index[lazy.index], lazy.loaded,
                                                   lazy.pending, hi))
      BY <2>6 DEF HydrateAllLazyTicks
    <3>2. lazy.kind # "none"
      BY <2>6 DEF HydrateAllLazyTicks
    <3> QED
      BY <2>2, <3>1, <3>2, HydrateNoDuplicates DEF lazyTicksToHydrate
  <2> QED
    BY <1>2, <2>1, <2>4, <2>5, <2>6, ReadSettlesNoDuplicates DEF SessionNext, NoDuplicatesInv
<1> QED
  BY <1>1, <1>2

LEMMA OpenedNoDuplicates ==
  ASSUME Opened
  PROVE  NoDuplicatesInv
<1>1. PICK ch : replay = <<ch>>
  BY DEF Opened
<1>2. DOMAIN replay = {1}
  BY <1>1
<1>3. DOMAIN flight = {}
  BY DEF Opened
<1> QED
  BY <1>2, <1>3, OpenedShown DEF NoDuplicatesInv, DisjointReads, NoDuplicates

\* As long as every request fits one batch, requests may overlap in any way:
\* the pending marks keep them apart and each event is appended once.  With a
\* second batch this fails, for only the batch being read is marked.
THEOREM OneBatchNoDuplicates == OneBatch => (SessionSpec => []NoDuplicates)
<1> SUFFICES ASSUME OneBatch PROVE SessionSpec => []NoDuplicates
  OBVIOUS
<1>1. NoDuplicatesInv /\ [SessionNext]_vars => NoDuplicatesInv'
  BY NoDuplicatesStep
<1>2. NoDuplicatesInv => NoDuplicates
  BY DEF NoDuplicatesInv
<1> QED
  BY <1>1, <1>2, OpenedNoDuplicates, PTL DEF SessionSpec

-----------------------------------------------------------------------------
(* Sessions whose calls never overlapped *)

\* What a lone call c has left to read: its next batch is marked and read.
Reads(c, left) ==
  IF left = {} THEN DOMAIN flight' = {} /\ lazy'.pending = {}
  ELSE /\ DOMAIN flight' = {c}
       /\ SameKind(flight[c])'
       /\ flight'[c].batch = NextBatch(Index[lazy.index], left)
       /\ flight'[c].rest = left \ flight'[c].batch
       /\ lazy'.pending = flight'[c].batch

\* A step of a lone call: some ticks arrive, others are left to read.
LoneStep(c, got, left) ==
  /\ replay' = Appended(lazy.index, got)
  /\ lazy'.loaded = lazy.loaded \cup got
  /\ Reads(c, left)

\* Nothing is read, and nothing is asked of a reader.
Idle ==
  /\ UNCHANGED <<replay, lazy>>
  /\ DOMAIN flight' = DOMAIN flight
  /\ \A x \in DOMAIN flight : flight'[x] = flight[x]

\* A request of the user for a range of ticks.
Asks(c, lo, hi) ==
  Hydrate(c, lazyTicksToHydrateInRange(Index[lazy.index], lazy.loaded, lazy.pending, lo, hi))

\* The for loop, run by the only call there is on the log on screen.
LEMMA LoneIteration ==
  ASSUME NEW c \in Calls, NEW ticks, NEW L, LazyOK(L), L.kind = Kind[lazy.index],
         L.pending = {}, NextIteration(c, lazy.index, ticks, L), DOMAIN flight \subseteq {c}
  PROVE  Reads(c, ticks) /\ lazy'.loaded = L.loaded /\ lazy'.kind = L.kind
<1>1. CASE ticks = {}
  <2>1. lazy' = L /\ flight' = [x \in DOMAIN flight \ {c} |-> flight[x]]
    BY <1>1 DEF NextIteration
  <2> QED
    BY <1>1, <2>1 DEF Reads
<1>2. CASE ticks # {}
  <2> DEFINE batch == NextBatch(Index[lazy.index], ticks)
             f == [index |-> lazy.index, source |-> L.source,
                   batch |-> batch, rest |-> ticks \ batch]
  <2>1. /\ lazy' = [L EXCEPT !.pending = @ \cup batch]
        /\ flight' = [x \in DOMAIN flight \cup {c} |-> IF x = c THEN f ELSE flight[x]]
    BY <1>2 DEF NextIteration
  <2>2. f.index = lazy.index /\ f.batch = batch /\ f.rest = ticks \ batch
    OBVIOUS
  <2> HIDE DEF f, batch
  <2>3. /\ lazy'.kind = L.kind /\ lazy'.loaded = L.loaded /\ lazy'.pending = batch
    BY <2>1 DEF LazyOK, LazyState
  <2>4. DOMAIN flight' = {c} /\ flight'[c] = f
    BY <2>1
  <2> QED
    BY <1>2, <2>2, <2>3, <2>4 DEF Reads, SameKind, batch
<1> QED
  BY <1>1, <1>2

\* A request finds nothing to read, or is served at once, or starts a lone call.
LEMMA LoneRequest ==
  ASSUME ShownInv, LoneCall, ~overlapped, ~Overlapping', NEW c \in Calls,
         NEW ticks \in SUBSET Ticks(lazy.index),
         ticks \cap (lazy.loaded \cup lazy.pending) = {}, Hydrate(c, ticks)
  PROVE  /\ lazy'.kind = lazy.kind
         /\ \/ Idle /\ ticks = {}
            \/ /\ DOMAIN flight = {}
               /\ LoneStep(c, ticks, {}) \/ LoneStep(c, {}, ticks)
<1>1. /\ LazyOK(lazy) /\ lazy.index \in Docs /\ lazy.source = lazy.index
      /\ lazy.kind \in {Kind[lazy.index], "text"}
      /\ \A x \in DOMAIN flight : Kind[flight[x].index] # "text" /\ SameKind(flight[x])
      /\ DOMAIN flight = {} => lazy.pending = {}
  BY DEF ShownInv, TypeInv, TypeOK, FlightOK, LazyOK, LazyState, OneLog, LoneCall
<1>2. CASE lazy.kind = "text"
  <2>1. /\ replay' = Appended(lazy.index, ticks)
        /\ lazy' = [lazy EXCEPT !.loaded = @ \cup ticks]
        /\ flight' = flight
    BY <1>1, <1>2, ExtractionIsComplete DEF Hydrate, HydrateLazyTextTicks
  <2>2. /\ lazy'.kind = lazy.kind /\ lazy'.pending = lazy.pending
        /\ lazy'.loaded = lazy.loaded \cup ticks
    BY <1>1, <2>1 DEF LazyOK, LazyState
  <2>3. DOMAIN flight = {}
    BY <1>1, <1>2 DEF SameKind
  <2> QED
    BY <1>1, <2>1, <2>2, <2>3 DEF LoneStep, Reads
<1>3. CASE lazy.kind # "text"
  <2>1. /\ c \notin DOMAIN flight /\ NextIteration(c, lazy.index, ticks, lazy)
        /\ replay' = replay
    BY <1>3 DEF Hydrate, EnsureTicksLoaded
  <2>2. CASE ticks = {}
    <3>1. lazy' = lazy /\ flight' = [x \in DOMAIN flight \ {c} |-> flight[x]]
      BY <2>1, <2>2 DEF NextIteration
    <3> QED
      BY <2>1, <2>2, <3>1 DEF Idle
  <2>3. CASE ticks # {}
    <3>1. DOMAIN flight' = DOMAIN flight \cup {c}
      BY <1>1, <1>3, <2>1, <2>3 DEF NextIteration
    <3>2. DOMAIN flight = {}
      BY <2>1, <3>1 DEF Overlapping
    <3>3. Reads(c, ticks) /\ lazy'.loaded = lazy.loaded /\ lazy'.kind = lazy.kind
      BY <1>1, <1>3, <2>1, <3>2, LoneIteration
    <3>4. LoneStep(c, {}, ticks)
      BY <2>1, <3>3 DEF LoneStep, Appended
    <3> QED
      BY <3>2, <3>3, <3>4
  <2> QED
    BY <2>2, <2>3
<1> QED
  BY <1>2, <1>3

\* A read that settles serves the lone call; only a failed read leaves ticks out.
LEMMA LoneRead ==
  ASSUME ShownInv, LoneCall, ~overlapped, NEW c \in Calls, ReadSettles(c)
  PROVE  /\ lazy'.kind \in {Kind[lazy.index], "text"}
         /\ c \in DOMAIN flight
         /\ LET f == flight[c]
            IN  \/ LoneStep(c, f.batch, f.rest)
                \/ LoneStep(c, f.batch \cup f.rest, {})
                \/ ReadsMayFail /\ LoneStep(c, {}, f.rest)
<1> DEFINE f == flight[c]
<1>1. /\ LazyOK(lazy) /\ lazy.index \in Docs /\ c \in DOMAIN flight /\ DOMAIN flight \subseteq {c}
      /\ f.index = lazy.index /\ f.source = lazy.index
      /\ f.batch \in SUBSET Ticks(lazy.index) /\ f.rest \in SUBSET Ticks(lazy.index)
      /\ lazy.kind = Kind[lazy.index] /\ SameKind(f)
      /\ lazy.pending = f.batch /\ f.batch \cap lazy.loaded = {}
  BY DEF ShownInv, TypeInv, TypeOK, LazyOK, LazyState, OneLog, LoneCall, SameKind, Overlapping,
         ReadSettles
<1> HIDE DEF f
<1>2. CASE ReadArrives(c)
  <2> DEFINE L == [lazy EXCEPT !.pending = @ \ f.batch, !.loaded = @ \cup f.batch]
  <2>1. /\ replay' = IF ~(f.batch \subseteq lazy.loaded)
                     THEN Appended(f.source, TicksInSlice(Index[f.source], Index[f.index], f.batch))
                     ELSE replay
        /\ NextIteration(c, f.index, f.rest, L)
    BY <1>1, <1>2 DEF ReadArrives, f
  <2>2. replay' = Appended(lazy.index, f.batch)
    <3>1. TicksInSlice(Index[f.source], Index[f.index], f.batch) = f.batch
      BY <1>1, SliceIsComplete
    <3>2. f.batch \subseteq lazy.loaded => f.batch = {}
      BY <1>1
    <3> QED
      BY <1>1, <2>1, <3>1, <3>2 DEF Appended
  <2>3. /\ LazyOK(L) /\ L.kind = lazy.kind /\ L.pending = {}
        /\ L.loaded = lazy.loaded \cup f.batch
    <3>1. L \in LazyState /\ L.kind = lazy.kind /\ L.index = lazy.index /\ L.source = lazy.source
          /\ L.pending = lazy.pending \ f.batch /\ L.loaded = lazy.loaded \cup f.batch
      BY <1>1, IndexFacts DEF LazyOK, LazyState
    <3> QED
      BY <1>1, <3>1 DEF LazyOK
  <2> HIDE DEF L
  <2>4. Reads(c, f.rest) /\ lazy'.loaded = L.loaded /\ lazy'.kind = L.kind
    BY <1>1, <2>1, <2>3, LoneIteration
  <2> QED
    BY <1>1, <2>2, <2>3, <2>4 DEF LoneStep, f
<1>3. CASE ReadFails(c)
  <2> DEFINE L == [lazy EXCEPT !.pending = @ \ f.batch]
  <2>1. /\ replay' = replay /\ ReadsMayFail
        /\ NextIteration(c, f.index, f.rest, L)
    BY <1>1, <1>3 DEF ReadFails, f
  <2>2. LazyOK(L) /\ L.kind = lazy.kind /\ L.pending = {} /\ L.loaded = lazy.loaded
    <3>1. L \in LazyState /\ L.kind = lazy.kind /\ L.index = lazy.index /\ L.source = lazy.source
          /\ L.pending = lazy.pending \ f.batch /\ L.loaded = lazy.loaded
      BY <1>1 DEF LazyOK, LazyState
    <3> QED
      BY <1>1, <3>1 DEF LazyOK
  <2> HIDE DEF L
  <2>3. Reads(c, f.rest) /\ lazy'.loaded = L.loaded /\ lazy'.kind = L.kind
    BY <1>1, <2>1, <2>2, LoneIteration
  <2>4. LoneStep(c, {}, f.rest)
    BY <2>1, <2>2, <2>3 DEF LoneStep, Appended
  <2> QED
    BY <1>1, <2>1, <2>2, <2>3, <2>4 DEF f
<1>4. CASE FullTextArrives(c)
  <2>1. lazy.kind = "url"
    BY <1>1, <1>4 DEF FullTextArrives, f
  <2>2. /\ replay' = Appended(f.source, TicksExtracted(Index[f.source], Index[lazy.index],
                                                        f.batch \cup f.rest))
        /\ lazy' = [kind |-> "text", index |-> lazy.index, source |-> f.source,
                    loaded |-> lazy.loaded \cup (f.batch \cup f.rest),
                    pending |-> lazy.pending \ (f.batch \cup f.rest)]
        /\ flight' = [x \in DOMAIN flight \ {c} |-> flight[x]]
    BY <1>4, <2>1 DEF FullTextArrives, f
  <2>3. f.batch \cup f.rest \in SUBSET Ticks(lazy.index)
    BY <1>1
  <2>4. replay' = Appended(lazy.index, f.batch \cup f.rest)
    BY <1>1, <2>2, <2>3, ExtractionIsComplete
  <2>5. /\ lazy'.kind = "text" /\ lazy'.pending = {}
        /\ lazy'.loaded = lazy.loaded \cup (f.batch \cup f.rest)
    BY <1>1, <2>2
  <2>6. DOMAIN flight' = {}
    BY <1>1, <2>2
  <2> QED
    BY <1>1, <2>4, <2>5, <2>6 DEF LoneStep, Reads, f
<1> QED
  BY <1>2, <1>3, <1>4 DEF ReadSettles

\* What a lone step appends is new, and so is what it leaves to read.
LEMMA LoneStepKeeps ==
  ASSUME ShownInv, LoneCall, ~overlapped, lazy'.index = lazy.index,
         lazy'.kind \in {Kind[lazy.index], "text"},
         NEW c, NEW got \in SUBSET Ticks(lazy.index), NEW left \in SUBSET Ticks(lazy.index),
         (got \cup left) \cap lazy.loaded = {}, got \cap left = {}, LoneStep(c, got, left)
  PROVE  LoneCall'
<1>1. /\ TypeInv /\ NoDuplicates /\ lazy.index \in Docs /\ lazy.kind # "none"
      /\ Shown = {lazy.index} \X lazy.loaded
  BY DEF ShownInv, ShownIsLoaded, TypeInv, TypeOK, LazyOK, LazyState, LoneCall
<1>2. NoDuplicates'
  <2>1. \A t \in got : <<lazy.index, t>> \notin Shown
    BY <1>1
  <2> QED
    BY <1>1, <2>1, AppendNoDuplicates DEF LoneStep
<1>3. lazy'.kind # "none"
  BY <1>1, DocsAssumption
<1>4. CASE left = {}
  BY <1>2, <1>3, <1>4 DEF LoneStep, Reads, LoneCall, Overlapping
<1>5. CASE left # {}
  <2>1. /\ DOMAIN flight' = {c} /\ SameKind(flight[c])'
        /\ flight'[c].rest = left \ flight'[c].batch
        /\ lazy'.pending = flight'[c].batch
        /\ lazy'.loaded = lazy.loaded \cup got
    BY <1>5 DEF LoneStep, Reads
  <2>2. flight'[c].batch \subseteq left
    BY <1>5 DEF LoneStep, Reads, NextBatch
  <2>3. /\ flight'[c].batch \cap lazy'.loaded = {}
        /\ flight'[c].rest \cap (lazy'.loaded \cup flight'[c].batch) = {}
    BY <2>1, <2>2
  <2>4. ~Overlapping'
    BY <2>1 DEF Overlapping
  <2> QED
    BY <1>2, <1>3, <2>1, <2>3, <2>4 DEF LoneCall
<1> QED
  BY <1>4, <1>5

\* The first entry has the least tick.
LEMMA FirstIsLeast ==
  ASSUME NEW d \in Docs
  PROVE  \A u \in Ticks(d) : ~ (u < FirstTick(Index[d])) /\ (u <= FirstTick(Index[d]) => u = FirstTick(Index[d]))
<1>1. PICK first \in Ticks(d) : \A t \in Ticks(d) : first <= t
  BY DocsAssumption DEF HasFirstAndLast, Ticks
<1>2. \A t \in Ticks(d) : FirstTick(Index[d]) <= t
  BY <1>1 DEF FirstTick, Ticks
<1> QED
  BY <1>2, IndexFacts

\* A read that settles changes the kind of the replay to "text" only.
LEMMA ReadSettlesKind ==
  ASSUME TypeInv, NEW c \in Calls, ReadSettles(c)
  PROVE  lazy'.kind \in {lazy.kind, "text"}
<1> DEFINE f == flight[c]
<1>1. lazy \in LazyState
  BY DEF TypeInv, TypeOK, LazyOK
<1>2. \A ticks, L : NextIteration(c, f.index, ticks, L) /\ L \in LazyState => lazy'.kind = L.kind
  BY DEF NextIteration, LazyState
<1>3. CASE ReadArrives(c)
  <2> DEFINE L == [lazy EXCEPT !.pending = @ \ f.batch, !.loaded = @ \cup f.batch]
  <2>1. L \in LazyState /\ L.kind = lazy.kind
    BY <1>1 DEF LazyState, ReadSettles, TypeInv, TypeOK, FlightOK, Flight
  <2> QED
    BY <1>1, <1>2, <1>3, <2>1 DEF ReadArrives
<1>4. CASE ReadFails(c)
  <2> DEFINE L == [lazy EXCEPT !.pending = @ \ f.batch]
  <2>1. L \in LazyState /\ L.kind = lazy.kind
    BY <1>1 DEF LazyState
  <2> QED
    BY <1>1, <1>2, <1>4, <2>1 DEF ReadFails
<1>5. CASE FullTextArrives(c)
  BY <1>1, <1>5 DEF FullTextArrives
<1> QED
  BY <1>3, <1>4, <1>5 DEF ReadSettles

\* What the user does within one opened replay: looks at what is loaded, asks
\* for a range that reaches the selected tick and leaves out no earlier one, or
\* waits.
LEMMA SessionCases ==
  ASSUME ShownInv, LoneCall, SessionNext
  PROVE  \/ UNCHANGED <<replay, lazy, flight>> /\ selectedTick' \in lazy.loaded
         \/ \E c \in Calls, lo, hi \in Nat :
              /\ Asks(c, lo, hi)
              /\ \A u \in Ticks(lazy.index) :
                   /\ u < lo => u <= selectedTick
                   /\ u <= selectedTick' => u <= hi
         \/ \E c \in Calls : ReadSettles(c) /\ selectedTick' = selectedTick
<1>1. /\ TypeInv /\ lazy.kind # "none" /\ lazy.index \in Docs /\ selectedTick \in Nat
      /\ Lookahead \in Nat /\ Radius \in Nat
  BY LimitsAssumption DEF ShownInv, TypeInv, TypeOK, LazyOK, LazyState, LoneCall
<1> DEFINE T == Ticks(lazy.index)
           last == MaxTick(Index[lazy.index])
<1>2. T \subseteq Nat /\ last \in Nat /\ \A u \in T : u <= last
  BY <1>1, IndexFacts
<1> HIDE DEF T, last
<1>3. ASSUME NEW c \in Calls, NEW tick \in SeekInputs, SetSelectedTick(c, tick),
             selectedTick' \notin lazy.loaded
      PROVE  \E hi \in Nat : Asks(c, 0, hi) /\ \A u \in T : u <= selectedTick' => u <= hi
  <2>1. selectedTick' \in Nat
    BY <1>1, <1>3, BoundedIsNatural, LimitsAssumption DEF SetSelectedTick
  <2> DEFINE target == IF selectedTick' + Lookahead > last THEN last ELSE selectedTick' + Lookahead
  <2>2. Asks(c, 0, target)
    BY <1>1, <1>3 DEF SetSelectedTick, Asks, lazyTicksToHydrate, last
  <2>3. target \in Nat /\ \A u \in T : u <= selectedTick' => u <= target
    <3>1. \A m, n \in Nat : m <= m + n /\ m + n \in Nat
      OBVIOUS
    <3>2. selectedTick' <= selectedTick' + Lookahead /\ selectedTick' + Lookahead \in Nat
      BY <1>1, <2>1, <3>1
    <3> QED
      BY <1>2, <2>1, <3>2
  <2> QED
    BY <2>2, <2>3
<1>4. ASSUME NEW c \in Calls, HydrateTickWindow(c)
      PROVE  \E lo, hi \in Nat : /\ Asks(c, lo, hi)
                                 /\ \A u \in T : /\ u < lo => u <= selectedTick
                                                 /\ u <= selectedTick' => u <= hi
  <2> DEFINE lo == IF selectedTick < Radius THEN 0 ELSE selectedTick - Radius
             hi == IF selectedTick + Radius > last THEN last ELSE selectedTick + Radius
  <2>1. Asks(c, lo, hi) /\ selectedTick' = selectedTick
    BY <1>4 DEF HydrateTickWindow, Asks, last
  <2>2. lo \in Nat /\ hi \in Nat
    BY <1>1, <1>2
  <2>3. \A u \in T : (u < lo => u <= selectedTick) /\ (u <= selectedTick => u <= hi)
    BY <1>1, <1>2
  <2> QED
    BY <2>1, <2>2, <2>3
<1>5. ASSUME NEW c \in Calls, HydrateAllLazyTicks(c)
      PROVE  Asks(c, 0, last)
  BY <1>5 DEF HydrateAllLazyTicks, Asks, lazyTicksToHydrate, last
<1>6. CASE \E c \in Calls, tick \in SeekInputs : SetSelectedTick(c, tick)
  <2>1. PICK c \in Calls, tick \in SeekInputs : SetSelectedTick(c, tick)
    BY <1>6
  <2>2. CASE selectedTick' \in lazy.loaded
    BY <1>1, <2>1, <2>2 DEF SetSelectedTick
  <2>3. CASE selectedTick' \notin lazy.loaded
    <3>1. PICK hi \in Nat : Asks(c, 0, hi) /\ \A u \in T : u <= selectedTick' => u <= hi
      BY <1>3, <2>1, <2>3
    <3>2. \A u \in T : ~ (u < 0)
      BY <1>2
    <3> QED
      BY <3>1, <3>2 DEF T
  <2> QED
    BY <2>2, <2>3
<1>7. CASE \E c \in Calls : HydrateTickWindow(c)
  BY <1>4, <1>7 DEF T
<1>8. CASE \E c \in Calls : HydrateAllLazyTicks(c)
  <2>1. \A u \in T : ~ (u < 0) /\ u <= last
    BY <1>2
  <2> QED
    BY <1>2, <1>5, <1>8, <2>1 DEF T
<1>9. CASE \E c \in Calls : ReadSettles(c)
  BY <1>9 DEF ReadSettles, ReadArrives, ReadFails, FullTextArrives
<1> QED
  BY <1>6, <1>7, <1>8, <1>9 DEF SessionNext

\* What a request asks for: nothing loaded, nothing being read.
LEMMA AskedTicks ==
  ASSUME NEW lo, NEW hi
  PROVE  LET ticks == lazyTicksToHydrateInRange(Index[lazy.index], lazy.loaded, lazy.pending, lo, hi)
         IN  /\ ticks \in SUBSET Ticks(lazy.index)
             /\ ticks \cap (lazy.loaded \cup lazy.pending) = {}
             /\ \A u \in Ticks(lazy.index) :
                  lo <= u /\ u <= hi => u \in lazy.loaded \cup lazy.pending \cup ticks
             /\ \A u \in ticks : lo <= u /\ u <= hi
BY DEF lazyTicksToHydrateInRange, Ticks

\* A step during which calls do not overlap keeps what is known of a lone call.
LEMMA LoneCallStep ==
  ASSUME ShownInv, LoneCall, ~overlapped, ~Overlapping', lazy'.index = lazy.index, SessionNext
  PROVE  LoneCall'
<1>1. CASE UNCHANGED <<replay, lazy, flight>>
  BY <1>1 DEF LoneCall, Overlapping, SameKind, NoDuplicates
<1>2. ASSUME NEW c \in Calls, NEW lo, NEW hi, Asks(c, lo, hi)
      PROVE  LoneCall'
  <2> DEFINE ticks == lazyTicksToHydrateInRange(Index[lazy.index], lazy.loaded, lazy.pending, lo, hi)
  <2>1. /\ ticks \in SUBSET Ticks(lazy.index)
        /\ ticks \cap (lazy.loaded \cup lazy.pending) = {}
        /\ Hydrate(c, ticks)
    BY <1>2, AskedTicks DEF Asks
  <2> HIDE DEF ticks
  <2>2. /\ lazy'.kind \in {Kind[lazy.index], "text"}
        /\ Idle \/ LoneStep(c, ticks, {}) \/ LoneStep(c, {}, ticks)
    BY <2>1, LoneRequest DEF LoneCall
  <2>3. CASE Idle
    BY <2>3 DEF Idle, LoneCall, Overlapping, SameKind, NoDuplicates
  <2>4. CASE LoneStep(c, ticks, {})
    BY <2>1, <2>2, <2>4, LoneStepKeeps
  <2>5. CASE LoneStep(c, {}, ticks)
    BY <2>1, <2>2, <2>5, LoneStepKeeps
  <2> QED
    BY <2>2, <2>3, <2>4, <2>5
<1>3. ASSUME NEW c \in Calls, ReadSettles(c)
      PROVE  LoneCall'
  <2> DEFINE f == flight[c]
  <2>1. /\ c \in DOMAIN flight /\ lazy'.kind \in {Kind[lazy.index], "text"}
        /\ \/ LoneStep(c, f.batch, f.rest)
           \/ LoneStep(c, f.batch \cup f.rest, {})
           \/ LoneStep(c, {}, f.rest)
    BY <1>3, LoneRead
  <2>2. /\ f.batch \in SUBSET Ticks(lazy.index) /\ f.rest \in SUBSET Ticks(lazy.index)
        /\ (f.batch \cup f.rest) \cap lazy.loaded = {} /\ f.batch \cap f.rest = {}
    BY <2>1 DEF ShownInv, OneLog, LoneCall
  <2> HIDE DEF f
  <2>3. CASE LoneStep(c, f.batch, f.rest)
    BY <2>1, <2>2, <2>3, LoneStepKeeps
  <2>4. CASE LoneStep(c, f.batch \cup f.rest, {})
    <3>1. f.batch \cup f.rest \in SUBSET Ticks(lazy.index)
      BY <2>2
    <3> QED
      BY <2>1, <2>2, <2>4, <3>1, LoneStepKeeps
  <2>5. CASE LoneStep(c, {}, f.rest)
    BY <2>1, <2>2, <2>5, LoneStepKeeps
  <2> QED
    BY <2>1, <2>3, <2>4, <2>5
<1> QED
  BY <1>1, <1>2, <1>3, SessionCases

LEMMA SequentialStep ==
  ASSUME SequentialInv, [HistoryNext]_historyVars
  PROVE  SequentialInv'
<1>1. CASE UNCHANGED historyVars
  BY <1>1 DEF historyVars, vars, SequentialInv, ShownInv, OneLog, SameKind, ShownIsLoaded, Shown,
              TypeInv, TypeOK, FlightOK, LoneCall, Overlapping, NoDuplicates
<1>2. CASE HistoryNext
  <2>1. SessionNext /\ ShownInv /\ LoneCall /\ ShownInv' /\ lazy'.index = lazy.index
    BY <1>2, SessionShown DEF HistoryNext, SequentialInv, Progress
  <2>2. CASE overlapped'
    <3>1. lazy'.kind \in {Kind[lazy'.index], "text"} /\ lazy'.kind # "none"
      <4>1. lazy.kind \in {Kind[lazy.index], "text"} /\ LazyOK(lazy) /\ lazy.kind # "none"
            /\ lazy'.kind # "none"
        BY <2>1, SessionShown DEF ShownInv, TypeInv, TypeOK, LoneCall, Progress
      <4>2. \A c, d, ticks, L : NextIteration(c, d, ticks, L) /\ LazyOK(L) => lazy'.kind = L.kind
        BY DEF NextIteration, LazyOK, LazyState
      <4>3. ASSUME NEW c \in Calls, NEW ticks, Hydrate(c, ticks) PROVE lazy'.kind = lazy.kind
        BY <4>1, <4>2, <4>3 DEF Hydrate, HydrateLazyTextTicks, EnsureTicksLoaded, LazyOK, LazyState
      <4>4. ASSUME NEW c \in Calls, ReadSettles(c)
            PROVE  lazy'.kind \in {lazy.kind, "text"}
        BY <2>1, <4>1, <4>4, ReadSettlesKind DEF ShownInv
      <4> QED
        BY <2>1, <4>1, <4>3, <4>4, SessionCases DEF Asks
    <3> QED
      BY <2>1, <2>2, <3>1 DEF SequentialInv, LoneCall
  <2>3. CASE ~overlapped'
    <3>1. ~overlapped /\ ~Overlapping'
      BY <1>2, <2>3 DEF HistoryNext
    <3> QED
      BY <2>1, <3>1, LoneCallStep DEF SequentialInv
  <2> QED
    BY <2>2, <2>3
<1> QED
  BY <1>1, <1>2

LEMMA OpenedSequential ==
  ASSUME HistoryInit
  PROVE  SequentialOrderInv
<1>1. ShownInv /\ DOMAIN flight = {}
  BY OpenedShown DEF HistoryInit, Opened
<1>2. PICK d \in Docs :
        LET first == FirstTick(Index[d])
        IN  /\ replay = <<[doc |-> d, ticks |-> {first}]>>
            /\ lazy = [kind |-> Kind[d], index |-> d, source |-> d,
                       loaded |-> {first}, pending |-> {}]
            /\ selectedTick = first
  BY DEF HistoryInit, Opened
<1> DEFINE first == FirstTick(Index[d])
<1>3. /\ replay = <<[doc |-> d, ticks |-> {first}]>> /\ DOMAIN replay = {1}
      /\ lazy.kind = Kind[d] /\ lazy.index = d /\ lazy.loaded = {first} /\ lazy.pending = {}
      /\ selectedTick = first
  BY <1>2
<1>4. \A u \in Ticks(d) : ~ (u < first) /\ (u <= first => u = first)
  BY FirstIsLeast
<1> HIDE DEF first
<1>5. LoneCall
  BY <1>1, <1>3, DocsAssumption DEF LoneCall, Overlapping, NoDuplicates
<1>6. LoadedInOrder
  BY <1>1, <1>3, <1>4 DEF LoadedInOrder, ChunksInOrder, FirstTicks
<1> QED
  BY <1>1, <1>5, <1>6 DEF SequentialOrderInv, SequentialInv

-----------------------------------------------------------------------------
(* The order in which a lone call loads ticks *)

\* The next batch has the first of the ticks that are left.
LEMMA BatchIsFirstTicks ==
  ASSUME NEW d \in Docs, NEW ticks \in SUBSET Ticks(d), NEW t \in NextBatch(Index[d], ticks),
         NEW u \in ticks, u < t
  PROVE  u \in NextBatch(Index[d], ticks)
<1> DEFINE UpTo(n) == {v \in ticks : v <= n}
<1>1. (\A v \in ticks : v \in Nat) /\ t \in ticks /\ t \in Nat /\ u \in Nat
  BY IndexFacts DEF NextBatch
<1>2. Cardinality(UpTo(u)) <= BatchTickLimit
  <2>1. IsFiniteSet(UpTo(t))
    <3>1. \A v \in ticks : v <= t => v \in 0 .. t
      BY <1>1
    <3>2. UpTo(t) \subseteq 0 .. t
      BY <3>1
    <3>3. IsFiniteSet(0 .. t)
      BY <1>1, FS_Interval
    <3> QED
      BY <3>2, <3>3, FS_Subset
  <2>2. UpTo(u) \subseteq UpTo(t)
    <3>1. \A v \in ticks : v <= u => v <= t
      BY <1>1
    <3> QED
      BY <3>1
  <2>3. /\ Cardinality(UpTo(u)) <= Cardinality(UpTo(t))
        /\ Cardinality(UpTo(u)) \in Nat /\ Cardinality(UpTo(t)) \in Nat
    BY <2>1, <2>2, FS_Subset, FS_CardinalityType
  <2>4. Cardinality(UpTo(t)) <= BatchTickLimit
    BY DEF NextBatch
  <2> HIDE DEF UpTo
  <2> QED
    BY <2>3, <2>4, LimitsAssumption
<1>3. ASSUME NEW v \in ticks, v < u
      PROVE  Index[d][u].end - Index[d][v].start <= BatchByteLimit
  <2>1. v \in Nat /\ v < t
    BY <1>1, <1>3
  <2>2. Index[d][t].end - Index[d][v].start <= BatchByteLimit
    BY <2>1 DEF NextBatch
  <2>3. \A w \in {t, u, v} : Index[d][w].start \in Nat /\ Index[d][w].end \in Nat
    BY <1>1, IndexFacts DEF Entry
  <2>4. Index[d][u].end <= Index[d][t].start /\ Index[d][t].start <= Index[d][t].end
    BY <1>1, DocsAssumption DEF WellFormedIndex, Ticks
  <2> QED
    BY <2>2, <2>3, <2>4, LimitsAssumption
<1> QED
  BY <1>2, <1>3 DEF NextBatch

\* First ticks stay first ticks when the next batch joins them.
LEMMA BatchKeepsFirst ==
  ASSUME lazy.index \in Docs, NEW loaded \in SUBSET Ticks(lazy.index),
         NEW ticks \in SUBSET Ticks(lazy.index),
         FirstTicks(loaded), FirstTicks(loaded \cup ticks)
  PROVE  FirstTicks(loaded \cup NextBatch(Index[lazy.index], ticks))
<1> DEFINE batch == NextBatch(Index[lazy.index], ticks)
<1>1. SUFFICES ASSUME NEW t \in loaded \cup batch, NEW u \in Ticks(lazy.index), u < t
               PROVE  u \in loaded \cup batch
  BY DEF FirstTicks
<1>2. CASE t \in loaded
  BY <1>1, <1>2 DEF FirstTicks
<1>3. CASE t \in batch
  <2>1. t \in ticks
    BY <1>3 DEF NextBatch
  <2>2. u \in loaded \cup ticks
    BY <1>1, <2>1 DEF FirstTicks
  <2>3. CASE u \in ticks
    BY <1>1, <1>3, <2>3, BatchIsFirstTicks
  <2> QED
    BY <2>2, <2>3
<1> QED
  BY <1>2, <1>3

\* A chunk of ticks that follow all the loaded ones keeps the chunks in order.
LEMMA AppendInOrder ==
  ASSUME ShownInv, lazy.kind # "none", ChunksInOrder, FirstTicks(lazy.loaded),
         NEW got \in SUBSET Ticks(lazy.index), got \cap lazy.loaded = {},
         replay' = Appended(lazy.index, got)
  PROVE  ChunksInOrder'
<1> DEFINE ch == [doc |-> lazy.index, ticks |-> got]
<1>1. /\ TypeInv /\ lazy.index \in Docs /\ lazy.loaded \subseteq Ticks(lazy.index)
      /\ Shown = {lazy.index} \X lazy.loaded /\ replay \in Seq(Chunk)
  BY DEF ShownInv, TypeInv, TypeOK, LazyOK, LazyState, OneLog, ShownIsLoaded
<1>2. ch \in Chunk /\ ch.ticks = got
  BY <1>1, IndexFacts DEF Chunk
<1> HIDE DEF ch
<1>3. \A i \in DOMAIN replay : replay[i].ticks \subseteq lazy.loaded
  <2> SUFFICES ASSUME NEW i \in DOMAIN replay, NEW t \in replay[i].ticks
               PROVE  t \in lazy.loaded
    OBVIOUS
  <2>1. <<replay[i].doc, t>> \in {replay[i].doc} \X replay[i].ticks
    OBVIOUS
  <2>2. <<replay[i].doc, t>> \in Shown
    BY <2>1, Zenon DEF Shown, ShownBy
  <2> QED
    BY <1>1, <2>2
<1>4. \A t \in lazy.loaded, u \in got : t < u
  <2> SUFFICES ASSUME NEW t \in lazy.loaded, NEW u \in got, ~ (t < u)
               PROVE  FALSE
    OBVIOUS
  <2>1. t \in Nat /\ u \in Nat /\ t # u
    BY <1>1, IndexFacts
  <2>2. u < t
    BY <2>1
  <2> QED
    BY <2>2 DEF FirstTicks
<1>5. CASE got = {}
  BY <1>5 DEF Appended, ChunksInOrder
<1>6. CASE got # {}
  <2>1. replay' = Append(replay, ch)
    BY <1>6 DEF Appended, ch
  <2>2. /\ \A i \in DOMAIN replay : replay'[i] = replay[i]
        /\ replay'[Len(replay) + 1] = ch
        /\ \A i \in DOMAIN replay' : i \in DOMAIN replay \/ i = Len(replay) + 1
    BY <1>1, <1>2, <2>1, AppendChunk
  <2>3. DOMAIN replay = 1 .. Len(replay) /\ Len(replay) \in Nat
    BY <1>1
  <2>4. SUFFICES ASSUME NEW i \in DOMAIN replay', NEW j \in DOMAIN replay', i < j
                 PROVE  \A t \in replay'[i].ticks, u \in replay'[j].ticks : t < u
    BY DEF ChunksInOrder
  <2>5. CASE i \in DOMAIN replay /\ j \in DOMAIN replay
    BY <2>2, <2>4, <2>5 DEF ChunksInOrder
  <2>6. CASE i \in DOMAIN replay /\ j = Len(replay) + 1
    BY <1>2, <1>3, <1>4, <2>2, <2>6
  <2>7. ~ (i = Len(replay) + 1)
    BY <2>2, <2>3, <2>4
  <2> QED
    BY <2>2, <2>5, <2>6, <2>7
<1> QED
  BY <1>5, <1>6

\* A lone step loads and leaves first ticks that reach the selected one.
LEMMA LoneStepKeepsOrder ==
  ASSUME ShownInv, LoneCall, ~overlapped, LoadedInOrder, lazy'.index = lazy.index,
         NEW c, NEW got \in SUBSET Ticks(lazy.index), NEW left \in SUBSET Ticks(lazy.index),
         (got \cup left) \cap lazy.loaded = {},
         FirstTicks(lazy.loaded \cup got), FirstTicks(lazy.loaded \cup got \cup left),
         \A u \in Ticks(lazy.index) : u <= selectedTick' => u \in lazy.loaded \cup got \cup left,
         LoneStep(c, got, left)
  PROVE  LoadedInOrder'
<1>1. /\ lazy.kind # "none" /\ lazy.index \in Docs
      /\ lazy.loaded \subseteq Ticks(lazy.index) /\ lazy'.loaded = lazy.loaded \cup got
  BY DEF ShownInv, TypeInv, TypeOK, LazyOK, LazyState, OneLog, LoneCall, LoneStep
<1>2. ChunksInOrder'
  BY <1>1, AppendInOrder DEF LoadedInOrder, LoneStep
<1>3. \A ticks : FirstTicks(ticks)' <=> FirstTicks(ticks)
  BY DEF FirstTicks
<1>4. CASE left = {}
  <2>1. DOMAIN flight' = {} /\ Requested' = {}
    BY <1>4 DEF LoneStep, Reads, Requested
  <2> QED
    BY <1>1, <1>2, <1>4, <2>1 DEF LoadedInOrder, FirstTicks
<1>5. CASE left # {}
  <2> DEFINE batch == NextBatch(Index[lazy.index], left)
  <2>1. DOMAIN flight' = {c} /\ flight'[c].batch = batch /\ flight'[c].rest = left \ batch
    BY <1>5 DEF LoneStep, Reads
  <2>2. batch \subseteq left
    BY DEF NextBatch
  <2>3. lazy'.loaded \in SUBSET Ticks(lazy.index) /\ FirstTicks(lazy'.loaded)
        /\ FirstTicks(lazy'.loaded \cup left)
    BY <1>1
  <2>4. FirstTicks(lazy'.loaded \cup batch)
    <3>1. \A loaded \in SUBSET Ticks(lazy.index) :
            FirstTicks(loaded) /\ FirstTicks(loaded \cup left) => FirstTicks(loaded \cup batch)
      BY <1>1, BatchKeepsFirst
    <3> QED
      BY <2>3, <3>1
  <2> HIDE DEF batch
  <2>5. lazy'.loaded \cup flight'[c].batch \cup flight'[c].rest = lazy'.loaded \cup left
    BY <2>1, <2>2
  <2>6. Requested' = left
    BY <2>1, <2>2 DEF Requested
  <2>7. \A x \in DOMAIN flight' :
          /\ FirstTicks(lazy'.loaded \cup flight'[x].batch)
          /\ FirstTicks(lazy'.loaded \cup flight'[x].batch \cup flight'[x].rest)
    BY <2>1, <2>3, <2>4, <2>5
  <2>8. /\ FirstTicks(lazy.loaded)'
        /\ \A x \in DOMAIN flight' :
             /\ FirstTicks(lazy.loaded \cup flight[x].batch)'
             /\ FirstTicks(lazy.loaded \cup flight[x].batch \cup flight[x].rest)'
    BY <2>3, <2>7 DEF FirstTicks
  <2>9. \A u \in Ticks(lazy'.index) : u <= selectedTick' => u \in lazy'.loaded \cup Requested'
    BY <1>1, <2>6
  <2> QED
    BY <1>2, <2>8, <2>9 DEF LoadedInOrder
<1> QED
  BY <1>4, <1>5

\* A request extends the first ticks to the end of the range it asks for.
LEMMA RequestKeepsOrder ==
  ASSUME ShownInv, LoneCall, ~overlapped, ~Overlapping', LoadedInOrder,
         lazy'.index = lazy.index, NEW c \in Calls, NEW lo \in Nat, NEW hi \in Nat,
         Asks(c, lo, hi),
         \A u \in Ticks(lazy.index) : /\ u < lo => u <= selectedTick
                                      /\ u <= selectedTick' => u <= hi
  PROVE  LoadedInOrder'
<1> DEFINE ticks == lazyTicksToHydrateInRange(Index[lazy.index], lazy.loaded, lazy.pending, lo, hi)
<1>1. /\ lazy.index \in Docs /\ (\A u \in Ticks(lazy.index) : u \in Nat)
      /\ lazy.loaded \subseteq Ticks(lazy.index)
  BY IndexFacts DEF ShownInv, TypeInv, TypeOK, LazyOK, LazyState, OneLog, LoneCall
<1>2. /\ ticks \in SUBSET Ticks(lazy.index)
      /\ ticks \cap (lazy.loaded \cup lazy.pending) = {}
      /\ \A u \in Ticks(lazy.index) :
           lo <= u /\ u <= hi => u \in lazy.loaded \cup lazy.pending \cup ticks
      /\ \A u \in ticks : u <= hi
  BY AskedTicks
<1>3. Hydrate(c, ticks)
  BY DEF Asks
<1> HIDE DEF ticks
<1>4. \/ Idle /\ ticks = {}
      \/ DOMAIN flight = {} /\ (LoneStep(c, ticks, {}) \/ LoneStep(c, {}, ticks))
  BY <1>2, <1>3, LoneRequest
<1>5. \A u \in Ticks(lazy.index) : u < lo => u \in lazy.loaded \cup Requested
  BY DEF LoadedInOrder
<1>6. \A u \in Ticks(lazy.index) : u < lo \/ lo <= u
  BY <1>1
<1>7. CASE Idle /\ ticks = {}
  <2>1. lazy.pending \subseteq Requested
    <3>1. CASE DOMAIN flight = {}
      BY <3>1 DEF LoneCall
    <3>2. CASE DOMAIN flight # {}
      <4>1. PICK x \in DOMAIN flight : lazy.pending = flight[x].batch
        BY <3>2 DEF LoneCall
      <4> QED
        BY <4>1 DEF Requested
    <3> QED
      BY <3>1, <3>2
  <2>2. \A u \in Ticks(lazy.index) : u <= selectedTick' => u \in lazy.loaded \cup Requested
    BY <1>2, <1>5, <1>6, <1>7, <2>1
  <2>3. Requested' = Requested
    BY <1>7 DEF Idle, Requested
  <2>4. \A u \in Ticks(lazy'.index) : u <= selectedTick' => u \in lazy'.loaded \cup Requested'
    BY <1>7, <2>2, <2>3 DEF Idle
  <2>5. \A S : FirstTicks(S)' <=> FirstTicks(S)
    BY DEF FirstTicks
  <2>6. ChunksInOrder' /\ FirstTicks(lazy.loaded)'
    BY <1>7 DEF Idle, LoadedInOrder, ChunksInOrder, FirstTicks
  <2>7. \A x \in DOMAIN flight' :
          /\ FirstTicks(lazy.loaded \cup flight[x].batch)'
          /\ FirstTicks(lazy.loaded \cup flight[x].batch \cup flight[x].rest)'
    BY <1>7 DEF Idle, LoadedInOrder, FirstTicks
  <2> QED
    BY <2>4, <2>6, <2>7 DEF LoadedInOrder
<1>8. CASE DOMAIN flight = {} /\ (LoneStep(c, ticks, {}) \/ LoneStep(c, {}, ticks))
  <2>1. Requested = {} /\ lazy.pending = {}
    BY <1>8 DEF LoneCall, Requested
  <2>2. FirstTicks(lazy.loaded)
    BY DEF LoadedInOrder
  <2>3. ASSUME NEW t \in ticks, NEW u \in Ticks(lazy.index), u < t
        PROVE  u \in lazy.loaded \cup ticks
    <3>1. u <= hi
      <4>1. t \in Nat /\ u \in Nat /\ t <= hi
        BY <1>1, <1>2
      <4> QED
        BY <2>3, <4>1
    <3> QED
      BY <1>2, <1>5, <1>6, <2>1, <3>1
  <2>4. FirstTicks(lazy.loaded \cup ticks)
    BY <2>2, <2>3 DEF FirstTicks
  <2>5. \A u \in Ticks(lazy.index) : u <= selectedTick' => u \in lazy.loaded \cup ticks
    BY <1>2, <1>5, <1>6, <2>1
  <2>6. /\ lazy.loaded \cup ticks \cup {} = lazy.loaded \cup ticks
        /\ lazy.loaded \cup {} \cup ticks = lazy.loaded \cup ticks
        /\ lazy.loaded \cup {} = lazy.loaded
        /\ (ticks \cup {}) \cap lazy.loaded = {} /\ ({} \cup ticks) \cap lazy.loaded = {}
    BY <1>2
  <2>7. CASE LoneStep(c, ticks, {})
    BY <1>2, <2>4, <2>5, <2>6, <2>7, LoneStepKeepsOrder
  <2>8. CASE LoneStep(c, {}, ticks)
    BY <1>2, <2>2, <2>4, <2>5, <2>6, <2>8, LoneStepKeepsOrder
  <2> QED
    BY <1>8, <2>7, <2>8
<1> QED
  BY <1>4, <1>7, <1>8

\* A read that does not fail extends the first ticks by the next ones.
LEMMA ReadKeepsOrder ==
  ASSUME ReadsMayFail = FALSE, ShownInv, LoneCall, ~overlapped, LoadedInOrder,
         lazy'.index = lazy.index, NEW c \in Calls, ReadSettles(c), selectedTick' = selectedTick
  PROVE  LoadedInOrder'
<1> DEFINE f == flight[c]
           left == f.batch \cup f.rest
<1>1. /\ c \in DOMAIN flight
      /\ LoneStep(c, f.batch, f.rest) \/ LoneStep(c, left, {})
  BY LoneRead
<1>2. /\ f.batch \in SUBSET Ticks(lazy.index) /\ f.rest \in SUBSET Ticks(lazy.index)
      /\ left \cap lazy.loaded = {}
      /\ DOMAIN flight = {c}
  BY <1>1 DEF ShownInv, OneLog, LoneCall, Overlapping
<1>3. Requested = left
  BY <1>2 DEF Requested
<1>4. FirstTicks(lazy.loaded \cup f.batch) /\ FirstTicks(lazy.loaded \cup f.batch \cup f.rest)
  BY <1>1 DEF LoadedInOrder
<1>5. \A u \in Ticks(lazy.index) : u <= selectedTick' => u \in lazy.loaded \cup left
  BY <1>3 DEF LoadedInOrder
<1> HIDE DEF f
<1>6. /\ lazy.loaded \cup f.batch \cup f.rest = lazy.loaded \cup left
      /\ lazy.loaded \cup left \cup {} = lazy.loaded \cup left
      /\ left \in SUBSET Ticks(lazy.index) /\ left \cup {} = left
  BY <1>2
<1>7. CASE LoneStep(c, f.batch, f.rest)
  BY <1>2, <1>4, <1>5, <1>6, <1>7, LoneStepKeepsOrder
<1>8. CASE LoneStep(c, left, {})
  <2> HIDE DEF left
  <2> QED
    BY <1>2, <1>4, <1>5, <1>6, <1>8, LoneStepKeepsOrder
<1> QED
  BY <1>1, <1>7, <1>8

LEMMA SequentialOrderStep ==
  ASSUME ReadsMayFail = FALSE, SequentialOrderInv, [HistoryNext]_historyVars
  PROVE  SequentialOrderInv'
<1>1. SequentialInv'
  BY SequentialStep DEF SequentialOrderInv
<1>2. SUFFICES ASSUME ~overlapped' PROVE LoadedInOrder'
  BY <1>1 DEF SequentialOrderInv
<1>3. CASE UNCHANGED historyVars
  <2>1. LoadedInOrder
    BY <1>2, <1>3 DEF historyVars, SequentialOrderInv
  <2> QED
    BY <1>3, <2>1 DEF historyVars, vars, LoadedInOrder, ChunksInOrder, FirstTicks, Requested
<1>4. CASE HistoryNext
  <2>1. /\ SessionNext /\ ShownInv /\ LoneCall /\ ~overlapped /\ ~Overlapping'
        /\ LoadedInOrder /\ lazy'.index = lazy.index
    BY <1>2, <1>4, SessionShown DEF HistoryNext, SequentialOrderInv, SequentialInv, Progress
  <2>2. CASE UNCHANGED <<replay, lazy, flight>> /\ selectedTick' \in lazy.loaded
    <3>1. selectedTick' \in Ticks(lazy.index) /\ \A u \in Ticks(lazy.index) : u \in Nat
      BY <2>1, <2>2, IndexFacts DEF ShownInv, OneLog, TypeInv, TypeOK, LazyOK, LazyState, LoneCall
    <3>2. \A u \in Ticks(lazy.index) : u <= selectedTick' => u < selectedTick' \/ u = selectedTick'
      BY <3>1
    <3>3. \A u \in Ticks(lazy.index) : u <= selectedTick' => u \in lazy.loaded
      BY <2>1, <2>2, <3>2 DEF LoadedInOrder, FirstTicks
    <3> QED
      BY <2>1, <2>2, <3>3 DEF LoadedInOrder, ChunksInOrder, FirstTicks, Requested
  <2> QED
    BY <2>1, <2>2, SessionCases, RequestKeepsOrder, ReadKeepsOrder
<1> QED
  BY <1>3, <1>4

\* With chunks in order, the last one with a point up to a tick is that of the tick.
LEMMA OrderGivesStatus ==
  ASSUME ShownInv, lazy.kind # "none", ChunksInOrder
  PROVE  StatusIsOfTheTick
<1>1. /\ lazy.index \in Docs /\ replay \in Seq(Chunk)
      /\ Shown = {lazy.index} \X lazy.loaded
  BY DEF ShownInv, TypeInv, TypeOK, LazyOK, LazyState, ShownIsLoaded
<1>2. SUFFICES ASSUME NEW t \in lazy.loaded PROVE StatusShownAt(t) = t
  BY DEF StatusIsOfTheTick
<1>3. PICK k \in DOMAIN replay : t \in replay[k].ticks
  <2>1. <<lazy.index, t>> \in Shown
    BY <1>1
  <2>2. \E i \in DOMAIN replay : <<lazy.index, t>> \in {replay[i].doc} \X replay[i].ticks
    BY <2>1, Zenon DEF Shown, ShownBy
  <2> QED
    BY <2>2
<1>4. /\ DOMAIN replay = 1 .. Len(replay) /\ Len(replay) \in Nat
      /\ \A i \in DOMAIN replay : \A u \in replay[i].ticks : u \in Nat
  <2>1. \A i \in DOMAIN replay : replay[i] \in Chunk
    BY <1>1
  <2>2. \A i \in DOMAIN replay : replay[i].ticks \in SUBSET Nat
    BY <2>1 DEF Chunk
  <2> QED
    BY <1>1, <2>2
<1> DEFINE upTo(i) == {u \in replay[i].ticks : u <= t}
           IsLast(i) == upTo(i) # {} /\ \A j \in DOMAIN replay : upTo(j) # {} => j <= i
           last == CHOOSE i \in DOMAIN replay : IsLast(i)
           IsMax(u) == \A v \in upTo(k) : v <= u
<1>5. t \in upTo(k) /\ IsMax(t)
  <2>1. t <= t
    BY <1>3, <1>4
  <2> QED
    BY <1>3, <2>1
<1>6. ASSUME NEW j \in DOMAIN replay, upTo(j) # {} PROVE j <= k
  <2>1. PICK u \in replay[j].ticks : u <= t
    BY <1>6
  <2>2. ~ (k < j)
    <3>1. k < j => t < u
      BY <1>3 DEF ChunksInOrder
    <3>2. u \in Nat /\ t \in Nat
      BY <1>3, <1>4
    <3> QED
      BY <2>1, <3>1, <3>2
  <2> QED
    BY <1>4, <2>2
<1>7. IsLast(k)
  BY <1>5, <1>6
<1>8. last = k
  <2>1. last \in DOMAIN replay /\ IsLast(last)
    BY <1>7
  <2>2. last <= k /\ k <= last
    BY <1>5, <1>6, <2>1
  <2> HIDE DEF last
  <2> QED
    BY <1>4, <2>1, <2>2
<1>9. (CHOOSE u \in upTo(k) : \A v \in upTo(k) : v <= u) = t
  <2> DEFINE m == CHOOSE u \in upTo(k) : \A v \in upTo(k) : v <= u
  <2>1. m \in upTo(k) /\ \A v \in upTo(k) : v <= m
    BY <1>5
  <2>2. m <= t /\ t <= m
    BY <1>5, <2>1
  <2>3. m \in Nat /\ t \in Nat
    BY <1>3, <1>4, <2>1
  <2> HIDE DEF m
  <2>4. m = t
    BY <2>2, <2>3
  <2> QED
    BY <2>4 DEF m
<1>10. StatusShownAt(t) = CHOOSE u \in upTo(last) : \A v \in upTo(last) : v <= u
  BY DEF StatusShownAt
<1> QED
  BY <1>8, <1>9, <1>10, Zenon

\* Whoever waits for each request to end is shown at a loaded tick the status of
\* that tick (getNodeStatusAt), however many batches a request has, as long as
\* no read fails.  A failed read leaves a gap that a later request fills out of
\* order.
THEOREM SequentialSessionsShowTheTick ==
  ReadsMayFail = FALSE => (HistorySafeSpec => []SequentialStatus)
<1> SUFFICES ASSUME ReadsMayFail = FALSE PROVE HistorySafeSpec => []SequentialStatus
  OBVIOUS
<1>1. SequentialOrderInv /\ [HistoryNext]_historyVars => SequentialOrderInv'
  BY SequentialOrderStep
<1>2. SequentialOrderInv => SequentialStatus
  BY OrderGivesStatus DEF SequentialOrderInv, SequentialInv, LoneCall, LoadedInOrder, SequentialStatus
<1> QED
  BY <1>1, <1>2, OpenedSequential, PTL DEF HistorySafeSpec

LEMMA SequentialInvHolds == HistorySafeSpec => []SequentialInv
<1>1. SequentialInv /\ [HistoryNext]_historyVars => SequentialInv'
  BY SequentialStep
<1>2. HistoryInit => SequentialInv
  BY OpenedSequential DEF SequentialOrderInv
<1> QED
  BY <1>1, <1>2, PTL DEF HistorySafeSpec

\* And, also when reads fail and when the server answers with the whole log, no
\* tick is left marked pending once the request has ended,
THEOREM SequentialSessionsEndClean == HistorySafeSpec => []SequentialNothingStuck
<1>1. SequentialInv => SequentialNothingStuck
  BY DEF SequentialInv, LoneCall, SequentialNothingStuck, NothingStuck
<1> QED
  BY <1>1, SequentialInvHolds, PTL

\* and no event is appended twice, however many batches a request has.
THEOREM SequentialSessionsAppendOnce == HistorySafeSpec => []SequentialNoDuplicates
<1>1. SequentialInv => SequentialNoDuplicates
  BY DEF SequentialInv, LoneCall, SequentialNoDuplicates
<1> QED
  BY <1>1, SequentialInvHolds, PTL

-----------------------------------------------------------------------------
(* Refinement *)

\* Every step of the store is a step, or a stuttering step, of ReplayView.
LEMMA ViewStep ==
  ASSUME OneLogPerKind, ShownInv, ShownInv', [Next]_vars
  PROVE  [View!ViewNext]_View!view
<1>1. /\ lazy.kind # "none" => Shown = {lazy.index} \X lazy.loaded
      /\ lazy'.kind # "none" => Shown' = {lazy'.index} \X lazy'.loaded
      /\ lazy.kind = "none" <=> lazy.index = NoDoc
      /\ lazy'.kind = "none" <=> lazy'.index = NoDoc
      /\ lazy'.kind # "none" => lazy'.loaded \in SUBSET Ticks(lazy'.index)
  BY DEF ShownInv, ShownIsLoaded, OneLog, TypeInv, TypeOK, LazyOK
<1>2. CASE UNCHANGED vars
  BY <1>2 DEF vars, View!view, Shown
<1>3. CASE SessionNext
  <2>1. /\ lazy'.index = lazy.index /\ lazy.loaded \subseteq lazy'.loaded
        /\ lazy'.kind = "none" <=> lazy.kind = "none"
    BY <1>3, SessionShown DEF Progress
  <2>2. CASE lazy.kind = "none"
    BY <2>1, <2>2 DEF View!view
  <2>3. CASE lazy.kind # "none"
    <3>1. lazy'.loaded \in SUBSET Ticks(lazy.index)
      BY <1>1, <2>1, <2>3
    <3>2. Shown' = Shown \cup ({lazy.index} \X lazy'.loaded)
      BY <1>1, <2>1, <2>3
    <3>3. View!Load
      BY <1>1, <2>1, <2>3, <3>1, <3>2 DEF View!Load
    <3> QED
      BY <3>3 DEF View!ViewNext
  <2> QED
    BY <2>2, <2>3
<1>4. ASSUME NEW d \in Docs, OpenLazy(d) PROVE View!ViewNext
  <2> DEFINE first == FirstTick(Index[d])
  <2>1. first \in Ticks(d)
    BY IndexFacts
  <2>2. lazy'.index = d /\ lazy'.kind # "none" /\ lazy'.loaded = {first}
    BY <1>4, DocsAssumption DEF OpenLazy
  <2> HIDE DEF first
  <2>3. Shown' = {<<d, first>>}
    BY <1>1, <2>2
  <2>4. View!OpenLog(d)
    BY <2>1, <2>2, <2>3 DEF View!OpenLog
  <2> QED
    BY <2>4 DEF View!ViewNext
<1>5. lazy' = NotLazy => View!CloseLog
  BY DEF NotLazy, View!CloseLog
<1>6. ASSUME lazy' = NotLazy PROVE View!ViewNext
  BY <1>5, <1>6 DEF View!ViewNext
<1> QED
  BY <1>2, <1>3, <1>4, <1>6 DEF Next, OpenEager, AppendLiveEvents

\* Hydration implements ReplayView: whatever is read when, what the user sees is
\* one log of which more and more becomes available.
THEOREM HydrationImplementsView == OneLogPerKind => (Spec => ImplementsView)
<1> SUFFICES ASSUME OneLogPerKind PROVE Spec => ImplementsView
  OBVIOUS
<1>1. ShownInv /\ [Next]_vars => ShownInv'
  BY ShownStep
<1>2. ShownInv /\ ShownInv' /\ [Next]_vars => [View!ViewNext]_View!view
  BY ViewStep
<1>3. Init => View!ViewInit
  BY DEF Init, NotLazy, View!ViewInit
<1> QED
  BY <1>1, <1>2, <1>3, ShownInit, PTL DEF Spec, ImplementsView, View!ViewSpec
=============================================================================
