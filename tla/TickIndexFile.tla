--------------------------- MODULE TickIndexFile ---------------------------
(***************************************************************************)
(* Building, accepting and using the tick sidecar index                     *)
(* (packages/replay/src/sidecar/tick-index.ts).                             *)
(*                                                                          *)
(* Every offset the index holds is the start of a line or the end of the    *)
(* log, so bytes are counted in lines: the offset of a line is the number   *)
(* of lines before it.  line_start is one more than byte_start.             *)
(***************************************************************************)
EXTENDS EventLines

NoFile == [form |-> "none"]          \* no sidecar was given
NotAnIndex == [form |-> "broken"]    \* JSON errors, another schema, a missing field

\* Faulty variant: each range ends after the last line of its own tick.
rangeOfOwnLines(lines, ticks, k) ==
  LET own == {i \in DOMAIN lines : lines[i].form = "object" /\ lines[i].tick = ticks[k]}
  IN  [tick |-> ticks[k], start |-> Min(own) - 1, end |-> Max(own)]

\* The first line of a tick.
firstLine(lines, tick) ==
  Min({i \in DOMAIN lines : lines[i].form = "object" /\ lines[i].tick = tick})

\* The range of the k-th tick: from its first line to the first line of the next tick.
rangeOfTick(lines, ticks, k) ==
  [tick |-> ticks[k], start |-> firstLine(lines, ticks[k]) - 1,
   end |-> IF k < Len(ticks) THEN firstLine(lines, ticks[k + 1]) - 1 ELSE Len(lines)]

\* A line that is no event makes buildTickSidecarIndex throw.
CanBuildIndex(lines) == Rejected(lines) = {}

\* The lines with a tick, and their ticks in increasing order.
Ticked(lines) == {i \in DOMAIN lines : lines[i].form = "object" /\ lines[i].tick \in Nat}
sortedTicks(lines) ==
  LET ticks == {lines[i].tick : i \in Ticked(lines)}
  IN  CHOOSE sorted \in [1 .. Cardinality(ticks) -> ticks] :
        \A i, j \in DOMAIN sorted : i < j => sorted[i] < sorted[j]

buildTickSidecarIndex(lines) ==
  LET ticks == sortedTicks(lines)
  IN  [form |-> "index",
       event_count |-> Cardinality(Written(lines)),
       max_tick |-> Max({0} \cup ToSet(ticks)),
       tick_entries |-> [k \in DOMAIN ticks |-> rangeOfTick(lines, ticks, k)]]

\* What parseTickSidecarIndex lets pass.
IsIndex(file) ==
  /\ file.form = "index"
  /\ \A k \in DOMAIN file.tick_entries :
       LET entry == file.tick_entries[k]
       IN  /\ entry.start <= entry.end
           /\ k > 1 => /\ file.tick_entries[k - 1].tick < entry.tick
                       /\ file.tick_entries[k - 1].end <= entry.start

-----------------------------------------------------------------------------
\* The lines between two offsets; Uint8Array.subarray stops at the end.
Slice(lines, start, end) == SubSeq(lines, start + 1, Min({end, Len(lines)}))

\* The result for a slice, its errors counted from the start of the log.
parseRange(lines, start, end) ==
  LET parsed == parseJsonlEvents(Slice(lines, start, end))
  IN  [events |-> parsed.events, errors |-> {start + i : i \in parsed.errors}]

bootstrapEnd(lines, index) ==
  IF index.tick_entries = <<>> THEN Len(lines) ELSE index.tick_entries[1].start

parseBootstrap(lines, index) == parseRange(lines, 0, bootstrapEnd(lines, index))

parseJsonlEventsUsingSidecar(lines, index) ==
  LET ranges == [k \in DOMAIN index.tick_entries |->
                   parseRange(lines, index.tick_entries[k].start, index.tick_entries[k].end)]
      parts == <<parseBootstrap(lines, index)>> \o ranges
  IN  [events |-> FlattenSeq([k \in DOMAIN parts |-> parts[k].events]),
       errors |-> UNION {parts[k].errors : k \in DOMAIN parts}]

\* An index that is not accepted is ignored, with a warning.
parseJsonlEventsWithOptionalSidecar(lines, file) ==
  LET used == IsIndex(file)
      parsed == IF used THEN parseJsonlEventsUsingSidecar(lines, file) ELSE parseJsonlEvents(lines)
  IN  [events |-> parsed.events, errors |-> parsed.errors, index_used |-> used,
       warning |-> file.form # "none" /\ ~used]

OfTick(events, tick) == Among(events, {event \in ToSet(events) : event.tick = tick})

\* Faulty variant: everything in the range counts as of the tick.
extractWholeRange(lines, index, tick) ==
  LET entry == CHOOSE e \in ToSet(index.tick_entries) : e.tick = tick
  IN  parseRange(lines, entry.start, entry.end).events

\* The events of one tick, for a replay that reads only some of the log.
extractTickEventsBySidecar(lines, index, tick) ==
  IF ~\E e \in ToSet(index.tick_entries) : e.tick = tick THEN <<>>
  ELSE LET entry == CHOOSE e \in ToSet(index.tick_entries) : e.tick = tick
       IN  OfTick(parseRange(lines, entry.start, entry.end).events, tick)
=============================================================================
