---------------------------- MODULE RecordedRun ----------------------------
(***************************************************************************)
(* A run being recorded, and what reads it meanwhile or afterwards: the     *)
(* index written beside the log, the chunked reader (parseJsonlStream), a   *)
(* live connection (apps/studio/src/live.ts and onmessage of App.tsx) whose *)
(* capture is saved and opened again, and loadBundle.                       *)
(*                                                                          *)
(* The runtime that records is external: it appends whole lines, numbered   *)
(* in order.  One reader looks at a run.                                    *)
(***************************************************************************)
EXTENDS BundleLoad

CONSTANTS LineKinds,   \* the lines the runtime may write, numbers aside
          MaxLines     \* bound: lines of a log

ASSUME RecordAssumption ==
  /\ LineKinds \subseteq Line \cup {Blank, Broken, Scalar}
  /\ MaxLines \in Nat

VARIABLES
  index,       \* the text of the sidecar file beside the log
  reader,      \* who looks at the run: "none", "stream", "live", "bundle"
  position,    \* stream: how far it has read
  delivered,   \* stream: the events given to onEvent
  streamEnd,   \* stream: "none", "done", or "thrown"
  sent,        \* live: lines sent as payloads so far
  decoding,    \* live: the binary payloads whose text is awaited, as line ranges
  captured     \* live: the events appended to the replay, in order

streamVars == <<position, delivered, streamEnd>>
liveVars == <<sent, decoding, captured>>
vars == <<log, index, reader, streamVars, liveVars, loadVars>>

Init ==
  /\ log = <<>>
  /\ index = NoFile
  /\ reader = "none"
  /\ position = 0 /\ delivered = <<>> /\ streamEnd = "none"
  /\ sent = 0 /\ decoding = {} /\ captured = <<>>
  /\ LoadInit

-----------------------------------------------------------------------------
(* The runtime, and the tool that writes the index.                         *)

Numbered(kind, n) == IF kind.form = "object" THEN [kind EXCEPT !.seq = n] ELSE kind

Record ==
  /\ Len(log) < MaxLines
  /\ \E kind \in LineKinds : log' = Append(log, Numbered(kind, Len(log) + 1))
  /\ UNCHANGED <<index, reader, streamVars, liveVars, loadVars>>

WriteIndex ==
  /\ reader = "none" /\ log # <<>>
  /\ index' = IF CanBuildIndex(log) THEN buildTickSidecarIndex(log) ELSE NotAnIndex
  /\ UNCHANGED <<log, reader, streamVars, liveVars, loadVars>>

StartReading ==
  /\ reader = "none" /\ log # <<>> /\ index = NoFile
  /\ \/ reader' \in {"stream", "live"} /\ UNCHANGED loadVars
     \/ reader' = "bundle" /\ LoadStarts
  /\ UNCHANGED <<log, index, streamVars, liveVars>>

-----------------------------------------------------------------------------
(* parseJsonlStream.  A chunk ends at the start of a line, inside a line,   *)
(* or at its end before the newline: position counts thirds of lines.       *)

Whole(at) == at \div 3        \* the lines before a position, with their newline

\* The events among lines from .. to, up to the first line that is none.
EventsUntilError(lines, from, to) ==
  LET part == SubSeq(lines, from, to)
      stop == IF Rejected(part) = {} THEN Len(part) ELSE Min(Rejected(part)) - 1
  IN  Events(SubSeq(part, 1, stop))

Deliver(from, to, end) ==
  /\ delivered' = delivered \o EventsUntilError(log, from, to)
  /\ streamEnd' = IF Rejected(SubSeq(log, from, to)) # {} THEN "thrown" ELSE end

\* The lines the chunk completes; the rest waits in the buffer for the next one.
ReadChunk ==
  /\ reader = "stream" /\ streamEnd = "none"
  /\ \E to \in position + 1 .. 3 * Len(log) :
       /\ position' = to
       /\ Deliver(Whole(position) + 1, Whole(to), "none")
  /\ UNCHANGED <<log, index, reader, liveVars, loadVars>>

\* Faulty variant: at the end, the buffer is not looked at.
EndStreamWithoutRest ==
  /\ reader = "stream" /\ streamEnd = "none"
  /\ position \in {3 * Len(log) - 1, 3 * Len(log)}
  /\ Deliver(Whole(position) + 1, Whole(position), "done")
  /\ UNCHANGED <<log, index, reader, position, liveVars, loadVars>>

\* At the end of the text: a last line without a newline is still in the buffer.
EndStream ==
  /\ reader = "stream" /\ streamEnd = "none"
  /\ position \in {3 * Len(log) - 1, 3 * Len(log)}
  /\ Deliver(Whole(position) + 1, Len(log), "done")
  /\ UNCHANGED <<log, index, reader, position, liveVars, loadVars>>

-----------------------------------------------------------------------------
(* A live connection.  parseLivePayload reads a payload as parseJsonlEvents *)
(* reads a log; its errors carry no line number.                            *)

parseLivePayload(lines) == parseJsonlEvents(lines)

\* A text payload is appended at once; a binary one when its text arrives.
OnMessage ==
  /\ reader = "live"
  /\ \E to \in sent + 1 .. Len(log) :
       /\ sent' = to
       /\ \/ /\ captured' = captured \o parseLivePayload(SubSeq(log, sent + 1, to)).events
             /\ UNCHANGED decoding
          \/ /\ decoding' = decoding \cup {<<sent + 1, to>>}
             /\ UNCHANGED captured
  /\ UNCHANGED <<log, index, reader, streamVars, loadVars>>

\* Faulty variant: text that comes after the text of a later payload is dropped.
DecodedInOrder ==
  /\ reader = "live"
  /\ \E payload \in decoding :
       LET found == parseLivePayload(SubSeq(log, payload[1], payload[2])).events
           late == \E i \in DOMAIN captured : captured[i].seq > payload[2]
       IN  /\ decoding' = decoding \ {payload}
           /\ captured' = IF late THEN captured ELSE captured \o found
  /\ UNCHANGED <<log, index, reader, sent, streamVars, loadVars>>

\* Texts arrive in any order.
Decoded ==
  /\ reader = "live"
  /\ \E payload \in decoding :
       /\ decoding' = decoding \ {payload}
       /\ captured' = captured \o parseLivePayload(SubSeq(log, payload[1], payload[2])).events
  /\ UNCHANGED <<log, index, reader, sent, streamVars, loadVars>>

\* The saved capture: the events, and an index built from them.
ReopenedCapture == parseJsonlEventsWithOptionalSidecar(captured, buildTickSidecarIndex(captured))

-----------------------------------------------------------------------------
LoadBundle == reader = "bundle" /\ LoadStep /\ UNCHANGED <<log, index, reader, streamVars, liveVars>>

Validator ==
  /\ ValidatorExits \/ LaunchFails
  /\ UNCHANGED <<log, index, reader, streamVars, liveVars>>

Timer == TimesOut /\ UNCHANGED <<log, index, reader, streamVars, liveVars>>

Next ==
  \/ Record \/ WriteIndex \/ StartReading
  \/ ReadChunk \/ EndStream
  \/ OnMessage \/ Decoded
  \/ LoadBundle \/ Validator \/ Timer

\* The timer fires and the loader goes on; the validator may never answer.
Spec == Init /\ [][Next]_vars /\ WF_vars(LoadBundle) /\ WF_vars(Timer)

-----------------------------------------------------------------------------
(***************************************************************************)
(* A log read with the index that was made of it shows what it shows        *)
(* without one, every event once and in order, whatever the order of the    *)
(* ticks: nothing between the ranges, before the first or without a tick is *)
(* lost (buildTickSidecarIndex, parseJsonlEventsUsingSidecar).              *)
(***************************************************************************)
FreshIndexLosesNothing ==
  CanBuildIndex(log) /\ index = buildTickSidecarIndex(log) =>
    LET read == parseJsonlEventsWithOptionalSidecar(log, index)
        all == parseJsonlEvents(log)
    IN  read.events = all.events /\ read.errors = all.errors

(***************************************************************************)
(* Expected to fail.  A stale sidecar falls back to normal parsing: the     *)
(* index beside a log that grew since takes no event from it                *)
(* (docs/studio/large-logs.md).                                             *)
(***************************************************************************)
StaleIndexFallsBack ==
  parseJsonlEventsWithOptionalSidecar(log, index).events = parseJsonlEvents(log).events

(***************************************************************************)
(* A log recorded tick by tick is shown by lazy loading one tick at a time  *)
(* as the panels count on: the lines before the first tick and then, for    *)
(* each tick, all the events of that tick that were indexed                 *)
(* (extractTickEventsBySidecar).                                            *)
(***************************************************************************)
TicksInOrder == \A i, j \in Ticked(log) : i <= j => log[i].tick <= log[j].tick

EachTickIsExtracted ==
  (IsIndex(index) /\ TicksInOrder) =>
     \A k \in DOMAIN index.tick_entries :
       LET t == index.tick_entries[k].tick
       IN  extractTickEventsBySidecar(log, index, t)
             = OfTick(SubSeq(parseJsonlEvents(log).events, 1, index.event_count), t)

(***************************************************************************)
(* However the text is cut into chunks, and though the log grows meanwhile, *)
(* the chunked reader delivers its events in order and throws exactly when  *)
(* the strict parser does, and after the same events.  When it ends, it has *)
(* delivered what that parser finds in the text read so far, its last line  *)
(* included, be that without a newline (parseJsonlStream).                  *)
(***************************************************************************)
TextRead == SubSeq(log, 1, Whole(position + 2))    \* with the line it ends in

StreamReadsTheLog ==
  /\ IsPrefix(delivered, parseJsonlEvents(log).events)
  /\ streamEnd = "thrown" => delivered = EventsUntilError(log, 1, Len(log)) /\ Rejected(log) # {}
  /\ streamEnd = "done" => LET strict == parseJsonlStrict(TextRead)
                           IN  strict.thrownAt = 0 /\ delivered = strict.events

(***************************************************************************)
(* Once no payload is awaited, a saved capture that is opened again shows   *)
(* every event that was sent, once, whether its payload was text or binary  *)
(* (onmessage, exportLiveCaptureBundle).                                    *)
(***************************************************************************)
CaptureReopensComplete ==
  decoding = {} =>
    LET shown == ReopenedCapture.events
    IN  /\ ToSet(shown) = ToSet(parseJsonlEvents(SubSeq(log, 1, sent)).events)
        /\ IsInjective(shown)

(***************************************************************************)
(* A bundle loaded with validation holds only events the schema allows,     *)
(* though the validator reads the log later than the loader and may be      *)
(* missing, refuse or hang (loadBundle, validateLogSubprocess).             *)
(***************************************************************************)
LoadedIsValid ==
  (stage = "loaded" /\ ~setup.skipValidation) =>
     events # <<>> /\ \A i \in DOMAIN events : FitsSchema(events[i])

(***************************************************************************)
(* A load that starts ends, whatever the validator does (the timer of       *)
(* validateLogSubprocess).                                                  *)
(***************************************************************************)
LoadEnds == reader = "bundle" ~> Ended

-----------------------------------------------------------------------------
(* Inductive strengthenings *)

LogLine == Line \cup {Blank, Broken, Scalar}

Prefix(n) == SubSeq(log, 1, n)

\* The log holds lines, and the objects among them are numbered in order.
LogInv ==
  /\ log \in Seq(LogLine)
  /\ \A i \in DOMAIN log : log[i].form = "object" => log[i] \in Line /\ log[i].seq = i

\* The file beside the log was built from the log as it was at some time.
IndexInv ==
  \/ index \in {NoFile, NotAnIndex}
  \/ \E n \in DOMAIN log : CanBuildIndex(Prefix(n)) /\ index = buildTickSidecarIndex(Prefix(n))

\* What was delivered are the events of the lines before some place in the log:
\* before the position as long as the reader goes on, before a line that is no
\* event if it threw, and before the end of the text if it ended.
StreamInv ==
  /\ position \in 0 .. 3 * Len(log)
  /\ reader = "stream" => log # <<>>
  /\ streamEnd \in {"none", "done", "thrown"}
  /\ \E n \in 0 .. Len(log) :
       /\ delivered = Events(Prefix(n))
       /\ streamEnd = "none" => n = Whole(position)
       /\ streamEnd = "done" => n = Whole(position + 2)
       /\ streamEnd = "thrown" => n + 1 \in Rejected(log)
       /\ Rejected(Prefix(n)) = {}

\* Line k came in a binary payload whose text is awaited.
Awaited(k) == \E payload \in decoding : payload[1] <= k /\ k <= payload[2]

\* Every event that was sent was captured, once, or is awaited, in one payload.
CaptureInv ==
  /\ sent \in 0 .. Len(log)
  /\ decoding \subseteq (1 .. sent) \X (1 .. sent)
  /\ \A p \in decoding : p[1] <= p[2]
  /\ \A p, q \in decoding : p # q => p[2] < q[1] \/ q[2] < p[1]
  /\ captured \in Seq(LogLine)
  /\ IsInjective(captured)
  /\ ToSet(captured) = {log[k] : k \in {i \in 1 .. sent : isMbtEvent(log[i]) /\ ~Awaited(i)}}

\* The records come from the log, and are valid once the validator accepted.
LoadInv ==
  /\ stage \in {"idle", "started", "manifest"} => child = "none"
  /\ child = "none" => result = "none"
  /\ stage \in {"validating", "loaded"} \/ child # "none" =>
       events # <<>> /\ \A i \in DOMAIN events : \E j \in Written(log) : events[i] = recordOf(log[j])
  /\ result = "accepted" \/ (stage = "loaded" /\ ~setup.skipValidation) =>
       \A i \in DOMAIN events : FitsSchema(events[i])
=============================================================================
