----------------------------- MODULE EventLines -----------------------------
(***************************************************************************)
(* The lines of a run's log and what reads them as events:                  *)
(* packages/protocol/src/validate.ts, packages/replay/src/jsonl.ts and      *)
(* apps/studio/src/live.ts.                                                 *)
(*                                                                          *)
(* A text is a sequence of lines, a line a record of what the readers tell  *)
(* apart.  An event is the line it was read from.  Wording of errors is     *)
(* left out; the position of the line is kept.                              *)
(***************************************************************************)
EXTENDS Integers, SequencesExt, FiniteSetsExt

Absent == -1     \* a field the object does not have
Null == -2       \* a field whose value is null

\* The types whose schema has a tick of its own: an event of these needs one.
TickTypes == {"tick_begin", "tick_end", "node_status", "node_enter", "node_exit",
              "bb_write", "bb_delete", "bb_snapshot", "planner_call_start", "planner_call_end"}

eventTypeValues == TickTypes \cup
  {"run_start", "run_end", "episode_begin", "episode_end", "bt_def", "tick_audit", "tick_ok",
   "tick_deadline_missed", "gc_begin", "gc_end", "budget_warning", "deadline_exceeded",
   "sched_submit", "sched_start", "sched_finish", "sched_cancel", "cap_call_start",
   "cap_call_end", "planner_v1", "planner_timeout", "vla_timeout", "host_action_invalid",
   "fallback_used", "fallback_failed", "late_result_dropped", "cancel_acknowledged",
   "cancel_late", "vla_submit", "vla_poll", "vla_cancel", "vla_result",
   "async_cancel_requested", "async_cancel_acknowledged", "async_completion_dropped", "error"}

(***************************************************************************)
(* What the data of an event must have, by type: "full" data satisfies      *)
(* every reader, "bare" data is an object without the fields its type       *)
(* asks for, "none" is not an object.                                       *)
(***************************************************************************)
DataTypes == {"run_start", "bt_def", "node_status", "node_enter", "node_exit",
              "bb_write", "bb_delete", "bb_snapshot", "error"}

\* seq is a number, or the same number as text.
Line == [form : {"blank", "broken", "scalar", "object"}, type : STRING, tick : Int,
         seq : Nat, seqAs : {"number", "text"}, version : BOOLEAN, data : {"full", "bare", "none"}]

Blank == [form |-> "blank"]
Broken == [form |-> "broken"]      \* not JSON: a line cut short
Scalar == [form |-> "scalar"]      \* JSON, but no object

-----------------------------------------------------------------------------
\* envelopeSchema: contract_version is not among its fields and is dropped.
FitsEnvelope(line) ==
  /\ line.seqAs = "number" /\ line.seq > 0
  /\ line.tick \in Nat \cup {Absent}

FitsData(line) == line.data = "full" \/ (line.data = "bare" /\ line.type \notin DataTypes)

\* tryParseEvent succeeds (parseEvent throws when it does not).
isMbtEvent(line) ==
  /\ line.form = "object"
  /\ line.type \in eventTypeValues /\ FitsEnvelope(line)
  /\ line.type \in TickTypes => line.tick \in Nat
  /\ FitsData(line)

\* Lines of spaces are skipped by every reader.
Written(lines) == {i \in DOMAIN lines : lines[i].form # "blank"}
Rejected(lines) == {i \in Written(lines) : ~isMbtEvent(lines[i])}

\* The members of a sequence that are in a set, in order.
Among(seq, set) ==
  FlattenSeq([i \in DOMAIN seq |-> IF seq[i] \in set THEN <<seq[i]>> ELSE <<>>])

Events(lines) == Among(lines, {line \in ToSet(lines) : isMbtEvent(line)})

\* parseJsonlEvents: the events in order, and the lines that are none.
parseJsonlEvents(lines) == [events |-> Events(lines), errors |-> Rejected(lines)]

\* parseJsonlStrict throws at the first line that is no event, here its position.
parseJsonlStrict(lines) ==
  IF Rejected(lines) # {} THEN [events |-> <<>>, thrownAt |-> Min(Rejected(lines))]
  ELSE [events |-> Events(lines), thrownAt |-> 0]
=============================================================================
