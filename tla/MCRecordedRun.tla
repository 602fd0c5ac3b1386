--------------------------- MODULE MCRecordedRun ---------------------------
(***************************************************************************)
(* A small instance of RecordedRun: lines of two ticks and of none, one cut *)
(* short, one blank, one whose number is text, one without a contract       *)
(* version; a bundle of each kind the loader tells apart.                   *)
(***************************************************************************)
EXTENDS RecordedRun

Event(type, tick) ==
  [form |-> "object", type |-> type, tick |-> tick, seq |-> 0, seqAs |-> "number",
   version |-> TRUE, data |-> "full"]

Kinds == {
  Blank, Broken,
  Event("run_start", Absent),
  Event("tick_begin", 1),
  Event("bb_write", 2),
  Event("vla_result", Absent),
  [Event("node_status", 1) EXCEPT !.seqAs = "text"],
  [Event("tick_end", 2) EXCEPT !.version = FALSE] }

Plain == [manifest |-> "ok", contract |-> [major |-> 1, minor |-> 0],
          schema |-> [major |-> 1, minor |-> 1], extras |-> "ok", skipValidation |-> FALSE,
          validator |-> "runs", schemaFile |-> "ok"]

Bundles == {
  Plain,
  [Plain EXCEPT !.validator = "missing"],
  [Plain EXCEPT !.validator = "hangs", !.schemaFile = "broken"],
  [Plain EXCEPT !.validator = "refuses"],
  [Plain EXCEPT !.contract = [major |-> 2, minor |-> 0], !.skipValidation = TRUE],
  [Plain EXCEPT !.skipValidation = TRUE, !.extras = "broken"] }
=============================================================================
