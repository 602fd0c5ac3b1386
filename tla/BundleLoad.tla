----------------------------- MODULE BundleLoad -----------------------------
(***************************************************************************)
(* Loading a run bundle (packages/replay/src/bundle/load-bundle.ts) with    *)
(* its version gate (version-gate.ts) and its validators: the subprocess    *)
(* (validate/validate-log-subprocess.ts) that runs tools/validate_log.py,   *)
(* and the schema check that stands in for it.  The log may grow while it   *)
(* is loaded.                                                               *)
(***************************************************************************)
EXTENDS TickIndexFile

CONSTANTS Setups,    \* the bundles, options and machines a load can meet
          NoBundle   \* no load has started

\* A contract or a schema version; NoVersion does not match the expected form.
Version == [major : Nat, minor : Nat]
NoVersion == [major |-> -1, minor |-> -1]

Setup == [manifest : {"ok", "missing", "broken"},      \* broken: not JSON, or a field is missing
          contract : Version \cup {NoVersion}, schema : Version \cup {NoVersion},
          extras : {"ok", "broken"},                   \* config, seed, expected_metrics
          skipValidation : BOOLEAN,
          validator : {"runs", "missing", "refuses", "hangs"},
          schemaFile : {"ok", "broken"}]

ASSUME SetupAssumption == Setups \subseteq Setup /\ NoBundle \notin Setups

VARIABLES
  log,        \* the lines of events.jsonl
  setup,      \* what the load meets
  stage,      \* where loadBundle stands
  events,     \* the records it has read
  child,      \* the validator process: "none", "running", "killed", "exited"
  result,     \* how validateLogSubprocess settled: "none", "accepted", "refused"
  verdict     \* validation of the loaded bundle: "none", "skipped", "validator", "fallback"

loadVars == <<setup, stage, events, child, result, verdict>>

LoadInit ==
  /\ setup = NoBundle
  /\ stage = "idle"
  /\ events = <<>>
  /\ child = "none"
  /\ result = "none"
  /\ verdict = "none"

Ended == stage \in {"loaded", "failed"}

-----------------------------------------------------------------------------
\* evaluateVersionGate: only major 1 is read; a newer minor is a warning.
gateVersion(version) == version # NoVersion /\ version.major = 1
evaluateVersionGate(s) == gateVersion(s.contract) /\ gateVersion(s.schema)

\* parseEventRecord takes any object with the fields of an envelope and an object as data.
IsRecord(line) == line.form = "object" /\ line.data # "none"

\* It converts what it takes: Number("3") is 3 and Number(null) is 0.
recordOf(line) == [line EXCEPT !.seqAs = "number", !.tick = IF @ = Null THEN 0 ELSE @]

\* mbt.evt.v1.schema.json asks for contract_version and, for few types, for fields of data.
FitsSchema(line) ==
  /\ line.type \in eventTypeValues
  /\ line.version
  /\ FitsEnvelope(line)
  /\ line.data = "full" \/ (line.data = "bare" /\ line.type \notin {"run_start", "bt_def", "planner_v1"})

\* validate_log.py exits with 0 when every line of the file is a valid event.
ValidatorAccepts(lines) ==
  \A i \in Written(lines) : lines[i].form = "object" /\ FitsSchema(lines[i])

-----------------------------------------------------------------------------
Fail == stage' = "failed" /\ UNCHANGED <<setup, events, child, result, verdict>>

LoadStarts ==
  /\ stage = "idle"
  /\ setup' \in Setups
  /\ stage' = "started"
  /\ UNCHANGED <<events, child, result, verdict>>

\* loadBundle up to the optional files.
ReadManifest ==
  /\ stage = "started"
  /\ \/ /\ setup.manifest # "ok" \/ setup.extras # "ok"
        /\ Fail
     \/ /\ setup.manifest = "ok" /\ setup.extras = "ok"
        /\ stage' = "manifest"
        /\ UNCHANGED <<setup, events, child, result, verdict>>

\* The log is read once; one line that is no record, or no line at all, ends the load.
ReadEvents ==
  /\ stage = "manifest"
  /\ LET written == Among(log, {line \in ToSet(log) : line.form # "blank"})
         unusable == written = <<>> \/ ~(\A i \in DOMAIN written : IsRecord(written[i]))
     IN  \/ /\ unusable \/ ~evaluateVersionGate(setup)
            /\ Fail
         \/ /\ ~unusable /\ evaluateVersionGate(setup)
            /\ events' = [i \in DOMAIN written |-> recordOf(written[i])]
            /\ IF setup.skipValidation
               THEN /\ stage' = "loaded" /\ verdict' = "skipped"
                    /\ UNCHANGED child
               ELSE /\ stage' = "validating" /\ child' = "running"
                    /\ UNCHANGED verdict
            /\ UNCHANGED <<setup, result>>

\* The first of exit, launch error and timer settles the promise.
finish(r) == result' = IF result = "none" THEN r ELSE result

\* The process reads the log as it is by then; exit 2 when it cannot check at all.
ValidatorExits ==
  /\ child = "killed" \/ (child = "running" /\ setup.validator \in {"runs", "refuses"})
  /\ child' = "exited"
  /\ finish(IF setup.validator = "runs" /\ setup.schemaFile = "ok" /\ child = "running"
               /\ ValidatorAccepts(log)
            THEN "accepted" ELSE "refused")
  /\ UNCHANGED <<setup, stage, events, verdict>>

LaunchFails ==
  /\ child = "running" /\ setup.validator = "missing"
  /\ child' = "exited"
  /\ finish("refused")
  /\ UNCHANGED <<setup, stage, events, verdict>>

\* Faulty variant: the process is killed and its exit waited for.
TimesOutWaiting ==
  /\ child = "running"
  /\ child' = "killed"
  /\ UNCHANGED <<setup, stage, events, result, verdict>>

\* The timer kills the process and settles at once; an exit clears it.
TimesOut ==
  /\ child = "running"
  /\ child' = "killed"
  /\ finish("refused")
  /\ UNCHANGED <<setup, stage, events, verdict>>

\* Faulty variant: a log no validator could look at is loaded all the same.
ValidatedUnchecked ==
  /\ stage = "validating" /\ result # "none"
  /\ LET fallback == setup.schemaFile = "broken" \/ \A i \in DOMAIN events : FitsSchema(events[i])
     IN  /\ verdict' = IF result = "accepted" THEN "validator"
                       ELSE IF fallback THEN "fallback" ELSE "none"
         /\ stage' = IF result = "accepted" \/ fallback THEN "loaded" ELSE "failed"
  /\ UNCHANGED <<setup, events, child, result>>

\* Whatever kept the validator from accepting, the records are checked here instead.
Validated ==
  /\ stage = "validating" /\ result # "none"
  /\ LET fallback == setup.schemaFile = "ok" /\ \A i \in DOMAIN events : FitsSchema(events[i])
     IN  /\ verdict' = IF result = "accepted" THEN "validator"
                       ELSE IF fallback THEN "fallback" ELSE "none"
         /\ stage' = IF result = "accepted" \/ fallback THEN "loaded" ELSE "failed"
  /\ UNCHANGED <<setup, events, child, result>>

LoadStep == ReadManifest \/ ReadEvents \/ Validated

LoadNext == LoadStep \/ ValidatorExits \/ LaunchFails \/ TimesOut
=============================================================================
