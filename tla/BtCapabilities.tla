--------------------------- MODULE BtCapabilities ---------------------------
(***************************************************************************)
(* The capabilities a tree source needs and those a run has                 *)
(* (apps/studio/src/dsl-compiler.ts).                                       *)
(***************************************************************************)
EXTENDS BtNodes

-----------------------------------------------------------------------------
(* Capability metadata: a text, a list of entries, or an object with fields *)
(* [key, value].  "no" stands for a value that is absent, false or null.    *)

Text(word) == [type |-> "text", text |-> word, entries |-> <<>>, fields |-> {}]
Entries(entries) == [type |-> "list", text |-> "", entries |-> entries, fields |-> {}]
Fields(fields) == [type |-> "object", text |-> "", entries |-> <<>>, fields |-> fields]
Unset == Text("no")

\* capabilityNameFromObject: the first of the three fields that names one.
capabilityNameFromObject(object) ==
  LET named(key) == {f.value.text : f \in {g \in object.fields : g.key = key}} \cap Capabilities
  IN  CASE named("capability") # {} -> named("capability")
        [] named("capability") = {} /\ named("id") # {} -> named("id")
        [] OTHER -> named("name")

Containers == {"capabilities", "bundles", "provided", "available", "items"}

RECURSIVE normaliseCapabilityMetadata(_)
normaliseCapabilityMetadata(value) ==
  CASE value.type = "text" -> {value.text} \cap Capabilities
    [] value.type = "list" ->
         UNION {normaliseCapabilityMetadata(value.entries[i]) : i \in DOMAIN value.entries}
    [] OTHER ->
         capabilityNameFromObject(value)
         \cup {f.key : f \in {g \in value.fields : g.key \in Capabilities /\ g.value # Unset}}
         \cup UNION {normaliseCapabilityMetadata(f.value) :
                       f \in {g \in value.fields : g.key \in Containers}}

\* validateDslCapabilities: a warning for each required one that is missing.
validateDslCapabilities(required, available) ==
  required \ normaliseCapabilityMetadata(available)
=============================================================================
