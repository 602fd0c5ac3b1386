------------------------------ MODULE DslEditor ------------------------------
(***************************************************************************)
(* Editing the tree of a replay: the tree source panel                      *)
(* (apps/studio/src/components/DslEditor.tsx), the override it puts on the  *)
(* replay (apps/studio/src/store.ts) and the edit evidence that App.tsx     *)
(* keeps for the next evidence bundle.                                      *)
(*                                                                          *)
(* A step is an event handler together with the effects React runs before   *)
(* the next event: the editor starts over whenever the source of the tree   *)
(* shown is another one, and whenever it is mounted.  Messages, and saving   *)
(* the draft to a file, change nothing else and are left out.               *)
(***************************************************************************)
EXTENDS BtDiff

\* What the editor calls: compileBtDsl and validateDslCapabilities, which the
\* runs put in their place (BtDsl).
CONSTANTS Compile(_), MissingCapabilities(_, _)

CONSTANTS Runs,        \* the logs that may be opened
          SourceOf,    \* the tree source in the bt_def of a run; <<>> when there is none
          RecordedOf,  \* the nodes and edges in the bt_def of a run
          HistoryOf,   \* the ids of the nodes a run has events of
          MetadataOf,  \* the capability metadata in the run_start of a run
          Drafts,      \* the texts a user may type
          NoText, NoTree, NoEvidence

\* compiledToPreviewTreeDefinition keeps the nodes and the edges.
definitionOf(compiled) == [nodes |-> compiled.nodes, edges |-> compiled.edges]

\* The texts there are: a draft was typed, or is the source of a run.
Texts == Drafts \cup {SourceOf[r] : r \in Runs}

\* Which texts compile, and the trees they compile to.
Compiles(text) == Compile(text).error = "none"
TreeOf(text) == definitionOf(Compile(text))

ASSUME CompiledTreesAreTrees == \A text \in Texts : Compiles(text) => IsTree(TreeOf(text))
ASSUME NoTextIsNoText == NoText \notin Texts

VARIABLES run,          \* the replay on screen
          override,     \* btDefOverrideEvent: the source applied over it, or NoText
          place,        \* where the editor is mounted: "sidebar", "presentation" or "nowhere"
          draft,        \* draftDsl
          preview,      \* previewCompiled, previewSource and previewDiff, and, for the
                        \* properties, the tree that the diff was made of
          diagnostics,  \* previewDiagnostics, by kind
          evidence      \* editEvidenceArtifact, in App

vars == <<run, override, place, draft, preview, diagnostics, evidence>>

NoPreview == [source |-> NoText, diff |-> {}, tree |-> NoTree]

Places == {"sidebar", "presentation", "nowhere"}

RowsOf(diff, type) == {row \in diff : row.type = type}

\* The rows from the tree shown to the tree of a draft.
buildBtStructureDiff(current, changed) == diffOfMaps(toPathMap(current), toPathMap(changed))

\* The source of the tree shown, and currentDefinition: the nodes and edges that
\* were recorded, whatever the source beside them would compile to, or those that
\* were applied.
sourceDsl == IF override = NoText THEN SourceOf[run] ELSE override
treeShown == IF override = NoText THEN RecordedOf[run] ELSE TreeOf(override)

Mounted == place # "nowhere"

\* Without a source, the panel has no text area and no buttons.
Editable == Mounted /\ sourceDsl # <<>>

\* onEditEvidenceChange, which only the editor in the sidebar is given.
Reported(artifact) == IF place = "sidebar" THEN artifact ELSE evidence

-----------------------------------------------------------------------------

\* buildMismatchDiagnostics: nodes of the tree with history in the run that
\* the draft removes or changes.
buildMismatchDiagnostics(diff, history) ==
  {row.before : row \in RowsOf(diff, "removed") \cup RowsOf(diff, "changed")} \cap history

\* The diagnostics of onPreview, for a draft that compiles.
DiagnosticsOf(compiled, diff, r) ==
  {"unstable-identity" : x \in {1} \cap 1 .. compiled.unstable}
  \cup {"capability" : c \in MissingCapabilities(compiled.required, MetadataOf[r])}
  \cup {"run-mismatch" : n \in buildMismatchDiagnostics(diff, HistoryOf[r])}

buildEditEvidenceArtifact(source, diff, kinds, applied) ==
  [draft_source |-> source, structural_diff |-> diff, diagnostics |-> kinds,
   applied_preview |-> applied]

\* The effect on sourceDsl, and the state of an editor just mounted.
StartsOver(source) ==
  /\ draft' = source
  /\ preview' = NoPreview
  /\ diagnostics' = {}

Init ==
  /\ run \in Runs /\ override = NoText
  /\ place = "nowhere"
  /\ draft = SourceOf[run] /\ preview = NoPreview /\ diagnostics = {}
  /\ evidence = NoEvidence

\* Faulty variant: a preview outlives the draft it was made of.
TypeKeepingPreview(text) ==
  /\ Editable /\ text # draft
  /\ draft' = text
  /\ UNCHANGED <<run, override, place, preview, diagnostics, evidence>>

\* onChange of the text area.
Type(text) ==
  /\ Editable /\ text # draft
  /\ draft' = text
  /\ IF preview # NoPreview /\ text = preview.source
     THEN UNCHANGED <<preview, diagnostics, evidence>>
     ELSE /\ preview' = NoPreview
          /\ diagnostics' = {}
          /\ evidence' = Reported(NoEvidence)
  /\ UNCHANGED <<run, override, place>>

canPreview == /\ draft # <<>> /\ draft # sourceDsl
              /\ (preview # NoPreview => preview.source # draft)

onPreview ==
  /\ Editable /\ canPreview
  /\ LET compiled == Compile(draft)
         diff == buildBtStructureDiff(treeShown, definitionOf(compiled))
         kinds == DiagnosticsOf(compiled, diff, run)
     IN  IF compiled.error # "none"
         THEN /\ preview' = NoPreview
              /\ diagnostics' = {compiled.error}
              /\ evidence' = Reported(NoEvidence)
         ELSE /\ preview' = [source |-> draft, diff |-> diff, tree |-> treeShown]
              /\ diagnostics' = kinds
              /\ evidence' = Reported(buildEditEvidenceArtifact(draft, diff, kinds, FALSE))
  /\ UNCHANGED <<run, override, place, draft>>

\* Applying makes the draft the source of the tree shown, so the editor starts
\* over and takes the evidence just reported back.
onApplyPreview ==
  /\ Editable /\ preview # NoPreview /\ preview.source = draft
  /\ override' = draft
  /\ IF draft # sourceDsl
     THEN StartsOver(draft) /\ evidence' = Reported(NoEvidence)
     ELSE /\ evidence' = Reported(buildEditEvidenceArtifact(draft, preview.diff, diagnostics, TRUE))
          /\ UNCHANGED <<draft, preview, diagnostics>>
  /\ UNCHANGED <<run, place>>

onRevert ==
  /\ Editable /\ (draft # sourceDsl \/ override # NoText)
  /\ override' = NoText
  /\ draft' = SourceOf[run]
  /\ preview' = NoPreview
  /\ diagnostics' = {}
  /\ evidence' = Reported(NoEvidence)
  /\ UNCHANGED <<run, place>>

-----------------------------------------------------------------------------

\* Faulty variant: the evidence stays when another run is opened.
EvidenceKept(r, artifact) == artifact

\* The effect of App on the run_id of the replay.
EvidenceOfRun(r, artifact) == IF r # run THEN NoEvidence ELSE artifact

\* A log is opened, or the bt_def of the run on screen arrives again: the
\* override goes.
DefinitionArrives(r) ==
  /\ run' = r /\ override' = NoText
  /\ IF Mounted /\ SourceOf[r] # sourceDsl
     THEN StartsOver(SourceOf[r]) /\ evidence' = EvidenceOfRun(r, Reported(NoEvidence))
     ELSE /\ UNCHANGED <<preview, diagnostics>>
          /\ draft' = IF Mounted THEN draft ELSE SourceOf[r]
          /\ evidence' = EvidenceOfRun(r, evidence)
  /\ UNCHANGED <<place>>

\* The panel is minimised or restored, or a presentation layout is opened or
\* closed: an editor is unmounted with its draft, and one that is mounted in
\* the sidebar reports that there is no evidence.
Mount(p) ==
  /\ p # place
  /\ place' = p
  /\ StartsOver(sourceDsl)
  /\ evidence' = IF p = "sidebar" THEN NoEvidence ELSE evidence
  /\ UNCHANGED <<run, override>>

\* exportEvidenceBundle shows other layouts for its screenshots and then the
\* former one, which mounts the editor anew.
CaptureLayouts ==
  /\ Mounted
  /\ StartsOver(sourceDsl)
  /\ evidence' = Reported(NoEvidence)
  /\ UNCHANGED <<run, override, place>>

Next ==
  \/ \E text \in Drafts : Type(text)
  \/ onPreview \/ onApplyPreview \/ onRevert
  \/ \E r \in Runs : DefinitionArrives(r)
  \/ \E p \in Places : Mount(p)
  \/ CaptureLayouts

Spec == Init /\ [][Next]_vars
-----------------------------------------------------------------------------
(* Properties *)

\* The trees that may be on screen with a text as their source: those recorded
\* beside it, and the one it compiles to.
TreesOf(text) ==
  {RecordedOf[r] : r \in {q \in Runs : SourceOf[q] = text}}
  \cup {TreeOf(t) : t \in {u \in {text} : Compiles(u)}}

\* Whatever was typed, applied, reverted or loaded since a preview was made, it is
\* of the draft in the editor, which is not yet applied, and its diff starts from a
\* tree with the source on screen (canApplyPreview, the effect on sourceDsl).  That
\* tree need not be the one on screen: a definition with the same source and other
\* nodes leaves the preview, with the diff from the former tree.
PreviewIsCurrent ==
  preview # NoPreview =>
    /\ preview.source = draft /\ draft # sourceDsl /\ Compiles(draft)
    /\ preview.tree \in TreesOf(sourceDsl)
    /\ preview.diff = buildBtStructureDiff(preview.tree, TreeOf(draft))

\* While the editor is in the sidebar, evidence of an edit that was not applied is
\* that of the preview on screen, with the diagnostics of the run on screen
\* (onEditEvidenceChange, the effect on run_id in App).
EvidenceIsCurrent ==
  evidence # NoEvidence /\ evidence.applied_preview = FALSE /\ place = "sidebar" =>
    /\ preview # NoPreview
    /\ evidence = buildEditEvidenceArtifact(draft, preview.diff,
                                            DiagnosticsOf(Compile(draft), preview.diff, run), FALSE)

\* Expected to fail.  While an edit made in the sidebar is applied, there is
\* evidence for the next bundle (docs/studio/evidence-bundles.md, DslEditor.test.tsx).
AppliedEditHasEvidence ==
  place = "sidebar" /\ override # NoText => evidence # NoEvidence

\* Every node is paired with one node at most: leaving out the removed and
\* putting in the added nodes turns the number of nodes of the tree a preview
\* starts from into that of the draft (matchUnpairedNodes, buildBtStructureDiff).
\* It is said of recorded trees that are numbered as compiled ones are.
DiffBalances ==
  preview # NoPreview /\ IsTree(preview.tree) =>
    Len(preview.tree.nodes) - Cardinality(RowsOf(preview.diff, "removed"))
      = Len(TreeOf(draft).nodes) - Cardinality(RowsOf(preview.diff, "added"))

\* A reordering of leaves with names of their own (LeavesReordered) is told as
\* that one row, and draws no run mismatch (rowForSamePath, the matching among
\* reordered children, buildMismatchDiagnostics).
PureReorderIsOneRow ==
  preview # NoPreview /\ IsTree(preview.tree) =>
    LET was == toPathMap(preview.tree)
        now == toPathMap(TreeOf(draft))
    IN  \A p \in DOMAIN was \cap DOMAIN now : LeavesReordered(was, now, p) =>
          /\ preview.diff = {rowOf("reordered", was[p], now[p])}
          /\ "run-mismatch" \notin diagnostics

-----------------------------------------------------------------------------
(* What the proofs of these need besides them. *)

TextsInv ==
  /\ run \in Runs
  /\ draft \in Texts
  /\ override \in Texts \cup {NoText}

\* Only a draft that compiles is applied.
OverrideInv == override # NoText => Compiles(override)

\* A preview is a state of a mounted editor.
UnmountedInv == ~Mounted => preview = NoPreview

\* The diagnostics on screen are those of the preview, for the run on screen or
\* for one opened before it with the same source: that alone does not end a preview.
DiagnosticsInv ==
  preview # NoPreview =>
    \E r \in Runs : diagnostics = DiagnosticsOf(Compile(draft), preview.diff, r)

EditorInv ==
  /\ TextsInv /\ OverrideInv /\ UnmountedInv
  /\ PreviewIsCurrent /\ EvidenceIsCurrent /\ DiagnosticsInv
=============================================================================
