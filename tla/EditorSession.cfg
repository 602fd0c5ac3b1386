SPECIFICATION Spec
CONSTANTS
  r1 = r1
  r2 = r2
  r3 = r3
  r4 = r4
  NoText = NoText
  NoTree = NoTree
  NoEvidence = NoEvidence
  Runs = {r1, r2, r3, r4}
  SourceOf <- MCSources
  RecordedOf <- MCRecorded
  HistoryOf <- MCHistory
  MetadataOf <- MCMetadata
  Drafts <- MCDrafts
  Capabilities = {"cap"}
  Compile <- compileBtDsl
  MissingCapabilities <- validateDslCapabilities
INVARIANTS
  CompileKeepsPlaces PreviewIsCurrent EvidenceIsCurrent
  DiffBalances PureReorderIsOneRow
