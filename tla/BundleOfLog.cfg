SPECIFICATION Spec
CONSTANTS
  LineKinds <- Kinds
  Setups <- Bundles
  NoBundle = NoBundle
  MaxLines = 4
INVARIANTS FreshIndexLosesNothing EachTickIsExtracted StreamReadsTheLog CaptureReopensComplete LoadedIsValid
PROPERTIES LoadEnds
CHECK_DEADLOCK FALSE
