SPECIFICATION Spec
CONSTANTS
  LineKinds <- Kinds
  Setups <- Bundles
  NoBundle = NoBundle
  MaxLines = 4
INVARIANTS StaleIndexFallsBack
CHECK_DEADLOCK FALSE
