SPECIFICATION SessionSpec
CONSTANTS
  runA = runA
  runB = runB
  c1 = c1
  c2 = c2
  NoDoc = NoDoc
  Live = Live
  Docs = {runA}
  Index <- MCFiveTicks
  Kind <- KindFile
  Calls = {c1, c2}
  BatchTickLimit = 2
  BatchByteLimit = 1000
  ReadsMayFail = FALSE
  Lookahead = 1
  Radius = 1
  SeekInputs <- Seeks
INVARIANTS NoDuplicates
