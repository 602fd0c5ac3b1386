SPECIFICATION HistorySpec
CONSTANTS
  runA = runA
  runB = runB
  c1 = c1
  c2 = c2
  NoDoc = NoDoc
  Live = Live
  Docs = {runA, runB}
  Index <- MCTwoGapLogs
  Kind <- KindFileUrl
  Calls = {c1, c2}
  BatchTickLimit = 2
  BatchByteLimit = 30
  ReadsMayFail = FALSE
  Lookahead = 1
  Radius = 1
  SeekInputs <- Seeks
INVARIANTS SequentialStatus SequentialNothingStuck SequentialNoDuplicates
PROPERTIES AllAskedForArrives
