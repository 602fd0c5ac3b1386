SPECIFICATION Spec
CONSTANTS
  runA = runA
  runB = runB
  c1 = c1
  c2 = c2
  NoDoc = NoDoc
  Live = Live
  Docs = {runA, runB}
  Index <- MCTwoLogs
  Kind <- KindFileUrl
  Calls = {c1, c2}
  BatchTickLimit = 1
  BatchByteLimit = 1000
  ReadsMayFail = TRUE
  Lookahead = 1
  Radius = 1
  SeekInputs <- Seeks
INVARIANTS TypeOK PendingOwned ShownIsLoaded
PROPERTIES ImplementsView
