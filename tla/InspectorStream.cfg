SPECIFICATION FairSpec
CONSTANTS
  c1 = c1
  NoClient = NoClient
  Clients = {c1}
  TickLimits = {0, 2}
  MaxLines = 3
INVARIANTS NoGap LogIsAhead FailureIsReported
PROPERTIES SignalStops RunEnds
