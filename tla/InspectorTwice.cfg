SPECIFICATION Spec
CONSTANTS
  c1 = c1
  NoClient = NoClient
  Clients = {c1}
  TickLimits = {1}
  MaxLines = 2
INVARIANTS EachLineOnce
