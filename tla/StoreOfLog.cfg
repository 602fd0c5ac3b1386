SPECIFICATION Spec
CONSTANTS
  None = None
  root = root
  goal = goal
  x = x
  y = y
  tree = tree
  running = running
  success = success
  MaxTick = 2
  Nodes = {root}
  Statuses = {running, success}
  Keys = {goal}
  Values = {x, y}
  Trees = {tree}
  MaxEvents = 4
INVARIANTS StatusIsLatest BlackboardIsLatest OverrideIsOfLatestDefinition DiffIsNetEffect
