CONSTANTS
  a = a
  b = b
  c1 = c1
  c2 = c2
  Fin = Fin
  Rev = Rev
  Paths = {a, b}
  Calls = {c1, c2}
  Touches <- MCTouches
  Existing = {a}
  Uncopyable = {b}
  Ignored = {b}
  Regions = 2
  MaxTurns = 2
  MaxUser = 1
SPECIFICATION Spec
INVARIANTS RunIsRecorded AloneWithFile LocksComeBack
PROPERTIES RevertIsExact
CHECK_DEADLOCK FALSE
