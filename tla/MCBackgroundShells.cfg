CONSTANTS
  Tasks = {t1, t2}
  t1 = t1
  t2 = t2
  Chatty = {t1}
  Ways <- MCWays
  k = k
  Victim <- MCVictim
  Killers = {k}
  MaxShells = 1
  MaxOut = 2
  MaxTail = 1
  Chunk = 1
SPECIFICATION Spec
INVARIANTS NoOrphan OutputAccounted
PROPERTIES KeepsVerdicts KillReturns
CHECK_DEADLOCK FALSE
