CONSTANTS
  BufferCap = 3
  ChanCap = 2
  MaxSeq = 6
  MaxEpoch = 2
  Desktop = {d}
  Web = {}
  Cli = {}
  Resumers = {o}
  Tasks = {t1, t2}
SPECIFICATION RuntimeSpec
INVARIANTS BufferIsTail NoSilentGap SeamlessReplay AnnouncedOnce KilledIsSilent
PROPERTIES EventuallySeen EndIsTold
CHECK_DEADLOCK FALSE
