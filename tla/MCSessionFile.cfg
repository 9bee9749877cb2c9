CONSTANTS
  MaxMsg = 3
  Markers = {2}
  Writers = {w1, w2}
  Rewriters = {w1, w2}
  MaxOps = 3
  Inodes = {i1, i2, i3, i4}
  NoFile = NoFile
SPECIFICATION Spec
SYMMETRY FileSymmetry
INVARIANTS HeaderSurvives SettledStays
PROPERTIES TakesTurns
CHECK_DEADLOCK FALSE
