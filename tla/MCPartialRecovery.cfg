CONSTANTS
  MaxRuns = 1
  MaxFrag = 3
  Recoverers = {turn, other, third}
  Turn = turn
  Inodes = {i1, i2, i3, i4}
  NoInode = NoInode
SPECIFICATION Spec
SYMMETRY InodeSymmetry
INVARIANTS LiveNotFolded TwiceOnlyIfTorn StoredSurvives AckMeansClean
CHECK_DEADLOCK FALSE
