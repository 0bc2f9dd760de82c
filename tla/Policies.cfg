SPECIFICATION Spec
CONSTANTS
  s1 = s1  s2 = s2  s3 = s3
  Slot <- MCSlot
  Kinds = {"clock", "s3fifo", "wtinylfu", "sieve"}
  Costs = {1, 2}
  ProbCap = 2
  MaxTouch = 2
SYMMETRY MCSymmetry
INVARIANTS
  NodesExact
  ProbationExact
  ListSound
PROPERTIES
  KeepsContract
  VictimSettled
  ScanProgresses
