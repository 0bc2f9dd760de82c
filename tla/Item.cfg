SPECIFICATION Spec
CONSTANTS
  r1 = r1  k1 = k1  k2 = k2  v1 = v1  v2 = v2
  NoKey = NoKey  NoValue = NoValue
  Reader = {r1}
  Key = {k1, k2}
  Value = {v1, v2}
  Builds <- MCBuilds
  GenMod = 8
  MaxWrites = 4
INVARIANTS
  ReadsWhole
  OddOnlyInWrite
PROPERTIES
  NeverZeroAgain
  DeadStaysDead
SYMMETRY Symmetric
