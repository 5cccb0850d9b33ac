\* Two writes to neighbours and polls of two groups.
SPECIFICATION FairSpec
CONSTANTS
  r1 = r1
  r2 = r2
  r3 = r3
  w1 = w1
  w2 = w2
  Reg = {r1, r2, r3}
  NumGroups = 2
  GroupOf <- MCGroupOf
  Write = {w1, w2}
  Target <- MCTarget
  Presses = {}
  Old = Old
  NoValue = NoValue
  MaxFailures = 2
  MaxPanel = 1
PROPERTY NoUndo
