\* Three requests may fail: enough for both groups of a poll and one more.
SPECIFICATION FairSpec
CONSTANTS
  r1 = r1
  r2 = r2
  r3 = r3
  w1 = w1
  w2 = w2
  Reg = {r1, r2, r3}
  NumGroups = 2
  GroupOf <- MCGroupOf
  Write = {w1, w2}
  Target <- MCTarget
  Presses = {w2}
  Old = Old
  NoValue = NoValue
  MaxFailures = 3
  MaxPanel = 1
INVARIANTS TypeOK OverlayHasConfirm StaleOnlyAfterRevival ShownIsHeld
PROPERTIES ReadingIsNewer Converges
