\* Limit 1 refuses a pair, 10 takes the whole map but for the hole at 6.
SPECIFICATION Spec
CONSTANTS
  Map <- MCMap
  Limits = {1, 2, 3, 4, 6, 10}
INVARIANTS TypeOK PlanIsLegal AsFewAsPossible DecodedFromItsWords
CHECK_DEADLOCK FALSE
