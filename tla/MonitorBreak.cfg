SPECIFICATION Spec
CONSTANTS
  Proc = {p1, p2}
  Cond = {c1}
  NoProc = NoProc
  Fuel = 3
PROPERTY BreakEmptiesConditions
CHECK_DEADLOCK FALSE
