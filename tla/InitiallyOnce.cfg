SPECIFICATION Spec
CONSTANTS
  p1 = p1  p2 = p2  p3 = p3
  Proc <- MCProc
  Starter = p1
  NoProc = NoProc
  NoQueue = NoQueue
  Origins = {"created"}
  Fuel <- MCTurns
INVARIANT InitiallyOnce
CHECK_DEADLOCK FALSE
