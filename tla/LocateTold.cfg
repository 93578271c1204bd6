SPECIFICATION FairSpec
CONSTANTS
  n1 = n1  n2 = n2  n3 = n3
  p1 = p1  p2 = p2  r1 = r1
  Limbo = Limbo
  Node <- MCNode
  Proc = {p1}
  Req = {}
  Place <- MCPlace
  Tries = 2
  MaxCalls = 1
  MaxMoves = 1
  MaxPokes = 0
  MaxCrashes = 0
PROPERTIES WaitersTold
CHECK_DEADLOCK FALSE
