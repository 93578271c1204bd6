SPECIFICATION MCSpec
CONSTANTS
  n1 = n1  n2 = n2  n3 = n3
  p1 = p1  p2 = p2  r1 = r1
  NIL = NIL  ct = ct  None = None
  Limbo = Limbo
  Node <- MCNode
  Proc = {p1}
  Req = {r1}
  Place <- MCPlace
  Tries = 2
  MaxCalls = 1
  MaxMoves = 1
  MaxPokes = 1
  MaxCrashes = 1
INVARIANTS OneCopy AskedAreUp GagglesAgree RightNodeInOrder GarbageGoes
PROPERTY NotGivenUp
CHECK_DEADLOCK FALSE
