SPECIFICATION MCSpec
CONSTANTS
  n1 = n1  n2 = n2  n3 = n3
  p1 = p1  p2 = p2  r1 = r1
  Limbo = Limbo
  Node <- MCNode
  Proc = {p1, p2}
  Req = {r1}
  Place <- MCPlace
  Tries = 2
  MaxCalls = 2
  MaxMoves = 1
  MaxPokes = 0
  MaxCrashes = 0
INVARIANTS AnsweredOnce AskedIsComing
PROPERTIES AggressiveEnds HandlersEnd
CHECK_DEADLOCK FALSE
