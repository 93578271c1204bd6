CONSTANTS
  o1 = o1  o2 = o2  o3 = o3  Nil = Nil
  Objects = {o1, o2, o3}
  Size <- MCSize
  Global = {o1, o2}
  Immutable = {o2}
  Words = 1
  OldWords = 5
  CopyCount = 2
  Waste = {1}
  Anticipated = {2}
  Depth = 1
  n1 = n1  n2 = n2  n3 = n3  A = A  B = B  t1 = t1  t2 = t2
  Node = {n1, n2, n3}
  Object = {A, B}
  Thread = {t1, t2}
  Limbo = Limbo
  Timer = Timer
SPECIFICATION MCSpec
INVARIANTS OneThread LinksHold NoneDangles
PROPERTIES OnlyCopiesLeaveTheTable CallsEnd RequestsEnd
CHECK_DEADLOCK FALSE
