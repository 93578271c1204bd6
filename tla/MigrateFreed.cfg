CONSTANTS
  n1 = n1  n2 = n2  n3 = n3  A = A  B = B  t1 = t1  t2 = t2
  Node = {n1, n2, n3}
  Object = {A, B}
  Thread = {t1, t2}
  Limbo = Limbo
  Timer = Timer
  Home <- MCHome
  Start <- MCStart
  Budgets <- CrashBudgets
  MaxDepth = 3
SPECIFICATION Spec
CHECK_DEADLOCK FALSE
INVARIANT ReadyAreAllocated
