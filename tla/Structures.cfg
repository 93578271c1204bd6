SPECIFICATION MCSpec
CONSTANTS
  s1 = s1  s2 = s2  m1 = m1  m2 = m2
  NoEntry = NoEntry  NIL = NIL
  Value = {s1, s2}
  NoValue = NoValue
  Junk = Junk
  InitSize = 2
  MaxCount = 5
INVARIANTS TypeOK WellFormed DebuggerIsTrue
PROPERTIES RefinesAbstractQueue StructuresRefine LoopsMeetAll
CHECK_DEADLOCK FALSE
