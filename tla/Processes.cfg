SPECIFICATION MCSpec
CONSTANTS
  p1 = p1  p2 = p2  p3 = p3  c1 = c1  c2 = c2
  Proc <- MCProc
  Cond <- MCCond
  NoProc = NoProc
  NoQueue = NoQueue
  Fuel = 3
INVARIANTS MutualExclusion BusyMeansHeld OnePlace InitialisedFirst
PROPERTIES
  RefinesHoareMonitor AcceptedAlone InTime
  EntrantsServed FixQueueServed CallersServed DelayEnds
CHECK_DEADLOCK FALSE
