\* As in MCDedup.cfg; a reply is lost and the command is sent again.
CONSTANTS
  m1 = m1
  m2 = m2
  x = x
  y = y
  NoOne = NoOne
  Requests <- Calls
  BatchSize = 2
  BatchConcurrency = 2
  Room = 1
  MaxResends = 1
  Faults = {"redis"}
SPECIFICATION Spec
INVARIANT SeenBecauseOfAnother
CHECK_DEADLOCK FALSE
