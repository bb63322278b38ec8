\* No crashes and no Redis errors; publishing may still reach no broker.
CONSTANTS
  a = a
  b = b
  m1 = m1
  m2 = m2
  Inst    <- Instances
  Copies  <- LiveDeliveries
  MaxLen  = 2
  MaxAge  = 1
  TTL     = 1
  MaxProc = 0
  MaxNow  = 2
  Faults  = {"publish"}
SPECIFICATION FairSpec
PROPERTIES
  PublishedOnceHeld
  NeverBurned
