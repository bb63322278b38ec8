\* maxAge equal to the TTL, as main.go sets it, and no fault at all.
CONSTANTS
  a = a
  b = b
  m1 = m1
  m2 = m2
  Inst    <- Instances
  Copies  <- Deliveries
  MaxLen  = 2
  MaxAge  = 2
  TTL     = 2
  MaxProc = 0
  MaxNow  = 4
  Faults  = {}
SPECIFICATION Spec
INVARIANT DrainNeverDuplicates
