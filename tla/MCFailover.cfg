\* Two instances, crashes and Redis errors; the clock runs past maxAge and the
\* TTL more than once; a queue of one makes the length bound bite.
CONSTANTS
  a = a
  b = b
  m1 = m1
  m2 = m2
  Inst    <- Instances
  Copies  <- Deliveries
  MaxLen  = 1
  MaxAge  = 1
  TTL     = 1
  MaxProc = 1
  MaxNow  = 3
  Faults  = {"crash", "redis"}
SPECIFICATION Spec
INVARIANTS
  TypeOK
  ClaimsApart
  BacklogRecognised
