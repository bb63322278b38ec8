\* At most two requests to a pipeline and two pipelines at a time, so flushes
\* overlap and a third batch waits for a slot; a channel of one, so senders
\* wait too; every fault; one command is sent again.
\* Once every call has been made and answered nothing is left to do.
CONSTANTS
  m1 = m1
  m2 = m2
  x = x
  y = y
  NoOne = NoOne
  Requests <- Calls
  BatchSize = 2
  BatchConcurrency = 2
  Room = 1
  MaxResends = 1
  Faults = {"redis", "cancel", "expire"}
SPECIFICATION FairSpec
INVARIANTS
  TypeOK
  RequestsKept
  SeenBecauseMarked
PROPERTIES
  ImplementsRegistry
  EveryCallAnswered
CHECK_DEADLOCK FALSE
