\* Two brokers that come and go any number of times, with two callbacks
\* running at once; two messages against queues of one, so both gates fill up.
CONSTANTS
  Targets = 2
  Msgs = {m1, m2}
  MaxCallbacks = 2
  MaxLen = 1
  MaxAge = 0
SPECIFICATION FairSpec
INVARIANTS
  InOnePlace
  GatesFollow
PROPERTY NothingLeftWaiting
