\* Both registries, two processes that relay for different centres, two versions
\* of the list.  The keys live for two intervals, a sentinel for one.
SPECIFICATION FairSpec
CONSTANTS
  kept = kept
  dropped = dropped
  added = added
  A = A
  B = B
  p = p
  q = q
  Proc = {p, q}
  Kinds = {"topic", "gdc"}
  Entries = {kept, dropped, added}
  Lists <- TwoLists
  Centres = {A, B}
  centre <- CentreOf
  home <- HomeOf
  Batch = 2
  TTL = 2
  Sentinel = 1
INVARIANTS
  TypeOK
  IndexWhole
  KeptAnswered
PROPERTY
  AnswersSettle
