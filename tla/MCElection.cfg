\* Two processes that crash and lose touch with Redis at will, the lower one
\* with a clock that is an interval behind; the freshness window is four
\* intervals, as in the defaults (8 s and 2 s).
CONSTANTS
  Proc = {1, 2}
  Skew <- LowestBehind
  Interval = 1
  Fresh = 4
  KeyExpiry = 6
  MaxLate = 0
  Patience = 8
  Faults = {"crash", "redis"}
SPECIFICATION FairSpec
INVARIANTS
  TypeOK
  SoonLowest
PROPERTY LowestElected
