----------------------------- MODULE MCElection -----------------------------
EXTENDS Election

\* The lowest uuid's clock is behind, so its announcements look older.
LowestBehind == [p \in Proc |-> IF p = Min(Proc) THEN -1 ELSE 0]

ASSUME TimingHolds == Timing
=============================================================================
