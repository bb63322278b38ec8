----------------------------- MODULE MCFailover -----------------------------
EXTENDS Failover

CONSTANTS a, b, m1, m2

Instances == {a, b}

\* One id reaches both instances, twice at b.
Deliveries ==
  {[inst |-> a, id |-> m1, n |-> 1],
   [inst |-> b, id |-> m1, n |-> 1], [inst |-> b, id |-> m1, n |-> 2]}

\* One id at both instances, and a second id at b.
LiveDeliveries ==
  {[inst |-> a, id |-> m1, n |-> 1],
   [inst |-> b, id |-> m1, n |-> 1], [inst |-> b, id |-> m2, n |-> 1]}
=============================================================================
