------------------------------ MODULE MCDedup ------------------------------
EXTENDS Dedup

CONSTANTS m1, m2, x, y

\* Two calls for one id and one for another.
Calls == {[id |-> m1, n |-> x], [id |-> m1, n |-> y], [id |-> m2, n |-> x]}
=============================================================================
