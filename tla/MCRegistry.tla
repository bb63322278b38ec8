----------------------------- MODULE MCRegistry -----------------------------
EXTENDS Registry

CONSTANTS kept, dropped, added, A, B, p, q

\* The second list drops an entry, the only one of its centre, and adds one.
TwoLists == <<{kept, dropped}, {kept, added}>>
CentreOf == [k \in Entries |-> IF k = dropped THEN B ELSE A]
HomeOf   == [x \in Proc |-> IF x = p THEN A ELSE B]
=============================================================================
