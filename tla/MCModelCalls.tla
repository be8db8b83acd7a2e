---- MODULE MCModelCalls ----
\* Two routes, the primary first.  The first execution's inputs are i1: the
\* specification treats all inputs alike.
EXTENDS ModelCalls

CONSTANTS r1, r2, i1, i2

MCRouteOrder == <<r1, r2>>
MCInit == Init /\ inputs = i1
MCSpec == MCInit /\ [][Next]_vars
MCFairSpec == MCSpec /\ Fairness
====
