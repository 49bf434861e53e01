------------------------------ MODULE MCLimits ------------------------------
(* Instances of Limits for TLC.  A window of four ticks, two to a second,  *)
(* so that hits fall on its edge, just before and just after it.           *)
EXTENDS Limits

CONSTANTS k1, k2, q1, q2

Limit(rate, jobs) == [rate |-> rate, jobs |-> jobs]
MCFirstLimit == Limit(2, 3)
MCNewLimits == {Limit(0, 0), Limit(1, 2), Limit(3, 1)}
=============================================================================
