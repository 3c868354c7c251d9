------------------------- MODULE MCJobQueueLiveness -------------------------
(* JobQueueLiveness on a small instance.                                   *)
EXTENDS JobQueueLiveness

CONSTANTS p1, k1, k2

(* The build of p1 does not have the kind "digest" (any more).             *)
MCKnows == [p \in Procs |-> {"publish"}]
=============================================================================
