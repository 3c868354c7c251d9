--------------------------- MODULE MCJobDispatch ---------------------------
(* JobDispatch on a small instance: a tick in each of two processes that   *)
(* are configured with different intervals.                                *)
EXTENDS JobDispatch, TLC

CONSTANTS p1, p2, t1, t2

MCProcOf == (t1 :> p1) @@ (t2 :> p2)
MCIntervals == (p1 :> 2) @@ (p2 :> 3)
MCKnows == [p \in Procs |-> {"publish"}]
MCKeys == Schedule \X (0..MaxClock)
=============================================================================
