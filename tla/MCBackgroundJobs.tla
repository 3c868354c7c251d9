-------------------------- MODULE MCBackgroundJobs --------------------------
(* BackgroundJobs on small instances.                                      *)
EXTENDS BackgroundJobs, TLC

CONSTANTS p1, p2, k1, k2

(* In the middle of a deployment: p1 has the kind "digest", p2 does not.   *)
MCKnows == (p1 :> {"publish", "digest"}) @@ (p2 :> {"publish"})

(* Nothing but equality is asked of a key.                                 *)
KeySymmetry == Permutations({k1, k2})
=============================================================================
