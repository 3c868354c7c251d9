----------------------------- MODULE MCOutreach -----------------------------
(* Outreach on small instances.                                            *)
EXTENDS Outreach, TLC

CONSTANTS c1, c2, s1, s2, ann, bob

(* Two emails, then one.                                                   *)
MCSteps == [s \in Sequences |-> IF s = s1 THEN 2 ELSE 1]

CallerSymmetry == Permutations(Callers)
=============================================================================
