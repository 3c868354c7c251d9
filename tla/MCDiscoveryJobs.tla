-------------------------- MODULE MCDiscoveryJobs --------------------------
(* DiscoveryJobs on a small instance.                                      *)
EXTENDS DiscoveryJobs

CONSTANTS c1, c2

(* Two posts to begin with, then one.                                     *)
MCInitial == [t \in Targets |-> IF t = 1 THEN 2 ELSE 1]
=============================================================================
