---------------------------- MODULE MCAutomation ----------------------------
(* Automation on a small instance: two calls that pass the same owner      *)
(* string, a lease of one tick, and a fully automatic campaign with a      *)
(* definition, on each path and with the kill switch up or down.           *)
EXTENDS Automation, TLC

CONSTANTS c1, c2, o1, r1

MCOwnerOf == (c1 :> o1) @@ (c2 :> o1)
CallSymmetry == Permutations({c1, c2})

Automated == {s \in Settings : s.mode = "scheduled_auto" /\ s.definition}
=============================================================================
