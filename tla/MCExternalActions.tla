-------------------------- MODULE MCExternalActions --------------------------
(* ExternalActions on small instances.                                     *)
EXTENDS ExternalActions, TLC

CONSTANTS c1, c2, s1, s2

(* A person posts now, the cadence fills a slot.                           *)
Now == [automated |-> FALSE, review |-> FALSE, requestedFor |-> 0]
Slot == [Now EXCEPT !.automated = TRUE, !.requestedFor = 1]

NowOnly == {Now}
SlotOnly == {Slot}

CallerSymmetry == Permutations(Callers)
=============================================================================
