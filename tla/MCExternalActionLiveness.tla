---------------------- MODULE MCExternalActionLiveness ----------------------
(* ExternalActionLiveness on a small instance.                             *)
EXTENDS ExternalActionLiveness

CONSTANTS c1, c2, s1

Slot == [automated |-> TRUE, review |-> FALSE, requestedFor |-> 1]
Asked == [automated |-> FALSE, review |-> TRUE, requestedFor |-> 0]
SlotOrAsked == {Slot, Asked}
=============================================================================
