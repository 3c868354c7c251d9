---------------------------- MODULE DurableQueue ----------------------------
(***************************************************************************)
(* What the job queue promises, without leases, clocks, batches or retries *)
(* (docs/superpowers/specs/2026-08-07-sprint-73-durable-queue-design.md,   *)
(* 5.2 and 7): an accepted job stays until it is settled, at most one      *)
(* active job holds an idempotency key, a job may be handed out any number *)
(* of times (at-least-once), and only the latest hand-out settles it, once.*)
(***************************************************************************)
EXTENDS Naturals

CONSTANTS Jobs, Keys

VARIABLES
    status,     \* status[j]: "none", "active", "succeeded" or "dead_letter"
    key,        \* the key of each accepted job
    handouts,   \* how often each job was handed out
    out         \* the hand-outs somebody still works on: <<job, number>>

vars == <<status, key, handouts, out>>

Init ==
    /\ status = [j \in Jobs |-> "none"]
    /\ key = [j \in {} |-> {}]
    /\ handouts = [j \in Jobs |-> 0]
    /\ out = {}

Accept(j, k) ==
    /\ status[j] = "none"
    /\ \A i \in Jobs : status[i] = "active" => key[i] # k
    /\ status' = [status EXCEPT ![j] = "active"]
    /\ key' = [i \in DOMAIN key \cup {j} |-> IF i = j THEN k ELSE key[i]]
    /\ UNCHANGED <<handouts, out>>

(* Of some of a batch nobody takes note: they count as handed out only.    *)
HandOut(B, astray) ==
    /\ \A j \in B : status[j] = "active"
    /\ handouts' = [j \in Jobs |-> IF j \in B THEN handouts[j] + 1 ELSE handouts[j]]
    /\ out' = out \cup {<<j, handouts[j] + 1>> : j \in B \ astray}
    /\ UNCHANGED <<status, key>>

(* The latest hand-out settles the job.                                    *)
Settle(h, outcome) ==
    /\ h[2] = handouts[h[1]]
    /\ status[h[1]] = "active"
    /\ status' = [status EXCEPT ![h[1]] = outcome]
    /\ out' = out \ {h}
    /\ UNCHANGED <<key, handouts>>

(* A hand-out fails, is lost or dies: the job is unaffected.               *)
Drop(H) ==
    /\ out' = out \ H
    /\ UNCHANGED <<status, key, handouts>>

Next ==
    \/ \E j \in Jobs, k \in Keys : Accept(j, k)
    \/ \E B, astray \in SUBSET Jobs : HandOut(B, astray)
    \/ \E h \in out, outcome \in {"succeeded", "dead_letter"} : Settle(h, outcome)
    \/ \E H \in SUBSET out : Drop(H)

Spec == Init /\ [][Next]_vars
=============================================================================
