------------------------- MODULE MCJobQueueFairness -------------------------
(* BackgroundJobs from a full table on: every id is already enqueued, with *)
(* a key of its own, by any workspace, with any kind and priority, at 0.   *)
(* Each such table is reached from Init by as many calls of Enqueue.       *)
EXTENDS BackgroundJobs

CONSTANT p1

(* The build of p1 does not have the kind "digest" (any more).             *)
MCKnows == [p \in Procs |-> {"publish"}]

FullTables ==
    {[j \in JobIds |->
        [status |-> "queued", kind |-> q[j], workspace |-> w[j], key |-> j, activeKey |-> TRUE,
         priority |-> p[j], createdAt |-> 0, availableAt |-> 0,
         attempt |-> 0, maxAttempts |-> m, leaseOwner |-> NoProc,
         leaseVersion |-> 0, leaseExpiresAt |-> 0, lastError |-> "none"]] :
        w \in [JobIds -> Workspaces], p \in [JobIds -> Priorities], m \in Attempts,
        q \in [JobIds -> JobKinds]}

FullInit ==
    /\ clock = 0
    /\ jobs \in FullTables
    /\ lastDispatched = [w \in Workspaces |-> NeverDispatched]
    /\ execs = {}
    /\ failures = [j \in JobIds |-> 0]

(* The steps that decide who is claimed next; a claim whose execution died *)
(* with its process, and one that outlives its lease, both leave the table. *)
ClaimingNext ==
    \/ \E p \in Procs : Claim(p) \/ Crash(p)
    \/ \E e \in execs :
          \/ LiveClaim(e) /\ (Heartbeat(e) \/ Complete(e))
          \/ ~LiveClaim(e) /\ Complete(e)
    \/ Tick

FullSpec == FullInit /\ [][ClaimingNext]_vars
=============================================================================
