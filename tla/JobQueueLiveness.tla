-------------------------- MODULE JobQueueLiveness --------------------------
(***************************************************************************)
(* BackgroundJobs when things go wrong only finitely often.  The worker's  *)
(* settled loop keeps calling the tick route, handlers settle, and a       *)
(* process that is up renews its leases in time (the policy keeps twice    *)
(* the heartbeat below the lease).  What may still go wrong costs one unit *)
(* of a budget: a crash, a shutdown, an event loop stalled past a lease,   *)
(* a handler that needs one more renewal.                                  *)
(***************************************************************************)
EXTENDS BackgroundJobs

CONSTANTS
    MaxTroubles,    \* bound: the budget
    LastRequest     \* bound: nobody enqueues later, so the rest fits the clock

VARIABLE troubles

liveVars == <<clock, jobs, lastDispatched, execs, failures, troubles>>

Trouble == troubles < MaxTroubles /\ troubles' = troubles + 1

(* With no stored time ahead of the clock, no guard can see it move.       *)
DeadlineAhead ==
    \E j \in DOMAIN jobs :
        \/ LiveLease(j)
        \/ jobs[j].status = "queued" /\ jobs[j].availableAt > clock

(* The next instant ends the lease of an execution nobody told to stop.    *)
LeaseEnding ==
    \E e \in execs : ~e.aborted /\ LiveClaim(e) /\ jobs[e.job].leaseExpiresAt = clock + 1

LiveTick == DeadlineAhead /\ ~LeaseEnding /\ Tick /\ UNCHANGED troubles
Stall == LeaseEnding /\ Tick /\ Trouble
Renew(e) == LiveClaim(e) /\ Heartbeat(e) /\ Trouble
LoseLease(e) == ~LiveClaim(e) /\ Heartbeat(e) /\ UNCHANGED troubles
Finish(e) == (Complete(e) \/ DeadLetter(e) \/ Retry(e) \/ Abandon(e)) /\ UNCHANGED troubles
Dispatch == (\E p \in Procs : Claim(p)) /\ UNCHANGED troubles
Stop == (\E p \in Procs : Shutdown(p) \/ Crash(p)) /\ Trouble
Request == clock <= LastRequest /\ (Enqueue \/ RequeueDeadLetter) /\ UNCHANGED troubles

LiveInit == Init /\ troubles = 0

LiveNext ==
    \/ Request
    \/ Dispatch
    \/ Stop
    \/ \E e \in execs : Renew(e) \/ LoseLease(e) \/ Finish(e)
    \/ LiveTick
    \/ Stall

(* Fairness: each execution under way settles, some process answers the    *)
(* ticks, and the clock advances.  Nothing is assumed of requests.         *)
LiveSpec ==
    /\ LiveInit
    /\ [][LiveNext]_liveVars
    /\ \A j \in JobIds : WF_liveVars(\E e \in execs : e.job = j /\ Finish(e))
    /\ WF_liveVars(Dispatch)
    /\ WF_liveVars(LiveTick)

(* No accepted job is forgotten if every process knows its kind: it is     *)
(* completed or buried in the end, although crashes leave running rows     *)
(* behind, leases expire under running handlers, retries wait for their    *)
(* backoff, and rows of unknown kinds take up the workspace's room lease   *)
(* after lease without end.                                                *)
KnownToAll(j) == \A p \in Procs : jobs[j].kind \in Knows[p]

EveryJobSettles ==
    \A j \in JobIds :
        (j \in DOMAIN jobs /\ KnownToAll(j)) ~>
            (j \in DOMAIN jobs /\ jobs[j].status \in Terminal)
=============================================================================
