----------------------- MODULE ExternalActionLiveness -----------------------
(***************************************************************************)
(* ExternalActions when the worker keeps running the publish job, calls    *)
(* that started keep going, and the provider gives every upload a final    *)
(* answer in the end.  What may happen finitely often: crashes, changes,   *)
(* retries by people (who could keep two calls overwriting each other's    *)
(* answer), and deletions of receipts, bounded by the ids that are left.   *)
(***************************************************************************)
EXTENDS ExternalActions

CONSTANT MaxRetries     \* bound: how often people retry

VARIABLE retries

liveVars == <<vars, retries>>

SparesAnId == Cardinality(ReceiptIds \ DOMAIN receipts) >= Cardinality(ActionIds)

Deletes == \E r \in DOMAIN receipts : Kept(r) /\ receipts'[r].status = "deleted"

(* The provider would take back that the upload has become a post.         *)
Relapses ==
    \E c \in Callers : calls[c].resumes /\ Target(c) \in posted /\ Processing(c)

Retries == \E c \in Callers : Retry(c)

LiveNext ==
    /\ Next
    /\ \/ Retries /\ retries < MaxRetries /\ retries' = retries + 1
       \/ ~Retries /\ UNCHANGED retries
    /\ Deletes => SparesAnId
    /\ ~Relapses

(* An await of call c ends for good.                                       *)
Settles(c) == (Published(c) \/ Failure(c) \/ Notified(c)) /\ UNCHANGED retries

GoesOn == (\E c \in Callers : Goes(c)) /\ UNCHANGED retries
WorkerRuns == (\E c \in Callers : Run(c)) /\ UNCHANGED retries
DueTimeComes == TimePasses /\ UNCHANGED retries

(* Fairness.  A call that has the event loop runs; the loop serves every   *)
(* settled await and every request in turn (strong, because other calls    *)
(* hold it in between); the worker's settled loop keeps enqueueing the     *)
(* publish job; a provider call ends, and an upload is not processing for  *)
(* ever; time passes.  Nothing is assumed of people, of what changes and   *)
(* of crashes.                                                             *)
LiveSpec ==
    /\ Init /\ retries = 0
    /\ [][LiveNext]_liveVars
    /\ WF_liveVars(GoesOn)
    /\ \A c \in Callers : SF_liveVars(Settles(c))
    /\ SF_liveVars(WorkerRuns)
    /\ SF_liveVars(DueTimeComes)

Released(a) == a \in DOMAIN actions /\ actions[a].status \in {"authorized", "scheduled", "dispatching"}

(* Why an action that is being dispatched may stay so: what it would do is *)
(* no longer what was proposed, a guardrail is up, or its cadence is gone. *)
Held(a) ==
    /\ actions[a].status = "dispatching"
    /\ Diverged(a) \/ Guarded(a) \/ (actions[a].automated /\ ~cadence)

(* What was let out is never forgotten: through crashes at every write,    *)
(* overlapping runs, lost answers and deleted receipts, an authorized or   *)
(* scheduled action succeeds, fails, is cancelled, blocked or stale in the *)
(* end, unless something visible holds it while it is being dispatched.    *)
AuthorizedWorkConcludes ==
    \A a \in ActionIds : Released(a) ~> (~Released(a) \/ Held(a))
=============================================================================
