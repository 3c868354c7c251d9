--------------------------- MODULE BackgroundJobs ---------------------------
(***************************************************************************)
(* The durable job queue: the background_jobs and                          *)
(* background_workspace_dispatch tables, the operations on them            *)
(* (apps/api/src/services/background-jobs.ts) and the executions of        *)
(* claimed jobs by the API processes that share the database               *)
(* (apps/api/src/services/background-job-runner.ts).                       *)
(*                                                                         *)
(* The processes may run different builds during a deployment, and rows    *)
(* stay when a build drops a kind of job: a process claims a row before it *)
(* looks whether it knows the row's kind.                                  *)
(*                                                                         *)
(* Every operation is one SQLite transaction, so it is one action.  What   *)
(* interleaves are the operations: a handler runs between the claim of its *)
(* job and the write of its outcome, and meanwhile the lease may expire,   *)
(* another process may reclaim the job, or its own process may die.        *)
(***************************************************************************)
EXTENDS Integers, FiniteSets

CONSTANTS
    JobIds,         \* ids of rows, compared by the last ORDER BY column
    Workspaces,     \* workspace ids, compared by localeCompare
    Keys,           \* idempotency keys
    JobKinds,       \* kinds of the rows, of this and of other builds
    Priorities,     \* priorities callers enqueue with
    Attempts,       \* values of maxAttempts callers enqueue with
    Delays,         \* how far in the future callers make a job available
    Procs,          \* API processes; a claim's owner names one
    Knows,          \* Knows[p]: BACKGROUND_JOB_KINDS of the build process p runs
    NoProc,         \* lease_owner is null
    LeaseMs,        \* policy.leaseMs
    BatchSize,      \* policy.batchSize
    PerWorkspace,   \* policy.perWorkspaceConcurrency
    ScanLimit,      \* min(MAX_CANDIDATE_SCAN, max(100, 25 * batchSize))
    BaseBackoff,    \* policy.baseBackoffMs
    MaxBackoff,     \* policy.maxBackoffMs
    MaxClock        \* bound: the database clock stops here

ASSUME IdsAssumption ==
    /\ JobIds \subseteq Nat /\ IsFiniteSet(JobIds)
    /\ Workspaces \subseteq Nat
ASSUME InputsAssumption ==
    /\ Priorities \subseteq Int
    /\ Attempts \subseteq Nat \ {0}
    /\ Delays \subseteq Nat
ASSUME ProcsAssumption ==
    /\ NoProc \notin Procs
    /\ Knows \in [Procs -> SUBSET JobKinds]
(* background-job-policy.ts checks these when the API starts.              *)
ASSUME PolicyAssumption ==
    /\ LeaseMs \in Nat \ {0}
    /\ BatchSize \in Nat \ {0}
    /\ PerWorkspace \in 1..BatchSize
    /\ ScanLimit \in Nat \ {0}
    /\ MaxBackoff \in Nat \ {0}
    /\ BaseBackoff \in 1..MaxBackoff
    /\ MaxClock \in Nat

VARIABLES
    clock,          \* databaseNowMs
    jobs,           \* background_jobs: a function from the ids inserted to rows
    lastDispatched, \* lastDispatched[w]: background_workspace_dispatch
    execs,          \* executions under way, in all processes
    failures        \* history: retryable failures recorded against each job

vars == <<clock, jobs, lastDispatched, execs, failures>>

NeverDispatched == -1

Active == {"queued", "running"}
Terminal == {"succeeded", "dead_letter"}

(* activeKey is a boolean here: whether the unique column holds            *)
(* "<workspace>:<key>" or null.  lastError keeps only the kind of error.   *)
JobRow ==
    [status : Active \cup Terminal, kind : JobKinds,
     workspace : Workspaces, key : Keys, activeKey : BOOLEAN,
     priority : Priorities, createdAt : Nat, availableAt : Nat,
     attempt : Nat, maxAttempts : Attempts,
     leaseOwner : Procs \cup {NoProc}, leaseVersion : Nat, leaseExpiresAt : Nat,
     lastError : {"none", "retryable", "permanent"}]

(* A BackgroundJobClaim and the state of executeClaim: "aborted" says that *)
(* the merged abort signal is raised (lease lost or process shutting down).*)
Execution ==
    [job : JobIds, version : Nat, owner : Procs, attempt : Nat, aborted : BOOLEAN]

TypeOK ==
    /\ clock \in Nat
    /\ DOMAIN jobs \subseteq JobIds
    /\ jobs \in [DOMAIN jobs -> JobRow]
    /\ lastDispatched \in [Workspaces -> Nat \cup {NeverDispatched}]
    /\ execs \in SUBSET Execution
    /\ \A e \in execs : e.job \in DOMAIN jobs
    /\ failures \in [JobIds -> Nat]

Init ==
    /\ clock = 0
    /\ jobs = [j \in {} |-> {}]
    /\ lastDispatched = [w \in Workspaces |-> NeverDispatched]
    /\ execs = {}
    /\ failures = [j \in JobIds |-> 0]

(***************************************************************************)
(* Admission.                                                              *)
(***************************************************************************)

HoldsKey(j, w, k) ==
    jobs[j].activeKey /\ jobs[j].workspace = w /\ jobs[j].key = k

(* The insert of enqueueBackgroundJob, which the unique column rejects     *)
(* while another row holds the key; the call then returns that row and     *)
(* changes nothing.  The id is a random UUID.                              *)
Insert(kind, w, k, priority, maxAttempts, availableAt) ==
    /\ \A j \in DOMAIN jobs : ~HoldsKey(j, w, k)
    /\ \E new \in JobIds \ DOMAIN jobs :
          jobs' = [j \in DOMAIN jobs \cup {new} |->
                     IF j # new THEN jobs[j]
                     ELSE [status |-> "queued", kind |-> kind, workspace |-> w, key |-> k,
                           activeKey |-> TRUE, priority |-> priority,
                           createdAt |-> clock, availableAt |-> availableAt,
                           attempt |-> 0, maxAttempts |-> maxAttempts,
                           leaseOwner |-> NoProc, leaseVersion |-> 0,
                           leaseExpiresAt |-> 0, lastError |-> "none"]]

(* Any build may have enqueued a row, one that is not running any more too. *)
Enqueue ==
    /\ \E kind \in JobKinds, w \in Workspaces, k \in Keys,
          p \in Priorities, m \in Attempts, d \in Delays :
             Insert(kind, w, k, p, m, clock + d)
    /\ UNCHANGED <<clock, lastDispatched, execs, failures>>

(* Mutant of RequeueDeadLetter: the dead row itself is queued again.       *)
RequeueInPlace ==
    /\ \E j \in DOMAIN jobs, d \in Delays :
          /\ jobs[j].status = "dead_letter"
          /\ \A i \in DOMAIN jobs : ~HoldsKey(i, jobs[j].workspace, jobs[j].key)
          /\ jobs' = [jobs EXCEPT ![j].status = "queued", ![j].activeKey = TRUE,
                                  ![j].attempt = 0, ![j].availableAt = clock + d]
    /\ UNCHANGED <<clock, lastDispatched, execs, failures>>

(* An operator requeues a dead letter: a fresh row, the dead one stays.    *)
(* The caller may choose its attempts and when it becomes available.       *)
RequeueDeadLetter ==
    /\ \E j \in DOMAIN jobs, m \in Attempts, d \in Delays :
          /\ jobs[j].status = "dead_letter"
          /\ Insert(jobs[j].kind, jobs[j].workspace, jobs[j].key, jobs[j].priority,
                    m, clock + d)
    /\ UNCHANGED <<clock, lastDispatched, execs, failures>>

(***************************************************************************)
(* Claiming a fair batch.                                                  *)
(***************************************************************************)

LiveLease(j) == jobs[j].status = "running" /\ jobs[j].leaseExpiresAt > clock

(* Mutant of Runnable: expired leases are not reclaimed.                   *)
QueuedOnly ==
    {j \in DOMAIN jobs : jobs[j].status = "queued" /\ jobs[j].availableAt <= clock}

Runnable ==
    {j \in DOMAIN jobs :
        \/ jobs[j].status = "queued" /\ jobs[j].availableAt <= clock
        \/ jobs[j].status = "running" /\ jobs[j].leaseExpiresAt <= clock}

LiveCount(w) == Cardinality({j \in DOMAIN jobs : LiveLease(j) /\ jobs[j].workspace = w})

(* ORDER BY priority DESC, available_at, created_at, id.                   *)
Before(i, j) ==
    LET a == jobs[i]  b == jobs[j] IN
    \/ a.priority > b.priority
    \/ /\ a.priority = b.priority
       /\ \/ a.availableAt < b.availableAt
          \/ /\ a.availableAt = b.availableAt
             /\ \/ a.createdAt < b.createdAt
                \/ a.createdAt = b.createdAt /\ i < j

(* The SELECT stops after ScanLimit rows.                                  *)
Candidates ==
    {j \in Runnable : Cardinality({i \in Runnable : Before(i, j)}) < ScanLimit}

(* What process p can make a claim of.  toClaim rejects any other row only *)
(* after the UPDATE has leased it.                                         *)
Known(p) == {j \in DOMAIN jobs : jobs[j].kind \in Knows[p]}

(* A pass over the workspaces goes down the queue of each until it has one *)
(* claim, leasing what it cannot claim on the way.  So pass n takes the    *)
(* n-th row p knows and the unknown ones just before it, and only if the   *)
(* workspace still has room for n claims.                                  *)
Pass(p, j) ==
    1 + Cardinality({i \in Candidates \cap Known(p) :
                       jobs[i].workspace = jobs[j].workspace /\ Before(i, j)})

(* Mutant of Admissible: the cap is checked once per batch.                *)
AdmissibleOncePerBatch(p) ==
    {j \in Candidates : LiveCount(jobs[j].workspace) < PerWorkspace}

(* The count that pass n compares with the cap has grown by the claims of  *)
(* the passes before it, not by the rows that made no claim.               *)
Admissible(p) ==
    {j \in Candidates : LiveCount(jobs[j].workspace) + Pass(p, j) <= PerWorkspace}

(* Mutant of TakenBefore: the batch is the head of the queue.              *)
TakenInQueueOrder(p, i, j) == Before(i, j)

(* The first pass serves the workspace dispatched longest ago; whoever     *)
(* takes part in a later pass was dispatched just now, and ids decide.     *)
TakenBefore(p, i, j) ==
    LET v == jobs[i].workspace  w == jobs[j].workspace IN
    \/ Pass(p, i) < Pass(p, j)
    \/ /\ Pass(p, i) = Pass(p, j)
       /\ \/ Pass(p, i) = 1 /\ lastDispatched[v] < lastDispatched[w]
          \/ /\ Pass(p, i) = 1 => lastDispatched[v] = lastDispatched[w]
             /\ v < w

(* The batch is full when it holds BatchSize claims.                       *)
Batch(p) ==
    {j \in Admissible(p) :
        Cardinality({i \in Admissible(p) \cap Known(p) : TakenBefore(p, i, j)}) < BatchSize}

(* claimBackgroundJobs by process p.  It leases whatever B holds; the rows *)
(* p knows become claims, count as dispatched and start to execute.  Of a  *)
(* row it does not know nothing is left but the lease.                     *)
Grant(p, B) ==
    /\ B # {}
    /\ jobs' = [j \in DOMAIN jobs |->
                  IF j \notin B THEN jobs[j]
                  ELSE [jobs[j] EXCEPT !.status = "running",
                                       !.attempt = @ + 1,
                                       !.leaseOwner = p,
                                       !.leaseVersion = @ + 1,
                                       !.leaseExpiresAt = clock + LeaseMs]]
    /\ execs' = execs \cup
          {[job |-> j, version |-> jobs[j].leaseVersion + 1, owner |-> p,
            attempt |-> jobs[j].attempt + 1, aborted |-> FALSE] :
              j \in B \cap Known(p)}
    /\ lastDispatched' = [w \in Workspaces |->
          IF \E j \in B \cap Known(p) : jobs[j].workspace = w THEN clock
          ELSE lastDispatched[w]]
    /\ UNCHANGED <<clock, failures>>

Claim(p) == Grant(p, Batch(p))

(***************************************************************************)
(* Executing a claim.                                                      *)
(***************************************************************************)

(* Mutant of LiveClaim: the version is not compared.                       *)
LiveClaimOfOwner(e) == LiveLease(e.job) /\ jobs[e.job].leaseOwner = e.owner

(* The WHERE clause that fences every write made on behalf of a claim.     *)
LiveClaim(e) ==
    /\ LiveLease(e.job)
    /\ jobs[e.job].leaseOwner = e.owner
    /\ jobs[e.job].leaseVersion = e.version

(* The interval timer, or the handler itself, renews the lease; a renewal  *)
(* that matches no row raises the signal.                                  *)
Heartbeat(e) ==
    /\ ~e.aborted
    /\ IF LiveClaim(e)
       THEN /\ jobs' = [jobs EXCEPT ![e.job].leaseExpiresAt = clock + LeaseMs]
            /\ UNCHANGED execs
       ELSE /\ execs' = (execs \ {e}) \cup {[e EXCEPT !.aborted = TRUE]}
            /\ UNCHANGED jobs
    /\ UNCHANGED <<clock, lastDispatched, failures>>

(* Mutant of Settle: the outcome is written by id alone.                   *)
SettleById(e, row) ==
    /\ ~e.aborted
    /\ jobs' = [jobs EXCEPT ![e.job] = row]
    /\ execs' = execs \ {e}
    /\ UNCHANGED <<clock, lastDispatched>>

(* The execution ends and writes what row says if its claim is still live; *)
(* otherwise it is counted as lost and writes nothing.                     *)
Settle(e, row) ==
    /\ ~e.aborted
    /\ jobs' = IF LiveClaim(e) THEN [jobs EXCEPT ![e.job] = row] ELSE jobs
    /\ execs' = execs \ {e}
    /\ UNCHANGED <<clock, lastDispatched>>

(* The handler completes.                                                  *)
Complete(e) ==
    /\ Settle(e, [jobs[e.job] EXCEPT !.status = "succeeded", !.activeKey = FALSE,
                                     !.leaseOwner = NoProc, !.leaseExpiresAt = 0,
                                     !.lastError = "none"])
    /\ UNCHANGED failures

(* Mutants of Buried: the unique column is kept, or a status of another    *)
(* table is written.                                                       *)
BuriedHoldingKey(j, error) ==
    [jobs[j] EXCEPT !.status = "dead_letter", !.leaseOwner = NoProc,
                    !.leaseExpiresAt = 0, !.lastError = error]
BuriedAsFailed(j, error) ==
    [jobs[j] EXCEPT !.status = "failed", !.activeKey = FALSE,
                    !.leaseOwner = NoProc, !.leaseExpiresAt = 0,
                    !.lastError = error]

Buried(j, error) ==
    [jobs[j] EXCEPT !.status = "dead_letter", !.activeKey = FALSE,
                    !.leaseOwner = NoProc, !.leaseExpiresAt = 0,
                    !.lastError = error]

(* The handler gives up for good, or the stored payload does not parse.    *)
DeadLetter(e) ==
    /\ Settle(e, Buried(e.job, "permanent"))
    /\ UNCHANGED failures

(* deterministicBackoffMs: doubling from the base up to the maximum, plus  *)
(* at most a fifth of jitter.  The hash of the id picks within the jitter. *)
CoreBackoff(attempt) ==
    LET doubled == BaseBackoff * 2 ^ (attempt - 1)
    IN IF doubled < MaxBackoff THEN doubled ELSE MaxBackoff

BackoffDelays(attempt) ==
    {d \in 1..MaxBackoff :
        /\ CoreBackoff(attempt) <= d
        /\ d <= CoreBackoff(attempt) + CoreBackoff(attempt) \div 5}

(* A handler may say itself when to retry; a time that is not ahead is     *)
(* refused and the backoff applies.                                        *)
RetryDelays(attempt) == BackoffDelays(attempt) \cup (Delays \ {0})

(* Mutant of Retry: the attempts are not limited.                          *)
RetryForever(e) ==
    /\ \E d \in RetryDelays(e.attempt) :
          Settle(e, [jobs[e.job] EXCEPT !.status = "queued",
                                        !.availableAt = clock + d,
                                        !.leaseOwner = NoProc,
                                        !.leaseExpiresAt = 0,
                                        !.lastError = "retryable"])
    /\ failures' = IF LiveClaim(e) THEN [failures EXCEPT ![e.job] = @ + 1]
                   ELSE failures

(* The handler asks for a retry or throws.  The claim of the last attempt  *)
(* is dead-lettered instead of queued again.                               *)
Retry(e) ==
    /\ IF e.attempt >= jobs[e.job].maxAttempts
       THEN Settle(e, Buried(e.job, "retryable"))
       ELSE \E d \in RetryDelays(e.attempt) :
              Settle(e, [jobs[e.job] EXCEPT !.status = "queued",
                                            !.availableAt = clock + d,
                                            !.leaseOwner = NoProc,
                                            !.leaseExpiresAt = 0,
                                            !.lastError = "retryable"])
    /\ failures' = IF LiveClaim(e) THEN [failures EXCEPT ![e.job] = @ + 1]
                   ELSE failures

(* The handler settles after its signal was raised: nothing is written.    *)
Abandon(e) ==
    /\ e.aborted
    /\ execs' = execs \ {e}
    /\ UNCHANGED <<clock, jobs, lastDispatched, failures>>

(***************************************************************************)
(* The processes and time.                                                 *)
(***************************************************************************)

(* A process shuts down: the signals of its executions are raised.         *)
Shutdown(p) ==
    /\ \E e \in execs : e.owner = p /\ ~e.aborted
    /\ execs' = {IF e.owner = p THEN [e EXCEPT !.aborted = TRUE] ELSE e : e \in execs}
    /\ UNCHANGED <<clock, jobs, lastDispatched, failures>>

(* A process dies with its executions.  Rows stay as they are; it may be   *)
(* started again and claim under a new owner at once.                      *)
Crash(p) ==
    /\ \E e \in execs : e.owner = p
    /\ execs' = {e \in execs : e.owner # p}
    /\ UNCHANGED <<clock, jobs, lastDispatched, failures>>

Tick ==
    /\ clock < MaxClock
    /\ clock' = clock + 1
    /\ UNCHANGED <<jobs, lastDispatched, execs, failures>>

Step(e) ==
    \/ Heartbeat(e) \/ Complete(e) \/ DeadLetter(e) \/ Retry(e) \/ Abandon(e)

Next ==
    \/ Enqueue
    \/ RequeueDeadLetter
    \/ \E p \in Procs : Claim(p) \/ Shutdown(p) \/ Crash(p)
    \/ \E e \in execs : Step(e)
    \/ Tick

Spec == Init /\ [][Next]_vars

(***************************************************************************)
(* Safety.                                                                 *)
(***************************************************************************)

(* Enqueueing while a job with the same key is queued or running yields    *)
(* that job, in every order of enqueue, claim, retry, dead-letter and      *)
(* requeue: the key is held exactly while the job is active, by one row.   *)
OneActiveJobPerKey ==
    \A i, j \in DOMAIN jobs :
        /\ jobs[i].activeKey <=> jobs[i].status \in Active
        /\ HoldsKey(i, jobs[j].workspace, jobs[j].key) /\ jobs[j].activeKey => i = j

(* A lease version names one execution and none is ahead of its row.       *)
Fenced ==
    /\ \A e \in execs : e.version <= jobs[e.job].leaseVersion
    /\ \A e, f \in execs : e.job = f.job /\ e.version = f.version => e = f

(* However many executions of a job are under way after expiries and       *)
(* crashes, at most one of them can still renew or settle it.              *)
AtMostOneWriter ==
    \A e, f \in execs : e.job = f.job /\ LiveClaim(e) /\ LiveClaim(f) => e = f

(* A workspace never has more jobs in hand than the cap (leased, by a      *)
(* process that knows what to do with them), whatever number of processes  *)
(* of different builds claim and however renewals and expiries fall        *)
(* between claims.  Leases of rows that made no claim come on top.         *)
InHand(j) == LiveLease(j) /\ jobs[j].kind \in Knows[jobs[j].leaseOwner]

WorkspaceCap ==
    \A w \in Workspaces :
        Cardinality({j \in DOMAIN jobs : InHand(j) /\ jobs[j].workspace = w}) <= PerWorkspace

(* Terminal rows are the audit ledger: no late execution, no requeue and   *)
(* no claim changes one.                                                   *)
TerminalIsFinal ==
    [][\A j \in DOMAIN jobs :
          jobs[j].status \in Terminal =>
             j \in DOMAIN jobs' /\ jobs'[j] = jobs[j]]_vars

(* The retry budget: no job records more failures than it has attempts,    *)
(* and only the claim of the last attempt (or a later one) buries a job    *)
(* for an error that could have been retried.                              *)
RetryBudget ==
    \A j \in DOMAIN jobs :
        /\ failures[j] <= jobs[j].maxAttempts
        /\ jobs[j].status = "dead_letter" /\ jobs[j].lastError = "retryable"
              => jobs[j].attempt >= jobs[j].maxAttempts
        /\ jobs[j].status = "queued" => failures[j] < jobs[j].maxAttempts

(* Fair batches: when a claim by process p leaves out a workspace that had *)
(* a due job p knows and room under its cap, no other workspace got a      *)
(* second job, and those that got one had been dispatched no later than it *)
(* (sprint 73, 5.3).  Rows leased on the way without a claim do not count. *)
Waiting(p, w) ==
    /\ \E j \in Runnable \cap Known(p) : jobs[j].workspace = w
    /\ LiveCount(w) < PerWorkspace

FairBatches ==
    [][LET Taken(p, w) == {j \in Known(p) :
                             /\ jobs[j].workspace = w
                             /\ jobs'[j].leaseVersion > jobs[j].leaseVersion
                             /\ jobs'[j].leaseOwner = p}
       IN \A p \in Procs : \A v, w \in Workspaces :
             Waiting(p, w) /\ Taken(p, w) = {} /\ Taken(p, v) # {} =>
                /\ Cardinality(Taken(p, v)) = 1
                /\ lastDispatched[v] <= lastDispatched[w]]_vars

(***************************************************************************)
(* The queue implements its promise.                                       *)
(***************************************************************************)

Queue == INSTANCE DurableQueue WITH
    Jobs <- JobIds,
    Keys <- Workspaces \X Keys,
    status <- [j \in JobIds |->
                 IF j \notin DOMAIN jobs THEN "none"
                 ELSE IF jobs[j].status \in Active THEN "active" ELSE jobs[j].status],
    key <- [j \in DOMAIN jobs |-> <<jobs[j].workspace, jobs[j].key>>],
    handouts <- [j \in JobIds |->
                   IF j \in DOMAIN jobs THEN jobs[j].leaseVersion ELSE 0],
    out <- {<<e.job, e.version>> : e \in execs}

ImplementsDurableQueue == Queue!Spec
=============================================================================
