------------------------ MODULE BackgroundJobsProofs ------------------------
(***************************************************************************)
(* What the job queue guarantees for any number of rows, workspaces, keys  *)
(* and processes, and any policy the API accepts.                          *)
(***************************************************************************)
EXTENDS BackgroundJobs, FiniteSetTheorems, WellFoundedInduction, TLAPS

(* A set of naturals has a least element.                                  *)
LEMMA LeastIs ==
  ASSUME NEW S \in SUBSET Nat, S # {}
  PROVE  \E x \in S : \A y \in S : x <= y
<1>1. PICK x \in S : \A y \in S : ~ (<<y, x>> \in OpToRel(<, Nat))
  BY WFMin, NatLessThanWellFounded, Zenon
<1>2. ASSUME NEW y \in S, ~(x <= y) PROVE FALSE
  <2>1. <<y, x>> \in Nat \X Nat /\ <<y, x>>[1] < <<y, x>>[2]
    BY <1>2
  <2>2. <<y, x>> \in OpToRel(<, Nat)
    BY <2>1 DEF OpToRel
  <2> QED
    BY <1>1, <2>2
<1> QED
  BY <1>2

USE IdsAssumption, InputsAssumption, ProcsAssumption, PolicyAssumption

(***************************************************************************)
(* Shapes of the steps.                                                    *)
(***************************************************************************)

(* What a batch grants is due, hence active.                               *)
LEMMA BatchIsRunnable ==
  /\ \A p : Batch(p) \subseteq Runnable
  /\ Runnable \subseteq DOMAIN jobs
  BY DEF Batch, Admissible, Candidates, Runnable

(* A claim takes a due set of rows.                                        *)
LEMMA ClaimGrants ==
  ASSUME NEW p \in Procs, Claim(p)
  PROVE  \E B \in SUBSET Runnable : Grant(p, B)
  BY BatchIsRunnable DEF Claim

(* The backoff lies ahead.                                                 *)
LEMMA DelaysPositive == \A a : RetryDelays(a) \subseteq Nat \ {0}
<1>1. \A a : \A d \in BackoffDelays(a) : d \in Nat \ {0}
  BY DEF BackoffDelays
<1>2. \A d \in Delays \ {0} : d \in Nat \ {0}
  OBVIOUS
<1> QED
  BY <1>1, <1>2 DEF RetryDelays

(* Init is well typed.                                                     *)
LEMMA TypeInit == Init => TypeOK
  BY DEF Init, TypeOK, NeverDispatched

(* An insert adds a queued row under a new id.                             *)
LEMMA InsertType ==
  ASSUME TypeOK, NEW kind \in JobKinds, NEW w \in Workspaces, NEW k \in Keys,
         NEW p \in Priorities, NEW m \in Attempts, NEW at \in Nat,
         Insert(kind, w, k, p, m, at)
  PROVE  DOMAIN jobs' \subseteq JobIds /\ jobs' \in [DOMAIN jobs' -> JobRow]
<1>1. PICK new \in JobIds \ DOMAIN jobs :
        jobs' = [j \in DOMAIN jobs \cup {new} |->
                     IF j # new THEN jobs[j]
                     ELSE [status |-> "queued", kind |-> kind, workspace |-> w, key |-> k,
                           activeKey |-> TRUE, priority |-> p,
                           createdAt |-> clock, availableAt |-> at,
                           attempt |-> 0, maxAttempts |-> m,
                           leaseOwner |-> NoProc, leaseVersion |-> 0,
                           leaseExpiresAt |-> 0, lastError |-> "none"]]
  BY DEF Insert
<1>2. [status |-> "queued", kind |-> kind, workspace |-> w, key |-> k,
       activeKey |-> TRUE, priority |-> p, createdAt |-> clock, availableAt |-> at,
       attempt |-> 0, maxAttempts |-> m, leaseOwner |-> NoProc,
       leaseVersion |-> 0, leaseExpiresAt |-> 0, lastError |-> "none"] \in JobRow
  BY DEF JobRow, Active, TypeOK
<1>3. \A j \in DOMAIN jobs : jobs[j] \in JobRow
  BY DEF TypeOK
<1> QED
  BY <1>1, <1>2, <1>3 DEF TypeOK

(* A settled row is well typed.                                            *)
LEMMA RowTypes ==
  ASSUME TypeOK, NEW j \in DOMAIN jobs
  PROVE  /\ [jobs[j] EXCEPT !.status = "succeeded", !.activeKey = FALSE,
                            !.leaseOwner = NoProc, !.leaseExpiresAt = 0,
                            !.lastError = "none"] \in JobRow
         /\ \A x \in {"retryable", "permanent"} : Buried(j, x) \in JobRow
         /\ \A at \in Nat : [jobs[j] EXCEPT !.status = "queued", !.availableAt = at,
                                !.leaseOwner = NoProc, !.leaseExpiresAt = 0,
                                !.lastError = "retryable"] \in JobRow
         /\ \A at \in Nat : [jobs[j] EXCEPT !.leaseExpiresAt = at] \in JobRow
         /\ \A p \in Procs, at \in Nat :
              [jobs[j] EXCEPT !.status = "running", !.attempt = @ + 1,
                              !.leaseOwner = p, !.leaseVersion = @ + 1,
                              !.leaseExpiresAt = at] \in JobRow
<1>1. jobs[j] \in JobRow
  BY DEF TypeOK
<1>2. [jobs[j] EXCEPT !.status = "succeeded", !.activeKey = FALSE,
                      !.leaseOwner = NoProc, !.leaseExpiresAt = 0,
                      !.lastError = "none"] \in JobRow
  BY <1>1 DEF JobRow, Active, Terminal
<1>3. \A x \in {"retryable", "permanent"} : Buried(j, x) \in JobRow
  BY <1>1 DEF JobRow, Active, Terminal, Buried
<1>4. \A at \in Nat : [jobs[j] EXCEPT !.status = "queued", !.availableAt = at,
                                !.leaseOwner = NoProc, !.leaseExpiresAt = 0,
                                !.lastError = "retryable"] \in JobRow
  BY <1>1 DEF JobRow, Active, Terminal
<1>5. \A at \in Nat : [jobs[j] EXCEPT !.leaseExpiresAt = at] \in JobRow
  BY <1>1 DEF JobRow, Active, Terminal
<1>6. \A p \in Procs, at \in Nat :
        [jobs[j] EXCEPT !.status = "running", !.attempt = @ + 1,
                        !.leaseOwner = p, !.leaseVersion = @ + 1,
                        !.leaseExpiresAt = at] \in JobRow
  <2> SUFFICES ASSUME NEW p \in Procs, NEW at \in Nat
               PROVE  [jobs[j] EXCEPT !.status = "running",
                                      !.attempt = jobs[j].attempt + 1,
                                      !.leaseOwner = p,
                                      !.leaseVersion = jobs[j].leaseVersion + 1,
                                      !.leaseExpiresAt = at] \in JobRow
    BY <1>1 DEF JobRow
  <2>1. jobs[j].attempt + 1 \in Nat /\ jobs[j].leaseVersion + 1 \in Nat
    BY <1>1 DEF JobRow
  <2> QED
    BY <1>1, <2>1 DEF JobRow, Active, Terminal
<1> QED
  BY <1>2, <1>3, <1>4, <1>5, <1>6

(* The claim of an execution that settles refers to an inserted row; if    *)
(* the new row is well typed, so is the table.                             *)
LEMMA SettleType ==
  ASSUME TypeOK, NEW e \in execs, NEW row \in JobRow, Settle(e, row)
  PROVE  /\ DOMAIN jobs' = DOMAIN jobs
         /\ jobs' \in [DOMAIN jobs' -> JobRow]
         /\ execs' \subseteq execs
         /\ clock' = clock /\ lastDispatched' = lastDispatched
  BY DEF Settle, TypeOK

(* Every step keeps the types.                                             *)
LEMMA TypeStep == TypeOK /\ [Next]_vars => TypeOK'
<1> SUFFICES ASSUME TypeOK, [Next]_vars PROVE TypeOK'
  OBVIOUS
<1>1. CASE Enqueue
  <2>1. PICK kind \in JobKinds, w \in Workspaces, k \in Keys, p \in Priorities,
            m \in Attempts, d \in Delays : Insert(kind, w, k, p, m, clock + d)
    BY <1>1 DEF Enqueue
  <2>2. DOMAIN jobs' \subseteq JobIds /\ jobs' \in [DOMAIN jobs' -> JobRow]
    <3>1. clock + d \in Nat
      BY DEF TypeOK
    <3> QED
      BY <2>1, <3>1, InsertType
  <2>3. DOMAIN jobs \subseteq DOMAIN jobs'
    BY <2>1 DEF Insert
  <2> QED
    BY <1>1, <2>2, <2>3 DEF Enqueue, TypeOK
<1>2. CASE RequeueDeadLetter
  <2>1. PICK j \in DOMAIN jobs, m \in Attempts, d \in Delays :
          Insert(jobs[j].kind, jobs[j].workspace, jobs[j].key, jobs[j].priority, m, clock + d)
    BY <1>2 DEF RequeueDeadLetter
  <2>2. DOMAIN jobs' \subseteq JobIds /\ jobs' \in [DOMAIN jobs' -> JobRow]
    <3>1. /\ clock + d \in Nat
          /\ jobs[j].workspace \in Workspaces /\ jobs[j].key \in Keys
          /\ jobs[j].priority \in Priorities /\ jobs[j].kind \in JobKinds
      BY DEF TypeOK, JobRow
    <3> QED
      BY <2>1, <3>1, InsertType
  <2>3. DOMAIN jobs \subseteq DOMAIN jobs'
    BY <2>1 DEF Insert
  <2> QED
    BY <1>2, <2>2, <2>3 DEF RequeueDeadLetter, TypeOK
<1>3. ASSUME NEW p \in Procs, Claim(p) PROVE TypeOK'
  <2>1. PICK B \in SUBSET DOMAIN jobs : Grant(p, B)
    BY <1>3, BatchIsRunnable DEF Claim
  <2>2. jobs' \in [DOMAIN jobs -> JobRow] /\ DOMAIN jobs' = DOMAIN jobs
    <3>1. clock + LeaseMs \in Nat
      BY DEF TypeOK
    <3> QED
      BY <2>1, <3>1, RowTypes DEF Grant, TypeOK
  <2>3. lastDispatched' \in [Workspaces -> Nat \cup {NeverDispatched}]
    BY <2>1 DEF Grant, TypeOK
  <2>4. \A e \in execs' : e \in Execution /\ e.job \in DOMAIN jobs
    <3> DEFINE New(j) == [job |-> j, version |-> jobs[j].leaseVersion + 1, owner |-> p,
                          attempt |-> jobs[j].attempt + 1, aborted |-> FALSE]
    <3>1. execs' = execs \cup {New(j) : j \in B \cap Known(p)}
      BY <2>1 DEF Grant
    <3>2. \A j \in B : New(j) \in Execution /\ New(j).job = j
      <4> SUFFICES ASSUME NEW j \in B PROVE New(j) \in Execution
        OBVIOUS
      <4>1. jobs[j].leaseVersion \in Nat /\ jobs[j].attempt \in Nat /\ j \in JobIds
        BY DEF TypeOK, JobRow
      <4> QED
        BY <4>1 DEF Execution
    <3> HIDE DEF New
    <3>3. \A e \in execs : e \in Execution /\ e.job \in DOMAIN jobs
      BY DEF TypeOK
    <3> QED
      BY <3>1, <3>2, <3>3
  <2> QED
    BY <2>1, <2>2, <2>3, <2>4 DEF Grant, TypeOK
<1>4. ASSUME NEW e \in execs, Heartbeat(e) PROVE TypeOK'
  <2>1. CASE LiveClaim(e)
    <3>1. jobs' = [jobs EXCEPT ![e.job] = [jobs[e.job] EXCEPT !.leaseExpiresAt = clock + LeaseMs]]
      BY <1>4, <2>1 DEF Heartbeat
    <3>2. clock + LeaseMs \in Nat /\ e.job \in DOMAIN jobs
      BY DEF TypeOK
    <3>3. [jobs[e.job] EXCEPT !.leaseExpiresAt = clock + LeaseMs] \in JobRow
      BY <3>2, RowTypes
    <3> QED
      BY <1>4, <2>1, <3>1, <3>2, <3>3 DEF Heartbeat, TypeOK
  <2>2. CASE ~LiveClaim(e)
    <3>1. [e EXCEPT !.aborted = TRUE] \in Execution /\ [e EXCEPT !.aborted = TRUE].job = e.job
      BY DEF TypeOK, Execution
    <3> QED
      BY <1>4, <2>2, <3>1 DEF Heartbeat, TypeOK
  <2> QED
    BY <2>1, <2>2
<1>5. ASSUME NEW e \in execs, Complete(e) \/ DeadLetter(e) PROVE TypeOK'
  <2>1. e.job \in DOMAIN jobs
    BY DEF TypeOK
  <2>2. \E row \in JobRow : Settle(e, row)
    BY <1>5, <2>1, RowTypes DEF Complete, DeadLetter
  <2> QED
    BY <1>5, <2>2, SettleType DEF Complete, DeadLetter, TypeOK
<1>6. ASSUME NEW e \in execs, Retry(e) PROVE TypeOK'
  <2>1. e.job \in DOMAIN jobs /\ e.job \in JobIds
    BY DEF TypeOK
  <2>2. \E row \in JobRow : Settle(e, row)
    <3>1. CASE e.attempt >= jobs[e.job].maxAttempts
      BY <1>6, <2>1, <3>1, RowTypes DEF Retry
    <3>2. CASE ~(e.attempt >= jobs[e.job].maxAttempts)
      <4>1. \A d \in RetryDelays(e.attempt) : clock + d \in Nat
        BY DelaysPositive DEF TypeOK
      <4> QED
        BY <1>6, <2>1, <3>2, <4>1, RowTypes DEF Retry
    <3> QED
      BY <3>1, <3>2
  <2>3. failures' \in [JobIds -> Nat]
    <3>1. failures \in [JobIds -> Nat] /\ failures[e.job] + 1 \in Nat
      BY <2>1 DEF TypeOK
    <3>2. failures' = failures \/ failures' = [failures EXCEPT ![e.job] = failures[e.job] + 1]
      BY <1>6 DEF Retry
    <3> QED
      BY <2>1, <3>1, <3>2
  <2> QED
    BY <2>2, <2>3, SettleType DEF TypeOK
<1>7. ASSUME NEW e \in execs, Abandon(e) PROVE TypeOK'
  BY <1>7 DEF Abandon, TypeOK
<1>8. ASSUME NEW p \in Procs, Shutdown(p) PROVE TypeOK'
  <2>1. \A e \in execs : /\ [e EXCEPT !.aborted = TRUE] \in Execution
                         /\ [e EXCEPT !.aborted = TRUE].job = e.job
    BY DEF TypeOK, Execution
  <2> QED
    BY <1>8, <2>1 DEF Shutdown, TypeOK
<1>9. ASSUME NEW p \in Procs, Crash(p) PROVE TypeOK'
  BY <1>9 DEF Crash, TypeOK
<1>10. CASE Tick
  BY <1>10 DEF Tick, TypeOK
<1>11. CASE UNCHANGED vars
  BY <1>11 DEF vars, TypeOK
<1> QED
  BY <1>1, <1>2, <1>3, <1>4, <1>5, <1>6, <1>7, <1>8, <1>9, <1>10, <1>11 DEF Next, Step

(* TypeOK always holds.                                                    *)
THEOREM Typing == Spec => []TypeOK
  BY TypeInit, TypeStep, PTL DEF Spec

(***************************************************************************)
(* What a step of an execution does to the table: nothing, or a change of  *)
(* the row it holds the live lease of, which keeps what identifies the row *)
(* and releases the key exactly with a terminal status.                    *)
(***************************************************************************)

Successor(row, old) ==
    /\ row.workspace = old.workspace
    /\ row.key = old.key
    /\ row.leaseVersion = old.leaseVersion
    /\ \/ row.status \in Active /\ row.activeKey = old.activeKey
       \/ row.status \in Terminal /\ row.activeKey = FALSE

LEMMA SettleWrites ==
  ASSUME TypeOK, NEW e \in execs, NEW row, Settle(e, row), Successor(row, jobs[e.job])
  PROVE  \/ jobs' = jobs
         \/ LiveLease(e.job) /\ \E r : /\ Successor(r, jobs[e.job])
                                       /\ jobs' = [jobs EXCEPT ![e.job] = r]
  BY DEF Settle, LiveClaim

LEMMA StepWrites ==
  ASSUME TypeOK, NEW e \in execs, Step(e)
  PROVE  \/ jobs' = jobs
         \/ LiveLease(e.job) /\ \E r : /\ Successor(r, jobs[e.job])
                                       /\ jobs' = [jobs EXCEPT ![e.job] = r]
<1>1. jobs[e.job] \in JobRow /\ e.job \in DOMAIN jobs
  BY DEF TypeOK
<1>2. CASE Heartbeat(e)
  <2>1. CASE LiveClaim(e)
    <3> DEFINE r == [jobs[e.job] EXCEPT !.leaseExpiresAt = clock + LeaseMs]
    <3>1. jobs' = [jobs EXCEPT ![e.job] = r]
      BY <1>2, <2>1 DEF Heartbeat
    <3>2. Successor(r, jobs[e.job])
      BY <1>1, <2>1 DEF Successor, LiveClaim, LiveLease, Active, JobRow
    <3> QED
      BY <2>1, <3>1, <3>2 DEF LiveClaim
  <2>2. CASE ~LiveClaim(e)
    BY <1>2, <2>2 DEF Heartbeat
  <2> QED
    BY <2>1, <2>2
<1>3. CASE Complete(e)
  <2> DEFINE r == [jobs[e.job] EXCEPT !.status = "succeeded", !.activeKey = FALSE,
                                      !.leaseOwner = NoProc, !.leaseExpiresAt = 0,
                                      !.lastError = "none"]
  <2>1. Settle(e, r)
    BY <1>3 DEF Complete
  <2>2. Successor(r, jobs[e.job])
    BY <1>1 DEF Successor, Terminal, JobRow
  <2> HIDE DEF r
  <2> QED
    BY <2>1, <2>2, SettleWrites
<1>4. \A x : Successor(Buried(e.job, x), jobs[e.job])
  BY <1>1 DEF Successor, Buried, Terminal, JobRow
<1>5. CASE DeadLetter(e)
  BY <1>4, <1>5, SettleWrites DEF DeadLetter
<1>6. CASE Retry(e)
  <2>1. CASE e.attempt >= jobs[e.job].maxAttempts
    BY <1>4, <1>6, <2>1, SettleWrites DEF Retry
  <2>2. CASE ~(e.attempt >= jobs[e.job].maxAttempts)
    <3>1. PICK d \in RetryDelays(e.attempt) :
            Settle(e, [jobs[e.job] EXCEPT !.status = "queued", !.availableAt = clock + d,
                                          !.leaseOwner = NoProc, !.leaseExpiresAt = 0,
                                          !.lastError = "retryable"])
      BY <1>6, <2>2 DEF Retry
    <3>2. Successor([jobs[e.job] EXCEPT !.status = "queued", !.availableAt = clock + d,
                                        !.leaseOwner = NoProc, !.leaseExpiresAt = 0,
                                        !.lastError = "retryable"], jobs[e.job])
      BY <1>1 DEF Successor, Active, JobRow
    <3> QED
      BY <3>1, <3>2, SettleWrites
  <2> QED
    BY <2>1, <2>2
<1>7. CASE Abandon(e)
  BY <1>7 DEF Abandon
<1> QED
  BY <1>2, <1>3, <1>5, <1>6, <1>7 DEF Step

(***************************************************************************)
(* One active job per key.                                                 *)
(***************************************************************************)

LEMMA InsertKeepsKeys ==
  ASSUME TypeOK, OneActiveJobPerKey, NEW kind, NEW w, NEW k, NEW p, NEW m, NEW at,
         Insert(kind, w, k, p, m, at)
  PROVE  OneActiveJobPerKey'
<1>1. PICK new \in JobIds \ DOMAIN jobs :
        /\ DOMAIN jobs' = DOMAIN jobs \cup {new}
        /\ \A j \in DOMAIN jobs : jobs'[j] = jobs[j]
        /\ jobs'[new].status = "queued" /\ jobs'[new].activeKey = TRUE
        /\ jobs'[new].workspace = w /\ jobs'[new].key = k
  BY DEF Insert
<1>2. \A j \in DOMAIN jobs : ~(jobs[j].activeKey /\ jobs[j].workspace = w /\ jobs[j].key = k)
  BY DEF Insert, HoldsKey
<1> QED
  BY <1>1, <1>2 DEF OneActiveJobPerKey, HoldsKey, Active

LEMMA KeysStep == TypeOK /\ OneActiveJobPerKey /\ [Next]_vars => OneActiveJobPerKey'
<1> SUFFICES ASSUME TypeOK, OneActiveJobPerKey, [Next]_vars PROVE OneActiveJobPerKey'
  OBVIOUS
<1>1. CASE Enqueue
  BY <1>1, InsertKeepsKeys DEF Enqueue
<1>2. CASE RequeueDeadLetter
  BY <1>2, InsertKeepsKeys DEF RequeueDeadLetter
<1>3. ASSUME NEW p \in Procs, Claim(p) PROVE OneActiveJobPerKey'
  <2>1. PICK B \in SUBSET Runnable : Grant(p, B)
    BY <1>3, ClaimGrants
  <2>2. DOMAIN jobs' = DOMAIN jobs
    BY <2>1 DEF Grant
  <2>3. \A j \in DOMAIN jobs : /\ jobs'[j].workspace = jobs[j].workspace
                               /\ jobs'[j].key = jobs[j].key
                               /\ jobs'[j].activeKey = jobs[j].activeKey
                               /\ jobs[j].status \in Active <=> jobs'[j].status \in Active
    <3> SUFFICES ASSUME NEW j \in DOMAIN jobs
                 PROVE  /\ jobs'[j].workspace = jobs[j].workspace
                        /\ jobs'[j].key = jobs[j].key
                        /\ jobs'[j].activeKey = jobs[j].activeKey
                        /\ jobs[j].status \in Active <=> jobs'[j].status \in Active
      OBVIOUS
    <3>1. CASE j \notin B
      BY <2>1, <3>1 DEF Grant
    <3>2. CASE j \in B
      <4>1. jobs[j].status \in Active
        BY <2>1, <3>2 DEF Runnable, Active
      <4>2. jobs[j] \in JobRow
        BY DEF TypeOK
      <4> QED
        BY <2>1, <3>2, <4>1, <4>2 DEF Grant, JobRow, Active
    <3> QED
      BY <3>1, <3>2
  <2> QED
    BY <2>2, <2>3 DEF OneActiveJobPerKey, HoldsKey
<1>4. ASSUME NEW e \in execs, Step(e) PROVE OneActiveJobPerKey'
  <2>1. CASE jobs' = jobs
    BY <2>1 DEF OneActiveJobPerKey, HoldsKey
  <2>2. ASSUME NEW r, LiveLease(e.job), Successor(r, jobs[e.job]),
               jobs' = [jobs EXCEPT ![e.job] = r]
        PROVE  OneActiveJobPerKey'
    <3>1. e.job \in DOMAIN jobs /\ DOMAIN jobs' = DOMAIN jobs /\ jobs'[e.job] = r
      BY <2>2 DEF TypeOK
    <3>2. \A j \in DOMAIN jobs \ {e.job} : jobs'[j] = jobs[j]
      BY <2>2 DEF TypeOK
    <3>3. jobs[e.job].activeKey
      BY <2>2, <3>1 DEF LiveLease, OneActiveJobPerKey, Active
    <3>4. r.activeKey <=> r.status \in Active
      BY <2>2, <3>3 DEF Successor, Active, Terminal
    <3> QED
      BY <2>2, <3>1, <3>2, <3>3, <3>4 DEF OneActiveJobPerKey, HoldsKey, Successor
  <2> QED
    BY <1>4, <2>1, <2>2, StepWrites
<1>5. ASSUME NEW p \in Procs, Shutdown(p) \/ Crash(p) PROVE OneActiveJobPerKey'
  BY <1>5 DEF Shutdown, Crash, OneActiveJobPerKey, HoldsKey
<1>6. CASE Tick \/ UNCHANGED vars
  BY <1>6 DEF Tick, vars, OneActiveJobPerKey, HoldsKey
<1> QED
  BY <1>1, <1>2, <1>3, <1>4, <1>5, <1>6 DEF Next

(* In every reachable state a key is held by at most one row, and exactly  *)
(* while that row is active.                                               *)
THEOREM KeyUniqueness == Spec => []OneActiveJobPerKey
<1>1. Init => OneActiveJobPerKey
  BY DEF Init, OneActiveJobPerKey
<1> QED
  BY <1>1, Typing, KeysStep, PTL DEF Spec

(***************************************************************************)
(* Fencing: a lease version names one execution.                           *)
(***************************************************************************)

(* Rows that keep their version and executions that keep their identity    *)
(* keep the fence.                                                         *)
LEMMA FenceCarries ==
  ASSUME TypeOK, Fenced,
         \A j \in DOMAIN jobs : j \in DOMAIN jobs' /\ jobs'[j].leaseVersion = jobs[j].leaseVersion,
         execs' \subseteq execs
  PROVE  Fenced'
  BY DEF Fenced, TypeOK

(* No step of an execution moves the version of a row.                     *)
LEMMA StepKeepsVersions ==
  ASSUME TypeOK, NEW e \in execs, Step(e)
  PROVE  \A j \in DOMAIN jobs :
            j \in DOMAIN jobs' /\ jobs'[j].leaseVersion = jobs[j].leaseVersion
<1>1. CASE jobs' = jobs
  BY <1>1
<1>2. ASSUME NEW r, Successor(r, jobs[e.job]), jobs' = [jobs EXCEPT ![e.job] = r]
      PROVE  \A j \in DOMAIN jobs :
                j \in DOMAIN jobs' /\ jobs'[j].leaseVersion = jobs[j].leaseVersion
  <2>1. DOMAIN jobs' = DOMAIN jobs /\ jobs'[e.job] = r
    BY <1>2 DEF TypeOK
  <2>2. \A j \in DOMAIN jobs \ {e.job} : jobs'[j] = jobs[j]
    BY <1>2 DEF TypeOK
  <2> QED
    BY <1>2, <2>1, <2>2 DEF Successor
<1> QED
  BY <1>1, <1>2, StepWrites

(* A grant advances the versions it hands out past every execution.        *)
LEMMA GrantFenced ==
  ASSUME TypeOK, Fenced, NEW p \in Procs, NEW B \in SUBSET DOMAIN jobs, Grant(p, B)
  PROVE  Fenced'
<1> DEFINE New(j) == [job |-> j, version |-> jobs[j].leaseVersion + 1, owner |-> p,
                      attempt |-> jobs[j].attempt + 1, aborted |-> FALSE]
<1>1. execs' = execs \cup {New(j) : j \in B \cap Known(p)}
  BY DEF Grant
<1>2. \A j \in B : New(j).job = j /\ New(j).version = jobs[j].leaseVersion + 1
  OBVIOUS
<1>3. \A j \in DOMAIN jobs : jobs[j].leaseVersion \in Nat
  BY DEF TypeOK, JobRow
<1>4. /\ DOMAIN jobs' = DOMAIN jobs
      /\ \A j \in DOMAIN jobs :
            jobs'[j].leaseVersion = IF j \in B THEN jobs[j].leaseVersion + 1
                                    ELSE jobs[j].leaseVersion
  <2> SUFFICES ASSUME NEW j \in DOMAIN jobs
               PROVE  jobs'[j].leaseVersion = IF j \in B THEN jobs[j].leaseVersion + 1
                                              ELSE jobs[j].leaseVersion
    BY DEF Grant
  <2>1. jobs[j] \in JobRow
    BY DEF TypeOK
  <2> QED
    BY <2>1 DEF Grant, JobRow
<1>5. \A e \in execs : /\ e.job \in DOMAIN jobs /\ e.version \in Nat
                       /\ e.version <= jobs[e.job].leaseVersion
  BY DEF TypeOK, Execution, Fenced
<1> HIDE DEF New
<1>6. \A e \in execs' : e.version <= jobs'[e.job].leaseVersion
  BY <1>1, <1>2, <1>3, <1>4, <1>5
<1>7. ASSUME NEW e \in execs', NEW f \in execs', e.job = f.job, e.version = f.version
      PROVE  e = f
  <2>1. CASE e \in execs /\ f \in execs
    BY <1>7, <2>1 DEF Fenced
  <2>2. ASSUME NEW j \in B, NEW d \in execs, d.job = j
        PROVE  d.version # New(j).version
    BY <1>2, <1>3, <1>5, <2>2
  <2>3. CASE e \notin execs \/ f \notin execs
    BY <1>1, <1>2, <1>7, <2>2, <2>3
  <2> QED
    BY <2>1, <2>3
<1> QED
  BY <1>6, <1>7 DEF Fenced

LEMMA FencedStep == TypeOK /\ Fenced /\ [Next]_vars => Fenced'
<1> SUFFICES ASSUME TypeOK, Fenced, [Next]_vars PROVE Fenced'
  OBVIOUS
<1>1. CASE Enqueue \/ RequeueDeadLetter
  <2>1. execs' = execs
    BY <1>1 DEF Enqueue, RequeueDeadLetter
  <2>2. PICK kind, w, k, p, m, at : Insert(kind, w, k, p, m, at)
    BY <1>1 DEF Enqueue, RequeueDeadLetter
  <2>3. \A j \in DOMAIN jobs : j \in DOMAIN jobs' /\ jobs'[j] = jobs[j]
    BY <2>2 DEF Insert
  <2> QED
    BY <2>1, <2>3, FenceCarries
<1>2. ASSUME NEW p \in Procs, Claim(p) PROVE Fenced'
  BY <1>2, ClaimGrants, BatchIsRunnable, GrantFenced
<1>3. ASSUME NEW e \in execs, Step(e) PROVE Fenced'
  <2>1. CASE execs' \subseteq execs
    BY <1>3, <2>1, StepKeepsVersions, FenceCarries
  <2>2. CASE ~(execs' \subseteq execs)
    <3> DEFINE d == [e EXCEPT !.aborted = TRUE]
    <3>1. execs' = (execs \ {e}) \cup {d} /\ jobs' = jobs
      BY <1>3, <2>2 DEF Step, Heartbeat, Complete, DeadLetter, Retry, Abandon, Settle
    <3>2. d.job = e.job /\ d.version = e.version
      BY DEF TypeOK, Execution
    <3> HIDE DEF d
    <3> QED
      BY <3>1, <3>2 DEF Fenced
  <2> QED
    BY <2>1, <2>2
<1>4. ASSUME NEW p \in Procs, Shutdown(p) PROVE Fenced'
  <2> DEFINE New(e) == IF e.owner = p THEN [e EXCEPT !.aborted = TRUE] ELSE e
  <2>1. execs' = {New(e) : e \in execs} /\ jobs' = jobs
    BY <1>4 DEF Shutdown
  <2>2. \A e \in execs : New(e).job = e.job /\ New(e).version = e.version
    BY DEF TypeOK, Execution
  <2> HIDE DEF New
  <2> QED
    BY <2>1, <2>2 DEF Fenced
<1>5. ASSUME NEW p \in Procs, Crash(p) PROVE Fenced'
  BY <1>5, FenceCarries DEF Crash
<1>6. CASE Tick \/ UNCHANGED vars
  BY <1>6, FenceCarries DEF Tick, vars
<1> QED
  BY <1>1, <1>2, <1>3, <1>4, <1>5, <1>6 DEF Next

(* In every reachable state a version names at most one execution, and no  *)
(* execution is ahead of its row.                                          *)
THEOREM Fencing == Spec => []Fenced
<1>1. Init => Fenced
  BY DEF Init, Fenced
<1> QED
  BY <1>1, Typing, FencedStep, PTL DEF Spec

(* However many executions of a job are under way, in any number of        *)
(* processes, at most one can still renew or settle it.                    *)
THEOREM SingleWriter == Spec => []AtMostOneWriter
<1>1. Fenced => AtMostOneWriter
  BY DEF Fenced, AtMostOneWriter, LiveClaim
<1> QED
  BY <1>1, Fencing, PTL

(***************************************************************************)
(* Terminal rows.                                                          *)
(***************************************************************************)

LEMMA TerminalStep ==
  TypeOK /\ [Next]_vars =>
     \A j \in DOMAIN jobs :
        jobs[j].status \in Terminal => j \in DOMAIN jobs' /\ jobs'[j] = jobs[j]
<1> SUFFICES ASSUME TypeOK, [Next]_vars, NEW j \in DOMAIN jobs, jobs[j].status \in Terminal
             PROVE  j \in DOMAIN jobs' /\ jobs'[j] = jobs[j]
  OBVIOUS
<1>1. CASE Enqueue \/ RequeueDeadLetter
  <2>1. PICK kind, w, k, p, m, at : Insert(kind, w, k, p, m, at)
    BY <1>1 DEF Enqueue, RequeueDeadLetter
  <2> QED
    BY <2>1 DEF Insert
<1>2. ASSUME NEW p \in Procs, Claim(p) PROVE j \in DOMAIN jobs' /\ jobs'[j] = jobs[j]
  <2>1. PICK B \in SUBSET Runnable : Grant(p, B)
    BY <1>2, ClaimGrants
  <2>2. j \notin B
    BY <2>1 DEF Runnable, Terminal
  <2> QED
    BY <2>1, <2>2 DEF Grant
<1>3. ASSUME NEW e \in execs, Step(e) PROVE j \in DOMAIN jobs' /\ jobs'[j] = jobs[j]
  <2>1. CASE jobs' = jobs
    BY <2>1
  <2>2. ASSUME NEW r, LiveLease(e.job), jobs' = [jobs EXCEPT ![e.job] = r]
        PROVE  j \in DOMAIN jobs' /\ jobs'[j] = jobs[j]
    <3>1. j # e.job
      BY <2>2 DEF LiveLease, Terminal
    <3> QED
      BY <2>2, <3>1
  <2> QED
    BY <1>3, <2>1, <2>2, StepWrites
<1>4. ASSUME NEW p \in Procs, Shutdown(p) \/ Crash(p)
      PROVE  j \in DOMAIN jobs' /\ jobs'[j] = jobs[j]
  BY <1>4 DEF Shutdown, Crash
<1>5. CASE Tick \/ UNCHANGED vars
  BY <1>5 DEF Tick, vars
<1> QED
  BY <1>1, <1>2, <1>3, <1>4, <1>5 DEF Next

(* No step of any behaviour changes or removes a terminal row.             *)
THEOREM LedgerIsFinal == Spec => TerminalIsFinal
<1>1. TypeOK /\ [Next]_vars =>
        [\A j \in DOMAIN jobs :
           jobs[j].status \in Terminal => j \in DOMAIN jobs' /\ jobs'[j] = jobs[j]]_vars
  BY TerminalStep
<1> QED
  BY <1>1, Typing, PTL DEF Spec, TerminalIsFinal

(***************************************************************************)
(* The retry budget.                                                       *)
(***************************************************************************)

(* A row with n failures: an active one has an attempt left, a running one *)
(* is at an attempt that has not failed yet, and only the last attempt     *)
(* buries.                                                                 *)
WithinBudget(row, n) ==
    /\ n <= row.maxAttempts
    /\ row.status \in Active => n < row.maxAttempts
    /\ row.status = "queued" => n <= row.attempt
    /\ row.status = "running" => n < row.attempt
    /\ row.status = "dead_letter" /\ row.lastError = "retryable" =>
          row.attempt >= row.maxAttempts

(* Moreover no failure is recorded before the insert, and the execution    *)
(* that has the version of its row is at the attempt of the row.           *)
BudgetInv ==
    /\ \A j \in DOMAIN jobs : WithinBudget(jobs[j], failures[j])
    /\ \A j \in JobIds \ DOMAIN jobs : failures[j] = 0
    /\ \A e \in execs : e.version = jobs[e.job].leaseVersion => e.attempt = jobs[e.job].attempt

(* An insert starts a fresh budget.                                        *)
LEMMA InsertBudget ==
  ASSUME TypeOK, BudgetInv, NEW kind, NEW w, NEW k, NEW p, NEW m \in Attempts, NEW at,
         Insert(kind, w, k, p, m, at), UNCHANGED <<execs, failures>>
  PROVE  BudgetInv'
<1>1. PICK new \in JobIds \ DOMAIN jobs :
        /\ DOMAIN jobs' = DOMAIN jobs \cup {new}
        /\ \A j \in DOMAIN jobs : jobs'[j] = jobs[j]
        /\ jobs'[new].status = "queued" /\ jobs'[new].attempt = 0
        /\ jobs'[new].maxAttempts = m
  BY DEF Insert
<1>2. failures[new] = 0 /\ m > 0
  <2>1. failures[new] = 0
    BY DEF BudgetInv
  <2>2. m \in Nat \ {0}
    OBVIOUS
  <2> QED
    BY <2>1, <2>2
<1>3. WithinBudget(jobs'[new], failures[new])
  BY <1>1, <1>2 DEF WithinBudget, Active
<1>4. \A e \in execs : e.job \in DOMAIN jobs
  BY DEF TypeOK
<1> QED
  BY <1>1, <1>3, <1>4 DEF BudgetInv, WithinBudget

(* A grant begins an attempt of each of its rows.                          *)
LEMMA GrantBudget ==
  ASSUME TypeOK, Fenced, BudgetInv, NEW p \in Procs, NEW B \in SUBSET Runnable, Grant(p, B)
  PROVE  BudgetInv'
<1> DEFINE New(j) == [job |-> j, version |-> jobs[j].leaseVersion + 1, owner |-> p,
                      attempt |-> jobs[j].attempt + 1, aborted |-> FALSE]
<1>1. execs' = execs \cup {New(j) : j \in B \cap Known(p)} /\ failures' = failures
  BY DEF Grant
<1>2. \A j \in B : /\ New(j).job = j /\ New(j).version = jobs[j].leaseVersion + 1
                   /\ New(j).attempt = jobs[j].attempt + 1
  OBVIOUS
<1>3. B \subseteq DOMAIN jobs /\ DOMAIN jobs' = DOMAIN jobs
  BY BatchIsRunnable DEF Grant
<1>4. \A j \in DOMAIN jobs \ B : jobs'[j] = jobs[j]
  BY DEF Grant
<1>5. ASSUME NEW j \in B
      PROVE  /\ jobs'[j].status = "running" /\ jobs'[j].attempt = jobs[j].attempt + 1
             /\ jobs'[j].leaseVersion = jobs[j].leaseVersion + 1
             /\ jobs'[j].maxAttempts = jobs[j].maxAttempts
             /\ jobs[j].attempt \in Nat /\ jobs[j].maxAttempts \in Nat
             /\ jobs[j].leaseVersion \in Nat /\ failures[j] \in Nat
             /\ jobs[j].status \in {"queued", "running"}
  <2>1. jobs[j] \in JobRow /\ failures[j] \in Nat /\ j \in DOMAIN jobs
    BY <1>3 DEF TypeOK
  <2>2. jobs'[j] = [jobs[j] EXCEPT !.status = "running", !.attempt = @ + 1, !.leaseOwner = p,
                                   !.leaseVersion = @ + 1, !.leaseExpiresAt = clock + LeaseMs]
    BY <2>1 DEF Grant
  <2> QED
    BY <2>1, <2>2 DEF JobRow, Runnable
<1>6. ASSUME NEW j \in B PROVE WithinBudget(jobs'[j], failures[j])
  <2>1. WithinBudget(jobs[j], failures[j])
    BY <1>3 DEF BudgetInv
  <2> QED
    BY <1>5, <2>1 DEF WithinBudget, Active
<1>7. ASSUME NEW e \in execs
      PROVE  e.version = jobs'[e.job].leaseVersion => e.attempt = jobs'[e.job].attempt
  <2>1. e.job \in DOMAIN jobs /\ e.version \in Nat /\ e.version <= jobs[e.job].leaseVersion
    BY DEF TypeOK, Execution, Fenced
  <2> QED
    BY <1>4, <1>5, <2>1 DEF BudgetInv
<1> HIDE DEF New
<1> QED
  BY <1>1, <1>2, <1>3, <1>4, <1>5, <1>6, <1>7 DEF BudgetInv

(* The step of an execution, too, stays within the budget.                 *)
LEMMA StepBudget ==
  ASSUME TypeOK, BudgetInv, NEW e \in execs, Step(e)
  PROVE  BudgetInv'
<1> DEFINE row == jobs[e.job]
           Kept(r) == /\ r.attempt = row.attempt /\ r.maxAttempts = row.maxAttempts
                      /\ r.leaseVersion = row.leaseVersion
<1>1. row \in JobRow /\ e.job \in DOMAIN jobs /\ e.job \in JobIds /\ failures \in [JobIds -> Nat]
  BY DEF TypeOK
<1>2. row.attempt \in Nat /\ row.maxAttempts \in Nat /\ failures[e.job] \in Nat
  BY <1>1 DEF JobRow
<1>3. WithinBudget(row, failures[e.job])
  BY <1>1 DEF BudgetInv
<1>4. ASSUME NEW r, Kept(r), jobs' = [jobs EXCEPT ![e.job] = r],
             WithinBudget(r, failures'[e.job]),
             \A j \in JobIds \ {e.job} : failures'[j] = failures[j],
             \A f \in execs' : \E g \in execs : /\ f.job = g.job /\ f.version = g.version
                                               /\ f.attempt = g.attempt
      PROVE  BudgetInv'
  <2>1. DOMAIN jobs' = DOMAIN jobs /\ jobs'[e.job] = r
        /\ \A j \in DOMAIN jobs \ {e.job} : jobs'[j] = jobs[j]
    BY <1>1, <1>4
  <2>2. \A j \in DOMAIN jobs : j \in JobIds /\ \A g \in execs : g.job \in DOMAIN jobs
    BY DEF TypeOK
  <2>3. \A j \in DOMAIN jobs' : WithinBudget(jobs'[j], failures'[j])
    BY <1>4, <2>1, <2>2 DEF BudgetInv
  <2>4. \A f \in execs' : f.version = jobs'[f.job].leaseVersion => f.attempt = jobs'[f.job].attempt
    BY <1>4, <2>1, <2>2 DEF BudgetInv
  <2> QED
    BY <1>1, <1>4, <2>1, <2>3, <2>4 DEF BudgetInv
<1>5. ASSUME jobs' = jobs, failures' = failures,
             \A f \in execs' : \E g \in execs : /\ f.job = g.job /\ f.version = g.version
                                               /\ f.attempt = g.attempt
      PROVE  BudgetInv'
  BY <1>5 DEF BudgetInv
<1>6. ASSUME NEW r, Settle(e, r), failures' = failures, LiveClaim(e) => Kept(r) /\ WithinBudget(r, failures[e.job])
      PROVE  BudgetInv'
  <2>1. execs' \subseteq execs
    BY <1>6 DEF Settle
  <2> HIDE DEF Kept
  <2> QED
    BY <1>4, <1>5, <1>6, <2>1 DEF Settle
<1>7. LiveClaim(e) => row.status = "running" /\ e.attempt = row.attempt
  BY DEF LiveClaim, LiveLease, BudgetInv
<1>8. CASE Heartbeat(e)
  <2>1. CASE LiveClaim(e)
    <3> DEFINE r == [row EXCEPT !.leaseExpiresAt = clock + LeaseMs]
    <3>1. jobs' = [jobs EXCEPT ![e.job] = r] /\ execs' = execs /\ failures' = failures
      BY <1>8, <2>1 DEF Heartbeat
    <3>2. Kept(r) /\ WithinBudget(r, failures[e.job])
      BY <1>1, <1>3 DEF WithinBudget, JobRow
    <3> HIDE DEF r, Kept
    <3> QED
      BY <1>4, <3>1, <3>2
  <2>2. CASE ~LiveClaim(e)
    <3>1. [e EXCEPT !.aborted = TRUE].job = e.job /\ [e EXCEPT !.aborted = TRUE].version = e.version
          /\ [e EXCEPT !.aborted = TRUE].attempt = e.attempt
      BY DEF TypeOK, Execution
    <3> QED
      BY <1>5, <1>8, <2>2, <3>1 DEF Heartbeat
  <2> QED
    BY <2>1, <2>2
<1>9. CASE Complete(e)
  <2> DEFINE r == [row EXCEPT !.status = "succeeded", !.activeKey = FALSE,
                              !.leaseOwner = NoProc, !.leaseExpiresAt = 0, !.lastError = "none"]
  <2>1. Settle(e, r) /\ failures' = failures
    BY <1>9 DEF Complete
  <2>2. Kept(r) /\ r.status = "succeeded"
    BY <1>1 DEF JobRow
  <2>3. WithinBudget(r, failures[e.job])
    BY <1>3, <2>2 DEF WithinBudget, Active
  <2> HIDE DEF r, Kept
  <2> QED
    BY <1>6, <2>1, <2>2, <2>3
<1>10. \A x : LET r == Buried(e.job, x) IN Kept(r) /\ r.status = "dead_letter" /\ r.lastError = x
  BY <1>1 DEF Buried, JobRow
<1>11. CASE DeadLetter(e)
  <2> DEFINE r == Buried(e.job, "permanent")
  <2>1. Settle(e, r) /\ failures' = failures
    BY <1>11 DEF DeadLetter
  <2>2. Kept(r) /\ r.status = "dead_letter" /\ r.lastError = "permanent"
    BY <1>10
  <2>3. WithinBudget(r, failures[e.job])
    BY <1>3, <2>2 DEF WithinBudget, Active
  <2> HIDE DEF r, Kept
  <2> QED
    BY <1>6, <2>1, <2>2, <2>3
<1>12. CASE Retry(e)
  <2>1. CASE ~LiveClaim(e)
    <3>1. jobs' = jobs /\ execs' \subseteq execs /\ failures' = failures
      BY <1>12, <2>1 DEF Retry, Settle
    <3> QED
      BY <1>5, <3>1
  <2>2. CASE LiveClaim(e)
    <3>1. /\ failures'[e.job] = failures[e.job] + 1
          /\ \A j \in JobIds \ {e.job} : failures'[j] = failures[j]
      BY <1>1, <1>12, <2>2 DEF Retry
    <3>2. ASSUME NEW r, Settle(e, r), Kept(r), WithinBudget(r, failures[e.job] + 1)
          PROVE  BudgetInv'
      <4>1. jobs' = [jobs EXCEPT ![e.job] = r] /\ execs' \subseteq execs
        BY <2>2, <3>2 DEF Settle
      <4> HIDE DEF Kept
      <4> QED
        BY <1>4, <3>1, <3>2, <4>1
    <3>3. failures[e.job] < row.maxAttempts /\ failures[e.job] < row.attempt
      BY <1>3, <1>7, <2>2 DEF WithinBudget, Active
    <3>4. CASE e.attempt >= row.maxAttempts
      <4> DEFINE r == Buried(e.job, "retryable")
      <4>1. Settle(e, r)
        BY <1>12, <3>4 DEF Retry
      <4>2. Kept(r) /\ r.status = "dead_letter"
        BY <1>10
      <4>3. WithinBudget(r, failures[e.job] + 1)
        BY <1>2, <1>7, <2>2, <3>3, <3>4, <4>2 DEF WithinBudget, Active
      <4> HIDE DEF r, Kept
      <4> QED
        BY <3>2, <4>1, <4>2, <4>3
    <3>5. CASE ~(e.attempt >= row.maxAttempts)
      <4>1. PICK d \in RetryDelays(e.attempt) :
              Settle(e, [row EXCEPT !.status = "queued", !.availableAt = clock + d,
                                    !.leaseOwner = NoProc, !.leaseExpiresAt = 0,
                                    !.lastError = "retryable"])
        BY <1>12, <3>5 DEF Retry
      <4> DEFINE r == [row EXCEPT !.status = "queued", !.availableAt = clock + d,
                                  !.leaseOwner = NoProc, !.leaseExpiresAt = 0,
                                  !.lastError = "retryable"]
      <4>2. Kept(r) /\ r.status = "queued"
        BY <1>1 DEF JobRow
      <4>3. e.attempt = row.attempt /\ row.attempt < row.maxAttempts
        BY <1>2, <1>7, <2>2, <3>5
      <4>4. WithinBudget(r, failures[e.job] + 1)
        BY <1>2, <3>3, <4>2, <4>3 DEF WithinBudget, Active
      <4>5. Settle(e, r)
        BY <4>1
      <4> HIDE DEF r, Kept
      <4> QED
        BY <3>2, <4>2, <4>4, <4>5
    <3> QED
      BY <3>4, <3>5
  <2> QED
    BY <2>1, <2>2
<1>13. CASE Abandon(e)
  BY <1>5, <1>13 DEF Abandon
<1> QED
  BY <1>8, <1>9, <1>11, <1>12, <1>13 DEF Step

LEMMA BudgetStep == TypeOK /\ Fenced /\ BudgetInv /\ [Next]_vars => BudgetInv'
<1> SUFFICES ASSUME TypeOK, Fenced, BudgetInv, [Next]_vars PROVE BudgetInv'
  OBVIOUS
<1>1. CASE Enqueue
  BY <1>1, InsertBudget DEF Enqueue
<1>2. CASE RequeueDeadLetter
  BY <1>2, InsertBudget DEF RequeueDeadLetter
<1>3. ASSUME NEW p \in Procs, Claim(p) PROVE BudgetInv'
  BY <1>3, ClaimGrants, GrantBudget
<1>4. ASSUME NEW e \in execs, Step(e) PROVE BudgetInv'
  BY <1>4, StepBudget
<1>5. ASSUME NEW p \in Procs, Shutdown(p) PROVE BudgetInv'
  <2> DEFINE New(e) == IF e.owner = p THEN [e EXCEPT !.aborted = TRUE] ELSE e
  <2>1. execs' = {New(e) : e \in execs} /\ jobs' = jobs /\ failures' = failures
    BY <1>5 DEF Shutdown
  <2>2. \A e \in execs : /\ New(e).job = e.job /\ New(e).version = e.version
                         /\ New(e).attempt = e.attempt
    BY DEF TypeOK, Execution
  <2> HIDE DEF New
  <2> QED
    BY <2>1, <2>2 DEF BudgetInv
<1>6. ASSUME NEW p \in Procs, Crash(p) PROVE BudgetInv'
  BY <1>6 DEF Crash, BudgetInv
<1>7. CASE Tick \/ UNCHANGED vars
  BY <1>7 DEF Tick, vars, BudgetInv
<1> QED
  BY <1>1, <1>2, <1>3, <1>4, <1>5, <1>6, <1>7 DEF Next

(* No job fails more often than it has attempts, and only the last attempt *)
(* buries a job for an error that could have been retried.                 *)
THEOREM BudgetIsKept == Spec => []RetryBudget
<1>1. Init => BudgetInv
  BY DEF Init, BudgetInv
<1>2. TypeOK /\ BudgetInv => RetryBudget
  BY DEF BudgetInv, WithinBudget, RetryBudget, Active
<1> QED
  BY <1>1, <1>2, Typing, Fencing, BudgetStep, PTL DEF Spec

(***************************************************************************)
(* The queue implements DurableQueue.                                      *)
(***************************************************************************)

StatusOf(table) ==
    [j \in JobIds |-> IF j \notin DOMAIN table THEN "none"
                     ELSE IF table[j].status \in Active THEN "active" ELSE table[j].status]
KeysOf(table) == [j \in DOMAIN table |-> <<table[j].workspace, table[j].key>>]
HandoutsOf(table) ==
    [j \in JobIds |-> IF j \in DOMAIN table THEN table[j].leaseVersion ELSE 0]
OutOf(E) == {<<e.job, e.version>> : e \in E}

(* An insert accepts a job: every active row holds its key.                *)
LEMMA InsertAccepts ==
  ASSUME TypeOK, OneActiveJobPerKey, NEW kind, NEW w \in Workspaces, NEW k \in Keys,
         NEW p, NEW m, NEW at,
         Insert(kind, w, k, p, m, at), execs' = execs
  PROVE  Queue!Next
<1>1. PICK new \in JobIds \ DOMAIN jobs :
        /\ DOMAIN jobs' = DOMAIN jobs \cup {new}
        /\ \A j \in DOMAIN jobs : jobs'[j] = jobs[j]
        /\ jobs'[new].status = "queued" /\ jobs'[new].leaseVersion = 0
        /\ jobs'[new].workspace = w /\ jobs'[new].key = k
  BY DEF Insert
<1>2. \A j \in DOMAIN jobs : jobs[j].status \in Active => <<jobs[j].workspace, jobs[j].key>> # <<w, k>>
  BY DEF OneActiveJobPerKey, Insert, HoldsKey
<1>3. StatusOf(jobs') = [StatusOf(jobs) EXCEPT ![new] = "active"]
  BY <1>1 DEF StatusOf, Active
<1>4. KeysOf(jobs') = [i \in DOMAIN KeysOf(jobs) \cup {new} |->
                        IF i = new THEN <<w, k>> ELSE KeysOf(jobs)[i]]
  BY <1>1 DEF KeysOf
<1>5. HandoutsOf(jobs') = HandoutsOf(jobs)
  BY <1>1 DEF HandoutsOf
<1>6. StatusOf(jobs)[new] = "none"
  BY DEF StatusOf
<1>7. \A i \in JobIds : StatusOf(jobs)[i] = "active" => KeysOf(jobs)[i] # <<w, k>>
  BY <1>2 DEF StatusOf, KeysOf, TypeOK, JobRow, Active, Terminal
<1>8. Queue!Accept(new, <<w, k>>)
  BY <1>3, <1>4, <1>5, <1>6, <1>7 DEF Queue!Accept, StatusOf, KeysOf, HandoutsOf
<1> QED
  BY <1>8 DEF Queue!Next

(* A grant hands its rows out.                                             *)
LEMMA GrantHandsOut ==
  ASSUME TypeOK, NEW p \in Procs, NEW B \in SUBSET Runnable, Grant(p, B)
  PROVE  Queue!Next
<1> DEFINE New(j) == [job |-> j, version |-> jobs[j].leaseVersion + 1, owner |-> p,
                      attempt |-> jobs[j].attempt + 1, aborted |-> FALSE]
<1>1. execs' = execs \cup {New(j) : j \in B \cap Known(p)}
  BY DEF Grant
<1>2. \A j \in B : New(j).job = j /\ New(j).version = jobs[j].leaseVersion + 1
  OBVIOUS
<1>3. B \subseteq DOMAIN jobs /\ DOMAIN jobs' = DOMAIN jobs /\ B \subseteq JobIds
  BY BatchIsRunnable DEF Grant, TypeOK
<1>4. \A j \in DOMAIN jobs \ B : jobs'[j] = jobs[j]
  BY DEF Grant
<1>5. ASSUME NEW j \in B
      PROVE  /\ jobs[j].status \in Active /\ jobs'[j].status \in Active
             /\ jobs'[j].workspace = jobs[j].workspace /\ jobs'[j].key = jobs[j].key
             /\ jobs'[j].leaseVersion = jobs[j].leaseVersion + 1
  <2>1. jobs[j] \in JobRow /\ j \in DOMAIN jobs
    BY <1>3 DEF TypeOK
  <2>2. jobs'[j] = [jobs[j] EXCEPT !.status = "running", !.attempt = @ + 1, !.leaseOwner = p,
                                   !.leaseVersion = @ + 1, !.leaseExpiresAt = clock + LeaseMs]
    BY <2>1 DEF Grant
  <2> QED
    BY <2>1, <2>2 DEF JobRow, Runnable, Active
<1> HIDE DEF New
<1>6. StatusOf(jobs') = StatusOf(jobs) /\ KeysOf(jobs') = KeysOf(jobs)
  BY <1>3, <1>4, <1>5 DEF StatusOf, KeysOf
<1>7. HandoutsOf(jobs') = [j \in JobIds |-> IF j \in B THEN HandoutsOf(jobs)[j] + 1
                                           ELSE HandoutsOf(jobs)[j]]
  BY <1>3, <1>4, <1>5 DEF HandoutsOf
<1>0. PICK astray \in SUBSET JobIds : astray = B \ Known(p)
  BY <1>3
<1>8. OutOf(execs') = OutOf(execs) \cup {<<j, HandoutsOf(jobs)[j] + 1>> : j \in B \ astray}
  <2>1. \A j \in B : HandoutsOf(jobs)[j] = jobs[j].leaseVersion
    BY <1>3 DEF HandoutsOf
  <2>2. execs' = execs \cup {New(j) : j \in B \ astray}
    BY <1>0, <1>1
  <2>3. \A j \in B \ astray : <<New(j).job, New(j).version>> = <<j, HandoutsOf(jobs)[j] + 1>>
    BY <1>2, <2>1
  <2>4. OutOf(execs') = OutOf(execs) \cup {<<New(j).job, New(j).version>> : j \in B \ astray}
    BY <2>2 DEF OutOf
  <2> QED
    BY <2>3, <2>4
<1>9. \A j \in B : StatusOf(jobs)[j] = "active"
  BY <1>3, <1>5 DEF StatusOf
<1>10. Queue!HandOut(B, astray)
  BY <1>6, <1>7, <1>8, <1>9 DEF Queue!HandOut, StatusOf, KeysOf, HandoutsOf, OutOf
<1>11. B \in SUBSET JobIds
  BY <1>3
<1> QED
  BY <1>10, <1>11 DEF Queue!Next

(* When executions end and the table stays what it is to the queue, their  *)
(* hand-outs are dropped.                                                  *)
LEMMA EndingDrops ==
  ASSUME StatusOf(jobs') = StatusOf(jobs), KeysOf(jobs') = KeysOf(jobs),
         HandoutsOf(jobs') = HandoutsOf(jobs), OutOf(execs') \subseteq OutOf(execs)
  PROVE  Queue!Next
<1>1. PICK H \in SUBSET OutOf(execs) : OutOf(execs') = OutOf(execs) \ H
  <2>1. OutOf(execs') = OutOf(execs) \ (OutOf(execs) \ OutOf(execs'))
    OBVIOUS
  <2> QED
    BY <2>1
<1>2. Queue!Drop(H)
  BY <1>1 DEF Queue!Drop, StatusOf, KeysOf, HandoutsOf, OutOf
<1> QED
  BY <1>2 DEF Queue!Next, OutOf

(* A settlement with a live claim settles the latest hand-out or drops it; *)
(* a renewal that fails and every other settlement leaves the job alone.   *)
LEMMA StepImplements ==
  ASSUME TypeOK, Fenced, NEW e \in execs, Step(e)
  PROVE  Queue!Next
<1> DEFINE row == jobs[e.job]
           h == <<e.job, e.version>>
<1>1. row \in JobRow /\ e.job \in DOMAIN jobs /\ e.job \in JobIds /\ DOMAIN jobs \subseteq JobIds
  BY DEF TypeOK
<1>2. ASSUME jobs' = jobs, OutOf(execs') \subseteq OutOf(execs) PROVE Queue!Next
  BY <1>2, EndingDrops
<1>3. ASSUME execs' \subseteq execs PROVE OutOf(execs') \subseteq OutOf(execs)
  BY <1>3 DEF OutOf
<1>4. OutOf(execs \ {e}) = OutOf(execs) \ {h}
  BY DEF OutOf, Fenced
<1>5. ASSUME NEW r, jobs' = [jobs EXCEPT ![e.job] = r], Successor(r, row)
      PROVE  /\ KeysOf(jobs') = KeysOf(jobs) /\ HandoutsOf(jobs') = HandoutsOf(jobs)
             /\ StatusOf(jobs') = [StatusOf(jobs) EXCEPT ![e.job] =
                                    IF r.status \in Active THEN "active" ELSE r.status]
  <2>1. DOMAIN jobs' = DOMAIN jobs /\ jobs'[e.job] = r
        /\ \A j \in DOMAIN jobs \ {e.job} : jobs'[j] = jobs[j]
    BY <1>1, <1>5
  <2>2. KeysOf(jobs') = KeysOf(jobs)
    BY <1>5, <2>1 DEF KeysOf, Successor
  <2>3. HandoutsOf(jobs') = HandoutsOf(jobs)
    BY <1>5, <2>1 DEF HandoutsOf, Successor
  <2>4. StatusOf(jobs') = [StatusOf(jobs) EXCEPT ![e.job] =
                           IF r.status \in Active THEN "active" ELSE r.status]
    BY <1>1, <2>1 DEF StatusOf
  <2> QED
    BY <2>2, <2>3, <2>4
<1>6. LiveClaim(e) => StatusOf(jobs)[e.job] = "active" /\ HandoutsOf(jobs)[e.job] = e.version
  BY <1>1 DEF LiveClaim, LiveLease, StatusOf, HandoutsOf, Active
<1>7. ASSUME NEW r, jobs' = [jobs EXCEPT ![e.job] = r], LiveClaim(e), Successor(r, row),
             r.status \in Active, OutOf(execs') \subseteq OutOf(execs)
      PROVE  Queue!Next
  <2>1. StatusOf(jobs') = StatusOf(jobs)
    BY <1>1, <1>5, <1>6, <1>7 DEF StatusOf
  <2> QED
    BY <1>5, <1>7, <2>1, EndingDrops
<1>8. ASSUME NEW r, jobs' = [jobs EXCEPT ![e.job] = r], LiveClaim(e), Successor(r, row),
             r.status \in Terminal, execs' = execs \ {e}
      PROVE  Queue!Next
  <2>1. r.status \notin Active /\ r.status \in {"succeeded", "dead_letter"}
    BY <1>8 DEF Active, Terminal
  <2>2. StatusOf(jobs') = [StatusOf(jobs) EXCEPT ![e.job] = r.status]
        /\ KeysOf(jobs') = KeysOf(jobs) /\ HandoutsOf(jobs') = HandoutsOf(jobs)
    BY <1>5, <1>8, <2>1
  <2>3. OutOf(execs') = OutOf(execs) \ {h} /\ h \in OutOf(execs)
    BY <1>4, <1>8 DEF OutOf
  <2>4. h[1] = e.job /\ h[2] = e.version
    OBVIOUS
  <2> HIDE DEF h
  <2>5. Queue!Settle(h, r.status)
    BY <1>6, <1>8, <2>2, <2>3, <2>4 DEF Queue!Settle, StatusOf, KeysOf, HandoutsOf, OutOf
  <2> QED
    BY <2>1, <2>3, <2>5 DEF Queue!Next, OutOf
<1>9. ASSUME NEW r, Settle(e, r), Successor(r, row) PROVE Queue!Next
  <2>1. execs' = execs \ {e} /\ OutOf(execs') \subseteq OutOf(execs)
    BY <1>3, <1>9 DEF Settle
  <2>2. CASE LiveClaim(e)
    <3>1. jobs' = [jobs EXCEPT ![e.job] = r]
      BY <1>9, <2>2 DEF Settle
    <3>2. r.status \in Active \/ r.status \in Terminal
      BY <1>9 DEF Successor
    <3> QED
      BY <1>7, <1>8, <1>9, <2>1, <2>2, <3>1, <3>2
  <2>3. CASE ~LiveClaim(e)
    BY <1>2, <1>9, <2>1, <2>3 DEF Settle
  <2> QED
    BY <2>2, <2>3
<1>10. CASE Heartbeat(e)
  <2>1. CASE LiveClaim(e)
    <3> DEFINE r == [row EXCEPT !.leaseExpiresAt = clock + LeaseMs]
    <3>1. jobs' = [jobs EXCEPT ![e.job] = r] /\ execs' = execs
      BY <1>10, <2>1 DEF Heartbeat
    <3>2. Successor(r, row) /\ r.status \in Active
      BY <1>1, <2>1 DEF Successor, LiveClaim, LiveLease, Active, JobRow
    <3> HIDE DEF r
    <3> QED
      BY <1>3, <1>7, <2>1, <3>1, <3>2
  <2>2. CASE ~LiveClaim(e)
    <3> DEFINE d == [e EXCEPT !.aborted = TRUE]
    <3>1. d.job = e.job /\ d.version = e.version
      BY DEF TypeOK, Execution
    <3>2. execs' = (execs \ {e}) \cup {d} /\ jobs' = jobs
      BY <1>10, <2>2 DEF Heartbeat
    <3> HIDE DEF d
    <3>3. OutOf(execs') \subseteq OutOf(execs)
      BY <3>1, <3>2 DEF OutOf
    <3> QED
      BY <1>2, <3>2, <3>3
  <2> QED
    BY <2>1, <2>2
<1>11. CASE Complete(e)
  <2> DEFINE r == [row EXCEPT !.status = "succeeded", !.activeKey = FALSE,
                              !.leaseOwner = NoProc, !.leaseExpiresAt = 0, !.lastError = "none"]
  <2>1. Settle(e, r) /\ Successor(r, row)
    BY <1>1, <1>11 DEF Complete, Successor, Terminal, JobRow
  <2> HIDE DEF r
  <2> QED
    BY <1>9, <2>1
<1>12. \A x : Successor(Buried(e.job, x), row)
  BY <1>1 DEF Successor, Buried, Terminal, JobRow
<1>13. CASE DeadLetter(e)
  BY <1>9, <1>12, <1>13 DEF DeadLetter
<1>14. CASE Retry(e)
  <2>1. CASE e.attempt >= row.maxAttempts
    BY <1>9, <1>12, <1>14, <2>1 DEF Retry
  <2>2. CASE ~(e.attempt >= row.maxAttempts)
    <3>1. PICK d \in RetryDelays(e.attempt) :
            Settle(e, [row EXCEPT !.status = "queued", !.availableAt = clock + d,
                                  !.leaseOwner = NoProc, !.leaseExpiresAt = 0,
                                  !.lastError = "retryable"])
      BY <1>14, <2>2 DEF Retry
    <3>2. Successor([row EXCEPT !.status = "queued", !.availableAt = clock + d,
                                !.leaseOwner = NoProc, !.leaseExpiresAt = 0,
                                !.lastError = "retryable"], row)
      BY <1>1 DEF Successor, Active, JobRow
    <3> QED
      BY <1>9, <3>1, <3>2
  <2> QED
    BY <2>1, <2>2
<1>15. CASE Abandon(e)
  BY <1>2, <1>3, <1>15 DEF Abandon
<1> QED
  BY <1>10, <1>11, <1>13, <1>14, <1>15 DEF Step

(* The queue keeps its promise: every step accepts, hands out, settles or  *)
(* drops, or changes nothing the promise speaks of.                        *)
THEOREM PromiseIsKept == Spec => ImplementsDurableQueue
<1>1. Init => Queue!Init
  BY DEF Init, Queue!Init
<1>2. TypeOK /\ Fenced /\ OneActiveJobPerKey /\ [Next]_vars => [Queue!Next]_(Queue!vars)
  <2> SUFFICES ASSUME TypeOK, Fenced, OneActiveJobPerKey, [Next]_vars
               PROVE  Queue!Next \/ UNCHANGED Queue!vars
    OBVIOUS
  <2>1. CASE Enqueue
    BY <2>1, InsertAccepts DEF Enqueue
  <2>2. CASE RequeueDeadLetter
    <3>1. \A j \in DOMAIN jobs : jobs[j].workspace \in Workspaces /\ jobs[j].key \in Keys
      BY DEF TypeOK, JobRow
    <3> QED
      BY <2>2, <3>1, InsertAccepts DEF RequeueDeadLetter
  <2>3. ASSUME NEW p \in Procs, Claim(p) PROVE Queue!Next
    BY <2>3, ClaimGrants, GrantHandsOut
  <2>4. ASSUME NEW e \in execs, Step(e) PROVE Queue!Next
    BY <2>4, StepImplements
  <2>5. ASSUME NEW p \in Procs, Shutdown(p) PROVE Queue!Next
    <3> DEFINE New(e) == IF e.owner = p THEN [e EXCEPT !.aborted = TRUE] ELSE e
    <3>1. execs' = {New(e) : e \in execs} /\ jobs' = jobs
      BY <2>5 DEF Shutdown
    <3>2. \A e \in execs : New(e).job = e.job /\ New(e).version = e.version
      BY DEF TypeOK, Execution
    <3> HIDE DEF New
    <3>3. OutOf(execs') \subseteq OutOf(execs)
      BY <3>1, <3>2 DEF OutOf
    <3> QED
      BY <3>1, <3>3, EndingDrops
  <2>6. ASSUME NEW p \in Procs, Crash(p) PROVE Queue!Next
    <3>1. jobs' = jobs /\ OutOf(execs') \subseteq OutOf(execs)
      BY <2>6 DEF Crash, OutOf
    <3> QED
      BY <3>1, EndingDrops
  <2>7. CASE Tick \/ UNCHANGED vars
    BY <2>7 DEF Tick, vars, Queue!vars
  <2> QED
    BY <2>1, <2>2, <2>3, <2>4, <2>5, <2>6, <2>7 DEF Next
<1> QED
  BY <1>1, <1>2, Typing, Fencing, KeyUniqueness, PTL DEF Spec, ImplementsDurableQueue, Queue!Spec

(***************************************************************************)
(* The order of the queue.                                                 *)
(***************************************************************************)

(* A grant changes the rows it holds, and not whose they are.              *)
LEMMA GrantRuns ==
  ASSUME TypeOK, NEW p \in Procs, NEW B \in SUBSET Runnable, Grant(p, B)
  PROVE  /\ DOMAIN jobs' = DOMAIN jobs /\ clock' = clock
         /\ \A j \in DOMAIN jobs \ B : jobs'[j] = jobs[j]
         /\ \A j \in B : /\ jobs'[j].workspace = jobs[j].workspace
                         /\ jobs'[j].kind = jobs[j].kind /\ jobs'[j].leaseOwner = p
                         /\ jobs'[j].leaseVersion = jobs[j].leaseVersion + 1
                         /\ jobs[j].leaseVersion \in Nat
<1>1. DOMAIN jobs' = DOMAIN jobs /\ B \subseteq DOMAIN jobs /\ clock' = clock
  BY BatchIsRunnable DEF Grant
<1>2. \A j \in DOMAIN jobs \ B : jobs'[j] = jobs[j]
  BY DEF Grant
<1>3. ASSUME NEW j \in B
      PROVE  /\ jobs'[j].workspace = jobs[j].workspace
             /\ jobs'[j].kind = jobs[j].kind /\ jobs'[j].leaseOwner = p
             /\ jobs'[j].leaseVersion = jobs[j].leaseVersion + 1
             /\ jobs[j].leaseVersion \in Nat
  <2>1. jobs[j] \in JobRow /\ j \in DOMAIN jobs
    BY <1>1 DEF TypeOK
  <2>2. jobs'[j] = [jobs[j] EXCEPT !.status = "running", !.attempt = @ + 1, !.leaseOwner = p,
                                   !.leaseVersion = @ + 1, !.leaseExpiresAt = clock + LeaseMs]
    BY <2>1 DEF Grant
  <2> QED
    BY <2>1, <2>2 DEF JobRow
<1> QED
  BY <1>1, <1>2, <1>3

(* Time is a step of its own.                                              *)
LEMMA StepTakesNoTime ==
  ASSUME NEW e \in execs, Step(e) PROVE clock' = clock
<1>1. \A row : Settle(e, row) => clock' = clock
  BY DEF Settle
<1>2. CASE Heartbeat(e) \/ Abandon(e)
  BY <1>2 DEF Heartbeat, Abandon
<1>3. CASE Complete(e) \/ DeadLetter(e)
  BY <1>1, <1>3 DEF Complete, DeadLetter
<1>4. CASE Retry(e)
  <2>1. CASE e.attempt >= jobs[e.job].maxAttempts
    BY <1>1, <1>4, <2>1 DEF Retry
  <2>2. CASE ~(e.attempt >= jobs[e.job].maxAttempts)
    <3>1. PICK d \in RetryDelays(e.attempt) :
            Settle(e, [jobs[e.job] EXCEPT !.status = "queued", !.availableAt = clock + d,
                                          !.leaseOwner = NoProc, !.leaseExpiresAt = 0,
                                          !.lastError = "retryable"])
      BY <1>4, <2>2 DEF Retry
    <3> QED
      BY <1>1, <3>1
  <2> QED
    BY <2>1, <2>2
<1> QED
  BY <1>2, <1>3, <1>4 DEF Step

(* The ids of a table are finitely many.                                   *)
LEMMA IdsAreFinite ==
  ASSUME TypeOK, NEW S \in SUBSET DOMAIN jobs
  PROVE  IsFiniteSet(S) /\ Cardinality(S) \in Nat
<1>1. S \in SUBSET JobIds
  BY DEF TypeOK
<1> QED
  BY <1>1, FS_Subset, FS_CardinalityType

(* A set that grows by an element has more of them.                        *)
LEMMA StrictlyMore ==
  ASSUME TypeOK, NEW S \in SUBSET DOMAIN jobs, NEW T \in SUBSET DOMAIN jobs,
         NEW x \in T \ S, S \subseteq T
  PROVE  Cardinality(S) < Cardinality(T)
<1>1. IsFiniteSet(T) /\ Cardinality(S) \in Nat /\ Cardinality(T) \in Nat
  BY IdsAreFinite
<1>2. Cardinality(S) <= Cardinality(T) /\ (Cardinality(T) = Cardinality(S) => T = S)
  BY <1>1, FS_Subset
<1> QED
  BY <1>1, <1>2

(* Numbers from 1 to n that tell the elements of a set apart bound it.     *)
LEMMA NumberedIsBounded ==
  ASSUME NEW S, NEW n \in Nat, NEW f \in [S -> 1..n],
         \A x, y \in S : f[x] = f[y] => x = y
  PROVE  IsFiniteSet(S) /\ Cardinality(S) <= n
<1>1. IsFiniteSet(1..n) /\ Cardinality(1..n) = n
  BY FS_Interval
<1>2. f \in Injection(S, 1..n)
  BY DEF Injection, IsInjective
<1> QED
  BY <1>1, <1>2, FS_Injection

(* The scan has a strict total order.                                      *)
LEMMA BeforeIsAnOrder ==
  ASSUME TypeOK
  PROVE  /\ \A i \in DOMAIN jobs : ~Before(i, i)
         /\ \A i, j \in DOMAIN jobs : i = j \/ Before(i, j) \/ Before(j, i)
         /\ \A i, j, k \in DOMAIN jobs : Before(i, j) /\ Before(j, k) => Before(i, k)
<1>1. \A i \in DOMAIN jobs : /\ i \in Nat /\ jobs[i].priority \in Int
                             /\ jobs[i].availableAt \in Nat /\ jobs[i].createdAt \in Nat
  BY DEF TypeOK, JobRow
<1> QED
  BY <1>1 DEF Before

(* The jobs of its workspace that p takes before job j.                    *)
Ahead(p, j) ==
    {i \in Candidates \cap Known(p) :
        jobs[i].workspace = jobs[j].workspace /\ Before(i, j)}

(* A job behind one that p knows is taken by a later pass, so no two known *)
(* jobs of a workspace by the same, and those behind none by the first.    *)
LEMMA PassesAre ==
  ASSUME TypeOK, NEW p, NEW j \in Candidates
  PROVE  /\ Pass(p, j) \in Nat \ {0}
         /\ \A i \in Candidates \cap Known(p) :
               jobs[i].workspace = jobs[j].workspace /\ Before(i, j) => Pass(p, i) < Pass(p, j)
         /\ j \in Known(p) =>
               \A i \in Candidates \cap Known(p) :
                  jobs[i].workspace = jobs[j].workspace /\ Pass(p, i) = Pass(p, j) => i = j
         /\ Pass(p, j) # 1 => \E i \in Candidates \cap Known(p) :
                                 jobs[i].workspace = jobs[j].workspace /\ Before(i, j)
<1>0. Candidates \subseteq DOMAIN jobs
  BY DEF Candidates, Runnable
<1>1. \A i \in Candidates : /\ Pass(p, i) = 1 + Cardinality(Ahead(p, i))
                            /\ Ahead(p, i) \in SUBSET DOMAIN jobs
                            /\ Cardinality(Ahead(p, i)) \in Nat
  <2>1. \A i \in Candidates : Ahead(p, i) \in SUBSET DOMAIN jobs
    BY <1>0 DEF Ahead
  <2> QED
    BY <2>1, IdsAreFinite DEF Pass, Ahead
<1>2. \A i \in Candidates : Pass(p, i) \in Nat \ {0}
  BY <1>1
<1>3. ASSUME NEW i \in Candidates \cap Known(p), NEW k \in Candidates,
             jobs[i].workspace = jobs[k].workspace, Before(i, k)
      PROVE  Pass(p, i) < Pass(p, k)
  <2>1. Ahead(p, i) \subseteq Ahead(p, k) /\ i \in Ahead(p, k)
    BY <1>0, <1>3, BeforeIsAnOrder DEF Ahead
  <2>2. i \notin Ahead(p, i)
    BY <1>0, BeforeIsAnOrder DEF Ahead
  <2>3. Cardinality(Ahead(p, i)) < Cardinality(Ahead(p, k))
    BY <1>1, <2>1, <2>2, StrictlyMore
  <2> QED
    BY <1>1, <2>3
<1>4. ASSUME j \in Known(p), NEW i \in Candidates \cap Known(p),
             jobs[i].workspace = jobs[j].workspace, Pass(p, i) = Pass(p, j)
      PROVE  i = j
  <2>1. i = j \/ Before(i, j) \/ Before(j, i)
    BY <1>0, BeforeIsAnOrder
  <2>2. Before(i, j) => Pass(p, i) < Pass(p, j)
    BY <1>3, <1>4
  <2>3. Before(j, i) => Pass(p, j) < Pass(p, i)
    BY <1>3, <1>4
  <2> QED
    BY <1>2, <1>4, <2>1, <2>2, <2>3
<1>5. ASSUME \A i \in Candidates \cap Known(p) :
                ~(jobs[i].workspace = jobs[j].workspace /\ Before(i, j))
      PROVE  Pass(p, j) = 1
  <2>1. Ahead(p, j) = {}
    BY <1>5 DEF Ahead
  <2>2. Cardinality(Ahead(p, j)) = 0
    BY <2>1, FS_EmptySet
  <2> QED
    BY <1>1, <2>2
<1> QED
  BY <1>2, <1>3, <1>4, <1>5

(***************************************************************************)
(* The cap of a workspace.                                                 *)
(***************************************************************************)

LiveJobs(w) == {j \in DOMAIN jobs : LiveLease(j) /\ jobs[j].workspace = w}
HeldJobs(w) == {j \in DOMAIN jobs : InHand(j) /\ jobs[j].workspace = w}

(* Where no job is taken in hand, the cap is kept.                         *)
LEMMA FewerInHand ==
  ASSUME TypeOK, WorkspaceCap, \A w \in Workspaces : HeldJobs(w)' \subseteq HeldJobs(w)
  PROVE  WorkspaceCap'
<1> SUFFICES ASSUME NEW w \in Workspaces PROVE Cardinality(HeldJobs(w)') <= PerWorkspace
  BY DEF WorkspaceCap, HeldJobs
<1>1. HeldJobs(w) \in SUBSET DOMAIN jobs
  BY DEF HeldJobs
<1>2. HeldJobs(w)' \in SUBSET HeldJobs(w)
  OBVIOUS
<1>3. IsFiniteSet(HeldJobs(w)) /\ Cardinality(HeldJobs(w)) \in Nat
  BY <1>1, IdsAreFinite
<1>4. Cardinality(HeldJobs(w)') <= Cardinality(HeldJobs(w)) /\ Cardinality(HeldJobs(w)') \in Nat
  BY <1>2, <1>3, FS_Subset, FS_CardinalityType
<1>5. Cardinality(HeldJobs(w)) <= PerWorkspace
  BY DEF WorkspaceCap, HeldJobs
<1> QED
  BY <1>3, <1>4, <1>5

(* A batch leaves every workspace under its cap: its claims of a workspace *)
(* are numbered by the passes that took them, and there is room for each   *)
(* beside all live leases.                                                 *)
LEMMA BatchFits ==
  ASSUME TypeOK, WorkspaceCap, NEW p, NEW w \in Workspaces
  PROVE  LET taken == {j \in Batch(p) \cap Known(p) : jobs[j].workspace = w} IN
         /\ IsFiniteSet(taken) /\ Cardinality(taken) \in Nat
         /\ Cardinality(HeldJobs(w)) + Cardinality(taken) <= PerWorkspace
<1> DEFINE taken == {j \in Batch(p) \cap Known(p) : jobs[j].workspace = w}
<1>1. taken \subseteq Candidates /\ taken \subseteq Known(p) /\ Candidates \subseteq DOMAIN jobs
  BY DEF Batch, Admissible, Candidates, Runnable
<1>2. /\ LiveJobs(w) \in SUBSET DOMAIN jobs /\ LiveCount(w) = Cardinality(LiveJobs(w))
      /\ HeldJobs(w) \in SUBSET LiveJobs(w) /\ HeldJobs(w) \in SUBSET DOMAIN jobs
  BY DEF LiveJobs, LiveCount, HeldJobs, InHand
<1>3. /\ LiveCount(w) \in Nat /\ PerWorkspace \in Nat /\ Cardinality(HeldJobs(w)) \in Nat
      /\ IsFiniteSet(LiveJobs(w))
  BY <1>2, IdsAreFinite
<1>4. Cardinality(HeldJobs(w)) <= LiveCount(w)
  BY <1>2, <1>3, FS_Subset
<1>5. Cardinality(HeldJobs(w)) <= PerWorkspace
  BY DEF WorkspaceCap, HeldJobs
<1> DEFINE room == PerWorkspace - Cardinality(HeldJobs(w))
           number == [j \in taken |-> Pass(p, j)]
<1>6. room \in Nat
  BY <1>3, <1>5
<1>7. \A j \in taken : Pass(p, j) \in 1..room
  <2> SUFFICES ASSUME NEW j \in taken PROVE Pass(p, j) \in 1..room
    OBVIOUS
  <2>1. LiveCount(w) + Pass(p, j) <= PerWorkspace
    BY DEF Batch, Admissible
  <2>2. Pass(p, j) \in Nat \ {0}
    BY <1>1, PassesAre
  <2> QED
    BY <1>3, <1>4, <2>1, <2>2
<1>8. \A i, j \in taken : Pass(p, i) = Pass(p, j) => i = j
  BY <1>1, PassesAre
<1>9. IsFiniteSet(taken) /\ Cardinality(taken) <= room
  <2>1. number \in [taken -> 1..room] /\ \A i, j \in taken : number[i] = number[j] => i = j
    BY <1>7, <1>8
  <2> HIDE DEF taken, room, number
  <2> QED
    BY <1>6, <2>1, NumberedIsBounded
<1>10. Cardinality(taken) \in Nat
  BY <1>9, FS_CardinalityType
<1> QED
  BY <1>3, <1>9, <1>10

(* An insert is of a queued job.                                           *)
LEMMA InsertIsQueued ==
  ASSUME TypeOK, NEW kind, NEW w, NEW k, NEW p, NEW m, NEW at,
         Insert(kind, w, k, p, m, at), clock' = clock
  PROVE  \A v \in Workspaces : HeldJobs(v)' \subseteq HeldJobs(v)
<1>1. PICK new \in JobIds \ DOMAIN jobs :
        /\ DOMAIN jobs' = DOMAIN jobs \cup {new}
        /\ \A j \in DOMAIN jobs : jobs'[j] = jobs[j]
        /\ jobs'[new].status = "queued" /\ jobs'[new].key = k
  BY DEF Insert
<1> QED
  BY <1>1 DEF HeldJobs, InHand, LiveLease

(* A step of an execution leaves its row with the process that had it, or  *)
(* with nobody, in no hand that it was not in before.                      *)
LEMMA StepKeepsOwners ==
  ASSUME TypeOK, NEW e \in execs, Step(e)
  PROVE  /\ DOMAIN jobs' = DOMAIN jobs
         /\ \A j \in DOMAIN jobs : /\ jobs'[j].workspace = jobs[j].workspace
                                   /\ jobs'[j].kind = jobs[j].kind
                                   /\ jobs'[j].status = "running" =>
                                         /\ jobs'[j].leaseOwner = jobs[j].leaseOwner
                                         /\ jobs'[j] # jobs[j] => LiveLease(j)
<1> DEFINE row == jobs[e.job]
<1>1. row \in JobRow /\ e.job \in DOMAIN jobs
  BY DEF TypeOK
<1> DEFINE Kept(r) == /\ r.workspace = row.workspace /\ r.kind = row.kind
                      /\ r.status = "running" => r.leaseOwner = row.leaseOwner
           Goal == /\ DOMAIN jobs' = DOMAIN jobs
                   /\ \A j \in DOMAIN jobs : /\ jobs'[j].workspace = jobs[j].workspace
                                             /\ jobs'[j].kind = jobs[j].kind
                                             /\ jobs'[j].status = "running" =>
                                                   /\ jobs'[j].leaseOwner = jobs[j].leaseOwner
                                                   /\ jobs'[j] # jobs[j] => LiveLease(j)
<1>2. ASSUME NEW r, Kept(r), LiveLease(e.job), jobs' = [jobs EXCEPT ![e.job] = r] PROVE Goal
  <2>1. DOMAIN jobs' = DOMAIN jobs /\ jobs'[e.job] = r
        /\ \A j \in DOMAIN jobs \ {e.job} : jobs'[j] = jobs[j]
    BY <1>1, <1>2
  <2> QED
    BY <1>2, <2>1
<1>3. ASSUME NEW r, Kept(r), Settle(e, r) PROVE Goal
  <2>1. jobs' = jobs \/ (LiveLease(e.job) /\ jobs' = [jobs EXCEPT ![e.job] = r])
    BY <1>3 DEF Settle, LiveClaim
  <2> HIDE DEF Kept
  <2> QED
    BY <1>2, <1>3, <2>1
<1>4. CASE Heartbeat(e)
  <2> DEFINE r == [row EXCEPT !.leaseExpiresAt = clock + LeaseMs]
  <2>1. jobs' = jobs \/ (LiveLease(e.job) /\ jobs' = [jobs EXCEPT ![e.job] = r])
    BY <1>4 DEF Heartbeat, LiveClaim
  <2>2. Kept(r)
    BY <1>1 DEF JobRow
  <2> HIDE DEF r, Kept
  <2> QED
    BY <1>2, <2>1, <2>2
<1>5. CASE Complete(e)
  <2> DEFINE r == [row EXCEPT !.status = "succeeded", !.activeKey = FALSE,
                              !.leaseOwner = NoProc, !.leaseExpiresAt = 0,
                              !.lastError = "none"]
  <2>1. Settle(e, r) /\ Kept(r)
    BY <1>1, <1>5 DEF Complete, JobRow
  <2> HIDE DEF r, Kept
  <2> QED
    BY <1>3, <2>1
<1>6. \A x : Kept(Buried(e.job, x))
  BY <1>1 DEF Buried, JobRow
<1>7. CASE DeadLetter(e)
  <2> HIDE DEF Kept
  <2> QED
    BY <1>3, <1>6, <1>7 DEF DeadLetter
<1>8. CASE Retry(e)
  <2>1. CASE e.attempt >= row.maxAttempts
    <3> HIDE DEF Kept
    <3> QED
      BY <1>3, <1>6, <1>8, <2>1 DEF Retry
  <2>2. CASE ~(e.attempt >= row.maxAttempts)
    <3>1. PICK d \in RetryDelays(e.attempt) :
            Settle(e, [row EXCEPT !.status = "queued", !.availableAt = clock + d,
                                  !.leaseOwner = NoProc, !.leaseExpiresAt = 0,
                                  !.lastError = "retryable"])
      BY <1>8, <2>2 DEF Retry
    <3>2. Kept([row EXCEPT !.status = "queued", !.availableAt = clock + d,
                           !.leaseOwner = NoProc, !.leaseExpiresAt = 0,
                           !.lastError = "retryable"])
      BY <1>1 DEF JobRow
    <3> HIDE DEF Kept
    <3> QED
      BY <1>3, <3>1, <3>2
  <2> QED
    BY <2>1, <2>2
<1>9. CASE Abandon(e)
  BY <1>9 DEF Abandon
<1> QED
  BY <1>4, <1>5, <1>7, <1>8, <1>9 DEF Step

LEMMA CapStep == TypeOK /\ WorkspaceCap /\ [Next]_vars => WorkspaceCap'
<1> SUFFICES ASSUME TypeOK, WorkspaceCap, [Next]_vars PROVE WorkspaceCap'
  OBVIOUS
<1>1. ASSUME NEW p \in Procs, Claim(p) PROVE WorkspaceCap'
  <2> SUFFICES ASSUME NEW w \in Workspaces PROVE Cardinality(HeldJobs(w)') <= PerWorkspace
    BY DEF WorkspaceCap, HeldJobs
  <2> DEFINE taken == {j \in Batch(p) \cap Known(p) : jobs[j].workspace = w}
  <2>1. /\ DOMAIN jobs' = DOMAIN jobs /\ clock' = clock
        /\ \A j \in DOMAIN jobs \ Batch(p) : jobs'[j] = jobs[j]
        /\ \A j \in Batch(p) : /\ jobs'[j].workspace = jobs[j].workspace
                               /\ jobs'[j].kind = jobs[j].kind /\ jobs'[j].leaseOwner = p
    BY <1>1, BatchIsRunnable, GrantRuns DEF Claim
  <2>2. HeldJobs(w)' \subseteq HeldJobs(w) \cup taken
    BY <2>1 DEF HeldJobs, InHand, LiveLease, Known
  <2>3. /\ IsFiniteSet(taken) /\ Cardinality(taken) \in Nat
        /\ Cardinality(HeldJobs(w)) + Cardinality(taken) <= PerWorkspace
    BY BatchFits
  <2>4. HeldJobs(w) \in SUBSET DOMAIN jobs
    BY DEF HeldJobs
  <2>5. IsFiniteSet(HeldJobs(w)) /\ Cardinality(HeldJobs(w)) \in Nat
    BY <2>4, IdsAreFinite
  <2> HIDE DEF taken
  <2>6. /\ IsFiniteSet(HeldJobs(w) \cup taken)
        /\ Cardinality(HeldJobs(w) \cup taken) =
              Cardinality(HeldJobs(w)) + Cardinality(taken) - Cardinality(HeldJobs(w) \cap taken)
    BY <2>3, <2>5, FS_Union
  <2>7. Cardinality(HeldJobs(w) \cap taken) \in Nat
    BY <2>5, FS_Intersection, FS_CardinalityType
  <2>8. /\ Cardinality(HeldJobs(w)') <= Cardinality(HeldJobs(w) \cup taken)
        /\ Cardinality(HeldJobs(w)') \in Nat
    BY <2>2, <2>6, FS_Subset, FS_CardinalityType
  <2> QED
    BY <2>3, <2>5, <2>6, <2>7, <2>8
<1>2. CASE Enqueue
  BY <1>2, InsertIsQueued, FewerInHand DEF Enqueue
<1>3. CASE RequeueDeadLetter
  BY <1>3, InsertIsQueued, FewerInHand DEF RequeueDeadLetter
<1>4. ASSUME NEW e \in execs, Step(e) PROVE WorkspaceCap'
  <2>1. clock' = clock
    BY <1>4, StepTakesNoTime
  <2>2. /\ DOMAIN jobs' = DOMAIN jobs
        /\ \A j \in DOMAIN jobs : /\ jobs'[j].workspace = jobs[j].workspace
                                  /\ jobs'[j].kind = jobs[j].kind
                                  /\ jobs'[j].status = "running" =>
                                        /\ jobs'[j].leaseOwner = jobs[j].leaseOwner
                                        /\ jobs'[j] # jobs[j] => LiveLease(j)
    BY <1>4, StepKeepsOwners
  <2>3. \A w \in Workspaces : HeldJobs(w)' \subseteq HeldJobs(w)
    BY <2>1, <2>2 DEF HeldJobs, InHand, LiveLease
  <2> QED
    BY <2>3, FewerInHand
<1>5. ASSUME NEW p \in Procs, Shutdown(p) \/ Crash(p) PROVE WorkspaceCap'
  BY <1>5, FewerInHand DEF Shutdown, Crash, HeldJobs, InHand, LiveLease
<1>6. CASE Tick
  <2>1. \A j \in DOMAIN jobs : jobs[j].leaseExpiresAt \in Nat
    BY DEF TypeOK, JobRow
  <2>2. \A w \in Workspaces : HeldJobs(w)' \subseteq HeldJobs(w)
    BY <1>6, <2>1 DEF Tick, HeldJobs, InHand, LiveLease, TypeOK
  <2> QED
    BY <2>2, FewerInHand
<1>7. CASE UNCHANGED vars
  BY <1>7, FewerInHand DEF vars, HeldJobs, InHand, LiveLease
<1> QED
  BY <1>1, <1>2, <1>3, <1>4, <1>5, <1>6, <1>7 DEF Next

(* The cap holds for the jobs in hand, whatever number of processes of     *)
(* whatever builds claim and however renewals and expiries fall between    *)
(* the claims (background-jobs.ts, the counts of live leases inside the    *)
(* claiming transaction).                                                  *)
THEOREM TheCapHolds == Spec => []WorkspaceCap
<1>1. Init => WorkspaceCap
  <2> SUFFICES ASSUME Init, NEW w \in Workspaces PROVE Cardinality(HeldJobs(w)) <= PerWorkspace
    BY DEF WorkspaceCap, HeldJobs
  <2>1. HeldJobs(w) = {}
    BY DEF Init, HeldJobs
  <2> QED
    BY <2>1, FS_EmptySet
<1> QED
  BY <1>1, Typing, CapStep, PTL DEF Spec

(***************************************************************************)
(* The fairness of a batch.                                                *)
(***************************************************************************)

(* Whatever is due is scanned: the limit of the scan cuts nothing off.     *)
ScanFits == Cardinality(Runnable) <= ScanLimit

LEMMA AllAreScanned == ASSUME TypeOK, ScanFits PROVE Candidates = Runnable
<1> SUFFICES ASSUME NEW j \in Runnable PROVE j \in Candidates
  BY DEF Candidates
<1> DEFINE before == {i \in Runnable : Before(i, j)}
<1>1. Runnable \in SUBSET DOMAIN jobs /\ before \in SUBSET DOMAIN jobs /\ before \subseteq Runnable
  BY DEF Runnable
<1>2. j \notin before
  BY <1>1, BeforeIsAnOrder
<1>3. Cardinality(before) < Cardinality(Runnable)
  BY <1>1, <1>2, StrictlyMore
<1>4. Cardinality(before) \in Nat /\ Cardinality(Runnable) \in Nat
  BY <1>1, IdsAreFinite
<1> QED
  BY <1>3, <1>4 DEF Candidates, ScanFits

(* What is taken before a job of the batch is in the batch.                *)
LEMMA BatchIsClosed ==
  ASSUME TypeOK, NEW p, NEW i \in Admissible(p), NEW k \in Batch(p), TakenBefore(p, i, k)
  PROVE  i \in Batch(p)
<1> DEFINE ahead(j) == {h \in Admissible(p) \cap Known(p) : TakenBefore(p, h, j)}
<1>1. /\ Admissible(p) \subseteq Candidates /\ Candidates \subseteq DOMAIN jobs
      /\ k \in Admissible(p)
  BY DEF Batch, Admissible, Candidates, Runnable
<1>2. \A j \in Admissible(p) : /\ Pass(p, j) \in Nat /\ jobs[j].workspace \in Nat
                               /\ lastDispatched[jobs[j].workspace] \in Int
  <2> SUFFICES ASSUME NEW j \in Admissible(p)
               PROVE  /\ Pass(p, j) \in Nat /\ jobs[j].workspace \in Nat
                      /\ lastDispatched[jobs[j].workspace] \in Int
    OBVIOUS
  <2>1. Pass(p, j) \in Nat
    BY <1>1, PassesAre
  <2>2. jobs[j].workspace \in Workspaces
    BY <1>1 DEF TypeOK, JobRow
  <2> QED
    BY <2>1, <2>2 DEF TypeOK, NeverDispatched
<1>3. ahead(i) \subseteq ahead(k)
  BY <1>1, <1>2 DEF TakenBefore
<1>4. ahead(i) \in SUBSET DOMAIN jobs /\ ahead(k) \in SUBSET DOMAIN jobs
  BY <1>1
<1>5. Cardinality(ahead(k)) < BatchSize
  BY DEF Batch
<1> HIDE DEF ahead
<1>6. Cardinality(ahead(i)) <= Cardinality(ahead(k))
  BY <1>3, <1>4, IdsAreFinite, FS_Subset
<1>7. Cardinality(ahead(i)) < BatchSize
  BY <1>4, <1>5, <1>6, IdsAreFinite
<1> QED
  BY <1>7 DEF Batch, ahead

(* A workspace that waits has a known job the first pass could take.       *)
LEMMA WaitingHasAFirst ==
  ASSUME TypeOK, ScanFits, NEW p, NEW w \in Workspaces, Waiting(p, w)
  PROVE  \E j \in Admissible(p) \cap Known(p) : jobs[j].workspace = w /\ Pass(p, j) = 1
<1> DEFINE line == {j \in Candidates \cap Known(p) : jobs[j].workspace = w}
           passes == {Pass(p, j) : j \in line}
<1>1. line # {}
  BY AllAreScanned DEF Waiting
<1>2. passes \in SUBSET Nat /\ passes # {}
  BY <1>1, PassesAre
<1>3. PICK n \in passes : \A m \in passes : n <= m
  <2> HIDE DEF passes
  <2> QED
    BY <1>2, LeastIs
<1>4. PICK j \in line : Pass(p, j) = n
  BY <1>3
<1>5. Pass(p, j) = 1
  <2> SUFFICES ASSUME Pass(p, j) # 1 PROVE FALSE
    OBVIOUS
  <2>1. PICK i \in Candidates \cap Known(p) :
          jobs[i].workspace = jobs[j].workspace /\ Before(i, j)
    BY PassesAre
  <2>2. Pass(p, i) < Pass(p, j) /\ Pass(p, i) \in Nat /\ Pass(p, j) \in Nat
    BY <2>1, PassesAre
  <2>3. Pass(p, i) \in passes
    BY <2>1
  <2>4. n <= Pass(p, i)
    BY <1>3, <2>3
  <2> QED
    BY <1>4, <2>2, <2>4
<1>6. LiveCount(w) \in Nat
  <2>1. LiveJobs(w) \in SUBSET DOMAIN jobs /\ LiveCount(w) = Cardinality(LiveJobs(w))
    BY DEF LiveJobs, LiveCount
  <2> QED
    BY <2>1, IdsAreFinite
<1> QED
  BY <1>5, <1>6 DEF Waiting, Admissible

(* Of what a batch leaves out nothing was earlier in the order of passes.  *)
LEMMA BatchIsFair ==
  ASSUME TypeOK, ScanFits, NEW p, NEW w \in Workspaces, Waiting(p, w),
         \A j \in Batch(p) \cap Known(p) : jobs[j].workspace # w, NEW k \in Batch(p)
  PROVE  Pass(p, k) = 1 /\ lastDispatched[jobs[k].workspace] <= lastDispatched[w]
<1>1. PICK j \in Admissible(p) \cap Known(p) : jobs[j].workspace = w /\ Pass(p, j) = 1
  BY WaitingHasAFirst
<1>2. ~TakenBefore(p, j, k)
  BY <1>1, BatchIsClosed
<1>3. k \in Candidates /\ k \in DOMAIN jobs
  BY DEF Batch, Admissible, Candidates, Runnable
<1>4. Pass(p, k) \in Nat \ {0}
  BY <1>3, PassesAre
<1>5. lastDispatched[jobs[k].workspace] \in Int /\ lastDispatched[w] \in Int
  BY <1>3 DEF TypeOK, JobRow, NeverDispatched
<1> QED
  BY <1>1, <1>2, <1>4, <1>5 DEF TakenBefore

(* What a step makes claims of for process p and workspace w.              *)
Claimed(p, w) ==
    {j \in Known(p) : /\ jobs[j].workspace = w
                      /\ jobs'[j].leaseVersion > jobs[j].leaseVersion
                      /\ jobs'[j].leaseOwner = p}

LEMMA FairStep ==
  ASSUME TypeOK, ScanFits, [Next]_vars, NEW p \in Procs,
         NEW v \in Workspaces, NEW w \in Workspaces,
         Waiting(p, w), Claimed(p, w) = {}, Claimed(p, v) # {}
  PROVE  Cardinality(Claimed(p, v)) = 1 /\ lastDispatched[v] <= lastDispatched[w]
<1>1. \A j \in DOMAIN jobs : jobs[j].leaseVersion \in Nat
  BY DEF TypeOK, JobRow
<1>2. ASSUME NEW q \in Procs, Claim(q)
      PROVE  Cardinality(Claimed(p, v)) = 1 /\ lastDispatched[v] <= lastDispatched[w]
  <2>1. Grant(q, Batch(q)) /\ Batch(q) \in SUBSET Runnable /\ Batch(q) \subseteq DOMAIN jobs
    BY <1>2, BatchIsRunnable DEF Claim
  <2>2. /\ \A j \in DOMAIN jobs \ Batch(q) : jobs'[j] = jobs[j]
        /\ \A j \in Batch(q) : /\ jobs'[j].leaseVersion = jobs[j].leaseVersion + 1
                               /\ jobs'[j].leaseOwner = q
                               /\ jobs[j].leaseVersion \in Nat
    BY <2>1, GrantRuns
  <2>3. q = p
    BY <1>1, <2>2 DEF Claimed, Known
  <2>4. \A u : Claimed(p, u) = {j \in Batch(p) \cap Known(p) : jobs[j].workspace = u}
    BY <1>1, <2>1, <2>2, <2>3 DEF Claimed, Known
  <2>5. \A j \in Batch(p) \cap Known(p) : jobs[j].workspace # w
    BY <2>4
  <2>6. \A k \in Claimed(p, v) : Pass(p, k) = 1 /\ lastDispatched[v] <= lastDispatched[w]
    BY <2>4, <2>5, BatchIsFair
  <2>7. \A j, k \in Claimed(p, v) : j = k
    <3>1. Claimed(p, v) \subseteq Candidates
      BY <2>4 DEF Batch, Admissible
    <3> QED
      BY <2>4, <2>6, <3>1, PassesAre
  <2>8. PICK k \in Claimed(p, v) : TRUE
    OBVIOUS
  <2>9. Claimed(p, v) = {k}
    BY <2>7, <2>8
  <2> QED
    BY <2>6, <2>9, FS_Singleton
<1>3. ASSUME NEW j \in DOMAIN jobs, jobs'[j].leaseVersion = jobs[j].leaseVersion,
             j \in Claimed(p, v)
      PROVE  FALSE
  BY <1>1, <1>3 DEF Claimed
<1>4. PICK j \in DOMAIN jobs : j \in Claimed(p, v)
  BY DEF Claimed, Known
<1>5. CASE Enqueue \/ RequeueDeadLetter
  <2>1. jobs'[j] = jobs[j]
    BY <1>5 DEF Enqueue, RequeueDeadLetter, Insert
  <2> QED
    BY <1>3, <1>4, <2>1
<1>6. ASSUME NEW e \in execs, Step(e) PROVE FALSE
  BY <1>3, <1>4, <1>6, StepKeepsVersions
<1>7. ASSUME NEW q \in Procs, Shutdown(q) \/ Crash(q) PROVE FALSE
  BY <1>3, <1>4, <1>7 DEF Shutdown, Crash
<1>8. CASE Tick \/ UNCHANGED vars
  BY <1>3, <1>4, <1>8 DEF Tick, vars
<1> QED
  BY <1>2, <1>5, <1>6, <1>7, <1>8 DEF Next

(* As long as the scan reaches all that is due, a claim that leaves out a  *)
(* workspace with room and a due job of a kind the process knows makes no  *)
(* second claim for any other, and only for those dispatched no later      *)
(* (sprint 73, 5.3), whatever rows of other kinds it leases on the way.    *)
(* Beyond the limit of the scan the code promises nothing of the kind.     *)
THEOREM BatchesAreFair == Spec /\ []ScanFits => FairBatches
<1>1. TypeOK /\ ScanFits /\ [Next]_vars =>
        [LET Taken(p, w) == {j \in Known(p) :
                               /\ jobs[j].workspace = w
                               /\ jobs'[j].leaseVersion > jobs[j].leaseVersion
                               /\ jobs'[j].leaseOwner = p}
         IN \A p \in Procs : \A v, w \in Workspaces :
               Waiting(p, w) /\ Taken(p, w) = {} /\ Taken(p, v) # {} =>
                  /\ Cardinality(Taken(p, v)) = 1
                  /\ lastDispatched[v] <= lastDispatched[w]]_vars
  BY FairStep DEF Claimed
<1> QED
  BY <1>1, Typing, PTL DEF Spec, FairBatches
=============================================================================
