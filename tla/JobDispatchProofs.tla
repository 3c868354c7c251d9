------------------------- MODULE JobDispatchProofs -------------------------
(***************************************************************************)
(* Whatever ticks overlap, stall and die, in however many processes with   *)
(* whatever intervals: every occurrence of a schedule becomes one job, at  *)
(* its time or later, and the dispatch phases use the lease as TaskLease   *)
(* prescribes.                                                             *)
(***************************************************************************)
EXTENDS JobDispatch, BackgroundJobsProofs

USE IdsAssumption, InputsAssumption, ProcsAssumption, PolicyAssumption, DispatchAssumption,
    OccurrencesAssumption

(***************************************************************************)
(* The inductive invariant.                                                *)
(***************************************************************************)

IntervalsInUse == {Intervals[p] : p \in Procs}

(* The schedules; those of the kinds in use run at an interval of some     *)
(* process, and none is due before the clock started.                      *)
ScheduleRow == [interval : Nat \ {0}, nextRunAt : Nat, enabled : BOOLEAN]

SchedulesAreFine ==
    /\ DOMAIN schedules \subseteq Schedule
    /\ schedules \in [DOMAIN schedules -> ScheduleRow]
    /\ \A s \in DOMAIN schedules : s[2] \in Kinds => schedules[s].interval \in IntervalsInUse

(* What a tick read: rows that were due at the time it read.  The table    *)
(* may have moved on since.                                                *)
Read == [schedule : Schedule, nextRunAt : Nat, interval : Nat \ {0}]

TicksAreFine ==
    /\ tick \in [Ticks -> {"idle", "working", "busy", "done", "crashed"}]
    /\ step \in [Ticks -> {"reconcile", "scan", "admit", "claim", "release"}]
    /\ now \in [Ticks -> Nat] /\ \A t \in Ticks : now[t] <= clock
    /\ due \in [Ticks -> SUBSET Read]
    /\ \A t \in Ticks : \A c \in due[t] :
          /\ c.schedule \in DOMAIN schedules /\ c.nextRunAt <= now[t]
          /\ c.schedule[2] \in Kinds => c.interval \in IntervalsInUse

(* A process serves one dispatch phase at a time.                          *)
OneTickWorks ==
    \A t, u \in Ticks :
        ProcOf[t] = ProcOf[u] /\ tick[t] = "working" /\ tick[u] = "working" => t = u

(* An occurrence that was admitted lies at least an interval before the    *)
(* next one of its schedule, and was admitted at its time or later.        *)
OccurrencesAreBehind ==
    \A j \in DOMAIN jobs :
        LET s == jobs[j].key[1]  at == jobs[j].key[2] IN
        /\ jobs[j].key \in Schedule \X Nat
        /\ s \in DOMAIN schedules
        /\ at <= jobs[j].createdAt
        /\ \E p \in Procs : schedules[s].nextRunAt - at >= Intervals[p]

DispatchInv ==
    /\ TypeOK /\ clock <= MaxClock
    /\ SchedulesAreFine /\ TicksAreFine /\ OneTickWorks
    /\ OccurrencesAreBehind /\ OneJobPerOccurrence /\ OccurrencesKeepTheirDistance


(***************************************************************************)
(* Lemmas about the operators of the model.                                *)
(***************************************************************************)

(* The next boundary lies at least one interval ahead.                     *)
LEMMA BoundariesAreApart ==
  ASSUME NEW c \in Read, NEW at \in Nat, c.nextRunAt <= at
  PROVE  NextBoundary(c, at) \in Nat /\ NextBoundary(c, at) - c.nextRunAt >= c.interval
<1>1. PICK n \in Nat, i \in Nat \ {0} : n = c.nextRunAt /\ i = c.interval
  BY DEF Read
<1>2. PICK k : k = (at - n) \div i
  OBVIOUS
<1>3. k \in Nat
  BY <1>1, <1>2
<1>4. (k + 1) * i \in Nat /\ (k + 1) * i >= i
  BY <1>1, <1>3
<1>5. NextBoundary(c, at) = n + (k + 1) * i
  BY <1>1, <1>2 DEF NextBoundary
<1> QED
  BY <1>1, <1>4, <1>5

(* What the table of jobs keeps of a row, whatever becomes of the job.     *)
JobsKeep ==
    /\ DOMAIN jobs' = DOMAIN jobs
    /\ \A j \in DOMAIN jobs :
          jobs'[j].key = jobs[j].key /\ jobs'[j].createdAt = jobs[j].createdAt

(* An execution settles its job without touching where it came from.       *)
LEMMA SettleKeeps ==
  ASSUME TypeOK, NEW e \in execs, NEW row, Settle(e, row),
         row.key = jobs[e.job].key, row.createdAt = jobs[e.job].createdAt
  PROVE  JobsKeep
<1>1. jobs' = jobs \/ jobs' = [jobs EXCEPT ![e.job] = row]
  BY DEF Settle
<1> QED
  BY <1>1 DEF JobsKeep, TypeOK

(* So does every step of an execution.                                     *)
LEMMA StepKeeps ==
  ASSUME TypeOK, NEW e \in execs, Step(e)
  PROVE  JobsKeep
<1>1. e.job \in DOMAIN jobs /\ jobs[e.job] \in JobRow /\ jobs \in [DOMAIN jobs -> JobRow]
  BY DEF TypeOK
<1>2. CASE Heartbeat(e)
  <2>1. jobs' = jobs \/ jobs' = [jobs EXCEPT ![e.job].leaseExpiresAt = clock + LeaseMs]
    BY <1>2 DEF Heartbeat
  <2> QED
    BY <1>1, <2>1 DEF JobsKeep, JobRow
<1>3. CASE Complete(e)
  <2>1. PICK row : row = [jobs[e.job] EXCEPT !.status = "succeeded", !.activeKey = FALSE,
                             !.leaseOwner = NoProc, !.leaseExpiresAt = 0, !.lastError = "none"]
    OBVIOUS
  <2>2. row.key = jobs[e.job].key /\ row.createdAt = jobs[e.job].createdAt
    BY <1>1, <2>1 DEF JobRow
  <2>3. Settle(e, row)
    BY <1>3, <2>1 DEF Complete
  <2> QED
    BY <2>2, <2>3, SettleKeeps
<1>4. ASSUME NEW error, Settle(e, Buried(e.job, error)) PROVE JobsKeep
  <2>1. PICK row : row = Buried(e.job, error)
    OBVIOUS
  <2>2. row.key = jobs[e.job].key /\ row.createdAt = jobs[e.job].createdAt
    BY <1>1, <2>1 DEF JobRow, Buried
  <2>3. Settle(e, row)
    BY <1>4, <2>1
  <2> QED
    BY <2>2, <2>3, SettleKeeps
<1>5. CASE DeadLetter(e)
  BY <1>4, <1>5 DEF DeadLetter
<1>6. CASE Retry(e)
  <2>1. CASE e.attempt >= jobs[e.job].maxAttempts
    BY <1>4, <1>6, <2>1 DEF Retry
  <2>2. CASE ~(e.attempt >= jobs[e.job].maxAttempts)
    <3>1. PICK d : Settle(e, [jobs[e.job] EXCEPT !.status = "queued", !.availableAt = clock + d,
                                 !.leaseOwner = NoProc, !.leaseExpiresAt = 0,
                                 !.lastError = "retryable"])
      BY <1>6, <2>2 DEF Retry
    <3>2. PICK row : row = [jobs[e.job] EXCEPT !.status = "queued", !.availableAt = clock + d,
                                 !.leaseOwner = NoProc, !.leaseExpiresAt = 0,
                                 !.lastError = "retryable"]
      OBVIOUS
    <3>3. row.key = jobs[e.job].key /\ row.createdAt = jobs[e.job].createdAt
      BY <1>1, <3>2 DEF JobRow
    <3>4. Settle(e, row)
      BY <3>1, <3>2
    <3> QED
      BY <3>3, <3>4, SettleKeeps
  <2> QED
    BY <2>1, <2>2
<1>7. CASE Abandon(e)
  BY <1>7 DEF Abandon, JobsKeep
<1> QED
  BY <1>2, <1>3, <1>5, <1>6, <1>7 DEF Step

(* And a claim.                                                            *)
LEMMA ClaimKeeps ==
  ASSUME TypeOK, NEW p \in Procs, Claim(p)
  PROVE  JobsKeep
<1>1. PICK B : Grant(p, B)
  BY ClaimGrants
<1>2. jobs' = [j \in DOMAIN jobs |->
                  IF j \notin B THEN jobs[j]
                  ELSE [jobs[j] EXCEPT !.status = "running", !.attempt = @ + 1, !.leaseOwner = p,
                                       !.leaseVersion = @ + 1, !.leaseExpiresAt = clock + LeaseMs]]
  BY <1>1 DEF Grant
<1>3. \A j \in DOMAIN jobs : jobs[j] \in JobRow
  BY DEF TypeOK
<1> QED
  BY <1>2, <1>3 DEF JobsKeep, JobRow

(***************************************************************************)
(* What carries the invariant over a step.                                 *)
(***************************************************************************)

SchedulesAdvance ==
    \A s \in DOMAIN schedules :
        s \in DOMAIN schedules' /\ schedules'[s].nextRunAt >= schedules[s].nextRunAt

(* Where jobs come from stays, and the schedules move only forward.        *)
LEMMA OriginsCarry ==
  ASSUME SchedulesAreFine, OccurrencesAreBehind, OneJobPerOccurrence, OccurrencesKeepTheirDistance,
         JobsKeep, SchedulesAdvance, SchedulesAreFine'
  PROVE  OccurrencesAreBehind' /\ OneJobPerOccurrence' /\ OccurrencesKeepTheirDistance'
<1>1. OneJobPerOccurrence'
  BY DEF OneJobPerOccurrence, JobsKeep
<1>2. OccurrencesKeepTheirDistance'
  BY DEF OccurrencesKeepTheirDistance, JobsKeep
<1>3. OccurrencesAreBehind'
  <2> SUFFICES ASSUME NEW j \in DOMAIN jobs
               PROVE  /\ jobs[j].key \in Schedule \X Nat
                      /\ jobs[j].key[1] \in DOMAIN schedules'
                      /\ jobs[j].key[2] <= jobs[j].createdAt
                      /\ \E p \in Procs :
                            schedules'[jobs[j].key[1]].nextRunAt - jobs[j].key[2] >= Intervals[p]
    BY DEF OccurrencesAreBehind, JobsKeep
  <2>1. PICK s, at : s = jobs[j].key[1] /\ at = jobs[j].key[2]
    OBVIOUS
  <2>2. /\ jobs[j].key \in Schedule \X Nat /\ at \in Nat /\ s \in DOMAIN schedules
        /\ at <= jobs[j].createdAt
    BY <2>1 DEF OccurrencesAreBehind
  <2>3. PICK p \in Procs : schedules[s].nextRunAt - at >= Intervals[p]
    BY <2>1 DEF OccurrencesAreBehind
  <2>4. /\ s \in DOMAIN schedules' /\ schedules'[s].nextRunAt >= schedules[s].nextRunAt
        /\ schedules[s].nextRunAt \in Nat /\ schedules'[s].nextRunAt \in Nat
    BY <2>2 DEF SchedulesAdvance, SchedulesAreFine, ScheduleRow
  <2>5. schedules'[s].nextRunAt - at >= Intervals[p]
    BY <2>2, <2>3, <2>4
  <2> QED
    BY <2>1, <2>2, <2>4, <2>5
<1> QED
  BY <1>1, <1>2, <1>3

(* What ticks have read stays good while time passes and schedules appear. *)
LEMMA TicksCarry ==
  ASSUME TypeOK, TicksAreFine, clock' \in Nat, clock' >= clock, DOMAIN schedules \subseteq DOMAIN schedules',
         tick' \in [Ticks -> {"idle", "working", "busy", "done", "crashed"}],
         step' \in [Ticks -> {"reconcile", "scan", "admit", "claim", "release"}],
         now' = now, due' \in [Ticks -> SUBSET Read], \A t \in Ticks : due'[t] \subseteq due[t]
  PROVE  TicksAreFine'
<1>1. \A t \in Ticks : now[t] \in Nat /\ now[t] <= clock /\ clock \in Nat
  BY DEF TicksAreFine, TypeOK
<1>2. \A t \in Ticks : now[t] <= clock'
  BY <1>1
<1> QED
  BY <1>2 DEF TicksAreFine


(***************************************************************************)
(* The admission.                                                          *)
(***************************************************************************)

(* An admission advances the schedule past what it admits, and that is not *)
(* among the jobs yet: they all lie behind.                                *)
LEMMA AdmitInserts ==
  ASSUME DispatchInv, NEW t \in Ticks, NEW c \in due[t], Admit(t, c)
  PROVE  /\ SchedulesAreFine' /\ SchedulesAdvance /\ DOMAIN schedules' = DOMAIN schedules
         /\ c.schedule \in DOMAIN schedules /\ c.schedule \in Workspaces \X Kinds
         /\ c.nextRunAt \in 0..clock /\ schedules[c.schedule].nextRunAt = c.nextRunAt
         /\ \E p \in Procs : schedules'[c.schedule].nextRunAt - c.nextRunAt >= Intervals[p]
         /\ \A s \in DOMAIN schedules : s # c.schedule => schedules'[s] = schedules[s]
         /\ \A j \in DOMAIN jobs : jobs[j].key # <<c.schedule, c.nextRunAt>>
         /\ \E m \in Attempts :
               Insert(c.schedule[2], c.schedule[1], <<c.schedule, c.nextRunAt>>, 0, m, now[t])
<1>1. /\ c \in Read /\ c.schedule \in DOMAIN schedules /\ c.nextRunAt <= now[t]
      /\ now[t] \in Nat /\ now[t] <= clock /\ clock \in Nat
      /\ c.schedule[2] \in Kinds /\ c.interval \in IntervalsInUse
  BY DEF DispatchInv, TicksAreFine, TypeOK, Admit
<1>2. PICK s, n : s = c.schedule /\ n = c.nextRunAt
  OBVIOUS
<1>3. /\ n \in Nat /\ n <= clock /\ s \in DOMAIN schedules /\ s \in Workspaces \X Kinds
      /\ schedules[s].nextRunAt = n
  BY <1>1, <1>2 DEF Read, Schedule, Admit, Unmoved
<1>4. PICK next : next = NextBoundary(c, now[t])
  OBVIOUS
<1>5. next \in Nat /\ next - n >= c.interval /\ c.interval \in Nat \ {0}
  <2>1. NextBoundary(c, now[t]) \in Nat /\ NextBoundary(c, now[t]) - c.nextRunAt >= c.interval
    BY <1>1, BoundariesAreApart
  <2> QED
    BY <1>1, <1>2, <1>4, <2>1 DEF Read
<1>6. schedules' = [schedules EXCEPT ![s].nextRunAt = next]
  BY <1>2, <1>4 DEF Admit
<1>7. /\ DOMAIN schedules' = DOMAIN schedules /\ schedules[s] \in ScheduleRow
      /\ schedules'[s] = [schedules[s] EXCEPT !.nextRunAt = next]
      /\ \A x \in DOMAIN schedules : x # s => schedules'[x] = schedules[x]
      /\ schedules \in [DOMAIN schedules -> ScheduleRow]
  BY <1>3, <1>6 DEF DispatchInv, SchedulesAreFine
<1>8. /\ schedules'[s] \in ScheduleRow /\ schedules'[s].nextRunAt = next
      /\ schedules'[s].interval = schedules[s].interval
  BY <1>5, <1>7 DEF ScheduleRow
<1>9. SchedulesAreFine'
  <2>1. schedules' = [x \in DOMAIN schedules |-> IF x = s THEN schedules'[s] ELSE schedules[x]]
    BY <1>6, <1>7
  <2>2. schedules' \in [DOMAIN schedules' -> ScheduleRow]
    BY <1>7, <1>8, <2>1
  <2> QED
    BY <1>7, <1>8, <2>2 DEF DispatchInv, SchedulesAreFine
<1>10. SchedulesAdvance
  <2>1. next >= n
    BY <1>3, <1>5
  <2>2. \A x \in DOMAIN schedules : schedules[x].nextRunAt \in Nat
    BY <1>7 DEF ScheduleRow
  <2> QED
    <3>1. \A x \in DOMAIN schedules : schedules'[x].nextRunAt >= schedules[x].nextRunAt
      <4> SUFFICES ASSUME NEW x \in DOMAIN schedules
                   PROVE  schedules'[x].nextRunAt >= schedules[x].nextRunAt
        OBVIOUS
      <4>1. CASE x = s
        BY <1>3, <1>8, <2>1, <4>1
      <4>2. CASE x # s
        <5>1. schedules'[x].nextRunAt = schedules[x].nextRunAt
          BY <1>7, <4>2
        <5> QED
          BY <2>2, <5>1
      <4> QED
        BY <4>1, <4>2
    <3> QED
      BY <1>7, <3>1 DEF SchedulesAdvance
<1>11. \E p \in Procs : schedules'[s].nextRunAt - n >= Intervals[p]
  BY <1>1, <1>5, <1>8 DEF IntervalsInUse
<1>12. \A j \in DOMAIN jobs : jobs[j].key # <<s, n>>
  <2> SUFFICES ASSUME NEW j \in DOMAIN jobs, jobs[j].key = <<s, n>> PROVE FALSE
    OBVIOUS
  <2>1. PICK p \in Procs : schedules[s].nextRunAt - n >= Intervals[p]
    BY DEF DispatchInv, OccurrencesAreBehind
  <2> QED
    BY <1>3, <2>1
<1>13. \E m \in Attempts : Insert(s[2], s[1], <<s, n>>, 0, m, now[t])
  BY <1>2, <1>12 DEF Admit, Occurrence, HoldsKey
<1> QED
  BY <1>2, <1>3, <1>7, <1>9, <1>10, <1>11, <1>12, <1>13

(* The job of an admission is the first and only one of its occurrence.    *)
LEMMA AdmitKeeps ==
  ASSUME DispatchInv, NEW t \in Ticks, NEW c \in due[t], Admit(t, c),
         UNCHANGED <<clock, lastDispatched, execs, failures>>
  PROVE  /\ TypeOK'
         /\ OccurrencesAreBehind' /\ OneJobPerOccurrence' /\ OccurrencesKeepTheirDistance'
<1>1. PICK s, n : s = c.schedule /\ n = c.nextRunAt
  OBVIOUS
<1>2. /\ SchedulesAreFine' /\ SchedulesAdvance /\ DOMAIN schedules' = DOMAIN schedules
      /\ s \in DOMAIN schedules /\ s \in Workspaces \X Kinds
      /\ n \in 0..clock /\ schedules[s].nextRunAt = n
      /\ \A j \in DOMAIN jobs : jobs[j].key # <<s, n>>
  BY <1>1, AdmitInserts
<1>3. PICK q \in Procs : schedules'[s].nextRunAt - n >= Intervals[q]
  BY <1>1, AdmitInserts
<1>4. PICK m \in Attempts : Insert(s[2], s[1], <<s, n>>, 0, m, now[t])
  BY <1>1, AdmitInserts
<1>5. /\ TypeOK /\ clock \in Nat /\ clock <= MaxClock /\ now[t] \in Nat
      /\ <<s, n>> \in Keys /\ s[1] \in Workspaces /\ <<s, n>> \in Schedule \X Nat
      /\ s[2] \in JobKinds
  BY <1>2 DEF DispatchInv, TypeOK, TicksAreFine, Schedule
<1>6. DOMAIN jobs' \subseteq JobIds /\ jobs' \in [DOMAIN jobs' -> JobRow]
  BY <1>4, <1>5, InsertType
<1>7. PICK new \in JobIds \ DOMAIN jobs :
        /\ DOMAIN jobs' = DOMAIN jobs \cup {new}
        /\ \A j \in DOMAIN jobs : jobs'[j] = jobs[j]
        /\ jobs'[new].key = <<s, n>> /\ jobs'[new].createdAt = clock
  <2> DEFINE row == [status |-> "queued", kind |-> s[2], workspace |-> s[1],
                     key |-> <<s, n>>, activeKey |-> TRUE, priority |-> 0,
                     createdAt |-> clock, availableAt |-> now[t],
                     attempt |-> 0, maxAttempts |-> m,
                     leaseOwner |-> NoProc, leaseVersion |-> 0,
                     leaseExpiresAt |-> 0, lastError |-> "none"]
  <2>1. row.key = <<s, n>> /\ row.createdAt = clock
    OBVIOUS
  <2>2. PICK new \in JobIds \ DOMAIN jobs :
          jobs' = [j \in DOMAIN jobs \cup {new} |-> IF j # new THEN jobs[j] ELSE row]
    BY <1>4 DEF Insert
  <2> HIDE DEF row
  <2> QED
    BY <2>1, <2>2
<1>8. TypeOK'
  BY <1>5, <1>6, <1>7 DEF TypeOK
<1>9. \A j \in DOMAIN jobs :
        /\ jobs[j].key \in Schedule \X Nat /\ jobs[j].key[1] \in DOMAIN schedules
        /\ jobs[j].key[2] <= jobs[j].createdAt
        /\ jobs[j].key[1] = s => \E p \in Procs : n - jobs[j].key[2] >= Intervals[p]
        /\ \E p \in Procs :
              schedules'[jobs[j].key[1]].nextRunAt - jobs[j].key[2] >= Intervals[p]
  <2> SUFFICES ASSUME NEW j \in DOMAIN jobs
               PROVE  /\ jobs[j].key \in Schedule \X Nat /\ jobs[j].key[1] \in DOMAIN schedules
                      /\ jobs[j].key[2] <= jobs[j].createdAt
                      /\ jobs[j].key[1] = s => \E p \in Procs : n - jobs[j].key[2] >= Intervals[p]
                      /\ \E p \in Procs :
                            schedules'[jobs[j].key[1]].nextRunAt - jobs[j].key[2] >= Intervals[p]
    OBVIOUS
  <2>1. PICK x, at : x = jobs[j].key[1] /\ at = jobs[j].key[2]
    OBVIOUS
  <2>2. /\ jobs[j].key \in Schedule \X Nat /\ at \in Nat /\ x \in DOMAIN schedules
        /\ at <= jobs[j].createdAt
    BY <2>1 DEF DispatchInv, OccurrencesAreBehind
  <2>3. PICK p \in Procs : schedules[x].nextRunAt - at >= Intervals[p]
    BY <2>1 DEF DispatchInv, OccurrencesAreBehind
  <2>4. /\ schedules'[x].nextRunAt >= schedules[x].nextRunAt
        /\ schedules[x].nextRunAt \in Nat /\ schedules'[x].nextRunAt \in Nat
    BY <1>2, <2>2 DEF DispatchInv, SchedulesAdvance, SchedulesAreFine, ScheduleRow
  <2>5. schedules'[x].nextRunAt - at >= Intervals[p]
    BY <2>2, <2>3, <2>4
  <2> QED
    BY <1>2, <2>1, <2>2, <2>3, <2>5
<1>10. OccurrencesAreBehind'
  BY <1>2, <1>3, <1>5, <1>7, <1>9 DEF OccurrencesAreBehind
<1>11. OneJobPerOccurrence'
  BY <1>2, <1>7 DEF DispatchInv, OneJobPerOccurrence
<1>12. OccurrencesKeepTheirDistance'
  <2> SUFFICES ASSUME NEW i \in DOMAIN jobs', NEW j \in DOMAIN jobs'
               PROVE  /\ jobs'[j].key[2] <= jobs'[j].createdAt
                      /\ jobs'[i].key[1] = jobs'[j].key[1] /\ jobs'[i].key[2] < jobs'[j].key[2] =>
                            \E p \in Procs : jobs'[j].key[2] - jobs'[i].key[2] >= Intervals[p]
    BY DEF OccurrencesKeepTheirDistance
  <2>1. CASE i \in DOMAIN jobs /\ j \in DOMAIN jobs
    BY <1>7, <2>1 DEF DispatchInv, OccurrencesKeepTheirDistance
  <2>2. CASE i \in DOMAIN jobs /\ j = new
    BY <1>2, <1>7, <1>9, <2>2
  <2>3. CASE i = new /\ j \in DOMAIN jobs
    <3>1. jobs'[j].key[2] <= jobs'[j].createdAt
      BY <1>7, <1>9, <2>3
    <3>2. jobs'[i].key[1] = jobs'[j].key[1] => ~(jobs'[i].key[2] < jobs'[j].key[2])
      <4> SUFFICES ASSUME s = jobs[j].key[1], n < jobs[j].key[2] PROVE FALSE
        BY <1>7, <2>3
      <4>1. PICK p \in Procs : n - jobs[j].key[2] >= Intervals[p]
        BY <1>9, <2>3
      <4>2. jobs[j].key[2] \in Nat
        BY <1>9, <2>3
      <4> QED
        BY <1>2, <4>1, <4>2
    <3> QED
      BY <3>1, <3>2
  <2>4. CASE i = new /\ j = new
    BY <1>2, <1>7, <2>4
  <2> QED
    BY <1>7, <2>1, <2>2, <2>3, <2>4
<1> QED
  BY <1>8, <1>10, <1>11, <1>12


(***************************************************************************)
(* The steps.                                                              *)
(***************************************************************************)

(* Steps that leave schedules and origins of jobs alone.                   *)
LEMMA QuietStepKeeps ==
  ASSUME DispatchInv, TypeOK', clock' \in clock..MaxClock, JobsKeep, UNCHANGED <<schedules, now>>,
         tick' \in [Ticks -> {"idle", "working", "busy", "done", "crashed"}],
         step' \in [Ticks -> {"reconcile", "scan", "admit", "claim", "release"}],
         UNCHANGED due, OneTickWorks'
  PROVE  DispatchInv'
<1>1. SchedulesAreFine' /\ SchedulesAdvance
  <2>1. \A s \in DOMAIN schedules : schedules[s].nextRunAt \in Nat
    BY DEF DispatchInv, SchedulesAreFine, ScheduleRow
  <2> QED
    BY <2>1 DEF DispatchInv, SchedulesAreFine, SchedulesAdvance
<1>2. OccurrencesAreBehind' /\ OneJobPerOccurrence' /\ OccurrencesKeepTheirDistance'
  BY <1>1, OriginsCarry DEF DispatchInv
<1>3. TicksAreFine'
  <2>1. clock \in Nat /\ clock' \in Nat /\ clock' >= clock /\ clock' <= MaxClock
    BY DEF DispatchInv, TypeOK
  <2>2. due' \in [Ticks -> SUBSET Read] /\ \A t \in Ticks : due'[t] \subseteq due[t]
    BY DEF DispatchInv, TicksAreFine
  <2> QED
    BY <2>1, <2>2, TicksCarry DEF DispatchInv
<1>4. clock' <= MaxClock
  BY DEF DispatchInv, TypeOK
<1> QED
  BY <1>1, <1>2, <1>3, <1>4 DEF DispatchInv

(* The lease decides who begins; the rest of the table waits.              *)
LEMMA BeginKeeps ==
  ASSUME DispatchInv, NEW t \in Ticks, Begin(t)
  PROVE  DispatchInv'
<1>1. /\ UNCHANGED <<clock, jobVars, schedules, tickVars>> /\ Yielding(ProcOf[t])
      /\ tick' = [tick EXCEPT ![t] = "working"] \/ tick' = [tick EXCEPT ![t] = "busy"]
  BY DEF Begin, Dispatcher!Claim, Dispatcher!Busy
<1>2. /\ tick \in [Ticks -> {"idle", "working", "busy", "done", "crashed"}]
      /\ step \in [Ticks -> {"reconcile", "scan", "admit", "claim", "release"}]
  BY DEF DispatchInv, TicksAreFine
<1>3. TypeOK' /\ JobsKeep /\ clock' \in clock..MaxClock
  BY <1>1 DEF DispatchInv, TypeOK, JobsKeep, jobVars
<1>4. OneTickWorks'
  BY <1>1, <1>2 DEF DispatchInv, OneTickWorks, Yielding
<1> QED
  BY <1>1, <1>2, <1>3, <1>4, QuietStepKeeps DEF tickVars

(* A new schedule is due now and has no job yet.                           *)
LEMMA ReconcileKeeps ==
  ASSUME DispatchInv, NEW t \in Ticks, Reconcile(t)
  PROVE  DispatchInv' /\ SchedulesAdvance
<1>1. /\ UNCHANGED <<clock, jobVars, leaseVars, now, due>>
      /\ step' = [step EXCEPT ![t] = "scan"]
      /\ Intervals[ProcOf[t]] \in Nat \ {0} /\ Intervals[ProcOf[t]] \in IntervalsInUse
  BY DEF Reconcile, IntervalsInUse
<1>2. /\ schedules \in [DOMAIN schedules -> ScheduleRow] /\ DOMAIN schedules \subseteq Schedule
      /\ \A s \in DOMAIN schedules : s[2] \in Kinds => schedules[s].interval \in IntervalsInUse
      /\ clock \in Nat /\ clock <= MaxClock
  BY DEF DispatchInv, SchedulesAreFine, TypeOK
<1>3. PICK new : new = [interval |-> Intervals[ProcOf[t]], nextRunAt |-> clock, enabled |-> TRUE]
  OBVIOUS
<1>4. new \in ScheduleRow /\ new.interval \in IntervalsInUse
  BY <1>1, <1>2, <1>3 DEF ScheduleRow
<1>5. ASSUME NEW s \in DOMAIN schedules
      PROVE  LET row == [schedules[s] EXCEPT !.interval = Intervals[ProcOf[t]], !.enabled = TRUE] IN
             /\ row \in ScheduleRow /\ row.interval \in IntervalsInUse
             /\ row.nextRunAt = schedules[s].nextRunAt
  <2>1. PICK i \in Nat \ {0} : i = Intervals[ProcOf[t]]
    BY <1>1
  <2>2. schedules[s] \in ScheduleRow
    BY <1>2
  <2>3. /\ [schedules[s] EXCEPT !.interval = i, !.enabled = TRUE] \in ScheduleRow
        /\ [schedules[s] EXCEPT !.interval = i, !.enabled = TRUE].interval = i
        /\ [schedules[s] EXCEPT !.interval = i, !.enabled = TRUE].nextRunAt = schedules[s].nextRunAt
    BY <2>2 DEF ScheduleRow
  <2> QED
    BY <1>1, <2>1, <2>3
<1>6. /\ DOMAIN schedules' = DOMAIN schedules \cup (Workspaces \X Kinds)
      /\ \A s \in DOMAIN schedules' : schedules'[s] \in ScheduleRow
      /\ \A s \in DOMAIN schedules' : s[2] \in Kinds => schedules'[s].interval \in IntervalsInUse
      /\ \A s \in DOMAIN schedules : schedules'[s].nextRunAt = schedules[s].nextRunAt
      /\ schedules' = [s \in DOMAIN schedules' |-> schedules'[s]]
  <2>1. PICK f : f = [s \in DOMAIN schedules |->
                        [schedules[s] EXCEPT !.interval = Intervals[ProcOf[t]], !.enabled = TRUE]]
    OBVIOUS
  <2>2. \A s \in DOMAIN schedules :
           f[s] \in ScheduleRow /\ f[s].interval \in IntervalsInUse
              /\ f[s].nextRunAt = schedules[s].nextRunAt
    BY <1>5, <2>1
  <2>3. schedules' = [s \in DOMAIN schedules \cup (Workspaces \X Kinds) |->
                        IF s \notin DOMAIN schedules THEN new
                        ELSE IF s[2] \in Kinds THEN f[s] ELSE schedules[s]]
    BY <1>3, <2>1 DEF Reconcile
  <2>4. PICK D : D = DOMAIN schedules \cup (Workspaces \X Kinds)
    OBVIOUS
  <2>5. DOMAIN schedules' = D /\ schedules' = [s \in D |-> schedules'[s]]
    BY <2>3, <2>4
  <2>6. \A s \in D : \/ s \notin DOMAIN schedules /\ schedules'[s] = new
                     \/ s \in DOMAIN schedules /\ s[2] \in Kinds /\ schedules'[s] = f[s]
                     \/ s \in DOMAIN schedules /\ s[2] \notin Kinds /\ schedules'[s] = schedules[s]
    BY <2>3, <2>4
  <2>7. \A s \in DOMAIN schedules : schedules[s] \in ScheduleRow
    BY <1>2
  <2> QED
    BY <1>4, <2>2, <2>4, <2>5, <2>6, <2>7
<1>7. SchedulesAreFine'
  <2>1. Workspaces \X Kinds \subseteq Schedule
    BY DEF Schedule
  <2> QED
    BY <1>2, <1>6, <2>1 DEF SchedulesAreFine
<1>8. SchedulesAdvance
  BY <1>2, <1>6 DEF SchedulesAdvance, ScheduleRow
<1>9. TypeOK' /\ JobsKeep /\ clock' = clock
  BY <1>1 DEF DispatchInv, TypeOK, JobsKeep, jobVars
<1>10. OccurrencesAreBehind' /\ OneJobPerOccurrence' /\ OccurrencesKeepTheirDistance'
  BY <1>7, <1>8, <1>9, OriginsCarry DEF DispatchInv
<1>11. TicksAreFine'
  <2>1. /\ step' \in [Ticks -> {"reconcile", "scan", "admit", "claim", "release"}]
        /\ tick' \in [Ticks -> {"idle", "working", "busy", "done", "crashed"}]
        /\ due' \in [Ticks -> SUBSET Read] /\ \A x \in Ticks : due'[x] \subseteq due[x]
    BY <1>1 DEF DispatchInv, TicksAreFine, leaseVars
  <2>2. clock' \in Nat /\ clock' >= clock /\ now' = now
    BY <1>1, <1>2
  <2> QED
    BY <1>6, <2>1, <2>2, TicksCarry DEF DispatchInv
<1>12. OneTickWorks'
  BY <1>1 DEF DispatchInv, OneTickWorks, leaseVars
<1> QED
  BY <1>2, <1>7, <1>8, <1>9, <1>10, <1>11, <1>12 DEF DispatchInv


(* What is read is due.                                                    *)
LEMMA ScanKeeps ==
  ASSUME DispatchInv, NEW t \in Ticks, Scan(t)
  PROVE  DispatchInv'
<1>1. /\ UNCHANGED <<clock, jobVars, leaseVars, schedules>>
      /\ now' = [now EXCEPT ![t] = clock] /\ step' = [step EXCEPT ![t] = "admit"]
      /\ due' = [due EXCEPT ![t] =
                   {[schedule |-> s, nextRunAt |-> schedules[s].nextRunAt,
                     interval |-> schedules[s].interval] :
                        s \in {x \in DOMAIN schedules :
                                 schedules[x].enabled /\ schedules[x].nextRunAt <= clock}}]
  BY DEF Scan
<1>2. /\ schedules \in [DOMAIN schedules -> ScheduleRow] /\ DOMAIN schedules \subseteq Schedule
      /\ \A s \in DOMAIN schedules : s[2] \in Kinds => schedules[s].interval \in IntervalsInUse
      /\ clock \in Nat /\ TicksAreFine
  BY DEF DispatchInv, SchedulesAreFine, TypeOK
<1>3. PICK D : D = {[schedule |-> s, nextRunAt |-> schedules[s].nextRunAt,
                     interval |-> schedules[s].interval] :
                        s \in {x \in DOMAIN schedules :
                                 schedules[x].enabled /\ schedules[x].nextRunAt <= clock}}
  OBVIOUS
<1>4. \A c \in D : /\ c \in Read /\ c.schedule \in DOMAIN schedules /\ c.nextRunAt <= clock
                   /\ c.schedule[2] \in Kinds => c.interval \in IntervalsInUse
  BY <1>2, <1>3 DEF Read, ScheduleRow
<1>5. TicksAreFine'
  <2>1. due' = [due EXCEPT ![t] = D]
    BY <1>1, <1>3
  <2>2. due' \in [Ticks -> SUBSET Read] /\ due'[t] = D /\ \A u \in Ticks : u # t => due'[u] = due[u]
    BY <1>2, <1>4, <2>1 DEF TicksAreFine
  <2>3. /\ now' \in [Ticks -> Nat] /\ now'[t] = clock /\ \A u \in Ticks : u # t => now'[u] = now[u]
        /\ \A u \in Ticks : now'[u] <= clock
    BY <1>1, <1>2 DEF TicksAreFine
  <2>4. /\ tick' \in [Ticks -> {"idle", "working", "busy", "done", "crashed"}]
        /\ step' \in [Ticks -> {"reconcile", "scan", "admit", "claim", "release"}]
        /\ clock' = clock /\ schedules' = schedules
    BY <1>1, <1>2 DEF TicksAreFine, leaseVars
  <2>5. \A u \in Ticks : \A c \in due'[u] :
           /\ c.schedule \in DOMAIN schedules /\ c.nextRunAt <= now'[u]
           /\ c.schedule[2] \in Kinds => c.interval \in IntervalsInUse
    <3> SUFFICES ASSUME NEW u \in Ticks, NEW c \in due'[u]
                 PROVE  /\ c.schedule \in DOMAIN schedules /\ c.nextRunAt <= now'[u]
                        /\ c.schedule[2] \in Kinds => c.interval \in IntervalsInUse
      OBVIOUS
    <3>1. CASE u = t
      BY <1>4, <2>2, <2>3, <3>1
    <3>2. CASE u # t
      BY <1>2, <2>2, <2>3, <3>2 DEF TicksAreFine
    <3> QED
      BY <3>1, <3>2
  <2> QED
    BY <2>2, <2>3, <2>4, <2>5 DEF TicksAreFine
<1>6. TypeOK' /\ JobsKeep
  BY <1>1 DEF DispatchInv, TypeOK, JobsKeep, jobVars
<1>7. SchedulesAreFine' /\ SchedulesAdvance
  <2>1. \A s \in DOMAIN schedules : schedules[s].nextRunAt \in Nat
    BY <1>2 DEF ScheduleRow
  <2> QED
    BY <1>1, <2>1 DEF DispatchInv, SchedulesAreFine, SchedulesAdvance
<1>8. OccurrencesAreBehind' /\ OneJobPerOccurrence' /\ OccurrencesKeepTheirDistance'
  BY <1>6, <1>7, OriginsCarry DEF DispatchInv
<1>9. OneTickWorks' /\ clock' <= MaxClock
  BY <1>1 DEF DispatchInv, OneTickWorks, leaseVars
<1> QED
  BY <1>5, <1>6, <1>7, <1>8, <1>9 DEF DispatchInv

(* A due row is disabled, admitted or found to have moved.                 *)
LEMMA HandleKeeps ==
  ASSUME DispatchInv, NEW t \in Ticks, Handle(t)
  PROVE  DispatchInv' /\ SchedulesAdvance
<1>1. PICK c \in due[t] :
        /\ Disable(t, c) \/ Admit(t, c) \/ Skip(t, c)
        /\ due' = [due EXCEPT ![t] = @ \ {c}]
  BY DEF Handle
<1>2. UNCHANGED <<clock, lastDispatched, execs, failures, leaseVars, step, now>>
  BY DEF Handle
<1>3. /\ schedules \in [DOMAIN schedules -> ScheduleRow] /\ DOMAIN schedules \subseteq Schedule
      /\ \A s \in DOMAIN schedules : schedules[s].nextRunAt \in Nat
      /\ TypeOK /\ clock \in Nat
  BY DEF DispatchInv, SchedulesAreFine, ScheduleRow, TypeOK
<1>4. /\ SchedulesAreFine' /\ SchedulesAdvance /\ DOMAIN schedules' = DOMAIN schedules
      /\ TypeOK'
      /\ OccurrencesAreBehind' /\ OneJobPerOccurrence' /\ OccurrencesKeepTheirDistance'
  <2>1. CASE Admit(t, c)
    BY <1>2, <2>1, AdmitInserts, AdmitKeeps
  <2>2. ASSUME DOMAIN schedules' = DOMAIN schedules, SchedulesAreFine', SchedulesAdvance, jobs' = jobs
        PROVE  /\ TypeOK'
               /\ OccurrencesAreBehind' /\ OneJobPerOccurrence' /\ OccurrencesKeepTheirDistance'
    <3>1. TypeOK' /\ JobsKeep
      BY <1>2, <1>3, <2>2 DEF TypeOK, JobsKeep
    <3> QED
      BY <2>2, <3>1, OriginsCarry DEF DispatchInv
  <2>3. CASE Skip(t, c)
    <3>1. jobs' = jobs /\ schedules' = schedules
      BY <2>3 DEF Skip
    <3>2. DOMAIN schedules' = DOMAIN schedules /\ SchedulesAreFine' /\ SchedulesAdvance
      BY <1>3, <3>1 DEF DispatchInv, SchedulesAreFine, SchedulesAdvance
    <3> QED
      BY <2>2, <3>1, <3>2
  <2>4. CASE Disable(t, c)
    <3>1. jobs' = jobs /\ schedules' = [schedules EXCEPT ![c.schedule].enabled = FALSE]
      BY <2>4 DEF Disable
    <3>2. /\ DOMAIN schedules' = DOMAIN schedules /\ schedules' \in [DOMAIN schedules -> ScheduleRow]
          /\ \A s \in DOMAIN schedules :
                /\ schedules'[s].nextRunAt = schedules[s].nextRunAt
                /\ schedules'[s].interval = schedules[s].interval
      <4>1. PICK s : s = c.schedule
        OBVIOUS
      <4>2. s \in DOMAIN schedules
        BY <4>1 DEF DispatchInv, TicksAreFine
      <4>3. PICK row : row = [schedules[s] EXCEPT !.enabled = FALSE]
        OBVIOUS
      <4>4. /\ row \in ScheduleRow /\ row.nextRunAt = schedules[s].nextRunAt
            /\ row.interval = schedules[s].interval
        BY <1>3, <4>2, <4>3 DEF ScheduleRow
      <4>5. schedules' = [schedules EXCEPT ![s] = row]
        BY <3>1, <4>1, <4>3
      <4> QED
        BY <1>3, <4>2, <4>4, <4>5
    <3>3. SchedulesAreFine'
      BY <1>3, <3>2 DEF DispatchInv, SchedulesAreFine
    <3>4. SchedulesAdvance
      BY <1>3, <3>2 DEF SchedulesAdvance
    <3> QED
      BY <2>2, <3>1, <3>2, <3>3, <3>4
  <2> QED
    BY <1>1, <2>1, <2>3, <2>4
<1>5. TicksAreFine'
  <2>1. /\ due \in [Ticks -> SUBSET Read]
        /\ step' \in [Ticks -> {"reconcile", "scan", "admit", "claim", "release"}]
        /\ tick' \in [Ticks -> {"idle", "working", "busy", "done", "crashed"}]
    BY <1>2 DEF DispatchInv, TicksAreFine, leaseVars
  <2>2. due' \in [Ticks -> SUBSET Read] /\ \A x \in Ticks : due'[x] \subseteq due[x]
    BY <1>1, <2>1
  <2>3. clock' \in Nat /\ clock' >= clock /\ now' = now
    BY <1>2, <1>3
  <2> QED
    BY <1>3, <1>4, <2>1, <2>2, <2>3, TicksCarry DEF DispatchInv
<1>6. OneTickWorks' /\ clock' <= MaxClock
  BY <1>2 DEF DispatchInv, OneTickWorks, leaseVars
<1> QED
  BY <1>4, <1>5, <1>6 DEF DispatchInv

(* The other steps of a tick, its process and its executions.              *)
LEMMA OtherStepsKeep ==
  ASSUME DispatchInv,
         \/ \E t \in Ticks : AllHandled(t) \/ ClaimBatch(t) \/ Release(t)
         \/ \E p \in Procs : Die(p)
         \/ Execute
         \/ TimePasses
  PROVE  DispatchInv' /\ UNCHANGED schedules
<1>1. /\ tick \in [Ticks -> {"idle", "working", "busy", "done", "crashed"}]
      /\ step \in [Ticks -> {"reconcile", "scan", "admit", "claim", "release"}]
      /\ TypeOK /\ clock \in Nat /\ clock <= MaxClock /\ OneTickWorks
  BY DEF DispatchInv, TicksAreFine, TypeOK
<1>2. ASSUME UNCHANGED jobVars, UNCHANGED clock PROVE TypeOK' /\ JobsKeep /\ clock' \in clock..MaxClock
  BY <1>1, <1>2 DEF TypeOK, JobsKeep, jobVars
<1>3. ASSUME UNCHANGED tick PROVE OneTickWorks'
  BY <1>1, <1>3 DEF OneTickWorks
<1>4. ASSUME NEW t \in Ticks, AllHandled(t) PROVE DispatchInv' /\ UNCHANGED schedules
  <2>1. UNCHANGED <<clock, jobVars, tick, schedules, now, due>> /\ step' = [step EXCEPT ![t] = "claim"]
    BY <1>4 DEF AllHandled, leaseVars
  <2> QED
    BY <1>1, <1>2, <1>3, <2>1, QuietStepKeeps
<1>5. ASSUME NEW t \in Ticks, ClaimBatch(t) PROVE DispatchInv' /\ UNCHANGED schedules
  <2>1. /\ UNCHANGED <<tick, schedules, now, due>> /\ step' = [step EXCEPT ![t] = "release"]
        /\ UNCHANGED <<clock, jobVars>> \/ Claim(ProcOf[t])
        /\ ProcOf[t] \in Procs
    BY <1>5 DEF ClaimBatch, leaseVars
  <2>2. TypeOK' /\ JobsKeep /\ clock' \in clock..MaxClock
    <3>1. CASE UNCHANGED <<clock, jobVars>>
      BY <1>2, <3>1
    <3>2. CASE Claim(ProcOf[t])
      <4>1. Next
        BY <2>1, <3>2 DEF Next
      <4>2. clock' = clock
        BY <3>2 DEF Claim, Grant
      <4> QED
        BY <1>1, <2>1, <3>2, <4>1, <4>2, TypeStep, ClaimKeeps
    <3> QED
      BY <2>1, <3>1, <3>2
  <2> QED
    BY <1>1, <1>3, <2>1, <2>2, QuietStepKeeps
<1>6. ASSUME NEW t \in Ticks, Release(t) PROVE DispatchInv' /\ UNCHANGED schedules
  <2>1. UNCHANGED <<clock, jobVars, schedules, step, now, due>> /\ tick' = [tick EXCEPT ![t] = "done"]
    BY <1>6 DEF Release, Dispatcher!Finish, tickVars
  <2>2. OneTickWorks'
    BY <1>1, <2>1 DEF OneTickWorks
  <2> QED
    BY <1>1, <1>2, <2>1, <2>2, QuietStepKeeps
<1>7. ASSUME NEW p \in Procs, Die(p) PROVE DispatchInv' /\ UNCHANGED schedules
  <2>1. /\ UNCHANGED <<clock, jobs, lastDispatched, failures, schedules, step, now, due>>
        /\ tick' = [t \in Ticks |->
                      IF ProcOf[t] = p /\ tick[t] = "working" THEN "crashed" ELSE tick[t]]
        /\ execs' \subseteq execs
    BY <1>7 DEF Die, tickVars
  <2>2. OneTickWorks' /\ tick' \in [Ticks -> {"idle", "working", "busy", "done", "crashed"}]
    BY <1>1, <2>1 DEF OneTickWorks
  <2>3. TypeOK' /\ JobsKeep /\ clock' \in clock..MaxClock
    BY <1>1, <2>1 DEF TypeOK, JobsKeep
  <2> QED
    BY <1>1, <2>1, <2>2, <2>3, QuietStepKeeps
<1>8. ASSUME Execute PROVE DispatchInv' /\ UNCHANGED schedules
  <2>1. UNCHANGED <<tick, schedules, step, now, due>>
    BY <1>8 DEF Execute, leaseVars, tickVars
  <2>2. TypeOK' /\ JobsKeep /\ clock' \in clock..MaxClock
    <3>1. CASE \E e \in execs : Step(e)
      <4>1. PICK e \in execs : Step(e)
        BY <3>1
      <4>2. Next /\ JobsKeep
        BY <1>1, <4>1, StepKeeps DEF Next
      <4>3. clock' = clock
        BY <4>1 DEF Step, Heartbeat, Complete, DeadLetter, Retry, Abandon, Settle
      <4> QED
        BY <1>1, <4>2, <4>3, TypeStep
    <3>2. CASE \E p \in Procs : Shutdown(p)
      <4>1. Next
        BY <3>2 DEF Next
      <4>2. clock' = clock /\ jobs' = jobs
        BY <3>2 DEF Shutdown
      <4> QED
        BY <1>1, <4>1, <4>2, TypeStep DEF JobsKeep
    <3> QED
      BY <1>8, <3>1, <3>2 DEF Execute
  <2> QED
    BY <1>1, <1>3, <2>1, <2>2, QuietStepKeeps
<1>9. ASSUME TimePasses PROVE DispatchInv' /\ UNCHANGED schedules
  <2>1. Next /\ UNCHANGED <<tick, schedules, step, now, due>>
    BY <1>9 DEF TimePasses, Next, leaseVars, tickVars
  <2>2. clock' \in clock..MaxClock /\ JobsKeep
    BY <1>1, <1>9 DEF TimePasses, Tick, JobsKeep
  <2> QED
    BY <1>1, <1>3, <2>1, <2>2, TypeStep, QuietStepKeeps
<1> QED
  BY <1>4, <1>5, <1>6, <1>7, <1>8, <1>9


(* DispatchInv is inductive, and no schedule ever moves back.              *)
LEMMA DispatchStep ==
  DispatchInv /\ [DispatchNext]_dispatchVars => DispatchInv' /\ SchedulesAdvance
<1> SUFFICES ASSUME DispatchInv, [DispatchNext]_dispatchVars PROVE DispatchInv' /\ SchedulesAdvance
  OBVIOUS
<1>1. UNCHANGED schedules => SchedulesAdvance
  BY DEF DispatchInv, SchedulesAreFine, ScheduleRow, SchedulesAdvance
<1>2. ASSUME NEW t \in Ticks, Begin(t) PROVE DispatchInv' /\ SchedulesAdvance
  BY <1>1, <1>2, BeginKeeps DEF Begin
<1>3. ASSUME NEW t \in Ticks, Reconcile(t) PROVE DispatchInv' /\ SchedulesAdvance
  BY <1>3, ReconcileKeeps
<1>4. ASSUME NEW t \in Ticks, Scan(t) PROVE DispatchInv' /\ SchedulesAdvance
  BY <1>1, <1>4, ScanKeeps DEF Scan
<1>5. ASSUME NEW t \in Ticks, Handle(t) PROVE DispatchInv' /\ SchedulesAdvance
  BY <1>5, HandleKeeps
<1>6. ASSUME \/ \E t \in Ticks : AllHandled(t) \/ ClaimBatch(t) \/ Release(t)
             \/ \E p \in Procs : Die(p)
             \/ Execute
             \/ TimePasses
      PROVE  DispatchInv' /\ SchedulesAdvance
  BY <1>1, <1>6, OtherStepsKeep
<1>7. CASE UNCHANGED dispatchVars
  <2>1. UNCHANGED <<clock, jobVars, tick, schedules, step, now, due>>
    BY <1>7 DEF dispatchVars, leaseVars, tickVars
  <2>2. TypeOK' /\ JobsKeep /\ clock' \in clock..MaxClock /\ OneTickWorks'
    BY <2>1 DEF DispatchInv, TypeOK, JobsKeep, OneTickWorks, jobVars
  <2>3. /\ tick \in [Ticks -> {"idle", "working", "busy", "done", "crashed"}]
        /\ step \in [Ticks -> {"reconcile", "scan", "admit", "claim", "release"}]
    BY DEF DispatchInv, TicksAreFine
  <2> QED
    BY <1>1, <2>1, <2>2, <2>3, QuietStepKeeps
<1> QED
  BY <1>2, <1>3, <1>4, <1>5, <1>6, <1>7 DEF DispatchNext

(* Before the first tick there are no jobs, and only retired schedules.    *)
LEMMA DispatchStart == DispatchInit => DispatchInv
<1> SUFFICES ASSUME DispatchInit PROVE DispatchInv
  OBVIOUS
<1>1. /\ clock = 0 /\ jobs = [j \in {} |-> {}] /\ Init
      /\ schedules = [s \in Workspaces \X RetiredKinds |->
                        [interval |-> 1, nextRunAt |-> LegacyAt, enabled |-> TRUE]]
      /\ tick = [t \in Ticks |-> "idle"] /\ step = [t \in Ticks |-> "reconcile"]
      /\ now = [t \in Ticks |-> 0] /\ due = [t \in Ticks |-> {}]
  BY DEF DispatchInit, Init, Dispatcher!Init
<1>2. TypeOK /\ clock <= MaxClock
  BY <1>1, TypeInit
<1>3. SchedulesAreFine
  <2>1. [interval |-> 1, nextRunAt |-> LegacyAt, enabled |-> TRUE] \in ScheduleRow
    BY DEF ScheduleRow
  <2>2. \A s \in Workspaces \X RetiredKinds : s \in Schedule /\ s[2] \notin Kinds
    BY DEF Schedule
  <2> QED
    BY <1>1, <2>1, <2>2 DEF SchedulesAreFine
<1>4. TicksAreFine /\ OneTickWorks
  BY <1>1 DEF TicksAreFine, OneTickWorks
<1>5. OccurrencesAreBehind /\ OneJobPerOccurrence /\ OccurrencesKeepTheirDistance
  BY <1>1 DEF OccurrencesAreBehind, OneJobPerOccurrence, OccurrencesKeepTheirDistance
<1> QED
  BY <1>2, <1>3, <1>4, <1>5 DEF DispatchInv

(* The invariant holds in every state of every dispatch history.           *)
THEOREM DispatchInvariance == DispatchSpec => []DispatchInv
  BY DispatchStart, DispatchStep, PTL DEF DispatchSpec

(* An occurrence of a schedule is admitted at most once in the whole       *)
(* history, whatever ticks overlap.                                        *)
THEOREM OneJobEach == DispatchSpec => []OneJobPerOccurrence
<1>1. DispatchInv => OneJobPerOccurrence
  BY DEF DispatchInv
<1> QED
  BY <1>1, DispatchInvariance, PTL

(* Occurrences are admitted at their time or later and keep the distance   *)
(* of some configured interval.                                            *)
THEOREM OccurrencesAreSpaced == DispatchSpec => []OccurrencesKeepTheirDistance
<1>1. DispatchInv => OccurrencesKeepTheirDistance
  BY DEF DispatchInv
<1> QED
  BY <1>1, DispatchInvariance, PTL

(* A schedule advances only together with the job of the occurrence it     *)
(* leaves behind.                                                          *)
THEOREM NothingIsSkipped == DispatchSpec => NoOccurrenceLost
<1>1. DispatchInv /\ [DispatchNext]_dispatchVars =>
        [\A s \in DOMAIN schedules :
            /\ s \in DOMAIN schedules'
            /\ schedules'[s].nextRunAt >= schedules[s].nextRunAt
            /\ schedules'[s].nextRunAt # schedules[s].nextRunAt =>
                  \E j \in DOMAIN jobs' : jobs'[j].key = <<s, schedules[s].nextRunAt>>]_dispatchVars
  <2> SUFFICES ASSUME DispatchInv, DispatchNext, NEW s \in DOMAIN schedules
               PROVE  /\ s \in DOMAIN schedules'
                      /\ schedules'[s].nextRunAt >= schedules[s].nextRunAt
                      /\ schedules'[s].nextRunAt # schedules[s].nextRunAt =>
                            \E j \in DOMAIN jobs' :
                               jobs'[j].key = <<s, schedules[s].nextRunAt>>
    OBVIOUS
  <2>1. s \in DOMAIN schedules' /\ schedules'[s].nextRunAt >= schedules[s].nextRunAt
    BY DispatchStep DEF SchedulesAdvance
  <2> SUFFICES ASSUME schedules'[s].nextRunAt # schedules[s].nextRunAt
               PROVE  \E j \in DOMAIN jobs' : jobs'[j].key = <<s, schedules[s].nextRunAt>>
    BY <2>1
  <2>2. schedules \in [DOMAIN schedules -> ScheduleRow]
    BY DEF DispatchInv, SchedulesAreFine
  <2>3. PICK t \in Ticks : Reconcile(t) \/ Handle(t)
    <3>1. UNCHANGED schedules => FALSE
      OBVIOUS
    <3>2. ASSUME NEW t \in Ticks, Begin(t) \/ Scan(t) PROVE UNCHANGED schedules
      BY <3>2 DEF Begin, Scan
    <3>3. ASSUME \/ \E t \in Ticks : AllHandled(t) \/ ClaimBatch(t) \/ Release(t)
                 \/ \E p \in Procs : Die(p)
                 \/ Execute
                 \/ TimePasses
          PROVE  UNCHANGED schedules
      BY <3>3, OtherStepsKeep
    <3> QED
      BY <3>1, <3>2, <3>3 DEF DispatchNext
  <2>4. CASE Reconcile(t)
    <3>1. schedules'[s].nextRunAt = schedules[s].nextRunAt
      <4>1. schedules[s] \in ScheduleRow /\ Intervals[ProcOf[t]] \in Nat
        BY <2>2
      <4>2. schedules'[s] \in
               {schedules[s], [schedules[s] EXCEPT !.interval = Intervals[ProcOf[t]], !.enabled = TRUE]}
        BY <2>4 DEF Reconcile
      <4> QED
        BY <4>1, <4>2 DEF ScheduleRow
    <3> QED
      BY <3>1
  <2>5. CASE Handle(t)
    <3>1. PICK c \in due[t] : Disable(t, c) \/ Admit(t, c) \/ Skip(t, c)
      BY <2>5 DEF Handle
    <3>2. CASE Admit(t, c)
      <4>1. PICK m \in Attempts : Insert(c.schedule[2], c.schedule[1], <<c.schedule, c.nextRunAt>>, 0, m, now[t])
        BY <3>2, AdmitInserts
      <4>2. \E j \in DOMAIN jobs' : jobs'[j].key = <<c.schedule, c.nextRunAt>>
        BY <4>1 DEF Insert
      <4>3. /\ schedules[c.schedule].nextRunAt = c.nextRunAt
            /\ \A x \in DOMAIN schedules : x # c.schedule => schedules'[x] = schedules[x]
        BY <3>2, AdmitInserts
      <4>4. s = c.schedule
        BY <4>3
      <4> QED
        BY <4>2, <4>3, <4>4
    <3>3. CASE Skip(t, c)
      BY <3>3 DEF Skip
    <3>4. CASE Disable(t, c)
      <4>1. schedules' = [schedules EXCEPT ![c.schedule].enabled = FALSE]
        BY <3>4 DEF Disable
      <4>2. schedules[s] \in ScheduleRow
        BY <2>2
      <4>3. schedules'[s] \in {schedules[s], [schedules[s] EXCEPT !.enabled = FALSE]}
        BY <4>1
      <4> QED
        BY <4>2, <4>3 DEF ScheduleRow
    <3> QED
      BY <3>1, <3>2, <3>3, <3>4
  <2> QED
    BY <2>3, <2>4, <2>5
<1> QED
  BY <1>1, DispatchInvariance, PTL DEF DispatchSpec, NoOccurrenceLost

(***************************************************************************)
(* Refinement: the dispatch phases are calls of withTaskLease.             *)
(***************************************************************************)

(* Every step is a step of TaskLease or leaves its variables alone.  A     *)
(* process that dies takes one call with it, because it serves no more.    *)
THEOREM DispatchUsesTheLease == DispatchSpec => ImplementsTaskLease
<1>1. DispatchInit => Dispatcher!Init
  BY DEF DispatchInit
<1>2. DispatchInv /\ [DispatchNext]_dispatchVars => [Dispatcher!Next]_(Dispatcher!vars)
  <2> SUFFICES ASSUME DispatchInv, [DispatchNext]_dispatchVars
               PROVE  Dispatcher!Next \/ UNCHANGED Dispatcher!vars
    OBVIOUS
  <2>1. ASSUME UNCHANGED <<clock, lease, tick, token, leaseAborted>>
        PROVE  UNCHANGED Dispatcher!vars
    BY <2>1 DEF Dispatcher!vars
  <2>2. ASSUME NEW t \in Ticks, Begin(t) PROVE Dispatcher!Next
    BY <2>2 DEF Begin, Dispatcher!Next
  <2>3. ASSUME NEW t \in Ticks, Release(t) PROVE Dispatcher!Next
    BY <2>3 DEF Release, Dispatcher!Next
  <2>4. ASSUME NEW t \in Ticks, Reconcile(t) \/ Scan(t) \/ Handle(t) \/ AllHandled(t)
        PROVE  UNCHANGED <<clock, lease, tick, token, leaseAborted>>
    BY <2>4 DEF Reconcile, Scan, Handle, AllHandled, leaseVars
  <2>5. ASSUME NEW t \in Ticks, ClaimBatch(t)
        PROVE  UNCHANGED <<clock, lease, tick, token, leaseAborted>>
    BY <2>5 DEF ClaimBatch, Claim, Grant, leaseVars
  <2>6. ASSUME NEW p \in Procs, Die(p) PROVE Dispatcher!Next \/ UNCHANGED Dispatcher!vars
    <3>1. /\ UNCHANGED <<clock, lease, token, leaseAborted>>
          /\ tick' = [t \in Ticks |->
                        IF ProcOf[t] = p /\ tick[t] = "working" THEN "crashed" ELSE tick[t]]
      BY <2>6 DEF Die
    <3>2. /\ tick \in [Ticks -> {"idle", "working", "busy", "done", "crashed"}] /\ OneTickWorks
      BY DEF DispatchInv, TicksAreFine
    <3>3. CASE \E t \in Ticks : ProcOf[t] = p /\ tick[t] = "working"
      <4>1. PICK t \in Ticks : ProcOf[t] = p /\ tick[t] = "working"
        BY <3>3
      <4>2. tick' = [tick EXCEPT ![t] = "crashed"]
        BY <3>1, <3>2, <4>1 DEF OneTickWorks
      <4>3. Dispatcher!Crash(t)
        BY <3>1, <4>1, <4>2 DEF Dispatcher!Crash
      <4> QED
        BY <4>3 DEF Dispatcher!Next
    <3>4. CASE ~\E t \in Ticks : ProcOf[t] = p /\ tick[t] = "working"
      <4>1. tick' = tick
        BY <3>1, <3>2, <3>4
      <4> QED
        BY <2>1, <3>1, <4>1
    <3> QED
      BY <3>3, <3>4
  <2>7. ASSUME Execute PROVE UNCHANGED <<clock, lease, tick, token, leaseAborted>>
    <3>1. UNCHANGED clock
      BY <2>7 DEF Execute, Shutdown, Step, Heartbeat, Complete, DeadLetter, Retry, Abandon, Settle
    <3> QED
      BY <2>7, <3>1 DEF Execute, leaseVars
  <2>8. ASSUME TimePasses PROVE Dispatcher!Next
    BY <2>8 DEF TimePasses, Tick, leaseVars, Dispatcher!Next, Dispatcher!Tick
  <2>9. CASE UNCHANGED dispatchVars
    BY <2>1, <2>9 DEF dispatchVars, leaseVars
  <2> QED
    BY <2>1, <2>2, <2>3, <2>4, <2>5, <2>6, <2>7, <2>8, <2>9 DEF DispatchNext
<1> QED
  BY <1>1, <1>2, DispatchInvariance, PTL DEF DispatchSpec, ImplementsTaskLease, Dispatcher!Spec
===========================================================================
