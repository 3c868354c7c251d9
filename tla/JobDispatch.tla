---------------------------- MODULE JobDispatch ----------------------------
(***************************************************************************)
(* A tick of the queue (runBackgroundJobTick in                            *)
(* apps/api/src/services/background-job-runner.ts): under the dispatcher   *)
(* lease it reconciles the schedules, admits the due ones as jobs          *)
(* (background-schedules.ts), claims a batch, and only then, the lease     *)
(* released, executes it.  The module composes TaskLease (the row with key *)
(* "background-jobs:dispatcher") and BackgroundJobs with the               *)
(* background_schedules table; they share the database clock.              *)
(*                                                                         *)
(* Within its process a tick runs to its end without yielding, so its      *)
(* lease is never renewed.  Ticks of other processes interleave with its   *)
(* transactions, all the more when it stalls for longer than the lease.    *)
(***************************************************************************)
EXTENDS BackgroundJobs

CONSTANTS
    Ticks,          \* calls of the tick route
    ProcOf,         \* ProcOf[t]: the API process that serves tick t
    Kinds,          \* BACKGROUND_RECURRING_JOB_KINDS
    RetiredKinds,   \* kinds of schedules written by another version
    Intervals,      \* Intervals[p]: the interval process p is configured with
    NoLease,
    LegacyAt        \* nextRunAt of the schedules of retired kinds

ASSUME DispatchAssumption ==
    /\ ProcOf \in [Ticks -> Procs]
    /\ Intervals \in [Procs -> Nat \ {0}]
    /\ LegacyAt \in Nat
    /\ Kinds \cap RetiredKinds = {}
    /\ Kinds \subseteq JobKinds
(* An occurrence makes an idempotency key, and its job has priority 0.     *)
ASSUME OccurrencesAssumption ==
    (Workspaces \X Kinds) \X (0..MaxClock) \subseteq Keys /\ 0 \in Priorities

VARIABLES
    lease, tick, token, leaseAborted,   \* the variables of TaskLease
    schedules,  \* background_schedules: a function from <<workspace, kind>> to rows
    step,       \* step[t]: what tick t does next while it works
    now,        \* now[t]: the time admitDueBackgroundSchedules read
    due         \* due[t]: the rows it selected and has not handled yet

leaseVars == <<lease, tick, token, leaseAborted>>
jobVars == <<jobs, lastDispatched, execs, failures>>
tickVars == <<step, now, due>>
dispatchVars == <<clock, jobVars, leaseVars, schedules, tickVars>>

(* Each tick makes up an owner of its own: instance id and a random UUID.  *)
Dispatcher == INSTANCE TaskLease WITH
    Calls <- Ticks, Owners <- Ticks, OwnerOf <- [t \in Ticks |-> t],
    pc <- tick, aborted <- leaseAborted

Schedule == Workspaces \X (Kinds \cup RetiredKinds)

DispatchInit ==
    /\ Init
    /\ Dispatcher!Init
    /\ schedules = [s \in Workspaces \X RetiredKinds |->
                      [interval |-> 1, nextRunAt |-> LegacyAt, enabled |-> TRUE]]
    /\ step = [t \in Ticks |-> "reconcile"]
    /\ now = [t \in Ticks |-> 0]
    /\ due = [t \in Ticks |-> {}]

Working(t, s) == tick[t] = "working" /\ step[t] = s

(* No tick of process p is inside its dispatch phase.                      *)
Yielding(p) == \A t \in Ticks : ProcOf[t] = p => tick[t] # "working"

(* Mutant of Begin: a busy dispatcher lease does not keep the tick out.     *)
BeginAnyway(t) ==
    /\ Yielding(ProcOf[t])
    /\ tick[t] = "idle"
    /\ tick' = [tick EXCEPT ![t] = "working"]
    /\ UNCHANGED <<clock, jobVars, lease, token, leaseAborted, schedules, tickVars>>

Begin(t) ==
    /\ Yielding(ProcOf[t])
    /\ Dispatcher!Claim(t) \/ Dispatcher!Busy(t)
    /\ UNCHANGED <<jobVars, schedules, tickVars>>

(* reconcileBackgroundSchedules: missing schedules are due at once, known  *)
(* ones take this process's interval and are enabled.                      *)
Reconcile(t) ==
    /\ Working(t, "reconcile")
    /\ schedules' =
          [s \in DOMAIN schedules \cup (Workspaces \X Kinds) |->
             IF s \notin DOMAIN schedules
             THEN [interval |-> Intervals[ProcOf[t]], nextRunAt |-> clock, enabled |-> TRUE]
             ELSE IF s[2] \in Kinds
             THEN [schedules[s] EXCEPT !.interval = Intervals[ProcOf[t]], !.enabled = TRUE]
             ELSE schedules[s]]
    /\ step' = [step EXCEPT ![t] = "scan"]
    /\ UNCHANGED <<clock, jobVars, leaseVars, now, due>>

(* The SELECT of the due schedules.  Rows and time are used later as read. *)
Scan(t) ==
    /\ Working(t, "scan")
    /\ now' = [now EXCEPT ![t] = clock]
    /\ due' = [due EXCEPT ![t] =
          {[schedule |-> s, nextRunAt |-> schedules[s].nextRunAt,
            interval |-> schedules[s].interval] :
              s \in {x \in DOMAIN schedules :
                       schedules[x].enabled /\ schedules[x].nextRunAt <= clock}}]
    /\ step' = [step EXCEPT ![t] = "admit"]
    /\ UNCHANGED <<clock, jobVars, leaseVars, schedules>>

(* A due schedule of a kind this version does not know is disabled.        *)
Disable(t, c) ==
    /\ c.schedule[2] \notin Kinds
    /\ schedules' = [schedules EXCEPT ![c.schedule].enabled = FALSE]
    /\ UNCHANGED jobs

(* Mutant of NextBoundary: the grid of the schedule is ignored.            *)
RightAfter(c, at) == at + 1

NextBoundary(c, at) ==
    c.nextRunAt + ((at - c.nextRunAt) \div c.interval + 1) * c.interval

(* Mutant of Unmoved: the row is only required to be enabled.              *)
StillEnabled(c) == schedules[c.schedule].enabled

(* The UPDATE of the admission matches: nobody advanced the row meanwhile. *)
Unmoved(c) ==
    /\ schedules[c.schedule].enabled
    /\ schedules[c.schedule].nextRunAt = c.nextRunAt

(* One transaction advances the schedule and enqueues the occurrence.      *)
Occurrence(c) == <<c.schedule, c.nextRunAt>>

(* Mutant of Admit: the schedule advances although its workspace is busy   *)
(* and the occurrence is dropped.                                          *)
AdmitUnlessBusy(t, c) ==
    /\ c.schedule[2] \in Kinds
    /\ Unmoved(c)
    /\ schedules' = [schedules EXCEPT ![c.schedule].nextRunAt = NextBoundary(c, now[t])]
    /\ \E m \in Attempts :
          IF \E j \in DOMAIN jobs : jobs[j].activeKey /\ jobs[j].workspace = c.schedule[1]
          THEN UNCHANGED jobs
          ELSE Insert(c.schedule[2], c.schedule[1], Occurrence(c), 0, m, now[t])

Admit(t, c) ==
    /\ c.schedule[2] \in Kinds
    /\ Unmoved(c)
    /\ schedules' = [schedules EXCEPT ![c.schedule].nextRunAt = NextBoundary(c, now[t])]
    /\ \E m \in Attempts :
          IF \E j \in DOMAIN jobs : HoldsKey(j, c.schedule[1], Occurrence(c))
          THEN UNCHANGED jobs
          ELSE Insert(c.schedule[2], c.schedule[1], Occurrence(c), 0, m, now[t])

(* Another tick admitted it: the transaction changes nothing.              *)
Skip(t, c) ==
    /\ c.schedule[2] \in Kinds
    /\ ~Unmoved(c)
    /\ UNCHANGED <<schedules, jobs>>

Handle(t) ==
    /\ Working(t, "admit")
    /\ \E c \in due[t] :
          /\ Disable(t, c) \/ Admit(t, c) \/ Skip(t, c)
          /\ due' = [due EXCEPT ![t] = @ \ {c}]
    /\ UNCHANGED <<clock, lastDispatched, execs, failures, leaseVars, step, now>>

AllHandled(t) ==
    /\ Working(t, "admit")
    /\ due[t] = {}
    /\ step' = [step EXCEPT ![t] = "claim"]
    /\ UNCHANGED <<clock, jobVars, leaseVars, schedules, now, due>>

ClaimBatch(t) ==
    /\ Working(t, "claim")
    /\ IF Batch(ProcOf[t]) = {} THEN UNCHANGED <<clock, jobVars>> ELSE Claim(ProcOf[t])
    /\ step' = [step EXCEPT ![t] = "release"]
    /\ UNCHANGED <<leaseVars, schedules, now, due>>

Release(t) ==
    /\ Working(t, "release")
    /\ Dispatcher!Finish(t)
    /\ UNCHANGED <<jobVars, schedules, tickVars>>

(* A process dies with the tick it serves and its executions.              *)
Die(p) ==
    /\ ~Yielding(p) \/ \E e \in execs : e.owner = p
    /\ tick' = [t \in Ticks |->
                  IF ProcOf[t] = p /\ tick[t] = "working" THEN "crashed" ELSE tick[t]]
    /\ execs' = {e \in execs : e.owner # p}
    /\ UNCHANGED <<clock, jobs, lastDispatched, failures, lease, token, leaseAborted,
                   schedules, tickVars>>

Execute ==
    /\ \/ \E e \in execs : Yielding(e.owner) /\ Step(e)
       \/ \E p \in Procs : Yielding(p) /\ Shutdown(p)
    /\ UNCHANGED <<leaseVars, schedules, tickVars>>

TimePasses == Tick /\ UNCHANGED <<leaseVars, schedules, tickVars>>

DispatchNext ==
    \/ \E t \in Ticks :
          \/ Begin(t) \/ Reconcile(t) \/ Scan(t) \/ Handle(t) \/ AllHandled(t)
          \/ ClaimBatch(t) \/ Release(t)
    \/ \E p \in Procs : Die(p)
    \/ Execute
    \/ TimePasses

DispatchSpec == DispatchInit /\ [][DispatchNext]_dispatchVars

(***************************************************************************)
(* Safety.                                                                 *)
(***************************************************************************)

(* However ticks overlap, stall past their lease and die, an occurrence of *)
(* a schedule is admitted at most once in the whole history, even when its *)
(* job has settled and no longer holds its key (sprint 73, 5.1: "two       *)
(* dispatchers cannot admit the same occurrence twice").                   *)
OneJobPerOccurrence ==
    \A i, j \in DOMAIN jobs : jobs[i].key = jobs[j].key => i = j

(* Admission never runs ahead of time and never bunches: a job is created  *)
(* no earlier than its occurrence, and two occurrences of a schedule are   *)
(* at least the shortest configured interval apart, although processes     *)
(* with other intervals rewrite the row between a scan and its admission.  *)
OccurrencesKeepTheirDistance ==
    LET at(j) == jobs[j].key[2] IN
    \A i, j \in DOMAIN jobs :
        /\ at(j) <= jobs[j].createdAt
        /\ jobs[i].key[1] = jobs[j].key[1] /\ at(i) < at(j) =>
              \E p \in Procs : at(j) - at(i) >= Intervals[p]

(* A schedule moves only forward, and it never skips the occurrence it     *)
(* moves from: that one is a job from the same step on.  This is what      *)
(* survives a crash between the two writes of an admission.                *)
NoOccurrenceLost ==
    [][\A s \in DOMAIN schedules :
          /\ s \in DOMAIN schedules'
          /\ schedules'[s].nextRunAt >= schedules[s].nextRunAt
          /\ schedules'[s].nextRunAt # schedules[s].nextRunAt =>
                \E j \in DOMAIN jobs' : jobs'[j].key = <<s, schedules[s].nextRunAt>>]_dispatchVars

(* The dispatch phases use the lease as TaskLease prescribes.              *)
ImplementsTaskLease == Dispatcher!Spec
=============================================================================
