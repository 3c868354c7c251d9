---------------------------- MODULE PipelineRuns ----------------------------
(***************************************************************************)
(* One content pipeline run: executePipelineRun and decidePipelineRun      *)
(* (apps/api/src/services/pipeline-engine.ts), the worker's tick           *)
(* (pipeline-tick.ts) and the creation of runs (pipeline-runs.ts).         *)
(*                                                                         *)
(* A call claims the run under a lease that nobody renews and the engine   *)
(* never checks again, walks the steps of the definition, replays from the *)
(* step rows what earlier calls got done, asks a model for the rest, and   *)
(* hands the result to the approval gate.  Runs share nothing but the      *)
(* batch of a tick, in which a run waits for those before it: one run, and *)
(* calls that may wait, stand for all of them.                             *)
(*                                                                         *)
(* Each write to the database is a step of its own, except the pairs that  *)
(* create and settle the same row at once.  A call may be delayed between  *)
(* any two of them, and it may be lost there: its process dies, or an      *)
(* exception that nobody catches leaves executePipelineRun.                *)
(***************************************************************************)
EXTENDS Integers, Sequences, FiniteSets, FiniteSetsExt

CONSTANTS
    Steps,          \* keys of the agent steps, in order; the propose step follows
    Drafting,       \* the steps whose output is a draft
    Loops,          \* from a loop step to [scoreFrom, maxIterations]
    MaxTokens,      \* budget of the definition, in units of one attempt
    Calls,          \* calls under way: each is a tick's turn or a request
    NoCall,
    NoDraft,
    Origins,        \* who creates runs in which mode: <<creator, mode>>
    RunMs,          \* RUN_MAX_DURATION_MS, the lease as well as the deadline
    StepAttempts,   \* STEP_MAX_ATTEMPTS
    MaxClock,       \* bound on time
    MaxCalls,       \* bound on calls in all, one fewer as each unit of time passes
    MaxLost         \* bound on calls lost

Keys == {Steps[i] : i \in DOMAIN Steps}
Scoring == {Loops[s].scoreFrom : s \in DOMAIN Loops}

ASSUME StepsAssumption ==
    /\ Steps \in Seq(STRING) /\ "propose" \notin Keys
    /\ \A i, j \in DOMAIN Steps : Steps[i] = Steps[j] => i = j
    /\ DOMAIN Loops \subseteq Drafting /\ Drafting \subseteq Keys
    /\ \A s \in DOMAIN Loops : Loops[s].scoreFrom \in Keys \ Drafting
    /\ Loops \in [DOMAIN Loops -> [scoreFrom : Keys, maxIterations : Nat \ {0}]]
    /\ \A i, j \in DOMAIN Steps :      \* a loop scores an earlier step
          Steps[i] \in DOMAIN Loops /\ Steps[j] = Loops[Steps[i]].scoreFrom => j < i
ASSUME BoundsAssumption ==
    /\ MaxTokens \in Nat /\ RunMs \in Nat \ {0} /\ StepAttempts \in Nat \ {0}
    /\ MaxClock \in Nat /\ MaxCalls \in Nat /\ MaxLost \in Nat
ASSUME OriginsAssumption ==
    Origins \subseteq {<<"automation", "live">>, <<"automation", "shadow">>,
                      <<"person", "live">>, <<"person", "dry_run">>}
ASSUME CallsAssumption == NoCall \notin Calls

VARIABLES
    run,        \* the row of pipeline_runs
    rows,       \* pipeline_run_steps of the run, in the order of insertion
    drafts,     \* the drafts the run has submitted to the gate
    calls,      \* calls[c]: where call c is and what it has in memory
    clock,
    late,       \* history: a call went on when its lease had expired
    started,    \* how many calls there have been
    lost        \* how many calls died or threw while they executed the run

vars == <<run, rows, drafts, calls, clock, late, started, lost>>

Draft == Keys \X (Nat \ {0})        \* a draft is named by the pass that wrote it
Scores == {"none", "low", "high"}   \* of a critique, below the threshold or not
Terminal == {"succeeded", "failed", "cancelled"}
Passes == (Keys \cup {"propose"}) \X (Nat \ {0})

PipelineRun ==
    [status : {"absent", "queued", "running", "escalated"} \cup Terminal,
     mode : {"live", "shadow", "dry_run"},
     createdBy : {"automation", "person"},
     leaseOwner : Calls \cup {NoCall},
     leaseExpiresAt : Nat,
     checklist : SUBSET Passes,
     draft : Nat]                   \* 0, or the index of a draft

StepRow ==
    [step : Keys \cup {"propose"}, iteration : Nat \ {0}, attempt : Nat \ {0},
     status : {"running", "succeeded", "failed", "skipped"},
     draft : Draft \cup {NoDraft}, score : Scores]

Call ==
    [pc : {"idle", "selected", "ready", "rescore", "asking", "proposed",
           "recorded", "halting", "approving"},
     tick : BOOLEAN,                \* the call is a turn of a tick
     deadline : Nat,
     at : 1 .. Len(Steps) + 1,      \* index of the step it is at
     iterations : [Keys -> Nat],
     cache : SUBSET (1 .. Len(rows)),
     scores : [Scoring -> Scores],  \* outputs of the scoring steps
     latestDraft : Draft \cup {NoDraft},
     usedTokens : Nat,
     checklist : SUBSET Passes,
     row : 0 .. Len(rows),          \* the attempt it waits for
     tries : 0 .. StepAttempts,     \* attempts of the pass so far
     draft : 0 .. Len(drafts),      \* the draft it has submitted
     verdict : {"none", "succeeded", "failed", "escalated"}]

Fresh ==
    [pc |-> "idle", tick |-> FALSE, deadline |-> 0, at |-> 1,
     iterations |-> [s \in Keys |-> 0], cache |-> {},
     scores |-> [s \in Scoring |-> "none"], latestDraft |-> NoDraft,
     usedTokens |-> 0, checklist |-> {}, row |-> 0, tries |-> 0, draft |-> 0,
     verdict |-> "none"]

(* The types of the rows, the drafts and the calls.                        *)
PipelineTypeOK ==
    /\ run \in PipelineRun
    /\ rows \in Seq(StepRow)
    /\ drafts \in Seq([content : Draft, state : {"pending_review", "approved"}])
    /\ calls \in [Calls -> Call]
    /\ clock \in Nat
    /\ late \in BOOLEAN
    /\ started \in Nat /\ lost \in Nat
    /\ (run.leaseOwner = NoCall) = (run.status # "running")

Init ==
    /\ run = [status |-> "absent", mode |-> "live", createdBy |-> "person",
              leaseOwner |-> NoCall, leaseExpiresAt |-> 0, checklist |-> {}, draft |-> 0]
    /\ rows = <<>>
    /\ drafts = <<>>
    /\ calls = [c \in Calls |-> Fresh]
    /\ clock = 0
    /\ late = FALSE
    /\ started = 0 /\ lost = 0

Executing(c) ==
    calls[c].pc \in {"ready", "rescore", "asking", "proposed", "recorded", "halting"}

(***************************************************************************)
(* Creation, selection and the claim fence.                                *)
(***************************************************************************)

Begin(c, isTick) ==
    /\ calls[c].pc = "idle" /\ started + clock < MaxCalls
    /\ calls' = [calls EXCEPT ![c].pc = "selected", ![c].tick = isTick]
    /\ started' = started + 1

Create(by) ==
    /\ run.status = "absent"
    /\ \E o \in Origins :
          /\ o[1] = by
          /\ run' = [run EXCEPT !.status = "queued", !.createdBy = by, !.mode = o[2]]

(* Automation queues live and shadow runs.                                 *)
Enqueue ==
    /\ Create("automation")
    /\ UNCHANGED <<rows, drafts, calls, clock, late, started, lost>>

(* A person runs the pipeline, live or dry, and the request executes it.   *)
Start(c) ==
    /\ Create("person")
    /\ Begin(c, FALSE)
    /\ UNCHANGED <<rows, drafts, clock, late, lost>>

(* A tick reads the queued runs; this one's turn may come much later.      *)
Select(c) ==
    /\ run.status = "queued" /\ run.mode \in {"live", "shadow"}
    /\ Begin(c, TRUE)
    /\ UNCHANGED <<run, rows, drafts, clock, late, lost>>

(* An operator, or the answer to an agent's question, resumes a paused run. *)
Resume(c) ==
    /\ run.status = "escalated"
    /\ Begin(c, FALSE)
    /\ UNCHANGED <<run, rows, drafts, clock, late, lost>>

Cancel ==
    /\ run.status \in {"queued", "running", "escalated"}
    /\ run' = [run EXCEPT !.status = "cancelled", !.leaseOwner = NoCall,
                          !.leaseExpiresAt = 0]
    /\ UNCHANGED <<rows, drafts, calls, clock, late, started, lost>>

(* Mutants of Claimable: running runs are claimed whatever their lease, or *)
(* every run that is not cancelled and that no live lease protects.        *)
ClaimableRunning == run.status \in {"queued", "escalated", "running"}
ClaimableUnleased == run.status # "cancelled" /\ run.leaseExpiresAt < clock

Claimable ==
    \/ run.status \in {"queued", "escalated"}
    \/ run.status = "running" /\ run.leaseExpiresAt < clock

(* The model budget of the workspace is exhausted, another call won, or a  *)
(* run before this one in the batch of the tick threw.                     *)
Blocked(c) ==
    /\ calls[c].pc = "selected"
    /\ calls' = [calls EXCEPT ![c] = Fresh]
    /\ UNCHANGED <<run, rows, drafts, clock, late, started, lost>>

(***************************************************************************)
(* What a call does with the step rows.                                    *)
(***************************************************************************)

(* Mutant of Cacheable: failed attempts count as done.                     *)
CacheableAny == {i \in DOMAIN rows : rows[i].status \in {"succeeded", "failed"}}
(* Mutant of Cacheable: a resumed run starts over.                         *)
CacheableNone == {}
Cacheable == {i \in DOMAIN rows : rows[i].status = "succeeded"}

Newest(S) == IF S = {} THEN 0 ELSE Max(S)
DraftAmong(S) ==
    LET i == Newest({j \in S : rows[j].draft # NoDraft})
    IN IF i = 0 THEN NoDraft ELSE rows[i].draft
ScoreAmong(S, s) ==
    LET i == Newest({j \in S : rows[j].step = s}) IN IF i = 0 THEN "none" ELSE rows[i].score

(* loadEngineState, and the iterations reached in earlier calls.           *)
Loaded(call) ==
    LET done == Cacheable IN
    [call EXCEPT !.pc = "ready",
                 !.iterations = [s \in Keys |->
                     Newest({rows[i].iteration : i \in {j \in done : rows[j].step = s}})],
                 !.cache = done,
                 !.scores = [s \in Scoring |-> ScoreAmong(done, s)],
                 !.latestDraft = DraftAmong(done),
                 !.usedTokens = Cardinality({i \in DOMAIN rows :
                     rows[i].step \in Keys /\ rows[i].status \in {"succeeded", "failed"}})]

Halting(call, verdict) ==
    [Fresh EXCEPT !.pc = "halting", !.tick = call.tick, !.deadline = call.deadline,
                  !.checklist = call.checklist, !.verdict = verdict]

(* The claim fence and what follows before the first await: the run is     *)
(* loaded, or fails at once because its version or signal is gone.         *)
Claim(c) ==
    /\ calls[c].pc = "selected" /\ Claimable
    /\ run' = [run EXCEPT !.status = "running", !.leaseOwner = c,
                          !.leaseExpiresAt = clock + RunMs]
    /\ LET claimed == [calls[c] EXCEPT !.deadline = clock + RunMs, !.checklist = run.checklist]
       IN \/ calls' = [calls EXCEPT ![c] = Loaded(claimed)]
          \/ calls' = [calls EXCEPT ![c] = Halting(claimed, "failed")]
    /\ UNCHANGED <<rows, drafts, clock, late, started, lost>>

(* The unique index on run, step, iteration and attempt.                   *)
Free(s, i, a) == \A r \in DOMAIN rows : <<rows[r].step, rows[r].iteration, rows[r].attempt>> # <<s, i, a>>

NewRow(s, i, a, status) ==
    [step |-> s, iteration |-> i, attempt |-> a, status |-> status,
     draft |-> NoDraft, score |-> "none"]

(* Mutant of PriorAttempts: every call counts its attempts from one.       *)
PriorAttemptsOfThisCall(s, i) == 0
PriorAttempts(s, i) ==
    Newest({rows[r].attempt : r \in {x \in DOMAIN rows :
              rows[x].step = s /\ rows[x].iteration = i}})

Here(c) == Steps[calls[c].at]
AtLoop(c) == Here(c) \in DOMAIN Loops

(* The call after pass i of step s with that output: a revision is scored  *)
(* again, and its loop is tried again after that.                          *)
Passed(call, s, i, draft, score) ==
    LET loops == Steps[call.at] \in DOMAIN Loops IN
    [call EXCEPT
        !.pc = IF loops /\ s = Steps[call.at] THEN "rescore" ELSE "ready",
        !.at = IF loops THEN @ ELSE @ + 1,
        !.iterations[s] = i,
        !.latestDraft = IF draft = NoDraft THEN @ ELSE draft,
        !.scores = [x \in Scoring |-> IF x = s THEN score ELSE @[x]],
        !.row = 0, !.tries = 0]

(* runPass up to the model call: the deadline, the cache, or a new attempt. *)
Pass(c, s, i) ==
    LET hits == {r \in calls[c].cache : rows[r].step = s /\ rows[r].iteration = i}
        hit == rows[Newest(hits)]
    IN \/ /\ clock >= calls[c].deadline
          /\ calls' = [calls EXCEPT ![c] = Halting(@, "failed")]
          /\ UNCHANGED rows
       \/ /\ clock < calls[c].deadline /\ hits # {}
          /\ calls' = [calls EXCEPT ![c] = Passed(@, s, i, hit.draft, hit.score)]
          /\ UNCHANGED rows
       \/ /\ clock < calls[c].deadline /\ hits = {}
          /\ rows' = Append(rows, NewRow(s, i, PriorAttempts(s, i) + 1, "running"))
          /\ calls' = [calls EXCEPT ![c].pc = "asking", ![c].row = Len(rows'), ![c].tries = 1]

(***************************************************************************)
(* The steps of a run.                                                     *)
(***************************************************************************)

AtStep(c) == calls[c].pc = "ready" /\ calls[c].at <= Len(Steps)

Advance(c) ==
    /\ AtStep(c) /\ ~AtLoop(c)
    /\ Pass(c, Here(c), Max({calls[c].iterations[Here(c)], 1}))
    /\ UNCHANGED <<run, drafts, clock, late, started, lost>>

GoodEnough(c) == calls[c].scores[Loops[Here(c)].scoreFrom] = "high"
Revisions(c) == calls[c].iterations[Here(c)]

Exhausted(c) == Revisions(c) >= Loops[Here(c)].maxIterations

(* The loop is not needed: it is recorded once, as a skipped step.         *)
SkipLoop(c) ==
    /\ AtStep(c) /\ AtLoop(c) /\ GoodEnough(c) /\ Revisions(c) = 0
    /\ \A p \in calls[c].checklist : p[1] # Here(c)
    /\ IF Free(Here(c), 1, 1)
       THEN /\ rows' = Append(rows, NewRow(Here(c), 1, 1, "skipped"))
            /\ calls' = [calls EXCEPT ![c].checklist = @ \cup {<<Here(c), 1>>}, ![c].at = @ + 1]
       ELSE /\ calls' = [calls EXCEPT ![c] = Fresh]
            /\ UNCHANGED rows
    /\ UNCHANGED <<run, drafts, clock, late, started, lost>>

LeaveLoop(c) ==
    /\ AtStep(c) /\ AtLoop(c)
    /\ \/ GoodEnough(c) /\ (Revisions(c) > 0 \/ \E p \in calls[c].checklist : p[1] = Here(c))
       \/ ~GoodEnough(c) /\ Exhausted(c)
    /\ calls' = [calls EXCEPT ![c].at = @ + 1]
    /\ UNCHANGED <<run, rows, drafts, clock, late, started, lost>>

Revise(c) ==
    /\ AtStep(c) /\ AtLoop(c) /\ ~GoodEnough(c) /\ ~Exhausted(c)
    /\ Pass(c, Here(c), Revisions(c) + 1)
    /\ UNCHANGED <<run, drafts, clock, late, started, lost>>

Rescore(c) ==
    /\ calls[c].pc = "rescore"
    /\ LET s == Loops[Here(c)].scoreFrom IN Pass(c, s, calls[c].iterations[s] + 1)
    /\ UNCHANGED <<run, drafts, clock, late, started, lost>>

(* The answer of the model.  A valid output settles the pass; then the     *)
(* budget is checked, and whether the step is unsure of itself.            *)
Settle(c, status, draft, score) ==
    rows' = [rows EXCEPT ![calls[c].row].status = status,
                         ![calls[c].row].draft = draft, ![calls[c].row].score = score]

(* Mutant of Listed: a pass that escalates is not on the checklist.        *)
ListedUnlessUnsure(c, p, unsure) ==
    IF unsure THEN calls[c].checklist ELSE calls[c].checklist \cup {p}
Listed(c, p, unsure) == calls[c].checklist \cup {p}

Succeed(c) ==
    /\ calls[c].pc = "asking"
    /\ LET r == rows[calls[c].row]
           draft == IF r.step \in Drafting THEN <<r.step, r.iteration>> ELSE NoDraft
       IN \E score \in (IF r.step \in Scoring THEN {"low", "high"} ELSE {"none"}), unsure \in BOOLEAN :
             LET passed ==
                   [Passed(calls[c], r.step, r.iteration, draft, score) EXCEPT
                       !.usedTokens = calls[c].usedTokens + 1,
                       !.checklist = Listed(c, <<r.step, r.iteration>>, unsure)]
             IN /\ Settle(c, "succeeded", draft, score)
                /\ calls' = [calls EXCEPT ![c] =
                      IF passed.usedTokens > MaxTokens THEN Halting(passed, "failed")
                      ELSE IF unsure THEN Halting(passed, "escalated")
                      ELSE passed]
    /\ UNCHANGED <<run, drafts, clock, late, started, lost>>

(* The agent stops to ask a person.                                        *)
NeedsHuman(c) ==
    /\ calls[c].pc = "asking"
    /\ Settle(c, "failed", NoDraft, "none")
    /\ LET spent == [calls[c] EXCEPT !.usedTokens = @ + 1]
       IN calls' = [calls EXCEPT ![c] = Halting(spent, "escalated")]
    /\ UNCHANGED <<run, drafts, clock, late, started, lost>>

(* What the runner makes a result: an error of the gateway, a timeout, a   *)
(* bound or an invalid output.  One more attempt, or failure.              *)
Fail(c) ==
    /\ calls[c].pc = "asking"
    /\ LET r == rows[calls[c].row]
           spent == [calls[c] EXCEPT !.usedTokens = @ + 1]
       IN IF spent.tries = StepAttempts
          THEN /\ Settle(c, "failed", NoDraft, "none")
               /\ calls' = [calls EXCEPT ![c] = Halting(spent, "failed")]
          ELSE IF Free(r.step, r.iteration, r.attempt + 1)
          THEN /\ rows' = Append([rows EXCEPT ![calls[c].row].status = "failed"],
                                 NewRow(r.step, r.iteration, r.attempt + 1, "running"))
               /\ calls' = [calls EXCEPT ![c] =
                               [spent EXCEPT !.row = Len(rows'), !.tries = @ + 1]]
          ELSE /\ Settle(c, "failed", NoDraft, "none")
               /\ calls' = [calls EXCEPT ![c] = Fresh]
    /\ UNCHANGED <<run, drafts, clock, late, started, lost>>

(* What it does not: it throws without agentStep in the gateway, rethrows  *)
(* what is not a GatewayError, and no caller of it catches: the attempt    *)
(* and the run stay running, and a tick drops the rest of its batch.       *)
Throw(c) ==
    /\ calls[c].pc = "asking"
    /\ lost < MaxLost
    /\ lost' = lost + 1
    /\ calls' = [calls EXCEPT ![c] = Fresh]
    /\ UNCHANGED <<run, rows, drafts, clock, late, started>>

(* executePropose: a live run submits a draft, the others pretend to.      *)
Propose(c) ==
    /\ calls[c].pc = "ready" /\ calls[c].at = Len(Steps) + 1
    /\ IF calls[c].latestDraft = NoDraft
       THEN /\ calls' = [calls EXCEPT ![c] = Halting(@, "failed")]
            /\ UNCHANGED drafts
       ELSE /\ calls' = [calls EXCEPT ![c].pc = "proposed",
                             ![c].draft = IF run.mode = "live" THEN Len(drafts) + 1 ELSE 0]
            /\ drafts' = IF run.mode = "live"
                         THEN Append(drafts, [content |-> calls[c].latestDraft,
                                              state |-> "pending_review"])
                         ELSE drafts
    /\ UNCHANGED <<run, rows, clock, late, started, lost>>

RecordProposal(c) ==
    /\ calls[c].pc = "proposed"
    /\ IF Free("propose", 1, 1)
       THEN /\ rows' = Append(rows, [NewRow("propose", 1, 1, "succeeded") EXCEPT
                                        !.draft = calls[c].latestDraft])
            /\ calls' = [calls EXCEPT ![c].pc = "recorded", ![c].verdict = "succeeded",
                                      ![c].checklist = @ \cup {<<"propose", 1>>}]
       ELSE /\ calls' = [calls EXCEPT ![c] = Fresh]
            /\ UNCHANGED rows
    /\ UNCHANGED <<run, drafts, clock, late, started, lost>>

(* finishRun: by id, whatever the row says by now.                         *)
Finish(c) ==
    /\ calls[c].pc \in {"recorded", "halting"}
    /\ run' = [run EXCEPT !.status = calls[c].verdict, !.checklist = calls[c].checklist,
                          !.leaseOwner = NoCall, !.leaseExpiresAt = 0,
                          !.draft = IF calls[c].pc = "recorded" THEN calls[c].draft ELSE @]
    /\ calls' = [calls EXCEPT ![c] =
          IF /\ @.tick /\ @.pc = "recorded"
             /\ run.mode = "live" /\ run.createdBy = "automation"
          THEN [Fresh EXCEPT !.pc = "approving", !.draft = calls[c].draft] ELSE Fresh]
    /\ UNCHANGED <<rows, drafts, clock, late, started, lost>>

(* After it, a tick approves the draft of an automated run as the system,  *)
(* if the campaign and the kill switch let it.                             *)
AutoApprove(c) ==
    /\ calls[c].pc = "approving"
    /\ \/ UNCHANGED drafts
       \/ /\ drafts[calls[c].draft].state = "pending_review"
          /\ drafts' = [drafts EXCEPT ![calls[c].draft].state = "approved"]
    /\ calls' = [calls EXCEPT ![c] = Fresh]
    /\ UNCHANGED <<run, rows, clock, late, started, lost>>

(***************************************************************************)
(* The environment.                                                        *)
(***************************************************************************)

(* Dying before the claim or the approval is like being blocked there.     *)
Crash(c) ==
    /\ Executing(c)
    /\ lost < MaxLost
    /\ lost' = lost + 1
    /\ calls' = [calls EXCEPT ![c] = Fresh]
    /\ UNCHANGED <<run, rows, drafts, clock, late, started>>

TimePasses ==
    /\ clock < MaxClock
    /\ clock' = clock + 1
    /\ late' = (late \/ \E c \in Calls : Executing(c) /\ clock' > calls[c].deadline)
    /\ UNCHANGED <<run, rows, drafts, calls, started, lost>>

Next ==
    \/ Enqueue \/ Cancel \/ TimePasses
    \/ \E c \in Calls :
          \/ Start(c) \/ Select(c) \/ Resume(c) \/ Claim(c) \/ Blocked(c)
          \/ Advance(c) \/ SkipLoop(c) \/ LeaveLoop(c) \/ Revise(c) \/ Rescore(c)
          \/ Succeed(c) \/ NeedsHuman(c) \/ Fail(c) \/ Throw(c)
          \/ Propose(c) \/ RecordProposal(c) \/ Finish(c) \/ AutoApprove(c)
          \/ Crash(c)

Spec == Init /\ [][Next]_vars

(***************************************************************************)
(* Safety.                                                                 *)
(***************************************************************************)

(* "The lease fence keeps one run from executing twice concurrently"       *)
(* (schema.ts), as far as it goes: it does until a call outlives its       *)
(* lease, whatever is cancelled, resumed and selected meanwhile.           *)
LeaseFencesExecutions ==
    ~late => \A c, d \in Calls : Executing(c) /\ Executing(d) => c = d

(* Resuming repeats nothing: up to then, across all the calls that paused, *)
(* died and took over, no pass is done twice.                              *)
PassesAreDoneOnce ==
    ~late =>
        \A i, j \in {r \in DOMAIN rows : rows[r].status = "succeeded"} :
            rows[i].step = rows[j].step /\ rows[i].iteration = rows[j].iteration => i = j

(* Only a call that died or threw leaves a run stuck in "running", which   *)
(* no tick would pick up: if there was none, some call is at it, whatever  *)
(* is selected, paused, resumed and cancelled.  A resumed call that met    *)
(* its own old attempts on the unique index would leave it there (sprint   *)
(* 70).                                                                    *)
RunningIsExecuting ==
    ~late /\ lost = 0 /\ run.status = "running" => \E c \in Calls : Executing(c)

(* A run hands one draft to the gate, and one more only for each call that *)
(* was lost, as one that dies between submitting its draft and saying so   *)
(* in a step row.  If one dies just after it said so, every call that      *)
(* takes the run over proposes once more before it meets that row on the   *)
(* unique index.                                                           *)
OneDraftPerRun ==
    ~late /\ (lost = 0 \/ Free("propose", 1, 1)) => Len(drafts) <= 1 + lost

(* Nothing reaches the gate, and no run succeeds, unless every step has    *)
(* been done by some call: a plain step has an output, and a loop has been *)
(* scored well or has used up its iterations.                              *)
Done(s) == \E r \in DOMAIN rows : rows[r].step = s /\ rows[r].status = "succeeded"

ProposedAfterEveryStep ==
    drafts # <<>> \/ run.status = "succeeded" =>
        \A s \in Keys :
            \/ s \notin DOMAIN Loops /\ Done(s)
            \/ /\ s \in DOMAIN Loops
               /\ \E r \in DOMAIN rows :
                     /\ rows[r].status = "succeeded"
                     /\ \/ rows[r].step = Loops[s].scoreFrom /\ rows[r].score = "high"
                        \/ rows[r].step = s /\ rows[r].iteration = Loops[s].maxIterations

(* The checklist of a run that succeeded names every pass that was done,   *)
(* those before its pauses included, if no call was lost with a part of it. *)
ChecklistIsComplete ==
    ~late /\ lost = 0 /\ run.status = "succeeded" =>
        run.checklist = {<<rows[r].step, rows[r].iteration>> :
                           r \in {x \in DOMAIN rows : rows[x].status \in {"succeeded", "skipped"}}}

(***************************************************************************)
(* What documents say and the code does not do.                            *)
(***************************************************************************)

(* "Terminal: succeeded / failed / cancelled" (contracts): a run that has  *)
(* come to its end stays there.                                            *)
TerminalIsFinal ==
    [][run.status \in Terminal => run'.status = run.status]_vars
=============================================================================
