----------------------------- MODULE Automation -----------------------------
(***************************************************************************)
(* Signals become drafts: the automation of one campaign                   *)
(* (apps/api/src/services/automation.ts) under its task lease, the two     *)
(* ways it has a draft made, by the legacy generation (signal-drafting.ts, *)
(* drafts.ts) or by a run of the pipeline engine (pipeline-tick.ts), and   *)
(* the review of the drafts by people (routes/drafts.ts, draft-editor.ts). *)
(*                                                                         *)
(* A work item is a signal matched to the campaign, on one channel.  The   *)
(* calls of TaskLease are the calls of runAutomationWithLease.  The work   *)
(* does not look at its abort signal, so a call that lost the lease goes   *)
(* on next to the one that took it over.                                   *)
(***************************************************************************)
EXTENDS TaskLease, Sequences

CONSTANTS
    Items,          \* work items, oldest first
    Initially,      \* the settings the system may start with
    Requests,       \* revisions asked of the editor
    MaxEvents,      \* bound: changes of the settings, deaths, late takeovers
    MaxWrites       \* bound: writes to a draft, but for those of revisions

(* Path, kill switch, mode of the campaign, and is a definition active.    *)
Settings ==
    [path : {"legacy", "shadow", "pipeline"}, killSwitch : BOOLEAN,
     mode : {"manual", "human_in_the_loop", "scheduled_auto"}, definition : BOOLEAN]

ASSUME SettingsAssumption == Initially \subseteq Settings
ASSUME ItemsAssumption == Items \subseteq Nat /\ IsFiniteSet(Items)
ASSUME AutomationBounds == MaxEvents \in Nat /\ MaxWrites \in Nat

VARIABLES
    settings,   \* generation path, kill switch, mode, is a definition active
    work,       \* work[c]: what call c read at its start, and how far it is
    runs,       \* runs[m][i]: the pipeline run of mode m with the key of item i
    drafts,     \* the drafts of the items, in the order of their insertion
    turns,      \* turns[r]: the revision turn of request r
    events,     \* how many of MaxEvents have happened
    excuses     \* history: path or definition changed, a call of the engine
                \* died proposing or outlived its lease and was taken over

reviewVars == <<drafts, turns>>
automationVars == <<settings, work, runs, reviewVars, events, excuses>>
allVars == <<vars, automationVars>>

(* The states of drafts and the actions of people (TRANSITIONS).           *)
Transition ==
    [edit |-> [pending_review |-> "edited", edited |-> "edited"],
     resubmit |-> [edited |-> "pending_review"],
     approve |-> [pending_review |-> "approved", edited |-> "approved"],
     reject |-> [pending_review |-> "rejected", edited |-> "rejected"]]

Allows(state, action) == state \in DOMAIN Transition[action]

(* text counts the edits, updatedAt the writes: two writes of a draft are  *)
(* never in the same millisecond here.  by: who approved or rejected it.   *)
Draft ==
    [item : Items, made : {"legacy", "pipeline"}, by : {"nobody", "system", "person"},
     state : {"pending_review", "edited", "approved", "rejected"},
     text : Nat, updatedAt : Nat]

NoTurn == [status |-> "none", draft |-> 0, text |-> 0, state |-> "none", updatedAt |-> 0]

NoWork ==
    [step |-> "next", left |-> {},
     read |-> [path |-> "legacy", killSwitch |-> FALSE, mode |-> "manual",
               definition |-> FALSE]]

(* taken: two calls are at the run; proposed: one has submitted its draft, *)
(* and a second may yet do so.                                             *)
RunStatus == {"none", "queued", "running", "taken", "proposed", "ended"}

AutomationTypeOK ==
    /\ settings \in Settings
    /\ work \in [Calls -> [step : {"next", "generating", "shadow"}, left : SUBSET Items,
                           read : Settings]]
    /\ runs \in [{"live", "shadow"} -> [Items -> RunStatus]]
    /\ drafts \in Seq(Draft)
    /\ turns \in [Requests ->
          [status : {"none", "running", "completed", "failed"}, draft : Nat, text : Nat,
           state : {"none", "pending_review", "edited"}, updatedAt : Nat]]
    /\ events \in 0..MaxEvents
    /\ excuses \subseteq {"switch", "death", "late"}

AutomationInit ==
    /\ Init
    /\ settings \in Initially
    /\ work = [c \in Calls |-> NoWork]
    /\ runs = [m \in {"live", "shadow"} |-> [i \in Items |-> "none"]]
    /\ drafts = <<>>
    /\ turns = [r \in Requests |-> NoTurn]
    /\ events = 0
    /\ excuses = {}

(***************************************************************************)
(* The automation's run.                                                   *)
(***************************************************************************)

DraftsOf(i) == {d \in DOMAIN drafts : drafts[d].item = i}

(* The campaign is not listed, or the kill switch halts it.                *)
Halted(s) == s.mode = "manual" \/ (s.mode = "scheduled_auto" /\ s.killSwitch)

(* The call gets the lease and reads the settings, the campaign and the    *)
(* active definition, for the whole run.  Without budget it does nothing.  *)
Start(c) ==
    /\ Claim(c)
    /\ \E left \in {{}, Items} :
          /\ Halted(settings) => left = {}
          /\ work' = [work EXCEPT ![c] = [step |-> "next", left |-> left, read |-> settings]]
    /\ UNCHANGED <<settings, runs, reviewVars, events, excuses>>

Current(c) == CHOOSE i \in work[c].left : \A j \in work[c].left : i <= j

At(c, step) == pc[c] = "working" /\ work[c].step = step /\ work[c].left # {}

(* The work of call c goes on with the next item, or with the same.        *)
NextItem(c) == [work EXCEPT ![c].step = "next", ![c].left = @ \ {Current(c)}]
Stay(c, step) == [work EXCEPT ![c].step = step]

Piped(c) == work[c].read.path = "pipeline" /\ work[c].read.definition

(* startPipelineRun under its unique key: a second run changes nothing.    *)
Queued(mode, i) == [runs EXCEPT ![mode][i] = IF @ = "none" THEN "queued" ELSE @]

(* The next item: it is skipped if it has a draft; else a run of the       *)
(* engine is queued, or the generation is awaited.                         *)
Consider(c) ==
    /\ At(c, "next")
    /\ \/ /\ DraftsOf(Current(c)) # {}
          /\ work' = NextItem(c)
          /\ UNCHANGED runs
       \/ /\ DraftsOf(Current(c)) = {}
          /\ Piped(c)
          /\ work' = NextItem(c)
          /\ runs' = Queued("live", Current(c))
       \/ /\ DraftsOf(Current(c)) = {}
          /\ ~Piped(c)
          /\ work' = Stay(c, "generating")
          /\ UNCHANGED runs
    /\ UNCHANGED <<vars, settings, reviewVars, events, excuses>>

(* A draft goes to review; the system approves it in the same transaction. *)
Submitted(i, made, approved) ==
    Append(drafts, [item |-> i, made |-> made, text |-> 0, updatedAt |-> 0,
                    state |-> IF approved THEN "approved" ELSE "pending_review",
                    by |-> IF approved THEN "system" ELSE "nobody"])

(* Mutant of KeyTaken: the drafts carry no automation key.                 *)
NoKeyTaken(i) == FALSE

(* The unique index on drafts.automation_key.                              *)
KeyTaken(i) == \E d \in DraftsOf(i) : drafts[d].made = "legacy"

(* The model answers, after no matter how long, and submitAutomaticDraft   *)
(* inserts the draft unless its key is taken.                              *)
Commit(c) ==
    LET i == Current(c) IN
    /\ At(c, "generating")
    /\ IF KeyTaken(i)
       THEN work' = NextItem(c) /\ UNCHANGED drafts
       ELSE /\ drafts' = Submitted(i, "legacy", work[c].read.mode = "scheduled_auto")
            /\ work' = IF work[c].read.path = "shadow" /\ work[c].read.definition
                       THEN Stay(c, "shadow") ELSE NextItem(c)
    /\ UNCHANGED <<vars, settings, runs, turns, events, excuses>>

(* The generation throws: the item is left for the next tick.              *)
GenerationFails(c) ==
    /\ At(c, "generating")
    /\ work' = NextItem(c)
    /\ UNCHANGED <<vars, settings, runs, reviewVars, events, excuses>>

(* The same item is replayed as a shadow run.                              *)
QueueShadow(c) ==
    /\ At(c, "shadow")
    /\ runs' = Queued("shadow", Current(c))
    /\ work' = NextItem(c)
    /\ UNCHANGED <<vars, settings, reviewVars, events, excuses>>

(* What the lease does meanwhile.                                          *)
LeaseStep(c) ==
    /\ Busy(c) \/ Heartbeat(c)
    /\ UNCHANGED automationVars

(* The work settles when no item is left, or its process dies.             *)
End(c) ==
    /\ (work[c].left = {} /\ Finish(c)) \/ Crash(c)
    /\ work' = [work EXCEPT ![c] = NoWork]
    /\ UNCHANGED <<settings, runs, reviewVars, events, excuses>>

(* One of the events the bound counts.                                     *)
Event == events < MaxEvents /\ events' = events + 1

(***************************************************************************)
(* The pipeline tick; PipelineRuns models the run itself.                  *)
(***************************************************************************)

PickUp ==
    /\ \E m \in {"live", "shadow"}, i \in Items :
          runs[m][i] = "queued" /\ runs' = [runs EXCEPT ![m][i] = "running"]
    /\ UNCHANGED <<vars, settings, work, reviewVars, events, excuses>>

(* Mutant of Approving: the switch is not read again.                      *)
ApprovingByMode == settings.mode = "scheduled_auto"

(* The tick reads campaign and settings again before it approves.          *)
Approving == settings.mode = "scheduled_auto" /\ ~settings.killSwitch

(* Every run but a live one is simulated.                                  *)
Proposes(mode) == mode = "live"

(* The call at a run, or one of two, is through: with a proposal that the  *)
(* tick may approve (it leaves the draft alone if it was a founder who     *)
(* resumed the run, or if the process dies first), or without one.         *)
EndRun ==
    /\ \E m \in {"live", "shadow"}, i \in Items :
          /\ runs[m][i] \in {"running", "taken"}
          /\ \/ /\ Proposes(m)
                /\ runs' = [runs EXCEPT ![m][i] = IF @ = "taken" THEN "proposed" ELSE "ended"]
                /\ \E approved \in BOOLEAN :
                      /\ approved => Approving
                      /\ drafts' = Submitted(i, "pipeline", approved)
             \/ /\ runs' = [runs EXCEPT ![m][i] = IF @ = "taken" THEN "running" ELSE "ended"]
                /\ UNCHANGED drafts
    /\ UNCHANGED <<vars, settings, work, turns, events, excuses>>

(* A live call outlives its lease, and a tick that had selected the run    *)
(* before takes it over.  If the call had died or thrown, or its run were  *)
(* simulated, that would be nothing new here.                              *)
TakeOver ==
    /\ Event
    /\ \E i \in Items :
          /\ runs["live"][i] = "running"
          /\ runs' = [runs EXCEPT !["live"][i] = "taken"]
    /\ excuses' = excuses \cup {"late"}
    /\ UNCHANGED <<vars, settings, work, reviewVars>>

(* The process dies when the draft is submitted and the run does not say   *)
(* so yet.                                                                 *)
DieProposing ==
    /\ Event
    /\ \E i \in Items :
          /\ runs["live"][i] = "running"
          /\ runs' = [runs EXCEPT !["live"][i] = "proposed"]
          /\ drafts' = Submitted(i, "pipeline", FALSE)
    /\ excuses' = excuses \cup {"death"}
    /\ UNCHANGED <<vars, settings, work, turns>>

(* The second call at the run proposes once more: the one of two that were *)
(* at it, or a tick that had selected it before and took it over when its  *)
(* lease had expired.  It ends on the unique index if the first proposal   *)
(* has its step row, which approves nothing, and like any other call if it *)
(* has not.  A third such call is left out.                                *)
ProposeAgain ==
    /\ \E i \in Items, approved \in BOOLEAN :
          /\ runs["live"][i] = "proposed"
          /\ approved =>
                /\ Approving
                /\ \A d \in DraftsOf(i) : drafts[d].made = "pipeline" => drafts[d].by # "system"
          /\ runs' = [runs EXCEPT !["live"][i] = "ended"]
          /\ drafts' = Submitted(i, "pipeline", approved)
    /\ UNCHANGED <<vars, settings, work, turns, events, excuses>>

(***************************************************************************)
(* People.                                                                 *)
(***************************************************************************)

Acted(d, action) ==
    [drafts EXCEPT ![d].state = Transition[action][@],
                   ![d].text = IF action = "edit" THEN @ + 1 ELSE @,
                   ![d].by = IF action \in {"approve", "reject"} THEN "person" ELSE @,
                   ![d].updatedAt = @ + 1]

(* applyDraftAction, from the application, a mail, a chat or the public    *)
(* API: the draft is read and written in one go, whatever its text is now. *)
Act ==
    /\ \E d \in DOMAIN drafts, action \in DOMAIN Transition :
          /\ Allows(drafts[d].state, action)
          /\ drafts[d].updatedAt < MaxWrites
          /\ drafts' = Acted(d, action)
    /\ UNCHANGED <<vars, settings, work, runs, turns, events, excuses>>

(* reviseDraft up to its call of the model.                                *)
Ask(r) ==
    /\ turns[r].status = "none"
    /\ \E d \in DOMAIN drafts :
          /\ Allows(drafts[d].state, "edit")
          /\ turns' = [turns EXCEPT ![r] =
                [status |-> "running", draft |-> d, text |-> drafts[d].text,
                 state |-> drafts[d].state, updatedAt |-> drafts[d].updatedAt]]
    /\ UNCHANGED <<vars, settings, work, runs, drafts, events, excuses>>

(* Mutant of Unchanged: the state alone is compared.                       *)
UnchangedState(r) == drafts[turns[r].draft].state = turns[r].state

(* The draft is as it was when the revision was asked for.                 *)
Unchanged(r) ==
    LET draft == drafts[turns[r].draft] IN
    draft.updatedAt = turns[r].updatedAt /\ draft.state = turns[r].state

(* The model has revised: the edit and the turn are written together.  Or  *)
(* it fails, or the draft has changed meanwhile, and the turn fails.       *)
Revise(r) ==
    /\ turns[r].status = "running"
    /\ \/ /\ Unchanged(r)
          /\ drafts' = Acted(turns[r].draft, "edit")
          /\ turns' = [turns EXCEPT ![r].status = "completed"]
       \/ /\ turns' = [turns EXCEPT ![r].status = "failed"]
          /\ UNCHANGED drafts
    /\ UNCHANGED <<vars, settings, work, runs, events, excuses>>

(* Somebody changes one of the settings, the campaign or the definition.   *)
Change ==
    /\ Event
    /\ \E field \in DOMAIN settings :
          /\ \E s \in Settings :
                /\ s[field] # settings[field]
                /\ settings' = [settings EXCEPT ![field] = s[field]]
          /\ excuses' = IF field \in {"path", "definition"} THEN excuses \cup {"switch"}
                        ELSE excuses
    /\ UNCHANGED <<vars, work, runs, reviewVars>>

AutomationNext ==
    \/ \E c \in Calls :
          \/ Start(c) \/ Consider(c) \/ Commit(c) \/ GenerationFails(c) \/ QueueShadow(c)
          \/ LeaseStep(c) \/ End(c)
    \/ Tick /\ UNCHANGED automationVars
    \/ PickUp \/ EndRun \/ TakeOver \/ DieProposing \/ ProposeAgain
    \/ Act
    \/ \E r \in Requests : Ask(r) \/ Revise(r)
    \/ Change

AutomationSpec == AutomationInit /\ [][AutomationNext]_allVars

(***************************************************************************)
(* Safety.                                                                 *)
(***************************************************************************)

(* A work item is drafted once ("a signal already drafted for a campaign   *)
(* and channel is skipped", automation.ts), although calls that lost the   *)
(* lease still generate next to their successors, runs are queued twice    *)
(* and shadow runs replay the item.  The exceptions are the code's: path   *)
(* or definition was switched while the other path was under way, and even *)
(* then it is one draft from each; or a call of the engine died at its     *)
(* proposal, or outlived its lease and proposed next to the call that took *)
(* the run over: the step row is unique, submitDraft comes before it.      *)
OneDraftPerItem ==
    \A i \in Items : \A d, e \in DraftsOf(i) : d # e =>
        \/ "switch" \in excuses /\ drafts[d].made # drafts[e].made
        \/ /\ excuses \cap {"death", "late"} # {}
           /\ drafts[d].made = "pipeline" /\ drafts[e].made = "pipeline"

Approves(d) ==
    /\ d \in DOMAIN drafts'
    /\ drafts'[d].by = "system"
    /\ d \in DOMAIN drafts => drafts[d].by # "system"

(* The stop works: while the switch is up or the campaign is not automatic *)
(* the system approves nothing any more, except for the legacy drafts of a *)
(* call that began before (the engine's tick looks again, D-65.4).         *)
StoppedMeansNoApprovals ==
    [][\A d \in DOMAIN drafts' : Approves(d) =>
          \/ ~settings.killSwitch /\ settings.mode = "scheduled_auto"
          \/ /\ drafts'[d].made = "legacy"
             /\ \E c \in Calls :
                   /\ pc[c] = "working" /\ drafts'[d].item \in work[c].left
                   /\ ~work[c].read.killSwitch /\ work[c].read.mode = "scheduled_auto"]_allVars

(* No review is lost: a decision stands, and a revision the model was long *)
(* about never replaces a text, or revives a state, other than the one it  *)
(* was asked for.                                                          *)
NoReviewIsLost ==
    [][\A d \in DOMAIN drafts :
          /\ drafts[d].state \in {"approved", "rejected"} => drafts'[d] = drafts[d]
          /\ \A r \in Requests :
                /\ turns[r].draft = d
                /\ turns[r].status = "running" /\ turns'[r].status = "completed"
                =>
                   drafts[d].text = turns[r].text /\ drafts[d].state = turns[r].state]_allVars
=============================================================================
