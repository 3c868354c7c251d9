--------------------------- MODULE ExternalActions ---------------------------
(***************************************************************************)
(* Governed publishing: the external_actions and publications tables, the  *)
(* coordinator that carries an action from its proposal to a post          *)
(* (apps/api/src/services/external-action-coordinator.ts), the publish     *)
(* adapter under it, the receipts it attempts (publications.ts), and the   *)
(* routes and the cadence code that touch the same rows.                   *)
(*                                                                         *)
(* All actions here publish one draft to one destination, where they can   *)
(* get in each other's way.  The API is one process: a call runs alone     *)
(* until it awaits the provider or the webhooks of post.published, so the  *)
(* steps of other calls fall only into those two awaits.  "loop" names the *)
(* call that runs; each of its steps makes at most one write, and a crash  *)
(* may fall between any two of them.                                       *)
(***************************************************************************)
EXTENDS Integers, FiniteSets

CONSTANTS
    ActionIds,      \* ids of rows of external_actions, in creation order
    ReceiptIds,     \* ids of rows of publications
    NoAction, NoReceipt,
    Requests,       \* what is proposed: by the cadence (automated), by a person,
                    \* by the copilot (for review), for now (0) or for later (1)
    Callers,        \* requests and background jobs under way in the API
    Nobody,         \* no call runs: the event loop is idle
    Subjects,       \* what revalidation can build: content, media, destination
    NoSubject,      \* revalidation refuses to build anything
    Covered,        \* the subjects the human approval of the draft covers
    Changing,       \* bound: what may change after the start
    MaxChanges,     \* bound: how often it changes
    MaxCrashes,     \* bound: crashes of the API
    MaxEvents       \* bound: changes and crashes together

ASSUME IdsAssumption ==
    /\ ActionIds \subseteq Nat /\ ReceiptIds \subseteq Nat
    /\ NoAction \notin ActionIds /\ NoReceipt \notin ReceiptIds
ASSUME RequestsAssumption ==
    Requests \subseteq [automated : BOOLEAN, review : BOOLEAN, requestedFor : {0, 1}]
ASSUME CallersAssumption == Nobody \notin Callers
ASSUME SubjectsAssumption == Covered \subseteq Subjects /\ NoSubject \notin Subjects
ASSUME BoundsAssumption ==
    /\ Changing \subseteq {"subject", "policy", "kill_switch", "cap", "disconnected"}
    /\ {MaxChanges, MaxCrashes, MaxEvents} \subseteq Nat

VARIABLES
    subject,    \* what revalidation would build now, or NoSubject
    policy,     \* the effective policy of publishing
    raised,     \* the guardrails that are up
    cadence,    \* the automated cadence exists
    now,        \* 0 before the scheduled time, 1 from then on
    actions,    \* external_actions: from the ids inserted to rows
    receipts,   \* publications: from the ids inserted to rows
    loop,       \* the call that runs, or Nobody
    calls,      \* calls[c]: where call c is and what it holds
    todo,       \* todo[c]: the actions a run has still to dispatch
    posted,     \* history: the actions the provider has made a post of
    crashes, changes

worldVars == <<subject, policy, raised, cadence, now, changes>>
callVars == <<loop, calls, todo>>
vars == <<worldVars, actions, receipts, callVars, posted, crashes>>

Policies == {"human_required", "autonomous"}
Guardrails == {"kill_switch", "cap", "disconnected"}

(* EXTERNAL_ACTION_TRANSITIONS.                                            *)
Transitions ==
    [proposed |-> {"authorization_required", "authorized", "blocked", "stale", "cancelled"},
     authorization_required |-> {"authorized", "stale", "cancelled"},
     authorized |-> {"scheduled", "dispatching", "blocked", "stale", "cancelled"},
     scheduled |-> {"dispatching", "blocked", "stale", "cancelled"},
     dispatching |-> {"succeeded", "failed"},
     succeeded |-> {},
     failed |-> {"scheduled", "dispatching", "cancelled"},
     blocked |-> {"proposed", "cancelled"},
     stale |-> {"cancelled"},
     cancelled |-> {}]

(* The fingerprint of an action is its subject and its policy; the rest of *)
(* what is hashed never changes.  authority: who let it out.               *)
Action ==
    [status : DOMAIN Transitions, subject : Subjects, policy : Policies,
     automated : BOOLEAN, review : BOOLEAN, requestedFor : {0, 1},
     supersedes : ActionIds \cup {NoAction},
     authority : {"none", "policy", "approval", "person"}]

(* operation: provider_operation_id is set; wait: next_attempt_at is ahead *)
(* of the clock.  last_error is set exactly in the failed rows.  A deleted *)
(* row is kept as "deleted", because its id is never used again.           *)
Receipt ==
    [action : ActionIds,
     status : {"scheduled", "processing", "published", "failed", "deleted"},
     operation : BOOLEAN, wait : BOOLEAN]

(* resumes: the provider call is finalizePost.                             *)
Call ==
    [pc : {"idle", "gate", "dispatch", "execute", "attempt", "provider",
           "notify", "conclude"},
     action : ActionIds \cup {NoAction}, receipt : ReceiptIds \cup {NoReceipt},
     resumes : BOOLEAN]

Idle == [pc |-> "idle", action |-> NoAction, receipt |-> NoReceipt, resumes |-> FALSE]

TypeOK ==
    /\ subject \in Subjects \cup {NoSubject}
    /\ policy \in Policies
    /\ raised \in SUBSET Guardrails
    /\ cadence \in BOOLEAN
    /\ now \in {0, 1}
    /\ DOMAIN actions \subseteq ActionIds /\ actions \in [DOMAIN actions -> Action]
    /\ DOMAIN receipts \subseteq ReceiptIds /\ receipts \in [DOMAIN receipts -> Receipt]
    /\ loop \in Callers \cup {Nobody}
    /\ calls \in [Callers -> Call]
    /\ todo \in [Callers -> SUBSET ActionIds]
    /\ posted \subseteq ActionIds
    /\ crashes \in 0..MaxCrashes /\ changes \in 0..MaxChanges

Init ==
    /\ subject \in Subjects
    /\ policy \in Policies
    /\ raised = {}
    /\ cadence = TRUE
    /\ now = 0
    /\ actions = [a \in {} |-> {}]
    /\ receipts = [r \in {} |-> {}]
    /\ loop = Nobody
    /\ calls = [c \in Callers |-> Idle]
    /\ todo = [c \in Callers |-> {}]
    /\ posted = {}
    /\ crashes = 0
    /\ changes = 0

(***************************************************************************)
(* The rows.                                                               *)
(***************************************************************************)

CanMove(a, to) == to \in Transitions[actions[a].status]

(* Mutant of Moved: the row is updated by id alone.                        *)
MovedAnyhow(a, to) == [actions EXCEPT ![a].status = to]

(* transitionExternalAction: an illegal move throws, and every caller here *)
(* leaves the row as it is then.                                           *)
Moved(a, to) == IF CanMove(a, to) THEN [actions EXCEPT ![a].status = to] ELSE actions

(* Mutant of Diverged: the policy of the proposal is taken for today's.    *)
DivergedInSubject(a) == subject # actions[a].subject

(* The row no longer says what revalidation builds under today's policy.   *)
Diverged(a) == subject # actions[a].subject \/ policy # actions[a].policy

(* Mutant of LiveStatuses: the list from before sprint 75.                 *)
LiveBeforeProcessing == {"scheduled", "published"}

LiveStatuses == {"scheduled", "processing", "published"}

(* findLivePublication finds another action's receipt.                     *)
Rivaled(a) ==
    \E r \in DOMAIN receipts :
        receipts[r].action # a /\ receipts[r].status \in LiveStatuses

(* The adapter's guard.                                                    *)
Guarded(a) ==
    \/ "disconnected" \in raised
    \/ Rivaled(a)
    \/ actions[a].automated /\ raised \cap {"kill_switch", "cap"} # {}

(* Mutant of Runnable: nobody resumes what was being dispatched.           *)
NotYetDispatched(a) ==
    \/ actions[a].status = "authorized"
    \/ actions[a].status = "scheduled" /\ actions[a].requestedFor <= now

Runnable(a) ==
    \/ actions[a].status \in {"authorized", "dispatching"}
    \/ actions[a].status = "scheduled" /\ actions[a].requestedFor <= now

Kept(r) == r \in DOMAIN receipts /\ receipts[r].status # "deleted"

ReceiptsOf(a) == {r \in DOMAIN receipts : receipts[r].action = a /\ Kept(r)}

(***************************************************************************)
(* Calls and the event loop.                                               *)
(***************************************************************************)

Starts(c) == loop = Nobody /\ calls[c].pc = "idle"
Runs(c, pc) == loop = c /\ calls[c].pc = pc
Awaits(c, pc) == loop = Nobody /\ calls[c].pc = pc

GoTo(c, pc) ==
    /\ loop' = c
    /\ calls' = [calls EXCEPT ![c].pc = pc]
    /\ UNCHANGED todo

(* The call is done with its action: the next one of the run, or the end.  *)
Return(c) ==
    IF todo[c] = {}
    THEN /\ calls' = [calls EXCEPT ![c] = Idle]
         /\ loop' = Nobody
         /\ UNCHANGED todo
    ELSE LET a == CHOOSE x \in todo[c] : \A y \in todo[c] : x <= y IN
         /\ calls' = [calls EXCEPT ![c] = [Idle EXCEPT !.pc = "dispatch", !.action = a]]
         /\ todo' = [todo EXCEPT ![c] = @ \ {a}]
         /\ loop' = c

(***************************************************************************)
(* The coordinator.                                                        *)
(***************************************************************************)

(* insertExternalAction.  A command whose idempotency key is taken changes *)
(* nothing, so every proposal here has a key of its own.                   *)
Inserted(c, request, predecessor) ==
    \E a \in ActionIds \ DOMAIN actions :
        /\ \A b \in ActionIds \ DOMAIN actions : a <= b
        /\ actions' = [x \in DOMAIN actions \cup {a} |->
              IF x # a THEN actions[x]
              ELSE [status |-> "proposed", subject |-> subject, policy |-> policy,
                    automated |-> request.automated, review |-> request.review,
                    requestedFor |-> request.requestedFor,
                    supersedes |-> predecessor, authority |-> "none"]]
        /\ calls' = [calls EXCEPT ![c] = [Idle EXCEPT !.pc = "gate", !.action = a]]
        /\ loop' = c
        /\ UNCHANGED todo

(* The publish route, the cadence's fill and the copilot.                  *)
Propose(c) ==
    /\ Starts(c)
    /\ subject # NoSubject
    /\ \E request \in Requests :
          /\ request.requestedFor = 0 \/ now = 0
          /\ request.automated =>
                /\ cadence /\ request.requestedFor = 1 /\ ~request.review
                /\ raised = {}
          /\ Inserted(c, request, NoAction)
    /\ UNCHANGED <<worldVars, receipts, posted, crashes>>

(* A stale or blocked action is proposed again as things are now.          *)
Repropose(c) ==
    /\ Starts(c)
    /\ subject # NoSubject
    /\ \E a \in DOMAIN actions :
          /\ actions[a].status \in {"stale", "blocked"}
          /\ Inserted(c, [automated |-> actions[a].automated, review |-> FALSE,
                          requestedFor |-> actions[a].requestedFor], a)
    /\ UNCHANGED <<worldVars, receipts, posted, crashes>>

(* Mutant of Collapses: a reproposal collapses too.                        *)
CollapsesAlways(a) == ~actions[a].review /\ subject \in Covered

(* The human approval of the draft stands for the authorization, except    *)
(* of a copilot's proposal and of a reproposal.                            *)
Collapses(a) ==
    /\ ~actions[a].review
    /\ actions[a].supersedes = NoAction
    /\ subject \in Covered

(* proposeWithLineage after the insert.                                    *)
Gate(c) ==
    LET a == calls[c].action
        Let(authority) ==
            /\ actions' = [actions EXCEPT ![a].status = "authorized",
                                          ![a].authority = authority]
            /\ GoTo(c, "dispatch")
    IN
    /\ Runs(c, "gate")
    /\ \/ /\ ~actions[a].review /\ actions[a].policy = "autonomous"
          /\ Let("policy")
       \/ /\ actions[a].review \/ actions[a].policy = "human_required"
          /\ Collapses(a)
          /\ Let("approval")
       \/ /\ actions[a].review \/ actions[a].policy = "human_required"
          /\ ~Collapses(a)
          /\ actions' = Moved(a, "authorization_required")
          /\ Return(c)
    /\ UNCHANGED <<worldVars, receipts, posted, crashes>>

(* A person authorizes; what changed since the proposal goes stale.        *)
Authorize(c) ==
    /\ Starts(c)
    /\ \E a \in DOMAIN actions :
          /\ CanMove(a, "authorized")
          /\ IF Diverged(a)
             THEN /\ actions' = Moved(a, "stale")
                  /\ UNCHANGED callVars
             ELSE /\ actions' = [actions EXCEPT ![a].status = "authorized",
                                                ![a].authority = "person"]
                  /\ calls' = [calls EXCEPT ![c].pc = "dispatch", ![c].action = a]
                  /\ loop' = c
                  /\ UNCHANGED todo
    /\ UNCHANGED <<worldVars, receipts, posted, crashes>>

(* Deny, or cancel: one transaction.                                       *)
Cancel ==
    /\ loop = Nobody
    /\ \E a \in DOMAIN actions :
          CanMove(a, "cancelled") /\ actions' = Moved(a, "cancelled")
    /\ UNCHANGED <<worldVars, receipts, callVars, posted, crashes>>

(* The publish job and the run route read the runnable rows once.          *)
Run(c) ==
    /\ Starts(c)
    /\ \E a \in DOMAIN actions :
          /\ Runnable(a)
          /\ \A b \in DOMAIN actions : Runnable(b) => a <= b
          /\ calls' = [calls EXCEPT ![c].pc = "dispatch", ![c].action = a]
          /\ todo' = [todo EXCEPT ![c] = {b \in DOMAIN actions : Runnable(b)} \ {a}]
          /\ loop' = c
    /\ UNCHANGED <<worldVars, actions, receipts, posted, crashes>>

(* dispatch: revalidate, guard, wait for the time, mark as dispatching.    *)
Dispatch(c) ==
    LET a == calls[c].action IN
    /\ Runs(c, "dispatch")
    /\ \/ /\ Diverged(a)
          /\ actions' = Moved(a, "stale")
          /\ Return(c)
       \/ /\ ~Diverged(a)
          /\ Guarded(a)
          /\ actions' = Moved(a, "blocked")
          /\ Return(c)
       \/ /\ ~Diverged(a) /\ ~Guarded(a)
          /\ actions[a].requestedFor > now
          /\ actions' = Moved(a, "scheduled")
          /\ Return(c)
       \/ /\ ~Diverged(a) /\ ~Guarded(a)
          /\ actions[a].requestedFor <= now
          /\ actions' = Moved(a, "dispatching")
          /\ IF actions'[a].status = "dispatching" THEN GoTo(c, "execute") ELSE Return(c)
    /\ UNCHANGED <<worldVars, receipts, posted, crashes>>

(* Mutant of Execute: no look for a receipt the action already has.        *)
ExecuteAnew(c) ==
    LET a == calls[c].action IN
    /\ Runs(c, "execute")
    /\ \E r \in ReceiptIds \ DOMAIN receipts :
          /\ \A q \in ReceiptIds \ DOMAIN receipts : r <= q
          /\ receipts' = [x \in DOMAIN receipts \cup {r} |->
                IF x # r THEN receipts[x]
                ELSE [action |-> a, status |-> "scheduled",
                      operation |-> FALSE, wait |-> FALSE]]
          /\ calls' = [calls EXCEPT ![c].pc = "attempt", ![c].receipt = r]
    /\ UNCHANGED <<worldVars, actions, loop, todo, posted, crashes>>

(* The adapter's execute and createPublication: one receipt per action.    *)
(* Its id is new.  The insert fails when the cadence is gone, and the      *)
(* action stays dispatching.                                               *)
Execute(c) ==
    LET a == calls[c].action
        On(r) == calls' = [calls EXCEPT ![c].pc = "attempt", ![c].receipt = r]
    IN
    /\ Runs(c, "execute")
    /\ \/ /\ \E r \in ReceiptsOf(a) : On(r)
          /\ UNCHANGED <<receipts, loop, todo>>
       \/ /\ ReceiptsOf(a) = {}
          /\ actions[a].automated => cadence
          /\ \E r \in ReceiptIds \ DOMAIN receipts :
                /\ \A q \in ReceiptIds \ DOMAIN receipts : r <= q
                /\ receipts' = [x \in DOMAIN receipts \cup {r} |->
                      IF x # r THEN receipts[x]
                      ELSE [action |-> a, status |-> "scheduled",
                            operation |-> FALSE, wait |-> FALSE]]
                /\ On(r)
          /\ UNCHANGED <<loop, todo>>
       \/ /\ ReceiptsOf(a) = {}
          /\ actions[a].automated /\ ~cadence
          /\ Return(c)
          /\ UNCHANGED receipts
    /\ UNCHANGED <<worldVars, actions, posted, crashes>>

(***************************************************************************)
(* Attempting a receipt.                                                   *)
(***************************************************************************)

(* Nothing is left to attempt: the receipt is final for the adapter, or it *)
(* is not due, or the kill switch holds it back.                           *)
AtRest(c) ==
    LET row == receipts[calls[c].receipt] IN
    \/ row.status = "published"
    \/ row.status = "failed" /\ calls[c].action # NoAction
    \/ row.status = "processing" /\ row.wait
    \/ /\ "disconnected" \notin raised
       /\ actions[row.action].automated /\ "kill_switch" \in raised

(* attemptPublicationDetailed up to its call of the provider.              *)
Attempt(c) ==
    LET r == calls[c].receipt  row == receipts[r] IN
    /\ Runs(c, "attempt")
    /\ \/ /\ AtRest(c)
          /\ GoTo(c, "conclude")
          /\ UNCHANGED receipts
       \/ /\ ~AtRest(c)
          /\ "disconnected" \in raised
          /\ receipts' = [receipts EXCEPT ![r].status = "failed", ![r].wait = FALSE]
          /\ GoTo(c, "conclude")
       \/ /\ ~AtRest(c)
          /\ "disconnected" \notin raised
          /\ calls' = [calls EXCEPT ![c].pc = "provider", ![c].resumes = row.operation]
          /\ loop' = Nobody
          /\ UNCHANGED <<receipts, todo>>
    /\ UNCHANGED <<worldVars, actions, posted, crashes>>

(* Whose post the call asks for.                                           *)
Target(c) == receipts[calls[c].receipt].action

(* An UPDATE by receipt id: it matches no row if the receipt was deleted.  *)
Written(c, status, operation, wait) ==
    LET r == calls[c].receipt IN
    IF ~Kept(r) THEN receipts
    ELSE [receipts EXCEPT ![r].status = status, ![r].wait = wait,
                          ![r].operation = operation \/ @]

(* The provider answers that the post is out; the webhooks come next.      *)
Published(c) ==
    /\ Awaits(c, "provider")
    /\ receipts' = Written(c, "published", FALSE, FALSE)
    /\ posted' = posted \cup {Target(c)}
    /\ calls' = [calls EXCEPT ![c].pc = "notify"]
    /\ UNCHANGED <<worldVars, actions, loop, todo, crashes>>

(* The provider answers with an operation to finish later.                 *)
Processing(c) ==
    /\ Awaits(c, "provider")
    /\ receipts' = Written(c, "processing", TRUE, TRUE)
    /\ GoTo(c, "conclude")
    /\ UNCHANGED <<worldVars, actions, posted, crashes>>

(* The provider refuses; or it made the post and its answer is lost.       *)
Failure(c) ==
    /\ Awaits(c, "provider")
    /\ receipts' = Written(c, "failed", FALSE, FALSE)
    /\ posted' \in {posted, posted \cup {Target(c)}}
    /\ GoTo(c, "conclude")
    /\ UNCHANGED <<worldVars, actions, crashes>>

(* The webhooks of post.published were called, whatever they answered.     *)
Notified(c) ==
    /\ Awaits(c, "notify")
    /\ GoTo(c, "conclude")
    /\ UNCHANGED <<worldVars, actions, receipts, posted, crashes>>

(* Mutant of Conclude: everything that did not fail counts as a success.   *)
ConcludeOptimistically(c) ==
    LET a == calls[c].action  r == calls[c].receipt IN
    /\ Runs(c, "conclude")
    /\ actions' = IF a = NoAction \/ ~Kept(r) THEN actions
                  ELSE Moved(a, IF receipts[r].status = "failed" THEN "failed" ELSE "succeeded")
    /\ Return(c)
    /\ UNCHANGED <<worldVars, receipts, posted, crashes>>

(* The attempt returns the receipt as it is now, and dispatch concludes    *)
(* from it.  A receipt that is gone makes the adapter throw, which leaves  *)
(* the action dispatching; the retry route concludes nothing.              *)
Conclude(c) ==
    LET a == calls[c].action  r == calls[c].receipt IN
    /\ Runs(c, "conclude")
    /\ actions' =
          IF a = NoAction \/ ~Kept(r) THEN actions
          ELSE CASE receipts[r].status = "published" -> Moved(a, "succeeded")
                 [] receipts[r].status = "failed" -> Moved(a, "failed")
                 [] OTHER -> actions
    /\ Return(c)
    /\ UNCHANGED <<worldVars, receipts, posted, crashes>>

(***************************************************************************)
(* What else touches the rows.                                             *)
(***************************************************************************)

(* The retry route attempts a failed receipt; no coordinator is involved.  *)
Retry(c) ==
    /\ Starts(c)
    /\ \E r \in DOMAIN receipts :
          /\ receipts[r].status = "failed"
          /\ calls' = [calls EXCEPT ![c].pc = "attempt", ![c].receipt = r]
    /\ loop' = c
    /\ UNCHANGED <<worldVars, actions, receipts, todo, posted, crashes>>

Without(gone) ==
    [r \in DOMAIN receipts |->
       IF r \in gone THEN [receipts[r] EXCEPT !.status = "deleted"] ELSE receipts[r]]

(* The delete route cancels a scheduled receipt.                           *)
DeleteReceipt ==
    /\ loop = Nobody
    /\ \E r \in DOMAIN receipts :
          receipts[r].status = "scheduled" /\ receipts' = Without({r})
    /\ UNCHANGED <<worldVars, actions, callVars, posted, crashes>>

(* The cadence's scheduled receipts are deleted and its actions cancelled  *)
(* where that is legal: by the fill while the kill switch is up, and when  *)
(* the cadence itself is deleted.                                          *)
StopCadence ==
    LET pending == {a \in DOMAIN actions :
                      actions[a].automated /\ actions[a].status \notin {"cancelled", "stale"}}
    IN
    /\ loop = Nobody
    /\ cadence
    /\ \/ /\ "kill_switch" \in raised /\ "disconnected" \notin raised
          /\ UNCHANGED cadence
       \/ cadence' = FALSE
    /\ receipts' = Without({r \in DOMAIN receipts :
                              /\ actions[receipts[r].action].automated
                              /\ receipts[r].status = "scheduled"})
    /\ actions' = [a \in DOMAIN actions |->
                     IF a \in pending THEN Moved(a, "cancelled")[a] ELSE actions[a]]
    /\ UNCHANGED <<subject, policy, raised, now, changes, callVars, posted, crashes>>

(* The draft's media or destination, the policy or a guardrail changes.    *)
Change ==
    /\ loop = Nobody
    /\ changes < MaxChanges /\ changes + crashes < MaxEvents
    /\ changes' = changes + 1
    /\ \/ /\ "subject" \in Changing
          /\ subject' \in (Subjects \cup {NoSubject}) \ {subject}
          /\ UNCHANGED <<policy, raised>>
       \/ /\ "policy" \in Changing
          /\ policy' \in Policies \ {policy}
          /\ UNCHANGED <<subject, raised>>
       \/ /\ \E g \in Guardrails \cap Changing :
                raised' = IF g \in raised THEN raised \ {g} ELSE raised \cup {g}
          /\ UNCHANGED <<subject, policy>>
    /\ UNCHANGED <<cadence, now, actions, receipts, callVars, posted, crashes>>

(* The scheduled time comes, or the retry time of a processing receipt.    *)
TimePasses ==
    /\ loop = Nobody
    /\ \/ now = 0 /\ now' = 1 /\ UNCHANGED receipts
       \/ /\ \E r \in DOMAIN receipts :
                receipts[r].wait /\ receipts' = [receipts EXCEPT ![r].wait = FALSE]
          /\ UNCHANGED now
    /\ UNCHANGED <<subject, policy, raised, cadence, changes, actions, callVars,
                   posted, crashes>>

(* The process dies and is started again; the rows stay, and the provider  *)
(* may have made the posts that were asked for.                            *)
Crash ==
    /\ crashes < MaxCrashes /\ changes + crashes < MaxEvents
    /\ \E c \in Callers : calls[c].pc # "idle"
    /\ calls' = [c \in Callers |-> Idle]
    /\ todo' = [c \in Callers |-> {}]
    /\ loop' = Nobody
    /\ crashes' = crashes + 1
    /\ \E C \in SUBSET {c \in Callers : calls[c].pc = "provider"} :
          posted' = posted \cup {Target(c) : c \in C}
    /\ UNCHANGED <<worldVars, actions, receipts>>

(* The steps a call under way takes by itself.                             *)
Goes(c) == Gate(c) \/ Dispatch(c) \/ Execute(c) \/ Attempt(c) \/ Conclude(c)

Next ==
    \/ \E c \in Callers :
          \/ Propose(c) \/ Repropose(c) \/ Authorize(c) \/ Run(c) \/ Retry(c)
          \/ Goes(c)
          \/ Published(c) \/ Processing(c) \/ Failure(c) \/ Notified(c)
    \/ Cancel \/ DeleteReceipt \/ StopCadence
    \/ Change \/ TimePasses \/ Crash

Spec == Init /\ [][Next]_vars

(***************************************************************************)
(* Safety.                                                                 *)
(***************************************************************************)

(* The coordinator calls the provider for action a in this step.           *)
Begins(c, a) ==
    calls[c].pc # "provider" /\ calls'[c].pc = "provider" /\ calls[c].action = a

(* No post without its gate: whenever the coordinator calls the provider,  *)
(* the action says what revalidation would build now under today's policy, *)
(* its time has come, nobody cancelled it, and if that policy or its       *)
(* copilot origin asks for a human, a person authorized this very action   *)
(* or approved the same draft before and nothing is being reproposed.      *)
NothingSkipsTheGate ==
    [][\A c \in Callers, a \in DOMAIN actions : Begins(c, a) =>
          /\ ~Diverged(a)
          /\ actions[a].status = "dispatching"
          /\ actions[a].requestedFor <= now
          /\ policy = "human_required" \/ actions[a].review =>
                \/ actions[a].authority = "person"
                \/ /\ actions[a].authority = "approval"
                   /\ subject \in Covered
                   /\ ~actions[a].review
                   /\ actions[a].supersedes = NoAction]_vars

(* Guardrails hold for resumed work too: however an action came to be      *)
(* dispatching, before a crash or before the kill switch went up, the      *)
(* coordinator calls the provider only while none of its guardrails is up, *)
(* and no second action reaches a destination with a live receipt.         *)
GuardrailsHoldAtTheCall ==
    [][\A c \in Callers, a \in DOMAIN actions : Begins(c, a) =>
          /\ "disconnected" \notin raised
          /\ actions[a].automated => raised = {}
          /\ \A r \in DOMAIN receipts : receipts[r].action # a =>
                receipts[r].status \in {"failed", "deleted"}]_vars

(* Refusals and successes are final, and what is under way moves only      *)
(* forward, although late attempts, runs with an old list and reproposals  *)
(* of other calls all still refer to the action.                           *)
OutcomesAreFinal ==
    [][\A a \in DOMAIN actions :
          /\ actions[a].status \in {"succeeded", "cancelled"} => actions'[a] = actions[a]
          /\ actions[a].status = "dispatching" =>
                actions'[a].status \in {"dispatching", "succeeded", "failed"}]_vars

(* An action is reported as succeeded only if the provider made its post,  *)
(* not when it merely took the upload for processing (sprint 75, 6.3).     *)
SucceededMeansPosted ==
    \A a \in DOMAIN actions : actions[a].status = "succeeded" => a \in posted

(* Crashes between the writes of a dispatch, retries and overlapping runs  *)
(* never give an action two receipts at a time.                            *)
OneReceiptPerAction ==
    \A a \in DOMAIN actions : Cardinality(ReceiptsOf(a)) <= 1

(***************************************************************************)
(* What the documents promise.                                             *)
(***************************************************************************)

(* "A scheduled first attempt calls publishPost once" (sprint 75, 6.2): no *)
(* two publishPost calls for one receipt are in flight at the same time.   *)
FirstAttemptPostsOnce ==
    \A c, d \in Callers :
        /\ calls[c].pc = "provider" /\ ~calls[c].resumes
        /\ calls[d].pc = "provider" /\ ~calls[d].resumes
        /\ calls[c].receipt = calls[d].receipt
        => c = d
=============================================================================
