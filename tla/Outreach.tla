------------------------------ MODULE Outreach ------------------------------
(***************************************************************************)
(* Email sequences: a tick enrolls people, has one email of their sequence *)
(* drafted after the other, lets each out as a governed external action    *)
(* and reacts to replies (outreach-engine.ts, outreach-sequences.ts), the  *)
(* recipient's permission and suppressions guard every send                *)
(* (email-recipient-safety.ts, external-action-email.ts), and a poll reads *)
(* the replies (mailbox-inbox.ts).  Ticks of the job and of the "run now"  *)
(* route overlap, and each works from rows it read before its awaits.      *)
(*                                                                         *)
(* Left out, none of them a way to let a mail go: the kill switch, a       *)
(* disconnected mailbox, an exhausted budget.  One mailbox sends for all,  *)
(* within one day.  The coordinator's own steps are ExternalActions'; here *)
(* its writes between two awaits of the adapter are one step.              *)
(***************************************************************************)
EXTENDS Integers, FiniteSets

CONSTANTS
    Sequences,      \* sequences in a mode that sends, with stopOnReply on
    People,         \* members of every sequence's audience
    Steps,          \* per sequence, its number of emails
    Delay,          \* time from a sent email to the next one
    Automatic,      \* sequences in mode scheduled_auto; the others ask a human
    Permitted,      \* people the founder has permitted to be mailed so far
    Gated,          \* sequences whose sends need a human's authorization
    DailyCap,       \* mails the mailbox may send in a day
    EnrollmentCap,  \* people a sequence may enroll in a day
    Retry,          \* how long an out-of-office reply parks an enrollment
    Callers,        \* ticks, and requests that dispatch one action
    None,           \* no sequence, or no message
    Labels,         \* labels a reply may get
    MaxReplies, MaxClock, MaxEvents   \* bounds

ASSUME OutreachAssumption ==
    /\ Steps \in [Sequences -> Nat \ {0}]
    /\ {Delay, DailyCap, EnrollmentCap, Retry, MaxReplies, MaxEvents} \subseteq Nat
    /\ MaxClock \in Nat \ {0}
    /\ Automatic \subseteq Sequences /\ Gated \subseteq Sequences
    /\ None \notin Sequences /\ None \notin Sequences \X People \X Nat
    /\ Labels \subseteq {"out_of_office", "unsubscribe_request", "bounce", "positive"}
    /\ IsFiniteSet(Callers) /\ Callers # {}

VARIABLES
    clock,          \* time, from 1 on: 0 stands for a time not set
    statuses,       \* per sequence
    enrollments,    \* per enrollment, what its row says
    messages,       \* per enrollment and step
    actions,        \* per message, its latest external action
    permissions, suppressions,      \* per person
    replies,        \* what people wrote back
    calls,          \* per caller, how far it is and what it has read
    events,         \* what else happened so far, see Event
    optedOut        \* history: who unsubscribed

db == <<statuses, enrollments, messages, actions, permissions, suppressions>>
history == <<events, optedOut>>
vars == <<clock, db, replies, calls, history>>

(* An enrollment is named by its sequence and its person, a message by its *)
(* enrollment and its step; unique indexes keep both single.  since is the *)
(* last send, or the enrollment while nothing was sent (not threaded).     *)
Enrollments == Sequences \X People
MessageIds == UNION {{s} \X People \X (1..Steps[s]) : s \in Sequences}
EnrollmentOf(m) == <<m[1], m[2]>>

Enrollment ==
    [status : {"active", "replied", "stopped", "failed", "completed"},
     step : Nat, due : Nat, since : Nat, threaded : BOOLEAN, handled : Nat]

Message ==
    [status : {"pending", "sent", "failed"}, sent : Nat,
     draft : {"none", "pending_review", "approved", "rejected"}]

Action ==
    [status : {"authorization_required", "dispatching", "succeeded", "blocked",
               "cancelled"},
     threaded : BOOLEAN, linked : BOOLEAN, accepted : Nat]

Reply == [from : People, at : Nat, label : Labels \cup {"none"}]

(* What a call has read and not yet used, and the message it works on.     *)
Idle == [pc |-> "idle", began |-> 0, todo |-> {}, seq |-> None, rows |-> <<>>,
         msg |-> None, row |-> <<>>, goesOn |-> FALSE]

(* What else may happen while the ticks do their work, up to a bound: time *)
(* passes, somebody replies or intervenes, something fails, or a call is   *)
(* begun while another is under way.                                       *)
Event == events < MaxEvents /\ events' = events + 1

Starting(c) ==
    /\ calls[c].pc = "idle"
    /\ IF \A d \in Callers : calls[d].pc = "idle" THEN UNCHANGED events ELSE Event

Put(f, x, v) == [y \in DOMAIN f \cup {x} |-> IF y = x THEN v ELSE f[y]]
Without(f, x) == [y \in DOMAIN f \ {x} |-> f[y]]
Later(a, b) == IF a > b THEN a ELSE b

Init ==
    /\ clock = 1
    /\ statuses \in [Sequences -> {"active"}]
    /\ enrollments = <<>> /\ messages = <<>> /\ actions = <<>>
    /\ permissions = [p \in People |-> IF p \in Permitted THEN "allowed" ELSE "unknown"]
    /\ suppressions = [p \in People |-> "none"]
    /\ replies = <<>>
    /\ calls = [c \in Callers |-> Idle]
    /\ events = 0 /\ optedOut = {}

(***************************************************************************)
(* Who may be mailed.                                                      *)
(***************************************************************************)

SentToday == {m \in DOMAIN actions : actions[m].accepted # 0}

(* Mutant of Guarded: the mailbox's cap is left to the tick that proposes. *)
GuardedByRecipientOnly(p) == suppressions[p] = "none" /\ permissions[p] = "allowed"

(* The guard of the send: the recipient's safety, then the mailbox's cap.  *)
Guarded(p) ==
    /\ suppressions[p] = "none"
    /\ permissions[p] = "allowed"
    /\ Cardinality(SentToday) < DailyCap

(* Mutant of Unsubscribed: an existing suppression keeps its reason.       *)
UnsubscribedOnce(p) ==
    /\ permissions' = [permissions EXCEPT ![p] = "suppressed"]
    /\ suppressions' = [suppressions EXCEPT ![p] = IF @ = "none" THEN "lasting" ELSE @]
    /\ optedOut' = optedOut \cup {p}

(* A person, or a handled reply, unsubscribes: whatever the row said, its  *)
(* reason is now one no later permission lifts.                            *)
Unsubscribed(p) ==
    /\ permissions' = [permissions EXCEPT ![p] = "suppressed"]
    /\ suppressions' = [suppressions EXCEPT ![p] = "lasting"]
    /\ optedOut' = optedOut \cup {p}

(* A bounce and an imported list only insert where there is no row.        *)
Suppressed(p) ==
    /\ suppressions' = [suppressions EXCEPT ![p] = IF @ = "none" THEN "lasting" ELSE @]
    /\ UNCHANGED <<permissions, optedOut>>

Unsubscribe(p) ==
    /\ Unsubscribed(p) /\ Event
    /\ UNCHANGED <<clock, statuses, enrollments, messages, actions, replies, calls>>

Import(p) ==
    /\ Suppressed(p) /\ Event
    /\ UNCHANGED <<clock, statuses, enrollments, messages, actions, replies, calls>>

(* The founder permits or suppresses; permitting lifts only the founder's  *)
(* own suppression.                                                        *)
UpdatePermission(p, status) ==
    /\ permissions' = [permissions EXCEPT ![p] = status]
    /\ suppressions' = [suppressions EXCEPT ![p] =
           CASE status = "suppressed" /\ @ = "none" -> "founder"
             [] status = "allowed" /\ @ = "founder" -> "none"
             [] OTHER -> @]
    /\ Event
    /\ UNCHANGED <<clock, statuses, enrollments, messages, actions, replies, calls, optedOut>>

(***************************************************************************)
(* A tick: enroll, then go through the active enrollments of a sequence.   *)
(***************************************************************************)

Active(e) == enrollments[e].status = "active"

(* Mutant of Enrollable: only this sequence's own enrollments count.       *)
EnrollableHere(s) ==
    {p \in People : <<s, p>> \notin DOMAIN enrollments /\ suppressions[p] = "none"}

(* Not yet in the sequence, in no other one at the moment, not suppressed. *)
Enrollable(s) ==
    {p \in People :
        /\ <<s, p>> \notin DOMAIN enrollments
        /\ ~\E e \in DOMAIN enrollments : e[2] = p /\ Active(e)
        /\ suppressions[p] = "none"}

EnrolledToday(s) == Cardinality({e \in DOMAIN enrollments : e[1] = s})

Joins(s, new, at) ==
    [e \in DOMAIN enrollments \cup ({s} \X new) |->
        IF e \in DOMAIN enrollments THEN enrollments[e]
        ELSE [status |-> "active", step |-> 0, due |-> at, since |-> at,
              threaded |-> FALSE, handled |-> 0]]

(* Open sequence s: as many of its audience as its daily cap leaves room   *)
(* for are enrolled, then the rows to work from are read, once.            *)
OpenSequence(c, s, call) ==
    \E new \in SUBSET Enrollable(s) :
        /\ LET room == EnrollmentCap - EnrolledToday(s) IN
              \/ Cardinality(new) = room
              \/ Cardinality(new) < room /\ new = Enrollable(s)
              \/ room <= 0 /\ new = {}
        /\ enrollments' = Joins(s, new, call.began)
        /\ calls' = [calls EXCEPT ![c] = [call EXCEPT !.todo = @ \ {s}, !.seq = s, !.rows =
              [e \in {x \in DOMAIN enrollments' : x[1] = s /\ enrollments'[x].status = "active"}
                  |-> enrollments'[e]]]]

(* A tick reads which sequences are active, once, and opens the first.     *)
Begin(c) ==
    LET active == {s \in Sequences : statuses[s] = "active"} IN
    /\ Starting(c)
    /\ \E s \in active :
          OpenSequence(c, s, [Idle EXCEPT !.pc = "walking", !.began = clock, !.todo = active])
    /\ UNCHANGED <<clock, statuses, messages, actions, permissions, suppressions, replies, optedOut>>

(* A paused sequence with nobody left in it is completed; then the next.   *)
CloseSequence(c) ==
    LET s == calls[c].seq
        members == {e \in DOMAIN enrollments : e[1] = s} IN
    /\ calls[c].pc = "walking" /\ DOMAIN calls[c].rows = {}
    /\ statuses' = [statuses EXCEPT ![s] =
           IF @ = "paused" /\ members # {} /\ \A e \in members : ~Active(e)
           THEN "completed" ELSE @]
    /\ \/ \E next \in calls[c].todo : OpenSequence(c, next, calls[c])
       \/ /\ calls[c].todo = {}
          /\ calls' = [calls EXCEPT ![c] = Idle]
          /\ UNCHANGED enrollments
    /\ UNCHANGED <<clock, messages, actions, permissions, suppressions, replies, history>>

(* Back to the walk, or the end of a request that only dispatched.         *)
Returned(c) ==
    IF calls[c].seq = None THEN Idle
    ELSE [calls[c] EXCEPT !.pc = "walking", !.msg = None, !.row = <<>>, !.goesOn = FALSE]

Set(e, row) == enrollments' = [enrollments EXCEPT ![e] = row]

(***************************************************************************)
(* Replies.                                                                *)
(***************************************************************************)

(* The ingested replies of the person since the last send or the last      *)
(* handled reply, going by the row the tick read.                          *)
Unhandled(e, row) ==
    LET since == Later(row.since, row.handled) IN
    {i \in DOMAIN replies :
        replies[i].from = e[2] /\ replies[i].at > since}

Newest(hits) == {i \in hits : \A j \in hits : replies[j].at <= replies[i].at}

Handled(e, i, status, due) ==
    Set(e, [enrollments[e] EXCEPT !.status = status, !.due = due, !.handled = replies[i].at])

(* An out-of-office reply sets the next due time and nothing else; every   *)
(* other ends the enrollment, one not labeled yet as if it were friendly.  *)
HandleReply(c, e) ==
    LET row == calls[c].rows[e] IN
    /\ calls[c].pc = "walking" /\ e \in DOMAIN calls[c].rows
    /\ \E i \in Newest(Unhandled(e, row)) :
          \/ /\ replies[i].label = "out_of_office"
             /\ Handled(e, i, enrollments[e].status, calls[c].began + Retry)
             /\ UNCHANGED <<permissions, suppressions, optedOut>>
          \/ /\ replies[i].label = "unsubscribe_request"
             /\ Unsubscribed(e[2])
             /\ Handled(e, i, "stopped", 0)
          \/ /\ replies[i].label = "bounce"
             /\ Suppressed(e[2])
             /\ Handled(e, i, "failed", 0)
          \/ /\ replies[i].label \in {"positive", "none"}
             /\ Handled(e, i, "replied", 0)
             /\ UNCHANGED <<permissions, suppressions, optedOut>>
    /\ calls' = [calls EXCEPT ![c].rows = Without(@, e)]
    /\ UNCHANGED <<clock, statuses, messages, actions, replies, events>>

(***************************************************************************)
(* Sending one message.                                                    *)
(***************************************************************************)

Threaded(m) == enrollments[EnrollmentOf(m)].threaded

(* Nothing proposed yet, or the linked action may be proposed again.       *)
Fresh(m) == m \in DOMAIN actions => actions[m].linked /\ actions[m].status = "blocked"

ActionOf(m, status, linked) ==
    [status |-> status, threaded |-> Threaded(m), linked |-> linked, accepted |-> 0]

(* An action a dead call left unlinked is found by its idempotency key and *)
(* linked; with another thread than the enrollment's it is a conflict.     *)
Found(m) == actions' = [actions EXCEPT ![m].linked = @ \/ actions[m].threaded = Threaded(m)]

(* Propose the send: here is the caller's state while it waits for Gmail,  *)
(* back its state otherwise.                                               *)
Propose(c, m, here, back) ==
    \/ /\ m[1] \in Gated \/ ~Guarded(m[2])
       /\ actions' = Put(actions, m, ActionOf(m,
              IF m[1] \in Gated THEN "authorization_required" ELSE "blocked", TRUE))
       /\ calls' = [calls EXCEPT ![c] = back]
    \/ /\ m[1] \notin Gated /\ Guarded(m[2])
       /\ actions' = Put(actions, m, ActionOf(m, "dispatching", FALSE))
       /\ calls' = [calls EXCEPT ![c] = [here EXCEPT !.pc = "sending"]]

Sendable == Cardinality(SentToday) < DailyCap

(* Gmail failed, or its answer was lost: the action stays dispatching.     *)
FailSend(c) ==
    LET m == calls[c].msg IN
    /\ calls[c].pc = "sending" /\ Event
    /\ actions' = [actions EXCEPT ![m].linked = @ \/ calls[c].seq # None]
    /\ calls' = [calls EXCEPT ![c] = Returned(c)]
    /\ UNCHANGED <<clock, statuses, enrollments, messages, permissions, suppressions, replies, optedOut>>

Noted(e, at) == [enrollments[e] EXCEPT !.since = at, !.threaded = TRUE]

(* With the message of the row's step sent: the sequence is over, the next *)
(* email is due and drafted, or its due time is noted.                     *)
Onward(c, e, row, sent, back) ==
    LET cur == IF row.threaded /\ row.since = sent THEN enrollments[e] ELSE Noted(e, sent) IN
    \/ /\ row.step >= Steps[e[1]]
       /\ Set(e, [cur EXCEPT !.status = "completed", !.due = 0])
       /\ calls' = [calls EXCEPT ![c] = back]
    \/ /\ row.step < Steps[e[1]] /\ back.began >= sent + Delay
       /\ Set(e, cur)
       /\ calls' = [calls EXCEPT ![c] =
              [back EXCEPT !.pc = "generating", !.msg = <<e[1], e[2], row.step + 1>>]]
    \/ /\ row.step < Steps[e[1]] /\ back.began < sent + Delay
       /\ Set(e, IF row.due = sent + Delay THEN cur ELSE [cur EXCEPT !.due = sent + Delay])
       /\ calls' = [calls EXCEPT ![c] = back]

(* Gmail took the mail: delivery and message say so, the action succeeds,  *)
(* and a tick notes it on the enrollment and, if the message was of an     *)
(* earlier tick, goes on from there.                                       *)
Accept(c) ==
    LET call == calls[c]
        m == call.msg
        e == EnrollmentOf(m) IN
    /\ call.pc = "sending"
    /\ actions' = [actions EXCEPT ![m].accepted = clock, ![m].linked = TRUE, ![m].status = "succeeded"]
    /\ messages' = [messages EXCEPT ![m].status = "sent", ![m].sent = clock]
    /\ \/ /\ call.goesOn
          /\ Onward(c, e, [call.row EXCEPT !.threaded = FALSE], clock, Returned(c))
       \/ /\ ~call.goesOn
          /\ calls' = [calls EXCEPT ![c] = Returned(c)]
          /\ IF call.seq = None THEN UNCHANGED enrollments ELSE Set(e, Noted(e, clock))
    /\ UNCHANGED <<clock, statuses, permissions, suppressions, replies, history>>

(* The process dies: whatever waited for a draft or for Gmail is gone.     *)
Died == calls' = [c \in Callers |-> Idle] /\ Event

(* Or it dies after Gmail took the mail, and the writes end with the       *)
(* delivery, with the message or with the action.                          *)
AcceptAndDie(c) ==
    LET m == calls[c].msg IN
    /\ calls[c].pc = "sending" /\ Died
    /\ \E written \in {"delivery", "message", "action"} :
          /\ actions' = [actions EXCEPT ![m].accepted = clock,
                            ![m].linked = @ \/ written # "delivery",
                            ![m].status = IF written = "action" THEN "succeeded" ELSE @]
          /\ messages' = IF written = "delivery" THEN messages
                         ELSE [messages EXCEPT ![m].status = "sent", ![m].sent = clock]
    /\ UNCHANGED <<clock, statuses, enrollments, permissions, suppressions, replies, optedOut>>

(***************************************************************************)
(* Advancing one enrollment.                                               *)
(***************************************************************************)

(* Mutant of Ready: a draft nobody has reviewed yet will do.               *)
ReadyUnlessRejected(m) == messages[m].status = "pending" /\ messages[m].draft # "rejected"

(* The message waits to be sent and its draft is approved.                 *)
Ready(m) == messages[m].status = "pending" /\ messages[m].draft = "approved"

(* Mutant of Gone: the sequence goes on unless the message still waits.    *)
NoLongerPending(m) == messages[m].status # "pending"

Gone(m) == messages[m].status = "sent"

Advance(c, e) ==
    LET row == calls[c].rows[e]
        m == <<e[1], e[2], row.step>>
        back == [calls[c] EXCEPT !.rows = Without(@, e)] IN
    /\ calls[c].pc = "walking" /\ e \in DOMAIN calls[c].rows
    /\ Unhandled(e, row) = {}
    /\ \/ /\ row.step = 0
          /\ calls' = [calls EXCEPT ![c] =
                 [back EXCEPT !.pc = "generating", !.msg = <<e[1], e[2], 1>>]]
          /\ UNCHANGED <<actions, enrollments>>
       \/ /\ row.step > 0 /\ Ready(m) /\ Sendable /\ ~Fresh(m)
          /\ Found(m)
          /\ calls' = [calls EXCEPT ![c] = back]
          /\ UNCHANGED enrollments
       \/ /\ row.step > 0 /\ Ready(m) /\ Sendable /\ Fresh(m)
          /\ Propose(c, m, [back EXCEPT !.msg = m, !.row = row, !.goesOn = TRUE], back)
          /\ UNCHANGED enrollments
       \/ /\ row.step > 0 /\ Gone(m)
          /\ Onward(c, e, row, messages[m].sent, back)
          /\ UNCHANGED actions
       \/ /\ row.step > 0 /\ ~Gone(m) /\ ~(Ready(m) /\ Sendable)
          /\ calls' = [calls EXCEPT ![c] = back]
          /\ UNCHANGED <<actions, enrollments>>
    /\ UNCHANGED <<clock, statuses, messages, permissions, suppressions, replies, history>>

(* The unique index on enrollment and step.                                *)
Missing(m) == m \notin DOMAIN messages

(* Now the enrollment moves to the step, whatever became of it meanwhile;  *)
(* an automatic sequence approves its draft and sends it.                  *)
StartStep(c, m) ==
    LET e == EnrollmentOf(m)
        automatic == m[1] \in Automatic IN
    /\ Set(e, [enrollments[e] EXCEPT !.step = m[3], !.due = 0])
    /\ messages' = Put(messages, m, [status |-> "pending", sent |-> 0,
                       draft |-> IF automatic THEN "approved" ELSE "pending_review"])
    /\ \/ /\ automatic /\ Sendable
          /\ Propose(c, m, calls[c], Returned(c))
       \/ /\ ~(automatic /\ Sendable)
          /\ calls' = [calls EXCEPT ![c] = Returned(c)]
          /\ UNCHANGED actions

(* The draft is generated and its message inserted.  A second one for the  *)
(* step violates the unique index, and so does the record of that failure: *)
(* the whole advance is abandoned.                                         *)
Draft(c) ==
    LET m == calls[c].msg
        e == EnrollmentOf(m)
        moved == [enrollments EXCEPT ![e].step = m[3], ![e].due = 0] IN
    /\ calls[c].pc = "generating"
    /\ \/ /\ ~Missing(m)
          /\ calls' = [calls EXCEPT ![c] = Returned(c)]
          /\ UNCHANGED <<enrollments, messages, actions, events>>
       \/ /\ Missing(m)
          /\ StartStep(c, m)
          /\ UNCHANGED events
       \/ /\ Missing(m) /\ Event
          /\ enrollments' = moved
          /\ messages' = Put(messages, m, [status |-> "failed", sent |-> 0, draft |-> "none"])
          /\ calls' = [calls EXCEPT ![c] = Returned(c)]
          /\ UNCHANGED actions
       \/ /\ Missing(m) /\ Died
          /\ enrollments' \in {enrollments, moved}
          /\ messages' = Put(messages, m, [status |-> "pending", sent |-> 0, draft |-> "pending_review"])
          /\ UNCHANGED actions
    /\ UNCHANGED <<clock, statuses, permissions, suppressions, replies, optedOut>>

(***************************************************************************)
(* People.                                                                 *)
(***************************************************************************)

Review(m, verdict) ==
    /\ messages[m].draft = "pending_review"
    /\ messages' = [messages EXCEPT ![m].draft = verdict]
    /\ UNCHANGED <<clock, statuses, enrollments, actions, permissions, suppressions, replies, calls, history>>

(* A human authorizes the send, and the request dispatches it; its thread  *)
(* is still the proposed one, only the send itself could have changed it.  *)
Authorize(c, m) ==
    /\ actions[m].status = "authorization_required" /\ Starting(c)
    /\ \/ /\ ~Guarded(m[2])
          /\ actions' = [actions EXCEPT ![m].status = "blocked"]
          /\ UNCHANGED calls
       \/ /\ Guarded(m[2])
          /\ actions' = [actions EXCEPT ![m].status = "dispatching"]
          /\ calls' = [calls EXCEPT ![c] = [Idle EXCEPT !.pc = "sending", !.msg = m]]
    /\ UNCHANGED <<clock, statuses, enrollments, messages, permissions, suppressions, replies, optedOut>>

Deny(m) ==
    /\ actions[m].status = "authorization_required"
    /\ actions' = [actions EXCEPT ![m].status = "cancelled"]
    /\ UNCHANGED <<clock, statuses, enrollments, messages, permissions, suppressions, replies, calls, history>>

(* The job that resumes what is dispatching: a delivery Gmail took is only *)
(* noted again, any other is sent again.                                   *)
Resume(c, m) ==
    /\ actions[m].status = "dispatching" /\ actions[m].threaded = Threaded(m) /\ Guarded(m[2])
    /\ Starting(c)
    /\ \/ /\ actions[m].accepted = 0
          /\ calls' = [calls EXCEPT ![c] = [Idle EXCEPT !.pc = "sending", !.msg = m]]
          /\ UNCHANGED <<messages, actions>>
       \/ /\ actions[m].accepted # 0
          /\ messages' = [messages EXCEPT ![m].status = "sent", ![m].sent = actions[m].accepted]
          /\ actions' = [actions EXCEPT ![m].status = "succeeded", ![m].linked = TRUE]
          /\ UNCHANGED calls
    /\ UNCHANGED <<clock, statuses, enrollments, permissions, suppressions, replies, optedOut>>

Stop(e) ==
    /\ Active(e) /\ Event
    /\ Set(e, [enrollments[e] EXCEPT !.status = "stopped", !.due = 0])
    /\ UNCHANGED <<clock, statuses, messages, actions, permissions, suppressions, replies, calls, optedOut>>

SetStatus(s, status) ==
    /\ statuses[s] # status /\ Event
    /\ statuses' = [statuses EXCEPT ![s] = status]
    /\ UNCHANGED <<clock, enrollments, messages, actions, permissions, suppressions, replies, calls, optedOut>>

(* The poll reads in what somebody answered to a mail, at any time since,  *)
(* and later labels it, or never does.                                     *)
Ingest(p, at) ==
    /\ Cardinality(DOMAIN replies) < MaxReplies
    /\ \E m \in SentToday : m[2] = p /\ actions[m].accepted <= at
    /\ replies' = Put(replies, Cardinality(DOMAIN replies) + 1,
                     [from |-> p, at |-> at, label |-> "none"])
    /\ Event
    /\ UNCHANGED <<clock, db, calls, optedOut>>

Classify(i, label) ==
    /\ replies[i].label = "none"
    /\ replies' = [replies EXCEPT ![i].label = label]
    /\ UNCHANGED <<clock, db, calls, history>>

Crash ==
    /\ \E c \in Callers : calls[c].pc # "idle"
    /\ Died
    /\ UNCHANGED <<clock, db, replies, optedOut>>

Tick ==
    /\ clock < MaxClock
    /\ clock' = clock + 1
    /\ Event
    /\ UNCHANGED <<db, replies, calls, optedOut>>

Next ==
    \/ \E c \in Callers :
          \/ Begin(c) \/ CloseSequence(c) \/ Draft(c)
          \/ Accept(c) \/ AcceptAndDie(c) \/ FailSend(c)
          \/ \E e \in DOMAIN enrollments : HandleReply(c, e) \/ Advance(c, e)
          \/ \E m \in DOMAIN actions : Authorize(c, m) \/ Resume(c, m)
    \/ \E m \in DOMAIN messages, verdict \in {"approved", "rejected"} : Review(m, verdict)
    \/ \E m \in DOMAIN actions : Deny(m)
    \/ \E e \in DOMAIN enrollments : Stop(e)
    \/ \E s \in Sequences, status \in {"active", "paused"} : SetStatus(s, status)
    \/ \E p \in People :
          \/ Unsubscribe(p) \/ Import(p)
          \/ \E status \in {"allowed", "suppressed"} : UpdatePermission(p, status)
          \/ \E at \in 1..clock : Ingest(p, at)
    \/ \E i \in DOMAIN replies, label \in Labels : Classify(i, label)
    \/ Crash
    \/ Tick

Spec == Init /\ [][Next]_vars

(***************************************************************************)
(* Properties.                                                             *)
(***************************************************************************)

TypeOK ==
    /\ clock \in 1..MaxClock
    /\ statuses \in [Sequences -> {"active", "paused", "completed"}]
    /\ DOMAIN enrollments \subseteq Enrollments
    /\ enrollments \in [DOMAIN enrollments -> Enrollment]
    /\ DOMAIN actions \subseteq DOMAIN messages /\ DOMAIN messages \subseteq MessageIds
    /\ messages \in [DOMAIN messages -> Message]
    /\ actions \in [DOMAIN actions -> Action]
    /\ permissions \in [People -> {"unknown", "allowed", "suppressed"}]
    /\ suppressions \in [People -> {"none", "founder", "lasting"}]
    /\ DOMAIN replies \subseteq 1..MaxReplies /\ replies \in [DOMAIN replies -> Reply]
    /\ events \in 0..MaxEvents
    /\ optedOut \subseteq People

(* Gmail is called for the mail of caller c in this step.                  *)
Sends(c) == calls[c].pc # "sending" /\ calls'[c].pc = "sending"

(* One sequence at a time: nobody is active in two, although ticks enroll  *)
(* side by side and an enrollment may end while another tick works on it.  *)
OneSequencePerPerson ==
    \A d, e \in DOMAIN enrollments : d[2] = e[2] /\ Active(d) /\ Active(e) => d = e

(* Unsubscribing is for good: once a person used the link or a reply that  *)
(* asks for it was handled, no mail to them begins, in whichever sequence, *)
(* from whatever was drafted, approved, authorized or dispatching before,  *)
(* and no bounce, import or change of mind of the founder brings it back.  *)
UnsubscribingIsForGood ==
    [][\A c \in Callers : Sends(c) => calls'[c].msg[2] \notin optedOut]_vars

(* The cap is checked before Gmail is called and the mail counted after;   *)
(* what the callers have under way is the most it can be exceeded by.      *)
CapExceededOnlyByOverlap ==
    Cardinality(SentToday) + Cardinality({c \in Callers : calls[c].pc = "sending"})
        <= DailyCap + Cardinality(Callers) - 1

(* A sequence is mailed in order: an enrollment has messages for its first *)
(* steps only, all but the last of them sent, and its own step is the last *)
(* of them, or one behind while the call that drafted it moves it on.      *)
StepsInOrder ==
    \A e \in DOMAIN enrollments :
        LET drafted == {k \in 1..Steps[e[1]] : <<e[1], e[2], k>> \in DOMAIN messages}
            last == Cardinality(drafted) IN
        /\ drafted = 1..last
        /\ \A k \in 1..(last - 1) : messages[<<e[1], e[2], k>>].status = "sent"
        /\ enrollments[e].step \in {last, last - 1}

(* Consent: a mail begins only for an approved draft, of the recipient the *)
(* draft was for, and in a gated sequence only for an action a human       *)
(* authorized; a retry after a block, an overlapping tick or a resumed     *)
(* action does not get around it.                                          *)
NothingUnapproved ==
    [][\A c \in Callers : Sends(c) =>
          LET m == calls'[c].msg IN
          /\ messages'[m].draft = "approved"
          /\ m[1] \in Gated => actions[m].status \in {"authorization_required", "dispatching"}]_vars
=============================================================================
