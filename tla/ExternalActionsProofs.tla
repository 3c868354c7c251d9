----------------------- MODULE ExternalActionsProofs -----------------------
(***************************************************************************)
(* What governed publishing guarantees for any number of actions, receipts *)
(* and calls, whatever changes and however often the process dies.         *)
(***************************************************************************)
EXTENDS ExternalActions, FiniteSetTheorems, WellFoundedInduction, TLAPS

(* The steps a call takes without giving the event loop away.              *)
OnTheLoop == {"gate", "dispatch", "execute", "attempt", "conclude"}
WithAReceipt == {"attempt", "provider", "notify", "conclude"}

(* One call at a time runs.                                                *)
OneRuns == \A c \in Callers : calls[c].pc \in OnTheLoop => loop = c

(* What a call refers to exists, and its receipt is its action's.          *)
Refers(x) ==
    /\ x.pc = "idle" => x = Idle
    /\ x.pc \in {"gate", "dispatch", "execute"} => x.action \in DOMAIN actions
    /\ x.pc \in WithAReceipt =>
          /\ x.receipt \in DOMAIN receipts
          /\ x.action \in {NoAction, receipts[x.receipt].action}

(* What a call has made sure of and nobody has changed since.              *)
Cleared(a) ==
    /\ actions[a].status = "dispatching" /\ actions[a].requestedFor <= now
    /\ ~Diverged(a) /\ ~Guarded(a)

IsCurrent(x) ==
    /\ x.pc = "gate" => actions[x.action].status = "proposed" /\ ~Diverged(x.action)
    /\ x.pc = "execute" => Cleared(x.action)
    /\ x.pc = "attempt" => Kept(x.receipt) /\ (x.action # NoAction => Cleared(x.action))

CallsAreFine == \A c \in Callers : Refers(calls[c]) /\ IsCurrent(calls[c])

(* An action is let out by its policy, by the approval of its draft or by  *)
(* a person, and stays so.                                                 *)
LetOut(row) ==
    \/ row.authority = "person"
    \/ row.authority = "policy" /\ row.policy = "autonomous" /\ ~row.review
    \/ /\ row.authority = "approval" /\ row.subject \in Covered
       /\ ~row.review /\ row.supersedes = NoAction

OutStatuses == {"authorized", "scheduled", "dispatching", "succeeded", "failed"}

(* The rows of the actions: what is out was let out, and what counts as    *)
(* succeeded was posted.                                                   *)
ActionsAreFine ==
    /\ DOMAIN actions \subseteq ActionIds /\ actions \in [DOMAIN actions -> Action]
    /\ \A a \in DOMAIN actions : actions[a].status \in OutStatuses => LetOut(actions[a])
    /\ \A a \in DOMAIN actions : actions[a].status = "succeeded" => a \in posted

(* The receipts: each is of an action that exists, what counts as          *)
(* published was posted, and an action has one receipt at a time.          *)
ReceiptsAreFine ==
    /\ DOMAIN receipts \subseteq ReceiptIds /\ receipts \in [DOMAIN receipts -> Receipt]
    /\ \A r \in DOMAIN receipts : receipts[r].action \in DOMAIN actions
    /\ \A r \in DOMAIN receipts : receipts[r].status = "published" => receipts[r].action \in posted
    /\ \A r, q \in DOMAIN receipts :
          receipts[r].status # "deleted" /\ receipts[q].status # "deleted"
             /\ receipts[r].action = receipts[q].action => r = q

RowsAreFine ==
    /\ ActionsAreFine /\ ReceiptsAreFine
    /\ todo \in [Callers -> SUBSET DOMAIN actions] /\ posted \subseteq ActionIds

ExternalInv == TypeOK /\ RowsAreFine /\ OneRuns /\ CallsAreFine


(***************************************************************************)
(* Lemmas about the operators of the model.                                *)
(***************************************************************************)

Statuses ==
    {"proposed", "authorization_required", "authorized", "scheduled", "dispatching",
     "succeeded", "failed", "blocked", "stale", "cancelled"}

(* What the transitions allow: nothing leaves a success or a cancellation, *)
(* and only what has been let out goes on to be let out further.           *)
LEMMA TransitionsAre ==
  /\ DOMAIN Transitions = Statuses
  /\ \A s \in Statuses :
        /\ Transitions[s] \subseteq Statuses
        /\ Transitions[s] \cap {"scheduled", "dispatching", "succeeded", "failed"} # {} =>
              s \in {"authorized", "scheduled", "dispatching", "failed"}
        /\ s \in {"succeeded", "cancelled"} => Transitions[s] = {}
        /\ s = "dispatching" => Transitions[s] = {"succeeded", "failed"}
        /\ "authorized" \in Transitions[s] => s \in {"proposed", "authorization_required"}
<1>1. DOMAIN Transitions = Statuses
  BY DEF Transitions, Statuses
<1>2. /\ Transitions["proposed"] = {"authorization_required", "authorized", "blocked", "stale", "cancelled"}
      /\ Transitions["authorization_required"] = {"authorized", "stale", "cancelled"}
      /\ Transitions["authorized"] = {"scheduled", "dispatching", "blocked", "stale", "cancelled"}
      /\ Transitions["scheduled"] = {"dispatching", "blocked", "stale", "cancelled"}
      /\ Transitions["dispatching"] = {"succeeded", "failed"}
      /\ Transitions["succeeded"] = {}
      /\ Transitions["failed"] = {"scheduled", "dispatching", "cancelled"}
      /\ Transitions["blocked"] = {"proposed", "cancelled"}
      /\ Transitions["stale"] = {"cancelled"}
      /\ Transitions["cancelled"] = {}
  BY DEF Transitions
<1> QED
  BY <1>1, <1>2 DEF Statuses

(* A move changes the status of one row, and only the way it is allowed.   *)
LEMMA MovedIs ==
  ASSUME actions \in [DOMAIN actions -> Action], NEW a \in DOMAIN actions, NEW to
  PROVE  /\ Moved(a, to) \in [DOMAIN actions -> Action]
         /\ \A b \in DOMAIN actions : b # a => Moved(a, to)[b] = actions[b]
         /\ \/ Moved(a, to) = actions
            \/ /\ to \in Transitions[actions[a].status]
               /\ Moved(a, to)[a] = [actions[a] EXCEPT !.status = to]
               /\ Moved(a, to)[a].status = to
<1>1. actions[a] \in Action /\ actions[a].status \in Statuses
  BY TransitionsAre DEF Action
<1>2. CASE CanMove(a, to)
  <2>1. to \in Transitions[actions[a].status] /\ to \in DOMAIN Transitions
    BY <1>1, <1>2, TransitionsAre DEF CanMove
  <2>2. PICK row : row = [actions[a] EXCEPT !.status = to]
    OBVIOUS
  <2>3. row \in Action /\ row.status = to
    BY <1>1, <2>1, <2>2 DEF Action
  <2>4. Moved(a, to) = [actions EXCEPT ![a] = row]
    BY <1>2, <2>2 DEF Moved
  <2> QED
    BY <2>1, <2>2, <2>3, <2>4
<1>3. CASE ~CanMove(a, to)
  BY <1>3 DEF Moved
<1> QED
  BY <1>2, <1>3

(* A set of natural numbers has a least element.                           *)
LEMMA LeastIs ==
  ASSUME NEW S \in SUBSET Nat, S # {}
  PROVE  \E x \in S : \A y \in S : x <= y
<1>1. PICK x \in S : \A y \in S : ~ (<<y, x>> \in OpToRel(<, Nat))
  BY WFMin, NatLessThanWellFounded, Zenon
<1>2. ASSUME NEW y \in S, ~(x <= y) PROVE FALSE
  <2>1. <<y, x>> \in Nat \X Nat /\ <<y, x>>[1] < <<y, x>>[2]
    BY <1>2
  <2>2. <<y, x>> \in OpToRel(<, Nat)
    BY <2>1 DEF OpToRel
  <2> QED
    BY <1>1, <2>2
<1> QED
  BY <1>2

(* Call c goes on as x, and whatever x refers to is there.                 *)
GoesOnAs(c, x) ==
    /\ x \in Call /\ calls' = [calls EXCEPT ![c] = x]
    /\ loop' \in {c, Nobody} /\ (x.pc \in OnTheLoop => loop' = c)
    /\ Refers(x)' /\ IsCurrent(x)'

(* A call that is idle is a call, and refers to nothing.                   *)
LEMMA IdleIs ==
  /\ Idle \in Call /\ Idle.pc = "idle" /\ Idle.action = NoAction /\ Refers(Idle) /\ IsCurrent(Idle)
  BY DEF Idle, Call, Refers, IsCurrent, WithAReceipt

(* A call that returns takes up the next action of its run, or is done.    *)
LEMMA ReturnIs ==
  ASSUME ExternalInv, NEW c \in Callers, Return(c), DOMAIN actions \subseteq DOMAIN actions'
  PROVE  /\ \E x : GoesOnAs(c, x)
         /\ todo' \in [Callers -> SUBSET DOMAIN actions']
<1>1. /\ todo \in [Callers -> SUBSET DOMAIN actions] /\ DOMAIN actions \subseteq ActionIds
      /\ ActionIds \subseteq Nat /\ todo[c] \subseteq DOMAIN actions
  BY IdsAssumption DEF ExternalInv, RowsAreFine, ActionsAreFine
<1>2. CASE todo[c] = {}
  <2>1. calls' = [calls EXCEPT ![c] = Idle] /\ loop' = Nobody /\ todo' = todo
    BY <1>2 DEF Return
  <2>2. Refers(Idle)' /\ IsCurrent(Idle)'
    BY IdleIs DEF Refers, IsCurrent, WithAReceipt
  <2>3. GoesOnAs(c, Idle)
    BY <2>1, <2>2, IdleIs DEF GoesOnAs, OnTheLoop
  <2> QED
    BY <1>1, <2>1, <2>3
<1>3. CASE todo[c] # {}
  <2>1. PICK a : a = CHOOSE y \in todo[c] : \A z \in todo[c] : y <= z
    OBVIOUS
  <2>2. a \in todo[c]
    <3>1. todo[c] \in SUBSET Nat
      BY <1>1
    <3>2. \E y \in todo[c] : \A z \in todo[c] : y <= z
      BY <1>3, <3>1, LeastIs
    <3> QED
      BY <2>1, <3>2
  <2>3. PICK x : x = [Idle EXCEPT !.pc = "dispatch", !.action = a]
    OBVIOUS
  <2>4. /\ calls' = [calls EXCEPT ![c] = x] /\ loop' = c
        /\ todo' = [todo EXCEPT ![c] = @ \ {a}]
    BY <1>3, <2>1, <2>3 DEF Return
  <2>5. x \in Call /\ x.pc = "dispatch" /\ x.action = a
    BY <1>1, <2>2, <2>3, IdleIs DEF Call
  <2>6. a \in DOMAIN actions'
    BY <1>1, <2>2
  <2>7. Refers(x)' /\ IsCurrent(x)'
    BY <2>5, <2>6 DEF Refers, IsCurrent, WithAReceipt
  <2>8. GoesOnAs(c, x)
    BY <2>4, <2>5, <2>7 DEF GoesOnAs
  <2> QED
    BY <1>1, <2>4, <2>8
<1> QED
  BY <1>2, <1>3


(* What the invariant says of a call that runs, and of the others then.    *)
LEMMA CallIs ==
  ASSUME ExternalInv, NEW c \in Callers
  PROVE  /\ calls[c] \in Call /\ Refers(calls[c]) /\ IsCurrent(calls[c])
         /\ calls \in [Callers -> Call] /\ Nobody \notin Callers
         /\ calls[c].pc \in OnTheLoop => loop = c
         /\ loop \in Callers \cup {Nobody}
  BY CallersAssumption DEF ExternalInv, TypeOK, OneRuns, CallsAreFine

(* Rows are never taken away, and a receipt stays with its action.         *)
RowsStay ==
    /\ DOMAIN actions \subseteq DOMAIN actions' /\ DOMAIN receipts \subseteq DOMAIN receipts'
    /\ \A r \in DOMAIN receipts : receipts'[r].action = receipts[r].action

(* A call that has given the event loop away keeps what it refers to.      *)
LEMMA WaitingCallsStay ==
  ASSUME RowsStay, NEW x, Refers(x), x.pc \notin OnTheLoop
  PROVE  Refers(x)' /\ IsCurrent(x)'
<1>1. x.pc \notin {"gate", "dispatch", "execute", "attempt", "conclude"}
  BY DEF OnTheLoop
<1>2. Refers(x)'
  BY <1>1 DEF Refers, WithAReceipt, RowsStay
<1>3. IsCurrent(x)'
  BY <1>1 DEF IsCurrent
<1> QED
  BY <1>2, <1>3

(* The step of a call that the event loop serves keeps the invariant if it *)
(* leaves the rows and the call itself in order.                           *)
LEMMA CallStepKeeps ==
  ASSUME ExternalInv, NEW c \in Callers, NEW x, GoesOnAs(c, x), loop \in {c, Nobody},
         RowsStay, RowsAreFine', UNCHANGED worldVars, UNCHANGED crashes
  PROVE  ExternalInv'
<1>1. calls \in [Callers -> Call] /\ x \in Call /\ calls' = [calls EXCEPT ![c] = x]
  BY CallIs DEF GoesOnAs
<1>2. /\ calls' \in [Callers -> Call] /\ calls'[c] = x
      /\ \A d \in Callers : d # c => calls'[d] = calls[d]
  BY <1>1
<1>3. \A d \in Callers : d # c => calls[d].pc \notin OnTheLoop
  BY CallIs
<1>4. OneRuns'
  BY <1>2, <1>3 DEF OneRuns, GoesOnAs
<1>5. CallsAreFine'
  <2> SUFFICES ASSUME NEW d \in Callers PROVE (Refers(calls[d]) /\ IsCurrent(calls[d]))'
    BY DEF CallsAreFine
  <2>1. PICK y : y = calls'[d]
    OBVIOUS
  <2>2. CASE d = c
    BY <1>2, <2>1, <2>2 DEF GoesOnAs
  <2>3. CASE d # c
    <3>1. Refers(y) /\ y.pc \notin OnTheLoop
      BY <1>2, <1>3, <2>1, <2>3, CallIs
    <3>2. Refers(y)' /\ IsCurrent(y)'
      BY <3>1, WaitingCallsStay
    <3> QED
      BY <2>1, <3>2
  <2> QED
    BY <2>2, <2>3
<1>6. TypeOK'
  <2>1. /\ subject' \in Subjects \cup {NoSubject} /\ policy' \in Policies
        /\ raised' \in SUBSET Guardrails /\ cadence' \in BOOLEAN /\ now' \in {0, 1}
        /\ crashes' \in 0..MaxCrashes /\ changes' \in 0..MaxChanges
    BY DEF ExternalInv, TypeOK, worldVars
  <2>2. /\ DOMAIN actions' \subseteq ActionIds /\ actions' \in [DOMAIN actions' -> Action]
        /\ DOMAIN receipts' \subseteq ReceiptIds /\ receipts' \in [DOMAIN receipts' -> Receipt]
        /\ todo' \in [Callers -> SUBSET ActionIds] /\ posted' \subseteq ActionIds
    BY DEF RowsAreFine, ActionsAreFine, ReceiptsAreFine
  <2>3. loop' \in Callers \cup {Nobody}
    BY DEF GoesOnAs
  <2> QED
    BY <1>2, <2>1, <2>2, <2>3 DEF TypeOK
<1> QED
  BY <1>4, <1>5, <1>6 DEF ExternalInv

(* So does a step between two calls that leaves the calls alone.           *)
LEMMA StepBetweenCallsKeeps ==
  ASSUME ExternalInv, loop = Nobody, UNCHANGED <<loop, calls>>, RowsStay, RowsAreFine',
         subject' \in Subjects \cup {NoSubject}, policy' \in Policies,
         raised' \in SUBSET Guardrails, cadence' \in BOOLEAN, now' \in {0, 1},
         crashes' \in 0..MaxCrashes, changes' \in 0..MaxChanges
  PROVE  ExternalInv'
<1>1. \A d \in Callers : Refers(calls[d]) /\ calls[d].pc \notin OnTheLoop /\ calls[d] \in Call
  BY CallIs
<1>2. OneRuns'
  BY <1>1 DEF OneRuns
<1>3. CallsAreFine'
  <2> SUFFICES ASSUME NEW d \in Callers PROVE (Refers(calls[d]) /\ IsCurrent(calls[d]))'
    BY DEF CallsAreFine
  <2>1. PICK y : y = calls'[d]
    OBVIOUS
  <2>2. Refers(y)' /\ IsCurrent(y)'
    BY <1>1, <2>1, WaitingCallsStay
  <2> QED
    BY <2>1, <2>2
<1>4. /\ DOMAIN actions' \subseteq ActionIds /\ actions' \in [DOMAIN actions' -> Action]
      /\ DOMAIN receipts' \subseteq ReceiptIds /\ receipts' \in [DOMAIN receipts' -> Receipt]
      /\ todo' \in [Callers -> SUBSET ActionIds] /\ posted' \subseteq ActionIds
  BY DEF RowsAreFine, ActionsAreFine, ReceiptsAreFine
<1>5. calls' \in [Callers -> Call] /\ loop' \in Callers \cup {Nobody}
  BY DEF ExternalInv, TypeOK
<1>6. TypeOK'
  BY <1>4, <1>5 DEF TypeOK
<1> QED
  BY <1>2, <1>3, <1>6 DEF ExternalInv

(* Rows that a step leaves alone are still in order.                       *)
LEMMA ActionsStayFine ==
  ASSUME ExternalInv, UNCHANGED actions, posted \subseteq posted'
  PROVE  ActionsAreFine'
  BY DEF ExternalInv, RowsAreFine, ActionsAreFine

(* The same of receipts, whatever becomes of the actions.                  *)
LEMMA ReceiptsStayFine ==
  ASSUME ExternalInv, UNCHANGED receipts, DOMAIN actions \subseteq DOMAIN actions', posted \subseteq posted'
  PROVE  ReceiptsAreFine'
  BY DEF ExternalInv, RowsAreFine, ReceiptsAreFine

(* A move leaves the actions in order: only what has been let out goes on, *)
(* and a success needs its post.                                           *)
LEMMA MovedFine ==
  ASSUME ExternalInv, posted \subseteq posted', NEW a \in DOMAIN actions, NEW to,
         actions' = Moved(a, to), to # "authorized", to = "succeeded" => a \in posted'
  PROVE  ActionsAreFine' /\ DOMAIN actions' = DOMAIN actions
<1>1. /\ actions \in [DOMAIN actions -> Action] /\ DOMAIN actions \subseteq ActionIds
      /\ \A b \in DOMAIN actions : actions[b].status \in OutStatuses => LetOut(actions[b])
      /\ \A b \in DOMAIN actions : actions[b].status = "succeeded" => b \in posted
  BY DEF ExternalInv, RowsAreFine, ActionsAreFine
<1>2. /\ actions' \in [DOMAIN actions -> Action]
      /\ \A b \in DOMAIN actions : b # a => actions'[b] = actions[b]
      /\ \/ actions' = actions
         \/ /\ to \in Transitions[actions[a].status]
            /\ actions'[a] = [actions[a] EXCEPT !.status = to]
            /\ actions'[a].status = to
  BY <1>1, MovedIs
<1>3. ASSUME NEW b \in DOMAIN actions, actions'[b].status \in OutStatuses PROVE LetOut(actions'[b])
  <2>1. CASE actions'[b] = actions[b]
    BY <1>1, <1>3, <2>1
  <2>2. CASE actions'[b] # actions[b]
    <3>1. /\ b = a /\ to \in Transitions[actions[a].status] /\ actions'[a].status = to
          /\ actions'[a] = [actions[a] EXCEPT !.status = to] /\ actions[a] \in Action
      BY <1>1, <1>2, <2>2
    <3>2. actions[a].status \in Statuses
      BY <3>1, TransitionsAre DEF Action
    <3>3. to \in {"scheduled", "dispatching", "succeeded", "failed"}
      BY <1>3, <3>1 DEF OutStatuses
    <3>4. actions[a].status \in OutStatuses
      BY <3>1, <3>2, <3>3, TransitionsAre DEF OutStatuses
    <3>5. LetOut(actions[a])
      BY <1>1, <3>4
    <3> QED
      BY <3>1, <3>5 DEF LetOut, Action
  <2> QED
    BY <2>1, <2>2
<1>4. ASSUME NEW b \in DOMAIN actions, actions'[b].status = "succeeded" PROVE b \in posted'
  BY <1>1, <1>2, <1>4
<1> QED
  BY <1>1, <1>2, <1>3, <1>4 DEF ActionsAreFine

(* Receipts stay in order when some are written or deleted.                *)
LEMMA ReceiptsWrittenFine ==
  ASSUME ExternalInv, DOMAIN actions \subseteq DOMAIN actions', posted \subseteq posted',
         receipts' \in [DOMAIN receipts -> Receipt],
         \A r \in DOMAIN receipts :
            /\ receipts'[r].action = receipts[r].action
            /\ receipts'[r].status # "deleted" => receipts[r].status # "deleted"
            /\ receipts'[r].status = "published" =>
                  receipts[r].status = "published" \/ receipts[r].action \in posted'
  PROVE  ReceiptsAreFine'
  BY DEF ExternalInv, RowsAreFine, ReceiptsAreFine

(* What a call writes of the provider's answer.                            *)
LEMMA WrittenIs ==
  ASSUME ExternalInv, NEW c \in Callers, calls[c].receipt \in DOMAIN receipts,
         NEW status \in {"processing", "published", "failed"}, NEW operation \in BOOLEAN,
         NEW wait \in BOOLEAN
  PROVE  /\ Written(c, status, operation, wait) \in [DOMAIN receipts -> Receipt]
         /\ \A r \in DOMAIN receipts :
               /\ Written(c, status, operation, wait)[r].action = receipts[r].action
               /\ Written(c, status, operation, wait)[r].status # "deleted" =>
                     receipts[r].status # "deleted"
               /\ Written(c, status, operation, wait)[r].status = "published" =>
                     receipts[r].status = "published" \/ (r = calls[c].receipt /\ status = "published")
<1>1. PICK r : r = calls[c].receipt
  OBVIOUS
<1>2. r \in DOMAIN receipts /\ receipts \in [DOMAIN receipts -> Receipt] /\ receipts[r] \in Receipt
  BY <1>1 DEF ExternalInv, TypeOK
<1>3. CASE ~Kept(r)
  BY <1>1, <1>2, <1>3 DEF Written
<1>4. CASE Kept(r)
  <2>1. PICK op \in BOOLEAN : op = (operation \/ receipts[r].operation)
    BY Zenon
  <2>2. PICK row : row = [receipts[r] EXCEPT !.status = status, !.wait = wait, !.operation = op]
    OBVIOUS
  <2>3. row \in Receipt /\ row.action = receipts[r].action /\ row.status = status
    BY <1>2, <2>2 DEF Receipt
  <2>4. Written(c, status, operation, wait) = [receipts EXCEPT ![r] = row]
    BY <1>1, <1>2, <1>4, <2>1, <2>2 DEF Written
  <2>5. receipts[r].status # "deleted"
    BY <1>4 DEF Kept
  <2> QED
    BY <1>1, <1>2, <2>3, <2>4, <2>5
<1> QED
  BY <1>3, <1>4


(***************************************************************************)
(* The steps.                                                              *)
(***************************************************************************)

(* Nothing is there to begin with.                                         *)
LEMMA ExternalInit == Init => ExternalInv
<1> SUFFICES ASSUME Init PROVE ExternalInv
  OBVIOUS
<1>1. DOMAIN actions = {} /\ DOMAIN receipts = {} /\ \A c \in Callers : calls[c] = Idle
  BY DEF Init
<1>2. RowsAreFine
  BY <1>1 DEF Init, RowsAreFine, ActionsAreFine, ReceiptsAreFine
<1>3. CallsAreFine
  BY <1>1, IdleIs DEF CallsAreFine
<1>4. OneRuns
  BY <1>1, IdleIs DEF OneRuns, OnTheLoop
<1>5. TypeOK
  <2>1. calls \in [Callers -> Call]
    BY IdleIs DEF Init
  <2>2. crashes \in 0..MaxCrashes /\ changes \in 0..MaxChanges
    BY BoundsAssumption DEF Init
  <2>3. /\ subject \in Subjects \cup {NoSubject} /\ policy \in Policies /\ raised \in SUBSET Guardrails
        /\ cadence \in BOOLEAN /\ now \in {0, 1} /\ loop \in Callers \cup {Nobody}
        /\ todo \in [Callers -> SUBSET ActionIds] /\ posted \subseteq ActionIds
        /\ actions \in [DOMAIN actions -> Action] /\ receipts \in [DOMAIN receipts -> Receipt]
    BY DEF Init
  <2> QED
    BY <1>1, <2>1, <2>2, <2>3 DEF TypeOK
<1> QED
  BY <1>2, <1>3, <1>4, <1>5 DEF ExternalInv

(* An action is inserted for what is there now, and goes to the gate.      *)
LEMMA InsertedKeeps ==
  ASSUME ExternalInv, NEW c \in Callers, NEW request, NEW predecessor \in ActionIds \cup {NoAction},
         request.automated \in BOOLEAN, request.review \in BOOLEAN, request.requestedFor \in {0, 1},
         loop = Nobody, subject # NoSubject, Inserted(c, request, predecessor),
         UNCHANGED <<worldVars, receipts, posted, crashes>>
  PROVE  ExternalInv'
<1>1. PICK a, row :
         /\ a \in ActionIds \ DOMAIN actions
         /\ row = [status |-> "proposed", subject |-> subject, policy |-> policy,
                   automated |-> request.automated, review |-> request.review,
                   requestedFor |-> request.requestedFor,
                   supersedes |-> predecessor, authority |-> "none"]
         /\ actions' = [y \in DOMAIN actions \cup {a} |-> IF y # a THEN actions[y] ELSE row]
         /\ calls' = [calls EXCEPT ![c] = [Idle EXCEPT !.pc = "gate", !.action = a]]
         /\ loop' = c /\ todo' = todo
  BY DEF Inserted
<1>2. /\ actions \in [DOMAIN actions -> Action] /\ DOMAIN actions \subseteq ActionIds
      /\ subject \in Subjects /\ policy \in Policies /\ "proposed" \in DOMAIN Transitions
      /\ todo \in [Callers -> SUBSET DOMAIN actions]
  BY TransitionsAre DEF ExternalInv, TypeOK, RowsAreFine, Statuses
<1>3. row \in Action /\ row.status = "proposed" /\ row.subject = subject /\ row.policy = policy
  BY <1>1, <1>2 DEF Action
<1>4. /\ actions' \in [DOMAIN actions' -> Action] /\ DOMAIN actions' = DOMAIN actions \cup {a}
      /\ actions'[a] = row /\ \A b \in DOMAIN actions : actions'[b] = actions[b]
  BY <1>1, <1>2, <1>3
<1>5. ActionsAreFine'
  BY <1>1, <1>3, <1>4 DEF ExternalInv, RowsAreFine, ActionsAreFine, OutStatuses
<1>6. RowsAreFine'
  BY <1>1, <1>2, <1>4, <1>5, ReceiptsStayFine DEF RowsAreFine, ExternalInv
<1>7. PICK x : x = [Idle EXCEPT !.pc = "gate", !.action = a]
  OBVIOUS
<1>8. x \in Call /\ x.pc = "gate" /\ x.action = a
  BY <1>1, <1>7, IdleIs DEF Call
<1>9. Refers(x)' /\ IsCurrent(x)'
  BY <1>3, <1>4, <1>8 DEF Refers, IsCurrent, WithAReceipt, Diverged, worldVars
<1>10. GoesOnAs(c, x)
  BY <1>1, <1>7, <1>8, <1>9 DEF GoesOnAs
<1>11. RowsStay
  BY <1>4 DEF RowsStay
<1> QED
  BY <1>6, <1>10, <1>11, CallStepKeeps

(* What is proposed is new, whoever proposes it and for the first time or  *)
(* again.                                                                  *)
LEMMA ProposingKeeps ==
  ASSUME ExternalInv, NEW c \in Callers, Propose(c) \/ Repropose(c)
  PROVE  ExternalInv'
<1>1. CASE Propose(c)
  <2>1. PICK request \in Requests : Inserted(c, request, NoAction)
    BY <1>1 DEF Propose
  <2>2. /\ request.automated \in BOOLEAN /\ request.review \in BOOLEAN
        /\ request.requestedFor \in {0, 1}
    BY <2>1, RequestsAssumption
  <2> QED
    BY <1>1, <2>1, <2>2, InsertedKeeps DEF Propose, Starts
<1>2. CASE Repropose(c)
  <2>1. PICK a \in DOMAIN actions :
           Inserted(c, [automated |-> actions[a].automated, review |-> FALSE,
                        requestedFor |-> actions[a].requestedFor], a)
    BY <1>2 DEF Repropose
  <2>2. PICK request : request = [automated |-> actions[a].automated, review |-> FALSE,
                                  requestedFor |-> actions[a].requestedFor]
    OBVIOUS
  <2>3. actions[a] \in Action /\ a \in ActionIds
    BY DEF ExternalInv, TypeOK
  <2>4. /\ request.automated \in BOOLEAN /\ request.review \in BOOLEAN
        /\ request.requestedFor \in {0, 1} /\ Inserted(c, request, a)
    BY <2>1, <2>2, <2>3 DEF Action
  <2> QED
    BY <1>2, <2>3, <2>4, InsertedKeeps DEF Repropose, Starts
<1> QED
  BY <1>1, <1>2

(* A call that moves an action and returns.                                *)
LEMMA MoveAndReturnKeeps ==
  ASSUME ExternalInv, NEW c \in Callers, loop = c, NEW a \in DOMAIN actions, NEW to,
         actions' = Moved(a, to), to # "authorized", to = "succeeded" => a \in posted,
         Return(c), UNCHANGED <<worldVars, receipts, posted, crashes>>
  PROVE  ExternalInv'
<1>1. ActionsAreFine' /\ DOMAIN actions' = DOMAIN actions
  BY MovedFine
<1>2. (\E x : GoesOnAs(c, x)) /\ todo' \in [Callers -> SUBSET DOMAIN actions']
  BY <1>1, ReturnIs
<1>3. RowsAreFine'
  BY <1>1, <1>2, ReceiptsStayFine DEF RowsAreFine, ExternalInv
<1>4. RowsStay
  BY <1>1 DEF RowsStay
<1> QED
  BY <1>2, <1>3, <1>4, CallStepKeeps

(* A call that lets an action out and goes on to dispatch it.              *)
LEMMA LettingOutKeeps ==
  ASSUME ExternalInv, NEW c \in Callers, loop \in {c, Nobody}, NEW a \in DOMAIN actions,
         NEW authority \in {"policy", "approval", "person"},
         LetOut([actions[a] EXCEPT !.status = "authorized", !.authority = authority]),
         actions' = [actions EXCEPT ![a].status = "authorized", ![a].authority = authority],
         NEW x \in Call, x.pc = "dispatch", x.action = a, calls' = [calls EXCEPT ![c] = x], loop' = c,
         UNCHANGED <<todo, worldVars, receipts, posted, crashes>>
  PROVE  ExternalInv'
<1>1. /\ actions \in [DOMAIN actions -> Action] /\ todo \in [Callers -> SUBSET DOMAIN actions]
      /\ "authorized" \in DOMAIN Transitions /\ actions[a] \in Action
  BY TransitionsAre DEF ExternalInv, TypeOK, RowsAreFine, Statuses
<1>2. PICK row : row = [actions[a] EXCEPT !.status = "authorized", !.authority = authority]
  OBVIOUS
<1>3. row \in Action /\ row.status = "authorized" /\ LetOut(row)
  BY <1>1, <1>2 DEF Action
<1>4. actions' = [actions EXCEPT ![a] = row]
  BY <1>1, <1>2
<1>5. /\ actions' \in [DOMAIN actions -> Action] /\ actions'[a] = row
      /\ \A b \in DOMAIN actions : b # a => actions'[b] = actions[b]
  BY <1>1, <1>3, <1>4
<1>6. ActionsAreFine'
  BY <1>3, <1>5 DEF ExternalInv, RowsAreFine, ActionsAreFine
<1>7. RowsAreFine'
  BY <1>1, <1>5, <1>6, ReceiptsStayFine DEF RowsAreFine, ExternalInv
<1>8. Refers(x)' /\ IsCurrent(x)'
  BY <1>5 DEF Refers, IsCurrent, WithAReceipt
<1>9. GoesOnAs(c, x) /\ RowsStay
  BY <1>5, <1>8 DEF GoesOnAs, RowsStay
<1> QED
  BY <1>7, <1>9, CallStepKeeps


(* The gate lets an action out by policy or approval, or leaves it to a    *)
(* person.                                                                 *)
LEMMA GateKeeps ==
  ASSUME ExternalInv, NEW c \in Callers, Gate(c)
  PROVE  ExternalInv'
<1>1. PICK a : a = calls[c].action
  OBVIOUS
<1>2. /\ loop = c /\ calls[c] \in Call /\ a \in DOMAIN actions /\ actions[a] \in Action
      /\ ~Diverged(a) /\ UNCHANGED <<worldVars, receipts, posted, crashes>>
  BY <1>1, CallIs DEF Gate, Runs, Refers, IsCurrent, ExternalInv, TypeOK
<1>3. PICK x : x = [calls[c] EXCEPT !.pc = "dispatch"]
  OBVIOUS
<1>4. x \in Call /\ x.pc = "dispatch" /\ x.action = a
  BY <1>1, <1>2, <1>3 DEF Call
<1>5. ASSUME NEW authority \in {"policy", "approval"},
             LetOut([actions[a] EXCEPT !.status = "authorized", !.authority = authority]),
             actions' = [actions EXCEPT ![a].status = "authorized", ![a].authority = authority],
             GoTo(c, "dispatch")
      PROVE  ExternalInv'
  BY <1>2, <1>3, <1>4, <1>5, LettingOutKeeps DEF GoTo
<1>6. CASE /\ ~actions[a].review /\ actions[a].policy = "autonomous"
           /\ actions' = [actions EXCEPT ![a].status = "authorized", ![a].authority = "policy"]
           /\ GoTo(c, "dispatch")
  <2>1. LetOut([actions[a] EXCEPT !.status = "authorized", !.authority = "policy"])
    BY <1>2, <1>6 DEF LetOut, Action
  <2> QED
    BY <1>5, <1>6, <2>1
<1>7. CASE /\ Collapses(a)
           /\ actions' = [actions EXCEPT ![a].status = "authorized", ![a].authority = "approval"]
           /\ GoTo(c, "dispatch")
  <2>1. LetOut([actions[a] EXCEPT !.status = "authorized", !.authority = "approval"])
    BY <1>2, <1>7 DEF LetOut, Action, Collapses, Diverged
  <2> QED
    BY <1>5, <1>7, <2>1
<1>8. CASE actions' = Moved(a, "authorization_required") /\ Return(c)
  BY <1>2, <1>8, MoveAndReturnKeeps
<1> QED
  BY <1>1, <1>6, <1>7, <1>8 DEF Gate

(* A person lets an action out, unless it no longer says what it would do. *)
LEMMA AuthorizeKeeps ==
  ASSUME ExternalInv, NEW c \in Callers, Authorize(c)
  PROVE  ExternalInv'
<1>1. /\ loop = Nobody /\ calls[c] = Idle
      /\ UNCHANGED <<worldVars, receipts, posted, crashes>>
  BY CallIs DEF Authorize, Starts, Refers
<1>2. PICK a \in DOMAIN actions :
         \/ actions' = Moved(a, "stale") /\ UNCHANGED callVars
         \/ /\ actions' = [actions EXCEPT ![a].status = "authorized", ![a].authority = "person"]
            /\ calls' = [calls EXCEPT ![c].pc = "dispatch", ![c].action = a]
            /\ loop' = c /\ UNCHANGED todo
  BY DEF Authorize
<1>3. a \in ActionIds /\ actions[a] \in Action
  BY DEF ExternalInv, TypeOK
<1>4. CASE actions' = Moved(a, "stale") /\ UNCHANGED callVars
  <2>1. ActionsAreFine' /\ DOMAIN actions' = DOMAIN actions
    BY <1>1, <1>4, MovedFine
  <2>2. RowsAreFine' /\ RowsStay
    BY <1>1, <1>4, <2>1, ReceiptsStayFine DEF RowsAreFine, ExternalInv, RowsStay, callVars
  <2> QED
    BY <1>1, <1>4, <2>2, StepBetweenCallsKeeps DEF callVars, worldVars, ExternalInv, TypeOK
<1>5. CASE /\ actions' = [actions EXCEPT ![a].status = "authorized", ![a].authority = "person"]
           /\ calls' = [calls EXCEPT ![c].pc = "dispatch", ![c].action = a]
           /\ loop' = c /\ UNCHANGED todo
  <2>1. PICK x : x = [Idle EXCEPT !.pc = "dispatch", !.action = a]
    OBVIOUS
  <2>2. x \in Call /\ x.pc = "dispatch" /\ x.action = a
    BY <1>3, <2>1, IdleIs DEF Call
  <2>3. calls' = [calls EXCEPT ![c] = x]
    BY <1>1, <1>5, <2>1, CallIs
  <2>4. LetOut([actions[a] EXCEPT !.status = "authorized", !.authority = "person"])
    BY <1>3 DEF LetOut, Action
  <2> QED
    BY <1>1, <1>5, <2>2, <2>3, <2>4, LettingOutKeeps
<1> QED
  BY <1>2, <1>4, <1>5

(* A run takes up the first of the actions that can run.                   *)
LEMMA RunKeeps ==
  ASSUME ExternalInv, NEW c \in Callers, Run(c)
  PROVE  ExternalInv'
<1>1. /\ loop = Nobody /\ calls[c] = Idle
      /\ UNCHANGED <<worldVars, actions, receipts, posted, crashes>> /\ loop' = c
  BY CallIs DEF Run, Starts, Refers
<1>2. PICK a \in DOMAIN actions :
         /\ calls' = [calls EXCEPT ![c].pc = "dispatch", ![c].action = a]
         /\ todo' = [todo EXCEPT ![c] = {b \in DOMAIN actions : Runnable(b)} \ {a}]
  BY DEF Run
<1>3. a \in ActionIds /\ todo \in [Callers -> SUBSET DOMAIN actions]
  BY DEF ExternalInv, TypeOK, RowsAreFine
<1>4. PICK x : x = [Idle EXCEPT !.pc = "dispatch", !.action = a]
  OBVIOUS
<1>5. x \in Call /\ x.pc = "dispatch" /\ x.action = a
  BY <1>3, <1>4, IdleIs DEF Call
<1>6. calls' = [calls EXCEPT ![c] = x]
  BY <1>1, <1>2, <1>4, CallIs
<1>7. todo' \in [Callers -> SUBSET DOMAIN actions]
  BY <1>2, <1>3
<1>8. RowsAreFine'
  BY <1>1, <1>7, ActionsStayFine, ReceiptsStayFine DEF RowsAreFine, ExternalInv
<1>9. Refers(x)' /\ IsCurrent(x)'
  BY <1>1, <1>5 DEF Refers, IsCurrent, WithAReceipt
<1>10. GoesOnAs(c, x) /\ RowsStay
  BY <1>1, <1>5, <1>6, <1>9 DEF GoesOnAs, RowsStay
<1> QED
  BY <1>1, <1>8, <1>10, CallStepKeeps

(* A dispatch refuses the action, puts it off, or clears it.               *)
LEMMA DispatchKeeps ==
  ASSUME ExternalInv, NEW c \in Callers, Dispatch(c)
  PROVE  ExternalInv'
<1>1. PICK a : a = calls[c].action
  OBVIOUS
<1>2. /\ loop = c /\ calls[c] \in Call /\ a \in DOMAIN actions /\ actions[a] \in Action
      /\ UNCHANGED <<worldVars, receipts, posted, crashes>>
  BY <1>1, CallIs DEF Dispatch, Runs, Refers, ExternalInv, TypeOK
<1>3. CASE Return(c) /\ \E to \in {"stale", "blocked", "scheduled", "dispatching"} : actions' = Moved(a, to)
  BY <1>2, <1>3, MoveAndReturnKeeps
<1>4. CASE /\ ~Diverged(a) /\ ~Guarded(a) /\ actions[a].requestedFor <= now
           /\ actions' = Moved(a, "dispatching") /\ actions'[a].status = "dispatching"
           /\ GoTo(c, "execute")
  <2>1. ActionsAreFine' /\ DOMAIN actions' = DOMAIN actions
    BY <1>2, <1>4, MovedFine
  <2>2. PICK x : x = [calls[c] EXCEPT !.pc = "execute"]
    OBVIOUS
  <2>3. x \in Call /\ x.pc = "execute" /\ x.action = a
    BY <1>1, <1>2, <2>2 DEF Call
  <2>4. calls' = [calls EXCEPT ![c] = x] /\ loop' = c /\ todo' = todo
    BY <1>4, <2>2 DEF GoTo
  <2>5. /\ actions'[a].subject = actions[a].subject /\ actions'[a].policy = actions[a].policy
        /\ actions'[a].requestedFor = actions[a].requestedFor
        /\ actions'[a].automated = actions[a].automated
    <3>1. actions \in [DOMAIN actions -> Action]
      BY DEF ExternalInv, TypeOK
    <3>2. actions'[a] \in {actions[a], [actions[a] EXCEPT !.status = "dispatching"]}
      BY <1>2, <1>4, <3>1, MovedIs
    <3> QED
      BY <1>2, <3>2 DEF Action
  <2>6. Cleared(a)'
    BY <1>2, <1>4, <2>5 DEF Cleared, Diverged, Guarded, Rivaled, worldVars
  <2>7. Refers(x)' /\ IsCurrent(x)'
    BY <1>2, <2>1, <2>3, <2>6 DEF Refers, IsCurrent, WithAReceipt
  <2>8. GoesOnAs(c, x) /\ RowsStay
    BY <1>2, <2>1, <2>3, <2>4, <2>7 DEF GoesOnAs, RowsStay
  <2>9. RowsAreFine'
    BY <1>2, <2>1, <2>4, ReceiptsStayFine DEF RowsAreFine, ExternalInv
  <2> QED
    BY <1>2, <2>8, <2>9, CallStepKeeps
<1> QED
  BY <1>1, <1>3, <1>4 DEF Dispatch


(* An action that is cleared stays so while nothing but its own receipt is *)
(* written.                                                                *)
LEMMA ClearedStays ==
  ASSUME NEW a, Cleared(a), UNCHANGED <<worldVars, actions>>,
         \A r \in DOMAIN receipts' : receipts'[r].action = a \/ (r \in DOMAIN receipts /\ receipts'[r] = receipts[r])
  PROVE  Cleared(a)'
  BY DEF Cleared, Diverged, Guarded, Rivaled, worldVars

(* The adapter takes up the receipt of its action or inserts one.          *)
LEMMA ExecuteKeeps ==
  ASSUME ExternalInv, NEW c \in Callers, Execute(c)
  PROVE  ExternalInv'
<1>1. PICK a : a = calls[c].action
  OBVIOUS
<1>2. /\ loop = c /\ calls[c] \in Call /\ a \in DOMAIN actions /\ Cleared(a)
      /\ UNCHANGED <<worldVars, actions, posted, crashes>>
  BY <1>1, CallIs DEF Execute, Runs, Refers, IsCurrent
<1>3. /\ receipts \in [DOMAIN receipts -> Receipt] /\ DOMAIN receipts \subseteq ReceiptIds
      /\ DOMAIN actions \subseteq ActionIds /\ todo \in [Callers -> SUBSET DOMAIN actions]
      /\ posted \subseteq ActionIds
  BY DEF ExternalInv, TypeOK, RowsAreFine
<1>4. ASSUME NEW r \in DOMAIN receipts', DOMAIN receipts' \subseteq ReceiptIds,
             receipts'[r].action = a, receipts'[r].status # "deleted",
             calls' = [calls EXCEPT ![c].pc = "attempt", ![c].receipt = r],
             UNCHANGED <<loop, todo>>, ReceiptsAreFine', RowsStay,
             \A q \in DOMAIN receipts' : (q \in DOMAIN receipts /\ receipts'[q] = receipts[q]) \/ q = r
      PROVE  ExternalInv'
  <2>1. PICK x : x = [calls[c] EXCEPT !.pc = "attempt", !.receipt = r]
    OBVIOUS
  <2>2. x \in Call /\ x.pc = "attempt" /\ x.action = a /\ x.receipt = r
    BY <1>1, <1>2, <1>4, <2>1 DEF Call
  <2>3. calls' = [calls EXCEPT ![c] = x]
    BY <1>4, <2>1
  <2>4. Cleared(a)'
    BY <1>2, <1>4, ClearedStays
  <2>5. Refers(x)' /\ IsCurrent(x)'
    BY <1>4, <2>2, <2>4 DEF Refers, IsCurrent, WithAReceipt, Kept
  <2>6. GoesOnAs(c, x)
    BY <1>2, <1>4, <2>2, <2>3, <2>5 DEF GoesOnAs
  <2>7. RowsAreFine'
    BY <1>2, <1>3, <1>4, ActionsStayFine DEF RowsAreFine
  <2> QED
    BY <1>2, <1>4, <2>6, <2>7, CallStepKeeps
<1>5. CASE /\ \E r \in ReceiptsOf(a) : calls' = [calls EXCEPT ![c].pc = "attempt", ![c].receipt = r]
           /\ UNCHANGED <<receipts, loop, todo>>
  <2>1. PICK r \in ReceiptsOf(a) : calls' = [calls EXCEPT ![c].pc = "attempt", ![c].receipt = r]
    BY <1>5
  <2>2. r \in DOMAIN receipts /\ receipts[r].action = a /\ receipts[r].status # "deleted"
    BY <2>1 DEF ReceiptsOf, Kept
  <2>3. ReceiptsAreFine' /\ RowsStay
    BY <1>2, <1>5, ReceiptsStayFine DEF RowsStay
  <2> QED
    BY <1>3, <1>4, <1>5, <2>1, <2>2, <2>3
<1>6. CASE /\ ReceiptsOf(a) = {}
           /\ \E r \in ReceiptIds \ DOMAIN receipts :
                 /\ receipts' = [y \in DOMAIN receipts \cup {r} |->
                       IF y # r THEN receipts[y]
                       ELSE [action |-> a, status |-> "scheduled", operation |-> FALSE, wait |-> FALSE]]
                 /\ calls' = [calls EXCEPT ![c].pc = "attempt", ![c].receipt = r]
           /\ UNCHANGED <<loop, todo>>
  <2>1. PICK r, row :
           /\ r \in ReceiptIds \ DOMAIN receipts
           /\ row = [action |-> a, status |-> "scheduled", operation |-> FALSE, wait |-> FALSE]
           /\ receipts' = [y \in DOMAIN receipts \cup {r} |-> IF y # r THEN receipts[y] ELSE row]
           /\ calls' = [calls EXCEPT ![c].pc = "attempt", ![c].receipt = r]
    BY <1>6
  <2>2. row \in Receipt /\ row.action = a /\ row.status = "scheduled"
    BY <1>2, <1>3, <2>1 DEF Receipt
  <2>3. /\ DOMAIN receipts' = DOMAIN receipts \cup {r} /\ receipts'[r] = row
        /\ \A q \in DOMAIN receipts : receipts'[q] = receipts[q]
        /\ receipts' \in [DOMAIN receipts' -> Receipt]
    BY <1>3, <2>1, <2>2
  <2>4. \A q \in DOMAIN receipts : receipts[q].status # "deleted" => receipts[q].action # a
    BY <1>6 DEF ReceiptsOf, Kept
  <2>5. ReceiptsAreFine' /\ RowsStay
    BY <1>2, <2>1, <2>2, <2>3, <2>4 DEF ExternalInv, RowsAreFine, ReceiptsAreFine, RowsStay
  <2>6. DOMAIN receipts' \subseteq ReceiptIds
    BY <1>3, <2>1, <2>3
  <2> QED
    BY <1>4, <1>6, <2>1, <2>2, <2>3, <2>5, <2>6
<1>7. CASE Return(c) /\ UNCHANGED receipts
  <2>1. (\E x : GoesOnAs(c, x)) /\ todo' \in [Callers -> SUBSET DOMAIN actions]
    BY <1>2, <1>7, ReturnIs
  <2>2. RowsAreFine' /\ RowsStay
    BY <1>2, <1>3, <1>7, <2>1, ActionsStayFine, ReceiptsStayFine DEF RowsAreFine, RowsStay
  <2> QED
    BY <1>2, <2>1, <2>2, CallStepKeeps
<1> QED
  BY <1>1, <1>5, <1>6, <1>7 DEF Execute

(* A call that writes its receipt and goes on with it.                     *)
LEMMA WritingKeeps ==
  ASSUME ExternalInv, NEW c \in Callers, loop \in {c, Nobody}, calls[c].pc \in WithAReceipt,
         NEW pc \in {"provider", "notify", "conclude"}, NEW resumes \in BOOLEAN,
         calls' = [calls EXCEPT ![c] = [calls[c] EXCEPT !.pc = pc, !.resumes = resumes]],
         loop' \in {c, Nobody}, pc = "conclude" => loop' = c,
         UNCHANGED <<todo, worldVars, actions, crashes>>,
         posted' \in {posted, posted \cup {Target(c)}},
         receipts' \in [DOMAIN receipts -> Receipt],
         \A r \in DOMAIN receipts :
            /\ receipts'[r].action = receipts[r].action
            /\ receipts'[r].status # "deleted" => receipts[r].status # "deleted"
            /\ receipts'[r].status = "published" =>
                  receipts[r].status = "published" \/ receipts[r].action \in posted'
  PROVE  ExternalInv'
<1>1. calls[c] \in Call /\ Refers(calls[c])
  BY CallIs
<1>2. /\ calls[c].receipt \in DOMAIN receipts /\ Target(c) \in ActionIds
      /\ calls[c].action \in {NoAction, receipts[calls[c].receipt].action}
  <2>1. /\ calls[c].receipt \in DOMAIN receipts
        /\ calls[c].action \in {NoAction, receipts[calls[c].receipt].action}
    BY <1>1 DEF Refers
  <2>2. receipts[calls[c].receipt].action \in DOMAIN actions /\ DOMAIN actions \subseteq ActionIds
    BY <2>1 DEF ExternalInv, RowsAreFine, ReceiptsAreFine, ActionsAreFine
  <2> QED
    BY <2>1, <2>2 DEF Target
<1>3. PICK x : x = [calls[c] EXCEPT !.pc = pc, !.resumes = resumes]
  OBVIOUS
<1>4. x \in Call /\ x.pc = pc /\ x.action = calls[c].action /\ x.receipt = calls[c].receipt
  BY <1>1, <1>3 DEF Call
<1>5. Refers(x)' /\ IsCurrent(x)'
  BY <1>2, <1>4 DEF Refers, IsCurrent
<1>6. GoesOnAs(c, x) /\ RowsStay
  BY <1>3, <1>4, <1>5 DEF GoesOnAs, OnTheLoop, RowsStay
<1>7. posted \subseteq posted' /\ posted' \subseteq ActionIds
  BY <1>2 DEF ExternalInv, TypeOK
<1>8. RowsAreFine'
  BY <1>7, ActionsStayFine, ReceiptsWrittenFine DEF ExternalInv, RowsAreFine
<1> QED
  BY <1>6, <1>8, CallStepKeeps


(* A call that goes on elsewhere only moves.                               *)
LEMMA GoToIs ==
  ASSUME ExternalInv, NEW c \in Callers, NEW pc, calls' = [calls EXCEPT ![c].pc = pc]
  PROVE  /\ calls[c].resumes \in BOOLEAN
         /\ calls' = [calls EXCEPT ![c] = [calls[c] EXCEPT !.pc = pc, !.resumes = calls[c].resumes]]
<1>1. calls[c] \in Call /\ calls \in [Callers -> Call]
  BY CallIs
<1>2. calls[c].resumes \in BOOLEAN
  BY <1>1 DEF Call
<1>3. [calls[c] EXCEPT !.pc = pc] = [calls[c] EXCEPT !.pc = pc, !.resumes = calls[c].resumes]
  BY <1>1 DEF Call
<1> QED
  BY <1>2, <1>3

(* The receipts, when nothing is written.                                  *)
LEMMA ReceiptsAre ==
  ASSUME ExternalInv
  PROVE  receipts \in [DOMAIN receipts -> Receipt]
  BY DEF ExternalInv, TypeOK

(* An attempt ends at once or calls the provider.                          *)
LEMMA AttemptKeeps ==
  ASSUME ExternalInv, NEW c \in Callers, Attempt(c)
  PROVE  ExternalInv'
<1>1. PICK r : r = calls[c].receipt
  OBVIOUS
<1>2. /\ loop = c /\ calls[c].pc = "attempt" /\ r \in DOMAIN receipts /\ Kept(r)
      /\ calls[c].pc \in WithAReceipt
      /\ UNCHANGED <<worldVars, actions, posted, crashes>>
  BY <1>1, CallIs DEF Attempt, Runs, Refers, IsCurrent, WithAReceipt
<1>3. receipts \in [DOMAIN receipts -> Receipt] /\ receipts[r] \in Receipt
  BY <1>2, ReceiptsAre
<1>4. CASE GoTo(c, "conclude") /\ UNCHANGED receipts
  <2>1. /\ calls[c].resumes \in BOOLEAN /\ loop' = c /\ todo' = todo
        /\ calls' = [calls EXCEPT ![c] = [calls[c] EXCEPT !.pc = "conclude", !.resumes = calls[c].resumes]]
    BY <1>4, GoToIs DEF GoTo
  <2> QED
    BY <1>2, <1>3, <1>4, <2>1, WritingKeeps
<1>5. CASE /\ receipts' = [receipts EXCEPT ![r].status = "failed", ![r].wait = FALSE]
           /\ GoTo(c, "conclude")
  <2>1. /\ calls[c].resumes \in BOOLEAN /\ loop' = c /\ todo' = todo
        /\ calls' = [calls EXCEPT ![c] = [calls[c] EXCEPT !.pc = "conclude", !.resumes = calls[c].resumes]]
    BY <1>5, GoToIs DEF GoTo
  <2>2. PICK row : row = [receipts[r] EXCEPT !.status = "failed", !.wait = FALSE]
    OBVIOUS
  <2>3. row \in Receipt /\ row.action = receipts[r].action /\ row.status = "failed"
    BY <1>3, <2>2 DEF Receipt
  <2>4. receipts' = [receipts EXCEPT ![r] = row]
    BY <1>2, <1>5, <2>2
  <2>5. receipts[r].status # "deleted"
    BY <1>2 DEF Kept
  <2>6. /\ receipts' \in [DOMAIN receipts -> Receipt] /\ receipts'[r] = row
        /\ \A q \in DOMAIN receipts : q # r => receipts'[q] = receipts[q]
    BY <1>2, <1>3, <2>3, <2>4
  <2>7. \A q \in DOMAIN receipts :
           /\ receipts'[q].action = receipts[q].action
           /\ receipts'[q].status # "deleted" => receipts[q].status # "deleted"
           /\ receipts'[q].status = "published" =>
                 receipts[q].status = "published" \/ receipts[q].action \in posted'
    BY <2>3, <2>5, <2>6
  <2> QED
    BY <1>2, <2>1, <2>6, <2>7, WritingKeeps
<1>6. CASE /\ calls' = [calls EXCEPT ![c].pc = "provider", ![c].resumes = receipts[r].operation]
           /\ loop' = Nobody /\ UNCHANGED <<receipts, todo>>
  <2>1. receipts[r].operation \in BOOLEAN
    BY <1>3 DEF Receipt
  <2>2. calls' = [calls EXCEPT ![c] = [calls[c] EXCEPT !.pc = "provider", !.resumes = receipts[r].operation]]
    BY <1>6, CallIs
  <2> QED
    BY <1>2, <1>3, <1>6, <2>1, <2>2, WritingKeeps
<1> QED
  BY <1>1, <1>4, <1>5, <1>6 DEF Attempt

(* The provider and the webhooks answer.                                   *)
LEMMA AnswerKeeps ==
  ASSUME ExternalInv, NEW c \in Callers, Published(c) \/ Processing(c) \/ Failure(c) \/ Notified(c)
  PROVE  ExternalInv'
<1>1. /\ loop = Nobody /\ calls[c].pc \in WithAReceipt
      /\ calls[c].receipt \in DOMAIN receipts
      /\ UNCHANGED <<worldVars, actions, crashes>>
  BY CallIs DEF Published, Processing, Failure, Notified, Awaits, WithAReceipt, Refers
<1>2. receipts \in [DOMAIN receipts -> Receipt]
  BY ReceiptsAre
<1>3. CASE Published(c)
  <2>1. /\ calls[c].resumes \in BOOLEAN
        /\ calls' = [calls EXCEPT ![c] = [calls[c] EXCEPT !.pc = "notify", !.resumes = calls[c].resumes]]
    BY <1>3, GoToIs DEF Published
  <2>2. /\ receipts' = Written(c, "published", FALSE, FALSE) /\ posted' = posted \cup {Target(c)}
        /\ UNCHANGED <<loop, todo>>
    BY <1>3 DEF Published
  <2>3. receipts' \in [DOMAIN receipts -> Receipt]
    BY <1>1, <2>2, WrittenIs
  <2>4. \A r \in DOMAIN receipts :
           /\ receipts'[r].action = receipts[r].action
           /\ receipts'[r].status # "deleted" => receipts[r].status # "deleted"
           /\ receipts'[r].status = "published" =>
                 receipts[r].status = "published" \/ r = calls[c].receipt
    BY <1>1, <2>2, WrittenIs
  <2>5. receipts[calls[c].receipt].action \in posted'
    BY <2>2 DEF Target
  <2> QED
    BY <1>1, <2>1, <2>2, <2>3, <2>4, <2>5, WritingKeeps
<1>4. ASSUME NEW status \in {"processing", "failed"}, NEW operation \in BOOLEAN, NEW wait \in BOOLEAN,
             receipts' = Written(c, status, operation, wait), GoTo(c, "conclude"),
             posted' \in {posted, posted \cup {Target(c)}}
      PROVE  ExternalInv'
  <2>1. /\ calls[c].resumes \in BOOLEAN /\ loop' = c /\ todo' = todo
        /\ calls' = [calls EXCEPT ![c] = [calls[c] EXCEPT !.pc = "conclude", !.resumes = calls[c].resumes]]
    BY <1>4, GoToIs DEF GoTo
  <2>2. receipts' \in [DOMAIN receipts -> Receipt]
    BY <1>1, <1>4, WrittenIs
  <2>3. \A r \in DOMAIN receipts :
           /\ receipts'[r].action = receipts[r].action
           /\ receipts'[r].status # "deleted" => receipts[r].status # "deleted"
           /\ receipts'[r].status = "published" => receipts[r].status = "published"
    BY <1>1, <1>4, WrittenIs
  <2> QED
    BY <1>1, <1>4, <2>1, <2>2, <2>3, WritingKeeps
<1>5. CASE Notified(c)
  <2>1. /\ calls[c].resumes \in BOOLEAN /\ loop' = c /\ UNCHANGED <<todo, receipts, posted>>
        /\ calls' = [calls EXCEPT ![c] = [calls[c] EXCEPT !.pc = "conclude", !.resumes = calls[c].resumes]]
    BY <1>5, GoToIs DEF GoTo, Notified
  <2> QED
    BY <1>1, <1>2, <2>1, WritingKeeps
<1>6. CASE Processing(c)
  BY <1>4, <1>6 DEF Processing
<1>7. CASE Failure(c)
  BY <1>4, <1>7 DEF Failure
<1> QED
  BY <1>3, <1>5, <1>6, <1>7

(* An action ends as its receipt says; it succeeds only if that counts as  *)
(* published.                                                              *)
LEMMA ConcludeKeeps ==
  ASSUME ExternalInv, NEW c \in Callers, Conclude(c)
  PROVE  ExternalInv'
<1>1. PICK a, r : a = calls[c].action /\ r = calls[c].receipt
  OBVIOUS
<1>2. /\ loop = c /\ r \in DOMAIN receipts /\ a \in {NoAction, receipts[r].action} /\ Return(c)
      /\ UNCHANGED <<worldVars, receipts, posted, crashes>>
  BY <1>1, CallIs DEF Conclude, Runs, Refers, WithAReceipt
<1>3. CASE UNCHANGED actions
  <2>1. (\E x : GoesOnAs(c, x)) /\ todo' \in [Callers -> SUBSET DOMAIN actions']
    BY <1>2, <1>3, ReturnIs
  <2>2. RowsAreFine' /\ RowsStay
    BY <1>2, <1>3, <2>1, ActionsStayFine, ReceiptsStayFine DEF RowsAreFine, RowsStay, ExternalInv
  <2> QED
    BY <1>2, <2>1, <2>2, CallStepKeeps
<1>4. CASE actions' # actions
  <2>1. a # NoAction /\ \/ receipts[r].status = "published" /\ actions' = Moved(a, "succeeded")
                        \/ receipts[r].status # "published" /\ actions' = Moved(a, "failed")
    BY <1>1, <1>4 DEF Conclude
  <2>2. a \in DOMAIN actions /\ (receipts[r].status = "published" => a \in posted)
    BY <1>2, <2>1 DEF ExternalInv, RowsAreFine, ReceiptsAreFine
  <2> QED
    BY <1>2, <2>1, <2>2, MoveAndReturnKeeps
<1> QED
  BY <1>3, <1>4

(* The retry route takes up a receipt without its action.                  *)
LEMMA RetryKeeps ==
  ASSUME ExternalInv, NEW c \in Callers, Retry(c)
  PROVE  ExternalInv'
<1>1. /\ loop = Nobody /\ calls[c] = Idle /\ loop' = c
      /\ UNCHANGED <<worldVars, actions, receipts, todo, posted, crashes>>
  BY CallIs DEF Retry, Starts, Refers
<1>2. PICK r \in DOMAIN receipts :
         /\ receipts[r].status = "failed"
         /\ calls' = [calls EXCEPT ![c].pc = "attempt", ![c].receipt = r]
  BY DEF Retry
<1>3. PICK x : x = [Idle EXCEPT !.pc = "attempt", !.receipt = r]
  OBVIOUS
<1>4. r \in ReceiptIds
  BY DEF ExternalInv, TypeOK
<1>5. x \in Call /\ x.pc = "attempt" /\ x.receipt = r /\ x.action = NoAction
  BY <1>3, <1>4, IdleIs DEF Call
<1>6. calls' = [calls EXCEPT ![c] = x]
  BY <1>1, <1>2, <1>3, CallIs
<1>7. Refers(x)' /\ IsCurrent(x)'
  BY <1>1, <1>2, <1>5 DEF Refers, IsCurrent, Kept
<1>8. GoesOnAs(c, x) /\ RowsStay
  BY <1>1, <1>5, <1>6, <1>7 DEF GoesOnAs, RowsStay
<1>9. RowsAreFine'
  BY <1>1, ActionsStayFine, ReceiptsStayFine DEF RowsAreFine, ExternalInv
<1> QED
  BY <1>1, <1>8, <1>9, CallStepKeeps


(* A receipt that is deleted is gone for good.                             *)
LEMMA WithoutIs ==
  ASSUME ExternalInv, NEW gone
  PROVE  /\ Without(gone) \in [DOMAIN receipts -> Receipt]
         /\ \A r \in DOMAIN receipts :
               /\ Without(gone)[r].action = receipts[r].action
               /\ Without(gone)[r].status \in {receipts[r].status, "deleted"}
               /\ Without(gone)[r].status # "deleted" => receipts[r].status # "deleted"
<1>1. receipts \in [DOMAIN receipts -> Receipt]
  BY ReceiptsAre
<1>2. \A r \in DOMAIN receipts :
         /\ [receipts[r] EXCEPT !.status = "deleted"] \in Receipt
         /\ [receipts[r] EXCEPT !.status = "deleted"].action = receipts[r].action
         /\ [receipts[r] EXCEPT !.status = "deleted"].status = "deleted"
  BY <1>1 DEF Receipt
<1>3. PICK D : D = [r \in DOMAIN receipts |-> [receipts[r] EXCEPT !.status = "deleted"]]
  OBVIOUS
<1>4. \A r \in DOMAIN receipts : D[r] \in Receipt /\ D[r].action = receipts[r].action /\ D[r].status = "deleted"
  BY <1>2, <1>3
<1>5. Without(gone) = [r \in DOMAIN receipts |-> IF r \in gone THEN D[r] ELSE receipts[r]]
  BY <1>3 DEF Without
<1> QED
  BY <1>1, <1>4, <1>5

(* The steps of people and time between two calls.                         *)
LEMMA OutsideKeeps ==
  ASSUME ExternalInv, Cancel \/ DeleteReceipt \/ Change \/ TimePasses
  PROVE  ExternalInv'
<1>1. /\ loop = Nobody /\ UNCHANGED <<loop, calls, todo, posted>>
      /\ todo \in [Callers -> SUBSET DOMAIN actions] /\ posted \subseteq ActionIds
      /\ receipts \in [DOMAIN receipts -> Receipt]
  BY ReceiptsAre DEF Cancel, DeleteReceipt, Change, TimePasses, callVars, ExternalInv, RowsAreFine
<1>2. /\ subject \in Subjects \cup {NoSubject} /\ policy \in Policies
      /\ raised \in SUBSET Guardrails /\ cadence \in BOOLEAN /\ now \in {0, 1}
      /\ crashes \in 0..MaxCrashes /\ changes \in 0..MaxChanges
  BY DEF ExternalInv, TypeOK
<1>3. CASE Cancel
  <2>1. PICK a \in DOMAIN actions : actions' = Moved(a, "cancelled")
    BY <1>3 DEF Cancel
  <2>2. UNCHANGED <<worldVars, receipts, crashes>>
    BY <1>3 DEF Cancel
  <2>3. ActionsAreFine' /\ DOMAIN actions' = DOMAIN actions
    BY <1>1, <2>1, MovedFine
  <2>4. RowsAreFine' /\ RowsStay
    BY <1>1, <2>2, <2>3, ReceiptsStayFine DEF RowsAreFine, RowsStay
  <2> QED
    BY <1>1, <1>2, <2>2, <2>4, StepBetweenCallsKeeps DEF worldVars
<1>4. CASE DeleteReceipt
  <2>1. PICK gone : receipts' = Without(gone)
    BY <1>4 DEF DeleteReceipt
  <2>2. UNCHANGED <<worldVars, actions, crashes>>
    BY <1>4 DEF DeleteReceipt
  <2>3. /\ receipts' \in [DOMAIN receipts -> Receipt]
        /\ \A r \in DOMAIN receipts :
              /\ receipts'[r].action = receipts[r].action
              /\ receipts'[r].status # "deleted" => receipts[r].status # "deleted"
              /\ receipts'[r].status = "published" => receipts[r].status = "published"
    BY <2>1, WithoutIs
  <2>4. ReceiptsAreFine'
    BY <1>1, <2>2, <2>3, ReceiptsWrittenFine
  <2>5. RowsAreFine' /\ RowsStay
    BY <1>1, <2>2, <2>3, <2>4, ActionsStayFine DEF RowsAreFine, RowsStay
  <2> QED
    BY <1>1, <1>2, <2>2, <2>5, StepBetweenCallsKeeps DEF worldVars
<1>5. CASE Change
  <2>1. UNCHANGED <<cadence, now, actions, receipts, crashes>> /\ changes' \in 0..MaxChanges
    BY <1>2, <1>5, BoundsAssumption DEF Change
  <2>2. /\ subject' \in Subjects \cup {NoSubject} /\ policy' \in Policies
        /\ raised' \in SUBSET Guardrails
    BY <1>2, <1>5 DEF Change
  <2>3. RowsAreFine' /\ RowsStay
    BY <1>1, <2>1, ActionsStayFine, ReceiptsStayFine DEF RowsAreFine, RowsStay
  <2> QED
    BY <1>1, <1>2, <2>1, <2>2, <2>3, StepBetweenCallsKeeps
<1>6. CASE TimePasses
  <2>1. UNCHANGED <<subject, policy, raised, cadence, actions, changes, crashes>> /\ now' \in {0, 1}
    BY <1>2, <1>6 DEF TimePasses
  <2>2. /\ receipts' \in [DOMAIN receipts -> Receipt]
        /\ \A r \in DOMAIN receipts :
              receipts'[r].action = receipts[r].action /\ receipts'[r].status = receipts[r].status
    <3>1. CASE UNCHANGED receipts
      BY <1>1, <3>1
    <3>2. CASE \E r \in DOMAIN receipts : receipts' = [receipts EXCEPT ![r].wait = FALSE]
      <4>1. PICK r, row :
               /\ r \in DOMAIN receipts
               /\ row = [receipts[r] EXCEPT !.wait = FALSE] /\ receipts' = [receipts EXCEPT ![r] = row]
        BY <3>2
      <4>2. row \in Receipt /\ row.action = receipts[r].action /\ row.status = receipts[r].status
        BY <1>1, <4>1 DEF Receipt
      <4> QED
        BY <1>1, <4>1, <4>2
    <3> QED
      BY <1>6, <3>1, <3>2 DEF TimePasses
  <2>3. ReceiptsAreFine'
    BY <1>1, <2>1, <2>2, ReceiptsWrittenFine
  <2>4. RowsAreFine' /\ RowsStay
    BY <1>1, <2>1, <2>2, <2>3, ActionsStayFine DEF RowsAreFine, RowsStay
  <2> QED
    BY <1>1, <1>2, <2>1, <2>4, StepBetweenCallsKeeps
<1> QED
  BY <1>3, <1>4, <1>5, <1>6

(* The cadence takes its receipts and its actions back.                    *)
LEMMA StopCadenceKeeps ==
  ASSUME ExternalInv, StopCadence
  PROVE  ExternalInv'
<1>1. /\ loop = Nobody /\ UNCHANGED <<subject, policy, raised, now, changes, loop, calls, todo, posted, crashes>>
      /\ todo \in [Callers -> SUBSET DOMAIN actions] /\ posted \subseteq ActionIds
      /\ cadence' \in BOOLEAN
  BY DEF StopCadence, callVars, ExternalInv, RowsAreFine, TypeOK
<1>2. /\ actions \in [DOMAIN actions -> Action] /\ DOMAIN actions \subseteq ActionIds
      /\ \A b \in DOMAIN actions : actions[b].status \in OutStatuses => LetOut(actions[b])
      /\ \A b \in DOMAIN actions : actions[b].status = "succeeded" => b \in posted
  BY DEF ExternalInv, RowsAreFine, ActionsAreFine
<1>3. PICK pending, gone :
         /\ actions' = [a \in DOMAIN actions |->
                          IF a \in pending THEN Moved(a, "cancelled")[a] ELSE actions[a]]
         /\ receipts' = Without(gone)
  BY DEF StopCadence
<1>4. \A a \in DOMAIN actions :
         \/ Moved(a, "cancelled")[a] = actions[a]
         \/ Moved(a, "cancelled")[a] \in Action /\ Moved(a, "cancelled")[a].status = "cancelled"
  <2> SUFFICES ASSUME NEW a \in DOMAIN actions
               PROVE  \/ Moved(a, "cancelled")[a] = actions[a]
                      \/ /\ Moved(a, "cancelled")[a] \in Action
                         /\ Moved(a, "cancelled")[a].status = "cancelled"
    OBVIOUS
  <2>1. PICK m : m = Moved(a, "cancelled")
    OBVIOUS
  <2>2. CASE m = actions
    BY <2>1, <2>2
  <2>3. CASE m # actions
    <3>1. m \in [DOMAIN actions -> Action] /\ m = [actions EXCEPT ![a].status = "cancelled"]
      BY <1>2, <2>1, <2>3, MovedIs DEF Moved
    <3>2. m[a] \in Action /\ m[a].status = "cancelled"
      BY <1>2, <3>1 DEF Action
    <3> QED
      BY <2>1, <3>2
  <2> QED
    BY <2>2, <2>3
<1>5. /\ actions' \in [DOMAIN actions -> Action]
      /\ \A a \in DOMAIN actions : actions'[a] = actions[a] \/ actions'[a].status = "cancelled"
  BY <1>2, <1>3, <1>4
<1>6. ActionsAreFine'
  BY <1>1, <1>2, <1>5 DEF ActionsAreFine, OutStatuses
<1>7. /\ receipts' \in [DOMAIN receipts -> Receipt]
      /\ \A r \in DOMAIN receipts :
            /\ receipts'[r].action = receipts[r].action
            /\ receipts'[r].status # "deleted" => receipts[r].status # "deleted"
            /\ receipts'[r].status = "published" => receipts[r].status = "published"
  BY <1>3, WithoutIs
<1>8. ReceiptsAreFine'
  BY <1>1, <1>5, <1>7, ReceiptsWrittenFine
<1>9. RowsAreFine' /\ RowsStay
  BY <1>1, <1>5, <1>6, <1>7, <1>8 DEF RowsAreFine, RowsStay
<1> QED
  BY <1>1, <1>9, StepBetweenCallsKeeps DEF ExternalInv, TypeOK

(* After a crash no call is left, and a post that was asked for may exist. *)
LEMMA CrashKeeps ==
  ASSUME ExternalInv, Crash
  PROVE  ExternalInv'
<1>1. /\ calls' = [c \in Callers |-> Idle] /\ todo' = [c \in Callers |-> {}] /\ loop' = Nobody
      /\ crashes < MaxCrashes /\ crashes' = crashes + 1 /\ UNCHANGED <<worldVars, actions, receipts>>
  BY DEF Crash
<1>2. posted \subseteq posted' /\ posted' \subseteq ActionIds
  <2>1. PICK C \in SUBSET {c \in Callers : calls[c].pc = "provider"} :
           posted' = posted \cup {Target(c) : c \in C}
    BY DEF Crash
  <2>2. ASSUME NEW c \in C PROVE Target(c) \in ActionIds
    <3>1. c \in Callers /\ calls[c].receipt \in DOMAIN receipts
      BY <2>1, CallIs DEF Refers, WithAReceipt
    <3>2. receipts[calls[c].receipt].action \in DOMAIN actions /\ DOMAIN actions \subseteq ActionIds
      BY <3>1 DEF ExternalInv, RowsAreFine, ReceiptsAreFine, ActionsAreFine
    <3> QED
      BY <3>2 DEF Target
  <2> QED
    BY <2>1, <2>2 DEF ExternalInv, TypeOK
<1>3. RowsAreFine'
  BY <1>1, <1>2, ActionsStayFine, ReceiptsStayFine DEF RowsAreFine
<1>4. OneRuns' /\ CallsAreFine'
  <2>1. Refers(Idle)' /\ IsCurrent(Idle)'
    BY IdleIs DEF Refers, IsCurrent, WithAReceipt
  <2>2. \A c \in Callers : calls'[c] = Idle
    BY <1>1
  <2>3. CallsAreFine'
    BY <2>1, <2>2 DEF CallsAreFine
  <2>4. OneRuns'
    BY <2>2, IdleIs DEF OneRuns, OnTheLoop
  <2> QED
    BY <2>3, <2>4
<1>5. TypeOK'
  <2>1. /\ crashes' \in 0..MaxCrashes /\ calls' \in [Callers -> Call]
        /\ todo' \in [Callers -> SUBSET ActionIds]
    BY <1>1, IdleIs, BoundsAssumption DEF ExternalInv, TypeOK
  <2> QED
    BY <1>1, <1>2, <2>1 DEF ExternalInv, TypeOK, worldVars
<1> QED
  BY <1>3, <1>4, <1>5 DEF ExternalInv

(* Every step keeps the invariant.                                         *)
LEMMA ExternalNext == ExternalInv /\ [Next]_vars => ExternalInv'
<1> SUFFICES ASSUME ExternalInv, [Next]_vars PROVE ExternalInv'
  OBVIOUS
<1>1. CASE UNCHANGED vars
  <2>1. UNCHANGED <<subject, policy, raised, cadence, now, changes, actions, receipts, loop, calls, todo,
                    posted, crashes>>
    BY <1>1 DEF vars, worldVars, callVars
  <2>2. TypeOK' /\ OneRuns'
    BY <2>1 DEF ExternalInv, TypeOK, OneRuns
  <2>3. RowsAreFine'
    BY <2>1, ActionsStayFine, ReceiptsStayFine DEF ExternalInv, RowsAreFine
  <2>4. CallsAreFine'
    BY <2>1 DEF ExternalInv, CallsAreFine, Refers, IsCurrent, Cleared, Diverged, Guarded, Rivaled, Kept
  <2> QED
    BY <2>2, <2>3, <2>4 DEF ExternalInv
<1>2. ASSUME NEW c \in Callers,
             \/ Propose(c) \/ Repropose(c) \/ Authorize(c) \/ Run(c) \/ Retry(c) \/ Goes(c)
             \/ Published(c) \/ Processing(c) \/ Failure(c) \/ Notified(c)
      PROVE  ExternalInv'
  BY <1>2, ProposingKeeps, AuthorizeKeeps, RunKeeps, RetryKeeps, GateKeeps, DispatchKeeps, ExecuteKeeps,
     AttemptKeeps, ConcludeKeeps, AnswerKeeps DEF Goes
<1>3. CASE Cancel \/ DeleteReceipt \/ Change \/ TimePasses
  BY <1>3, OutsideKeeps
<1>4. CASE StopCadence
  BY <1>4, StopCadenceKeeps
<1>5. CASE Crash
  BY <1>5, CrashKeeps
<1> QED
  BY <1>1, <1>2, <1>3, <1>4, <1>5 DEF Next

(***************************************************************************)
(* The theorems.                                                           *)
(***************************************************************************)

(* In every reachable state one call runs at a time, what it has made sure *)
(* of still holds, and the rows are in order.                              *)
THEOREM ExternalInvariance == Spec => []ExternalInv
<1>1. Init => ExternalInv
  BY ExternalInit
<1>2. ExternalInv /\ [Next]_vars => ExternalInv'
  BY ExternalNext
<1> QED
  BY <1>1, <1>2, PTL DEF Spec

(* An action counts as succeeded only if the provider made its post.       *)
THEOREM SuccessesArePosted == Spec => []SucceededMeansPosted
<1>1. ExternalInv => SucceededMeansPosted
  BY DEF ExternalInv, RowsAreFine, ActionsAreFine, SucceededMeansPosted
<1> QED
  BY <1>1, ExternalInvariance, PTL

(* Crashes between two writes, retries and overlapping runs never give an  *)
(* action two receipts at a time.                                          *)
THEOREM OneReceiptAtATime == Spec => []OneReceiptPerAction
<1>1. ExternalInv => OneReceiptPerAction
  <2> SUFFICES ASSUME ExternalInv, NEW a \in DOMAIN actions PROVE Cardinality(ReceiptsOf(a)) <= 1
    BY DEF OneReceiptPerAction
  <2>1. \A r, q \in ReceiptsOf(a) : r = q
    BY DEF ReceiptsOf, Kept, ExternalInv, RowsAreFine, ReceiptsAreFine
  <2>2. CASE ReceiptsOf(a) = {}
    <3>1. Cardinality(ReceiptsOf(a)) = 0
      BY <2>2, FS_EmptySet
    <3> QED
      BY <3>1
  <2>3. CASE ReceiptsOf(a) # {}
    <3>1. PICK r : ReceiptsOf(a) = {r}
      BY <2>1, <2>3
    <3>2. Cardinality(ReceiptsOf(a)) = 1
      BY <3>1, FS_Singleton
    <3> QED
      BY <3>2
  <2> QED
    BY <2>2, <2>3
<1> QED
  BY <1>1, ExternalInvariance, PTL

(* Only an attempt calls the provider, for an action that was cleared and  *)
(* is connected.                                                           *)
LEMMA BeginsCleared ==
  ASSUME ExternalInv, Next, NEW c \in Callers, NEW a \in DOMAIN actions, Begins(c, a)
  PROVE  Cleared(a) /\ "disconnected" \notin raised /\ LetOut(actions[a]) /\ actions[a] \in Action
<1>1. calls[c].pc # "provider" /\ calls'[c].pc = "provider" /\ calls[c].action = a
  BY DEF Begins
<1>2. calls[c] \in Call /\ calls \in [Callers -> Call] /\ a # NoAction /\ actions[a] \in Action
  BY CallIs, IdsAssumption DEF ExternalInv, TypeOK
<1>3. ASSUME NEW d \in Callers, NEW x, x.pc # "provider", calls' = [calls EXCEPT ![d] = x] PROVE FALSE
  BY <1>1, <1>2, <1>3
<1>4. ASSUME NEW d \in Callers, Return(d) PROVE FALSE
  <2>1. \E b : calls' = [calls EXCEPT ![d] = Idle]
               \/ calls' = [calls EXCEPT ![d] = [Idle EXCEPT !.pc = "dispatch", !.action = b]]
    BY <1>4 DEF Return
  <2> QED
    BY <1>3, <2>1 DEF Idle
<1>5. PICK d \in Callers : Attempt(d)
  <2>1. ASSUME UNCHANGED calls PROVE FALSE
    BY <1>1, <2>1
  <2>2. ASSUME NEW d \in Callers, Propose(d) \/ Repropose(d) PROVE FALSE
    <3>1. \E b : calls' = [calls EXCEPT ![d] = [Idle EXCEPT !.pc = "gate", !.action = b]]
      BY <2>2 DEF Propose, Repropose, Inserted
    <3> QED
      BY <1>3, <3>1 DEF Idle
  <2>3. ASSUME NEW d \in Callers, NEW pc, pc # "provider", calls' = [calls EXCEPT ![d].pc = pc] PROVE FALSE
    BY <1>1, <1>2, <2>3 DEF Call
  <2>4. ASSUME NEW d \in Callers, NEW pc, pc # "provider", NEW b,
               \/ calls' = [calls EXCEPT ![d].pc = pc, ![d].action = b]
               \/ calls' = [calls EXCEPT ![d].pc = pc, ![d].receipt = b]
        PROVE FALSE
    BY <1>1, <1>2, <2>4 DEF Call
  <2>5. ASSUME NEW d \in Callers, Gate(d) \/ Dispatch(d) \/ Conclude(d) \/ Execute(d) PROVE FALSE
    BY <1>4, <2>3, <2>4, <2>5 DEF Gate, Dispatch, Conclude, Execute, GoTo
  <2>6. ASSUME NEW d \in Callers, Authorize(d) \/ Run(d) \/ Retry(d) PROVE FALSE
    <3>1. CASE Authorize(d)
      <4>1. \/ UNCHANGED calls
            \/ \E b : calls' = [calls EXCEPT ![d].pc = "dispatch", ![d].action = b]
        BY <3>1 DEF Authorize, callVars
      <4> QED
        BY <2>1, <2>4, <4>1
    <3>2. CASE Run(d)
      <4>1. \E b : calls' = [calls EXCEPT ![d].pc = "dispatch", ![d].action = b]
        BY <3>2 DEF Run
      <4> QED
        BY <2>4, <4>1
    <3>3. CASE Retry(d)
      <4>1. \E b : calls' = [calls EXCEPT ![d].pc = "attempt", ![d].receipt = b]
        BY <3>3 DEF Retry
      <4> QED
        BY <2>4, <4>1
    <3> QED
      BY <2>6, <3>1, <3>2, <3>3
  <2>7. ASSUME NEW d \in Callers, Published(d) \/ Processing(d) \/ Failure(d) \/ Notified(d) PROVE FALSE
    BY <2>3, <2>7 DEF Published, Processing, Failure, Notified, GoTo
  <2>8. ASSUME Cancel \/ DeleteReceipt \/ StopCadence \/ Change \/ TimePasses PROVE FALSE
    BY <2>1, <2>8 DEF Cancel, DeleteReceipt, StopCadence, Change, TimePasses, callVars
  <2>9. ASSUME Crash PROVE FALSE
    BY <1>1, <2>9 DEF Crash, Idle
  <2> QED
    BY <2>2, <2>5, <2>6, <2>7, <2>8, <2>9 DEF Next, Goes
<1>6. d = c /\ calls[c].pc = "attempt" /\ "disconnected" \notin raised
  BY <1>1, <1>2, <1>5 DEF Attempt, Runs, GoTo, Call
<1>7. Cleared(a)
  BY <1>1, <1>2, <1>6, CallIs DEF IsCurrent
<1>8. LetOut(actions[a])
  BY <1>7 DEF Cleared, ExternalInv, RowsAreFine, ActionsAreFine, OutStatuses
<1> QED
  BY <1>2, <1>6, <1>7, <1>8

(* No post without its gate: what the coordinator calls the provider for   *)
(* is what revalidation would build now, its time has come, and whom the   *)
(* policy asks for has let it out.                                         *)
THEOREM TheGateHolds == Spec => NothingSkipsTheGate
<1>1. ExternalInv /\ [Next]_vars => [\A c \in Callers, a \in DOMAIN actions : Begins(c, a) =>
          /\ ~Diverged(a)
          /\ actions[a].status = "dispatching"
          /\ actions[a].requestedFor <= now
          /\ policy = "human_required" \/ actions[a].review =>
                \/ actions[a].authority = "person"
                \/ /\ actions[a].authority = "approval"
                   /\ subject \in Covered
                   /\ ~actions[a].review
                   /\ actions[a].supersedes = NoAction]_vars
  <2> SUFFICES ASSUME ExternalInv, Next, NEW c \in Callers, NEW a \in DOMAIN actions, Begins(c, a)
               PROVE  /\ ~Diverged(a)
                      /\ actions[a].status = "dispatching"
                      /\ actions[a].requestedFor <= now
                      /\ policy = "human_required" \/ actions[a].review =>
                            \/ actions[a].authority = "person"
                            \/ /\ actions[a].authority = "approval"
                               /\ subject \in Covered
                               /\ ~actions[a].review
                               /\ actions[a].supersedes = NoAction
    OBVIOUS
  <2>1. Cleared(a) /\ LetOut(actions[a])
    BY BeginsCleared
  <2>2. policy = actions[a].policy /\ subject = actions[a].subject
    BY <2>1 DEF Cleared, Diverged
  <2> QED
    BY <2>1, <2>2 DEF Cleared, LetOut
<1> QED
  BY <1>1, ExternalInvariance, PTL DEF Spec, NothingSkipsTheGate

(* The guardrails hold whenever the coordinator calls the provider, for    *)
(* resumed work too, and no second action reaches the destination.         *)
THEOREM GuardrailsHold == Spec => GuardrailsHoldAtTheCall
<1>1. ExternalInv /\ [Next]_vars => [\A c \in Callers, a \in DOMAIN actions : Begins(c, a) =>
          /\ "disconnected" \notin raised
          /\ actions[a].automated => raised = {}
          /\ \A r \in DOMAIN receipts : receipts[r].action # a =>
                receipts[r].status \in {"failed", "deleted"}]_vars
  <2> SUFFICES ASSUME ExternalInv, Next, NEW c \in Callers, NEW a \in DOMAIN actions, Begins(c, a)
               PROVE  /\ "disconnected" \notin raised
                      /\ actions[a].automated => raised = {}
                      /\ \A r \in DOMAIN receipts : receipts[r].action # a =>
                            receipts[r].status \in {"failed", "deleted"}
    OBVIOUS
  <2>1. "disconnected" \notin raised /\ ~Guarded(a) /\ raised \subseteq Guardrails
    BY BeginsCleared DEF Cleared, ExternalInv, TypeOK
  <2>2. actions[a].automated => raised = {}
    BY <2>1 DEF Guarded, Guardrails
  <2>3. ASSUME NEW r \in DOMAIN receipts, receipts[r].action # a
        PROVE  receipts[r].status \in {"failed", "deleted"}
    <3>1. receipts[r] \in Receipt /\ receipts[r].status \notin LiveStatuses
      BY <2>1, <2>3 DEF Guarded, Rivaled, ExternalInv, TypeOK
    <3> QED
      BY <3>1 DEF Receipt, LiveStatuses
  <2> QED
    BY <2>1, <2>2, <2>3
<1> QED
  BY <1>1, ExternalInvariance, PTL DEF Spec, GuardrailsHoldAtTheCall

(* A step settles one of these rows only the way it may: what is over      *)
(* stays as it is, and what is under way stays so or comes to its end.     *)
LEMMA MovesAreForward ==
  ASSUME actions \in [DOMAIN actions -> Action],
         NEW a \in DOMAIN actions, NEW b \in DOMAIN actions, NEW to, NEW f, f = Moved(b, to)
  PROVE  /\ actions[a].status \in {"succeeded", "cancelled"} => f[a] = actions[a]
         /\ actions[a].status = "dispatching" =>
               f[a].status \in {"dispatching", "succeeded", "failed"}
<1>0. /\ \A x \in DOMAIN actions : x # b => Moved(b, to)[x] = actions[x]
      /\ \/ Moved(b, to) = actions
         \/ to \in Transitions[actions[b].status] /\ Moved(b, to)[b].status = to
  <2>1. /\ Moved(b, to) \in [DOMAIN actions -> Action]
        /\ \A x \in DOMAIN actions : x # b => Moved(b, to)[x] = actions[x]
        /\ \/ Moved(b, to) = actions
           \/ /\ to \in Transitions[actions[b].status]
              /\ Moved(b, to)[b] = [actions[b] EXCEPT !.status = to]
              /\ Moved(b, to)[b].status = to
    BY MovedIs
  <2> QED
    BY <2>1, Zenon
<1>1. CASE f = actions
  BY <1>1
<1>2. CASE f # actions
  <2>1. /\ to \in Transitions[actions[b].status] /\ f[b].status = to
        /\ actions[b].status \in Statuses
    <3>1. actions[b] \in Action
      OBVIOUS
    <3>2. actions[b].status \in Statuses
      BY <3>1, TransitionsAre DEF Action
    <3>3. to \in Transitions[actions[b].status] /\ f[b].status = to
      BY <1>0, <1>2, Zenon
    <3> QED
      BY <3>2, <3>3
  <2>2. CASE a = b
    BY <2>1, <2>2, TransitionsAre
  <2>3. CASE a # b
    <3>1. f[a] = actions[a]
      BY <2>3, <1>0, Zenon
    <3> QED
      BY <3>1
  <2> QED
    BY <2>2, <2>3
<1> QED
  BY <1>1, <1>2

(* Refusals and successes are final, and what is under way only moves      *)
(* forward: the gate lets out proposals only, a person too, and all the    *)
(* rest goes through the transitions.                                      *)
THEOREM OutcomesStay == Spec => OutcomesAreFinal
<1> DEFINE Forward(a, row) ==
             /\ actions[a].status \in {"succeeded", "cancelled"} => row = actions[a]
             /\ actions[a].status = "dispatching" =>
                   row.status \in {"dispatching", "succeeded", "failed"}
<1>1. ExternalInv /\ [Next]_vars => [\A a \in DOMAIN actions : Forward(a, actions'[a])]_vars
  <2> SUFFICES ASSUME ExternalInv, Next, NEW a \in DOMAIN actions PROVE Forward(a, actions'[a])
    OBVIOUS
  <2>1. actions \in [DOMAIN actions -> Action] /\ DOMAIN actions \subseteq ActionIds
    BY DEF ExternalInv, RowsAreFine, ActionsAreFine
  <2>2. ASSUME UNCHANGED actions PROVE Forward(a, actions'[a])
    BY <2>2
  <2>3. ASSUME NEW b \in DOMAIN actions, NEW to, actions' = Moved(b, to) PROVE Forward(a, actions'[a])
    <3>1. PICK f : f = Moved(b, to)
      OBVIOUS
    <3>2. Forward(a, f[a])
      BY <2>1, <3>1, MovesAreForward
    <3> QED
      BY <2>3, <3>1, <3>2
  <2>4. ASSUME NEW b \in DOMAIN actions, NEW authority,
               actions[b].status \in {"proposed", "authorization_required"},
               actions' = [actions EXCEPT ![b].status = "authorized", ![b].authority = authority]
        PROVE  Forward(a, actions'[a])
    <3>1. CASE a = b
      BY <2>4, <3>1
    <3>2. CASE a # b
      BY <2>1, <2>4, <3>2
    <3> QED
      BY <3>1, <3>2
  <2>5. ASSUME NEW c \in Callers, Propose(c) \/ Repropose(c) PROVE Forward(a, actions'[a])
    <3>1. \E b \in ActionIds \ DOMAIN actions : \A x \in DOMAIN actions : actions'[x] = actions[x]
      BY <2>5 DEF Propose, Repropose, Inserted
    <3> QED
      BY <3>1
  <2>6. ASSUME NEW c \in Callers, Gate(c) PROVE Forward(a, actions'[a])
    <3>1. calls[c].action \in DOMAIN actions /\ actions[calls[c].action].status = "proposed"
      BY <2>6, CallIs DEF Gate, Runs, Refers, IsCurrent
    <3>2. \/ \E authority : actions' = [actions EXCEPT ![calls[c].action].status = "authorized",
                                                       ![calls[c].action].authority = authority]
          \/ actions' = Moved(calls[c].action, "authorization_required")
      BY <2>6 DEF Gate
    <3> QED
      BY <2>3, <2>4, <3>1, <3>2
  <2>7. ASSUME NEW c \in Callers, Authorize(c) PROVE Forward(a, actions'[a])
    <3>1. PICK b \in DOMAIN actions :
             /\ CanMove(b, "authorized")
             /\ \/ actions' = Moved(b, "stale")
                \/ actions' = [actions EXCEPT ![b].status = "authorized", ![b].authority = "person"]
      BY <2>7 DEF Authorize
    <3>2. actions[b].status \in {"proposed", "authorization_required"}
      <4>1. actions[b].status \in Statuses
        BY <2>1, TransitionsAre DEF Action
      <4> QED
        BY <3>1, <4>1, TransitionsAre DEF CanMove
    <3> QED
      BY <2>3, <2>4, <3>1, <3>2
  <2>8. ASSUME NEW c \in Callers, Dispatch(c) PROVE Forward(a, actions'[a])
    <3>1. calls[c].action \in DOMAIN actions
      BY <2>8, CallIs DEF Dispatch, Runs, Refers
    <3>2. \E to : actions' = Moved(calls[c].action, to)
      BY <2>8 DEF Dispatch
    <3> QED
      BY <2>3, <3>1, <3>2
  <2>9. ASSUME NEW c \in Callers, Conclude(c) PROVE Forward(a, actions'[a])
    <3>1. \/ UNCHANGED actions
          \/ calls[c].action # NoAction /\ \E to : actions' = Moved(calls[c].action, to)
      BY <2>9 DEF Conclude
    <3>2. calls[c].action # NoAction => calls[c].action \in DOMAIN actions
      <4>1. calls[c].receipt \in DOMAIN receipts
            /\ calls[c].action \in {NoAction, receipts[calls[c].receipt].action}
        BY <2>9, CallIs DEF Conclude, Runs, Refers, WithAReceipt
      <4>2. receipts[calls[c].receipt].action \in DOMAIN actions
        BY <4>1 DEF ExternalInv, RowsAreFine, ReceiptsAreFine
      <4> QED
        BY <4>1, <4>2
    <3> QED
      BY <2>2, <2>3, <3>1, <3>2
  <2>10. ASSUME Cancel PROVE Forward(a, actions'[a])
    <3>1. \E b \in DOMAIN actions : actions' = Moved(b, "cancelled")
      BY <2>10 DEF Cancel
    <3> QED
      BY <2>3, <3>1
  <2>11. ASSUME StopCadence PROVE Forward(a, actions'[a])
    <3>1. actions'[a] \in {Moved(a, "cancelled")[a], actions[a]}
      BY <2>11 DEF StopCadence
    <3>2. PICK f : f = Moved(a, "cancelled")
      OBVIOUS
    <3>3. Forward(a, f[a])
      BY <2>1, <3>2, MovesAreForward
    <3>4. Forward(a, actions[a])
      OBVIOUS
    <3> QED
      BY <3>1, <3>2, <3>3, <3>4
  <2>12. ASSUME NEW c \in Callers,
                \/ Run(c) \/ Retry(c) \/ Execute(c) \/ Attempt(c)
                \/ Published(c) \/ Processing(c) \/ Failure(c) \/ Notified(c)
         PROVE  UNCHANGED actions
    BY <2>12 DEF Run, Retry, Execute, Attempt, Published, Processing, Failure, Notified
  <2>13. ASSUME DeleteReceipt \/ Change \/ TimePasses \/ Crash PROVE UNCHANGED actions
    BY <2>13 DEF DeleteReceipt, Change, TimePasses, Crash
  <2> QED
    BY <2>2, <2>5, <2>6, <2>7, <2>8, <2>9, <2>10, <2>11, <2>12, <2>13 DEF Next, Goes
<1> QED
  BY <1>1, ExternalInvariance, PTL DEF Spec, OutcomesAreFinal
===========================================================================
