--------------------------- MODULE AutomationProofs ---------------------------
(***************************************************************************)
(* What Automation guarantees for any number of calls, items, drafts and   *)
(* revisions, and any sequence of changes of the settings.                 *)
(***************************************************************************)
EXTENDS Automation, TaskLeaseProofs, WellFoundedInduction

(* A revision under way was asked for an open draft, and while the draft   *)
(* has not been written since, it has the text and the state it had then.  *)
TurnsAreBased ==
    \A r \in Requests : turns[r].status = "running" =>
        LET d == turns[r].draft IN
        /\ d \in DOMAIN drafts
        /\ Allows(turns[r].state, "edit")
        /\ turns[r].updatedAt <= drafts[d].updatedAt
        /\ turns[r].updatedAt = drafts[d].updatedAt =>
              turns[r].text = drafts[d].text /\ turns[r].state = drafts[d].state

(* A call has items left only if what it read did not halt it.             *)
WorkIsAllowed == \A c \in Calls : work[c].left # {} => ~Halted(work[c].read)

(* Until path or definition is switched, every call under way has read     *)
(* them as they are.                                                       *)
ReadIsCurrent ==
    "switch" \notin excuses =>
        \A c \in Calls : work[c].left # {} =>
            /\ work[c].read.path = settings.path
            /\ work[c].read.definition = settings.definition

(* The engine is the way items are drafted, says s.                        *)
ByEngine(s) == s.path = "pipeline" /\ s.definition

(* A call generates for the items its settings leave to the legacy path.   *)
GeneratesLegacy ==
    \A c \in Calls : work[c].left # {} /\ work[c].step # "next" => ~ByEngine(work[c].read)

(* Where the drafts of an item come from.                                  *)
DraftsHaveOrigin ==
    \A d \in DOMAIN drafts :
        LET run == runs["live"][drafts[d].item] IN
        /\ drafts[d].made = "pipeline" => run \in {"proposed", "ended"}
        /\ drafts[d].made = "legacy" /\ "switch" \notin excuses => ~ByEngine(settings)

(* A call died proposing, or outlived its lease and was taken over.        *)
ProposalsRepeat == excuses \cap {"death", "late"} # {}

RunsHaveOrigin ==
    \A i \in Items :
        /\ runs["live"][i] # "none" /\ "switch" \notin excuses => ByEngine(settings)
        /\ runs["live"][i] = "taken" => "late" \in excuses
        /\ runs["live"][i] = "proposed" => ProposalsRepeat

(* Two drafts of one item with one origin are two proposals of one run.    *)
OriginsAreUsedOnce ==
    \A d, e \in DOMAIN drafts :
        drafts[d].item = drafts[e].item /\ drafts[d].made = drafts[e].made /\ d # e =>
            drafts[d].made = "pipeline" /\ ProposalsRepeat

AutomationInv ==
    /\ AutomationTypeOK
    /\ TurnsAreBased
    /\ WorkIsAllowed
    /\ ReadIsCurrent
    /\ GeneratesLegacy
    /\ DraftsHaveOrigin
    /\ RunsHaveOrigin
    /\ OriginsAreUsedOnce

(* The item a call is at is one of those it has left.                      *)
LEMMA CurrentIsLeft ==
  ASSUME AutomationTypeOK, NEW c \in Calls, work[c].left # {}
  PROVE  Current(c) \in work[c].left /\ Current(c) \in Items
<1>1. work[c].left \subseteq Items /\ work[c].left \subseteq Nat
  BY ItemsAssumption DEF AutomationTypeOK
<1>2. PICK i \in work[c].left : \A j \in work[c].left : ~ (<<j, i>> \in OpToRel(<, Nat))
  BY <1>1, WFMin, NatLessThanWellFounded, Zenon
<1>3. ASSUME NEW j \in work[c].left, ~(i <= j) PROVE FALSE
  <2>1. <<j, i>> \in Nat \X Nat /\ <<j, i>>[1] < <<j, i>>[2]
    BY <1>1, <1>3
  <2>2. <<j, i>> \in OpToRel(<, Nat)
    BY <2>1 DEF OpToRel
  <2> QED
    BY <1>2, <2>2
<1> QED
  BY <1>1, <1>3 DEF Current

(* A submission adds one draft, of the item and the origin given, that     *)
(* only the system may have decided about.                                 *)
LEMMA SubmittedAdds ==
  ASSUME drafts \in Seq(Draft), NEW i \in Items, NEW made \in {"legacy", "pipeline"},
         NEW approved \in BOOLEAN
  PROVE  LET after == Submitted(i, made, approved)
             n == Len(drafts) + 1 IN
         /\ after \in Seq(Draft)
         /\ DOMAIN after = DOMAIN drafts \cup {n}
         /\ n \notin DOMAIN drafts
         /\ \A d \in DOMAIN drafts : after[d] = drafts[d]
         /\ after[n].item = i /\ after[n].made = made
         /\ after[n].by = "system" => approved
<1> DEFINE new == [item |-> i, made |-> made, text |-> 0, updatedAt |-> 0,
                   state |-> IF approved THEN "approved" ELSE "pending_review",
                   by |-> IF approved THEN "system" ELSE "nobody"]
<1>1. new \in Draft
  BY DEF Draft
<1>2. Submitted(i, made, approved) = Append(drafts, new)
  BY DEF Submitted
<1>3. new.item = i /\ new.made = made /\ (new.by = "system" => approved)
  OBVIOUS
<1> HIDE DEF new
<1> QED
  BY <1>1, <1>2, <1>3

(* Every draft is well formed.                                             *)
LEMMA DraftTyped ==
  ASSUME AutomationTypeOK, NEW d \in DOMAIN drafts
  PROVE  /\ drafts[d].item \in Items /\ drafts[d].made \in {"legacy", "pipeline"}
         /\ drafts[d].updatedAt \in Nat
<1>1. drafts[d] \in Draft
  BY DEF AutomationTypeOK
<1> QED
  BY <1>1 DEF Draft

(* What a person or a revision may do to a draft, and what comes of it.    *)
LEMMA Transitions ==
  ASSUME NEW action \in DOMAIN Transition, NEW state, Allows(state, action)
  PROVE  /\ action \in {"edit", "resubmit", "approve", "reject"}
         /\ state \in {"pending_review", "edited"}
         /\ Transition[action][state] \in {"pending_review", "edited", "approved", "rejected"}
<1>1. action \in {"edit", "resubmit", "approve", "reject"}
  BY DEF Transition
<1>2. CASE action = "edit"
  BY <1>2 DEF Transition, Allows
<1>3. CASE action = "resubmit"
  BY <1>3 DEF Transition, Allows
<1>4. CASE action = "approve"
  BY <1>4 DEF Transition, Allows
<1>5. CASE action = "reject"
  BY <1>5 DEF Transition, Allows
<1> QED
  BY <1>1, <1>2, <1>3, <1>4, <1>5

(* An action writes one draft: a later write, by a person or by nobody,    *)
(* of a draft with the same item and origin.                               *)
LEMMA ActedWrites ==
  ASSUME drafts \in Seq(Draft), NEW d \in DOMAIN drafts,
         NEW action \in DOMAIN Transition, Allows(drafts[d].state, action)
  PROVE  LET after == Acted(d, action) IN
         /\ after \in Seq(Draft)
         /\ DOMAIN after = DOMAIN drafts
         /\ \A e \in DOMAIN drafts \ {d} : after[e] = drafts[e]
         /\ after[d].item = drafts[d].item /\ after[d].made = drafts[d].made
         /\ after[d].by \in {drafts[d].by, "person"}
         /\ after[d].updatedAt = drafts[d].updatedAt + 1
<1> DEFINE draft == drafts[d]
           state == Transition[action][draft.state]
           text == IF action = "edit" THEN draft.text + 1 ELSE draft.text
           by == IF action \in {"approve", "reject"} THEN "person" ELSE draft.by
           at == draft.updatedAt + 1
           new == [draft EXCEPT !.state = state, !.text = text, !.by = by,
                                !.updatedAt = at]
<1>1. draft \in Draft
  OBVIOUS
<1>2. state \in {"pending_review", "edited", "approved", "rejected"}
  BY Transitions
<1>3. Acted(d, action) = [drafts EXCEPT ![d] = new]
  BY DEF Acted
<1> HIDE DEF draft
<1>4. text \in Nat /\ at \in Nat
  BY <1>1 DEF Draft
<1>5. by \in {draft.by, "person"} /\ by \in {"nobody", "system", "person"}
  BY <1>1 DEF Draft
<1> HIDE DEF state, text, by, at
<1>6. /\ new \in Draft
      /\ new.item = draft.item /\ new.made = draft.made
      /\ new.by = by /\ new.updatedAt = at
  BY <1>1, <1>2, <1>4, <1>5 DEF Draft
<1> HIDE DEF new
<1> QED
  BY <1>3, <1>5, <1>6 DEF draft, at

(* A revision under way may edit its draft as long as it is unchanged.     *)
LEMMA RevisedIsOpen ==
  ASSUME TurnsAreBased, NEW r \in Requests, turns[r].status = "running", Unchanged(r)
  PROVE  /\ turns[r].draft \in DOMAIN drafts
         /\ "edit" \in DOMAIN Transition
         /\ Allows(drafts[turns[r].draft].state, "edit")
         /\ drafts[turns[r].draft].text = turns[r].text
         /\ drafts[turns[r].draft].state = turns[r].state
<1>1. "edit" \in DOMAIN Transition
  BY DEF Transition
<1> QED
  BY <1>1 DEF TurnsAreBased, Unchanged

WorkRow == [step : {"next", "generating", "shadow"}, left : SUBSET Items, read : Settings]

(* A call that goes on changes nothing but how far it is itself.           *)
LEMMA WorkMoves ==
  ASSUME AutomationTypeOK, NEW c \in Calls
  PROVE  /\ NextItem(c) \in [Calls -> WorkRow]
         /\ NextItem(c)[c].step = "next" /\ NextItem(c)[c].read = work[c].read
         /\ NextItem(c)[c].left \subseteq work[c].left
         /\ \A b \in Calls \ {c} : NextItem(c)[b] = work[b]
         /\ \A step \in {"generating", "shadow"} :
               /\ Stay(c, step) \in [Calls -> WorkRow]
               /\ Stay(c, step)[c].step = step /\ Stay(c, step)[c].read = work[c].read
               /\ Stay(c, step)[c].left = work[c].left
               /\ \A b \in Calls \ {c} : Stay(c, step)[b] = work[b]
<1> DEFINE row == work[c]
           rest == row.left \ {Current(c)}
           next == [row EXCEPT !.step = "next", !.left = rest]
<1>1. work \in [Calls -> WorkRow] /\ row \in WorkRow
  BY DEF AutomationTypeOK, WorkRow
<1>2. NextItem(c) = [work EXCEPT ![c] = next]
  BY <1>1 DEF NextItem
<1> HIDE DEF row
<1>3. rest \in SUBSET Items /\ rest \subseteq row.left
  BY <1>1 DEF WorkRow
<1> HIDE DEF rest
<1>4. next \in WorkRow /\ next.step = "next" /\ next.read = row.read /\ next.left = rest
  BY <1>1, <1>3 DEF WorkRow
<1>5. ASSUME NEW step \in {"generating", "shadow"}
      PROVE  /\ Stay(c, step) \in [Calls -> WorkRow]
             /\ Stay(c, step)[c].step = step /\ Stay(c, step)[c].read = work[c].read
             /\ Stay(c, step)[c].left = work[c].left
             /\ \A b \in Calls \ {c} : Stay(c, step)[b] = work[b]
  <2> DEFINE same == [row EXCEPT !.step = step]
  <2>1. same \in WorkRow /\ same.step = step /\ same.read = row.read /\ same.left = row.left
    BY <1>1 DEF WorkRow
  <2>2. Stay(c, step) = [work EXCEPT ![c] = same]
    BY DEF Stay, row
  <2> HIDE DEF same
  <2> QED
    BY <1>1, <2>1, <2>2 DEF row
<1> HIDE DEF next
<1> QED
  BY <1>1, <1>2, <1>3, <1>4, <1>5 DEF row

(* The state stays well typed.                                             *)
LEMMA AutomationTypeStep ==
  AutomationTypeOK /\ TurnsAreBased /\ [AutomationNext]_allVars => AutomationTypeOK'
<1> SUFFICES ASSUME AutomationTypeOK, TurnsAreBased, [AutomationNext]_allVars PROVE AutomationTypeOK'
  OBVIOUS
<1> USE DEF AutomationTypeOK, RunStatus, reviewVars
<1>1. ASSUME NEW c \in Calls, Start(c) PROVE AutomationTypeOK'
  <2>1. PICK left \in {{}, Items} :
          work' = [work EXCEPT ![c] = [step |-> "next", left |-> left, read |-> settings]]
    BY <1>1 DEF Start
  <2> QED
    BY <1>1, <2>1 DEF Start
<1>2. ASSUME NEW c \in Calls, Consider(c) PROVE AutomationTypeOK'
  <2>1. Current(c) \in Items
    BY <1>2, CurrentIsLeft DEF Consider, At
  <2>2. work' \in {NextItem(c), Stay(c, "generating")}
    BY <1>2 DEF Consider
  <2>3. work' \in [Calls -> WorkRow]
    BY <2>2, WorkMoves
  <2>5. runs' \in {runs, Queued("live", Current(c))}
    BY <1>2 DEF Consider
  <2>6. Queued("live", Current(c))
           \in [{"live", "shadow"} -> [Items -> RunStatus]]
    BY <2>1 DEF Queued
  <2> QED
    BY <1>2, <2>3, <2>5, <2>6 DEF Consider, WorkRow
<1>3. ASSUME NEW c \in Calls, Commit(c) PROVE AutomationTypeOK'
  <2>1. Current(c) \in Items
    BY <1>3, CurrentIsLeft DEF Commit, At
  <2>2. work' \in {NextItem(c), Stay(c, "shadow")}
    BY <1>3 DEF Commit
  <2>3. work' \in [Calls -> WorkRow]
    BY <2>2, WorkMoves
  <2>4. (work[c].read.mode = "scheduled_auto") \in BOOLEAN
    OBVIOUS
  <2>5. Submitted(Current(c), "legacy", work[c].read.mode = "scheduled_auto") \in Seq(Draft)
    BY <2>1, <2>4, SubmittedAdds
  <2> QED
    BY <1>3, <2>3, <2>5 DEF Commit, WorkRow
<1>4. ASSUME NEW c \in Calls, GenerationFails(c) PROVE AutomationTypeOK'
  <2>1. NextItem(c) \in [Calls -> WorkRow]
    BY WorkMoves
  <2> QED
    BY <1>4, <2>1 DEF GenerationFails, WorkRow
<1>5. ASSUME NEW c \in Calls, QueueShadow(c) PROVE AutomationTypeOK'
  <2>1. NextItem(c) \in [Calls -> WorkRow] /\ Current(c) \in Items
    BY <1>5, WorkMoves, CurrentIsLeft DEF QueueShadow, At
  <2>2. Queued("shadow", Current(c))
           \in [{"live", "shadow"} -> [Items -> RunStatus]]
    BY <2>1 DEF Queued
  <2> QED
    BY <1>5, <2>1, <2>2 DEF QueueShadow, WorkRow
<1>6. ASSUME NEW c \in Calls, LeaseStep(c) PROVE AutomationTypeOK'
  BY <1>6 DEF LeaseStep, automationVars
<1>7. ASSUME NEW c \in Calls, End(c) PROVE AutomationTypeOK'
  BY <1>7 DEF End, NoWork, Settings
<1>8. CASE Tick /\ UNCHANGED automationVars
  BY <1>8 DEF automationVars
<1>9. CASE PickUp
  BY <1>9 DEF PickUp
<1>10. CASE EndRun
  <2>1. drafts' \in Seq(Draft)
    BY <1>10, SubmittedAdds DEF EndRun
  <2>2. runs' \in [{"live", "shadow"} -> [Items -> RunStatus]]
    <3>1. PICK m \in {"live", "shadow"}, i \in Items, to \in RunStatus :
            runs' = [runs EXCEPT ![m][i] = to]
      BY <1>10 DEF EndRun
    <3> QED
      BY <3>1
  <2> QED
    BY <1>10, <2>1, <2>2 DEF EndRun
<1>11. CASE DieProposing
  <2>1. PICK i \in Items :
          /\ runs' = [runs EXCEPT !["live"][i] = "proposed"]
          /\ drafts' = Submitted(i, "pipeline", FALSE)
    BY <1>11 DEF DieProposing
  <2>2. Submitted(i, "pipeline", FALSE) \in Seq(Draft)
    <3>1. FALSE \in BOOLEAN
      OBVIOUS
    <3> QED
      BY <3>1, SubmittedAdds
  <2>3. runs' \in [{"live", "shadow"} -> [Items -> RunStatus]]
    BY <2>1
  <2>4. events' \in 0..MaxEvents
    BY <1>11, AutomationBounds DEF DieProposing, Event
  <2> QED
    BY <1>11, <2>1, <2>2, <2>3, <2>4 DEF DieProposing
<1>12. CASE ProposeAgain
  <2>1. drafts' \in Seq(Draft)
    BY <1>12, SubmittedAdds DEF ProposeAgain
  <2> QED
    BY <1>12, <2>1 DEF ProposeAgain
<1>13. CASE Act
  BY <1>13, ActedWrites DEF Act
<1>14. ASSUME NEW r \in Requests, Ask(r) PROVE AutomationTypeOK'
  <2>1. PICK d \in DOMAIN drafts :
          /\ Allows(drafts[d].state, "edit")
          /\ turns' = [turns EXCEPT ![r] =
                [status |-> "running", draft |-> d, text |-> drafts[d].text,
                 state |-> drafts[d].state, updatedAt |-> drafts[d].updatedAt]]
    BY <1>14 DEF Ask
  <2>2. drafts[d] \in Draft /\ drafts[d].state \in {"pending_review", "edited"} /\ d \in Nat
    BY <2>1, Transitions DEF Transition
  <2> QED
    BY <1>14, <2>1, <2>2 DEF Ask, Draft
<1>15. ASSUME NEW r \in Requests, Revise(r) PROVE AutomationTypeOK'
  <2>1. drafts' \in Seq(Draft)
    <3>1. CASE Unchanged(r) /\ drafts' = Acted(turns[r].draft, "edit")
      BY <1>15, <3>1, RevisedIsOpen, ActedWrites DEF Revise
    <3> QED
      BY <1>15, <3>1 DEF Revise
  <2>2. PICK status \in {"completed", "failed"} : turns' = [turns EXCEPT ![r].status = status]
    BY <1>15 DEF Revise
  <2> DEFINE turn == turns[r]
             done == [turn EXCEPT !.status = status]
             Turn == [status : {"none", "running", "completed", "failed"}, draft : Nat, text : Nat,
                      state : {"none", "pending_review", "edited"}, updatedAt : Nat]
  <2>3. turns' = [turns EXCEPT ![r] = done] /\ turns \in [Requests -> Turn] /\ turn \in Turn
    BY <2>2
  <2> HIDE DEF turn
  <2>4. done \in Turn
    BY <2>3
  <2> HIDE DEF done
  <2>5. turns' \in [Requests -> Turn]
    BY <2>3, <2>4
  <2> QED
    BY <1>15, <2>1, <2>5 DEF Revise
<1>16. CASE Change
  <2>1. PICK field \in DOMAIN settings, s \in Settings :
          settings' = [settings EXCEPT ![field] = s[field]]
    BY <1>16 DEF Change
  <2>2. field \in {"path", "killSwitch", "mode", "definition"}
    BY <2>1 DEF Settings
  <2>3. settings' \in Settings
    BY <2>1, <2>2 DEF Settings
  <2> QED
    BY <1>16, <2>3, AutomationBounds DEF Change, Event
<1>17. CASE UNCHANGED allVars
  BY <1>17 DEF allVars, automationVars
<1>18. CASE TakeOver
  <2>1. events' \in 0..MaxEvents
    BY <1>18, AutomationBounds DEF TakeOver, Event
  <2> QED
    BY <1>18, <2>1 DEF TakeOver
<1> QED
  BY <1>1, <1>2, <1>3, <1>4, <1>5, <1>6, <1>7, <1>8, <1>9, <1>10, <1>11, <1>12, <1>13, <1>14,
     <1>15, <1>16, <1>17, <1>18 DEF AutomationNext

(***************************************************************************)
(* What a step may do to drafts and runs.                                  *)
(***************************************************************************)

(* A draft stays the draft of its item: it is left alone, or an open one   *)
(* is written once, and not by the system.                                 *)
LEMMA DraftsStay ==
  ASSUME AutomationTypeOK, TurnsAreBased, [AutomationNext]_allVars, NEW d \in DOMAIN drafts
  PROVE  /\ d \in DOMAIN drafts'
         /\ drafts'[d].item = drafts[d].item /\ drafts'[d].made = drafts[d].made
         /\ \/ drafts'[d] = drafts[d]
            \/ /\ drafts[d].state \in {"pending_review", "edited"}
               /\ drafts'[d].updatedAt = drafts[d].updatedAt + 1
               /\ drafts'[d].by \in {drafts[d].by, "person"}
<1> DEFINE Stays == /\ d \in DOMAIN drafts'
                    /\ drafts'[d].item = drafts[d].item /\ drafts'[d].made = drafts[d].made
                    /\ \/ drafts'[d] = drafts[d]
                       \/ /\ drafts[d].state \in {"pending_review", "edited"}
                          /\ drafts'[d].updatedAt = drafts[d].updatedAt + 1
                          /\ drafts'[d].by \in {drafts[d].by, "person"}
<1> SUFFICES Stays
  OBVIOUS
<1>0. drafts \in Seq(Draft)
  BY DEF AutomationTypeOK
<1>1. ASSUME NEW i \in Items, NEW made \in {"legacy", "pipeline"}, NEW approved \in BOOLEAN,
             drafts' = Submitted(i, made, approved)
      PROVE  Stays
  BY <1>0, <1>1, SubmittedAdds
<1>2. ASSUME NEW e \in DOMAIN drafts, NEW action \in DOMAIN Transition,
             Allows(drafts[e].state, action), drafts' = Acted(e, action)
      PROVE  Stays
  <2>1. drafts[e].state \in {"pending_review", "edited"}
    BY <1>2, Transitions
  <2> QED
    BY <1>0, <1>2, <2>1, ActedWrites
<1>3. CASE drafts' = drafts
  BY <1>3
<1> HIDE DEF Stays
<1>4. ASSUME NEW c \in Calls, Commit(c) PROVE Stays
  <2>1. Current(c) \in Items
    BY <1>4, CurrentIsLeft DEF Commit, At
  <2>2. (work[c].read.mode = "scheduled_auto") \in BOOLEAN
    OBVIOUS
  <2> QED
    BY <1>1, <1>3, <1>4, <2>1, <2>2 DEF Commit
<1>5. CASE EndRun
  BY <1>1, <1>3, <1>5 DEF EndRun
<1>6. CASE DieProposing
  <2>1. FALSE \in BOOLEAN
    OBVIOUS
  <2> QED
    BY <1>1, <1>6, <2>1 DEF DieProposing
<1>7. CASE ProposeAgain
  BY <1>1, <1>7 DEF ProposeAgain
<1>8. CASE Act
  BY <1>2, <1>8 DEF Act
<1>9. ASSUME NEW r \in Requests, Revise(r) PROVE Stays
  <2>1. CASE Unchanged(r) /\ drafts' = Acted(turns[r].draft, "edit")
    BY <1>2, <1>9, <2>1, RevisedIsOpen DEF Revise
  <2> QED
    BY <1>3, <1>9, <2>1 DEF Revise
<1>10. CASE \/ \E c \in Calls : \/ Start(c) \/ Consider(c) \/ GenerationFails(c)
                                \/ QueueShadow(c) \/ LeaseStep(c) \/ End(c)
            \/ Tick /\ UNCHANGED automationVars
            \/ PickUp \/ TakeOver
            \/ \E r \in Requests : Ask(r)
            \/ Change
            \/ UNCHANGED allVars
  BY <1>3, <1>10 DEF Start, Consider, GenerationFails, QueueShadow, LeaseStep, End, PickUp,
                    TakeOver, Ask, Change, allVars, automationVars, reviewVars
<1> QED
  BY <1>4, <1>5, <1>6, <1>7, <1>8, <1>9, <1>10 DEF AutomationNext, Stays

(* The legacy draft of an item comes from a call that generates for it and *)
(* finds its key free.                                                     *)
BornOfCall(d) ==
    \E c \in Calls :
        /\ At(c, "generating")
        /\ drafts'[d].made = "legacy"
        /\ drafts'[d].item = Current(c) /\ ~KeyTaken(Current(c))
        /\ drafts'[d].by = "system" => work[c].read.mode = "scheduled_auto"
        /\ UNCHANGED <<runs, settings, excuses>>

(* The other drafts come from the end of the item's run, from one of two   *)
(* calls that are at it, or from a death at its end.                       *)
BornOfRun(d) ==
    LET i == drafts'[d].item IN
    /\ drafts'[d].made = "pipeline"
    /\ i \in Items
    /\ \/ runs["live"][i] = "running" /\ runs'["live"][i] = "ended" /\ excuses' = excuses
       \/ runs["live"][i] = "running" /\ runs'["live"][i] = "proposed" /\ "death" \in excuses'
       \/ runs["live"][i] = "taken" /\ runs'["live"][i] = "proposed" /\ excuses' = excuses
       \/ runs["live"][i] = "proposed" /\ runs'["live"][i] = "ended" /\ excuses' = excuses
    /\ drafts'[d].by = "system" => Approving
    /\ UNCHANGED settings

(* One draft is added at a time, by a call or at the end of a run.         *)
LEMMA DraftsAdded ==
  ASSUME AutomationTypeOK, TurnsAreBased, [AutomationNext]_allVars,
         NEW d \in DOMAIN drafts', d \notin DOMAIN drafts
  PROVE  d = Len(drafts) + 1 /\ (BornOfCall(d) \/ BornOfRun(d))
<1>0. drafts \in Seq(Draft)
  BY DEF AutomationTypeOK
<1>1. ASSUME NEW i \in Items, NEW made \in {"legacy", "pipeline"}, NEW approved \in BOOLEAN,
             drafts' = Submitted(i, made, approved)
      PROVE  /\ d = Len(drafts) + 1
             /\ drafts'[d].item = i /\ drafts'[d].made = made
             /\ drafts'[d].by = "system" => approved
  BY <1>0, <1>1, SubmittedAdds
<1>2. ASSUME NEW e \in DOMAIN drafts, NEW action \in DOMAIN Transition,
             Allows(drafts[e].state, action), drafts' = Acted(e, action)
      PROVE  FALSE
  BY <1>0, <1>2, ActedWrites
<1>3. ASSUME NEW c \in Calls, Commit(c)
      PROVE  d = Len(drafts) + 1 /\ BornOfCall(d)
  <2>1. Current(c) \in Items
    BY <1>3, CurrentIsLeft DEF Commit, At
  <2>2. (work[c].read.mode = "scheduled_auto") \in BOOLEAN
    OBVIOUS
  <2>3. ~KeyTaken(Current(c))
        /\ drafts' = Submitted(Current(c), "legacy", work[c].read.mode = "scheduled_auto")
    BY <1>3 DEF Commit
  <2> QED
    BY <1>1, <1>3, <2>1, <2>2, <2>3 DEF Commit, BornOfCall
<1>4. CASE EndRun
  <2>1. PICK m \in {"live", "shadow"}, i \in Items :
          /\ runs[m][i] \in {"running", "taken"}
          /\ runs' = [runs EXCEPT ![m][i] = IF @ = "taken" THEN "proposed" ELSE "ended"]
          /\ Proposes(m)
          /\ \E approved \in BOOLEAN : /\ approved => Approving
                                      /\ drafts' = Submitted(i, "pipeline", approved)
    BY <1>4 DEF EndRun
  <2>2. /\ m = "live"
        /\ \/ runs["live"][i] = "running" /\ runs'["live"][i] = "ended"
           \/ runs["live"][i] = "taken" /\ runs'["live"][i] = "proposed"
    BY <2>1 DEF Proposes, AutomationTypeOK
  <2> QED
    BY <1>1, <1>4, <2>1, <2>2 DEF EndRun, BornOfRun
<1>5. CASE DieProposing
  <2>1. PICK i \in Items : /\ runs["live"][i] = "running"
                           /\ runs' = [runs EXCEPT !["live"][i] = "proposed"]
                           /\ drafts' = Submitted(i, "pipeline", FALSE)
    BY <1>5 DEF DieProposing
  <2>2. FALSE \in BOOLEAN /\ runs'["live"][i] = "proposed"
    BY <2>1 DEF AutomationTypeOK
  <2> QED
    BY <1>1, <1>5, <2>1, <2>2 DEF DieProposing, BornOfRun
<1>6. CASE ProposeAgain
  <2>1. PICK i \in Items, approved \in BOOLEAN :
          /\ runs["live"][i] = "proposed"
          /\ approved => Approving
          /\ runs' = [runs EXCEPT !["live"][i] = "ended"]
          /\ drafts' = Submitted(i, "pipeline", approved)
    BY <1>6 DEF ProposeAgain
  <2>2. runs'["live"][i] = "ended"
    BY <2>1 DEF AutomationTypeOK
  <2> QED
    BY <1>1, <1>6, <2>1, <2>2 DEF ProposeAgain, BornOfRun
<1>7. CASE Act
  BY <1>2, <1>7 DEF Act
<1>8. ASSUME NEW r \in Requests, Revise(r) PROVE FALSE
  <2>1. CASE Unchanged(r) /\ drafts' = Acted(turns[r].draft, "edit")
    BY <1>2, <1>8, <2>1, RevisedIsOpen DEF Revise
  <2> QED
    BY <1>8, <2>1 DEF Revise
<1>9. CASE \/ \E c \in Calls : \/ Start(c) \/ Consider(c) \/ GenerationFails(c)
                               \/ QueueShadow(c) \/ LeaseStep(c) \/ End(c)
           \/ Tick /\ UNCHANGED automationVars
           \/ PickUp \/ TakeOver
           \/ \E r \in Requests : Ask(r)
           \/ Change
           \/ UNCHANGED allVars
  BY <1>9 DEF Start, Consider, GenerationFails, QueueShadow, LeaseStep, End, PickUp,
              TakeOver, Ask, Change, allVars, automationVars, reviewVars
<1> QED
  BY <1>3, <1>4, <1>5, <1>6, <1>7, <1>8, <1>9 DEF AutomationNext

(* A live run is queued once, by a call whose settings leave its item to   *)
(* the engine, and goes on from there.                                     *)
LEMMA RunsAdvance ==
  ASSUME AutomationTypeOK, [AutomationNext]_allVars, NEW i \in Items
  PROVE  LET run == runs["live"][i]
             after == runs'["live"][i] IN
         \/ after = run
         \/ /\ run = "none" /\ after = "queued"
            /\ \E c \in Calls : work[c].left # {} /\ Piped(c)
            /\ UNCHANGED <<settings, excuses>>
         \/ run \in {"queued", "taken"} /\ after = "running" /\ UNCHANGED <<settings, excuses>>
         \/ run = "running" /\ after = "taken" /\ "late" \in excuses' /\ UNCHANGED settings
         \/ run = "running" /\ after = "proposed" /\ "death" \in excuses' /\ UNCHANGED settings
         \/ run = "taken" /\ after = "proposed" /\ UNCHANGED <<settings, excuses>>
         \/ run \in {"running", "proposed"} /\ after = "ended" /\ UNCHANGED <<settings, excuses>>
<1> USE DEF AutomationTypeOK
<1>1. ASSUME NEW c \in Calls, Consider(c)
      PROVE  \/ runs' = runs
             \/ /\ work[c].left # {} /\ Piped(c) /\ UNCHANGED <<settings, excuses>>
                /\ \/ runs'["live"][i] = runs["live"][i]
                   \/ runs["live"][i] = "none" /\ runs'["live"][i] = "queued"
  BY <1>1 DEF Consider, At, Queued
<1>2. ASSUME NEW c \in Calls, QueueShadow(c) PROVE runs'["live"][i] = runs["live"][i]
  BY <1>2 DEF QueueShadow, Queued
<1>3. CASE PickUp
  BY <1>3 DEF PickUp
<1>4. CASE EndRun
  BY <1>4 DEF EndRun
<1>5. CASE DieProposing
  BY <1>5 DEF DieProposing
<1>6. CASE ProposeAgain
  BY <1>6 DEF ProposeAgain
<1>7. CASE \/ \E c \in Calls : \/ Start(c) \/ Commit(c) \/ GenerationFails(c)
                               \/ LeaseStep(c) \/ End(c)
           \/ Tick /\ UNCHANGED automationVars
           \/ Act
           \/ \E r \in Requests : Ask(r) \/ Revise(r)
           \/ Change
           \/ UNCHANGED allVars
  BY <1>7 DEF Start, Commit, GenerationFails, LeaseStep, End, Act, Ask, Revise, Change,
              allVars, automationVars
<1>8. CASE TakeOver
  BY <1>8 DEF TakeOver
<1> QED
  BY <1>1, <1>2, <1>3, <1>4, <1>5, <1>6, <1>7, <1>8 DEF AutomationNext

(* A call reads the settings when it starts and at no other time.          *)
LEMMA WorkAdvances ==
  ASSUME AutomationTypeOK, [AutomationNext]_allVars, NEW c \in Calls, work'[c].left # {}
  PROVE  \/ /\ work'[c].read = settings /\ ~Halted(settings) /\ work'[c].step = "next"
            /\ UNCHANGED <<settings, excuses>>
         \/ /\ work[c].left # {} /\ work'[c].read = work[c].read
            /\ work'[c].step \in {work[c].step, "next"} \/ ~Piped(c) \/ work[c].step # "next"
<1> USE DEF AutomationTypeOK
<1>1. ASSUME NEW b \in Calls, Start(b)
      PROVE  \/ /\ work'[c].read = settings /\ ~Halted(settings) /\ work'[c].step = "next"
                /\ UNCHANGED <<settings, excuses>>
             \/ work'[c] = work[c]
  <2>1. PICK left \in {{}, Items} :
          /\ Halted(settings) => left = {}
          /\ work' = [work EXCEPT ![b] = [step |-> "next", left |-> left, read |-> settings]]
    BY <1>1 DEF Start
  <2> QED
    BY <1>1, <2>1 DEF Start
<1>2. ASSUME NEW b \in Calls, Consider(b) \/ Commit(b) \/ GenerationFails(b) \/ QueueShadow(b)
      PROVE  \/ work'[c] = work[c]
             \/ /\ work[c].left # {} /\ work'[c].read = work[c].read
                /\ work'[c].step = "next" \/ ~Piped(c) \/ work[c].step # "next"
  <2>1. \/ work' = NextItem(b)
        \/ work' = Stay(b, "generating") /\ ~Piped(b)
        \/ work' = Stay(b, "shadow") /\ work[b].step = "generating"
    BY <1>2 DEF Consider, Commit, GenerationFails, QueueShadow, At
  <2> QED
    BY <2>1, WorkMoves
<1>3. ASSUME NEW b \in Calls, End(b) PROVE work'[c] = work[c]
  BY <1>3 DEF End, NoWork
<1>4. CASE \/ \E b \in Calls : LeaseStep(b)
           \/ Tick /\ UNCHANGED automationVars
           \/ PickUp \/ EndRun \/ TakeOver \/ DieProposing \/ ProposeAgain
           \/ Act
           \/ \E r \in Requests : Ask(r) \/ Revise(r)
           \/ Change
           \/ UNCHANGED allVars
  BY <1>4 DEF LeaseStep, PickUp, EndRun, TakeOver, DieProposing, ProposeAgain, Act, Ask, Revise, Change,
              allVars, automationVars
<1> QED
  BY <1>1, <1>2, <1>3, <1>4 DEF AutomationNext

(* An excuse is never taken back, and a switch of path or definition is    *)
(* one.                                                                    *)
LEMMA ExcusesGrow ==
  ASSUME AutomationTypeOK, [AutomationNext]_allVars
  PROVE  /\ excuses \subseteq excuses'
         /\ \/ "switch" \in excuses'
            \/ settings'.path = settings.path /\ settings'.definition = settings.definition
<1>1. CASE Change
  <2>1. PICK field \in DOMAIN settings, s \in Settings :
          /\ settings' = [settings EXCEPT ![field] = s[field]]
          /\ excuses' = IF field \in {"path", "definition"} THEN excuses \cup {"switch"}
                        ELSE excuses
    BY <1>1 DEF Change
  <2>2. CASE field \in {"path", "definition"}
    BY <2>1, <2>2
  <2>3. CASE field \notin {"path", "definition"}
    BY <2>1, <2>3 DEF AutomationTypeOK, Settings
  <2> QED
    BY <2>2, <2>3
<1>2. CASE DieProposing
  BY <1>2 DEF DieProposing
<1>3. CASE TakeOver
  BY <1>3 DEF TakeOver
<1>4. CASE ~Change /\ ~DieProposing /\ ~TakeOver
  BY <1>4 DEF AutomationNext, Start, Consider, Commit, GenerationFails, QueueShadow, LeaseStep,
              End, PickUp, EndRun, ProposeAgain, Act, Ask, Revise, allVars, automationVars
<1> QED
  BY <1>1, <1>2, <1>3, <1>4

(***************************************************************************)
(* The invariant and what follows from it.                                 *)
(***************************************************************************)

(* A draft that is written moves on from what the turns were asked for.    *)
LEMMA TurnsStep ==
  AutomationTypeOK /\ TurnsAreBased /\ [AutomationNext]_allVars => TurnsAreBased'
<1> SUFFICES ASSUME AutomationTypeOK, TurnsAreBased, [AutomationNext]_allVars,
                    NEW r \in Requests, turns'[r].status = "running"
             PROVE  LET d == turns'[r].draft IN
                    /\ d \in DOMAIN drafts'
                    /\ Allows(turns'[r].state, "edit")
                    /\ turns'[r].updatedAt <= drafts'[d].updatedAt
                    /\ turns'[r].updatedAt = drafts'[d].updatedAt =>
                          turns'[r].text = drafts'[d].text /\ turns'[r].state = drafts'[d].state
  BY DEF TurnsAreBased, Allows, Transition
<1>1. drafts \in Seq(Draft) /\ turns[r].updatedAt \in Nat
  BY DEF AutomationTypeOK
<1>2. CASE turns'[r] = turns[r]
  <2> DEFINE d == turns[r].draft
  <2>1. /\ d \in DOMAIN drafts /\ Allows(turns[r].state, "edit")
        /\ turns[r].updatedAt <= drafts[d].updatedAt
        /\ turns[r].updatedAt = drafts[d].updatedAt =>
              turns[r].text = drafts[d].text /\ turns[r].state = drafts[d].state
    BY <1>2 DEF TurnsAreBased
  <2>2. drafts[d].updatedAt \in Nat
    BY <2>1, DraftTyped
  <2>3. /\ d \in DOMAIN drafts'
        /\ drafts'[d] = drafts[d] \/ drafts'[d].updatedAt = drafts[d].updatedAt + 1
    BY <2>1, DraftsStay
  <2> QED
    BY <1>1, <1>2, <2>1, <2>2, <2>3
<1>3. CASE turns'[r] # turns[r]
  <2>1. PICK q \in Requests : Ask(q) \/ Revise(q)
    BY <1>3 DEF AutomationNext, Start, Consider, Commit, GenerationFails, QueueShadow, LeaseStep,
                End, PickUp, EndRun, TakeOver, DieProposing, ProposeAgain, Act, Change, allVars,
                automationVars, reviewVars
  <2>2. ~Revise(q)
    BY <1>3 DEF Revise, AutomationTypeOK
  <2>3. PICK d \in DOMAIN drafts :
          /\ Allows(drafts[d].state, "edit")
          /\ turns' = [turns EXCEPT ![q] =
                [status |-> "running", draft |-> d, text |-> drafts[d].text,
                 state |-> drafts[d].state, updatedAt |-> drafts[d].updatedAt]]
          /\ drafts' = drafts
    BY <2>1, <2>2 DEF Ask
  <2>4. /\ turns'[r].draft = d /\ turns'[r].text = drafts[d].text
        /\ turns'[r].state = drafts[d].state /\ turns'[r].updatedAt = drafts[d].updatedAt
    BY <1>3, <2>3 DEF AutomationTypeOK
  <2>5. drafts[d].updatedAt \in Nat
    BY DraftTyped
  <2> QED
    BY <2>3, <2>4, <2>5
<1> QED
  BY <1>2, <1>3

(* What the calls have read stays what it is said to be.                   *)
LEMMA WorkStep ==
  AutomationInv /\ [AutomationNext]_allVars => (WorkIsAllowed /\ ReadIsCurrent /\ GeneratesLegacy)'
<1> SUFFICES ASSUME AutomationInv, [AutomationNext]_allVars
             PROVE  (WorkIsAllowed /\ ReadIsCurrent /\ GeneratesLegacy)'
  OBVIOUS
<1>1. AutomationTypeOK /\ WorkIsAllowed /\ ReadIsCurrent /\ GeneratesLegacy
  BY DEF AutomationInv
<1>2. WorkIsAllowed'
  BY <1>1, WorkAdvances DEF WorkIsAllowed, Halted
<1>3. ReadIsCurrent'
  BY <1>1, WorkAdvances, ExcusesGrow DEF ReadIsCurrent
<1>4. GeneratesLegacy'
  BY <1>1, WorkAdvances DEF GeneratesLegacy, ByEngine, Piped
<1> QED
  BY <1>2, <1>3, <1>4

(* The runs and the drafts keep their origin.                              *)
LEMMA OriginStep ==
  AutomationInv /\ [AutomationNext]_allVars => (RunsHaveOrigin /\ DraftsHaveOrigin)'
<1> SUFFICES ASSUME AutomationInv, [AutomationNext]_allVars
             PROVE  (RunsHaveOrigin /\ DraftsHaveOrigin)'
  OBVIOUS
<1>1. /\ AutomationTypeOK /\ TurnsAreBased /\ ReadIsCurrent /\ GeneratesLegacy
      /\ RunsHaveOrigin /\ DraftsHaveOrigin
  BY DEF AutomationInv
<1>2. /\ excuses \subseteq excuses'
      /\ "switch" \notin excuses' => ByEngine(settings') = ByEngine(settings)
  BY <1>1, ExcusesGrow DEF ByEngine
<1>3. RunsHaveOrigin'
  <2> SUFFICES ASSUME NEW i \in Items
               PROVE  /\ runs'["live"][i] # "none" /\ "switch" \notin excuses' => ByEngine(settings')
                      /\ runs'["live"][i] = "taken" => "late" \in excuses'
                      /\ runs'["live"][i] = "proposed" => excuses' \cap {"death", "late"} # {}
    BY DEF RunsHaveOrigin, ProposalsRepeat, ByEngine
  <2>1. /\ runs["live"][i] = "taken" => "late" \in excuses
        /\ runs["live"][i] = "proposed" => excuses \cap {"death", "late"} # {}
    BY <1>1 DEF RunsHaveOrigin, ProposalsRepeat
  <2>2. runs["live"][i] # "none" /\ "switch" \notin excuses => ByEngine(settings)
    BY <1>1 DEF RunsHaveOrigin
  <2>3. ASSUME NEW c \in Calls, work[c].left # {}, Piped(c), "switch" \notin excuses
        PROVE  ByEngine(settings)
    BY <1>1, <2>3 DEF ReadIsCurrent, Piped, ByEngine
  <2> QED
    <3>1. excuses \cap {"death", "late"} # {} => excuses' \cap {"death", "late"} # {}
      BY <1>2
    <3> QED
      BY <1>1, <1>2, <2>1, <2>2, <2>3, <3>1, RunsAdvance
<1>4. DraftsHaveOrigin'
  <2> SUFFICES ASSUME NEW d \in DOMAIN drafts'
               PROVE  LET run == runs'["live"][drafts'[d].item] IN
                      /\ drafts'[d].made = "pipeline" => run \in {"proposed", "ended"}
                      /\ drafts'[d].made = "legacy" /\ "switch" \notin excuses' => ~ByEngine(settings')
    BY DEF DraftsHaveOrigin, ByEngine
  <2>1. CASE d \in DOMAIN drafts
    <3>1. drafts'[d].item = drafts[d].item /\ drafts'[d].made = drafts[d].made
      BY <1>1, <2>1, DraftsStay
    <3>2. drafts[d].item \in Items
      BY <1>1, <2>1, DraftTyped
    <3>3. drafts[d].made = "pipeline" => runs["live"][drafts[d].item] \in {"proposed", "ended"}
      BY <1>1, <2>1 DEF DraftsHaveOrigin
    <3>4. drafts[d].made = "legacy" /\ "switch" \notin excuses => ~ByEngine(settings)
      BY <1>1, <2>1 DEF DraftsHaveOrigin
    <3> QED
      BY <1>1, <1>2, <3>1, <3>2, <3>3, <3>4, RunsAdvance
  <2>2. CASE BornOfCall(d)
    <3>1. PICK c \in Calls : /\ At(c, "generating")
                             /\ drafts'[d].made = "legacy"
                             /\ UNCHANGED <<runs, settings, excuses>>
      BY <2>2 DEF BornOfCall
    <3>2. ~ByEngine(work[c].read)
      BY <1>1, <3>1 DEF At, GeneratesLegacy
    <3>3. "switch" \notin excuses => ~ByEngine(settings)
      BY <1>1, <3>1, <3>2 DEF At, ReadIsCurrent, ByEngine
    <3> QED
      BY <3>1, <3>3
  <2>3. CASE BornOfRun(d)
    BY <2>3 DEF BornOfRun
  <2> QED
    BY <1>1, <2>1, <2>2, <2>3, DraftsAdded
<1> QED
  BY <1>3, <1>4

(* A second draft of the same item and origin needs a second call.         *)
LEMMA OnceStep == AutomationInv /\ [AutomationNext]_allVars => OriginsAreUsedOnce'
<1> SUFFICES ASSUME AutomationInv, [AutomationNext]_allVars,
                    NEW d \in DOMAIN drafts', NEW e \in DOMAIN drafts',
                    drafts'[d].item = drafts'[e].item, drafts'[d].made = drafts'[e].made, d # e
             PROVE  drafts'[d].made = "pipeline" /\ excuses' \cap {"death", "late"} # {}
  BY DEF OriginsAreUsedOnce, ProposalsRepeat
<1>1. /\ AutomationTypeOK /\ TurnsAreBased /\ RunsHaveOrigin /\ DraftsHaveOrigin
      /\ OriginsAreUsedOnce /\ excuses \subseteq excuses'
  BY ExcusesGrow DEF AutomationInv
<1>2. CASE d \in DOMAIN drafts /\ e \in DOMAIN drafts
  <2>1. /\ drafts'[d].item = drafts[d].item /\ drafts'[d].made = drafts[d].made
        /\ drafts'[e].item = drafts[e].item /\ drafts'[e].made = drafts[e].made
    BY <1>1, <1>2, DraftsStay
  <2> QED
    BY <1>1, <1>2, <2>1 DEF OriginsAreUsedOnce, ProposalsRepeat
<1>3. ASSUME NEW new \in DOMAIN drafts', NEW old \in DOMAIN drafts, new \notin DOMAIN drafts,
             drafts'[new].item = drafts'[old].item, drafts'[new].made = drafts'[old].made
      PROVE  drafts'[new].made = "pipeline" /\ excuses' \cap {"death", "late"} # {}
  <2>1. drafts'[old].item = drafts[old].item /\ drafts'[old].made = drafts[old].made
    BY <1>1, DraftsStay
  <2>2. ~BornOfCall(new)
    BY <1>3, <2>1 DEF BornOfCall, KeyTaken, DraftsOf
  <2>3. BornOfRun(new)
    BY <1>1, <1>3, <2>2, DraftsAdded
  <2>4. runs["live"][drafts'[new].item] \in {"proposed", "ended"} /\ drafts'[new].item \in Items
    BY <1>1, <1>3, <2>1, <2>3 DEF BornOfRun, DraftsHaveOrigin
  <2> QED
    BY <1>1, <2>3, <2>4 DEF BornOfRun, RunsHaveOrigin, ProposalsRepeat
<1>4. CASE d \notin DOMAIN drafts /\ e \notin DOMAIN drafts
  <2>1. d = Len(drafts) + 1 /\ e = Len(drafts) + 1
    BY <1>1, <1>4, DraftsAdded
  <2> QED
    BY <2>1
<1> QED
  BY <1>2, <1>3, <1>4

(* The invariant of the automation holds in every state.                   *)
THEOREM AutomationInvariance == AutomationSpec => []AutomationInv
<1>1. AutomationInit => AutomationInv
  <2> SUFFICES ASSUME AutomationInit PROVE AutomationInv
    OBVIOUS
  <2>1. drafts = <<>> /\ DOMAIN drafts = {}
    BY DEF AutomationInit
  <2>2. AutomationTypeOK
    BY SettingsAssumption, AutomationBounds
    DEF AutomationInit, AutomationTypeOK, RunStatus, NoWork, NoTurn, Settings
  <2> QED
    BY <2>1, <2>2
    DEF AutomationInit, AutomationInv, TurnsAreBased, WorkIsAllowed, ReadIsCurrent,
        GeneratesLegacy, DraftsHaveOrigin, RunsHaveOrigin, OriginsAreUsedOnce, NoWork, NoTurn
<1>2. AutomationInv /\ [AutomationNext]_allVars => AutomationInv'
  BY AutomationTypeStep, TurnsStep, WorkStep, OriginStep, OnceStep DEF AutomationInv
<1> QED
  BY <1>1, <1>2, PTL DEF AutomationSpec

(* A work item is drafted once, but for a switch of the path, and a call   *)
(* of the engine that died at its proposal or outlived its lease.          *)
THEOREM ItemsAreDraftedOnce == AutomationSpec => []OneDraftPerItem
<1>1. AutomationInv => OneDraftPerItem
  <2> SUFFICES ASSUME AutomationInv, NEW i \in Items, NEW d \in DraftsOf(i), NEW e \in DraftsOf(i),
                      d # e
               PROVE  \/ "switch" \in excuses /\ drafts[d].made # drafts[e].made
                      \/ /\ excuses \cap {"death", "late"} # {}
                         /\ drafts[d].made = "pipeline" /\ drafts[e].made = "pipeline"
    BY DEF OneDraftPerItem
  <2>1. /\ AutomationTypeOK /\ RunsHaveOrigin /\ DraftsHaveOrigin /\ OriginsAreUsedOnce
        /\ d \in DOMAIN drafts /\ e \in DOMAIN drafts /\ drafts[d].item = i /\ drafts[e].item = i
    BY DEF AutomationInv, DraftsOf
  <2>2. drafts[d].made \in {"legacy", "pipeline"} /\ drafts[e].made \in {"legacy", "pipeline"}
    BY <2>1, DraftTyped
  <2>3. CASE drafts[d].made = drafts[e].made
    BY <2>1, <2>3 DEF OriginsAreUsedOnce, ProposalsRepeat
  <2>4. CASE drafts[d].made # drafts[e].made
    BY <2>1, <2>2, <2>4 DEF RunsHaveOrigin, DraftsHaveOrigin
  <2> QED
    BY <2>3, <2>4
<1> QED
  BY <1>1, AutomationInvariance, PTL

(* While the automation is stopped, the system approves nothing but the    *)
(* legacy drafts of the calls that began before.                           *)
THEOREM StopsHold == AutomationSpec => StoppedMeansNoApprovals
<1>1. AutomationInv /\ [AutomationNext]_allVars =>
        [\A d \in DOMAIN drafts' : Approves(d) =>
          \/ ~settings.killSwitch /\ settings.mode = "scheduled_auto"
          \/ /\ drafts'[d].made = "legacy"
             /\ \E c \in Calls :
                   /\ pc[c] = "working" /\ drafts'[d].item \in work[c].left
                   /\ ~work[c].read.killSwitch /\ work[c].read.mode = "scheduled_auto"]_allVars
  <2> SUFFICES ASSUME AutomationInv, [AutomationNext]_allVars, NEW d \in DOMAIN drafts', Approves(d)
               PROVE  \/ ~settings.killSwitch /\ settings.mode = "scheduled_auto"
                      \/ /\ drafts'[d].made = "legacy"
                         /\ \E c \in Calls :
                               /\ pc[c] = "working" /\ drafts'[d].item \in work[c].left
                               /\ ~work[c].read.killSwitch /\ work[c].read.mode = "scheduled_auto"
    OBVIOUS
  <2>1. AutomationTypeOK /\ TurnsAreBased /\ WorkIsAllowed
    BY DEF AutomationInv
  <2>2. d \notin DOMAIN drafts
    BY <2>1, DraftsStay DEF Approves
  <2>3. drafts'[d].by = "system"
    BY DEF Approves
  <2>4. CASE BornOfCall(d)
    <3>1. PICK c \in Calls : /\ At(c, "generating")
                             /\ drafts'[d].made = "legacy" /\ drafts'[d].item = Current(c)
                             /\ work[c].read.mode = "scheduled_auto"
      BY <2>3, <2>4 DEF BornOfCall
    <3>2. Current(c) \in work[c].left /\ ~Halted(work[c].read)
      BY <2>1, <3>1, CurrentIsLeft DEF At, WorkIsAllowed
    <3> QED
      BY <3>1, <3>2 DEF At, Halted
  <2>5. CASE BornOfRun(d)
    BY <2>3, <2>5 DEF BornOfRun, Approving
  <2> QED
    BY <2>1, <2>2, <2>4, <2>5, DraftsAdded
<1> QED
  BY <1>1, AutomationInvariance, PTL DEF AutomationSpec, StoppedMeansNoApprovals

(* Decisions stand, and a revision replaces what it was asked about.       *)
THEOREM ReviewsAreKept == AutomationSpec => NoReviewIsLost
<1>1. AutomationInv /\ [AutomationNext]_allVars =>
        [\A d \in DOMAIN drafts :
          /\ drafts[d].state \in {"approved", "rejected"} => drafts'[d] = drafts[d]
          /\ \A r \in Requests :
                /\ turns[r].draft = d
                /\ turns[r].status = "running" /\ turns'[r].status = "completed"
                =>
                   drafts[d].text = turns[r].text /\ drafts[d].state = turns[r].state]_allVars
  <2> SUFFICES ASSUME AutomationInv, [AutomationNext]_allVars, NEW d \in DOMAIN drafts
               PROVE  /\ drafts[d].state \in {"approved", "rejected"} => drafts'[d] = drafts[d]
                      /\ \A r \in Requests :
                            /\ turns[r].draft = d
                            /\ turns[r].status = "running" /\ turns'[r].status = "completed"
                            =>
                            drafts[d].text = turns[r].text /\ drafts[d].state = turns[r].state
    OBVIOUS
  <2>1. AutomationTypeOK /\ TurnsAreBased
    BY DEF AutomationInv
  <2>2. drafts[d].state \in {"approved", "rejected"} => drafts'[d] = drafts[d]
    BY <2>1, DraftsStay
  <2>3. ASSUME NEW r \in Requests, turns[r].draft = d,
               turns[r].status = "running", turns'[r].status = "completed"
        PROVE  drafts[d].text = turns[r].text /\ drafts[d].state = turns[r].state
    <3>1. PICK q \in Requests : Ask(q) \/ Revise(q)
      BY <2>3 DEF AutomationNext, Start, Consider, Commit, GenerationFails, QueueShadow, LeaseStep,
                  End, PickUp, EndRun, TakeOver, DieProposing, ProposeAgain, Act, Change, allVars,
                  automationVars, reviewVars
    <3>2. ~Ask(q)
      BY <2>1, <2>3 DEF Ask, AutomationTypeOK
    <3>3. q = r
      BY <2>1, <2>3, <3>1, <3>2 DEF Revise, AutomationTypeOK
    <3>4. turns' # [turns EXCEPT ![r].status = "failed"]
      BY <2>1, <2>3 DEF AutomationTypeOK
    <3>5. Unchanged(r)
      BY <3>1, <3>2, <3>3, <3>4 DEF Revise
    <3> QED
      BY <2>1, <2>3, <3>5, RevisedIsOpen
  <2> QED
    BY <2>2, <2>3
<1> QED
  BY <1>1, AutomationInvariance, PTL DEF AutomationSpec, NoReviewIsLost

(***************************************************************************)
(* The lease of the automation: every step is one of TaskLease.            *)
(***************************************************************************)

(* The calls of the automation follow the lease's specification.           *)
LEMMA LeaseIsFollowed == AutomationSpec => Spec
<1>1. AutomationInit => Init
  BY DEF AutomationInit
<1>2. [AutomationNext]_allVars => [Next]_vars
  BY DEF AutomationNext, Start, Consider, Commit, GenerationFails, QueueShadow, LeaseStep, End,
         PickUp, EndRun, TakeOver, DieProposing, ProposeAgain, Act, Ask, Revise, Change, allVars, vars, Next
<1> QED
  BY <1>1, <1>2, PTL DEF AutomationSpec, Spec

(* At most one call of the automation can renew or rely on its lease.      *)
THEOREM AutomationMutualExclusion == AutomationSpec => []AtMostOneHolder
  BY LeaseIsFollowed, MutualExclusion, PTL

(* Nobody but the holder takes away the time its lease has left.           *)
THEOREM AutomationHolderKeepsTheLease == AutomationSpec => OnlyTheHolderEndsALiveLease
  BY LeaseIsFollowed, HolderKeepsTheLease, PTL
=============================================================================
