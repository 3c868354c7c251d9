--------------------------- MODULE PipelineRunsProofs ---------------------------
(***************************************************************************)
(* What the pipeline engine guarantees of a run for any definition, any    *)
(* number of calls and any interleaving of them.                           *)
(***************************************************************************)
EXTENDS PipelineRuns, FiniteSetTheorems, WellFoundedInduction, TLAPS

(* The rows of passes that are done, and of passes of step s that are.     *)
Succeeded == {r \in DOMAIN rows : rows[r].status = "succeeded"}
Outputs(s) == {r \in Succeeded : rows[r].step = s}

Walking(c) == calls[c].pc \in {"ready", "rescore", "asking", "proposed", "recorded"}
Asked(c) == rows[calls[c].row]

(* A call scores again what its loop has revised.                          *)
Rescoring(c) ==
    \/ calls[c].pc = "rescore"
    \/ calls[c].pc = "asking" /\ AtLoop(c) /\ Asked(c).step # Here(c)

LoopDone(l) ==
    \/ \E r \in Outputs(Loops[l].scoreFrom) : rows[r].score = "high"
    \/ \E r \in Outputs(l) : rows[r].iteration = Loops[l].maxIterations
StepDone(s) == IF s \in DOMAIN Loops THEN LoopDone(s) ELSE Outputs(s) # {}

(***************************************************************************)
(* What holds whatever the leases do.                                      *)
(***************************************************************************)

(* Where a call is and what it waits for agree.                            *)
Consistent(c) ==
    /\ calls[c].pc \in {"idle", "selected"} => calls[c].at = 1
    /\ calls[c].pc = "asking" =>
          /\ calls[c].row \in DOMAIN rows /\ Asked(c).status = "running"
          /\ calls[c].at <= Len(Steps)
          /\ Asked(c).step # Here(c) =>
                AtLoop(c) /\ Asked(c).step = Loops[Here(c)].scoreFrom
    /\ calls[c].pc = "rescore" => calls[c].at <= Len(Steps) /\ AtLoop(c)
    /\ calls[c].pc \in {"proposed", "recorded"} => calls[c].at = Len(Steps) + 1
    /\ calls[c].pc = "recorded" => calls[c].verdict = "succeeded"
    /\ calls[c].pc = "halting" => calls[c].verdict \in {"failed", "escalated"}

(* Two calls never wait for the same attempt.                              *)
AttemptsAreApart ==
    \A c, d \in Calls :
        calls[c].pc = "asking" /\ calls[d].pc = "asking" /\ calls[c].row = calls[d].row => c = d

(* Iterations and attempts of a row are bounded by its place; a proposal   *)
(* is never repeated.                                                      *)
RowsAreNumbered ==
    \A r \in DOMAIN rows :
        /\ rows[r].iteration <= r /\ rows[r].attempt <= r
        /\ rows[r].step \in DOMAIN Loops =>
              rows[r].iteration <= Loops[rows[r].step].maxIterations
        /\ rows[r].step = "propose" => rows[r].iteration = 1 /\ rows[r].attempt = 1

(* What a call has in memory comes from rows, and the steps it has passed  *)
(* are done.                                                               *)
Backed(c) ==
    Walking(c) =>
        /\ calls[c].cache \subseteq Succeeded
        /\ \A s \in Scoring : calls[c].scores[s] = "high" =>
              \E r \in Outputs(s) : rows[r].score = "high"
        /\ \A s \in Keys : calls[c].iterations[s] > 0 =>
              \E r \in Outputs(s) : rows[r].iteration = calls[c].iterations[s]
        /\ \A k \in 1 .. calls[c].at - 1 : StepDone(Steps[k])

GateIsEarned ==
    drafts # <<>> \/ run.status = "succeeded" => \A s \in Keys : StepDone(s)

PipelineInv ==
    /\ PipelineTypeOK
    /\ \A c \in Calls : Consistent(c) /\ Backed(c)
    /\ AttemptsAreApart
    /\ RowsAreNumbered
    /\ GateIsEarned

(***************************************************************************)
(* What holds until a call outlives its lease.                             *)
(***************************************************************************)

LeaseCovers ==
    /\ \A c \in Calls : Executing(c) =>
          /\ clock <= calls[c].deadline
          /\ \/ run.status = "cancelled"
             \/ run.status = "running" /\ run.leaseExpiresAt = calls[c].deadline
    /\ \A c, d \in Calls : Executing(c) /\ Executing(d) => c = d

(* The passes of a step that are done were done in the order of their      *)
(* iterations, each once.                                                  *)
PassesInOrder ==
    \A i, j \in Succeeded :
        rows[i].step = rows[j].step /\ i < j => rows[i].iteration < rows[j].iteration

(* The memory of a call is complete: it knows the last pass of every step, *)
(* its score included, and what is ahead of it that is done is in the      *)
(* cache.                                                                  *)
Complete(c) ==
    Walking(c) =>
        /\ \A r \in Succeeded : rows[r].step \in Keys =>
              /\ rows[r].iteration <= calls[c].iterations[rows[r].step]
              /\ \/ r \in calls[c].cache
                 \/ rows[r].step \in DOMAIN Loops
                 \/ \E k \in 1 .. calls[c].at - 1 : Steps[k] = rows[r].step
        /\ \A s \in Scoring : \A r \in Outputs(s) :
              rows[r].iteration = calls[c].iterations[s] => calls[c].scores[s] = rows[r].score

(* What a call asks for is a pass nobody has done, in a new attempt.       *)
AsksAnew(c) ==
    calls[c].pc = "asking" =>
        /\ calls[c].row = Len(rows)
        /\ \A r \in Outputs(Asked(c).step) : rows[r].iteration < Asked(c).iteration
        /\ ~AtLoop(c) => Outputs(Asked(c).step) = {}
        /\ \A r \in DOMAIN rows :
              rows[r].step = Asked(c).step /\ rows[r].iteration = Asked(c).iteration =>
                  rows[r].attempt <= Asked(c).attempt

(* A loop l is used up.                                                    *)
Spent(l) == \E r \in Outputs(l) : rows[r].iteration >= Loops[l].maxIterations

(* The last output of step s is below the threshold.                       *)
ScoredLow(s) ==
    /\ Outputs(s) # {}
    /\ \A r \in Outputs(s) :
          (\A q \in Outputs(s) : rows[q].iteration <= rows[r].iteration) => rows[r].score # "high"

(* A loop is left for good: the loops that a call has left although the    *)
(* score is low are used up.                                               *)
LeftForGood(c) ==
    \A k \in 1 .. calls[c].at - 1 :
        Steps[k] \in DOMAIN Loops
        /\ calls[c].scores[Loops[Steps[k]].scoreFrom] # "high" => Spent(Steps[k])

LeavesLoops(c) ==
    Walking(c) =>
        /\ LeftForGood(c)
        /\ Rescoring(c) => calls[c].iterations[Here(c)] > 0
        /\ Rescoring(c) \/ (calls[c].pc = "asking" /\ AtLoop(c)) =>
              calls[c].scores[Loops[Here(c)].scoreFrom] # "high"

(* The k-th step is a loop that calls have tried in vain.                  *)
Tried(k) ==
    /\ Steps[k] \in DOMAIN Loops /\ Outputs(Steps[k]) = {}
    /\ \E r \in DOMAIN rows : rows[r].step = Steps[k] /\ rows[r].status # "skipped"

(* A loop tried in vain still has a low score, which no earlier loop will  *)
(* raise.                                                                  *)
TriedLoopsStayNeeded ==
    \A k \in DOMAIN Steps : Tried(k) =>
        /\ ScoredLow(Loops[Steps[k]].scoreFrom)
        /\ \A j \in 1 .. k - 1 :
              Steps[j] \in DOMAIN Loops
              /\ Loops[Steps[j]].scoreFrom = Loops[Steps[k]].scoreFrom => Spent(Steps[j])
        /\ \A c \in Calls : Rescoring(c) =>
              Loops[Here(c)].scoreFrom # Loops[Steps[k]].scoreFrom

(* Drafts are submitted by calls that died since or that have yet to say   *)
(* so.                                                                     *)
DraftsAreCounted ==
    Free("propose", 1, 1) =>
        /\ Len(drafts) <= 1 + lost
        /\ (\A c \in Calls : calls[c].pc # "proposed") => Len(drafts) <= lost

(***************************************************************************)
(* What holds, moreover, until a call is lost.                             *)
(***************************************************************************)

DonePasses ==
    {<<rows[r].step, rows[r].iteration>> :
        r \in {x \in DOMAIN rows : rows[x].status \in {"succeeded", "skipped"}}}

ChecklistIsCurrent ==
    lost = 0 =>
        /\ \A c \in Calls : Executing(c) => calls[c].checklist = DonePasses
        /\ (\A c \in Calls : ~Executing(c)) => run.checklist = DonePasses

ProposalIsLast ==
    lost = 0 /\ ~Free("propose", 1, 1) =>
        /\ Len(drafts) <= 1
        /\ \/ \E c \in Calls : calls[c].pc = "recorded"
           \/ run.status \in Terminal /\ \A c \in Calls : ~Executing(c)

SomebodyIsAtIt ==
    lost = 0 /\ run.status = "running" => \E c \in Calls : Executing(c)

FencedInv ==
    ~late =>
        /\ LeaseCovers
        /\ PassesInOrder
        /\ \A c \in Calls : Complete(c) /\ AsksAnew(c) /\ LeavesLoops(c)
        /\ TriedLoopsStayNeeded
        /\ DraftsAreCounted
        /\ ChecklistIsCurrent
        /\ ProposalIsLast
        /\ SomebodyIsAtIt

(***************************************************************************)
(* Lemmas about the operators of the model.                                *)
(***************************************************************************)

(* The greatest of a bounded set of positive numbers, or 0 if it is empty. *)
LEMMA NewestIs ==
  ASSUME NEW S, NEW n \in Nat, S \subseteq 1 .. n
  PROVE  /\ Newest(S) \in 0 .. n
         /\ \A x \in S : x <= Newest(S)
         /\ S # {} => Newest(S) \in S
         /\ S = {} => Newest(S) = 0
<1>1. CASE S = {}
  BY <1>1 DEF Newest
<1>2. CASE S # {}
  <2> DEFINE gaps == {n - x : x \in S}
  <2>0. \A x \in S : x \in Nat /\ 1 <= x /\ x <= n
    OBVIOUS
  <2>a. \A x \in S : n - x \in Nat
    BY <2>0
  <2>b. PICK e \in S : TRUE
    BY <1>2
  <2>1. gaps \subseteq Nat /\ gaps # {}
    BY <2>a, <2>b, Zenon
  <2>2. PICK g \in gaps : \A h \in gaps : ~ (<<h, g>> \in OpToRel(<, Nat))
    <3> HIDE DEF gaps
    <3> QED
      BY <2>1, WFMin, NatLessThanWellFounded, Zenon
  <2>3. \A h \in gaps : g <= h
    <3> SUFFICES ASSUME NEW h \in gaps, ~(g <= h) PROVE FALSE
      OBVIOUS
    <3>1. <<h, g>> \in Nat \X Nat /\ <<h, g>>[1] < <<h, g>>[2]
      BY <2>1
    <3>2. <<h, g>> \in OpToRel(<, Nat)
      BY <3>1 DEF OpToRel
    <3> QED
      BY <2>2, <3>2
  <2>4. PICK x \in S : g = n - x
    OBVIOUS
  <2>5. \A y \in S : x >= y
    <3> SUFFICES ASSUME NEW y \in S PROVE x >= y
      OBVIOUS
    <3>1. n - y \in gaps
      OBVIOUS
    <3>2. g <= n - y /\ x \in Nat /\ y \in Nat
      BY <2>0, <2>3, <3>1
    <3> QED
      BY <2>4, <3>2
  <2>6. Max(S) \in S /\ \A y \in S : Max(S) >= y
    BY <2>5 DEF Max
  <2>7. Newest(S) = Max(S)
    BY <1>2 DEF Newest
  <2>8. Newest(S) \in S /\ \A y \in S : Newest(S) >= y
    BY <2>6, <2>7
  <2>9. Newest(S) \in Nat /\ Newest(S) <= n
    BY <2>0, <2>8
  <2>10. \A y \in S : y <= Newest(S)
    BY <2>0, <2>8, <2>9
  <2> QED
    BY <1>2, <2>8, <2>9, <2>10
<1> QED
  BY <1>1, <1>2

(* What the definition of a pipeline says of its steps.                    *)
LEMMA StepsFacts ==
  /\ Steps \in Seq(Keys)
  /\ \A k \in DOMAIN Steps : Steps[k] \in Keys
  /\ "propose" \notin Keys
  /\ Scoring \subseteq Keys /\ Drafting \subseteq Keys /\ DOMAIN Loops \subseteq Drafting
  /\ Scoring \cap Drafting = {}
  /\ \A l \in DOMAIN Loops :
        /\ Loops[l].scoreFrom \in Scoring
        /\ Loops[l].maxIterations \in Nat \ {0}
  /\ Len(Steps) \in Nat
  /\ DOMAIN Steps = 1 .. Len(Steps)
<1>1. Steps \in Seq(STRING) /\ Len(Steps) \in Nat /\ DOMAIN Steps = 1 .. Len(Steps)
  BY StepsAssumption
<1>2. \A k \in DOMAIN Steps : Steps[k] \in Keys
  BY DEF Keys
<1>3. Steps \in Seq(Keys)
  BY <1>1, <1>2
<1>4. \A l \in DOMAIN Loops :
        /\ Loops[l].scoreFrom \in Scoring /\ Loops[l].scoreFrom \in Keys \ Drafting
        /\ Loops[l].maxIterations \in Nat \ {0}
  <2> SUFFICES ASSUME NEW l \in DOMAIN Loops
               PROVE  /\ Loops[l].scoreFrom \in Scoring /\ Loops[l].scoreFrom \in Keys \ Drafting
                      /\ Loops[l].maxIterations \in Nat \ {0}
    OBVIOUS
  <2>1. Loops[l] \in [scoreFrom : Keys, maxIterations : Nat \ {0}]
    BY StepsAssumption
  <2> QED
    BY <2>1, StepsAssumption DEF Scoring
<1>5. Scoring \subseteq Keys \ Drafting
  BY <1>4 DEF Scoring
<1> QED
  BY <1>1, <1>2, <1>3, <1>4, <1>5, StepsAssumption

(* The fields of a row and of a call.                                      *)
LEMMA RowTyped ==
  ASSUME rows \in Seq(StepRow), NEW r \in DOMAIN rows
  PROVE  /\ rows[r] \in StepRow
         /\ rows[r].step \in Keys \cup {"propose"}
         /\ rows[r].iteration \in Nat \ {0} /\ rows[r].attempt \in Nat \ {0}
         /\ rows[r].status \in {"running", "succeeded", "failed", "skipped"}
         /\ rows[r].draft \in Draft \cup {NoDraft} /\ rows[r].score \in Scores
         /\ r \in Nat \ {0} /\ r <= Len(rows) /\ Len(rows) \in Nat
<1>1. rows[r] \in StepRow /\ r \in 1 .. Len(rows) /\ Len(rows) \in Nat
  OBVIOUS
<1> QED
  BY <1>1 DEF StepRow

(* The types of the fields of a call.                                      *)
LEMMA CallTyped ==
  ASSUME PipelineTypeOK, NEW c \in Calls
  PROVE  /\ calls[c] \in Call
         /\ calls[c].at \in 1 .. Len(Steps) + 1
         /\ calls[c].iterations \in [Keys -> Nat]
         /\ calls[c].cache \subseteq 1 .. Len(rows)
         /\ calls[c].scores \in [Scoring -> Scores]
         /\ calls[c].latestDraft \in Draft \cup {NoDraft}
         /\ calls[c].usedTokens \in Nat /\ calls[c].deadline \in Nat
         /\ calls[c].tick \in BOOLEAN
         /\ calls[c].checklist \subseteq Passes
         /\ calls[c].row \in 0 .. Len(rows) /\ calls[c].tries \in 0 .. StepAttempts
         /\ calls[c].draft \in 0 .. Len(drafts)
<1>1. calls[c] \in Call
  BY DEF PipelineTypeOK
<1> QED
  BY <1>1 DEF Call

(* What is in the memory of a call may be there when there are more rows   *)
(* and drafts.                                                             *)
LEMMA CallGrows ==
  ASSUME Len(rows) \in Nat, Len(drafts) \in Nat, Len(rows') \in Nat, Len(drafts') \in Nat,
         Len(rows) <= Len(rows'), Len(drafts) <= Len(drafts')
  PROVE  Call \subseteq Call'
<1> SUFFICES ASSUME NEW x \in Call PROVE x \in Call'
  OBVIOUS
<1>1. /\ x.cache \subseteq 1 .. Len(rows') /\ x.row \in 0 .. Len(rows')
      /\ x.draft \in 0 .. Len(drafts')
  <2>1. /\ x.cache \subseteq 1 .. Len(rows) /\ x.row \in 0 .. Len(rows)
        /\ x.draft \in 0 .. Len(drafts)
    BY DEF Call
  <2> QED
    BY <2>1
<1> QED
  BY <1>1 DEF Call

(* A call that is not under way is a call.                                 *)
LEMMA FreshTyped ==
  ASSUME Len(rows) \in Nat, Len(drafts) \in Nat
  PROVE  Fresh \in Call
<1>1. /\ [s \in Keys |-> 0] \in [Keys -> Nat]
      /\ [s \in Scoring |-> "none"] \in [Scoring -> Scores]
      /\ 1 \in 1 .. Len(Steps) + 1 /\ 0 \in 0 .. StepAttempts
      /\ 0 \in 0 .. Len(rows) /\ 0 \in 0 .. Len(drafts)
  BY StepsFacts, BoundsAssumption DEF Scores
<1> QED
  BY <1>1 DEF Fresh, Call

(* Appending a row changes no other.                                       *)
LEMMA RowsAppended ==
  ASSUME rows \in Seq(StepRow), NEW new \in StepRow, rows' = Append(rows, new)
  PROVE  /\ rows' \in Seq(StepRow)
         /\ Len(rows') = Len(rows) + 1 /\ Len(rows) \in Nat
         /\ DOMAIN rows' = DOMAIN rows \cup {Len(rows) + 1}
         /\ Len(rows) + 1 \notin DOMAIN rows
         /\ \A r \in DOMAIN rows : rows'[r] = rows[r]
         /\ rows'[Len(rows) + 1] = new
  OBVIOUS

(* A failed attempt keeps its place and its numbers.                       *)
LEMMA RowFailed ==
  ASSUME rows \in Seq(StepRow), NEW k \in DOMAIN rows
  PROVE  LET after == [rows EXCEPT ![k].status = "failed"] IN
         /\ after \in Seq(StepRow) /\ DOMAIN after = DOMAIN rows /\ Len(after) = Len(rows)
         /\ \A r \in DOMAIN rows : r # k => after[r] = rows[r]
         /\ after[k].step = rows[k].step /\ after[k].iteration = rows[k].iteration
         /\ after[k].attempt = rows[k].attempt /\ after[k].status = "failed"
<1> DEFINE new == [rows[k] EXCEPT !.status = "failed"]
           after == [rows EXCEPT ![k].status = "failed"]
<1>1. after = [rows EXCEPT ![k] = new]
  OBVIOUS
<1>2. rows[k] \in StepRow
  OBVIOUS
<1>3. new \in StepRow
  BY <1>2 DEF StepRow
<1>4. /\ new.step = rows[k].step /\ new.iteration = rows[k].iteration
      /\ new.attempt = rows[k].attempt /\ new.status = "failed"
  BY <1>2 DEF StepRow
<1> HIDE DEF new
<1> QED
  BY <1>1, <1>3, <1>4

(* A step of a call keeps the rows that are there, and settles none but    *)
(* its own attempt.                                                        *)
Grown ==
    /\ rows' \in Seq(StepRow) /\ Len(rows) <= Len(rows')
    /\ \A r \in DOMAIN rows :
          /\ r \in DOMAIN rows'
          /\ rows'[r].step = rows[r].step /\ rows'[r].iteration = rows[r].iteration
          /\ rows'[r].attempt = rows[r].attempt
          /\ rows[r].status # "running" => rows'[r] = rows[r]

(* Moreover it adds nothing that is done.                                  *)
Quiet == Grown /\ Succeeded' = Succeeded

(* What is done is kept.                                                   *)
LEMMA GrownKeeps ==
  ASSUME rows \in Seq(StepRow), Grown
  PROVE  /\ Succeeded \subseteq Succeeded'
         /\ \A r \in Succeeded : r \in DOMAIN rows /\ rows'[r] = rows[r]
<1> QED
  BY DEF Succeeded, Grown

(* What is done stays done.                                                *)
LEMMA OutputsStay ==
  ASSUME rows \in Seq(StepRow), Grown, NEW s
  PROVE  /\ Outputs(s) \subseteq Outputs(s)'
         /\ \A r \in Outputs(s) : rows'[r] = rows[r]
<1> QED
  BY GrownKeeps DEF Outputs

(* A step that is done, or a loop, stays so.                               *)
LEMMA DoneStays ==
  ASSUME rows \in Seq(StepRow), Grown, NEW s, StepDone(s)
  PROVE  StepDone(s)'
<1>1. CASE s \in DOMAIN Loops
  <2>1. LoopDone(s)
    BY <1>1 DEF StepDone
  <2>2. LoopDone(s)'
    BY <2>1, OutputsStay DEF LoopDone
  <2> QED
    BY <1>1, <2>2 DEF StepDone
<1>2. CASE s \notin DOMAIN Loops
  BY <1>2, OutputsStay DEF StepDone
<1> QED
  BY <1>1, <1>2

(* A step that settles nothing as done leaves the outputs alone.           *)
LEMMA QuietKeeps ==
  ASSUME rows \in Seq(StepRow), Quiet, NEW s
  PROVE  Outputs(s)' = Outputs(s) /\ \A r \in Outputs(s) : rows'[r] = rows[r]
<1> QED
  BY GrownKeeps DEF Outputs, Quiet

(* A call that waits is not affected by what others do with their rows.    *)
LEMMA BystanderKeeps ==
  ASSUME rows \in Seq(StepRow), Grown, NEW d \in Calls, Consistent(d), Backed(d),
         calls'[d] = calls[d],
         calls[d].pc = "asking" => rows'[calls[d].row] = rows[calls[d].row]
  PROVE  Consistent(d)' /\ Backed(d)'
<1>1. Consistent(d)'
  BY DEF Consistent, Grown, Asked, Here, AtLoop
<1>2. ASSUME Walking(d) PROVE Backed(d)'
  <2>1. calls[d].cache \subseteq Succeeded'
    BY <1>2, GrownKeeps DEF Backed
  <2>2. ASSUME NEW s \in Scoring, calls[d].scores[s] = "high"
        PROVE  \E r \in Outputs(s)' : rows'[r].score = "high"
    BY <1>2, <2>2, OutputsStay DEF Backed
  <2>3. ASSUME NEW s \in Keys, calls[d].iterations[s] > 0
        PROVE  \E r \in Outputs(s)' : rows'[r].iteration = calls[d].iterations[s]
    BY <1>2, <2>3, OutputsStay DEF Backed
  <2>4. ASSUME NEW k \in 1 .. calls[d].at - 1 PROVE StepDone(Steps[k])'
    BY <1>2, DoneStays DEF Backed
  <2> QED
    BY <2>1, <2>2, <2>3, <2>4 DEF Backed
<1> QED
  BY <1>1, <1>2 DEF Backed, Walking

(* What a call has in memory after a pass, when it gives up, and when it   *)
(* has claimed the run.                                                    *)
AfterPass(p, c, s, i, score) ==
    /\ p.pc = IF AtLoop(c) /\ s = Here(c) THEN "rescore" ELSE "ready"
    /\ p.at = IF AtLoop(c) THEN calls[c].at ELSE calls[c].at + 1
    /\ p.iterations = [calls[c].iterations EXCEPT ![s] = i]
    /\ p.scores = [x \in Scoring |-> IF x = s THEN score ELSE calls[c].scores[x]]
    /\ p.cache = calls[c].cache /\ p.deadline = calls[c].deadline

Remembers(p, c) ==
    /\ p.at = calls[c].at /\ p.iterations = calls[c].iterations
    /\ p.scores = calls[c].scores /\ p.cache = calls[c].cache
    /\ p.deadline = calls[c].deadline

(* A call after a pass: what it has learned, and what it keeps.            *)
LEMMA PassedIs ==
  ASSUME PipelineTypeOK, NEW c \in Calls, calls[c].at <= Len(Steps),
         NEW s \in Keys, NEW i \in Nat, NEW draft \in Draft \cup {NoDraft}, NEW score \in Scores,
         NEW p, p = Passed(calls[c], s, i, draft, score)
  PROVE  /\ p \in Call /\ AfterPass(p, c, s, i, score)
         /\ p.checklist = calls[c].checklist /\ p.usedTokens = calls[c].usedTokens
<1> DEFINE call == calls[c]
           pc == IF AtLoop(c) /\ s = Here(c) THEN "rescore" ELSE "ready"
           at == IF AtLoop(c) THEN calls[c].at ELSE calls[c].at + 1
           iterations == [calls[c].iterations EXCEPT ![s] = i]
           scores == [x \in Scoring |-> IF x = s THEN score ELSE calls[c].scores[x]]
           latest == IF draft = NoDraft THEN calls[c].latestDraft ELSE draft
<1>1. /\ pc \in {"rescore", "ready"} /\ at \in 1 .. Len(Steps) + 1
      /\ iterations \in [Keys -> Nat] /\ scores \in [Scoring -> Scores]
      /\ latest \in Draft \cup {NoDraft} /\ call \in Call
      /\ 0 \in 0 .. Len(rows) /\ 0 \in 0 .. StepAttempts
  BY CallTyped, StepsFacts, BoundsAssumption DEF PipelineTypeOK
<1>2. p = [call EXCEPT !.pc = pc, !.at = at, !.iterations = iterations,
                       !.latestDraft = latest, !.scores = scores, !.row = 0, !.tries = 0]
  BY <1>1 DEF Passed, AtLoop, Here, Call
<1> HIDE DEF call, pc, at, iterations, scores, latest
<1>3. p \in Call /\ p.pc = pc /\ p.at = at /\ p.iterations = iterations /\ p.scores = scores
  BY <1>1, <1>2 DEF Call
<1>4. /\ p.cache = call.cache /\ p.deadline = call.deadline
      /\ p.checklist = call.checklist /\ p.usedTokens = call.usedTokens
  BY <1>1, <1>2 DEF Call
<1> QED
  BY <1>3, <1>4 DEF AfterPass, call, pc, at, iterations, scores

(* A call that gives up keeps its deadline and its checklist.              *)
LEMMA HaltingIs ==
  ASSUME Len(rows) \in Nat, Len(drafts) \in Nat, NEW call \in Call,
         NEW verdict \in {"failed", "escalated"}
  PROVE  LET h == Halting(call, verdict) IN
         /\ h \in Call /\ h.pc = "halting" /\ h.verdict = verdict
         /\ h.deadline = call.deadline /\ h.checklist = call.checklist
<1> DEFINE h == Halting(call, verdict)
<1>1. Fresh \in Call /\ call.tick \in BOOLEAN /\ call.deadline \in Nat /\ call.checklist \subseteq Passes
  BY FreshTyped DEF Call
<1>2. h = [Fresh EXCEPT !.pc = "halting", !.tick = call.tick, !.deadline = call.deadline,
                        !.checklist = call.checklist, !.verdict = verdict]
  BY DEF Halting
<1> HIDE DEF h
<1>3. h \in Call
  BY <1>1, <1>2 DEF Call
<1>4. h.pc = "halting" /\ h.verdict = verdict /\ h.deadline = call.deadline /\ h.checklist = call.checklist
  BY <1>1, <1>2 DEF Call
<1> QED
  BY <1>3, <1>4 DEF h

(* The iterations of a step that are done.                                 *)
Iterations(s) == {rows[r].iteration : r \in {x \in Cacheable : rows[x].step = s}}

(* The iteration that a call loads for a step is the greatest that is      *)
(* done.                                                                   *)
LEMMA IterationsBounded ==
  ASSUME PipelineTypeOK, RowsAreNumbered, NEW s
  PROVE  /\ Iterations(s) \subseteq 1 .. Len(rows)
         /\ Newest(Iterations(s)) \in Nat
         /\ \A r \in Outputs(s) : rows[r].iteration <= Newest(Iterations(s))
         /\ Newest(Iterations(s)) > 0 =>
               \E r \in Outputs(s) : rows[r].iteration = Newest(Iterations(s))
<1>1. rows \in Seq(StepRow) /\ Len(rows) \in Nat
  BY DEF PipelineTypeOK
<1>2. ASSUME NEW r \in DOMAIN rows PROVE rows[r].iteration \in 1 .. Len(rows)
  BY <1>1, RowTyped DEF RowsAreNumbered
<1>3. Iterations(s) \subseteq 1 .. Len(rows)
  BY <1>2 DEF Iterations, Cacheable
<1>4. Outputs(s) = {x \in Cacheable : rows[x].step = s}
  BY DEF Outputs, Succeeded, Cacheable
<1>5. \A r \in Outputs(s) : rows[r].iteration \in Iterations(s)
  BY <1>4 DEF Iterations
<1>6. \A i \in Iterations(s) : \E r \in Outputs(s) : rows[r].iteration = i
  BY <1>4 DEF Iterations
<1> QED
  BY <1>1, <1>3, <1>5, <1>6, NewestIs

(* What a call has in memory once it has loaded the state of the run.      *)
LEMMA LoadedIs ==
  ASSUME PipelineTypeOK, RowsAreNumbered, NEW call \in Call
  PROVE  LET p == Loaded(call) IN
         /\ p \in Call /\ p.pc = "ready" /\ p.at = call.at
         /\ p.iterations = [s \in Keys |-> Newest(Iterations(s))]
         /\ p.scores = [s \in Scoring |-> ScoreAmong(Cacheable, s)]
         /\ p.cache = Cacheable
         /\ p.deadline = call.deadline /\ p.checklist = call.checklist
<1> DEFINE iterations == [s \in Keys |-> Newest(Iterations(s))]
           scores == [s \in Scoring |-> ScoreAmong(Cacheable, s)]
           used == Cardinality({i \in DOMAIN rows :
                     rows[i].step \in Keys /\ rows[i].status \in {"succeeded", "failed"}})
           latest == DraftAmong(Cacheable)
           p == Loaded(call)
<1>1. rows \in Seq(StepRow) /\ Len(rows) \in Nat /\ DOMAIN rows = 1 .. Len(rows)
  BY DEF PipelineTypeOK
<1>2. Cacheable \subseteq 1 .. Len(rows)
  BY <1>1 DEF Cacheable
<1>3. iterations \in [Keys -> Nat]
  BY IterationsBounded
<1>4. ASSUME NEW s \in Scoring PROVE ScoreAmong(Cacheable, s) \in Scores
  <2>1. {j \in Cacheable : rows[j].step = s} \subseteq 1 .. Len(rows)
    BY <1>2
  <2>2. Newest({j \in Cacheable : rows[j].step = s}) \in 0 .. Len(rows)
    BY <1>1, <2>1, NewestIs
  <2> QED
    BY <1>1, <2>2, RowTyped DEF ScoreAmong, Scores
<1>5. latest \in Draft \cup {NoDraft}
  <2>1. {j \in Cacheable : rows[j].draft # NoDraft} \subseteq 1 .. Len(rows)
    BY <1>2
  <2>2. Newest({j \in Cacheable : rows[j].draft # NoDraft}) \in 0 .. Len(rows)
    BY <1>1, <2>1, NewestIs
  <2> QED
    BY <1>1, <2>2, RowTyped DEF DraftAmong
<1>6. used \in Nat
  <2>1. IsFiniteSet(DOMAIN rows)
    BY <1>1, FS_Interval
  <2>2. IsFiniteSet({i \in DOMAIN rows :
                     rows[i].step \in Keys /\ rows[i].status \in {"succeeded", "failed"}})
    BY <2>1, FS_Subset
  <2> QED
    BY <2>2, FS_CardinalityType
<1>7. scores \in [Scoring -> Scores]
  BY <1>4
<1>8. p = [call EXCEPT !.pc = "ready", !.iterations = iterations, !.cache = Cacheable,
                       !.scores = scores, !.latestDraft = latest, !.usedTokens = used]
  BY DEF Loaded, Iterations
<1> HIDE DEF iterations, scores, used, latest, p
<1>9. p \in Call
  BY <1>2, <1>3, <1>5, <1>6, <1>7, <1>8 DEF Call
<1>10. /\ p.pc = "ready" /\ p.at = call.at /\ p.iterations = iterations /\ p.scores = scores
       /\ p.cache = Cacheable /\ p.deadline = call.deadline /\ p.checklist = call.checklist
  BY <1>8 DEF Call
<1> QED
  BY <1>9, <1>10 DEF iterations, scores, p

(***************************************************************************)
(* The steps keep PipelineInv.                                             *)
(***************************************************************************)

(* A step that leaves the rows alone.                                      *)
LEMMA GrownSame ==
  ASSUME rows \in Seq(StepRow), rows' = rows
  PROVE  Quiet
<1>1. Grown
  BY DEF Grown
<1> QED
  BY <1>1 DEF Quiet, Succeeded

(* A step that inserts a row.                                              *)
LEMMA GrownByOne ==
  ASSUME rows \in Seq(StepRow), NEW new \in StepRow, rows' = Append(rows, new)
  PROVE  Grown /\ (new.status # "succeeded" => Quiet)
<1>1. Grown
  BY RowsAppended DEF Grown
<1>2. ASSUME new.status # "succeeded" PROVE Succeeded' = Succeeded
  BY <1>2, RowsAppended DEF Succeeded
<1> QED
  BY <1>1, <1>2 DEF Quiet

(* The gate stays earned by a step that neither submits a draft nor ends   *)
(* the run well.                                                           *)
LEMMA GateStays ==
  ASSUME rows \in Seq(StepRow), Grown, GateIsEarned, drafts' = drafts,
         run'.status = "succeeded" => run.status = "succeeded"
  PROVE  GateIsEarned'
<1> SUFFICES ASSUME drafts' # <<>> \/ run'.status = "succeeded", NEW s \in Keys
             PROVE  StepDone(s)'
  BY DEF GateIsEarned
<1>1. StepDone(s)
  BY DEF GateIsEarned
<1> QED
  BY <1>1, DoneStays

(* A step of one call keeps the invariant if it keeps what it says of that *)
(* call, of the rows and of the run.                                       *)
LEMMA CallStep ==
  ASSUME PipelineInv, NEW c \in Calls, NEW new, calls' = [calls EXCEPT ![c] = new],
         new \in Call', Grown,
         \A r \in DOMAIN rows :
            (calls[c].pc = "asking" /\ r = calls[c].row) \/ rows'[r] = rows[r],
         new.pc = "asking" => new.row \notin DOMAIN rows,
         run' \in PipelineRun, (run'.leaseOwner = NoCall) = (run'.status # "running"),
         drafts' \in Seq([content : Draft, state : {"pending_review", "approved"}]),
         Len(drafts) <= Len(drafts'),
         clock' = clock, late' = late, started' \in Nat, lost' \in Nat,
         Consistent(c)', Backed(c)', RowsAreNumbered', GateIsEarned'
  PROVE  PipelineInv'
<1> USE DEF PipelineInv
<1>1. /\ calls \in [Calls -> Call] /\ rows \in Seq(StepRow) /\ Len(rows) \in Nat
      /\ Len(drafts) \in Nat /\ Len(drafts') \in Nat /\ Len(rows') \in Nat
      /\ clock \in Nat /\ late \in BOOLEAN
  BY DEF PipelineTypeOK, Grown
<1>2. calls'[c] = new /\ \A d \in Calls \ {c} : calls'[d] = calls[d]
  BY <1>1
<1>3. calls' \in [Calls -> Call']
  <2>1. Call \subseteq Call'
    BY <1>1, CallGrows DEF Grown
  <2> HIDE DEF PipelineInv
  <2> QED
    BY <1>1, <2>1
<1>4. PipelineTypeOK'
  BY <1>1, <1>3 DEF PipelineTypeOK, Grown
<1>5. ASSUME NEW d \in Calls \ {c} PROVE Consistent(d)' /\ Backed(d)'
  <2>1. calls[d].pc = "asking" => rows'[calls[d].row] = rows[calls[d].row]
    BY DEF AttemptsAreApart, Consistent
  <2> QED
    BY <1>1, <1>2, <2>1, BystanderKeeps
<1>6. AttemptsAreApart'
  <2> SUFFICES ASSUME NEW d \in Calls, NEW e \in Calls, calls'[d].pc = "asking",
                      calls'[e].pc = "asking", calls'[d].row = calls'[e].row, d # e
               PROVE  FALSE
    BY DEF AttemptsAreApart
  <2>1. CASE d # c /\ e # c
    BY <1>2, <2>1 DEF AttemptsAreApart
  <2>2. CASE d = c
    BY <1>2, <2>2 DEF Consistent
  <2>3. CASE e = c
    BY <1>2, <2>3 DEF Consistent
  <2> QED
    BY <2>1, <2>2, <2>3
<1> QED
  BY <1>4, <1>5, <1>6

(* The same for a step that changes neither rows nor drafts.               *)
LEMMA RestingStep ==
  ASSUME PipelineInv, NEW c \in Calls, NEW new \in Call, calls' = [calls EXCEPT ![c] = new],
         rows' = rows, drafts' = drafts, clock' = clock, late' = late,
         started' \in Nat, lost' \in Nat,
         run' \in PipelineRun, (run'.leaseOwner = NoCall) = (run'.status # "running"),
         run'.status = "succeeded" =>
            run.status = "succeeded" \/ \A s \in Keys : StepDone(s),
         new.pc # "asking", Consistent(c)', Backed(c)'
  PROVE  PipelineInv'
<1>1. /\ rows \in Seq(StepRow) /\ drafts \in Seq([content : Draft, state : {"pending_review", "approved"}])
      /\ RowsAreNumbered /\ GateIsEarned /\ Len(drafts) \in Nat
  BY DEF PipelineInv, PipelineTypeOK
<1>2. Grown
  BY <1>1, GrownSame DEF Quiet
<1>3. GateIsEarned'
  <2> SUFFICES ASSUME drafts' # <<>> \/ run'.status = "succeeded", NEW s \in Keys
               PROVE  StepDone(s)'
    BY DEF GateIsEarned
  <2>1. StepDone(s)
    BY <1>1 DEF GateIsEarned
  <2> QED
    BY <1>1, <1>2, <2>1, DoneStays
<1>4. new \in Call' /\ RowsAreNumbered'
  BY <1>1 DEF Call, RowsAreNumbered
<1>5. /\ drafts' \in Seq([content : Draft, state : {"pending_review", "approved"}])
      /\ Len(drafts) <= Len(drafts')
      /\ \A r \in DOMAIN rows : rows'[r] = rows[r]
  BY <1>1
<1> QED
  BY <1>2, <1>3, <1>4, <1>5, CallStep, Zenon

(* A call that rests, or is about to settle the run, carries no memory.    *)
LEMMA NotWalking ==
  ASSUME NEW c \in Calls, ~Walking(c)'
  PROVE  Backed(c)'
<1> QED
  BY DEF Backed

(* After a pass there is a row to show for it.                             *)
LEMMA BackedAfterPass ==
  ASSUME PipelineInv, NEW c \in Calls, Walking(c), calls[c].at <= Len(Steps), Grown,
         NEW s \in Keys, NEW i \in Nat, NEW score \in Scores,
         s # Here(c) => AtLoop(c),
         NEW q \in DOMAIN rows', rows'[q].status = "succeeded", rows'[q].step = s,
         rows'[q].iteration = i, rows'[q].score = score,
         AfterPass(calls'[c], c, s, i, score)
  PROVE  Consistent(c)' /\ Backed(c)'
<1> USE DEF AfterPass
<1>1. /\ rows \in Seq(StepRow) /\ Backed(c) /\ calls[c].iterations \in [Keys -> Nat]
      /\ calls[c].at \in 1 .. Len(Steps) + 1
  BY CallTyped DEF PipelineInv, PipelineTypeOK
<1>2. q \in Outputs(s)'
  BY DEF Outputs, Succeeded
<1>3. Consistent(c)'
  BY DEF Consistent, AtLoop, Here
<1>4. calls'[c].cache \subseteq Succeeded'
  BY <1>1, GrownKeeps DEF Backed
<1>5. ASSUME NEW x \in Scoring, calls'[c].scores[x] = "high"
      PROVE  \E r \in Outputs(x)' : rows'[r].score = "high"
  <2>1. CASE x = s
    BY <1>2, <1>5, <2>1
  <2>2. CASE x # s
    <3>1. calls[c].scores[x] = "high"
      BY <1>5, <2>2
    <3>2. PICK r \in Outputs(x) : rows[r].score = "high"
      BY <1>1, <3>1 DEF Backed
    <3> QED
      BY <1>1, <3>2, OutputsStay
  <2> QED
    BY <2>1, <2>2
<1>6. ASSUME NEW x \in Keys, calls'[c].iterations[x] > 0
      PROVE  \E r \in Outputs(x)' : rows'[r].iteration = calls'[c].iterations[x]
  <2>1. CASE x = s
    BY <1>1, <1>2, <2>1
  <2>2. CASE x # s
    <3>1. calls[c].iterations[x] > 0 /\ calls'[c].iterations[x] = calls[c].iterations[x]
      BY <1>1, <1>6, <2>2
    <3> QED
      BY <1>1, <3>1, OutputsStay DEF Backed
  <2> QED
    BY <2>1, <2>2
<1>7. ASSUME NEW k \in 1 .. calls'[c].at - 1 PROVE StepDone(Steps[k])'
  <2>1. CASE k \in 1 .. calls[c].at - 1
    BY <1>1, <2>1, DoneStays DEF Backed
  <2>2. CASE k = calls[c].at /\ ~AtLoop(c)
    <3>1. Steps[k] = s /\ Steps[k] \notin DOMAIN Loops
      BY <2>2 DEF AtLoop, Here
    <3> QED
      BY <1>2, <3>1 DEF StepDone
  <2> QED
    BY <1>1, <2>1, <2>2
<1> QED
  BY <1>3, <1>4, <1>5, <1>6, <1>7 DEF Backed

(* A call is at most one iteration ahead of the rows.                      *)
LEMMA IterationBound ==
  ASSUME PipelineInv, NEW c \in Calls, Walking(c), NEW s \in Keys
  PROVE  /\ calls[c].iterations[s] \in 0 .. Len(rows)
         /\ s \in DOMAIN Loops => calls[c].iterations[s] <= Loops[s].maxIterations
<1>1. rows \in Seq(StepRow) /\ Len(rows) \in Nat /\ calls[c].iterations[s] \in Nat /\ RowsAreNumbered
  BY CallTyped DEF PipelineInv, PipelineTypeOK
<1>2. CASE calls[c].iterations[s] > 0
  <2>1. PICK r \in Outputs(s) : rows[r].iteration = calls[c].iterations[s]
    BY <1>2 DEF PipelineInv, Backed
  <2>2. r \in DOMAIN rows /\ rows[r].step = s
    BY <2>1 DEF Outputs, Succeeded
  <2> QED
    BY <1>1, <2>1, <2>2, RowTyped DEF RowsAreNumbered
<1>3. CASE calls[c].iterations[s] = 0
  BY <1>1, <1>3, StepsFacts
<1> QED
  BY <1>1, <1>2, <1>3

(* A row as it is inserted.                                                *)
LEMMA NewRowTyped ==
  ASSUME NEW s \in Keys \cup {"propose"}, NEW i \in Nat \ {0}, NEW a \in Nat \ {0},
         NEW status \in {"running", "succeeded", "skipped"}
  PROVE  LET new == NewRow(s, i, a, status) IN
         /\ new \in StepRow /\ new.step = s /\ new.iteration = i /\ new.attempt = a
         /\ new.status = status
<1> QED
  BY DEF NewRow, StepRow, Scores

(* The attempts counted by a call are those of the rows.                   *)
LEMMA PriorAttemptsIs ==
  ASSUME rows \in Seq(StepRow), RowsAreNumbered, NEW s, NEW i
  PROVE  /\ PriorAttempts(s, i) \in 0 .. Len(rows)
         /\ \A r \in DOMAIN rows : rows[r].step = s /\ rows[r].iteration = i =>
               rows[r].attempt <= PriorAttempts(s, i)
<1> DEFINE prior == {rows[r].attempt : r \in {x \in DOMAIN rows :
                        rows[x].step = s /\ rows[x].iteration = i}}
<1>1. Len(rows) \in Nat /\ \A r \in DOMAIN rows : rows[r].attempt \in 1 .. Len(rows)
  BY RowTyped DEF RowsAreNumbered
<1>2. prior \subseteq 1 .. Len(rows)
  BY <1>1
<1>3. PriorAttempts(s, i) = Newest(prior)
  BY DEF PriorAttempts
<1>4. \A r \in DOMAIN rows : rows[r].step = s /\ rows[r].iteration = i => rows[r].attempt \in prior
  OBVIOUS
<1> HIDE DEF prior
<1>5. Newest(prior) \in 0 .. Len(rows) /\ \A x \in prior : x <= Newest(prior)
  BY <1>1, <1>2, NewestIs
<1> QED
  BY <1>3, <1>4, <1>5

(* The next pass of a call: one of the step it is at, or of the one its    *)
(* loop scores.                                                            *)
IsPass(c, s, i) ==
    /\ calls[c].pc \in {"ready", "rescore"} /\ calls[c].at <= Len(Steps)
    /\ s \in Keys /\ (s # Here(c) => AtLoop(c) /\ s = Loops[Here(c)].scoreFrom)
    /\ i \in 1 .. Len(rows) + 1
    /\ s \in DOMAIN Loops => i <= Loops[s].maxIterations
    /\ Pass(c, s, i)
    /\ UNCHANGED <<run, drafts, clock, late, started, lost>>

(* The outcomes of a pass before the model is asked.                       *)
Late(c) == calls' = [calls EXCEPT ![c] = Halting(calls[c], "failed")] /\ rows' = rows
Hit(c, s, i) ==
    /\ rows' = rows
    /\ \E q \in Outputs(s) :
          /\ q \in calls[c].cache /\ rows[q].iteration = i
          /\ calls' = [calls EXCEPT ![c] = Passed(calls[c], s, i, rows[q].draft, rows[q].score)]
Miss(c, s, i) ==
    /\ \A q \in calls[c].cache : ~(rows[q].step = s /\ rows[q].iteration = i)
    /\ rows' = Append(rows, NewRow(s, i, PriorAttempts(s, i) + 1, "running"))
    /\ calls' = [calls EXCEPT ![c].pc = "asking", ![c].row = Len(rows) + 1, ![c].tries = 1]

(* A pass stops at the deadline, is replayed from the cache, or is asked   *)
(* for.                                                                    *)
LEMMA PassOutcomes ==
  ASSUME PipelineInv, NEW c \in Calls, NEW s, NEW i, IsPass(c, s, i)
  PROVE  /\ Walking(c)
         /\ Late(c) \/ Hit(c, s, i) \/ Miss(c, s, i)
<1>1. /\ rows \in Seq(StepRow) /\ Len(rows) \in Nat /\ calls[c].cache \subseteq 1 .. Len(rows)
      /\ Walking(c)
  BY CallTyped DEF PipelineInv, PipelineTypeOK, IsPass, Walking
<1> DEFINE hits == {r \in calls[c].cache : rows[r].step = s /\ rows[r].iteration = i}
           q == Newest(hits)
<1>2. \/ Late(c)
      \/ /\ hits # {} /\ rows' = rows
         /\ calls' = [calls EXCEPT ![c] = Passed(calls[c], s, i, rows[q].draft, rows[q].score)]
      \/ /\ hits = {}
         /\ rows' = Append(rows, NewRow(s, i, PriorAttempts(s, i) + 1, "running"))
         /\ calls' = [calls EXCEPT ![c].pc = "asking", ![c].row = Len(rows'), ![c].tries = 1]
  BY DEF IsPass, Pass, Late
<1>3. CASE /\ hits # {} /\ rows' = rows
           /\ calls' = [calls EXCEPT ![c] = Passed(calls[c], s, i, rows[q].draft, rows[q].score)]
  <2>1. q \in hits
    <3>1. hits \subseteq 1 .. Len(rows)
      BY <1>1
    <3> HIDE DEF hits
    <3> QED
      BY <1>1, <1>3, <3>1, NewestIs
  <2>2. q \in Outputs(s) /\ q \in calls[c].cache /\ rows[q].iteration = i
    BY <1>1, <2>1 DEF PipelineInv, Backed, Outputs
  <2> HIDE DEF q
  <2> QED
    BY <1>1, <1>3, <2>2 DEF Hit
<1>4. CASE /\ hits = {}
           /\ rows' = Append(rows, NewRow(s, i, PriorAttempts(s, i) + 1, "running"))
           /\ calls' = [calls EXCEPT ![c].pc = "asking", ![c].row = Len(rows'), ![c].tries = 1]
  <2>1. Len(rows') = Len(rows) + 1
    BY <1>1, <1>4
  <2> QED
    BY <1>1, <1>4, <2>1 DEF Miss
<1> QED
  BY <1>1, <1>2, <1>3, <1>4

(* A call about to ask keeps its memory.                                   *)
AsksFor(p, c, row, tries, used) ==
    p = [calls[c] EXCEPT !.pc = "asking", !.row = row, !.tries = tries, !.usedTokens = used]

(* A call that waits for an answer remembers everything else.              *)
LEMMA AskingIs ==
  ASSUME PipelineTypeOK, NEW c \in Calls, NEW row \in Nat, NEW tries \in 0 .. StepAttempts,
         NEW used \in Nat, row <= Len(rows'), Len(rows') \in Nat, Len(rows) <= Len(rows'),
         drafts' = drafts,
         NEW p, AsksFor(p, c, row, tries, used)
  PROVE  /\ p \in Call' /\ p.pc = "asking" /\ p.row = row /\ Remembers(p, c)
         /\ p.checklist = calls[c].checklist
<1> DEFINE call == calls[c]
<1>0. p = [call EXCEPT !.pc = "asking", !.row = row, !.tries = tries, !.usedTokens = used]
  BY DEF AsksFor
<1>1. call \in Call' /\ row \in 0 .. Len(rows')
  <2>1. call \in Call /\ Len(rows) \in Nat /\ Len(drafts) \in Nat
    BY CallTyped DEF PipelineTypeOK
  <2> HIDE DEF call
  <2> QED
    BY <2>1, CallGrows
<1> HIDE DEF call
<1>2. p \in Call'
  BY <1>0, <1>1 DEF Call
<1>3. /\ p.pc = "asking" /\ p.row = row /\ p.at = call.at /\ p.iterations = call.iterations
      /\ p.scores = call.scores /\ p.cache = call.cache
      /\ p.deadline = call.deadline /\ p.checklist = call.checklist
  BY <1>0, <1>1 DEF Call
<1> QED
  BY <1>2, <1>3 DEF call, Remembers

(* A pass that is asked for has a new row, and the call waits for that     *)
(* one.                                                                    *)
LEMMA MissAppends ==
  ASSUME PipelineInv, NEW c \in Calls, NEW s, NEW i, IsPass(c, s, i), Miss(c, s, i)
  PROVE  LET n == Len(rows) + 1
             a == PriorAttempts(s, i) + 1 IN
         /\ Quiet /\ RowsAreNumbered'
         /\ DOMAIN rows' = DOMAIN rows \cup {n} /\ n \notin DOMAIN rows /\ Len(rows') = n
         /\ \A r \in DOMAIN rows : rows'[r] = rows[r]
         /\ rows'[n].step = s /\ rows'[n].iteration = i /\ rows'[n].attempt = a
         /\ rows'[n].status = "running"
         /\ calls'[c] \in Call' /\ calls' = [calls EXCEPT ![c] = calls'[c]]
         /\ calls'[c].pc = "asking" /\ calls'[c].row = n
         /\ Remembers(calls'[c], c) /\ calls'[c].checklist = calls[c].checklist
<1> DEFINE n == Len(rows) + 1
           a == PriorAttempts(s, i) + 1
           new == NewRow(s, i, a, "running")
           call == [calls[c] EXCEPT !.pc = "asking", !.row = n, !.tries = 1,
                                    !.usedTokens = calls[c].usedTokens]
<1>1. /\ PipelineTypeOK /\ rows \in Seq(StepRow) /\ Len(rows) \in Nat /\ RowsAreNumbered
      /\ calls \in [Calls -> Call] /\ calls[c] \in Call /\ calls[c].usedTokens \in Nat
  BY CallTyped DEF PipelineInv, PipelineTypeOK
<1>2. a \in Nat \ {0} /\ a <= n
  BY <1>1, PriorAttemptsIs
<1>3. /\ new \in StepRow /\ new.step = s /\ new.iteration = i /\ new.attempt = a
      /\ new.status = "running"
  <2>1. s \in Keys \cup {"propose"} /\ i \in Nat \ {0} /\ "running" \in {"running", "succeeded", "skipped"}
    BY <1>1 DEF IsPass
  <2> HIDE DEF a
  <2> QED
    BY <1>2, <2>1, NewRowTyped
<1>4. rows' = Append(rows, new)
  BY DEF Miss
<1>5. calls' = [calls EXCEPT ![c] = call]
  BY <1>1 DEF Miss, Call
<1> HIDE DEF new, a
<1>6. /\ DOMAIN rows' = DOMAIN rows \cup {n} /\ n \notin DOMAIN rows /\ Len(rows') = n
      /\ \A r \in DOMAIN rows : rows'[r] = rows[r]
      /\ rows'[n] = new
  BY <1>1, <1>3, <1>4, RowsAppended
<1>7. Quiet
  BY <1>1, <1>3, <1>4, GrownByOne
<1>8. RowsAreNumbered'
  <2>1. /\ i <= n /\ (s \in DOMAIN Loops => i <= Loops[s].maxIterations) /\ s # "propose"
    BY <1>1, StepsFacts DEF IsPass
  <2> QED
    BY <1>1, <1>2, <1>3, <1>6, <2>1 DEF RowsAreNumbered
<1>9. /\ call \in Call' /\ call.pc = "asking" /\ call.row = n /\ Remembers(call, c)
      /\ call.checklist = calls[c].checklist
  <2>1. n \in Nat /\ n <= Len(rows') /\ Len(rows') \in Nat /\ Len(rows) <= Len(rows') /\ drafts' = drafts
        /\ 1 \in 0 .. StepAttempts
    BY <1>1, <1>6, BoundsAssumption DEF IsPass
  <2>2. calls[c].usedTokens \in Nat
    BY <1>1
  <2>3. PICK p : p = call
    OBVIOUS
  <2>4. AsksFor(p, c, n, 1, calls[c].usedTokens)
    BY <2>3 DEF AsksFor
  <2> HIDE DEF n, call
  <2>5. /\ p \in Call' /\ p.pc = "asking" /\ p.row = n /\ Remembers(p, c)
        /\ p.checklist = calls[c].checklist
    BY <1>1, <2>1, <2>2, <2>4, AskingIs
  <2> QED
    BY <2>3, <2>5
<1> HIDE DEF call
<1>10. calls'[c] = call /\ calls' = [calls EXCEPT ![c] = calls'[c]]
  BY <1>1, <1>5
<1> QED
  BY <1>3, <1>6, <1>7, <1>8, <1>9, <1>10 DEF a

(* Whatever a pass comes to, the invariant holds.                          *)
LEMMA PassKeeps ==
  ASSUME PipelineInv, NEW c \in Calls, NEW s, NEW i, IsPass(c, s, i)
  PROVE  PipelineInv'
<1>1. /\ PipelineTypeOK /\ rows \in Seq(StepRow) /\ Len(rows) \in Nat /\ Len(drafts) \in Nat
      /\ drafts \in Seq([content : Draft, state : {"pending_review", "approved"}])
      /\ calls \in [Calls -> Call] /\ calls[c] \in Call /\ RowsAreNumbered /\ GateIsEarned
      /\ run \in PipelineRun /\ (run.leaseOwner = NoCall) = (run.status # "running")
      /\ started \in Nat /\ lost \in Nat /\ Consistent(c) /\ Backed(c)
  BY CallTyped DEF PipelineInv, PipelineTypeOK
<1>2. /\ Walking(c) /\ calls[c].at <= Len(Steps) /\ s \in Keys /\ i \in Nat
      /\ (s # Here(c) => AtLoop(c) /\ s = Loops[Here(c)].scoreFrom)
      /\ run' = run /\ drafts' = drafts /\ clock' = clock /\ late' = late
      /\ started' = started /\ lost' = lost
  BY <1>1, PassOutcomes DEF IsPass
<1>3. CASE Late(c)
  <2> DEFINE new == Halting(calls[c], "failed")
  <2>1. new \in Call /\ new.pc = "halting" /\ new.verdict = "failed"
    BY <1>1, HaltingIs
  <2> HIDE DEF new
  <2>2. calls' = [calls EXCEPT ![c] = new] /\ rows' = rows
    BY <1>3 DEF Late, new
  <2>3. calls'[c] = new
    BY <1>1, <2>2
  <2>4. Consistent(c)' /\ Backed(c)'
    BY <2>1, <2>3, NotWalking DEF Consistent, Walking
  <2> QED
    BY <1>1, <1>2, <2>1, <2>2, <2>4, RestingStep
<1>4. CASE Hit(c, s, i)
  <2>1. PICK q \in Outputs(s) :
          /\ q \in calls[c].cache /\ rows[q].iteration = i
          /\ calls' = [calls EXCEPT ![c] = Passed(calls[c], s, i, rows[q].draft, rows[q].score)]
    BY <1>4 DEF Hit
  <2> DEFINE new == Passed(calls[c], s, i, rows[q].draft, rows[q].score)
  <2>2. /\ q \in DOMAIN rows /\ rows[q].status = "succeeded" /\ rows[q].step = s
        /\ rows[q].draft \in Draft \cup {NoDraft} /\ rows[q].score \in Scores
    BY <1>1, RowTyped DEF Outputs, Succeeded
  <2>3. new \in Call /\ AfterPass(new, c, s, i, rows[q].score)
    <3>1. PICK draft, score : draft = rows[q].draft /\ score = rows[q].score
      OBVIOUS
    <3>2. new = Passed(calls[c], s, i, draft, score)
      BY <3>1
    <3> HIDE DEF new
    <3> QED
      BY <1>1, <1>2, <2>2, <3>1, <3>2, PassedIs
  <2>4. calls' = [calls EXCEPT ![c] = new] /\ rows' = rows /\ calls'[c] = new
    BY <1>1, <1>4, <2>1 DEF Hit
  <2>5. Grown
    BY <1>1, <2>4, GrownSame DEF Quiet
  <2> HIDE DEF new
  <2>6. Consistent(c)' /\ Backed(c)'
    BY <1>2, <2>1, <2>2, <2>3, <2>4, <2>5, BackedAfterPass
  <2>7. new.pc # "asking"
    BY <2>3 DEF AfterPass
  <2> QED
    BY <1>1, <1>2, <2>3, <2>4, <2>6, <2>7, RestingStep
<1>5. CASE Miss(c, s, i)
  <2> DEFINE n == Len(rows) + 1
  <2>1. /\ Grown /\ RowsAreNumbered' /\ n \in DOMAIN rows' /\ n \notin DOMAIN rows
        /\ \A r \in DOMAIN rows : rows'[r] = rows[r]
        /\ rows'[n].step = s /\ rows'[n].status = "running"
        /\ calls'[c] \in Call' /\ calls' = [calls EXCEPT ![c] = calls'[c]]
        /\ calls'[c].pc = "asking" /\ calls'[c].row = n
        /\ calls'[c].at = calls[c].at /\ calls'[c].iterations = calls[c].iterations
        /\ calls'[c].scores = calls[c].scores /\ calls'[c].cache = calls[c].cache
    BY <1>5, MissAppends DEF Quiet, Remembers
  <2>2. Consistent(c)'
    BY <1>2, <2>1 DEF Consistent, Asked, Here, AtLoop
  <2>3. Backed(c)'
    <3>1. calls'[c].cache \subseteq Succeeded'
      BY <1>1, <1>2, <2>1, GrownKeeps DEF Backed
    <3>2. ASSUME NEW x \in Scoring, calls'[c].scores[x] = "high"
          PROVE  \E r \in Outputs(x)' : rows'[r].score = "high"
      BY <1>1, <1>2, <2>1, <3>2, OutputsStay DEF Backed
    <3>3. ASSUME NEW x \in Keys, calls'[c].iterations[x] > 0
          PROVE  \E r \in Outputs(x)' : rows'[r].iteration = calls'[c].iterations[x]
      BY <1>1, <1>2, <2>1, <3>3, OutputsStay DEF Backed
    <3>4. ASSUME NEW k \in 1 .. calls'[c].at - 1 PROVE StepDone(Steps[k])'
      BY <1>1, <1>2, <2>1, DoneStays DEF Backed
    <3> QED
      BY <3>1, <3>2, <3>3, <3>4 DEF Backed
  <2>4. GateIsEarned'
    BY <1>1, <1>2, <2>1, GateStays
  <2>5. /\ drafts' \in Seq([content : Draft, state : {"pending_review", "approved"}])
        /\ Len(drafts) <= Len(drafts')
    BY <1>1, <1>2
  <2>6. calls'[c].pc = "asking" => calls'[c].row \notin DOMAIN rows
    BY <2>1
  <2>7. \A r \in DOMAIN rows : (calls[c].pc = "asking" /\ r = calls[c].row) \/ rows'[r] = rows[r]
    BY <2>1
  <2>8. PICK new : new = calls'[c]
    OBVIOUS
  <2> HIDE DEF n
  <2> QED
    BY <1>1, <1>2, <2>1, <2>2, <2>3, <2>4, <2>5, <2>6, <2>7, <2>8, CallStep
<1> QED
  BY <1>3, <1>4, <1>5, PassOutcomes

(* A step that only touches the row of the run, and does not end it well.  *)
LEMMA EnvironmentStep ==
  ASSUME PipelineInv, calls' = calls, rows' = rows, drafts' = drafts,
         clock' \in Nat, late' \in BOOLEAN, started' \in Nat, lost' \in Nat,
         run' \in PipelineRun, (run'.leaseOwner = NoCall) = (run'.status # "running"),
         run'.status = "succeeded" => run.status = "succeeded"
  PROVE  PipelineInv'
<1>1. rows \in Seq(StepRow) /\ Grown
  BY GrownSame DEF PipelineInv, PipelineTypeOK, Quiet
<1>2. ASSUME NEW d \in Calls PROVE Consistent(d)' /\ Backed(d)'
  <2>1. Consistent(d) /\ Backed(d)
    BY DEF PipelineInv
  <2> QED
    BY <1>1, <2>1, BystanderKeeps
<1>3. GateIsEarned'
  BY <1>1, GateStays DEF PipelineInv
<1>4. AttemptsAreApart' /\ RowsAreNumbered'
  BY DEF PipelineInv, AttemptsAreApart, RowsAreNumbered
<1>5. PipelineTypeOK'
  BY DEF PipelineInv, PipelineTypeOK, Call
<1> QED
  BY <1>2, <1>3, <1>4, <1>5 DEF PipelineInv

(* The types of the fields of the run.                                     *)
LEMMA RunTyped ==
  ASSUME PipelineTypeOK
  PROVE  /\ run \in PipelineRun /\ run.mode \in {"live", "shadow", "dry_run"}
         /\ run.leaseOwner \in Calls \cup {NoCall} /\ run.leaseExpiresAt \in Nat
         /\ run.checklist \subseteq Passes
         /\ (run.leaseOwner = NoCall) = (run.status # "running")
<1> QED
  BY DEF PipelineTypeOK, PipelineRun

(* A run is created queued, with an empty checklist.                       *)
LEMMA CreateTypes ==
  ASSUME PipelineTypeOK, NEW by, Create(by)
  PROVE  /\ run' \in PipelineRun /\ (run'.leaseOwner = NoCall) = (run'.status # "running")
         /\ run'.status = "queued" /\ run.status = "absent"
         /\ run'.checklist = run.checklist
<1>1. PICK o \in Origins : run' = [run EXCEPT !.status = "queued", !.createdBy = o[1], !.mode = o[2]]
  BY DEF Create
<1>2. run.status = "absent"
  BY DEF Create
<1>3. o[1] \in {"automation", "person"} /\ o[2] \in {"live", "shadow", "dry_run"}
  BY OriginsAssumption
<1> QED
  BY <1>1, <1>2, <1>3, RunTyped DEF PipelineRun

(* A call that begins has nothing in memory.                               *)
LEMMA BeginIs ==
  ASSUME PipelineInv, NEW c \in Calls, NEW isTick \in BOOLEAN, Begin(c, isTick)
  PROVE  /\ calls[c].pc = "idle" /\ calls'[c] \in Call /\ calls'[c].pc = "selected"
         /\ calls' = [calls EXCEPT ![c] = calls'[c]]
         /\ Consistent(c)' /\ Backed(c)' /\ started' \in Nat
<1>1. /\ calls \in [Calls -> Call] /\ Consistent(c) /\ calls[c].pc = "idle"
      /\ calls' = [calls EXCEPT ![c].pc = "selected", ![c].tick = isTick]
      /\ started \in Nat /\ started' = started + 1
  BY DEF Begin, PipelineInv, PipelineTypeOK
<1> DEFINE call == calls[c]
           new == [call EXCEPT !.pc = "selected", !.tick = isTick]
<1>2. calls' = [calls EXCEPT ![c] = new] /\ call \in Call /\ call.at = 1
  BY <1>1 DEF Consistent
<1> HIDE DEF call
<1>3. new \in Call /\ new.pc = "selected" /\ new.at = 1
  BY <1>2 DEF Call
<1> HIDE DEF new
<1>4. calls'[c] = new
  BY <1>1, <1>2
<1>5. Consistent(c)' /\ Backed(c)'
  BY <1>3, <1>4, NotWalking DEF Consistent, Walking
<1>6. calls' = [calls EXCEPT ![c] = calls'[c]]
  BY <1>2, <1>4
<1>7. calls[c].pc = "idle" /\ started' \in Nat
  BY <1>1
<1> QED
  BY <1>3, <1>4, <1>5, <1>6, <1>7

(* The steps with which a call begins keep the invariant.                  *)
LEMMA BeginKeeps ==
  ASSUME PipelineInv, NEW c \in Calls, Start(c) \/ Select(c) \/ Resume(c)
  PROVE  PipelineInv'
<1>1. PICK isTick \in BOOLEAN : Begin(c, isTick)
  BY DEF Start, Select, Resume
<1>2. /\ rows' = rows /\ drafts' = drafts /\ clock' = clock /\ late' = late /\ lost' = lost
      /\ run' \in PipelineRun /\ (run'.leaseOwner = NoCall) = (run'.status # "running")
      /\ run'.status = "succeeded" => run.status = "succeeded"
  BY CreateTypes, RunTyped DEF Start, Select, Resume, PipelineInv
<1>3. PICK new : new = calls'[c]
  OBVIOUS
<1>4. lost' \in Nat /\ new.pc # "asking"
  BY <1>1, <1>2, <1>3, BeginIs DEF PipelineInv, PipelineTypeOK
<1> QED
  BY <1>1, <1>2, <1>3, <1>4, BeginIs, RestingStep

(* A call that is over.                                                    *)
LEMMA FreshKeeps ==
  ASSUME PipelineInv, NEW c \in Calls, calls' = [calls EXCEPT ![c] = Fresh],
         rows' = rows, drafts' = drafts, clock' = clock, late' = late,
         started' = started, lost' \in Nat,
         run' \in PipelineRun, (run'.leaseOwner = NoCall) = (run'.status # "running"),
         run'.status = "succeeded" =>
            run.status = "succeeded" \/ \A s \in Keys : StepDone(s)
  PROVE  PipelineInv'
<1>1. Len(rows) \in Nat /\ Len(drafts) \in Nat /\ calls \in [Calls -> Call] /\ started \in Nat
  BY DEF PipelineInv, PipelineTypeOK
<1>2. Fresh \in Call /\ Fresh.pc = "idle" /\ Fresh.at = 1
  BY <1>1, FreshTyped DEF Fresh
<1>3. calls'[c] = Fresh
  BY <1>1
<1>4. Consistent(c)' /\ Backed(c)'
  BY <1>2, <1>3, NotWalking DEF Consistent, Walking
<1> QED
  BY <1>1, <1>2, <1>4, RestingStep

(* The greater of a number and one.                                        *)
LEMMA MaxOfTwo ==
  ASSUME NEW n \in Nat
  PROVE  Max({n, 1}) \in {n, 1} /\ Max({n, 1}) >= n /\ Max({n, 1}) >= 1
<1>1. \E x \in {n, 1} : \A y \in {n, 1} : x >= y
  OBVIOUS
<1> QED
  BY <1>1 DEF Max

(* A plain step is a pass, the first if none was done before.              *)
LEMMA AdvanceIsPass ==
  ASSUME PipelineInv, NEW c \in Calls, Advance(c)
  PROVE  IsPass(c, Here(c), Max({calls[c].iterations[Here(c)], 1}))
<1>1. /\ calls[c].pc = "ready" /\ calls[c].at \in 1 .. Len(Steps) /\ Walking(c)
      /\ Len(rows) \in Nat /\ ~AtLoop(c)
  BY CallTyped, StepsFacts DEF Advance, AtStep, PipelineInv, PipelineTypeOK, Walking
<1>2. Here(c) \in Keys /\ Here(c) \notin DOMAIN Loops
  BY <1>1, StepsFacts DEF Here, AtLoop
<1>3. calls[c].iterations[Here(c)] \in 0 .. Len(rows)
  BY <1>1, <1>2, IterationBound
<1>4. Max({calls[c].iterations[Here(c)], 1}) \in 1 .. Len(rows) + 1
  BY <1>1, <1>3, MaxOfTwo
<1> QED
  BY <1>1, <1>2, <1>4 DEF IsPass, Advance

(* A revision is a pass of the loop, within its iterations.                *)
LEMMA ReviseIsPass ==
  ASSUME PipelineInv, NEW c \in Calls, Revise(c)
  PROVE  IsPass(c, Here(c), Revisions(c) + 1)
<1>1. /\ calls[c].pc = "ready" /\ calls[c].at \in 1 .. Len(Steps) /\ Walking(c)
      /\ Len(rows) \in Nat /\ AtLoop(c)
  BY CallTyped, StepsFacts DEF Revise, AtStep, PipelineInv, PipelineTypeOK, Walking
<1>2. Here(c) \in Keys /\ Here(c) \in DOMAIN Loops /\ Loops[Here(c)].maxIterations \in Nat
  BY <1>1, StepsFacts DEF Here, AtLoop
<1>3. Revisions(c) \in 0 .. Len(rows)
  BY <1>1, <1>2, IterationBound DEF Revisions
<1>4. Revisions(c) + 1 \in 1 .. Len(rows) + 1
  BY <1>1, <1>3
<1>5. Revisions(c) + 1 <= Loops[Here(c)].maxIterations
  BY <1>2, <1>3 DEF Revise, Exhausted
<1> QED
  BY <1>1, <1>2, <1>4, <1>5 DEF IsPass, Revise

(* So is the critique of a revision, of the step that scores.              *)
LEMMA RescoreIsPass ==
  ASSUME PipelineInv, NEW c \in Calls, Rescore(c)
  PROVE  LET s == Loops[Here(c)].scoreFrom IN
         IsPass(c, s, calls[c].iterations[s] + 1) /\ s \in Scoring /\ s # Here(c)
<1> DEFINE s == Loops[Here(c)].scoreFrom
<1>1. /\ calls[c].pc = "rescore" /\ calls[c].at <= Len(Steps) /\ Walking(c)
      /\ Len(rows) \in Nat /\ AtLoop(c)
  BY DEF Rescore, PipelineInv, PipelineTypeOK, Walking, Consistent
<1>2. s \in Scoring /\ s \in Keys /\ s \notin DOMAIN Loops /\ s # Here(c)
  BY <1>1, StepsFacts DEF AtLoop
<1>3. calls[c].iterations[s] \in 0 .. Len(rows)
  BY <1>1, <1>2, IterationBound
<1>4. calls[c].iterations[s] + 1 \in 1 .. Len(rows) + 1
  BY <1>1, <1>3
<1> QED
  BY <1>1, <1>2, <1>4 DEF IsPass, Rescore

(* The parts of the invariant that most of the proofs below use.           *)
LEMMA RowsTyped ==
  ASSUME PipelineInv
  PROVE  /\ PipelineTypeOK /\ rows \in Seq(StepRow) /\ Len(rows) \in Nat /\ Len(drafts) \in Nat
         /\ drafts \in Seq([content : Draft, state : {"pending_review", "approved"}])
         /\ calls \in [Calls -> Call] /\ RowsAreNumbered /\ GateIsEarned
         /\ started \in Nat /\ lost \in Nat /\ clock \in Nat /\ late \in BOOLEAN
         /\ DOMAIN rows = 1 .. Len(rows)
<1> QED
  BY DEF PipelineInv, PipelineTypeOK

(* A claim: the run is leased, and the call has loaded it or gives up.     *)
LEMMA ClaimIs ==
  ASSUME PipelineInv, NEW c \in Calls, Claim(c)
  PROVE  /\ run' \in PipelineRun /\ run'.status = "running" /\ run'.leaseOwner = c
         /\ run'.leaseExpiresAt = clock + RunMs /\ run'.checklist = run.checklist
         /\ calls' = [calls EXCEPT ![c] = calls'[c]] /\ calls'[c] \in Call
         /\ calls'[c].deadline = clock + RunMs /\ calls'[c].checklist = run.checklist
         /\ \/ calls'[c].pc = "halting" /\ calls'[c].verdict = "failed"
            \/ /\ calls'[c].pc = "ready" /\ calls'[c].at = 1 /\ calls'[c].cache = Succeeded
               /\ calls'[c].iterations = [s \in Keys |-> Newest(Iterations(s))]
               /\ calls'[c].scores = [s \in Scoring |-> ScoreAmong(Succeeded, s)]
<1>1. /\ calls \in [Calls -> Call] /\ calls[c] \in Call /\ calls[c].pc = "selected" /\ calls[c].at = 1
      /\ clock + RunMs \in Nat /\ run.checklist \subseteq Passes
  BY RunTyped, RowsTyped, BoundsAssumption DEF Claim, PipelineInv, Consistent
<1> DEFINE call == calls[c]
           claimed == [call EXCEPT !.deadline = clock + RunMs, !.checklist = run.checklist]
<1>2. \/ calls' = [calls EXCEPT ![c] = Loaded(claimed)]
      \/ calls' = [calls EXCEPT ![c] = Halting(claimed, "failed")]
  BY DEF Claim
<1>3. run' \in PipelineRun /\ run'.status = "running" /\ run'.leaseOwner = c
      /\ run'.leaseExpiresAt = clock + RunMs /\ run'.checklist = run.checklist
  BY <1>1, RunTyped, RowsTyped DEF Claim, PipelineRun
<1>4. call \in Call /\ call.at = 1
  BY <1>1
<1> HIDE DEF call
<1>5. /\ claimed \in Call /\ claimed.at = 1 /\ claimed.deadline = clock + RunMs
      /\ claimed.checklist = run.checklist
  BY <1>1, <1>4 DEF Call
<1> HIDE DEF claimed
<1>6. Cacheable = Succeeded
  BY DEF Cacheable, Succeeded
<1>7. CASE calls' = [calls EXCEPT ![c] = Loaded(claimed)]
  <2>1. calls'[c] = Loaded(claimed)
    BY <1>1, <1>7
  <2>2. calls' = [calls EXCEPT ![c] = calls'[c]]
    BY <1>7, <2>1
  <2>3. /\ calls'[c] \in Call /\ calls'[c].pc = "ready" /\ calls'[c].at = 1
        /\ calls'[c].iterations = [s \in Keys |-> Newest(Iterations(s))]
        /\ calls'[c].scores = [s \in Scoring |-> ScoreAmong(Cacheable, s)]
        /\ calls'[c].cache = Cacheable
        /\ calls'[c].deadline = clock + RunMs /\ calls'[c].checklist = run.checklist
    BY <1>5, <2>1, RowsTyped, LoadedIs
  <2> QED
    BY <1>3, <1>6, <2>2, <2>3
<1>8. CASE calls' = [calls EXCEPT ![c] = Halting(claimed, "failed")]
  <2>1. calls'[c] = Halting(claimed, "failed")
    BY <1>1, <1>8
  <2>2. calls' = [calls EXCEPT ![c] = calls'[c]]
    BY <1>8, <2>1
  <2>3. /\ calls'[c] \in Call /\ calls'[c].pc = "halting" /\ calls'[c].verdict = "failed"
        /\ calls'[c].deadline = clock + RunMs /\ calls'[c].checklist = run.checklist
    BY <1>5, <2>1, RowsTyped, HaltingIs
  <2> QED
    BY <1>3, <2>2, <2>3
<1> QED
  BY <1>2, <1>7, <1>8

(* A call that has claimed the run has the last score of each step.        *)
LEMMA LastScore ==
  ASSUME PipelineInv, NEW s \in Scoring
  PROVE  /\ ScoreAmong(Succeeded, s) # "none" =>
               \E r \in Outputs(s) : rows[r].score = ScoreAmong(Succeeded, s)
         /\ Outputs(s) # {} =>
               \E r \in Outputs(s) :
                  /\ ScoreAmong(Succeeded, s) = rows[r].score
                  /\ \A q \in Outputs(s) : q <= r
<1>1. Outputs(s) \subseteq 1 .. Len(rows) /\ Len(rows) \in Nat
  BY RowsTyped DEF Outputs, Succeeded
<1>2. /\ \A q \in Outputs(s) : q <= Newest(Outputs(s))
      /\ Outputs(s) # {} => Newest(Outputs(s)) \in Outputs(s)
      /\ Outputs(s) = {} => Newest(Outputs(s)) = 0
  BY <1>1, NewestIs
<1>3. ScoreAmong(Succeeded, s) =
         IF Newest(Outputs(s)) = 0 THEN "none" ELSE rows[Newest(Outputs(s))].score
  BY DEF ScoreAmong, Outputs
<1>4. Newest(Outputs(s)) = 0 => Outputs(s) = {}
  BY <1>1, <1>2
<1> QED
  BY <1>2, <1>3, <1>4

(* A claim keeps the invariant: what is loaded comes from rows.            *)
LEMMA ClaimKeeps ==
  ASSUME PipelineInv, NEW c \in Calls, Claim(c)
  PROVE  PipelineInv'
<1>1. /\ rows' = rows /\ drafts' = drafts /\ clock' = clock /\ late' = late
      /\ started' = started /\ lost' = lost
  BY DEF Claim
<1>2. \A s : Outputs(s)' = Outputs(s)
  BY <1>1 DEF Outputs, Succeeded
<1>3. Consistent(c)' /\ calls'[c].pc # "asking"
  BY ClaimIs DEF Consistent
<1>4. Backed(c)'
  <2>1. CASE calls'[c].pc = "halting"
    BY <2>1, NotWalking DEF Walking
  <2>2. CASE /\ calls'[c].pc = "ready" /\ calls'[c].at = 1 /\ calls'[c].cache = Succeeded
             /\ calls'[c].iterations = [s \in Keys |-> Newest(Iterations(s))]
             /\ calls'[c].scores = [s \in Scoring |-> ScoreAmong(Succeeded, s)]
    <3>1. calls'[c].cache \subseteq Succeeded'
      BY <1>1, <2>2 DEF Succeeded
    <3>2. ASSUME NEW s \in Scoring, calls'[c].scores[s] = "high"
          PROVE  \E r \in Outputs(s)' : rows'[r].score = "high"
      BY <1>1, <1>2, <2>2, <3>2, LastScore
    <3>3. ASSUME NEW s \in Keys, calls'[c].iterations[s] > 0
          PROVE  \E r \in Outputs(s)' : rows'[r].iteration = calls'[c].iterations[s]
      BY <1>1, <1>2, <2>2, <3>3, RowsTyped, IterationsBounded
    <3>4. \A k \in 1 .. calls'[c].at - 1 : StepDone(Steps[k])'
      BY <2>2
    <3> QED
      BY <3>1, <3>2, <3>3, <3>4 DEF Backed
  <2> QED
    BY <2>1, <2>2, ClaimIs
<1>5. PICK new : new = calls'[c]
  OBVIOUS
<1>6. /\ run' \in PipelineRun /\ (run'.leaseOwner = NoCall) = (run'.status # "running")
      /\ run'.status # "succeeded"
  BY ClaimIs, CallsAssumption
<1> QED
  BY <1>1, <1>3, <1>4, <1>5, <1>6, ClaimIs, RowsTyped, RestingStep

(* A loop that is left is done.                                            *)
LEMMA LeftLoopIsDone ==
  ASSUME PipelineInv, NEW c \in Calls, AtStep(c), AtLoop(c),
         GoodEnough(c) \/ Exhausted(c)
  PROVE  StepDone(Here(c)) /\ Walking(c)
<1>1. /\ Walking(c) /\ Here(c) \in DOMAIN Loops /\ Here(c) \in Keys
      /\ Loops[Here(c)].scoreFrom \in Scoring /\ Loops[Here(c)].maxIterations \in Nat \ {0}
      /\ Backed(c)
  BY StepsFacts DEF AtStep, AtLoop, Walking, PipelineInv
<1>2. CASE GoodEnough(c)
  BY <1>1, <1>2 DEF GoodEnough, Backed, StepDone, LoopDone
<1>3. CASE Exhausted(c)
  <2>1. calls[c].iterations[Here(c)] \in Nat
    BY <1>1, RowsTyped, CallTyped
  <2>2. calls[c].iterations[Here(c)] = Loops[Here(c)].maxIterations
    BY <1>1, <1>3, <2>1, IterationBound DEF Exhausted, Revisions
  <2>3. PICK r \in Outputs(Here(c)) : rows[r].iteration = Loops[Here(c)].maxIterations
    BY <1>1, <2>2 DEF Backed
  <2> QED
    BY <1>1, <2>3 DEF StepDone, LoopDone
<1> QED
  BY <1>1, <1>2, <1>3

(* A call that goes on to the next step.                                   *)
LEMMA MovesOn ==
  ASSUME PipelineInv, NEW c \in Calls, AtStep(c), StepDone(Here(c)), Grown,
         calls'[c].pc = "ready", calls'[c].at = calls[c].at + 1,
         calls'[c].iterations = calls[c].iterations, calls'[c].scores = calls[c].scores,
         calls'[c].cache = calls[c].cache
  PROVE  Consistent(c)' /\ Backed(c)'
<1>1. /\ rows \in Seq(StepRow) /\ Backed(c) /\ Walking(c)
      /\ calls[c].at \in 1 .. Len(Steps) + 1
  BY CallTyped DEF PipelineInv, PipelineTypeOK, AtStep, Walking
<1>2. Consistent(c)'
  BY DEF Consistent
<1>3. calls'[c].cache \subseteq Succeeded'
  BY <1>1, GrownKeeps DEF Backed
<1>4. ASSUME NEW x \in Scoring, calls'[c].scores[x] = "high"
      PROVE  \E r \in Outputs(x)' : rows'[r].score = "high"
  BY <1>1, <1>4, OutputsStay DEF Backed
<1>5. ASSUME NEW x \in Keys, calls'[c].iterations[x] > 0
      PROVE  \E r \in Outputs(x)' : rows'[r].iteration = calls'[c].iterations[x]
  BY <1>1, <1>5, OutputsStay DEF Backed
<1>6. ASSUME NEW k \in 1 .. calls'[c].at - 1 PROVE StepDone(Steps[k])'
  <2>1. CASE k \in 1 .. calls[c].at - 1
    BY <1>1, <2>1, DoneStays DEF Backed
  <2>2. CASE k = calls[c].at
    BY <1>1, <2>2, DoneStays DEF Here
  <2> QED
    BY <1>1, <2>1, <2>2
<1> QED
  BY <1>2, <1>3, <1>4, <1>5, <1>6 DEF Backed

(* So does leaving a loop, which is done when the call leaves it.          *)
LEMMA LeaveKeeps ==
  ASSUME PipelineInv, NEW c \in Calls, LeaveLoop(c)
  PROVE  PipelineInv'
<1> DEFINE call == calls[c]
           new == [call EXCEPT !.at = call.at + 1]
<1>1. /\ call \in Call /\ call.at + 1 \in 1 .. Len(Steps) + 1 /\ AtStep(c) /\ StepDone(Here(c))
      /\ call.pc = "ready" /\ rows' = rows
  BY LeftLoopIsDone, RowsTyped, CallTyped, StepsFacts DEF LeaveLoop, AtStep
<1>2. calls' = [calls EXCEPT ![c] = new]
  BY DEF LeaveLoop
<1>3. call = calls[c]
  OBVIOUS
<1> HIDE DEF call
<1>4. /\ new \in Call /\ new.pc = "ready" /\ new.at = call.at + 1
      /\ new.iterations = call.iterations /\ new.scores = call.scores /\ new.cache = call.cache
  BY <1>1 DEF Call
<1> HIDE DEF new
<1>5. calls'[c] = new /\ Grown
  BY <1>1, <1>2, RowsTyped, GrownSame DEF Quiet
<1>6. Consistent(c)' /\ Backed(c)'
  BY <1>1, <1>3, <1>4, <1>5, MovesOn
<1>7. new.pc # "asking"
  BY <1>4
<1> QED
  BY <1>2, <1>4, <1>6, <1>7, RowsTyped, RunTyped, RestingStep DEF LeaveLoop

(* What skipping a loop does: a row and an entry of the checklist, or it   *)
(* meets an older row.                                                     *)
LEMMA SkipIs ==
  ASSUME PipelineInv, NEW c \in Calls, SkipLoop(c), Free(Here(c), 1, 1)
  PROVE  LET n == Len(rows) + 1 IN
         /\ Quiet /\ RowsAreNumbered' /\ StepDone(Here(c))
         /\ DOMAIN rows' = DOMAIN rows \cup {n} /\ n \notin DOMAIN rows
         /\ \A r \in DOMAIN rows : rows'[r] = rows[r]
         /\ rows'[n].step = Here(c) /\ rows'[n].iteration = 1 /\ rows'[n].attempt = 1
         /\ rows'[n].status = "skipped"
         /\ calls' = [calls EXCEPT ![c] = calls'[c]] /\ calls'[c] \in Call'
         /\ calls'[c].pc = "ready" /\ calls'[c].at = calls[c].at + 1
         /\ calls'[c].iterations = calls[c].iterations /\ calls'[c].scores = calls[c].scores
         /\ calls'[c].cache = calls[c].cache /\ calls'[c].deadline = calls[c].deadline
         /\ calls'[c].checklist = calls[c].checklist \cup {<<Here(c), 1>>}
<1> DEFINE n == Len(rows) + 1
           new == NewRow(Here(c), 1, 1, "skipped")
           old == calls[c]
           call == [old EXCEPT !.checklist = old.checklist \cup {<<Here(c), 1>>}, !.at = old.at + 1]
<1>1. /\ AtStep(c) /\ AtLoop(c) /\ StepDone(Here(c)) /\ old.pc = "ready"
      /\ rows' = Append(rows, new) /\ drafts' = drafts
  BY LeftLoopIsDone DEF SkipLoop, AtStep
<1>2. calls' = [calls EXCEPT ![c] = call]
  BY RowsTyped DEF SkipLoop
<1>3. /\ old \in Call /\ old.at + 1 \in 1 .. Len(Steps) + 1 /\ Here(c) \in Keys
      /\ old.checklist \cup {<<Here(c), 1>>} \subseteq Passes
      /\ Loops[Here(c)].maxIterations \in Nat \ {0}
  <2>1. Here(c) \in Keys /\ old \in Call /\ old.checklist \subseteq Passes /\ old.at + 1 \in 1 .. Len(Steps) + 1
        /\ Loops[Here(c)].maxIterations \in Nat \ {0}
    BY <1>1, RowsTyped, CallTyped, StepsFacts DEF AtStep, AtLoop
  <2>2. <<Here(c), 1>> \in Passes
    BY <2>1 DEF Passes
  <2> QED
    BY <2>1, <2>2
<1>4. /\ new \in StepRow /\ new.step = Here(c) /\ new.iteration = 1 /\ new.attempt = 1
      /\ new.status = "skipped"
  BY <1>3, NewRowTyped
<1> HIDE DEF new
<1>5. /\ DOMAIN rows' = DOMAIN rows \cup {n} /\ n \notin DOMAIN rows /\ Len(rows') = n
      /\ \A r \in DOMAIN rows : rows'[r] = rows[r]
      /\ rows'[n] = new
  BY <1>1, <1>4, RowsTyped, RowsAppended
<1>6. Quiet
  BY <1>1, <1>4, RowsTyped, GrownByOne
<1>7. RowsAreNumbered'
  BY <1>3, <1>4, <1>5, RowsTyped, StepsFacts DEF RowsAreNumbered
<1>8. old \in Call'
  BY <1>1, <1>3, <1>5, RowsTyped, CallGrows
<1>9. old = calls[c]
  OBVIOUS
<1> HIDE DEF old
<1>10. call \in Call'
  BY <1>3, <1>8 DEF Call
<1>11. /\ call.pc = "ready" /\ call.at = old.at + 1
       /\ call.iterations = old.iterations /\ call.scores = old.scores
       /\ call.cache = old.cache /\ call.deadline = old.deadline
       /\ call.checklist = old.checklist \cup {<<Here(c), 1>>}
  BY <1>1, <1>8 DEF Call
<1> HIDE DEF call
<1>12. calls'[c] = call /\ calls' = [calls EXCEPT ![c] = calls'[c]]
  BY <1>2, RowsTyped
<1> QED
  BY <1>1, <1>4, <1>5, <1>6, <1>7, <1>9, <1>10, <1>11, <1>12

(* So does skipping a loop, because its score is high.                     *)
LEMMA SkipKeeps ==
  ASSUME PipelineInv, NEW c \in Calls, SkipLoop(c)
  PROVE  PipelineInv'
<1>1. CASE Free(Here(c), 1, 1)
  <2>1. AtStep(c) /\ calls[c].pc = "ready"
    BY DEF SkipLoop, AtStep
  <2>2. /\ Grown /\ \A r \in DOMAIN rows : rows'[r] = rows[r]
        /\ StepDone(Here(c)) /\ RowsAreNumbered' /\ calls'[c].pc = "ready"
        /\ calls' = [calls EXCEPT ![c] = calls'[c]] /\ calls'[c] \in Call'
        /\ calls'[c].at = calls[c].at + 1
        /\ calls'[c].iterations = calls[c].iterations /\ calls'[c].scores = calls[c].scores
        /\ calls'[c].cache = calls[c].cache
    BY <1>1, SkipIs DEF Quiet
  <2>3. Consistent(c)' /\ Backed(c)'
    BY <2>1, <2>2, MovesOn
  <2>4. /\ run' = run /\ drafts' = drafts /\ clock' = clock /\ late' = late
        /\ started' = started /\ lost' = lost
    BY DEF SkipLoop
  <2>5. GateIsEarned'
    BY <2>2, <2>4, RowsTyped, GateStays
  <2>6. PICK new : new = calls'[c]
    OBVIOUS
  <2>7. new.pc # "asking" /\ Len(drafts) <= Len(drafts')
    BY <2>2, <2>4, <2>6, RowsTyped
  <2> QED
    BY <2>2, <2>3, <2>4, <2>5, <2>6, <2>7, RowsTyped, RunTyped, CallStep
<1>2. CASE ~Free(Here(c), 1, 1)
  BY <1>2, RowsTyped, RunTyped, FreshKeeps DEF SkipLoop
<1> QED
  BY <1>1, <1>2

(* The attempt a call waits for.                                           *)
LEMMA AskedIs ==
  ASSUME PipelineInv, NEW c \in Calls, calls[c].pc = "asking"
  PROVE  /\ Walking(c) /\ calls[c].row \in DOMAIN rows /\ calls[c].at \in 1 .. Len(Steps)
         /\ Asked(c).status = "running" /\ Asked(c).step \in Keys
         /\ Asked(c).step # Here(c) => AtLoop(c) /\ Asked(c).step = Loops[Here(c)].scoreFrom
         /\ Asked(c).iteration \in Nat \ {0} /\ Asked(c).attempt \in Nat \ {0}
<1>1. /\ calls[c].row \in DOMAIN rows /\ Asked(c).status = "running"
      /\ calls[c].at \in 1 .. Len(Steps)
      /\ Asked(c).step # Here(c) => AtLoop(c) /\ Asked(c).step = Loops[Here(c)].scoreFrom
  BY RowsTyped, CallTyped, StepsFacts DEF PipelineInv, Consistent
<1>2. Asked(c).iteration \in Nat \ {0} /\ Asked(c).attempt \in Nat \ {0}
  BY <1>1, RowsTyped, RowTyped DEF Asked
<1>3. Here(c) \in Keys
  BY <1>1, StepsFacts DEF Here
<1>4. Asked(c).step \in Keys
  BY <1>1, <1>3, StepsFacts DEF AtLoop
<1> QED
  BY <1>1, <1>2, <1>4 DEF Walking

(* A call settles its attempt.                                             *)
Settled(c, status) ==
    /\ rows' \in Seq(StepRow) /\ DOMAIN rows' = DOMAIN rows /\ Len(rows') = Len(rows)
    /\ \A r \in DOMAIN rows : r # calls[c].row => rows'[r] = rows[r]
    /\ rows'[calls[c].row].step = Asked(c).step
    /\ rows'[calls[c].row].iteration = Asked(c).iteration
    /\ rows'[calls[c].row].attempt = Asked(c).attempt
    /\ rows'[calls[c].row].status = status

(* What settling writes into the row of the attempt.                       *)
LEMMA SettleIs ==
  ASSUME PipelineInv, NEW c \in Calls, calls[c].pc = "asking",
         NEW status \in {"succeeded", "failed"}, NEW draft \in Draft \cup {NoDraft},
         NEW score \in Scores, Settle(c, status, draft, score)
  PROVE  Settled(c, status) /\ rows'[calls[c].row].score = score
<1>1. calls[c].row \in DOMAIN rows /\ rows \in Seq(StepRow)
  BY AskedIs, RowsTyped
<1> DEFINE k == calls[c].row
           row == rows[k]
           new == [row EXCEPT !.status = status, !.draft = draft, !.score = score]
<1>2. rows' = [rows EXCEPT ![k] = new]
  BY DEF Settle
<1>3. row \in StepRow /\ row = rows[k]
  BY <1>1
<1> HIDE DEF row
<1>4. new \in StepRow
  BY <1>3 DEF StepRow
<1>5. /\ new.step = row.step /\ new.iteration = row.iteration
      /\ new.attempt = row.attempt /\ new.status = status /\ new.score = score
  BY <1>3 DEF StepRow
<1> HIDE DEF new
<1> QED
  BY <1>1, <1>2, <1>3, <1>4, <1>5 DEF Settled, Asked

(* A settled attempt is the only row that changes.                         *)
LEMMA SettledGrows ==
  ASSUME PipelineInv, NEW c \in Calls, calls[c].pc = "asking", NEW status, Settled(c, status)
  PROVE  /\ Grown /\ RowsAreNumbered'
         /\ status # "succeeded" => Quiet
         /\ status = "succeeded" => Succeeded' = Succeeded \cup {calls[c].row}
<1>1. /\ rows \in Seq(StepRow) /\ Len(rows) \in Nat /\ calls[c].row \in DOMAIN rows
      /\ rows[calls[c].row].status = "running" /\ RowsAreNumbered
  BY AskedIs, RowsTyped DEF Asked
<1>2. Grown
  BY <1>1 DEF Settled, Grown, Asked
<1>3. RowsAreNumbered'
  BY <1>1 DEF RowsAreNumbered, Settled, Asked
<1>4. status # "succeeded" => Succeeded' = Succeeded
  BY <1>1 DEF Succeeded, Settled
<1>5. status = "succeeded" => Succeeded' = Succeeded \cup {calls[c].row}
  BY <1>1 DEF Succeeded, Settled
<1> QED
  BY <1>2, <1>3, <1>4, <1>5 DEF Quiet

(* An answer settles the attempt; the call passes, or gives up the run.    *)
LEMMA SucceedIs ==
  ASSUME PipelineInv, NEW c \in Calls, Succeed(c)
  PROVE  LET k == calls[c].row IN
         \E score \in Scores :
            /\ calls[c].pc = "asking" /\ Settled(c, "succeeded") /\ rows'[k].score = score
            /\ calls' = [calls EXCEPT ![c] = calls'[c]] /\ calls'[c] \in Call
            /\ calls'[c].deadline = calls[c].deadline
            /\ calls'[c].checklist =
                  calls[c].checklist \cup {<<Asked(c).step, Asked(c).iteration>>}
            /\ \/ calls'[c].pc = "halting" /\ calls'[c].verdict \in {"failed", "escalated"}
               \/ AfterPass(calls'[c], c, Asked(c).step, Asked(c).iteration, score)
<1> DEFINE r == Asked(c)
           draft == IF r.step \in Drafting THEN <<r.step, r.iteration>> ELSE NoDraft
<1>1. calls[c].pc = "asking"
  BY DEF Succeed
<1>2. /\ r.step \in Keys /\ r.iteration \in Nat \ {0} /\ calls[c].at <= Len(Steps)
      /\ calls[c] \in Call /\ calls[c].usedTokens \in Nat /\ calls[c].checklist \subseteq Passes
  BY <1>1, AskedIs, RowsTyped, CallTyped
<1>3. draft \in Draft \cup {NoDraft}
  BY <1>2 DEF Draft
<1>4. PICK score \in (IF r.step \in Scoring THEN {"low", "high"} ELSE {"none"}), unsure \in BOOLEAN :
        LET passed ==
              [Passed(calls[c], r.step, r.iteration, draft, score) EXCEPT
                  !.usedTokens = calls[c].usedTokens + 1,
                  !.checklist = Listed(c, <<r.step, r.iteration>>, unsure)]
        IN /\ Settle(c, "succeeded", draft, score)
           /\ calls' = [calls EXCEPT ![c] =
                 IF passed.usedTokens > MaxTokens THEN Halting(passed, "failed")
                 ELSE IF unsure THEN Halting(passed, "escalated")
                 ELSE passed]
  BY Zenon DEF Succeed, Asked
<1>5. score \in Scores
  BY DEF Scores
<1>6. Settled(c, "succeeded") /\ rows'[calls[c].row].score = score
  <2>1. "succeeded" \in {"succeeded", "failed"}
    OBVIOUS
  <2> HIDE DEF r, draft
  <2> QED
    BY <1>1, <1>3, <1>4, <1>5, <2>1, SettleIs
<1>7. PICK step \in Keys, iteration \in Nat \ {0} : step = r.step /\ iteration = r.iteration
  BY <1>2
<1>8. PICK first : first = Passed(calls[c], step, iteration, draft, score)
  OBVIOUS
<1>9. /\ first \in Call /\ AfterPass(first, c, step, iteration, score)
      /\ first.checklist = calls[c].checklist /\ first.usedTokens = calls[c].usedTokens
  <2>1. iteration \in Nat
    BY <1>7
  <2> HIDE DEF draft
  <2> QED
    BY <1>2, <1>3, <1>5, <1>8, <2>1, RowsTyped, PassedIs
<1> DEFINE passed == [first EXCEPT !.usedTokens = calls[c].usedTokens + 1,
                                   !.checklist = calls[c].checklist \cup {<<step, iteration>>}]
<1>10. calls' = [calls EXCEPT ![c] =
              IF passed.usedTokens > MaxTokens THEN Halting(passed, "failed")
              ELSE IF unsure THEN Halting(passed, "escalated")
              ELSE passed]
  BY <1>4, <1>7, <1>8 DEF Listed
<1>11. calls[c].checklist \cup {<<step, iteration>>} \subseteq Passes /\ calls[c].usedTokens + 1 \in Nat
  BY <1>2 DEF Passes
<1>12. /\ passed \in Call /\ passed.pc = first.pc /\ passed.at = first.at
       /\ passed.iterations = first.iterations /\ passed.scores = first.scores
       /\ passed.cache = first.cache /\ passed.deadline = first.deadline
       /\ passed.checklist = calls[c].checklist \cup {<<step, iteration>>}
  BY <1>9, <1>11 DEF Call
<1>13. AfterPass(passed, c, step, iteration, score) /\ passed.deadline = calls[c].deadline
  BY <1>9, <1>12 DEF AfterPass
<1> HIDE DEF passed
<1>14. PICK new : new = IF passed.usedTokens > MaxTokens THEN Halting(passed, "failed")
                        ELSE IF unsure THEN Halting(passed, "escalated")
                        ELSE passed
  OBVIOUS
<1>15. calls'[c] = new /\ calls' = [calls EXCEPT ![c] = calls'[c]]
  BY <1>10, <1>14, RowsTyped
<1>16. /\ new \in Call /\ new.deadline = calls[c].deadline
       /\ new.checklist = calls[c].checklist \cup {<<step, iteration>>}
       /\ \/ new.pc = "halting" /\ new.verdict \in {"failed", "escalated"}
          \/ AfterPass(new, c, step, iteration, score)
  <2>1. CASE new = passed
    BY <2>1, <1>12, <1>13
  <2>2. CASE \E verdict \in {"failed", "escalated"} : new = Halting(passed, verdict)
    BY <2>2, <1>12, <1>13, RowsTyped, HaltingIs
  <2> QED
    BY <1>14, <2>1, <2>2
<1> QED
  BY <1>1, <1>5, <1>6, <1>7, <1>15, <1>16

(* A call that settles its attempt.                                        *)
LEMMA SettledStep ==
  ASSUME PipelineInv, NEW c \in Calls, calls[c].pc = "asking",
         NEW status \in {"succeeded", "failed"}, Settled(c, status),
         NEW new \in Call, calls' = [calls EXCEPT ![c] = new], new.pc # "asking",
         Consistent(c)', Backed(c)',
         UNCHANGED <<run, drafts, clock, late, started, lost>>
  PROVE  PipelineInv'
<1>1. Grown /\ RowsAreNumbered'
  BY SettledGrows
<1>2. \A r \in DOMAIN rows : (calls[c].pc = "asking" /\ r = calls[c].row) \/ rows'[r] = rows[r]
  BY DEF Settled
<1>3. new \in Call' /\ Len(drafts) <= Len(drafts')
  <2>1. /\ Len(rows) <= Len(rows') /\ Len(rows') \in Nat /\ Len(drafts) <= Len(drafts')
        /\ Len(drafts') \in Nat
    BY RowsTyped DEF Settled
  <2> QED
    BY <2>1, RowsTyped, CallGrows
<1>4. GateIsEarned'
  BY <1>1, RowsTyped, GateStays
<1> QED
  BY <1>1, <1>2, <1>3, <1>4, RowsTyped, RunTyped, CallStep

(* An answer keeps the invariant.                                          *)
LEMMA SucceedKeeps ==
  ASSUME PipelineInv, NEW c \in Calls, Succeed(c)
  PROVE  PipelineInv'
<1> DEFINE k == calls[c].row
<1>1. PICK score \in Scores :
        /\ calls[c].pc = "asking" /\ Settled(c, "succeeded") /\ rows'[k].score = score
        /\ calls' = [calls EXCEPT ![c] = calls'[c]] /\ calls'[c] \in Call
        /\ \/ calls'[c].pc = "halting" /\ calls'[c].verdict \in {"failed", "escalated"}
           \/ AfterPass(calls'[c], c, Asked(c).step, Asked(c).iteration, score)
  BY SucceedIs
<1>2. Consistent(c)' /\ Backed(c)' /\ calls'[c].pc # "asking"
  <2>1. CASE calls'[c].pc = "halting" /\ calls'[c].verdict \in {"failed", "escalated"}
    BY <2>1, NotWalking DEF Walking, Consistent
  <2>2. CASE AfterPass(calls'[c], c, Asked(c).step, Asked(c).iteration, score)
    <3>1. /\ Walking(c) /\ calls[c].at <= Len(Steps) /\ Asked(c).step \in Keys
          /\ Asked(c).iteration \in Nat /\ (Asked(c).step # Here(c) => AtLoop(c))
          /\ k \in DOMAIN rows' /\ Grown
      BY <1>1, AskedIs, SettledGrows DEF Settled
    <3>2. /\ rows'[k].status = "succeeded" /\ rows'[k].step = Asked(c).step
          /\ rows'[k].iteration = Asked(c).iteration
      BY <1>1 DEF Settled
    <3>3. PICK s, i : s = Asked(c).step /\ i = Asked(c).iteration
      OBVIOUS
    <3> QED
      BY <1>1, <2>2, <3>1, <3>2, <3>3, BackedAfterPass DEF AfterPass
  <2> QED
    BY <1>1, <2>1, <2>2
<1>3. PICK new : new = calls'[c]
  OBVIOUS
<1>4. UNCHANGED <<run, drafts, clock, late, started, lost>> /\ "succeeded" \in {"succeeded", "failed"}
  BY DEF Succeed
<1> QED
  BY <1>1, <1>2, <1>3, <1>4, SettledStep

(* An attempt that fails ends the call's turn at the run, or is repeated.  *)
LEMMA HaltsIs ==
  ASSUME PipelineInv, NEW c \in Calls, NEW verdict \in {"failed", "escalated"},
         calls' = [calls EXCEPT ![c] = Halting([calls[c] EXCEPT !.usedTokens = @ + 1], verdict)]
  PROVE  /\ calls' = [calls EXCEPT ![c] = calls'[c]] /\ calls'[c] \in Call
         /\ calls'[c].pc = "halting" /\ calls'[c].verdict = verdict
         /\ calls'[c].deadline = calls[c].deadline /\ calls'[c].checklist = calls[c].checklist
<1> DEFINE call == calls[c]
           used == call.usedTokens + 1
           spent == [call EXCEPT !.usedTokens = used]
<1>1. call \in Call /\ used \in Nat /\ calls \in [Calls -> Call]
  BY RowsTyped, CallTyped
<1>2. calls' = [calls EXCEPT ![c] = Halting(spent, verdict)] /\ call = calls[c]
  OBVIOUS
<1> HIDE DEF call, used
<1>3. spent \in Call /\ spent.deadline = call.deadline /\ spent.checklist = call.checklist
  BY <1>1 DEF Call
<1> HIDE DEF spent
<1>4. calls'[c] = Halting(spent, verdict) /\ calls' = [calls EXCEPT ![c] = calls'[c]]
  BY <1>1, <1>2
<1> QED
  BY <1>2, <1>3, <1>4, RowsTyped, HaltingIs

Retry(c) ==
    /\ Free(Asked(c).step, Asked(c).iteration, Asked(c).attempt + 1)
    /\ rows' = Append([rows EXCEPT ![calls[c].row].status = "failed"],
                      NewRow(Asked(c).step, Asked(c).iteration, Asked(c).attempt + 1, "running"))
    /\ calls' = [calls EXCEPT ![c] = [calls[c] EXCEPT !.usedTokens = @ + 1,
                                                      !.row = Len(rows'), !.tries = @ + 1]]
    /\ calls[c].tries # StepAttempts

(* A failed attempt ends the run, is repeated, or meets the unique index.  *)
LEMMA FailOutcomes ==
  ASSUME PipelineInv, NEW c \in Calls, Fail(c)
  PROVE  /\ calls[c].pc = "asking"
         /\ UNCHANGED <<run, drafts, clock, late, started, lost>>
         /\ \/ /\ Settled(c, "failed")
               /\ calls' = [calls EXCEPT ![c] =
                     Halting([calls[c] EXCEPT !.usedTokens = @ + 1], "failed")]
            \/ Retry(c)
            \/ /\ Settled(c, "failed") /\ calls' = [calls EXCEPT ![c] = Fresh]
               /\ ~Free(Asked(c).step, Asked(c).iteration, Asked(c).attempt + 1)
<1>1. calls[c].pc = "asking" /\ UNCHANGED <<run, drafts, clock, late, started, lost>>
  BY DEF Fail
<1> DEFINE call == calls[c]
           spent == [call EXCEPT !.usedTokens = call.usedTokens + 1]
<1>2. call \in Call /\ call = calls[c]
  BY RowsTyped, CallTyped
<1>3. /\ spent.tries = calls[c].tries
      /\ [spent EXCEPT !.row = Len(rows'), !.tries = spent.tries + 1] =
            [call EXCEPT !.usedTokens = call.usedTokens + 1, !.row = Len(rows'),
                         !.tries = call.tries + 1]
  <2> HIDE DEF call
  <2> QED
    BY <1>2 DEF Call
<1>4. NoDraft \in Draft \cup {NoDraft} /\ "none" \in Scores /\ "failed" \in {"succeeded", "failed"}
  BY DEF Scores
<1>5. \/ /\ Settle(c, "failed", NoDraft, "none")
         /\ calls' = [calls EXCEPT ![c] = Halting(spent, "failed")]
      \/ /\ spent.tries # StepAttempts
         /\ Free(Asked(c).step, Asked(c).iteration, Asked(c).attempt + 1)
         /\ rows' = Append([rows EXCEPT ![calls[c].row].status = "failed"],
                       NewRow(Asked(c).step, Asked(c).iteration, Asked(c).attempt + 1, "running"))
         /\ calls' = [calls EXCEPT ![c] =
                        [spent EXCEPT !.row = Len(rows'), !.tries = spent.tries + 1]]
      \/ /\ ~Free(Asked(c).step, Asked(c).iteration, Asked(c).attempt + 1)
         /\ Settle(c, "failed", NoDraft, "none")
         /\ calls' = [calls EXCEPT ![c] = Fresh]
  BY Zenon DEF Fail, Asked
<1>6. CASE /\ Settle(c, "failed", NoDraft, "none")
           /\ calls' = [calls EXCEPT ![c] = Halting(spent, "failed")]
  BY <1>1, <1>4, <1>6, SettleIs
<1>7. CASE /\ spent.tries # StepAttempts
           /\ Free(Asked(c).step, Asked(c).iteration, Asked(c).attempt + 1)
           /\ rows' = Append([rows EXCEPT ![calls[c].row].status = "failed"],
                         NewRow(Asked(c).step, Asked(c).iteration, Asked(c).attempt + 1, "running"))
           /\ calls' = [calls EXCEPT ![c] =
                          [spent EXCEPT !.row = Len(rows'), !.tries = spent.tries + 1]]
  BY <1>1, <1>3, <1>7 DEF Retry
<1>8. CASE /\ ~Free(Asked(c).step, Asked(c).iteration, Asked(c).attempt + 1)
           /\ Settle(c, "failed", NoDraft, "none")
           /\ calls' = [calls EXCEPT ![c] = Fresh]
  BY <1>1, <1>4, <1>8, SettleIs
<1> QED
  BY <1>5, <1>6, <1>7, <1>8

(* A failed attempt followed by the next one.                              *)
LEMMA RetryIs ==
  ASSUME PipelineInv, NEW c \in Calls, Retry(c), calls[c].pc = "asking", drafts' = drafts
  PROVE  LET n == Len(rows) + 1 IN
         /\ Quiet /\ RowsAreNumbered'
         /\ DOMAIN rows' = DOMAIN rows \cup {n} /\ n \notin DOMAIN rows /\ Len(rows') = n
         /\ \A r \in DOMAIN rows : r # calls[c].row => rows'[r] = rows[r]
         /\ rows'[calls[c].row].status = "failed"
         /\ rows'[n].step = Asked(c).step /\ rows'[n].iteration = Asked(c).iteration
         /\ rows'[n].attempt = Asked(c).attempt + 1 /\ rows'[n].status = "running"
         /\ calls'[c] \in Call' /\ calls' = [calls EXCEPT ![c] = calls'[c]]
         /\ calls'[c].pc = "asking" /\ calls'[c].row = n
         /\ Remembers(calls'[c], c) /\ calls'[c].checklist = calls[c].checklist
<1> DEFINE n == Len(rows) + 1
           k == calls[c].row
           mid == [rows EXCEPT ![k].status = "failed"]
           new == NewRow(Asked(c).step, Asked(c).iteration, Asked(c).attempt + 1, "running")
<1>1. /\ PipelineTypeOK /\ rows \in Seq(StepRow) /\ Len(rows) \in Nat /\ k \in DOMAIN rows
      /\ RowsAreNumbered /\ calls \in [Calls -> Call] /\ calls[c] \in Call
      /\ calls[c].usedTokens \in Nat /\ calls[c].tries \in 0 .. StepAttempts
      /\ Asked(c).step \in Keys /\ Asked(c).iteration \in Nat \ {0} /\ Asked(c).attempt \in Nat \ {0}
      /\ Asked(c).status = "running" /\ Asked(c) = rows[k]
  BY RowsTyped, CallTyped, AskedIs DEF Asked
<1>2. /\ mid \in Seq(StepRow) /\ DOMAIN mid = DOMAIN rows /\ Len(mid) = Len(rows)
      /\ \A r \in DOMAIN rows : r # k => mid[r] = rows[r]
      /\ mid[k].step = rows[k].step /\ mid[k].iteration = rows[k].iteration
      /\ mid[k].attempt = rows[k].attempt /\ mid[k].status = "failed"
  BY <1>1, RowFailed
<1>3. /\ new \in StepRow /\ new.step = Asked(c).step /\ new.iteration = Asked(c).iteration
      /\ new.attempt = Asked(c).attempt + 1 /\ new.status = "running"
  <2>1. /\ Asked(c).step \in Keys \cup {"propose"} /\ Asked(c).attempt + 1 \in Nat \ {0}
        /\ "running" \in {"running", "succeeded", "skipped"}
    BY <1>1
  <2>2. PICK s, i, a : s = Asked(c).step /\ i = Asked(c).iteration /\ a = Asked(c).attempt + 1
    OBVIOUS
  <2>3. /\ s \in Keys \cup {"propose"} /\ i \in Nat \ {0} /\ a \in Nat \ {0}
    BY <1>1, <2>1, <2>2, Zenon
  <2>4. PICK row : row = NewRow(s, i, a, "running")
    OBVIOUS
  <2>5. /\ row \in StepRow /\ row.step = s /\ row.iteration = i /\ row.attempt = a
        /\ row.status = "running"
    BY <2>1, <2>3, <2>4, NewRowTyped
  <2> QED
    BY <2>2, <2>4, <2>5, Zenon
<1>4. rows' = Append(mid, new)
  BY DEF Retry
<1> HIDE DEF mid, new
<1>5. /\ rows' \in Seq(StepRow) /\ DOMAIN rows' = DOMAIN rows \cup {n} /\ n \notin DOMAIN rows
      /\ Len(rows') = n /\ \A r \in DOMAIN rows : rows'[r] = mid[r]
      /\ rows'[n] = new
  BY <1>1, <1>2, <1>3, <1>4
<1>6. Grown
  BY <1>1, <1>2, <1>5 DEF Grown
<1>7. Succeeded' = Succeeded
  BY <1>1, <1>2, <1>3, <1>5 DEF Succeeded
<1>8. RowsAreNumbered'
  <2>1. /\ Asked(c).iteration <= n /\ Asked(c).attempt + 1 <= n
        /\ Asked(c).step \in DOMAIN Loops => Asked(c).iteration <= Loops[Asked(c).step].maxIterations
        /\ Asked(c).step # "propose"
    BY <1>1, StepsFacts DEF RowsAreNumbered
  <2>2. \A r \in DOMAIN rows :
          /\ rows'[r].iteration <= r /\ rows'[r].attempt <= r
          /\ rows'[r].step \in DOMAIN Loops =>
                rows'[r].iteration <= Loops[rows'[r].step].maxIterations
          /\ rows'[r].step = "propose" => rows'[r].iteration = 1 /\ rows'[r].attempt = 1
    BY <1>1, <1>6 DEF Grown, RowsAreNumbered
  <2>3. /\ rows'[n].iteration <= n /\ rows'[n].attempt <= n
        /\ rows'[n].step \in DOMAIN Loops =>
              rows'[n].iteration <= Loops[rows'[n].step].maxIterations
        /\ rows'[n].step # "propose"
    BY <1>3, <1>5, <2>1
  <2> HIDE DEF n
  <2> QED
    BY <1>5, <2>2, <2>3 DEF RowsAreNumbered
<1> DEFINE old == calls[c]
           call == [old EXCEPT !.pc = "asking", !.row = n, !.tries = old.tries + 1,
                               !.usedTokens = old.usedTokens + 1]
<1>9. calls' = [calls EXCEPT ![c] = call]
  <2>1. calls' = [calls EXCEPT ![c] = [old EXCEPT !.usedTokens = old.usedTokens + 1,
                                                 !.row = n, !.tries = old.tries + 1]]
    BY <1>5 DEF Retry
  <2>2. old \in Call /\ old.pc = "asking"
    BY <1>1
  <2> HIDE DEF old
  <2>3. [old EXCEPT !.usedTokens = old.usedTokens + 1, !.row = n, !.tries = old.tries + 1] = call
    BY <2>2 DEF Call
  <2> QED
    BY <2>1, <2>3
<1>10. PICK p : p = call
  OBVIOUS
<1>14. AsksFor(p, c, n, calls[c].tries + 1, calls[c].usedTokens + 1)
  BY <1>10 DEF AsksFor
<1>15. calls[c].tries # StepAttempts
  BY DEF Retry
<1>11. /\ calls[c].tries + 1 \in 0 .. StepAttempts /\ calls[c].usedTokens + 1 \in Nat
       /\ n \in Nat /\ n <= Len(rows') /\ Len(rows') \in Nat /\ Len(rows) <= Len(rows')
  BY <1>1, <1>5, <1>15, BoundsAssumption
<1> HIDE DEF call, n
<1>12. /\ p \in Call' /\ p.pc = "asking" /\ p.row = n /\ Remembers(p, c)
       /\ p.checklist = calls[c].checklist
  BY <1>1, <1>11, <1>14, AskingIs
<1>13. calls'[c] = p /\ calls' = [calls EXCEPT ![c] = calls'[c]]
  BY <1>1, <1>9, <1>10
<1>16. /\ rows'[k].status = "failed"
       /\ \A r \in DOMAIN rows : r # k => rows'[r] = rows[r]
  BY <1>1, <1>2, <1>5
<1>17. /\ rows'[n].step = Asked(c).step /\ rows'[n].iteration = Asked(c).iteration
       /\ rows'[n].attempt = Asked(c).attempt + 1 /\ rows'[n].status = "running"
  BY <1>3, <1>5
<1> QED
  BY <1>5, <1>6, <1>7, <1>8, <1>12, <1>13, <1>16, <1>17 DEF Quiet, n

(* A failed attempt keeps the invariant.                                   *)
LEMMA FailKeeps ==
  ASSUME PipelineInv, NEW c \in Calls, Fail(c) \/ NeedsHuman(c)
  PROVE  PipelineInv'
<1>1. /\ calls[c].pc = "asking"
      /\ UNCHANGED <<run, drafts, clock, late, started, lost>>
      /\ \/ /\ Settled(c, "failed")
            /\ \E verdict \in {"failed", "escalated"} : calls' = [calls EXCEPT ![c] =
                     Halting([calls[c] EXCEPT !.usedTokens = @ + 1], verdict)]
         \/ Retry(c)
         \/ /\ Settled(c, "failed") /\ calls' = [calls EXCEPT ![c] = Fresh]
  <2>1. CASE Fail(c)
    BY <2>1, FailOutcomes
  <2>2. CASE NeedsHuman(c)
    <3>1. /\ calls[c].pc = "asking" /\ Settle(c, "failed", NoDraft, "none")
          /\ calls' = [calls EXCEPT ![c] =
                 Halting([calls[c] EXCEPT !.usedTokens = @ + 1], "escalated")]
          /\ UNCHANGED <<run, drafts, clock, late, started, lost>>
      BY <2>2, Zenon DEF NeedsHuman
    <3>2. NoDraft \in Draft \cup {NoDraft} /\ "none" \in Scores /\ "failed" \in {"succeeded", "failed"}
      BY DEF Scores
    <3> QED
      BY <3>1, <3>2, SettleIs
  <2> QED
    BY <2>1, <2>2
<1>2. "failed" \in {"succeeded", "failed"}
  OBVIOUS
<1>3. CASE /\ Settled(c, "failed")
           /\ \E verdict \in {"failed", "escalated"} : calls' = [calls EXCEPT ![c] =
                     Halting([calls[c] EXCEPT !.usedTokens = @ + 1], verdict)]
  <2>1. PICK new : new = calls'[c]
    OBVIOUS
  <2>2. /\ calls' = [calls EXCEPT ![c] = new] /\ new \in Call /\ new.pc = "halting"
        /\ new.verdict \in {"failed", "escalated"}
    BY <1>3, <2>1, HaltsIs
  <2>3. Consistent(c)' /\ Backed(c)'
    BY <2>1, <2>2, NotWalking DEF Consistent, Walking
  <2> QED
    BY <1>1, <1>2, <1>3, <2>2, <2>3, SettledStep
<1>4. CASE Settled(c, "failed") /\ calls' = [calls EXCEPT ![c] = Fresh]
  <2>1. Fresh \in Call /\ Fresh.pc = "idle" /\ Fresh.at = 1
    BY RowsTyped, FreshTyped DEF Fresh
  <2>2. calls'[c] = Fresh
    BY <1>4, RowsTyped
  <2>3. Consistent(c)' /\ Backed(c)'
    BY <2>1, <2>2, NotWalking DEF Consistent, Walking
  <2>4. Fresh.pc # "asking"
    BY <2>1
  <2> QED
    BY <1>1, <1>2, <1>4, <2>1, <2>3, <2>4, SettledStep
<1>5. CASE Retry(c)
  <2> DEFINE n == Len(rows) + 1
  <2>1. /\ Grown /\ RowsAreNumbered' /\ n \in DOMAIN rows' /\ n \notin DOMAIN rows
        /\ \A r \in DOMAIN rows : r # calls[c].row => rows'[r] = rows[r]
        /\ rows'[n].step = Asked(c).step /\ rows'[n].status = "running"
        /\ calls'[c] \in Call' /\ calls' = [calls EXCEPT ![c] = calls'[c]]
        /\ calls'[c].pc = "asking" /\ calls'[c].row = n
        /\ calls'[c].at = calls[c].at /\ calls'[c].iterations = calls[c].iterations
        /\ calls'[c].scores = calls[c].scores /\ calls'[c].cache = calls[c].cache
    BY <1>1, <1>5, RetryIs DEF Quiet, Remembers
  <2>2. Consistent(c)'
    BY <1>1, <2>1, AskedIs DEF Consistent, Asked, Here, AtLoop
  <2>3. Backed(c)'
    <3>0. Backed(c) /\ Walking(c) /\ rows \in Seq(StepRow)
      BY <1>1, AskedIs, RowsTyped DEF PipelineInv
    <3>1. calls'[c].cache \subseteq Succeeded'
      BY <2>1, <3>0, GrownKeeps DEF Backed
    <3>2. ASSUME NEW x \in Scoring, calls'[c].scores[x] = "high"
          PROVE  \E r \in Outputs(x)' : rows'[r].score = "high"
      BY <2>1, <3>0, <3>2, OutputsStay DEF Backed
    <3>3. ASSUME NEW x \in Keys, calls'[c].iterations[x] > 0
          PROVE  \E r \in Outputs(x)' : rows'[r].iteration = calls'[c].iterations[x]
      BY <2>1, <3>0, <3>3, OutputsStay DEF Backed
    <3>4. ASSUME NEW k \in 1 .. calls'[c].at - 1 PROVE StepDone(Steps[k])'
      BY <2>1, <3>0, DoneStays DEF Backed
    <3> QED
      BY <3>1, <3>2, <3>3, <3>4 DEF Backed
  <2>4. GateIsEarned' /\ Len(drafts) <= Len(drafts')
    BY <1>1, <2>1, RowsTyped, GateStays
  <2>5. calls'[c].pc = "asking" => calls'[c].row \notin DOMAIN rows
    BY <2>1
  <2>6. \A r \in DOMAIN rows : (calls[c].pc = "asking" /\ r = calls[c].row) \/ rows'[r] = rows[r]
    BY <1>1, <2>1
  <2>7. PICK new : new = calls'[c]
    OBVIOUS
  <2> HIDE DEF n
  <2> QED
    BY <1>1, <2>1, <2>2, <2>3, <2>4, <2>5, <2>6, <2>7, RowsTyped, RunTyped, CallStep
<1> QED
  BY <1>1, <1>3, <1>4, <1>5

(* A call at the end of its steps has seen every step done.                *)
LEMMA EndIsEarned ==
  ASSUME PipelineInv, NEW c \in Calls, Walking(c), calls[c].at = Len(Steps) + 1, NEW s \in Keys
  PROVE  StepDone(s)
<1>1. PICK k \in DOMAIN Steps : s = Steps[k]
  BY DEF Keys
<1>2. k \in 1 .. calls[c].at - 1
  BY <1>1, StepsFacts
<1> QED
  BY <1>1, <1>2 DEF PipelineInv, Backed

(* A call has no draft to propose, or submits one, or pretends to.         *)
LEMMA ProposeOutcomes ==
  ASSUME PipelineInv, NEW c \in Calls, Propose(c)
  PROVE  /\ calls[c].pc = "ready" /\ calls[c].at = Len(Steps) + 1 /\ rows' = rows
         /\ UNCHANGED <<run, clock, late, started, lost>>
         /\ \/ drafts' = drafts /\ calls' = [calls EXCEPT ![c] = Halting(calls[c], "failed")]
            \/ /\ calls' = [calls EXCEPT ![c] = calls'[c]] /\ calls'[c] \in Call'
               /\ calls'[c].pc = "proposed" /\ Remembers(calls'[c], c)
               /\ calls'[c].checklist = calls[c].checklist
               /\ drafts' \in Seq([content : Draft, state : {"pending_review", "approved"}])
               /\ Len(drafts') \in {Len(drafts), Len(drafts) + 1}
<1>1. /\ calls[c].pc = "ready" /\ calls[c].at = Len(Steps) + 1 /\ rows' = rows
      /\ UNCHANGED <<run, clock, late, started, lost>>
  BY DEF Propose
<1>2. CASE calls[c].latestDraft = NoDraft
  BY <1>1, <1>2 DEF Propose
<1>3. CASE calls[c].latestDraft # NoDraft
  <2> DEFINE old == calls[c]
             draft == IF run.mode = "live" THEN Len(drafts) + 1 ELSE 0
             new == [old EXCEPT !.pc = "proposed", !.draft = draft]
             item == [content |-> calls[c].latestDraft, state |-> "pending_review"]
  <2>1. /\ calls' = [calls EXCEPT ![c] = new]
        /\ drafts' = IF run.mode = "live" THEN Append(drafts, item) ELSE drafts
    BY <1>3, RowsTyped DEF Propose
  <2>2. item \in [content : Draft, state : {"pending_review", "approved"}]
    BY <1>3, RowsTyped, CallTyped
  <2>3. /\ drafts' \in Seq([content : Draft, state : {"pending_review", "approved"}])
        /\ Len(drafts') = IF run.mode = "live" THEN Len(drafts) + 1 ELSE Len(drafts)
    <3>1. drafts \in Seq([content : Draft, state : {"pending_review", "approved"}])
      BY RowsTyped
    <3> HIDE DEF item
    <3>2. CASE run.mode = "live"
      <4>1. drafts' = Append(drafts, item)
        BY <2>1, <3>2
      <4> QED
        BY <2>2, <3>1, <3>2, <4>1
    <3>3. CASE run.mode # "live"
      BY <2>1, <3>1, <3>3
    <3> QED
      BY <3>2, <3>3
  <2>4. Len(drafts) <= Len(drafts') /\ Len(drafts') \in Nat /\ draft \in 0 .. Len(drafts')
    BY <2>3, RowsTyped
  <2>5. old \in Call' /\ old = calls[c]
    BY <1>1, <2>4, RowsTyped, CallTyped, CallGrows
  <2> HIDE DEF old, draft
  <2>6. new \in Call'
    BY <2>4, <2>5 DEF Call
  <2>7. /\ new.pc = "proposed" /\ new.at = old.at /\ new.iterations = old.iterations
        /\ new.scores = old.scores /\ new.cache = old.cache
        /\ new.deadline = old.deadline /\ new.checklist = old.checklist
    BY <2>5 DEF Call
  <2> HIDE DEF new
  <2>8. calls'[c] = new /\ calls' = [calls EXCEPT ![c] = calls'[c]]
    BY <2>1, RowsTyped
  <2> QED
    BY <1>1, <2>3, <2>5, <2>6, <2>7, <2>8 DEF Remembers
<1> QED
  BY <1>2, <1>3

(* A call that submits its draft has been through every step.              *)
LEMMA ProposeKeeps ==
  ASSUME PipelineInv, NEW c \in Calls, Propose(c)
  PROVE  PipelineInv'
<1>1. /\ calls[c].pc = "ready" /\ calls[c].at = Len(Steps) + 1 /\ rows' = rows /\ Walking(c)
      /\ UNCHANGED <<run, clock, late, started, lost>>
  BY ProposeOutcomes DEF Walking
<1>2. CASE drafts' = drafts /\ calls' = [calls EXCEPT ![c] = Halting(calls[c], "failed")]
  <2>1. PICK new : new = Halting(calls[c], "failed")
    OBVIOUS
  <2>2. new \in Call /\ new.pc = "halting" /\ new.verdict = "failed" /\ new.pc # "asking"
    BY <2>1, RowsTyped, CallTyped, HaltingIs
  <2>3. calls' = [calls EXCEPT ![c] = new] /\ calls'[c] = new
    BY <1>2, <2>1, RowsTyped
  <2>4. Consistent(c)' /\ Backed(c)'
    BY <2>2, <2>3, NotWalking DEF Consistent, Walking
  <2> QED
    BY <1>1, <1>2, <2>2, <2>3, <2>4, RowsTyped, RunTyped, RestingStep
<1>3. CASE /\ calls' = [calls EXCEPT ![c] = calls'[c]] /\ calls'[c] \in Call'
           /\ calls'[c].pc = "proposed" /\ Remembers(calls'[c], c)
           /\ drafts' \in Seq([content : Draft, state : {"pending_review", "approved"}])
           /\ Len(drafts') \in {Len(drafts), Len(drafts) + 1}
  <2>1. Grown /\ Quiet /\ Backed(c)
    BY <1>1, RowsTyped, GrownSame DEF Quiet, PipelineInv
  <2>2. Consistent(c)'
    BY <1>1, <1>3 DEF Consistent, Remembers
  <2>3. Backed(c)'
    <3>1. calls'[c].cache \subseteq Succeeded'
      BY <1>1, <1>3, <2>1 DEF Backed, Quiet, Remembers
    <3>2. ASSUME NEW x \in Scoring, calls'[c].scores[x] = "high"
          PROVE  \E r \in Outputs(x)' : rows'[r].score = "high"
      BY <1>1, <1>3, <2>1, <3>2, RowsTyped, OutputsStay DEF Backed, Remembers
    <3>3. ASSUME NEW x \in Keys, calls'[c].iterations[x] > 0
          PROVE  \E r \in Outputs(x)' : rows'[r].iteration = calls'[c].iterations[x]
      BY <1>1, <1>3, <2>1, <3>3, RowsTyped, OutputsStay DEF Backed, Remembers
    <3>4. ASSUME NEW k \in 1 .. calls'[c].at - 1 PROVE StepDone(Steps[k])'
      BY <1>1, <1>3, <2>1, RowsTyped, DoneStays DEF Backed, Remembers
    <3> QED
      BY <3>1, <3>2, <3>3, <3>4 DEF Backed
  <2>4. GateIsEarned'
    <3>1. \A s \in Keys : StepDone(s)'
      BY <1>1, <2>1, RowsTyped, EndIsEarned, DoneStays
    <3> QED
      BY <3>1 DEF GateIsEarned
  <2>5. RowsAreNumbered' /\ \A r \in DOMAIN rows : rows'[r] = rows[r]
    BY <1>1, RowsTyped DEF RowsAreNumbered
  <2>6. PICK new : new = calls'[c]
    OBVIOUS
  <2>7. new.pc # "asking" /\ Len(drafts) <= Len(drafts')
    BY <1>3, <2>6, RowsTyped
  <2> QED
    BY <1>1, <1>3, <2>1, <2>2, <2>3, <2>4, <2>5, <2>6, <2>7, RowsTyped, RunTyped, CallStep
<1> QED
  BY <1>2, <1>3, ProposeOutcomes

(* A proposal is recorded in a row of its own.                             *)
LEMMA RecordIs ==
  ASSUME PipelineInv, NEW c \in Calls, RecordProposal(c), Free("propose", 1, 1)
  PROVE  LET n == Len(rows) + 1 IN
         /\ calls[c].pc = "proposed" /\ Grown /\ RowsAreNumbered'
         /\ DOMAIN rows' = DOMAIN rows \cup {n} /\ n \notin DOMAIN rows
         /\ \A r \in DOMAIN rows : rows'[r] = rows[r]
         /\ rows'[n].step = "propose" /\ rows'[n].iteration = 1 /\ rows'[n].attempt = 1
         /\ rows'[n].status = "succeeded"
         /\ calls' = [calls EXCEPT ![c] = calls'[c]] /\ calls'[c] \in Call'
         /\ calls'[c].pc = "recorded" /\ calls'[c].verdict = "succeeded" /\ Remembers(calls'[c], c)
         /\ calls'[c].checklist = calls[c].checklist \cup {<<"propose", 1>>}
         /\ UNCHANGED <<run, drafts, clock, late, started, lost>>
<1> DEFINE n == Len(rows) + 1
           base == NewRow("propose", 1, 1, "succeeded")
           new == [base EXCEPT !.draft = calls[c].latestDraft]
           old == calls[c]
           list == old.checklist \cup {<<"propose", 1>>}
           call == [old EXCEPT !.pc = "recorded", !.verdict = "succeeded", !.checklist = list]
<1>1. /\ calls[c].pc = "proposed" /\ rows' = Append(rows, new)
      /\ UNCHANGED <<run, drafts, clock, late, started, lost>>
  BY DEF RecordProposal
<1>2. calls' = [calls EXCEPT ![c] = call]
  BY RowsTyped DEF RecordProposal
<1>3. calls[c].latestDraft \in Draft \cup {NoDraft} /\ list \subseteq Passes
  BY RowsTyped, CallTyped DEF Passes
<1>4. /\ base \in StepRow /\ base.step = "propose" /\ base.iteration = 1 /\ base.attempt = 1
      /\ base.status = "succeeded"
  BY NewRowTyped
<1> HIDE DEF base
<1>5. /\ new \in StepRow /\ new.step = "propose" /\ new.iteration = 1 /\ new.attempt = 1
      /\ new.status = "succeeded"
  BY <1>3, <1>4 DEF StepRow
<1> HIDE DEF new
<1>6. /\ DOMAIN rows' = DOMAIN rows \cup {n} /\ n \notin DOMAIN rows /\ Len(rows') = n
      /\ \A r \in DOMAIN rows : rows'[r] = rows[r]
      /\ rows'[n] = new
  BY <1>1, <1>5, RowsTyped, RowsAppended
<1>7. Grown
  BY <1>1, <1>5, RowsTyped, GrownByOne
<1>8. RowsAreNumbered'
  BY <1>5, <1>6, RowsTyped, StepsFacts DEF RowsAreNumbered
<1>9. old \in Call' /\ old = calls[c]
  BY <1>1, <1>6, RowsTyped, CallTyped, CallGrows
<1> HIDE DEF old, list
<1>10. call \in Call'
  BY <1>3, <1>9 DEF Call
<1>11. /\ call.pc = "recorded" /\ call.verdict = "succeeded" /\ call.checklist = list
       /\ call.at = old.at /\ call.iterations = old.iterations
       /\ call.scores = old.scores /\ call.cache = old.cache /\ call.deadline = old.deadline
  BY <1>9 DEF Call
<1> HIDE DEF call
<1>12. calls'[c] = call /\ calls' = [calls EXCEPT ![c] = calls'[c]]
  BY <1>2, RowsTyped
<1>13. Remembers(calls'[c], c)
  BY <1>9, <1>11, <1>12 DEF Remembers
<1> QED
  BY <1>1, <1>5, <1>6, <1>7, <1>8, <1>9, <1>10, <1>11, <1>12, <1>13 DEF list

(* So has the call that says so in a row.                                  *)
LEMMA RecordKeeps ==
  ASSUME PipelineInv, NEW c \in Calls, RecordProposal(c)
  PROVE  PipelineInv'
<1>1. CASE Free("propose", 1, 1)
  <2>1. /\ calls[c].pc = "proposed" /\ Grown /\ RowsAreNumbered'
        /\ \A r \in DOMAIN rows : rows'[r] = rows[r]
        /\ calls' = [calls EXCEPT ![c] = calls'[c]] /\ calls'[c] \in Call'
        /\ calls'[c].pc = "recorded" /\ calls'[c].verdict = "succeeded" /\ Remembers(calls'[c], c)
        /\ UNCHANGED <<run, drafts, clock, late, started, lost>>
    BY <1>1, RecordIs
  <2>2. Backed(c) /\ Walking(c) /\ calls[c].at = Len(Steps) + 1
    BY <2>1 DEF PipelineInv, Consistent, Walking
  <2>3. Consistent(c)'
    BY <2>1, <2>2 DEF Consistent, Remembers
  <2>4. Backed(c)'
    <3>1. calls'[c].cache \subseteq Succeeded'
      BY <2>1, <2>2, RowsTyped, GrownKeeps DEF Backed, Remembers
    <3>2. ASSUME NEW x \in Scoring, calls'[c].scores[x] = "high"
          PROVE  \E r \in Outputs(x)' : rows'[r].score = "high"
      BY <2>1, <2>2, <3>2, RowsTyped, OutputsStay DEF Backed, Remembers
    <3>3. ASSUME NEW x \in Keys, calls'[c].iterations[x] > 0
          PROVE  \E r \in Outputs(x)' : rows'[r].iteration = calls'[c].iterations[x]
      BY <2>1, <2>2, <3>3, RowsTyped, OutputsStay DEF Backed, Remembers
    <3>4. ASSUME NEW k \in 1 .. calls'[c].at - 1 PROVE StepDone(Steps[k])'
      BY <2>1, <2>2, RowsTyped, DoneStays DEF Backed, Remembers
    <3> QED
      BY <3>1, <3>2, <3>3, <3>4 DEF Backed
  <2>5. GateIsEarned'
    BY <2>1, RowsTyped, GateStays
  <2>6. PICK new : new = calls'[c]
    OBVIOUS
  <2>7. new.pc # "asking" /\ Len(drafts) <= Len(drafts')
    BY <2>1, <2>6, RowsTyped
  <2> QED
    BY <2>1, <2>3, <2>4, <2>5, <2>6, <2>7, RowsTyped, RunTyped, CallStep
<1>2. CASE ~Free("propose", 1, 1)
  BY <1>2, RowsTyped, RunTyped, FreshKeeps DEF RecordProposal
<1> QED
  BY <1>1, <1>2

(* The call settles the run and is over, but for the approval of a draft.  *)
LEMMA FinishIs ==
  ASSUME PipelineInv, NEW c \in Calls, Finish(c)
  PROVE  /\ calls[c].pc \in {"recorded", "halting"}
         /\ run' \in PipelineRun /\ run'.leaseOwner = NoCall
         /\ run'.status = calls[c].verdict /\ run'.checklist = calls[c].checklist
         /\ run'.status \in {"succeeded", "failed", "escalated"}
         /\ run'.status = "succeeded" <=> calls[c].pc = "recorded"
         /\ calls' = [calls EXCEPT ![c] = calls'[c]] /\ calls'[c] \in Call
         /\ calls'[c].pc \in {"idle", "approving"}
         /\ calls'[c].pc = "idle" => calls'[c].at = 1
         /\ UNCHANGED <<rows, drafts, clock, late, started, lost>>
<1> DEFINE old == run
           call == calls[c]
           draft == IF calls[c].pc = "recorded" THEN calls[c].draft ELSE run.draft
           status == calls[c].verdict
           list == calls[c].checklist
           new == [old EXCEPT !.status = status, !.checklist = list, !.leaseOwner = NoCall,
                              !.leaseExpiresAt = 0, !.draft = draft]
           submitted == calls[c].draft
           waiting == [Fresh EXCEPT !.pc = "approving", !.draft = submitted]
<1>1. /\ calls[c].pc \in {"recorded", "halting"}
      /\ UNCHANGED <<rows, drafts, clock, late, started, lost>>
  BY DEF Finish
<1>2. run' = new
  BY DEF Finish
<1>3. calls' = [calls EXCEPT ![c] = Fresh] \/ calls' = [calls EXCEPT ![c] = waiting]
  BY DEF Finish
<1>4. /\ status \in {"succeeded", "failed", "escalated"}
      /\ status = "succeeded" <=> calls[c].pc = "recorded"
  BY <1>1 DEF PipelineInv, Consistent
<1>5. /\ run \in PipelineRun /\ old \in PipelineRun /\ list \subseteq Passes /\ draft \in Nat
      /\ submitted \in 0 .. Len(drafts)
  <2>1. run.draft \in Nat
    BY RowsTyped, RunTyped DEF PipelineRun
  <2> QED
    BY <2>1, RowsTyped, RunTyped, CallTyped
<1>6. Fresh \in Call /\ Fresh.pc = "idle" /\ Fresh.at = 1
  BY RowsTyped, FreshTyped DEF Fresh
<1> HIDE DEF old, draft, status, list, submitted
<1>7. new \in PipelineRun
  BY <1>4, <1>5 DEF PipelineRun, Terminal
<1>8. new.status = status /\ new.checklist = list /\ new.leaseOwner = NoCall
  BY <1>5 DEF PipelineRun
<1>9. waiting \in Call /\ waiting.pc = "approving"
  BY <1>5, <1>6 DEF Call
<1> HIDE DEF new, waiting
<1>10. /\ calls' = [calls EXCEPT ![c] = calls'[c]] /\ calls'[c] \in Call
       /\ calls'[c].pc \in {"idle", "approving"}
       /\ calls'[c].pc = "idle" => calls'[c].at = 1
  <2>1. calls \in [Calls -> Call]
    BY RowsTyped
  <2> QED
    BY <1>3, <1>6, <1>9, <2>1
<1> QED
  BY <1>1, <1>2, <1>4, <1>7, <1>8, <1>10 DEF status, list

(* Settling the run keeps the invariant.                                   *)
LEMMA FinishKeeps ==
  ASSUME PipelineInv, NEW c \in Calls, Finish(c)
  PROVE  PipelineInv'
<1>1. PICK new : new = calls'[c]
  OBVIOUS
<1>2. /\ calls' = [calls EXCEPT ![c] = new] /\ new \in Call /\ new.pc # "asking"
      /\ run' \in PipelineRun /\ (run'.leaseOwner = NoCall) = (run'.status # "running")
      /\ UNCHANGED <<rows, drafts, clock, late, started, lost>>
  BY <1>1, FinishIs
<1>3. Consistent(c)' /\ Backed(c)'
  <2>1. calls'[c].pc \in {"idle", "approving"} /\ (calls'[c].pc = "idle" => calls'[c].at = 1)
    BY FinishIs
  <2> QED
    BY <2>1, NotWalking DEF Consistent, Walking
<1>4. ASSUME run'.status = "succeeded" PROVE \A s \in Keys : StepDone(s)
  <2>1. calls[c].pc = "recorded"
    BY <1>4, FinishIs
  <2>2. Walking(c) /\ calls[c].at = Len(Steps) + 1
    BY <2>1 DEF Walking, PipelineInv, Consistent
  <2> QED
    BY <2>2, EndIsEarned
<1> QED
  BY <1>2, <1>3, <1>4, RowsTyped, RestingStep

(* An approval changes the state of a draft and nothing else.              *)
LEMMA ApproveIs ==
  ASSUME PipelineInv, NEW c \in Calls, AutoApprove(c)
  PROVE  /\ calls[c].pc = "approving" /\ calls' = [calls EXCEPT ![c] = Fresh]
         /\ drafts' \in Seq([content : Draft, state : {"pending_review", "approved"}])
         /\ Len(drafts') = Len(drafts)
         /\ UNCHANGED <<run, rows, clock, late, started, lost>>
<1> DEFINE D == [content : Draft, state : {"pending_review", "approved"}]
           d == calls[c].draft
           item == drafts[d]
           new == [item EXCEPT !.state = "approved"]
<1>1. /\ calls[c].pc = "approving" /\ calls' = [calls EXCEPT ![c] = Fresh]
      /\ UNCHANGED <<run, rows, clock, late, started, lost>>
      /\ drafts' = drafts \/ drafts' = [drafts EXCEPT ![d] = new]
  BY DEF AutoApprove
<1>2. drafts \in Seq(D)
  BY RowsTyped
<1>3. CASE d \in DOMAIN drafts
  <2>1. item \in D
    <3> HIDE DEF D, d
    <3> QED
      BY <1>2, <1>3
  <2> HIDE DEF item
  <2>2. new \in D
    BY <2>1
  <2> HIDE DEF new, D, d
  <2> QED
    BY <1>1, <1>2, <1>3, <2>2 DEF D
<1>4. CASE d \notin DOMAIN drafts
  <2> HIDE DEF D, d, new
  <2>1. [drafts EXCEPT ![d] = new] = drafts
    BY <1>2, <1>4
  <2> QED
    BY <1>1, <1>2, <2>1 DEF D
<1> QED
  BY <1>3, <1>4

(* Approving a draft keeps the invariant.                                  *)
LEMMA ApproveKeeps ==
  ASSUME PipelineInv, NEW c \in Calls, AutoApprove(c)
  PROVE  PipelineInv'
<1>1. /\ calls' = [calls EXCEPT ![c] = Fresh] /\ rows' = rows
      /\ drafts' \in Seq([content : Draft, state : {"pending_review", "approved"}])
      /\ Len(drafts') = Len(drafts)
      /\ UNCHANGED <<run, rows, clock, late, started, lost>>
  BY ApproveIs
<1>2. Fresh \in Call /\ Fresh.pc = "idle" /\ Fresh.at = 1
  BY RowsTyped, FreshTyped DEF Fresh
<1>3. Fresh \in Call' /\ Fresh.pc # "asking"
  BY <1>1, <1>2, RowsTyped, CallGrows
<1>4. calls'[c] = Fresh
  BY <1>1, RowsTyped
<1>5. Consistent(c)' /\ Backed(c)'
  BY <1>2, <1>4, NotWalking DEF Consistent, Walking
<1>6. Grown /\ RowsAreNumbered' /\ Len(drafts) <= Len(drafts')
  BY <1>1, RowsTyped, GrownSame DEF Quiet, RowsAreNumbered
<1>7. GateIsEarned'
  <2> SUFFICES ASSUME drafts' # <<>> \/ run'.status = "succeeded", NEW s \in Keys
               PROVE  StepDone(s)'
    BY DEF GateIsEarned
  <2>1. drafts # <<>> \/ run.status = "succeeded"
    BY <1>1, RowsTyped
  <2>2. StepDone(s)
    BY <2>1, RowsTyped DEF GateIsEarned
  <2> QED
    BY <1>6, <2>2, RowsTyped, DoneStays
<1>8. PICK new : new = Fresh
  OBVIOUS
<1>9. \A r \in DOMAIN rows : (calls[c].pc = "asking" /\ r = calls[c].row) \/ rows'[r] = rows[r]
  BY <1>1
<1> QED
  BY <1>1, <1>3, <1>5, <1>6, <1>7, <1>8, <1>9, RowsTyped, RunTyped, CallStep

(* What happens around the calls keeps the invariant.                      *)
LEMMA OutsideKeeps ==
  ASSUME PipelineInv, Enqueue \/ Cancel \/ TimePasses
  PROVE  PipelineInv'
<1>1. CASE Enqueue
  <2>1. Create("automation") /\ UNCHANGED <<rows, drafts, calls, clock, late, started, lost>>
    BY <1>1 DEF Enqueue
  <2> QED
    BY <2>1, RowsTyped, CreateTypes, EnvironmentStep
<1>2. CASE Cancel
  <2>1. /\ run' \in PipelineRun /\ run'.leaseOwner = NoCall /\ run'.status = "cancelled"
    BY <1>2, RowsTyped, RunTyped DEF Cancel, PipelineRun, Terminal
  <2>2. UNCHANGED <<rows, drafts, calls, clock, late, started, lost>>
    BY <1>2 DEF Cancel
  <2> QED
    BY <2>1, <2>2, RowsTyped, EnvironmentStep
<1>3. CASE TimePasses
  <2>1. clock' = clock + 1 /\ UNCHANGED <<run, rows, drafts, calls, started, lost>>
    BY <1>3 DEF TimePasses
  <2>2. clock' \in Nat /\ late' \in BOOLEAN
    BY <1>3, <2>1, RowsTyped DEF TimePasses
  <2> QED
    BY <2>1, <2>2, RowsTyped, RunTyped, EnvironmentStep
<1> QED
  BY <1>1, <1>2, <1>3

(* The initial state, and every step.                                      *)
LEMMA PipelineInit == Init => PipelineInv
<1> SUFFICES ASSUME Init PROVE PipelineInv
  OBVIOUS
<1> USE DEF Init
<1>1. /\ rows = <<>> /\ drafts = <<>> /\ Len(rows) = 0 /\ Len(drafts) = 0 /\ DOMAIN rows = {}
      /\ rows \in Seq(StepRow)
      /\ drafts \in Seq([content : Draft, state : {"pending_review", "approved"}])
  OBVIOUS
<1>2. Fresh \in Call
  BY <1>1, FreshTyped
<1>3. Fresh.pc = "idle" /\ Fresh.at = 1
  BY DEF Fresh
<1>4. \A c \in Calls : calls[c].pc = "idle" /\ calls[c].at = 1
  BY <1>3
<1>5. run \in PipelineRun
  BY DEF PipelineRun, Passes
<1>6. calls \in [Calls -> Call]
  BY <1>2
<1>7. PipelineTypeOK
  BY <1>1, <1>5, <1>6 DEF PipelineTypeOK
<1>8. \A c \in Calls : Consistent(c) /\ Backed(c)
  BY <1>4 DEF Consistent, Backed, Walking
<1>9. AttemptsAreApart
  BY <1>4 DEF AttemptsAreApart
<1>10. RowsAreNumbered
  BY <1>1 DEF RowsAreNumbered
<1>11. GateIsEarned
  BY <1>1 DEF GateIsEarned
<1> QED
  BY <1>7, <1>8, <1>9, <1>10, <1>11 DEF PipelineInv

(* A call that throws is lost like one whose process dies.                 *)
LEMMA ThrowIsLoss == ASSUME NEW c \in Calls, Throw(c) PROVE Crash(c)
BY DEF Throw, Crash, Executing

(* Every step keeps the invariant.                                         *)
LEMMA PipelineNext == PipelineInv /\ [Next]_vars => PipelineInv'
<1> SUFFICES ASSUME PipelineInv, [Next]_vars PROVE PipelineInv'
  OBVIOUS
<1>1. CASE UNCHANGED vars
  <2>1. UNCHANGED <<run, rows, drafts, calls, clock, late, started, lost>>
    BY <1>1 DEF vars
  <2> QED
    BY <2>1, RowsTyped, RunTyped, EnvironmentStep
<1>2. CASE Enqueue \/ Cancel \/ TimePasses
  BY <1>2, OutsideKeeps
<1>3. ASSUME NEW c \in Calls, Start(c) \/ Select(c) \/ Resume(c) PROVE PipelineInv'
  BY <1>3, BeginKeeps
<1>4. ASSUME NEW c \in Calls, Claim(c) PROVE PipelineInv'
  BY <1>4, ClaimKeeps
<1>5. ASSUME NEW c \in Calls, Blocked(c) PROVE PipelineInv'
  <2>1. /\ calls' = [calls EXCEPT ![c] = Fresh]
        /\ UNCHANGED <<run, rows, drafts, clock, late, started, lost>>
    BY <1>5 DEF Blocked
  <2> QED
    BY <2>1, RowsTyped, RunTyped, FreshKeeps
<1>6. ASSUME NEW c \in Calls, Advance(c) \/ Revise(c) \/ Rescore(c) PROVE PipelineInv'
  <2>1. CASE Advance(c)
    BY <2>1, AdvanceIsPass, PassKeeps
  <2>2. CASE Revise(c)
    BY <2>2, ReviseIsPass, PassKeeps
  <2>3. CASE Rescore(c)
    BY <2>3, RescoreIsPass, PassKeeps
  <2> QED
    BY <1>6, <2>1, <2>2, <2>3
<1>7. ASSUME NEW c \in Calls, SkipLoop(c) PROVE PipelineInv'
  BY <1>7, SkipKeeps
<1>8. ASSUME NEW c \in Calls, LeaveLoop(c) PROVE PipelineInv'
  BY <1>8, LeaveKeeps
<1>9. ASSUME NEW c \in Calls, Succeed(c) PROVE PipelineInv'
  BY <1>9, SucceedKeeps
<1>10. ASSUME NEW c \in Calls, NeedsHuman(c) \/ Fail(c) PROVE PipelineInv'
  BY <1>10, FailKeeps
<1>11. ASSUME NEW c \in Calls, Propose(c) PROVE PipelineInv'
  BY <1>11, ProposeKeeps
<1>12. ASSUME NEW c \in Calls, RecordProposal(c) PROVE PipelineInv'
  BY <1>12, RecordKeeps
<1>13. ASSUME NEW c \in Calls, Finish(c) PROVE PipelineInv'
  BY <1>13, FinishKeeps
<1>14. ASSUME NEW c \in Calls, AutoApprove(c) PROVE PipelineInv'
  BY <1>14, ApproveKeeps
<1>15. ASSUME NEW c \in Calls, Crash(c) PROVE PipelineInv'
  <2>1. /\ calls' = [calls EXCEPT ![c] = Fresh] /\ lost' = lost + 1
        /\ UNCHANGED <<run, rows, drafts, clock, late, started>>
    BY <1>15 DEF Crash
  <2>2. lost' \in Nat
    BY <2>1, RowsTyped
  <2> QED
    BY <2>1, <2>2, RowsTyped, RunTyped, FreshKeeps
<1> QED
  BY <1>1, <1>2, <1>3, <1>4, <1>5, <1>6, <1>7, <1>8, <1>9, <1>10, <1>11, <1>12, <1>13, <1>14,
     <1>15, ThrowIsLoss DEF Next

(* The invariant of the engine, whatever the leases do.                    *)
THEOREM PipelineInvariance == Spec => []PipelineInv
<1> QED
  BY PipelineInit, PipelineNext, PTL DEF Spec

(* Nothing reaches the gate, and no run succeeds, before every step of the *)
(* definition has been done: even when leases expire under calls that go   *)
(* on, so that several replay and extend the same rows at once.            *)
THEOREM TheGateIsEarned == Spec => []ProposedAfterEveryStep
<1>1. PipelineInv => ProposedAfterEveryStep
  <2> SUFFICES ASSUME PipelineInv, drafts # <<>> \/ run.status = "succeeded", NEW s \in Keys
               PROVE
                 \/ s \notin DOMAIN Loops /\ Done(s)
                 \/ /\ s \in DOMAIN Loops
                    /\ \E r \in DOMAIN rows :
                          /\ rows[r].status = "succeeded"
                          /\ \/ rows[r].step = Loops[s].scoreFrom /\ rows[r].score = "high"
                             \/ rows[r].step = s /\ rows[r].iteration = Loops[s].maxIterations
    BY DEF ProposedAfterEveryStep
  <2>1. StepDone(s)
    BY DEF PipelineInv, GateIsEarned
  <2> QED
    BY <2>1 DEF StepDone, LoopDone, Outputs, Succeeded, Done
<1> QED
  BY <1>1, PipelineInvariance, PTL
(***************************************************************************)
(* Until a call outlives its lease, the lease fences it.                   *)
(***************************************************************************)

Fence == ~late => LeaseCovers

(* What a pass does to the call, before the model is asked.                *)
LEMMA PassEffect ==
  ASSUME PipelineInv, NEW c \in Calls, NEW s, NEW i, IsPass(c, s, i)
  PROVE  /\ calls' = [calls EXCEPT ![c] = calls'[c]]
         /\ calls'[c].deadline = calls[c].deadline /\ calls'[c].checklist = calls[c].checklist
         /\ Walking(c) /\ UNCHANGED <<run, drafts, clock, late, started, lost>>
         /\ \/ rows' = rows /\ calls'[c].pc = "halting"
            \/ /\ rows' = rows
               /\ \E q \in Outputs(s) :
                     /\ q \in calls[c].cache /\ rows[q].iteration = i
                     /\ AfterPass(calls'[c], c, s, i, rows[q].score)
            \/ Miss(c, s, i)
<1>1. /\ Walking(c) /\ UNCHANGED <<run, drafts, clock, late, started, lost>>
      /\ s \in Keys /\ i \in Nat /\ calls[c].at <= Len(Steps) /\ calls[c] \in Call
      /\ calls \in [Calls -> Call] /\ PipelineTypeOK
  BY PassOutcomes, RowsTyped DEF IsPass
<1>2. CASE Late(c)
  <2>1. PICK new : new = Halting(calls[c], "failed")
    OBVIOUS
  <2>2. new.pc = "halting" /\ new.deadline = calls[c].deadline /\ new.checklist = calls[c].checklist
    BY <1>1, <2>1, RowsTyped, HaltingIs
  <2>3. calls' = [calls EXCEPT ![c] = new] /\ rows' = rows
    BY <1>2, <2>1 DEF Late
  <2> QED
    BY <1>1, <2>2, <2>3
<1>3. CASE Hit(c, s, i)
  <2>1. PICK q \in Outputs(s) :
           /\ q \in calls[c].cache /\ rows[q].iteration = i
           /\ calls' = [calls EXCEPT ![c] = Passed(calls[c], s, i, rows[q].draft, rows[q].score)]
    BY <1>3 DEF Hit
  <2>2. PICK new : new = Passed(calls[c], s, i, rows[q].draft, rows[q].score)
    OBVIOUS
  <2>3. rows[q].draft \in Draft \cup {NoDraft} /\ rows[q].score \in Scores
    BY <2>1, RowsTyped, RowTyped DEF Outputs, Succeeded
  <2>4. AfterPass(new, c, s, i, rows[q].score) /\ new.checklist = calls[c].checklist
    <3>1. PICK draft \in Draft \cup {NoDraft}, score \in Scores :
             draft = rows[q].draft /\ score = rows[q].score
      BY <2>3
    <3>2. new = Passed(calls[c], s, i, draft, score)
      BY <2>2, <3>1
    <3> QED
      BY <1>1, <3>1, <3>2, PassedIs
  <2>5. calls' = [calls EXCEPT ![c] = new] /\ calls'[c] = new
    BY <1>1, <2>1, <2>2
  <2>6. new.deadline = calls[c].deadline
    BY <2>4 DEF AfterPass
  <2> QED
    BY <1>1, <1>3, <2>1, <2>4, <2>5, <2>6 DEF Hit
<1>4. CASE Miss(c, s, i)
  BY <1>1, <1>4, MissAppends DEF Remembers
<1> QED
  BY <1>2, <1>3, <1>4, PassOutcomes

(* The steps of a call that has claimed the run, but for the last.         *)
Works(c) ==
    \/ Advance(c) \/ SkipLoop(c) \/ LeaveLoop(c) \/ Revise(c) \/ Rescore(c)
    \/ Succeed(c) \/ NeedsHuman(c) \/ Fail(c) \/ Propose(c) \/ RecordProposal(c)

(* They leave the row of the run alone, and the deadline of the call.      *)
LEMMA WorkIs ==
  ASSUME PipelineInv, NEW c \in Calls, Works(c)
  PROVE  /\ Walking(c) /\ Executing(c) /\ calls' = [calls EXCEPT ![c] = calls'[c]]
         /\ UNCHANGED <<run, clock, late, started, lost>>
         /\ calls'[c].pc # "idle" => calls'[c].deadline = calls[c].deadline
<1> USE DEF Walking, Executing
<1>0. calls \in [Calls -> Call] /\ Fresh.pc = "idle" /\ calls[c] \in Call
  BY RowsTyped DEF Fresh
<1>1. CASE Advance(c)
  BY <1>1, AdvanceIsPass, PassEffect
<1>2. CASE Revise(c)
  BY <1>2, ReviseIsPass, PassEffect
<1>3. CASE Rescore(c)
  BY <1>3, RescoreIsPass, PassEffect
<1>4. CASE SkipLoop(c)
  <2>1. CASE Free(Here(c), 1, 1)
    BY <1>4, <2>1, SkipIs DEF SkipLoop, AtStep
  <2>2. CASE ~Free(Here(c), 1, 1)
    BY <1>0, <1>4, <2>2 DEF SkipLoop, AtStep
  <2> QED
    BY <2>1, <2>2
<1>5. CASE LeaveLoop(c)
  <2>1. /\ calls' = [calls EXCEPT ![c].at = @ + 1] /\ calls[c].pc = "ready"
        /\ UNCHANGED <<run, clock, late, started, lost>>
    BY <1>5 DEF LeaveLoop, AtStep
  <2>2. calls'[c].deadline = calls[c].deadline /\ calls' = [calls EXCEPT ![c] = calls'[c]]
    BY <1>0, <2>1 DEF Call
  <2> QED
    BY <2>1, <2>2
<1>6. CASE Succeed(c)
  <2>1. UNCHANGED <<run, clock, late, started, lost>>
    BY <1>6 DEF Succeed
  <2> QED
    BY <1>6, <2>1, SucceedIs
<1>7. CASE NeedsHuman(c)
  <2>1. /\ calls[c].pc = "asking" /\ UNCHANGED <<run, clock, late, started, lost>>
        /\ calls' = [calls EXCEPT ![c] =
              Halting([calls[c] EXCEPT !.usedTokens = @ + 1], "escalated")]
    BY <1>7, Zenon DEF NeedsHuman
  <2>2. "escalated" \in {"failed", "escalated"}
    OBVIOUS
  <2> QED
    BY <2>1, <2>2, HaltsIs
<1>8. CASE Fail(c)
  <2>1. calls[c].pc = "asking" /\ UNCHANGED <<run, clock, late, started, lost>>
    BY <1>8, FailOutcomes
  <2>2. CASE calls' = [calls EXCEPT ![c] =
                     Halting([calls[c] EXCEPT !.usedTokens = @ + 1], "failed")]
    <3>1. "failed" \in {"failed", "escalated"}
      OBVIOUS
    <3> QED
      BY <2>1, <2>2, <3>1, HaltsIs
  <2>3. CASE Retry(c)
    <3>1. drafts' = drafts
      BY <1>8, FailOutcomes
    <3> QED
      BY <2>1, <2>3, <3>1, RetryIs DEF Remembers
  <2>4. CASE calls' = [calls EXCEPT ![c] = Fresh]
    BY <1>0, <2>1, <2>4
  <2> QED
    BY <1>8, <2>2, <2>3, <2>4, FailOutcomes
<1>9. CASE Propose(c)
  <2>1. CASE calls' = [calls EXCEPT ![c] = Halting(calls[c], "failed")]
    <3>1. PICK new : new = Halting(calls[c], "failed")
      OBVIOUS
    <3>2. new.pc = "halting" /\ new.deadline = calls[c].deadline
      BY <1>0, <3>1, RowsTyped, HaltingIs
    <3> QED
      BY <1>0, <1>9, <2>1, <3>1, <3>2, ProposeOutcomes
  <2>2. CASE calls' = [calls EXCEPT ![c] = calls'[c]] /\ Remembers(calls'[c], c)
    BY <1>9, <2>2, ProposeOutcomes DEF Remembers
  <2> QED
    BY <1>9, <2>1, <2>2, ProposeOutcomes
<1>10. CASE RecordProposal(c)
  <2>1. CASE Free("propose", 1, 1)
    BY <1>10, <2>1, RecordIs DEF Remembers
  <2>2. CASE ~Free("propose", 1, 1)
    BY <1>0, <1>10, <2>2 DEF RecordProposal
  <2> QED
    BY <2>1, <2>2
<1> QED
  BY <1>1, <1>2, <1>3, <1>4, <1>5, <1>6, <1>7, <1>8, <1>9, <1>10 DEF Works

(* The steps of a call that has not claimed the run, or has settled it.    *)
Rests(c) == Start(c) \/ Select(c) \/ Resume(c) \/ Blocked(c) \/ AutoApprove(c)

(* They concern no call that executes.                                     *)
LEMMA RestIs ==
  ASSUME PipelineInv, NEW c \in Calls, Rests(c)
  PROVE  /\ calls' = [calls EXCEPT ![c] = calls'[c]] /\ ~Executing(c) /\ ~Executing(c)'
         /\ UNCHANGED <<rows, clock, late, lost>> /\ Len(drafts') = Len(drafts)
         /\ \/ run' = run
            \/ run.status = "absent" /\ run'.status = "queued" /\ run'.checklist = run.checklist
<1>0. calls \in [Calls -> Call] /\ Fresh.pc = "idle" /\ PipelineTypeOK
  BY RowsTyped DEF Fresh
<1>1. CASE Start(c)
  <2>1. Create("person") /\ Begin(c, FALSE) /\ UNCHANGED <<rows, drafts, clock, late, lost>>
    BY <1>1 DEF Start
  <2>2. FALSE \in BOOLEAN
    OBVIOUS
  <2>3. /\ calls[c].pc = "idle" /\ calls'[c].pc = "selected"
        /\ calls' = [calls EXCEPT ![c] = calls'[c]]
    BY <2>1, <2>2, BeginIs
  <2>4. run.status = "absent" /\ run'.status = "queued" /\ run'.checklist = run.checklist
    BY <1>0, <2>1, CreateTypes
  <2> QED
    BY <2>1, <2>3, <2>4 DEF Executing
<1>2. CASE Select(c) \/ Resume(c)
  <2>1. \E isTick \in BOOLEAN :
          Begin(c, isTick) /\ UNCHANGED <<run, rows, drafts, clock, late, lost>>
    BY <1>2 DEF Select, Resume
  <2>2. /\ calls[c].pc = "idle" /\ calls'[c].pc = "selected"
        /\ calls' = [calls EXCEPT ![c] = calls'[c]]
    BY <2>1, BeginIs
  <2> QED
    BY <2>1, <2>2 DEF Executing
<1>3. CASE Blocked(c)
  BY <1>0, <1>3 DEF Blocked, Executing
<1>4. CASE AutoApprove(c)
  BY <1>0, <1>4, ApproveIs DEF Executing
<1> QED
  BY <1>1, <1>2, <1>3, <1>4 DEF Rests

(* Every step is one of these.                                             *)
LEMMA NextIs ==
  ASSUME [Next]_vars
  PROVE  \/ UNCHANGED <<run, rows, drafts, calls, clock, late, started, lost>>
         \/ Enqueue \/ Cancel \/ TimePasses
         \/ \E c \in Calls : Rests(c) \/ Claim(c) \/ Works(c) \/ Finish(c) \/ Crash(c)
<1>1. CASE UNCHANGED vars
  BY <1>1 DEF vars
<1>2. CASE Next
  BY <1>2, ThrowIsLoss DEF Next, Rests, Works
<1> QED
  BY <1>1, <1>2

(* Every step keeps the lease around the one call that executes.           *)
LEMMA FenceNext ==
  ASSUME PipelineInv, Fence, [Next]_vars
  PROVE  Fence'
<1> SUFFICES ASSUME ~late' PROVE LeaseCovers'
  BY DEF Fence
<1>0. /\ calls \in [Calls -> Call] /\ late \in BOOLEAN /\ clock \in Nat
      /\ run.leaseExpiresAt \in Nat /\ RunMs \in Nat \ {0}
      /\ \A d \in Calls : calls[d].deadline \in Nat
  BY RowsTyped, RunTyped, CallTyped, BoundsAssumption
<1>1. ASSUME late' = late PROVE LeaseCovers
  BY <1>1 DEF Fence
<1>2. CASE UNCHANGED <<run, rows, drafts, calls, clock, late, started, lost>>
  BY <1>1, <1>2 DEF LeaseCovers, Executing
<1>3. CASE Enqueue
  <2>1. Create("automation") /\ UNCHANGED <<rows, drafts, calls, clock, late, started, lost>>
    BY <1>3 DEF Enqueue
  <2>2. run.status = "absent"
    BY <2>1 DEF Create
  <2> QED
    BY <1>1, <2>1, <2>2 DEF LeaseCovers, Executing
<1>4. CASE Cancel
  <2>1. run'.status = "cancelled" /\ UNCHANGED <<rows, drafts, calls, clock, late, started, lost>>
    BY <1>4, RowsTyped, RunTyped DEF Cancel, PipelineRun
  <2> QED
    BY <1>1, <2>1 DEF LeaseCovers, Executing
<1>5. CASE TimePasses
  <2>1. /\ clock' = clock + 1 /\ UNCHANGED <<run, rows, drafts, calls, started, lost>>
        /\ late' = (late \/ \E c \in Calls : Executing(c) /\ clock' > calls[c].deadline)
    BY <1>5 DEF TimePasses
  <2>2. ~late /\ \A c \in Calls : Executing(c) => ~(clock' > calls[c].deadline)
    BY <2>1, Zenon
  <2>3. LeaseCovers
    BY <2>2 DEF Fence
  <2> QED
    BY <1>0, <2>1, <2>2, <2>3 DEF LeaseCovers, Executing
<1>6. ASSUME NEW c \in Calls, Rests(c) PROVE LeaseCovers'
  <2>1. /\ calls' = [calls EXCEPT ![c] = calls'[c]] /\ ~Executing(c) /\ ~Executing(c)'
        /\ UNCHANGED <<clock, late>>
        /\ run' = run \/ run.status = "absent"
    BY <1>6, RestIs
  <2>2. \A d \in Calls : Executing(d)' => d # c /\ Executing(d) /\ calls'[d] = calls[d]
    BY <1>0, <2>1 DEF Executing
  <2> QED
    BY <1>1, <2>1, <2>2 DEF LeaseCovers
<1>7. ASSUME NEW c \in Calls, Claim(c) PROVE LeaseCovers'
  <2>1. /\ run'.status = "running" /\ run'.leaseExpiresAt = clock + RunMs
        /\ calls' = [calls EXCEPT ![c] = calls'[c]] /\ calls'[c].deadline = clock + RunMs
    BY <1>7, ClaimIs
  <2>2. UNCHANGED <<clock, late>> /\ Claimable
    BY <1>7 DEF Claim
  <2>3. \A d \in Calls : ~Executing(d)
    BY <1>0, <1>1, <2>2 DEF LeaseCovers, Claimable
  <2>4. \A d \in Calls : Executing(d)' => d = c
    BY <1>0, <2>1, <2>3 DEF Executing
  <2> QED
    BY <1>0, <2>1, <2>2, <2>4 DEF LeaseCovers
<1>8. ASSUME NEW c \in Calls, Works(c) PROVE LeaseCovers'
  <2>1. /\ Executing(c) /\ calls' = [calls EXCEPT ![c] = calls'[c]]
        /\ UNCHANGED <<run, clock, late>>
        /\ calls'[c].pc # "idle" => calls'[c].deadline = calls[c].deadline
    BY <1>8, WorkIs
  <2>2. \A d \in Calls : Executing(d)' => d = c /\ calls'[c].deadline = calls[c].deadline
    BY <1>0, <1>1, <2>1 DEF LeaseCovers, Executing
  <2> QED
    BY <1>0, <1>1, <2>1, <2>2 DEF LeaseCovers
<1>9. ASSUME NEW c \in Calls, Finish(c) \/ Crash(c) PROVE LeaseCovers'
  <2>1. /\ Executing(c) /\ calls' = [calls EXCEPT ![c] = calls'[c]] /\ ~Executing(c)'
        /\ late' = late
    <3>1. CASE Finish(c)
      BY <3>1, FinishIs DEF Executing
    <3>2. CASE Crash(c)
      <4>1. Fresh.pc = "idle"
        BY DEF Fresh
      <4> QED
        BY <1>0, <3>2, <4>1 DEF Crash, Executing
    <3> QED
      BY <1>9, <3>1, <3>2
  <2>2. \A d \in Calls : ~Executing(d)'
    BY <1>0, <1>1, <2>1 DEF LeaseCovers, Executing
  <2> QED
    BY <2>2 DEF LeaseCovers
<1> QED
  BY <1>2, <1>3, <1>4, <1>5, <1>6, <1>7, <1>8, <1>9, NextIs

(* "The lease fence keeps one run from executing twice concurrently": it   *)
(* does, until a call outlives its lease.                                  *)
THEOREM LeasesFence == Spec => []LeaseFencesExecutions
<1>1. Init => Fence
  BY DEF Init, Fence, LeaseCovers, Executing, Fresh
<1>2. PipelineInv /\ Fence /\ [Next]_vars => Fence'
  BY FenceNext
<1>3. Fence => LeaseFencesExecutions
  BY DEF Fence, LeaseCovers, LeaseFencesExecutions
<1>4. Spec => []Fence
  BY <1>1, <1>2, PipelineInvariance, PTL DEF Spec
<1> QED
  BY <1>3, <1>4, PTL

(***************************************************************************)
(* Until then a call knows what has been done, and asks for nothing twice. *)
(***************************************************************************)

Memory == ~late => PassesInOrder /\ \A c \in Calls : Complete(c) /\ AsksAnew(c)

(* A call that does not walk the steps remembers and asks nothing.         *)
LEMMA NoMemory ==
  ASSUME NEW c \in Calls, ~Walking(c)'
  PROVE  Complete(c)' /\ AsksAnew(c)'
<1> QED
  BY DEF Walking, Complete, AsksAnew

(* What is done was done in order, also after a step that does nothing.    *)
LEMMA OrderStays ==
  ASSUME rows \in Seq(StepRow), Quiet, PassesInOrder
  PROVE  PassesInOrder'
<1>1. Succeeded' = Succeeded /\ \A r \in Succeeded : rows'[r] = rows[r]
  BY GrownKeeps DEF Quiet
<1> QED
  BY <1>1 DEF PassesInOrder

(* A call that keeps its memory and goes no step back is complete as long  *)
(* as no other pass is done.                                               *)
LEMMA CompleteStays ==
  ASSUME PipelineInv, NEW c \in Calls, Walking(c), Complete(c), Quiet,
         calls'[c].iterations = calls[c].iterations, calls'[c].scores = calls[c].scores,
         calls'[c].cache = calls[c].cache, calls'[c].at \in {calls[c].at, calls[c].at + 1}
  PROVE  Complete(c)'
<1>1. Succeeded' = Succeeded /\ \A r \in Succeeded : rows'[r] = rows[r]
  BY RowsTyped, GrownKeeps DEF Quiet
<1>2. \A s : Outputs(s)' = Outputs(s)
  BY <1>1 DEF Outputs
<1>3. calls[c].at \in 1 .. Len(Steps) + 1 /\ Len(Steps) \in Nat
  BY RowsTyped, CallTyped, StepsFacts
<1>4. ASSUME NEW r \in Succeeded, rows[r].step \in Keys
      PROVE  /\ rows[r].iteration <= calls'[c].iterations[rows[r].step]
             /\ \/ r \in calls'[c].cache
                \/ rows[r].step \in DOMAIN Loops
                \/ \E k \in 1 .. calls'[c].at - 1 : Steps[k] = rows[r].step
  <2>1. /\ rows[r].iteration <= calls[c].iterations[rows[r].step]
        /\ \/ r \in calls[c].cache
           \/ rows[r].step \in DOMAIN Loops
           \/ \E k \in 1 .. calls[c].at - 1 : Steps[k] = rows[r].step
    BY <1>4 DEF Complete
  <2>2. 1 .. calls[c].at - 1 \subseteq 1 .. calls'[c].at - 1
    BY <1>3
  <2> QED
    BY <2>1, <2>2
<1>5. ASSUME NEW s \in Scoring, NEW r \in Outputs(s), rows[r].iteration = calls'[c].iterations[s]
      PROVE  calls'[c].scores[s] = rows[r].score
  BY <1>5 DEF Complete
<1> QED
  BY <1>1, <1>2, <1>4, <1>5 DEF Complete, Outputs

(* Of the passes of a step that are done, no two are of the same iteration.*)
LEMMA OneOutput ==
  ASSUME PipelineInv, PassesInOrder, NEW s, NEW q \in Outputs(s), NEW r \in Outputs(s),
         rows[q].iteration = rows[r].iteration
  PROVE  q = r
<1>1. /\ q \in Succeeded /\ r \in Succeeded /\ rows[q].step = rows[r].step
      /\ q \in DOMAIN rows /\ r \in DOMAIN rows
  BY DEF Outputs, Succeeded
<1>2. /\ rows[q].iteration \in Nat /\ rows[r].iteration \in Nat /\ q \in Nat /\ r \in Nat
  BY <1>1, RowsTyped, RowTyped
<1>3. ~(q < r) /\ ~(r < q)
  BY <1>1, <1>2 DEF PassesInOrder
<1> QED
  BY <1>2, <1>3

(* A call that has just claimed the run knows all that is done.            *)
LEMMA ClaimCompletes ==
  ASSUME PipelineInv, PassesInOrder, NEW c \in Calls, Claim(c)
  PROVE  Complete(c)' /\ AsksAnew(c)'
<1>1. CASE calls'[c].pc = "halting"
  BY <1>1, NoMemory DEF Walking
<1>2. CASE /\ calls'[c].pc = "ready" /\ calls'[c].at = 1 /\ calls'[c].cache = Succeeded
           /\ calls'[c].iterations = [s \in Keys |-> Newest(Iterations(s))]
           /\ calls'[c].scores = [s \in Scoring |-> ScoreAmong(Succeeded, s)]
  <2>1. rows' = rows
    BY DEF Claim
  <2>2. ASSUME NEW r \in Succeeded, rows[r].step \in Keys
        PROVE  rows[r].iteration <= calls'[c].iterations[rows[r].step] /\ r \in calls'[c].cache
    <3>1. r \in Outputs(rows[r].step)
      BY DEF Outputs
    <3>2. rows[r].iteration <= Newest(Iterations(rows[r].step))
      BY <3>1, RowsTyped, IterationsBounded
    <3> QED
      BY <1>2, <2>2, <3>2
  <2>3. ASSUME NEW s \in Scoring, NEW r \in Outputs(s), rows[r].iteration = calls'[c].iterations[s]
        PROVE  calls'[c].scores[s] = rows[r].score
    <3>1. s \in Keys
      BY StepsFacts
    <3>2. rows[r].iteration = Newest(Iterations(s))
      BY <1>2, <2>3, <3>1
    <3>3. PICK q \in Outputs(s) : ScoreAmong(Succeeded, s) = rows[q].score /\ \A x \in Outputs(s) : x <= q
      BY LastScore
    <3>4. rows[q].iteration <= Newest(Iterations(s))
      BY RowsTyped, IterationsBounded
    <3>5. /\ q \in Succeeded /\ r \in Succeeded /\ rows[q].step = rows[r].step
          /\ q \in DOMAIN rows /\ r \in DOMAIN rows
      BY DEF Outputs, Succeeded
    <3>6. /\ rows[q].iteration \in Nat /\ rows[r].iteration \in Nat /\ q \in Nat /\ r \in Nat
      BY <3>5, RowsTyped, RowTyped
    <3>7. r = q
      <4>1. ~(r < q)
        BY <3>2, <3>4, <3>5, <3>6 DEF PassesInOrder
      <4>2. r <= q
        BY <3>3
      <4> QED
        BY <3>6, <4>1, <4>2
    <3> QED
      BY <1>2, <3>3, <3>7
  <2> QED
    BY <1>2, <2>1, <2>2, <2>3 DEF Complete, AsksAnew, Outputs, Succeeded
<1> QED
  BY <1>1, <1>2, ClaimIs

(* What a call has in its cache is never ahead of its memory; so a pass it *)
(* replays is the last one of its step, and the memory stays complete.     *)
LEMMA ReplayStays ==
  ASSUME PipelineInv, PassesInOrder, NEW c \in Calls, Walking(c), Complete(c), rows' = rows,
         calls[c].at <= Len(Steps),
         NEW s \in Keys, NEW i \in Nat, i >= calls[c].iterations[s],
         NEW q \in Outputs(s), rows[q].iteration = i,
         AfterPass(calls'[c], c, s, i, rows[q].score)
  PROVE  i = calls[c].iterations[s] /\ Complete(c)'
<1>1. /\ calls[c].at \in 1 .. Len(Steps) + 1 /\ Len(Steps) \in Nat
      /\ calls[c].iterations \in [Keys -> Nat]
  BY RowsTyped, CallTyped, StepsFacts
<1>2. i = calls[c].iterations[s]
  <2>1. rows[q].iteration <= calls[c].iterations[s]
    BY DEF Complete, Outputs
  <2> QED
    BY <1>1, <2>1
<1>3. calls'[c].iterations = calls[c].iterations
  BY <1>1, <1>2 DEF AfterPass
<1>4. /\ 1 .. calls[c].at - 1 \subseteq 1 .. calls'[c].at - 1
      /\ calls'[c].cache = calls[c].cache
  BY <1>1 DEF AfterPass
<1>5. ASSUME NEW x \in Scoring, NEW r \in Outputs(x), rows[r].iteration = calls[c].iterations[x]
      PROVE  calls'[c].scores[x] = rows[r].score
  <2>1. CASE x = s
    <3>1. r = q
      BY <1>2, <1>5, <2>1, OneOutput
    <3> QED
      BY <2>1, <3>1 DEF AfterPass
  <2>2. CASE x # s
    <3>1. calls'[c].scores[x] = calls[c].scores[x]
      BY <2>2 DEF AfterPass
    <3> QED
      BY <1>5, <3>1 DEF Complete
  <2> QED
    BY <2>1, <2>2
<1>6. ASSUME NEW r \in Succeeded, rows[r].step \in Keys
      PROVE  /\ rows[r].iteration <= calls'[c].iterations[rows[r].step]
             /\ \/ r \in calls'[c].cache
                \/ rows[r].step \in DOMAIN Loops
                \/ \E k \in 1 .. calls'[c].at - 1 : Steps[k] = rows[r].step
  BY <1>3, <1>4, <1>6 DEF Complete
<1>7. Succeeded' = Succeeded /\ \A x : Outputs(x)' = Outputs(x)
  BY DEF Succeeded, Outputs
<1> QED
  BY <1>2, <1>3, <1>5, <1>6, <1>7 DEF Complete

(* A pass keeps the memory complete if it asks for one that nobody did.    *)
LEMMA PassMemory ==
  ASSUME PipelineInv, PassesInOrder, NEW c \in Calls, Complete(c),
         NEW s, NEW i, IsPass(c, s, i), i >= calls[c].iterations[s],
         Miss(c, s, i) => \A r \in Outputs(s) : rows[r].iteration < i,
         Miss(c, s, i) /\ ~AtLoop(c) => Outputs(s) = {}
  PROVE  PassesInOrder' /\ Complete(c)' /\ AsksAnew(c)'
<1>1. Walking(c) /\ s \in Keys /\ i \in Nat /\ calls[c].at <= Len(Steps)
  BY PassEffect, RowsTyped DEF IsPass
<1>2. CASE rows' = rows /\ calls'[c].pc = "halting"
  BY <1>2, RowsTyped, GrownSame, OrderStays, NoMemory DEF Walking
<1>3. CASE /\ rows' = rows
           /\ \E q \in Outputs(s) :
                 /\ q \in calls[c].cache /\ rows[q].iteration = i
                 /\ AfterPass(calls'[c], c, s, i, rows[q].score)
  <2>1. PICK q \in Outputs(s) : rows[q].iteration = i /\ AfterPass(calls'[c], c, s, i, rows[q].score)
    BY <1>3
  <2>2. Complete(c)'
    BY <1>1, <1>3, <2>1, ReplayStays
  <2>3. AsksAnew(c)'
    BY <2>1 DEF AsksAnew, AfterPass
  <2> QED
    BY <1>3, <2>2, <2>3, RowsTyped, GrownSame, OrderStays
<1>4. CASE Miss(c, s, i)
  <2> DEFINE n == Len(rows) + 1
             a == PriorAttempts(s, i) + 1
  <2>1. /\ Quiet /\ DOMAIN rows' = DOMAIN rows \cup {n} /\ Len(rows') = n
        /\ \A r \in DOMAIN rows : rows'[r] = rows[r]
        /\ rows'[n].step = s /\ rows'[n].iteration = i /\ rows'[n].attempt = a
        /\ calls'[c].pc = "asking" /\ calls'[c].row = n
        /\ Remembers(calls'[c], c)
    BY <1>4, MissAppends
  <2>2. PassesInOrder'
    BY <2>1, RowsTyped, OrderStays
  <2>3. Complete(c)'
    BY <1>1, <2>1, CompleteStays DEF Remembers
  <2>4. Outputs(s)' = Outputs(s) /\ \A r \in Outputs(s) : rows'[r] = rows[r]
    BY <2>1, RowsTyped, QuietKeeps
  <2>5. /\ PriorAttempts(s, i) \in Nat
        /\ \A r \in DOMAIN rows : rows[r].step = s /\ rows[r].iteration = i =>
              rows[r].attempt <= PriorAttempts(s, i) /\ rows[r].attempt \in Nat
    <3>1. PriorAttempts(s, i) \in 0 .. Len(rows)
      BY RowsTyped, PriorAttemptsIs
    <3> QED
      BY <3>1, RowsTyped, RowTyped, PriorAttemptsIs
  <2>6. AtLoop(c)' = AtLoop(c)
    BY <2>1 DEF AtLoop, Here, Remembers
  <2>7. \A r \in DOMAIN rows' :
           rows'[r].step = s /\ rows'[r].iteration = i => rows'[r].attempt <= a
    <3> SUFFICES ASSUME NEW r \in DOMAIN rows', rows'[r].step = s, rows'[r].iteration = i
                 PROVE  rows'[r].attempt <= a
      OBVIOUS
    <3>1. CASE r = n
      BY <2>1, <2>5, <3>1
    <3>2. CASE r \in DOMAIN rows
      BY <2>1, <2>5, <3>2
    <3> QED
      BY <2>1, <3>1, <3>2
  <2>8. Asked(c)' = rows'[n]
    BY <2>1 DEF Asked
  <2> HIDE DEF n, a
  <2>9. AsksAnew(c)'
    BY <1>4, <2>1, <2>4, <2>6, <2>7, <2>8 DEF AsksAnew
  <2> QED
    BY <2>2, <2>3, <2>9
<1> QED
  BY <1>2, <1>3, <1>4, PassEffect

(* A plain step that is not in the cache has not been done.                *)
LEMMA AdvanceMemory ==
  ASSUME PipelineInv, PassesInOrder, NEW c \in Calls, Complete(c), Advance(c)
  PROVE  PassesInOrder' /\ Complete(c)' /\ AsksAnew(c)'
<1> DEFINE s == Here(c)
           i == Max({calls[c].iterations[s], 1})
<1>1. IsPass(c, s, i) /\ Walking(c) /\ s \in Keys /\ ~AtLoop(c) /\ calls[c].at \in DOMAIN Steps
  <2>1. IsPass(c, s, i)
    BY AdvanceIsPass
  <2>2. calls[c].at \in 1 .. Len(Steps)
    BY RowsTyped, CallTyped, StepsFacts DEF Advance, AtStep
  <2> QED
    BY <2>1, <2>2, PassEffect, StepsFacts DEF Advance, IsPass
<1>2. /\ calls[c].iterations[s] \in Nat /\ i >= calls[c].iterations[s] /\ i >= 1
      /\ i \in {calls[c].iterations[s], 1}
  <2>1. calls[c].iterations[s] \in Nat
    BY <1>1, RowsTyped, CallTyped
  <2> QED
    BY <2>1, MaxOfTwo
<1>3. ASSUME Miss(c, s, i) PROVE Outputs(s) = {}
  <2> SUFFICES ASSUME NEW r \in Outputs(s) PROVE FALSE
    OBVIOUS
  <2>1. ASSUME NEW x \in Outputs(s) PROVE x \in calls[c].cache
    <3>1. x \in Succeeded /\ rows[x].step = s
      BY DEF Outputs
    <3>2. s \notin DOMAIN Loops
      BY <1>1 DEF AtLoop
    <3>3. \A k \in 1 .. calls[c].at - 1 : Steps[k] # s
      <4>1. \A k \in 1 .. calls[c].at - 1 : k \in DOMAIN Steps /\ k # calls[c].at
        BY <1>1, StepsFacts
      <4> QED
        BY <1>1, <4>1, StepsAssumption DEF Here
    <3> QED
      BY <1>1, <3>1, <3>2, <3>3 DEF Complete
  <2>2. r \in DOMAIN rows /\ r \in Succeeded /\ rows[r].step = s
    BY DEF Outputs, Succeeded
  <2>3. rows[r].iteration \in Nat \ {0} /\ rows[r].iteration <= calls[c].iterations[s]
    BY <1>1, <2>2, RowsTyped, RowTyped DEF Complete
  <2>4. i = calls[c].iterations[s] /\ calls[c].iterations[s] > 0
    BY <1>2, <2>3
  <2>5. PICK x \in Outputs(s) : rows[x].iteration = i
    BY <1>1, <2>4 DEF PipelineInv, Backed
  <2> QED
    BY <1>3, <2>1, <2>5 DEF Miss, Outputs
<1> HIDE DEF s, i
<1> QED
  BY <1>1, <1>2, <1>3, PassMemory

(* A new iteration of a loop, or of the step it scores, has not been done. *)
LEMMA LoopMemory ==
  ASSUME PipelineInv, PassesInOrder, NEW c \in Calls, Complete(c), Revise(c) \/ Rescore(c)
  PROVE  PassesInOrder' /\ Complete(c)' /\ AsksAnew(c)'
<1>1. PICK s : /\ IsPass(c, s, calls[c].iterations[s] + 1) /\ AtLoop(c)
  <2>1. CASE Revise(c)
    BY <2>1, ReviseIsPass DEF Revise, Revisions
  <2>2. CASE Rescore(c)
    BY <2>2, RescoreIsPass DEF Rescore, PipelineInv, Consistent
  <2> QED
    BY <2>1, <2>2
<1>2. Walking(c) /\ s \in Keys /\ calls[c].iterations[s] \in Nat
  BY <1>1, PassEffect, RowsTyped, CallTyped DEF IsPass
<1>3. \A r \in Outputs(s) : rows[r].iteration < calls[c].iterations[s] + 1
  <2> SUFFICES ASSUME NEW r \in Outputs(s) PROVE rows[r].iteration < calls[c].iterations[s] + 1
    OBVIOUS
  <2>1. r \in Succeeded /\ r \in DOMAIN rows /\ rows[r].step = s
    BY DEF Outputs, Succeeded
  <2>2. rows[r].iteration <= calls[c].iterations[s] /\ rows[r].iteration \in Nat
    BY <1>2, <2>1, RowsTyped, RowTyped DEF Complete
  <2> QED
    BY <1>2, <2>2
<1>4. PICK i : i = calls[c].iterations[s] + 1
  OBVIOUS
<1> QED
  BY <1>1, <1>2, <1>3, <1>4, PassMemory

(* Moving on from a loop.                                                  *)
LEMMA LeaveMemory ==
  ASSUME PipelineInv, PassesInOrder, NEW c \in Calls, Complete(c), LeaveLoop(c) \/ SkipLoop(c)
  PROVE  PassesInOrder' /\ Complete(c)' /\ AsksAnew(c)'
<1>1. Walking(c)
  BY DEF LeaveLoop, SkipLoop, AtStep, Walking
<1>2. CASE LeaveLoop(c)
  <2>1. /\ rows' = rows /\ calls' = [calls EXCEPT ![c].at = @ + 1]
        /\ calls[c].pc = "ready" /\ calls \in [Calls -> Call] /\ calls[c] \in Call
    BY <1>2, RowsTyped DEF LeaveLoop, AtStep
  <2>2. /\ calls'[c].pc = "ready" /\ calls'[c].at = calls[c].at + 1
        /\ calls'[c].iterations = calls[c].iterations /\ calls'[c].scores = calls[c].scores
        /\ calls'[c].cache = calls[c].cache
    BY <2>1 DEF Call
  <2>3. Quiet
    BY <2>1, RowsTyped, GrownSame
  <2> QED
    BY <1>1, <2>2, <2>3, RowsTyped, OrderStays, CompleteStays DEF AsksAnew
<1>3. CASE SkipLoop(c) /\ Free(Here(c), 1, 1)
  <2>1. /\ Quiet /\ calls'[c].pc = "ready" /\ calls'[c].at = calls[c].at + 1
        /\ calls'[c].iterations = calls[c].iterations /\ calls'[c].scores = calls[c].scores
        /\ calls'[c].cache = calls[c].cache
    BY <1>3, SkipIs
  <2> QED
    BY <1>1, <2>1, RowsTyped, OrderStays, CompleteStays DEF AsksAnew
<1>4. CASE SkipLoop(c) /\ ~Free(Here(c), 1, 1)
  <2>1. rows' = rows /\ calls'[c] = Fresh
    BY <1>4, RowsTyped DEF SkipLoop
  <2>2. ~Walking(c)'
    BY <2>1 DEF Walking, Fresh
  <2> QED
    BY <2>1, <2>2, RowsTyped, GrownSame, OrderStays, NoMemory
<1> QED
  BY <1>2, <1>3, <1>4

(* An attempt that fails.                                                  *)
LEMMA FailMemory ==
  ASSUME PipelineInv, PassesInOrder, NEW c \in Calls, Complete(c), AsksAnew(c),
         Fail(c) \/ NeedsHuman(c)
  PROVE  PassesInOrder' /\ Complete(c)' /\ AsksAnew(c)'
<1>0. calls[c].pc = "asking" /\ Walking(c) /\ calls \in [Calls -> Call] /\ drafts' = drafts
  BY RowsTyped DEF Fail, NeedsHuman, Walking
<1>1. CASE Settled(c, "failed") /\ calls'[c].pc \in {"halting", "idle"}
  <2>1. Quiet
    BY <1>0, <1>1, SettledGrows
  <2> QED
    BY <1>1, <2>1, RowsTyped, OrderStays, NoMemory DEF Walking
<1>2. CASE Retry(c)
  <2> DEFINE n == Len(rows) + 1
  <2>1. /\ Quiet /\ DOMAIN rows' = DOMAIN rows \cup {n} /\ Len(rows') = n
        /\ \A r \in DOMAIN rows : r # calls[c].row => rows'[r] = rows[r]
        /\ rows'[n].step = Asked(c).step /\ rows'[n].iteration = Asked(c).iteration
        /\ rows'[n].attempt = Asked(c).attempt + 1
        /\ calls'[c].pc = "asking" /\ calls'[c].row = n
        /\ Remembers(calls'[c], c)
    BY <1>0, <1>2, RetryIs
  <2>2. PassesInOrder'
    BY <2>1, RowsTyped, OrderStays
  <2>3. Complete(c)'
    BY <1>0, <2>1, CompleteStays DEF Remembers
  <2>4. PICK s, i, a : s = Asked(c).step /\ i = Asked(c).iteration /\ a = Asked(c).attempt
    OBVIOUS
  <2>5. Outputs(s)' = Outputs(s) /\ \A r \in Outputs(s) : rows'[r] = rows[r]
    BY <2>1, RowsTyped, QuietKeeps
  <2>6. /\ \A r \in Outputs(s) : rows[r].iteration < i
        /\ ~AtLoop(c) => Outputs(s) = {}
        /\ \A r \in DOMAIN rows :
              rows[r].step = s /\ rows[r].iteration = i => rows[r].attempt <= a
    BY <1>0, <2>4 DEF AsksAnew
  <2>7. Asked(c)' = rows'[n] /\ AtLoop(c)' = AtLoop(c)
    BY <2>1 DEF Asked, AtLoop, Here, Remembers
  <2>8. a \in Nat /\ \A r \in DOMAIN rows : rows[r].attempt \in Nat
    BY <1>0, <2>4, AskedIs, RowsTyped, RowTyped
  <2>9. \A r \in DOMAIN rows' :
           rows'[r].step = s /\ rows'[r].iteration = i => rows'[r].attempt <= a + 1
    <3> SUFFICES ASSUME NEW r \in DOMAIN rows', rows'[r].step = s, rows'[r].iteration = i
                 PROVE  rows'[r].attempt <= a + 1
      OBVIOUS
    <3>1. CASE r = n
      BY <2>1, <2>4, <2>8, <3>1
    <3>2. CASE r \in DOMAIN rows
      <4>1. /\ rows'[r].step = rows[r].step /\ rows'[r].iteration = rows[r].iteration
            /\ rows'[r].attempt = rows[r].attempt
        BY <2>1, <3>2 DEF Quiet, Grown
      <4> QED
        BY <2>6, <2>8, <3>2, <4>1
    <3> QED
      BY <2>1, <3>1, <3>2
  <2> HIDE DEF n
  <2>10. AsksAnew(c)'
    BY <2>1, <2>4, <2>5, <2>6, <2>7, <2>9 DEF AsksAnew
  <2> QED
    BY <2>2, <2>3, <2>10
<1>3. (Settled(c, "failed") /\ calls'[c].pc \in {"halting", "idle"}) \/ Retry(c)
  <2>1. Fresh.pc = "idle"
    BY DEF Fresh
  <2>2. CASE Fail(c)
    <3>1. "failed" \in {"failed", "escalated"}
      OBVIOUS
    <3>2. CASE calls' = [calls EXCEPT ![c] =
                     Halting([calls[c] EXCEPT !.usedTokens = @ + 1], "failed")]
      BY <2>2, <3>1, <3>2, FailOutcomes, HaltsIs
    <3>3. CASE calls' = [calls EXCEPT ![c] = Fresh]
      BY <1>0, <2>1, <2>2, <3>3, FailOutcomes
    <3> QED
      BY <2>2, <3>2, <3>3, FailOutcomes
  <2>3. CASE NeedsHuman(c)
    <3>1. /\ Settle(c, "failed", NoDraft, "none")
          /\ calls' = [calls EXCEPT ![c] =
                 Halting([calls[c] EXCEPT !.usedTokens = @ + 1], "escalated")]
      BY <2>3, Zenon DEF NeedsHuman
    <3>2. /\ NoDraft \in Draft \cup {NoDraft} /\ "none" \in Scores
          /\ "failed" \in {"succeeded", "failed"} /\ "escalated" \in {"failed", "escalated"}
      BY DEF Scores
    <3>3. Settled(c, "failed")
      BY <1>0, <3>1, <3>2, SettleIs
    <3>4. calls'[c].pc = "halting"
      BY <3>1, <3>2, HaltsIs
    <3> QED
      BY <3>3, <3>4
  <2> QED
    BY <2>2, <2>3
<1> QED
  BY <1>1, <1>2, <1>3

(* An answer adds the last pass of its step, and the call knows it.        *)
LEMMA SucceedMemory ==
  ASSUME PipelineInv, PassesInOrder, NEW c \in Calls, Complete(c), AsksAnew(c), Succeed(c)
  PROVE  PassesInOrder' /\ Complete(c)' /\ AsksAnew(c)'
<1> DEFINE k == calls[c].row
<1>1. PICK s, i : s = Asked(c).step /\ i = Asked(c).iteration
  OBVIOUS
<1>2. PICK score \in Scores :
        /\ calls[c].pc = "asking" /\ Settled(c, "succeeded") /\ rows'[k].score = score
        /\ \/ calls'[c].pc = "halting"
           \/ AfterPass(calls'[c], c, s, i, score)
  BY <1>1, SucceedIs
<1>3. /\ Walking(c) /\ k \in DOMAIN rows /\ s \in Keys /\ i \in Nat \ {0}
      /\ s # Here(c) => AtLoop(c) /\ s = Loops[Here(c)].scoreFrom
      /\ rows[k].status = "running" /\ calls[c].at \in 1 .. Len(Steps)
      /\ calls[c].iterations \in [Keys -> Nat]
  BY <1>1, <1>2, AskedIs, RowsTyped, CallTyped DEF Asked
<1>4. /\ k = Len(rows) /\ \A r \in Outputs(s) : rows[r].iteration < i
      /\ ~AtLoop(c) => Outputs(s) = {}
  BY <1>1, <1>2 DEF AsksAnew
<1>5. /\ Succeeded' = Succeeded \cup {k} /\ k \notin Succeeded
      /\ \A r \in Succeeded : rows'[r] = rows[r]
      /\ rows'[k].step = s /\ rows'[k].iteration = i
      /\ rows'[k].status = "succeeded"
  BY <1>1, <1>2, <1>3, SettledGrows DEF Settled, Succeeded
<1>6. k \in Nat /\ \A r \in Succeeded : r < k /\ r \in Nat
  BY <1>3, <1>4, <1>5, RowsTyped DEF Succeeded
<1> HIDE DEF k
<1>7. PassesInOrder'
  <2> SUFFICES ASSUME NEW x \in Succeeded', NEW y \in Succeeded', rows'[x].step = rows'[y].step, x < y
               PROVE  rows'[x].iteration < rows'[y].iteration
    BY DEF PassesInOrder
  <2>1. x # k
    BY <1>5, <1>6
  <2>2. x \in Succeeded
    BY <1>5, <2>1
  <2>3. CASE y = k
    <3>1. x \in Outputs(s)
      BY <1>5, <2>2, <2>3 DEF Outputs
    <3> QED
      BY <1>4, <1>5, <2>2, <2>3, <3>1
  <2>4. CASE y # k
    BY <1>5, <2>2, <2>4 DEF PassesInOrder
  <2> QED
    BY <2>3, <2>4
<1>8. CASE calls'[c].pc = "halting"
  BY <1>7, <1>8, NoMemory DEF Walking
<1>9. CASE AfterPass(calls'[c], c, s, i, score)
  <2>1. /\ calls'[c].pc \in {"ready", "rescore"}
        /\ calls'[c].at = IF AtLoop(c) THEN calls[c].at ELSE calls[c].at + 1
        /\ calls'[c].iterations = [calls[c].iterations EXCEPT ![s] = i]
        /\ calls'[c].scores = [x \in Scoring |-> IF x = s THEN score ELSE calls[c].scores[x]]
        /\ calls'[c].cache = calls[c].cache
    BY <1>9 DEF AfterPass
  <2>2. AsksAnew(c)'
    BY <2>1 DEF AsksAnew
  <2>3. 1 .. calls[c].at - 1 \subseteq 1 .. calls'[c].at - 1
    BY <1>3, <2>1, StepsFacts
  <2>4. s \in DOMAIN Loops \/ \E j \in 1 .. calls'[c].at - 1 : Steps[j] = s
    <3>1. CASE ~AtLoop(c)
      BY <1>3, <2>1, <3>1, StepsFacts DEF Here
    <3>2. CASE AtLoop(c) /\ s # Here(c)
      <4>1. PICK j \in DOMAIN Steps : Steps[j] = s
        BY <1>3 DEF Keys
      <4>2. j < calls[c].at
        BY <1>3, <3>2, <4>1, StepsFacts, StepsAssumption DEF AtLoop, Here
      <4> QED
        BY <1>3, <2>1, <3>2, <4>1, <4>2, StepsFacts
    <3> QED
      BY <3>1, <3>2 DEF AtLoop
  <2>5. ASSUME NEW r \in Succeeded', rows'[r].step \in Keys
        PROVE  /\ rows'[r].iteration <= calls'[c].iterations[rows'[r].step]
               /\ \/ r \in calls'[c].cache
                  \/ rows'[r].step \in DOMAIN Loops
                  \/ \E j \in 1 .. calls'[c].at - 1 : Steps[j] = rows'[r].step
    <3>1. CASE r = k
      BY <1>3, <1>5, <2>1, <2>4, <3>1
    <3>2. CASE r # k
      <4>1. r \in Succeeded /\ rows'[r] = rows[r] /\ r \in DOMAIN rows
        BY <1>5, <3>2 DEF Succeeded
      <4>2. rows[r].iteration \in Nat
        BY <4>1, RowsTyped, RowTyped
      <4>3. /\ rows[r].iteration <= calls[c].iterations[rows[r].step]
            /\ \/ r \in calls[c].cache
               \/ rows[r].step \in DOMAIN Loops
               \/ \E j \in 1 .. calls[c].at - 1 : Steps[j] = rows[r].step
        BY <1>3, <2>5, <4>1 DEF Complete
      <4>4. rows[r].iteration <= calls'[c].iterations[rows[r].step]
        <5>1. CASE rows[r].step = s
          <6>1. r \in Outputs(s)
            BY <4>1, <5>1 DEF Outputs
          <6> QED
            BY <1>3, <1>4, <2>1, <4>2, <5>1, <6>1
        <5>2. CASE rows[r].step # s
          BY <1>3, <2>1, <2>5, <4>1, <4>3, <5>2
        <5> QED
          BY <5>1, <5>2
      <4> QED
        BY <2>1, <2>3, <4>1, <4>3, <4>4
    <3> QED
      BY <3>1, <3>2
  <2>6. ASSUME NEW x \in Scoring, NEW r \in Outputs(x)', rows'[r].iteration = calls'[c].iterations[x]
        PROVE  calls'[c].scores[x] = rows'[r].score
    <3>0. x \in Keys /\ r \in Succeeded' /\ rows'[r].step = x
      BY <2>6, StepsFacts DEF Outputs
    <3>1. CASE r = k
      BY <1>2, <1>5, <2>1, <3>0, <3>1 DEF k
    <3>2. CASE r # k
      <4>1. r \in Outputs(x) /\ rows'[r] = rows[r] /\ r \in DOMAIN rows
        BY <1>5, <3>0, <3>2 DEF Outputs, Succeeded
      <4>2. x # s
        <5> SUFFICES ASSUME x = s PROVE FALSE
          OBVIOUS
        <5>1. rows[r].iteration < i /\ rows[r].iteration = i
          BY <1>3, <1>4, <2>1, <2>6, <3>0, <4>1
        <5> QED
          BY <1>3, <5>1
      <4>3. calls'[c].iterations[x] = calls[c].iterations[x] /\ calls'[c].scores[x] = calls[c].scores[x]
        BY <1>3, <2>1, <3>0, <4>2
      <4> QED
        BY <1>3, <2>6, <4>1, <4>3 DEF Complete
    <3> QED
      BY <3>1, <3>2
  <2>7. Complete(c)'
    BY <2>5, <2>6 DEF Complete
  <2> QED
    BY <1>7, <2>2, <2>7
<1> QED
  BY <1>2, <1>8, <1>9

(* Proposing, and the row that records it, are no pass of a step.          *)
LEMMA ProposeMemory ==
  ASSUME PipelineInv, PassesInOrder, NEW c \in Calls, Complete(c),
         Propose(c) \/ RecordProposal(c)
  PROVE  PassesInOrder' /\ Complete(c)' /\ AsksAnew(c)'
<1>0. Walking(c)
  BY DEF Propose, RecordProposal, Walking
<1>1. CASE Propose(c)
  <2>1. rows' = rows /\ calls \in [Calls -> Call]
    BY <1>1, RowsTyped, ProposeOutcomes
  <2>2. Quiet
    BY <2>1, RowsTyped, GrownSame
  <2>3. CASE calls' = [calls EXCEPT ![c] = Halting(calls[c], "failed")]
    <3>1. calls'[c].pc = "halting"
      <4>1. PICK new : new = Halting(calls[c], "failed")
        OBVIOUS
      <4>2. new.pc = "halting"
        BY <4>1, RowsTyped, CallTyped, HaltingIs
      <4> QED
        BY <2>1, <2>3, <4>1, <4>2
    <3> QED
      BY <2>2, <3>1, RowsTyped, OrderStays, NoMemory DEF Walking
  <2>4. CASE calls'[c].pc = "proposed" /\ Remembers(calls'[c], c)
    BY <1>0, <2>2, <2>4, RowsTyped, OrderStays, CompleteStays DEF Remembers, AsksAnew
  <2> QED
    BY <1>1, <2>3, <2>4, ProposeOutcomes
<1>2. CASE RecordProposal(c) /\ ~Free("propose", 1, 1)
  <2>1. rows' = rows /\ calls'[c] = Fresh
    BY <1>2, RowsTyped DEF RecordProposal
  <2>2. ~Walking(c)'
    BY <2>1 DEF Walking, Fresh
  <2> QED
    BY <2>1, <2>2, RowsTyped, GrownSame, OrderStays, NoMemory
<1>3. CASE RecordProposal(c) /\ Free("propose", 1, 1)
  <2> DEFINE n == Len(rows) + 1
  <2>1. /\ DOMAIN rows' = DOMAIN rows \cup {n} /\ n \notin DOMAIN rows
        /\ \A r \in DOMAIN rows : rows'[r] = rows[r]
        /\ rows'[n].step = "propose" /\ rows'[n].status = "succeeded"
        /\ calls'[c].pc = "recorded" /\ Remembers(calls'[c], c)
    BY <1>3, RecordIs
  <2>2. \A r \in Succeeded : rows[r].step # "propose"
    BY <1>3, RowsTyped DEF Free, RowsAreNumbered, Succeeded
  <2>3. Succeeded' = Succeeded \cup {n} /\ \A r \in Succeeded : r \in DOMAIN rows /\ rows'[r] = rows[r]
    BY <2>1 DEF Succeeded
  <2> HIDE DEF n
  <2>4. PassesInOrder'
    <3> SUFFICES ASSUME NEW x \in Succeeded', NEW y \in Succeeded', rows'[x].step = rows'[y].step, x < y
                 PROVE  rows'[x].iteration < rows'[y].iteration
      BY DEF PassesInOrder
    <3>1. x # n /\ y # n
      <4>1. n \in Nat
        BY RowsTyped DEF n
      <4> QED
        BY <2>1, <2>2, <2>3, <4>1
    <3> QED
      BY <2>3, <3>1 DEF PassesInOrder
  <2>5. Complete(c)'
    <3>1. "propose" \notin Keys /\ Scoring \subseteq Keys
      BY StepsFacts
    <3>2. ASSUME NEW r \in Succeeded', rows'[r].step \in Keys
          PROVE  r \in Succeeded /\ rows'[r] = rows[r]
      BY <2>1, <2>3, <3>1, <3>2
    <3>3. ASSUME NEW s \in Scoring, NEW r \in Outputs(s)'
          PROVE  r \in Outputs(s) /\ rows'[r] = rows[r]
      BY <2>1, <2>3, <3>1, <3>3 DEF Outputs
    <3>4. /\ calls'[c].iterations = calls[c].iterations /\ calls'[c].scores = calls[c].scores
          /\ calls'[c].cache = calls[c].cache /\ calls'[c].at = calls[c].at
      BY <2>1 DEF Remembers
    <3> QED
      BY <1>0, <3>2, <3>3, <3>4 DEF Complete
  <2> QED
    BY <2>1, <2>4, <2>5 DEF AsksAnew
<1> QED
  BY <1>1, <1>2, <1>3

(* Nobody else executes, so nobody else's memory is spoilt.                *)
LEMMA MemoryNext ==
  ASSUME PipelineInv, Fence, Memory, [Next]_vars
  PROVE  Memory'
<1> SUFFICES ASSUME ~late' PROVE (PassesInOrder /\ \A c \in Calls : Complete(c) /\ AsksAnew(c))'
  BY DEF Memory
<1>0. calls \in [Calls -> Call] /\ late \in BOOLEAN /\ rows \in Seq(StepRow)
  BY RowsTyped
<1>1. late' = late => ~late
  OBVIOUS
<1>2. ~late => /\ LeaseCovers /\ PassesInOrder
               /\ \A c \in Calls : Complete(c) /\ AsksAnew(c)
  BY DEF Memory, Fence
<1>3. CASE UNCHANGED <<rows, calls>> /\ ~late
  <2>1. PassesInOrder'
    BY <1>2, <1>3 DEF PassesInOrder, Succeeded
  <2>2. ASSUME NEW c \in Calls PROVE Complete(c)' /\ AsksAnew(c)'
    <3>1. Complete(c) /\ AsksAnew(c)
      BY <1>2, <1>3
    <3> QED
      BY <1>3, <3>1 DEF Complete, AsksAnew, Walking, Outputs, Succeeded, Asked, AtLoop, Here
  <2> QED
    BY <2>1, <2>2
<1>4. CASE UNCHANGED <<run, rows, drafts, calls, clock, late, started, lost>>
  BY <1>1, <1>3, <1>4
<1>5. CASE Enqueue \/ Cancel
  BY <1>1, <1>3, <1>5 DEF Enqueue, Cancel
<1>6. CASE TimePasses
  <2>1. /\ UNCHANGED <<rows, calls>>
        /\ late' = (late \/ \E c \in Calls : Executing(c) /\ clock' > calls[c].deadline)
    BY <1>6 DEF TimePasses
  <2>2. ~late
    BY <2>1, Zenon
  <2> QED
    BY <1>3, <2>1, <2>2
<1>7. ASSUME NEW c \in Calls, Rests(c) PROVE (PassesInOrder /\ \A d \in Calls : Complete(d) /\ AsksAnew(d))'
  <2>1. /\ calls' = [calls EXCEPT ![c] = calls'[c]] /\ ~Executing(c)' /\ rows' = rows /\ late' = late
    BY <1>7, RestIs
  <2>2. PassesInOrder'
    BY <1>1, <1>2, <2>1 DEF PassesInOrder, Succeeded
  <2>3. ASSUME NEW d \in Calls PROVE Complete(d)' /\ AsksAnew(d)'
    <3>1. CASE d = c
      BY <2>1, <3>1, NoMemory DEF Executing, Walking
    <3>2. CASE d # c
      <4>1. Complete(d) /\ AsksAnew(d) /\ calls'[d] = calls[d]
        BY <1>0, <1>1, <1>2, <2>1, <3>2
      <4> QED
        BY <2>1, <4>1 DEF Complete, AsksAnew, Walking, Outputs, Succeeded, Asked, AtLoop, Here
    <3> QED
      BY <3>1, <3>2
  <2> QED
    BY <2>2, <2>3
<1>8. ASSUME NEW c \in Calls, calls' = [calls EXCEPT ![c] = calls'[c]],
             \A d \in Calls : Executing(d) => d = c,
             PassesInOrder', Complete(c)', AsksAnew(c)'
      PROVE  (PassesInOrder /\ \A d \in Calls : Complete(d) /\ AsksAnew(d))'
  <2>1. ASSUME NEW d \in Calls PROVE Complete(d)' /\ AsksAnew(d)'
    <3>1. CASE d = c
      BY <1>8, <3>1
    <3>2. CASE d # c
      <4>1. ~Executing(d) /\ calls'[d] = calls[d]
        BY <1>0, <1>8, <3>2
      <4> QED
        BY <4>1, NoMemory DEF Executing, Walking
    <3> QED
      BY <3>1, <3>2
  <2> QED
    BY <1>8, <2>1
<1>9. ASSUME NEW c \in Calls, Claim(c) PROVE (PassesInOrder /\ \A d \in Calls : Complete(d) /\ AsksAnew(d))'
  <2>1. late' = late /\ rows' = rows /\ Claimable /\ calls' = [calls EXCEPT ![c] = calls'[c]]
    BY <1>9, ClaimIs DEF Claim
  <2>2. \A d \in Calls : ~Executing(d)
    <3>1. LeaseCovers /\ clock \in Nat /\ run.leaseExpiresAt \in Nat
      BY <1>1, <1>2, <2>1, RowsTyped, RunTyped
    <3> QED
      BY <2>1, <3>1 DEF LeaseCovers, Claimable
  <2>3. PassesInOrder'
    BY <1>1, <1>2, <2>1 DEF PassesInOrder, Succeeded
  <2>4. Complete(c)' /\ AsksAnew(c)'
    BY <1>1, <1>2, <1>9, <2>1, ClaimCompletes
  <2> QED
    BY <1>8, <2>1, <2>2, <2>3, <2>4
<1>10. ASSUME NEW c \in Calls, Works(c) PROVE (PassesInOrder /\ \A d \in Calls : Complete(d) /\ AsksAnew(d))'
  <2>1. Executing(c) /\ calls' = [calls EXCEPT ![c] = calls'[c]] /\ late' = late
    BY <1>10, WorkIs
  <2>2. /\ \A d \in Calls : Executing(d) => d = c
        /\ PassesInOrder /\ Complete(c) /\ AsksAnew(c)
    BY <1>1, <1>2, <2>1 DEF LeaseCovers
  <2>3. PassesInOrder' /\ Complete(c)' /\ AsksAnew(c)'
    BY <1>10, <2>2, AdvanceMemory, LoopMemory, LeaveMemory, SucceedMemory, FailMemory,
       ProposeMemory DEF Works
  <2> QED
    BY <1>8, <2>1, <2>2, <2>3
<1>11. ASSUME NEW c \in Calls, Finish(c) \/ Crash(c)
       PROVE  (PassesInOrder /\ \A d \in Calls : Complete(d) /\ AsksAnew(d))'
  <2>1. /\ Executing(c) /\ calls' = [calls EXCEPT ![c] = calls'[c]] /\ ~Executing(c)'
        /\ late' = late /\ rows' = rows
    <3>1. CASE Finish(c)
      BY <3>1, FinishIs DEF Executing
    <3>2. CASE Crash(c)
      <4>1. Fresh.pc = "idle"
        BY DEF Fresh
      <4> QED
        BY <1>0, <3>2, <4>1 DEF Crash, Executing
    <3> QED
      BY <1>11, <3>1, <3>2
  <2>2. /\ \A d \in Calls : Executing(d) => d = c
        /\ PassesInOrder
    BY <1>1, <1>2, <2>1 DEF LeaseCovers
  <2>3. PassesInOrder' /\ Complete(c)' /\ AsksAnew(c)'
    BY <2>1, <2>2, NoMemory DEF PassesInOrder, Succeeded, Executing, Walking
  <2> QED
    BY <1>8, <2>1, <2>2, <2>3
<1> QED
  BY <1>4, <1>5, <1>6, <1>7, <1>9, <1>10, <1>11, NextIs

(* Resuming repeats nothing: until a call outlives its lease, no pass of   *)
(* any step is done twice, across all the calls that paused, died and took *)
(* over.                                                                   *)
THEOREM NoPassIsRepeated == Spec => []PassesAreDoneOnce
<1>1. Init => Fence /\ Memory
  BY DEF Init, Fence, LeaseCovers, Executing, Fresh, Memory, PassesInOrder, Succeeded, Complete,
         AsksAnew, Walking
<1>2. PipelineInv /\ Fence /\ Memory /\ [Next]_vars => (Fence /\ Memory)'
  BY FenceNext, MemoryNext
<1>3. PipelineInv /\ Memory => PassesAreDoneOnce
  <2> SUFFICES ASSUME PipelineInv, Memory, ~late,
                      NEW i \in Succeeded, NEW j \in Succeeded,
                      rows[i].step = rows[j].step, rows[i].iteration = rows[j].iteration
               PROVE  i = j
    BY DEF PassesAreDoneOnce, Succeeded
  <2>1. i \in Outputs(rows[i].step) /\ j \in Outputs(rows[i].step)
    BY DEF Outputs
  <2> QED
    BY <2>1, OneOutput DEF Memory
<1>4. Spec => [](Fence /\ Memory)
  BY <1>1, <1>2, PipelineInvariance, PTL DEF Spec
<1> QED
  BY <1>3, <1>4, PipelineInvariance, PTL

(***************************************************************************)
(* Until then a loop that a call has tried in vain is still needed.        *)
(***************************************************************************)

Needs == ~late => TriedLoopsStayNeeded /\ \A c \in Calls : LeavesLoops(c)

(* The call that executes, alone, with what is known of it.                *)
Alone(c) ==
    /\ \A d \in Calls : Executing(d) => d = c
    /\ PassesInOrder /\ Complete(c) /\ AsksAnew(c)
    /\ LeavesLoops(c) /\ TriedLoopsStayNeeded

(* A loop that is used up stays so.                                        *)
LEMMA SpentStays ==
  ASSUME PipelineInv, Grown, NEW l, Spent(l)
  PROVE  Spent(l)'
<1> QED
  BY RowsTyped, OutputsStay DEF Spent

(* A call at a loop has the score of a pass that was done.                 *)
LEMMA ScorerIsDone ==
  ASSUME PipelineInv, NEW c \in Calls, Walking(c), calls[c].at <= Len(Steps), AtLoop(c)
  PROVE  Outputs(Loops[Here(c)].scoreFrom) # {}
<1> DEFINE s == Loops[Here(c)].scoreFrom
<1>1. s \in Scoring /\ s \in Keys /\ s \notin DOMAIN Loops
  BY StepsFacts DEF AtLoop
<1>2. PICK j \in DOMAIN Steps : Steps[j] = s
  BY <1>1 DEF Keys
<1>3. calls[c].at \in DOMAIN Steps
  BY RowsTyped, CallTyped, StepsFacts
<1>4. j < calls[c].at
  BY <1>2, <1>3, StepsAssumption DEF AtLoop, Here
<1>5. j \in 1 .. calls[c].at - 1
  BY <1>3, <1>4, StepsFacts
<1>6. StepDone(s)
  BY <1>2, <1>5 DEF PipelineInv, Backed
<1> QED
  BY <1>1, <1>6 DEF StepDone

(* A call that knows everything knows the last score.                      *)
LEMMA KnowsTheScore ==
  ASSUME PipelineInv, NEW c \in Calls, Walking(c), Complete(c), NEW s \in Scoring, Outputs(s) # {}
  PROVE  ScoredLow(s) <=> calls[c].scores[s] # "high"
<1>1. s \in Keys /\ calls[c].iterations[s] \in Nat
  BY RowsTyped, CallTyped, StepsFacts
<1>2. \A r \in Outputs(s) : rows[r].iteration \in Nat \ {0} /\ rows[r].iteration <= calls[c].iterations[s]
  BY <1>1, RowsTyped, RowTyped DEF Outputs, Succeeded, Complete
<1>3. PICK last \in Outputs(s) : rows[last].iteration = calls[c].iterations[s]
  <2>1. calls[c].iterations[s] > 0
    BY <1>1, <1>2
  <2> QED
    BY <1>1, <2>1 DEF PipelineInv, Backed
<1>4. \A r \in Outputs(s) : rows[r].iteration = calls[c].iterations[s] => calls[c].scores[s] = rows[r].score
  BY DEF Complete
<1>5. ASSUME ScoredLow(s) PROVE calls[c].scores[s] # "high"
  <2>1. \A q \in Outputs(s) : rows[q].iteration <= rows[last].iteration
    BY <1>2, <1>3
  <2> QED
    BY <1>3, <1>4, <1>5, <2>1 DEF ScoredLow
<1>6. ASSUME calls[c].scores[s] # "high" PROVE ScoredLow(s)
  <2> SUFFICES ASSUME NEW r \in Outputs(s), \A q \in Outputs(s) : rows[q].iteration <= rows[r].iteration
               PROVE  rows[r].score # "high"
    BY DEF ScoredLow
  <2>1. rows[r].iteration = calls[c].iterations[s]
    <3>1. rows[last].iteration <= rows[r].iteration
      OBVIOUS
    <3>2. rows[r].iteration <= calls[c].iterations[s] /\ rows[r].iteration \in Nat
      BY <1>2
    <3> QED
      BY <1>1, <1>3, <3>1, <3>2
  <2> QED
    BY <1>4, <1>6, <2>1
<1> QED
  BY <1>5, <1>6

(* A loop was tried before unless the step itself tries it.                *)
LEMMA TriedBefore ==
  ASSUME PipelineInv, Grown, NEW k \in DOMAIN Steps, Tried(k)',
         \A n \in DOMAIN rows' \ DOMAIN rows :
            \/ rows'[n].step # Steps[k] \/ rows'[n].status = "skipped"
            \/ \E r \in DOMAIN rows : rows[r].step = Steps[k] /\ rows[r].status # "skipped"
  PROVE  Tried(k)
<1>1. Steps[k] \in DOMAIN Loops /\ Outputs(Steps[k]) = {}
  BY RowsTyped, OutputsStay DEF Tried
<1>2. PICK r \in DOMAIN rows' : rows'[r].step = Steps[k] /\ rows'[r].status # "skipped"
  BY DEF Tried
<1>3. CASE r \in DOMAIN rows
  <2>1. rows[r].step = Steps[k]
    BY <1>2, <1>3 DEF Grown
  <2>2. rows[r].status # "skipped"
    BY <1>2, <1>3 DEF Grown
  <2> QED
    BY <1>1, <1>3, <2>1, <2>2 DEF Tried
<1>4. CASE r \notin DOMAIN rows
  BY <1>1, <1>2, <1>4 DEF Tried
<1> QED
  BY <1>3, <1>4

(* A loop stays needed if its scorer has no new output.                    *)
LEMMA NeededStays ==
  ASSUME PipelineInv, Grown, NEW k \in DOMAIN Steps,
         Outputs(Loops[Steps[k]].scoreFrom)' = Outputs(Loops[Steps[k]].scoreFrom),
         TriedLoopsStayNeeded, Tried(k)
  PROVE  /\ ScoredLow(Loops[Steps[k]].scoreFrom)'
         /\ \A j \in 1 .. k - 1 :
               Steps[j] \in DOMAIN Loops
               /\ Loops[Steps[j]].scoreFrom = Loops[Steps[k]].scoreFrom => Spent(Steps[j])'
<1>1. /\ ScoredLow(Loops[Steps[k]].scoreFrom)
      /\ \A j \in 1 .. k - 1 :
            Steps[j] \in DOMAIN Loops
            /\ Loops[Steps[j]].scoreFrom = Loops[Steps[k]].scoreFrom => Spent(Steps[j])
  BY DEF TriedLoopsStayNeeded
<1>2. \A r \in Outputs(Loops[Steps[k]].scoreFrom) : rows'[r] = rows[r]
  BY RowsTyped, OutputsStay
<1>3. ScoredLow(Loops[Steps[k]].scoreFrom)'
  BY <1>1, <1>2 DEF ScoredLow
<1> QED
  BY <1>1, <1>3, SpentStays

(* Nobody but the call at work scores again.                               *)
LEMMA OthersRest ==
  ASSUME PipelineInv, NEW c \in Calls, Alone(c), calls' = [calls EXCEPT ![c] = calls'[c]]
  PROVE  \A d \in Calls : Rescoring(d)' \/ Executing(d)' => d = c
<1> SUFFICES ASSUME NEW d \in Calls, d # c PROVE ~Rescoring(d)' /\ ~Executing(d)'
  OBVIOUS
<1>1. ~Executing(d) /\ calls'[d] = calls[d]
  BY RowsTyped DEF Alone
<1> QED
  BY <1>1 DEF Executing, Rescoring

(* A step that does no pass and tries no loop.                             *)
LEMMA QuietNeeds ==
  ASSUME PipelineInv, NEW c \in Calls, Alone(c), calls' = [calls EXCEPT ![c] = calls'[c]], Quiet,
         Rescoring(c)' => Rescoring(c) /\ Here(c)' = Here(c),
         \A n \in DOMAIN rows' \ DOMAIN rows :
            \/ rows'[n].step \notin DOMAIN Loops \/ rows'[n].status = "skipped"
            \/ \E r \in DOMAIN rows : rows[r].step = rows'[n].step /\ rows[r].status # "skipped"
  PROVE  TriedLoopsStayNeeded'
<1> SUFFICES ASSUME NEW k \in DOMAIN Steps, Tried(k)'
             PROVE  /\ ScoredLow(Loops[Steps[k]].scoreFrom)'
                    /\ \A j \in 1 .. k - 1 :
                          Steps[j] \in DOMAIN Loops
                          /\ Loops[Steps[j]].scoreFrom = Loops[Steps[k]].scoreFrom => Spent(Steps[j])'
                    /\ \A d \in Calls : Rescoring(d)' =>
                          Loops[Here(d)'].scoreFrom # Loops[Steps[k]].scoreFrom
  BY DEF TriedLoopsStayNeeded
<1>1. Steps[k] \in DOMAIN Loops
  BY DEF Tried
<1>2. Tried(k)
  BY <1>1, TriedBefore DEF Quiet
<1>3. Outputs(Loops[Steps[k]].scoreFrom)' = Outputs(Loops[Steps[k]].scoreFrom)
  BY RowsTyped, QuietKeeps
<1>4. ASSUME NEW d \in Calls, Rescoring(d)'
      PROVE  Loops[Here(d)'].scoreFrom # Loops[Steps[k]].scoreFrom
  <2>1. d = c
    BY <1>4, OthersRest
  <2> QED
    BY <1>2, <1>4, <2>1 DEF Alone, TriedLoopsStayNeeded
<1> QED
  BY <1>2, <1>3, <1>4, NeededStays DEF Alone, Quiet

(* What a call has left for good it has left for good, if it keeps the     *)
(* scores.                                                                 *)
LEMMA LeftStays ==
  ASSUME PipelineInv, NEW c \in Calls, Walking(c), LeavesLoops(c), Grown,
         calls'[c].scores = calls[c].scores,
         \/ calls'[c].at = calls[c].at
         \/ /\ calls'[c].at = calls[c].at + 1 /\ calls[c].at <= Len(Steps)
            /\ AtLoop(c) /\ calls[c].scores[Loops[Here(c)].scoreFrom] # "high" => Spent(Here(c))
  PROVE  LeftForGood(c)'
<1>1. LeftForGood(c) /\ calls[c].at \in 1 .. Len(Steps) + 1 /\ Len(Steps) \in Nat
  BY RowsTyped, CallTyped, StepsFacts DEF LeavesLoops
<1> SUFFICES ASSUME NEW k \in 1 .. calls'[c].at - 1, Steps[k] \in DOMAIN Loops,
                    calls[c].scores[Loops[Steps[k]].scoreFrom] # "high"
             PROVE  Spent(Steps[k])'
  BY DEF LeftForGood
<1>2. Spent(Steps[k])
  <2>1. CASE k \in 1 .. calls[c].at - 1
    BY <1>1, <2>1 DEF LeftForGood
  <2>2. CASE k = calls[c].at /\ calls'[c].at = calls[c].at + 1
    BY <2>2 DEF AtLoop, Here
  <2> QED
    BY <1>1, <2>1, <2>2
<1> QED
  BY <1>2, SpentStays

(* A call that is over, or about to settle the run.                        *)
LEMMA NeedsWhenOver ==
  ASSUME PipelineInv, NEW c \in Calls, Alone(c), calls' = [calls EXCEPT ![c] = calls'[c]], Quiet,
         DOMAIN rows' = DOMAIN rows, ~Walking(c)'
  PROVE  TriedLoopsStayNeeded' /\ LeavesLoops(c)'
<1>1. ~Rescoring(c)' /\ LeavesLoops(c)'
  BY DEF Walking, Rescoring, LeavesLoops
<1> QED
  BY <1>1, QuietNeeds

(* A plain step: no loop depends on what is not done yet.                  *)
LEMMA AdvanceNeeds ==
  ASSUME PipelineInv, NEW c \in Calls, Alone(c), Advance(c)
  PROVE  TriedLoopsStayNeeded' /\ LeavesLoops(c)'
<1>1. PICK s, i : /\ s = Here(c) /\ IsPass(c, s, i)
                  /\ i = Max({calls[c].iterations[s], 1})
  BY AdvanceIsPass
<1>2. /\ ~AtLoop(c) /\ s \in Keys /\ s \notin DOMAIN Loops /\ Walking(c) /\ i \in Nat
      /\ calls[c].at <= Len(Steps) /\ calls' = [calls EXCEPT ![c] = calls'[c]]
      /\ calls[c].iterations[s] \in Nat
  BY <1>1, PassEffect, RowsTyped, CallTyped DEF Advance, IsPass, AtLoop
<1>3. i >= calls[c].iterations[s]
  BY <1>1, <1>2, MaxOfTwo
<1>4. CASE rows' = rows /\ calls'[c].pc = "halting"
  BY <1>2, <1>4, RowsTyped, GrownSame, NeedsWhenOver DEF Walking
<1>5. CASE /\ rows' = rows
           /\ \E q \in Outputs(s) :
                 /\ q \in calls[c].cache /\ rows[q].iteration = i
                 /\ AfterPass(calls'[c], c, s, i, rows[q].score)
  <2>1. PICK q \in Outputs(s) : rows[q].iteration = i /\ AfterPass(calls'[c], c, s, i, rows[q].score)
    BY <1>5
  <2>2. i = calls[c].iterations[s]
    BY <1>2, <1>3, <1>5, <2>1, ReplayStays DEF Alone
  <2>3. calls'[c].scores = calls[c].scores
    <3>1. calls[c].scores \in [Scoring -> Scores]
      BY RowsTyped, CallTyped
    <3>2. s \in Scoring => calls[c].scores[s] = rows[q].score
      BY <1>2, <2>1, <2>2 DEF Alone, Complete
    <3> QED
      BY <2>1, <3>1, <3>2 DEF AfterPass
  <2>4. calls'[c].pc = "ready" /\ calls'[c].at = calls[c].at + 1
    BY <1>2, <2>1 DEF AfterPass
  <2>5. Quiet
    BY <1>5, RowsTyped, GrownSame
  <2>6. LeftForGood(c)'
    BY <1>2, <2>3, <2>4, <2>5, LeftStays DEF Alone, Quiet
  <2>7. ~Rescoring(c)' /\ LeavesLoops(c)'
    BY <2>4, <2>6 DEF LeavesLoops, Rescoring
  <2> QED
    BY <1>2, <1>5, <2>5, <2>7, QuietNeeds
<1>6. CASE Miss(c, s, i)
  <2> DEFINE n == Len(rows) + 1
  <2>1. /\ Quiet /\ DOMAIN rows' = DOMAIN rows \cup {n} /\ rows'[n].step = s
        /\ calls'[c].pc = "asking" /\ Remembers(calls'[c], c)
    BY <1>1, <1>6, MissAppends
  <2>2. AtLoop(c)' = AtLoop(c)
    BY <2>1 DEF AtLoop, Here, Remembers
  <2>3. LeftForGood(c)'
    BY <1>2, <2>1, LeftStays DEF Alone, Quiet, Remembers
  <2>4. ~Rescoring(c)' /\ LeavesLoops(c)'
    BY <1>2, <2>1, <2>2, <2>3 DEF LeavesLoops, Rescoring
  <2> HIDE DEF n
  <2> QED
    BY <1>2, <2>1, <2>4, QuietNeeds
<1> QED
  BY <1>1, <1>4, <1>5, <1>6, PassEffect

(* A loop asks for a new iteration, which is never in the cache.           *)
LEMMA NothingToReplay ==
  ASSUME PipelineInv, NEW c \in Calls, Alone(c), NEW s, NEW i, IsPass(c, s, i),
         i = calls[c].iterations[s] + 1
  PROVE  /\ calls' = [calls EXCEPT ![c] = calls'[c]] /\ Walking(c) /\ s \in Keys
         /\ (rows' = rows /\ calls'[c].pc = "halting") \/ Miss(c, s, i)
<1>1. /\ s \in Keys /\ i \in Nat /\ calls[c].iterations[s] \in Nat /\ Walking(c)
      /\ calls[c].at <= Len(Steps)
  BY PassEffect, RowsTyped, CallTyped DEF IsPass
<1>2. i >= calls[c].iterations[s] /\ i # calls[c].iterations[s]
  BY <1>1
<1>3. ASSUME rows' = rows, NEW q \in Outputs(s), rows[q].iteration = i,
             AfterPass(calls'[c], c, s, i, rows[q].score)
      PROVE  FALSE
  BY <1>1, <1>2, <1>3, ReplayStays DEF Alone
<1> QED
  BY <1>1, <1>3, PassEffect

(* A loop is tried when the last score is low and the earlier loops that   *)
(* could have raised it are used up.                                       *)
LEMMA ReviseNeeds ==
  ASSUME PipelineInv, NEW c \in Calls, Alone(c), Revise(c)
  PROVE  TriedLoopsStayNeeded' /\ LeavesLoops(c)'
<1>1. PICK s, i : s = Here(c) /\ IsPass(c, s, i) /\ i = calls[c].iterations[s] + 1
  BY ReviseIsPass DEF Revisions
<1>2. /\ AtLoop(c) /\ ~GoodEnough(c) /\ s \in DOMAIN Loops
      /\ calls[c].at <= Len(Steps) /\ calls[c].at \in DOMAIN Steps
      /\ calls' = [calls EXCEPT ![c] = calls'[c]] /\ Walking(c)
  <2>1. calls' = [calls EXCEPT ![c] = calls'[c]] /\ Walking(c)
    BY <1>1, NothingToReplay
  <2>2. AtLoop(c) /\ ~GoodEnough(c) /\ calls[c].at <= Len(Steps)
    BY DEF Revise, AtStep
  <2>3. calls[c].at \in DOMAIN Steps
    BY <2>2, RowsTyped, CallTyped, StepsFacts
  <2> QED
    BY <1>1, <2>1, <2>2, <2>3 DEF AtLoop
<1>3. CASE rows' = rows /\ calls'[c].pc = "halting"
  BY <1>2, <1>3, RowsTyped, GrownSame, NeedsWhenOver DEF Walking
<1>4. CASE Miss(c, s, i)
  <2> DEFINE n == Len(rows) + 1
             scorer == Loops[s].scoreFrom
  <2>1. /\ Quiet /\ DOMAIN rows' = DOMAIN rows \cup {n} /\ rows'[n].step = s
        /\ calls'[c].pc = "asking" /\ calls'[c].row = n /\ Remembers(calls'[c], c)
    BY <1>1, <1>4, MissAppends
  <2>2. AtLoop(c)' = AtLoop(c) /\ Here(c)' = Here(c)
    BY <2>1 DEF AtLoop, Here, Remembers
  <2>3. Asked(c)'.step = Here(c)'
    BY <1>1, <2>1, <2>2 DEF Asked
  <2>4. ~Rescoring(c)'
    BY <2>1, <2>3 DEF Rescoring
  <2>5. LeftForGood(c)'
    BY <1>2, <2>1, LeftStays DEF Alone, Quiet, Remembers
  <2>6. LeavesLoops(c)'
    BY <1>2, <2>1, <2>2, <2>4, <2>5 DEF LeavesLoops, GoodEnough, Remembers
  <2>7. scorer \in Scoring /\ ScoredLow(scorer)
    <3>1. Outputs(scorer) # {} /\ scorer \in Scoring
      BY <1>1, <1>2, ScorerIsDone, StepsFacts
    <3>2. calls[c].scores[scorer] # "high"
      BY <1>1, <1>2 DEF GoodEnough
    <3> QED
      BY <1>2, <3>1, <3>2, KnowsTheScore DEF Alone
  <2>8. \A j \in 1 .. calls[c].at - 1 :
           Steps[j] \in DOMAIN Loops /\ Loops[Steps[j]].scoreFrom = scorer => Spent(Steps[j])
    BY <1>1, <1>2 DEF Alone, LeavesLoops, LeftForGood, GoodEnough
  <2>9. \A x : Outputs(x)' = Outputs(x) /\ \A r \in Outputs(x) : rows'[r] = rows[r]
    BY <2>1, RowsTyped, QuietKeeps
  <2> HIDE DEF n, scorer
  <2>10. ASSUME NEW k \in DOMAIN Steps, Tried(k)'
         PROVE  /\ ScoredLow(Loops[Steps[k]].scoreFrom)'
                /\ \A j \in 1 .. k - 1 :
                      Steps[j] \in DOMAIN Loops
                      /\ Loops[Steps[j]].scoreFrom = Loops[Steps[k]].scoreFrom => Spent(Steps[j])'
    <3>1. CASE k = calls[c].at
      <4>1. Steps[k] = s
        BY <1>1, <3>1 DEF Here
      <4>2. ScoredLow(scorer)'
        BY <2>7, <2>9 DEF ScoredLow
      <4> QED
        BY <2>1, <2>8, <3>1, <4>1, <4>2, SpentStays DEF Quiet, scorer
    <3>2. CASE k # calls[c].at
      <4>1. Steps[k] # s
        BY <1>1, <1>2, <3>2, StepsAssumption DEF Here
      <4>2. Tried(k)
        BY <2>1, <2>10, <4>1, TriedBefore DEF Quiet
      <4> QED
        BY <2>1, <2>9, <4>2, NeededStays DEF Alone, Quiet
    <3> QED
      BY <3>1, <3>2
  <2>11. \A d \in Calls : ~Rescoring(d)'
    BY <1>2, <2>4, OthersRest
  <2> QED
    BY <2>6, <2>10, <2>11 DEF TriedLoopsStayNeeded
<1> QED
  BY <1>1, <1>3, <1>4, NothingToReplay

(* A call that scores again asks for no loop.                              *)
LEMMA RescoreNeeds ==
  ASSUME PipelineInv, NEW c \in Calls, Alone(c), Rescore(c)
  PROVE  TriedLoopsStayNeeded' /\ LeavesLoops(c)'
<1>1. PICK s, i : /\ s \in Scoring /\ s # Here(c) /\ IsPass(c, s, i)
                  /\ i = calls[c].iterations[s] + 1
  BY RescoreIsPass
<1>2. /\ calls' = [calls EXCEPT ![c] = calls'[c]] /\ Walking(c) /\ s \notin DOMAIN Loops
      /\ Rescoring(c) /\ AtLoop(c)
  BY <1>1, NothingToReplay, StepsFacts DEF Rescore, Rescoring, PipelineInv, Consistent
<1>3. CASE rows' = rows /\ calls'[c].pc = "halting"
  BY <1>2, <1>3, RowsTyped, GrownSame, NeedsWhenOver DEF Walking
<1>4. CASE Miss(c, s, i)
  <2> DEFINE n == Len(rows) + 1
  <2>1. /\ Quiet /\ DOMAIN rows' = DOMAIN rows \cup {n} /\ rows'[n].step = s
        /\ calls'[c].pc = "asking" /\ calls'[c].row = n /\ Remembers(calls'[c], c)
    BY <1>1, <1>4, MissAppends
  <2>2. Here(c)' = Here(c)
    BY <2>1 DEF Here, Remembers
  <2>3. LeftForGood(c)'
    BY <1>2, <2>1, LeftStays DEF Alone, Quiet, Remembers
  <2>4. LeavesLoops(c)'
    BY <1>2, <2>1, <2>2, <2>3 DEF Alone, LeavesLoops, Remembers
  <2> HIDE DEF n
  <2> QED
    BY <1>2, <2>1, <2>2, <2>4, QuietNeeds
<1> QED
  BY <1>1, <1>3, <1>4, NothingToReplay

(* A loop is left when it is used up, or when the score is high.           *)
LEMMA LeaveNeeds ==
  ASSUME PipelineInv, NEW c \in Calls, Alone(c), LeaveLoop(c) \/ SkipLoop(c)
  PROVE  TriedLoopsStayNeeded' /\ LeavesLoops(c)'
<1>1. /\ Walking(c) /\ AtLoop(c) /\ calls[c].at <= Len(Steps) /\ calls[c].pc = "ready"
      /\ calls' = [calls EXCEPT ![c] = calls'[c]]
  <2>1. calls' = [calls EXCEPT ![c] = calls'[c]]
    BY WorkIs DEF Works
  <2> QED
    BY <2>1 DEF LeaveLoop, SkipLoop, AtStep, Walking
<1>2. CASE LeaveLoop(c)
  <2>1. /\ rows' = rows /\ calls' = [calls EXCEPT ![c].at = @ + 1]
        /\ calls \in [Calls -> Call] /\ calls[c] \in Call
    BY <1>2, RowsTyped DEF LeaveLoop
  <2>2. /\ calls'[c].pc = "ready" /\ calls'[c].at = calls[c].at + 1
        /\ calls'[c].scores = calls[c].scores
    BY <1>1, <2>1 DEF Call
  <2>3. ASSUME calls[c].scores[Loops[Here(c)].scoreFrom] # "high" PROVE Spent(Here(c))
    <3>1. Revisions(c) >= Loops[Here(c)].maxIterations
      BY <1>2, <2>3 DEF LeaveLoop, GoodEnough, Exhausted
    <3>2. /\ Here(c) \in DOMAIN Loops /\ Here(c) \in Keys
          /\ Loops[Here(c)].maxIterations \in Nat \ {0}
          /\ calls[c].iterations[Here(c)] \in Nat
      BY <1>1, RowsTyped, CallTyped, StepsFacts DEF AtLoop
    <3>3. calls[c].iterations[Here(c)] > 0
      BY <3>1, <3>2 DEF Revisions
    <3>4. PICK r \in Outputs(Here(c)) : rows[r].iteration = calls[c].iterations[Here(c)]
      BY <1>1, <3>2, <3>3 DEF PipelineInv, Backed
    <3> QED
      BY <3>1, <3>4 DEF Spent, Revisions
  <2>4. Quiet
    BY <2>1, RowsTyped, GrownSame
  <2>5. LeftForGood(c)'
    BY <1>1, <2>2, <2>3, <2>4, LeftStays DEF Alone, Quiet
  <2>6. ~Rescoring(c)' /\ LeavesLoops(c)'
    BY <2>2, <2>5 DEF LeavesLoops, Rescoring
  <2> QED
    BY <1>1, <2>1, <2>4, <2>6, QuietNeeds
<1>3. CASE SkipLoop(c) /\ Free(Here(c), 1, 1)
  <2> DEFINE n == Len(rows) + 1
  <2>1. /\ Quiet /\ DOMAIN rows' = DOMAIN rows \cup {n} /\ rows'[n].status = "skipped"
        /\ calls'[c].pc = "ready" /\ calls'[c].at = calls[c].at + 1
        /\ calls'[c].scores = calls[c].scores
    BY <1>3, SkipIs
  <2>2. GoodEnough(c)
    BY <1>3 DEF SkipLoop
  <2>3. LeftForGood(c)'
    BY <1>1, <2>1, <2>2, LeftStays DEF Alone, Quiet, GoodEnough
  <2>4. ~Rescoring(c)' /\ LeavesLoops(c)'
    BY <2>1, <2>3 DEF LeavesLoops, Rescoring
  <2> HIDE DEF n
  <2> QED
    BY <1>1, <2>1, <2>4, QuietNeeds
<1>4. CASE SkipLoop(c) /\ ~Free(Here(c), 1, 1)
  <2>1. rows' = rows /\ calls'[c] = Fresh
    BY <1>4, RowsTyped DEF SkipLoop
  <2>2. ~Walking(c)'
    BY <2>1 DEF Walking, Fresh
  <2> QED
    BY <1>1, <2>1, <2>2, RowsTyped, GrownSame, NeedsWhenOver
<1> QED
  BY <1>2, <1>3, <1>4

(* What an answer does to the passes that are done.                        *)
LEMMA AnswerIs ==
  ASSUME PipelineInv, NEW c \in Calls, Succeed(c), NEW s, NEW i,
         s = Asked(c).step, i = Asked(c).iteration
  PROVE  /\ calls[c].pc = "asking" /\ Walking(c) /\ Grown /\ DOMAIN rows' = DOMAIN rows
         /\ calls' = [calls EXCEPT ![c] = calls'[c]]
         /\ s \in Keys /\ i \in Nat \ {0} /\ calls[c].at \in DOMAIN Steps
         /\ s # Here(c) => AtLoop(c) /\ s = Loops[Here(c)].scoreFrom
         /\ s \in DOMAIN Loops => i <= Loops[s].maxIterations
         /\ calls[c].row \in Outputs(s)'
         /\ \A x : x # s => Outputs(x)' = Outputs(x)
         /\ \/ calls'[c].pc = "halting"
            \/ \E score \in Scores : AfterPass(calls'[c], c, s, i, score)
<1>1. PICK score \in Scores :
        /\ calls[c].pc = "asking" /\ Settled(c, "succeeded")
        /\ calls' = [calls EXCEPT ![c] = calls'[c]]
        /\ \/ calls'[c].pc = "halting"
           \/ AfterPass(calls'[c], c, s, i, score)
  BY SucceedIs
<1>2. /\ Walking(c) /\ calls[c].row \in DOMAIN rows /\ s \in Keys /\ i \in Nat \ {0}
      /\ s # Here(c) => AtLoop(c) /\ s = Loops[Here(c)].scoreFrom
      /\ calls[c].at \in DOMAIN Steps /\ rows[calls[c].row].status = "running"
  BY <1>1, AskedIs, StepsFacts DEF Asked
<1>3. Grown /\ Succeeded' = Succeeded \cup {calls[c].row} /\ DOMAIN rows' = DOMAIN rows
  BY <1>1, SettledGrows DEF Settled
<1>4. s \in DOMAIN Loops => i <= Loops[s].maxIterations
  BY <1>2, RowsTyped DEF RowsAreNumbered, Asked
<1>5. rows'[calls[c].row].step = s
  BY <1>1 DEF Settled
<1>6. calls[c].row \in Outputs(s)'
  BY <1>3, <1>5 DEF Outputs
<1>7. \A r \in Succeeded : rows'[r] = rows[r]
  BY <1>3, RowsTyped, GrownKeeps
<1>8. \A x : x # s => Outputs(x)' = Outputs(x)
  BY <1>2, <1>3, <1>5, <1>7 DEF Outputs, Succeeded
<1> QED
  BY <1>1, <1>2, <1>3, <1>4, <1>6, <1>8

(* A revision uses up its loop or leaves the earlier ones used up; a new   *)
(* score comes only when no loop that was tried in vain waits for it.      *)
LEMMA SucceedNeeds ==
  ASSUME PipelineInv, NEW c \in Calls, Alone(c), Succeed(c)
  PROVE  TriedLoopsStayNeeded' /\ LeavesLoops(c)'
<1>1. PICK s, i : s = Asked(c).step /\ i = Asked(c).iteration
  OBVIOUS
<1>2. /\ calls[c].pc = "asking" /\ Walking(c) /\ Grown /\ DOMAIN rows' = DOMAIN rows
      /\ calls' = [calls EXCEPT ![c] = calls'[c]]
      /\ s \in Keys /\ i \in Nat \ {0} /\ calls[c].at \in DOMAIN Steps
      /\ s # Here(c) => AtLoop(c) /\ s = Loops[Here(c)].scoreFrom
      /\ s \in DOMAIN Loops => i <= Loops[s].maxIterations
      /\ calls[c].row \in Outputs(s)'
      /\ \A x : x # s => Outputs(x)' = Outputs(x)
      /\ \/ calls'[c].pc = "halting"
         \/ \E score \in Scores : AfterPass(calls'[c], c, s, i, score)
  BY <1>1, AnswerIs
<1>3. /\ \A r \in Outputs(s) : rows[r].iteration < i
      /\ ~AtLoop(c) => Outputs(s) = {}
  BY <1>1, <1>2 DEF Alone, AsksAnew
<1>4. /\ LeftForGood(c)
      /\ AtLoop(c) => calls[c].scores[Loops[Here(c)].scoreFrom] # "high"
      /\ AtLoop(c) /\ s # Here(c) => Rescoring(c)
  BY <1>1, <1>2 DEF Alone, LeavesLoops, Rescoring
<1>5. AtLoop(c) => /\ Here(c) \in DOMAIN Loops /\ Here(c) \notin Scoring
                   /\ Loops[Here(c)].scoreFrom \in Scoring
  BY StepsFacts DEF AtLoop
<1>6. ASSUME NEW m \in DOMAIN Steps, Tried(m)'
      PROVE  /\ Tried(m) /\ Steps[m] # s /\ Steps[m] \in DOMAIN Loops
             /\ Loops[Steps[m]].scoreFrom \in Scoring /\ Loops[Steps[m]].scoreFrom # s
  <2>1. Tried(m) /\ Steps[m] \in DOMAIN Loops /\ Steps[m] # s
    BY <1>2, <1>6, TriedBefore DEF Tried
  <2>2. Loops[Steps[m]].scoreFrom \in Scoring
    BY <2>1, StepsFacts
  <2>3. Loops[Steps[m]].scoreFrom # s
    <3>1. ScoredLow(Loops[Steps[m]].scoreFrom)
      BY <2>1 DEF Alone, TriedLoopsStayNeeded
    <3>2. CASE ~AtLoop(c)
      BY <1>3, <3>1, <3>2 DEF ScoredLow
    <3>3. CASE AtLoop(c) /\ s = Here(c)
      BY <1>5, <2>2, <3>3
    <3>4. CASE AtLoop(c) /\ s # Here(c)
      <4>1. Rescoring(c) /\ s = Loops[Here(c)].scoreFrom
        BY <1>2, <1>4, <3>4
      <4> QED
        BY <2>1, <4>1 DEF Alone, TriedLoopsStayNeeded
    <3> QED
      BY <3>2, <3>3, <3>4
  <2> QED
    BY <2>1, <2>2, <2>3
<1>7. ASSUME NEW m \in DOMAIN Steps, Tried(m)', Rescoring(c)'
      PROVE  Loops[Here(c)'].scoreFrom # Loops[Steps[m]].scoreFrom
  <2>1. PICK score \in Scores : AfterPass(calls'[c], c, s, i, score)
    BY <1>2, <1>7 DEF Rescoring
  <2>2. AtLoop(c) /\ s = Here(c) /\ Here(c)' = Here(c)
    BY <1>7, <2>1 DEF Rescoring, AfterPass, Here
  <2>3. Tried(m) /\ Steps[m] # s /\ Steps[m] \in DOMAIN Loops
    BY <1>6, <1>7
  <2> SUFFICES ASSUME Loops[Here(c)].scoreFrom = Loops[Steps[m]].scoreFrom PROVE FALSE
    BY <2>2
  <2>4. CASE m < calls[c].at
    <3>1. m \in 1 .. calls[c].at - 1
      BY <1>2, <2>4, StepsFacts
    <3>2. Spent(Steps[m])
      BY <1>4, <2>2, <2>3, <3>1 DEF LeftForGood
    <3> QED
      BY <2>3, <3>2 DEF Tried, Spent
  <2>5. CASE m > calls[c].at
    <3>1. calls[c].at \in 1 .. m - 1 /\ Steps[calls[c].at] = s
      BY <1>2, <2>2, <2>5, StepsFacts DEF Here
    <3>2. Spent(s)
      BY <1>5, <2>2, <2>3, <3>1 DEF Alone, TriedLoopsStayNeeded
    <3>3. PICK r \in Outputs(s) : rows[r].iteration >= Loops[s].maxIterations
      BY <3>2 DEF Spent
    <3>4. rows[r].iteration \in Nat /\ Loops[s].maxIterations \in Nat
      BY <1>5, <2>2, RowsTyped, RowTyped, StepsFacts DEF Outputs, Succeeded
    <3> QED
      BY <1>2, <1>3, <1>5, <2>2, <3>3, <3>4
  <2> QED
    BY <1>2, <2>2, <2>3, <2>4, <2>5, StepsFacts DEF Here
<1>8. TriedLoopsStayNeeded'
  <2> SUFFICES ASSUME NEW m \in DOMAIN Steps, Tried(m)'
               PROVE  /\ ScoredLow(Loops[Steps[m]].scoreFrom)'
                      /\ \A j \in 1 .. m - 1 :
                            Steps[j] \in DOMAIN Loops
                            /\ Loops[Steps[j]].scoreFrom = Loops[Steps[m]].scoreFrom => Spent(Steps[j])'
                      /\ \A d \in Calls : Rescoring(d)' =>
                            Loops[Here(d)'].scoreFrom # Loops[Steps[m]].scoreFrom
    BY DEF TriedLoopsStayNeeded
  <2>1. Tried(m) /\ Loops[Steps[m]].scoreFrom # s
    BY <1>6
  <2>2. Outputs(Loops[Steps[m]].scoreFrom)' = Outputs(Loops[Steps[m]].scoreFrom)
    BY <1>2, <2>1
  <2>3. \A d \in Calls : Rescoring(d)' => d = c
    BY <1>2, OthersRest
  <2> QED
    BY <1>2, <1>7, <2>1, <2>2, <2>3, NeededStays DEF Alone
<1>9. CASE calls'[c].pc = "halting"
  BY <1>8, <1>9 DEF LeavesLoops, Walking
<1>10. CASE \E score \in Scores : AfterPass(calls'[c], c, s, i, score)
  <2>1. PICK score \in Scores : AfterPass(calls'[c], c, s, i, score)
    BY <1>10
  <2>2. /\ calls'[c].pc = IF AtLoop(c) /\ s = Here(c) THEN "rescore" ELSE "ready"
        /\ calls'[c].at = IF AtLoop(c) THEN calls[c].at ELSE calls[c].at + 1
        /\ calls'[c].iterations = [calls[c].iterations EXCEPT ![s] = i]
        /\ \A x \in Scoring : x # s => calls'[c].scores[x] = calls[c].scores[x]
        /\ calls[c].iterations \in [Keys -> Nat]
    BY <2>1, RowsTyped, CallTyped DEF AfterPass
  <2>3. LeftForGood(c)'
    <3> SUFFICES ASSUME NEW k \in 1 .. calls'[c].at - 1, Steps[k] \in DOMAIN Loops,
                        calls'[c].scores[Loops[Steps[k]].scoreFrom] # "high"
                 PROVE  Spent(Steps[k])'
      BY DEF LeftForGood
    <3>0. Loops[Steps[k]].scoreFrom \in Scoring
      BY StepsFacts
    <3>1. k \in 1 .. calls[c].at - 1 /\ k \in DOMAIN Steps
      <4>1. CASE AtLoop(c)
        BY <1>2, <2>2, <4>1, StepsFacts
      <4>2. CASE ~AtLoop(c)
        <5>1. k # calls[c].at
          BY <4>2 DEF AtLoop, Here
        <5> QED
          BY <1>2, <2>2, <4>2, <5>1, StepsFacts
      <4> QED
        BY <4>1, <4>2
    <3>2. calls[c].scores[Loops[Steps[k]].scoreFrom] # "high"
      <4>1. CASE Loops[Steps[k]].scoreFrom # s
        BY <2>2, <3>0, <4>1
      <4>2. CASE Loops[Steps[k]].scoreFrom = s /\ s = Here(c)
        <5>1. calls[c].at < k
          BY <1>2, <3>1, <4>2, StepsAssumption DEF Here
        <5> QED
          BY <1>2, <3>1, <5>1, StepsFacts
      <4>3. CASE Loops[Steps[k]].scoreFrom = s /\ s # Here(c)
        BY <1>2, <1>4, <4>3
      <4> QED
        BY <4>1, <4>2, <4>3
    <3>3. Spent(Steps[k])
      BY <1>4, <3>1, <3>2 DEF LeftForGood
    <3> QED
      BY <1>2, <3>3, SpentStays
  <2>4. ASSUME Rescoring(c)' \/ calls'[c].pc = "asking"
        PROVE  /\ calls'[c].iterations[Here(c)'] > 0
               /\ calls'[c].scores[Loops[Here(c)'].scoreFrom] # "high"
    <3>1. AtLoop(c) /\ s = Here(c) /\ Here(c)' = Here(c)
      BY <2>2, <2>4 DEF Rescoring, Here
    <3>2. Loops[Here(c)].scoreFrom # s
      BY <1>5, <3>1
    <3> QED
      BY <1>2, <1>4, <1>5, <2>2, <3>1, <3>2
  <2> QED
    BY <1>8, <2>3, <2>4 DEF LeavesLoops
<1> QED
  BY <1>2, <1>9, <1>10

(* What a failed attempt, or a question to a person, comes to.             *)
LEMMA FailIs ==
  ASSUME PipelineInv, NEW c \in Calls, Fail(c) \/ NeedsHuman(c)
  PROVE  /\ calls[c].pc = "asking" /\ Walking(c) /\ calls' = [calls EXCEPT ![c] = calls'[c]]
         /\ UNCHANGED <<run, drafts, clock, late, started, lost>>
         /\ \/ /\ Settled(c, "failed") /\ calls'[c].pc = "halting"
               /\ calls'[c].checklist = calls[c].checklist
            \/ /\ Settled(c, "failed") /\ calls'[c] = Fresh
               /\ ~Free(Asked(c).step, Asked(c).iteration, Asked(c).attempt + 1)
            \/ Retry(c)
<1>0. calls[c].pc = "asking" /\ Walking(c) /\ calls \in [Calls -> Call]
  BY RowsTyped DEF Fail, NeedsHuman, Walking
<1>1. CASE Fail(c)
  <2>1. UNCHANGED <<run, drafts, clock, late, started, lost>>
    BY <1>1, FailOutcomes
  <2>2. CASE /\ Settled(c, "failed")
             /\ calls' = [calls EXCEPT ![c] =
                     Halting([calls[c] EXCEPT !.usedTokens = @ + 1], "failed")]
    <3>1. "failed" \in {"failed", "escalated"}
      OBVIOUS
    <3>2. /\ calls' = [calls EXCEPT ![c] = calls'[c]] /\ calls'[c].pc = "halting"
          /\ calls'[c].checklist = calls[c].checklist
      BY <2>2, <3>1, HaltsIs
    <3> QED
      BY <1>0, <2>1, <2>2, <3>2
  <2>3. CASE Retry(c)
    BY <1>0, <2>1, <2>3, RetryIs
  <2>4. CASE /\ Settled(c, "failed") /\ calls' = [calls EXCEPT ![c] = Fresh]
             /\ ~Free(Asked(c).step, Asked(c).iteration, Asked(c).attempt + 1)
    BY <1>0, <2>1, <2>4
  <2> QED
    BY <1>1, <2>2, <2>3, <2>4, FailOutcomes
<1>2. CASE NeedsHuman(c)
  <2>1. /\ Settle(c, "failed", NoDraft, "none")
        /\ calls' = [calls EXCEPT ![c] =
               Halting([calls[c] EXCEPT !.usedTokens = @ + 1], "escalated")]
        /\ UNCHANGED <<run, drafts, clock, late, started, lost>>
    BY <1>2, Zenon DEF NeedsHuman
  <2>2. /\ NoDraft \in Draft \cup {NoDraft} /\ "none" \in Scores
        /\ "failed" \in {"succeeded", "failed"} /\ "escalated" \in {"failed", "escalated"}
    BY DEF Scores
  <2>3. Settled(c, "failed")
    BY <1>0, <2>1, <2>2, SettleIs
  <2>4. /\ calls' = [calls EXCEPT ![c] = calls'[c]] /\ calls'[c].pc = "halting"
        /\ calls'[c].checklist = calls[c].checklist
    BY <2>1, <2>2, HaltsIs
  <2> QED
    BY <1>0, <2>1, <2>3, <2>4
<1> QED
  BY <1>1, <1>2

(* A failed attempt changes nothing for the loops.                         *)
LEMMA FailNeeds ==
  ASSUME PipelineInv, NEW c \in Calls, Alone(c), Fail(c) \/ NeedsHuman(c)
  PROVE  TriedLoopsStayNeeded' /\ LeavesLoops(c)'
<1>1. /\ calls[c].pc = "asking" /\ Walking(c) /\ calls' = [calls EXCEPT ![c] = calls'[c]]
      /\ drafts' = drafts
  BY FailIs
<1>2. CASE Settled(c, "failed") /\ calls'[c].pc \in {"halting", "idle"}
  <2>1. Quiet /\ DOMAIN rows' = DOMAIN rows
    BY <1>1, <1>2, SettledGrows DEF Settled
  <2> QED
    BY <1>1, <1>2, <2>1, NeedsWhenOver DEF Walking
<1>3. CASE Retry(c)
  <2> DEFINE n == Len(rows) + 1
  <2>1. /\ Quiet /\ DOMAIN rows' = DOMAIN rows \cup {n}
        /\ rows'[n].step = Asked(c).step
        /\ calls'[c].pc = "asking" /\ calls'[c].row = n
        /\ Remembers(calls'[c], c)
    BY <1>1, <1>3, RetryIs
  <2>2. /\ calls[c].row \in DOMAIN rows /\ rows[calls[c].row].step = Asked(c).step
        /\ rows[calls[c].row].status # "skipped"
    BY <1>1, AskedIs DEF Asked
  <2>3. Here(c)' = Here(c) /\ AtLoop(c)' = AtLoop(c) /\ Asked(c)' = rows'[n]
    BY <2>1 DEF Here, AtLoop, Asked, Remembers
  <2>4. Rescoring(c)' = Rescoring(c)
    BY <1>1, <2>1, <2>3 DEF Rescoring
  <2>5. LeftForGood(c)'
    BY <1>1, <2>1, LeftStays DEF Alone, Quiet, Remembers
  <2>6. LeavesLoops(c)'
    BY <1>1, <2>1, <2>3, <2>4, <2>5 DEF Alone, LeavesLoops, Remembers
  <2> HIDE DEF n
  <2> QED
    BY <1>1, <2>1, <2>2, <2>3, <2>4, <2>6, QuietNeeds
<1>4. Fresh.pc = "idle"
  BY DEF Fresh
<1> QED
  BY <1>2, <1>3, <1>4, FailIs

(* Nor does a proposal.                                                    *)
LEMMA ProposeNeeds ==
  ASSUME PipelineInv, NEW c \in Calls, Alone(c), Propose(c) \/ RecordProposal(c)
  PROVE  TriedLoopsStayNeeded' /\ LeavesLoops(c)'
<1>1. Walking(c) /\ calls' = [calls EXCEPT ![c] = calls'[c]] /\ calls \in [Calls -> Call]
  BY WorkIs, RowsTyped DEF Works
<1>2. CASE rows' = rows /\ ~Walking(c)'
  BY <1>1, <1>2, RowsTyped, GrownSame, NeedsWhenOver
<1>3. CASE Propose(c) /\ calls'[c].pc = "proposed" /\ Remembers(calls'[c], c)
  <2>1. rows' = rows
    BY <1>3, ProposeOutcomes
  <2>2. Quiet
    BY <2>1, RowsTyped, GrownSame
  <2>3. LeftForGood(c)'
    BY <1>1, <1>3, <2>2, LeftStays DEF Alone, Quiet, Remembers
  <2>4. ~Rescoring(c)' /\ LeavesLoops(c)'
    BY <1>3, <2>3 DEF LeavesLoops, Rescoring
  <2> QED
    BY <1>1, <2>1, <2>2, <2>4, QuietNeeds
<1>4. CASE RecordProposal(c) /\ Free("propose", 1, 1)
  <2> DEFINE n == Len(rows) + 1
  <2>1. /\ Grown /\ DOMAIN rows' = DOMAIN rows \cup {n}
        /\ \A r \in DOMAIN rows : rows'[r] = rows[r]
        /\ rows'[n].step = "propose"
        /\ calls'[c].pc = "recorded" /\ Remembers(calls'[c], c)
    BY <1>4, RecordIs
  <2>2. LeftForGood(c)'
    BY <1>1, <2>1, LeftStays DEF Alone, Remembers
  <2>3. ~Rescoring(c)' /\ LeavesLoops(c)'
    BY <2>1, <2>2 DEF LeavesLoops, Rescoring
  <2> HIDE DEF n
  <2>4. \A s \in Keys : Outputs(s)' = Outputs(s)
    BY <2>1, StepsFacts DEF Outputs, Succeeded
  <2>5. ASSUME NEW k \in DOMAIN Steps, Tried(k)'
        PROVE  /\ Tried(k) /\ Loops[Steps[k]].scoreFrom \in Keys
    <3>1. Steps[k] \in DOMAIN Loops /\ Steps[k] # "propose"
      BY <2>5, StepsFacts DEF Tried
    <3> QED
      BY <2>1, <2>5, <3>1, TriedBefore, StepsFacts
  <2>6. TriedLoopsStayNeeded'
    <3>1. \A d \in Calls : ~Rescoring(d)'
      BY <1>1, <2>3, OthersRest
    <3>2. ASSUME NEW k \in DOMAIN Steps, Tried(k)'
          PROVE  /\ ScoredLow(Loops[Steps[k]].scoreFrom)'
                 /\ \A j \in 1 .. k - 1 :
                       Steps[j] \in DOMAIN Loops
                       /\ Loops[Steps[j]].scoreFrom = Loops[Steps[k]].scoreFrom => Spent(Steps[j])'
      BY <2>1, <2>4, <2>5, <3>2, NeededStays DEF Alone
    <3> QED
      BY <3>1, <3>2 DEF TriedLoopsStayNeeded
  <2> QED
    BY <2>3, <2>6
<1>5. CASE RecordProposal(c) /\ ~Free("propose", 1, 1)
  <2>1. rows' = rows /\ calls'[c] = Fresh
    BY <1>5, RowsTyped DEF RecordProposal
  <2> QED
    BY <1>2, <2>1 DEF Walking, Fresh
<1>6. CASE Propose(c) /\ calls' = [calls EXCEPT ![c] = Halting(calls[c], "failed")]
  <2>1. PICK new : new = Halting(calls[c], "failed")
    OBVIOUS
  <2>2. new.pc = "halting"
    BY <2>1, RowsTyped, CallTyped, HaltingIs
  <2>3. rows' = rows /\ calls'[c].pc = "halting"
    BY <1>1, <1>6, <2>1, <2>2, ProposeOutcomes
  <2> QED
    BY <1>2, <2>3 DEF Walking
<1> QED
  BY <1>3, <1>4, <1>5, <1>6, ProposeOutcomes

(* A step of a call that does not execute, or of the world around, leaves  *)
(* the loops alone.                                                        *)
LEMMA NeedsRest ==
  ASSUME PipelineInv, rows' = rows, \A d \in Calls : calls'[d] = calls[d] \/ ~Executing(d)',
         TriedLoopsStayNeeded, \A d \in Calls : LeavesLoops(d)
  PROVE  TriedLoopsStayNeeded' /\ \A d \in Calls : LeavesLoops(d)'
<1>1. Quiet
  BY RowsTyped, GrownSame
<1>2. \A x : Outputs(x)' = Outputs(x) /\ (Spent(x)' <=> Spent(x)) /\ (ScoredLow(x)' <=> ScoredLow(x))
  BY DEF Outputs, Succeeded, Spent, ScoredLow
<1>3. \A k : Tried(k)' <=> Tried(k)
  BY <1>2 DEF Tried
<1>4. ASSUME NEW d \in Calls, calls'[d] = calls[d]
      PROVE  /\ Rescoring(d)' <=> Rescoring(d)
             /\ Here(d)' = Here(d) /\ (AtLoop(d)' <=> AtLoop(d)) /\ (Walking(d)' <=> Walking(d))
  BY <1>4 DEF Rescoring, Here, AtLoop, Walking, Asked
<1>5. ASSUME NEW d \in Calls, ~Executing(d)' PROVE ~Rescoring(d)' /\ ~Walking(d)'
  BY <1>5 DEF Executing, Rescoring, Walking
<1>6. TriedLoopsStayNeeded'
  <2> SUFFICES ASSUME NEW k \in DOMAIN Steps, Tried(k)'
               PROVE  /\ ScoredLow(Loops[Steps[k]].scoreFrom)'
                      /\ \A j \in 1 .. k - 1 :
                            Steps[j] \in DOMAIN Loops
                            /\ Loops[Steps[j]].scoreFrom = Loops[Steps[k]].scoreFrom => Spent(Steps[j])'
                      /\ \A d \in Calls : Rescoring(d)' =>
                            Loops[Here(d)'].scoreFrom # Loops[Steps[k]].scoreFrom
    BY DEF TriedLoopsStayNeeded
  <2>1. Tried(k)
    BY <1>3
  <2>2. /\ ScoredLow(Loops[Steps[k]].scoreFrom)'
        /\ \A j \in 1 .. k - 1 :
              Steps[j] \in DOMAIN Loops
              /\ Loops[Steps[j]].scoreFrom = Loops[Steps[k]].scoreFrom => Spent(Steps[j])'
    BY <1>2, <2>1 DEF TriedLoopsStayNeeded
  <2>3. ASSUME NEW d \in Calls, Rescoring(d)'
        PROVE  Loops[Here(d)'].scoreFrom # Loops[Steps[k]].scoreFrom
    <3>1. Rescoring(d) /\ Here(d)' = Here(d)
      BY <1>4, <1>5, <2>3
    <3> QED
      BY <2>1, <3>1 DEF TriedLoopsStayNeeded
  <2> QED
    BY <2>2, <2>3
<1>7. ASSUME NEW d \in Calls PROVE LeavesLoops(d)'
  <2>1. CASE calls'[d] = calls[d]
    <3>1. LeavesLoops(d)
      OBVIOUS
    <3>2. LeftForGood(d)' <=> LeftForGood(d)
      BY <1>2, <2>1 DEF LeftForGood
    <3> QED
      BY <1>4, <2>1, <3>1, <3>2 DEF LeavesLoops
  <2>2. CASE ~Executing(d)'
    BY <1>5, <2>2 DEF LeavesLoops
  <2> QED
    BY <2>1, <2>2
<1> QED
  BY <1>6, <1>7

(* Every step keeps what is known of the loops.                            *)
LEMMA NeedsNext ==
  ASSUME PipelineInv, Fence, Memory, Needs, [Next]_vars
  PROVE  Needs'
<1> SUFFICES ASSUME ~late' PROVE TriedLoopsStayNeeded' /\ \A c \in Calls : LeavesLoops(c)'
  BY DEF Needs
<1>0. calls \in [Calls -> Call] /\ late \in BOOLEAN
  BY RowsTyped
<1>1. late' = late => ~late
  OBVIOUS
<1>2. ~late => /\ LeaseCovers /\ PassesInOrder /\ TriedLoopsStayNeeded
               /\ \A c \in Calls : Complete(c) /\ AsksAnew(c) /\ LeavesLoops(c)
  BY DEF Memory, Fence, Needs
<1>3. CASE UNCHANGED <<run, rows, drafts, calls, clock, late, started, lost>>
  BY <1>1, <1>2, <1>3, NeedsRest
<1>4. CASE Enqueue \/ Cancel
  BY <1>1, <1>2, <1>4, NeedsRest DEF Enqueue, Cancel
<1>5. CASE TimePasses
  <2>1. /\ UNCHANGED <<rows, calls>>
        /\ late' = (late \/ \E c \in Calls : Executing(c) /\ clock' > calls[c].deadline)
    BY <1>5 DEF TimePasses
  <2>2. ~late
    BY <2>1, Zenon
  <2> QED
    BY <1>2, <2>1, <2>2, NeedsRest
<1>6. ASSUME NEW c \in Calls, Rests(c)
      PROVE  TriedLoopsStayNeeded' /\ \A d \in Calls : LeavesLoops(d)'
  <2>1. /\ calls' = [calls EXCEPT ![c] = calls'[c]] /\ ~Executing(c)' /\ rows' = rows /\ late' = late
    BY <1>6, RestIs
  <2>2. \A d \in Calls : calls'[d] = calls[d] \/ ~Executing(d)'
    BY <1>0, <2>1
  <2> QED
    BY <1>1, <1>2, <2>1, <2>2, NeedsRest
<1>7. ASSUME NEW c \in Calls, Alone(c), calls' = [calls EXCEPT ![c] = calls'[c]],
             TriedLoopsStayNeeded', LeavesLoops(c)'
      PROVE  TriedLoopsStayNeeded' /\ \A d \in Calls : LeavesLoops(d)'
  <2>1. ASSUME NEW d \in Calls, d # c PROVE LeavesLoops(d)'
    <3>1. ~Executing(d)'
      BY <1>7, <2>1, OthersRest
    <3> QED
      BY <3>1 DEF LeavesLoops, Executing, Walking
  <2> QED
    BY <1>7, <2>1
<1>8. ASSUME NEW c \in Calls, Claim(c)
      PROVE  TriedLoopsStayNeeded' /\ \A d \in Calls : LeavesLoops(d)'
  <2>1. /\ late' = late /\ rows' = rows /\ Claimable /\ calls' = [calls EXCEPT ![c] = calls'[c]]
        /\ calls'[c].pc = "halting" \/ (calls'[c].pc = "ready" /\ calls'[c].at = 1)
    BY <1>8, ClaimIs DEF Claim
  <2>2. \A d \in Calls : ~Executing(d)
    <3>1. LeaseCovers /\ clock \in Nat /\ run.leaseExpiresAt \in Nat
      BY <1>1, <1>2, <2>1, RowsTyped, RunTyped
    <3> QED
      BY <2>1, <3>1 DEF LeaseCovers, Claimable
  <2>3. Alone(c)
    BY <1>1, <1>2, <2>1, <2>2 DEF Alone
  <2>4. ~Rescoring(c)'
    BY <2>1 DEF Rescoring
  <2>5. LeavesLoops(c)'
    BY <2>1, <2>4 DEF LeavesLoops, LeftForGood, Walking
  <2>6. TriedLoopsStayNeeded'
    BY <2>1, <2>3, <2>4, RowsTyped, GrownSame, QuietNeeds
  <2> QED
    BY <1>7, <2>1, <2>3, <2>5, <2>6
<1>9. ASSUME NEW c \in Calls, Works(c)
      PROVE  TriedLoopsStayNeeded' /\ \A d \in Calls : LeavesLoops(d)'
  <2>1. Executing(c) /\ calls' = [calls EXCEPT ![c] = calls'[c]] /\ late' = late
    BY <1>9, WorkIs
  <2>2. Alone(c)
    BY <1>1, <1>2, <2>1 DEF Alone, LeaseCovers
  <2>3. TriedLoopsStayNeeded' /\ LeavesLoops(c)'
    BY <1>9, <2>2, AdvanceNeeds, ReviseNeeds, RescoreNeeds, LeaveNeeds, SucceedNeeds, FailNeeds,
       ProposeNeeds DEF Works
  <2> QED
    BY <1>7, <2>1, <2>2, <2>3
<1>10. ASSUME NEW c \in Calls, Finish(c) \/ Crash(c)
       PROVE  TriedLoopsStayNeeded' /\ \A d \in Calls : LeavesLoops(d)'
  <2>1. /\ calls' = [calls EXCEPT ![c] = calls'[c]] /\ ~Executing(c)'
        /\ late' = late /\ rows' = rows
    <3>1. CASE Finish(c)
      BY <3>1, FinishIs DEF Executing
    <3>2. CASE Crash(c)
      <4>1. Fresh.pc = "idle"
        BY DEF Fresh
      <4> QED
        BY <1>0, <3>2, <4>1 DEF Crash, Executing
    <3> QED
      BY <1>10, <3>1, <3>2
  <2>2. \A d \in Calls : calls'[d] = calls[d] \/ ~Executing(d)'
    BY <1>0, <2>1
  <2> QED
    BY <1>1, <1>2, <2>1, <2>2, NeedsRest
<1> QED
  BY <1>3, <1>4, <1>5, <1>6, <1>8, <1>9, <1>10, NextIs

(***************************************************************************)
(* Until then drafts are counted, and until a call is lost the row of the  *)
(* run says what was done and a call is at it.                             *)
(***************************************************************************)

Tidy == ~late => DraftsAreCounted /\ ProposalIsLast /\ ChecklistIsCurrent /\ SomebodyIsAtIt

IsDone(r) == rows[r].status \in {"succeeded", "skipped"}

(* What is done is done, and nothing else, after a step that settles no    *)
(* attempt as done.                                                        *)
LEMMA DonePassesStay ==
  ASSUME PipelineInv, Grown, \A r \in DOMAIN rows' : IsDone(r)' => r \in DOMAIN rows /\ IsDone(r)
  PROVE  DonePasses' = DonePasses
<1>1. \A r \in DOMAIN rows : IsDone(r) => r \in DOMAIN rows' /\ rows'[r] = rows[r]
  BY DEF Grown, IsDone
<1>2. {r \in DOMAIN rows : IsDone(r)}' = {r \in DOMAIN rows : IsDone(r)}
  BY <1>1 DEF IsDone
<1>3. \A r \in {x \in DOMAIN rows : IsDone(x)} : rows'[r] = rows[r]
  BY <1>1
<1>4. /\ DonePasses = {<<rows[r].step, rows[r].iteration>> : r \in {x \in DOMAIN rows : IsDone(x)}}
      /\ DonePasses' = {<<rows'[r].step, rows'[r].iteration>> : r \in {x \in DOMAIN rows : IsDone(x)}'}
  BY DEF DonePasses, IsDone
<1> HIDE DEF IsDone
<1> QED
  BY <1>2, <1>3, <1>4

(* The same for a step that settles one more.                              *)
LEMMA DonePassesGrow ==
  ASSUME PipelineInv, Grown, NEW k \in DOMAIN rows', IsDone(k)',
         \A r \in DOMAIN rows' : r # k /\ IsDone(r)' => r \in DOMAIN rows /\ IsDone(r)
  PROVE  DonePasses' = DonePasses \cup {<<rows'[k].step, rows'[k].iteration>>}
<1>1. \A r \in DOMAIN rows : IsDone(r) => r \in DOMAIN rows' /\ rows'[r] = rows[r]
  BY DEF Grown, IsDone
<1>2. \A r : r \in {x \in DOMAIN rows : IsDone(x)}' <=> r \in {x \in DOMAIN rows : IsDone(x)} \/ r = k
  BY <1>1 DEF IsDone
<1>3. /\ DonePasses = {<<rows[r].step, rows[r].iteration>> : r \in {x \in DOMAIN rows : IsDone(x)}}
      /\ DonePasses' = {<<rows'[r].step, rows'[r].iteration>> : r \in {x \in DOMAIN rows : IsDone(x)}'}
  BY DEF DonePasses, IsDone
<1>4. \A r \in {x \in DOMAIN rows : IsDone(x)} : rows'[r] = rows[r]
  BY <1>1
<1> DEFINE S == {x \in DOMAIN rows : IsDone(x)}
           T == {x \in DOMAIN rows : IsDone(x)}'
<1>5. \A r : r \in T <=> r \in S \/ r = k
  BY <1>2
<1>6. \A r \in S : rows'[r] = rows[r]
  BY <1>4
<1>7. /\ DonePasses = {<<rows[r].step, rows[r].iteration>> : r \in S}
      /\ DonePasses' = {<<rows'[r].step, rows'[r].iteration>> : r \in T}
  BY <1>3
<1> HIDE DEF IsDone, S, T
<1> QED
  BY <1>5, <1>6, <1>7

(* The same for a step that adds the row of one.                           *)
LEMMA DonePassesAppend ==
  ASSUME PipelineInv, Grown, NEW n, DOMAIN rows' = DOMAIN rows \cup {n},
         \A r \in DOMAIN rows : rows'[r] = rows[r],
         rows'[n].status \in {"succeeded", "skipped"}
  PROVE  DonePasses' = DonePasses \cup {<<rows'[n].step, rows'[n].iteration>>}
<1>1. n \in DOMAIN rows'
  OBVIOUS
<1>2. IsDone(n)'
  BY DEF IsDone
<1>3. ASSUME NEW r \in DOMAIN rows', r # n, IsDone(r)' PROVE r \in DOMAIN rows /\ IsDone(r)
  BY <1>3 DEF IsDone
<1> QED
  BY <1>1, <1>2, <1>3, DonePassesGrow, Zenon

(* Only a proposal occupies the place of the proposal.                     *)
LEMMA FreeStays ==
  ASSUME PipelineInv, Grown, \A n \in DOMAIN rows' \ DOMAIN rows : rows'[n].step # "propose"
  PROVE  Free("propose", 1, 1)' <=> Free("propose", 1, 1)
<1> QED
  BY DEF Free, Grown

(* What holds of the call that executes, alone, when it is tidy.           *)
TidyCall(c) ==
    /\ Alone(c) /\ Executing(c)
    /\ DraftsAreCounted /\ ProposalIsLast
    /\ lost = 0 => calls[c].checklist = DonePasses

(* The call goes on with the checklist up to date.                         *)
LEMMA ChecklistWork ==
  ASSUME PipelineInv, NEW c \in Calls, Alone(c), calls' = [calls EXCEPT ![c] = calls'[c]],
         Executing(c)', lost' = lost,
         lost = 0 => calls'[c].checklist = DonePasses'
  PROVE  ChecklistIsCurrent' /\ SomebodyIsAtIt'
<1>1. \A d \in Calls : Executing(d)' => d = c
  BY OthersRest
<1> QED
  BY <1>1 DEF ChecklistIsCurrent, SomebodyIsAtIt

(* A step that is not about the proposal.                                  *)
LEMMA DraftsWork ==
  ASSUME PipelineInv, NEW c \in Calls, TidyCall(c), calls' = [calls EXCEPT ![c] = calls'[c]],
         drafts' = drafts, lost' = lost,
         calls[c].pc \notin {"proposed", "recorded"}, calls'[c].pc # "proposed",
         Free("propose", 1, 1)' <=> Free("propose", 1, 1)
  PROVE  DraftsAreCounted' /\ ProposalIsLast'
<1>1. calls \in [Calls -> Call]
  BY RowsTyped
<1>2. (\A d \in Calls : calls'[d].pc # "proposed") => \A d \in Calls : calls[d].pc # "proposed"
  <2> SUFFICES ASSUME \A d \in Calls : calls'[d].pc # "proposed", NEW d \in Calls
               PROVE  calls[d].pc # "proposed"
    OBVIOUS
  <2>1. CASE d = c
    BY <2>1
  <2>2. CASE d # c
    BY <1>1, <2>2
  <2> QED
    BY <2>1, <2>2
<1>3. DraftsAreCounted'
  BY <1>2 DEF TidyCall, DraftsAreCounted
<1>4. ~(lost = 0 /\ ~Free("propose", 1, 1))
  <2> SUFFICES ASSUME lost = 0, ~Free("propose", 1, 1) PROVE FALSE
    OBVIOUS
  <2>1. CASE \E d \in Calls : calls[d].pc = "recorded"
    BY <2>1 DEF TidyCall, Alone, Executing
  <2>2. CASE \A d \in Calls : ~Executing(d)
    BY <2>2 DEF TidyCall
  <2> QED
    BY <2>1, <2>2 DEF TidyCall, ProposalIsLast
<1>5. ProposalIsLast'
  BY <1>4 DEF ProposalIsLast
<1> QED
  BY <1>3, <1>5

(* The two together, for a step that does no pass.                         *)
LEMMA QuietTidy ==
  ASSUME PipelineInv, NEW c \in Calls, TidyCall(c), calls' = [calls EXCEPT ![c] = calls'[c]],
         drafts' = drafts, lost' = lost, Executing(c)', Grown,
         calls[c].pc \notin {"proposed", "recorded"}, calls'[c].pc # "proposed",
         calls'[c].checklist = calls[c].checklist,
         \A n \in DOMAIN rows' \ DOMAIN rows : rows'[n].step \in Keys,
         \A r \in DOMAIN rows' : IsDone(r)' => r \in DOMAIN rows /\ IsDone(r)
  PROVE  (DraftsAreCounted /\ ProposalIsLast /\ ChecklistIsCurrent /\ SomebodyIsAtIt)'
<1>1. Free("propose", 1, 1)' <=> Free("propose", 1, 1)
  BY FreeStays, StepsFacts
<1>2. DonePasses' = DonePasses
  BY DonePassesStay
<1>3. ChecklistIsCurrent' /\ SomebodyIsAtIt'
  BY <1>2, ChecklistWork DEF TidyCall
<1> QED
  BY <1>1, <1>3, DraftsWork

(* A pass that is replayed or asked for changes nothing of all that.       *)
LEMMA PassTidy ==
  ASSUME PipelineInv, NEW c \in Calls, TidyCall(c), NEW s, NEW i, IsPass(c, s, i)
  PROVE  (DraftsAreCounted /\ ProposalIsLast /\ ChecklistIsCurrent /\ SomebodyIsAtIt)'
<1>1. /\ calls' = [calls EXCEPT ![c] = calls'[c]]
      /\ calls'[c].checklist = calls[c].checklist
      /\ UNCHANGED <<run, drafts, clock, late, started, lost>>
      /\ calls[c].pc \in {"ready", "rescore"} /\ s \in Keys
  BY PassEffect DEF IsPass
<1>2. CASE rows' = rows /\ calls'[c].pc \in {"ready", "rescore", "halting"}
  <2>1. Grown /\ \A r \in DOMAIN rows' : IsDone(r)' => r \in DOMAIN rows /\ IsDone(r)
    BY <1>2, RowsTyped, GrownSame DEF Quiet, IsDone
  <2>2. Executing(c)'
    BY <1>2 DEF Executing
  <2> QED
    BY <1>1, <1>2, <2>1, <2>2, QuietTidy
<1>3. CASE Miss(c, s, i)
  <2> DEFINE n == Len(rows) + 1
  <2>1. /\ Grown /\ DOMAIN rows' = DOMAIN rows \cup {n}
        /\ \A r \in DOMAIN rows : rows'[r] = rows[r]
        /\ rows'[n].step = s /\ rows'[n].status = "running"
        /\ calls'[c].pc = "asking"
    BY <1>3, MissAppends DEF Quiet
  <2> HIDE DEF n
  <2>2. \A r \in DOMAIN rows' : IsDone(r)' => r \in DOMAIN rows /\ IsDone(r)
    BY <2>1 DEF IsDone
  <2>3. Executing(c)'
    BY <2>1 DEF Executing
  <2> QED
    BY <1>1, <2>1, <2>2, <2>3, QuietTidy
<1>4. ASSUME NEW q, AfterPass(calls'[c], c, s, i, q)
      PROVE  calls'[c].pc \in {"ready", "rescore"}
  BY <1>4 DEF AfterPass
<1> QED
  BY <1>2, <1>3, <1>4, PassEffect

(* A loop that a call finds good enough, without having tried it, has not  *)
(* been tried by anybody, nor skipped: the index never stops the call.     *)
LEMMA SkipIsFree ==
  ASSUME PipelineInv, NEW c \in Calls, TidyCall(c), lost = 0, SkipLoop(c)
  PROVE  Free(Here(c), 1, 1)
<1> SUFFICES ASSUME NEW r \in DOMAIN rows, rows[r].step = Here(c), rows[r].iteration = 1 PROVE FALSE
  BY DEF Free
<1>1. /\ AtLoop(c) /\ GoodEnough(c) /\ Revisions(c) = 0 /\ Walking(c) /\ calls[c].at <= Len(Steps)
      /\ \A p \in calls[c].checklist : p[1] # Here(c)
  BY DEF SkipLoop, AtStep, Walking
<1>2. calls[c].at \in DOMAIN Steps /\ Here(c) \in Keys /\ Here(c) \in DOMAIN Loops
  BY <1>1, RowsTyped, CallTyped, StepsFacts DEF AtLoop, Here
<1>3. Outputs(Here(c)) = {}
  <2> SUFFICES ASSUME NEW x \in Outputs(Here(c)) PROVE FALSE
    OBVIOUS
  <2>1. x \in Succeeded /\ x \in DOMAIN rows /\ rows[x].step = Here(c)
    BY DEF Outputs, Succeeded
  <2>2. rows[x].iteration <= 0
    BY <1>1, <1>2, <2>1 DEF TidyCall, Alone, Complete, Revisions
  <2> QED
    BY <2>1, <2>2, RowsTyped, RowTyped
<1>4. CASE rows[r].status = "skipped"
  <2>1. <<Here(c), 1>> \in DonePasses
    BY <1>4 DEF DonePasses
  <2> QED
    BY <1>1, <2>1 DEF TidyCall
<1>5. CASE rows[r].status # "skipped"
  <2>1. Tried(calls[c].at)
    BY <1>2, <1>3, <1>5 DEF Tried, Here
  <2>2. ScoredLow(Loops[Here(c)].scoreFrom)
    BY <1>2, <2>1 DEF TidyCall, Alone, TriedLoopsStayNeeded, Here
  <2>3. calls[c].scores[Loops[Here(c)].scoreFrom] # "high"
    BY <1>1, <1>2, <2>2, KnowsTheScore, ScorerIsDone, StepsFacts DEF TidyCall, Alone
  <2> QED
    BY <1>1, <2>3 DEF GoodEnough
<1> QED
  BY <1>4, <1>5

(* When the index does stop a call, a call was lost before.                *)
LEMMA StoppedTidy ==
  ASSUME PipelineInv, NEW c \in Calls, TidyCall(c), lost # 0,
         calls' = [calls EXCEPT ![c] = Fresh], rows' = rows,
         drafts' = drafts, lost' = lost,
         calls[c].pc # "proposed" \/ ~Free("propose", 1, 1)
  PROVE  (DraftsAreCounted /\ ProposalIsLast /\ ChecklistIsCurrent /\ SomebodyIsAtIt)'
<1>1. (ProposalIsLast /\ ChecklistIsCurrent /\ SomebodyIsAtIt)'
  BY DEF ProposalIsLast, ChecklistIsCurrent, SomebodyIsAtIt
<1>2. calls \in [Calls -> Call]
  BY RowsTyped
<1>3. DraftsAreCounted'
  <2>1. Free("propose", 1, 1)' <=> Free("propose", 1, 1)
    BY DEF Free
  <2>2. CASE ~Free("propose", 1, 1)
    BY <2>1, <2>2 DEF DraftsAreCounted
  <2>3. CASE calls[c].pc # "proposed"
    <3>1. (\A d \in Calls : calls'[d].pc # "proposed") => \A d \in Calls : calls[d].pc # "proposed"
      <4> SUFFICES ASSUME \A d \in Calls : calls'[d].pc # "proposed", NEW d \in Calls
                   PROVE  calls[d].pc # "proposed"
        OBVIOUS
      <4>1. CASE d = c
        BY <2>3, <4>1
      <4>2. CASE d # c
        BY <1>2, <4>2
      <4> QED
        BY <4>1, <4>2
    <3> QED
      BY <2>1, <3>1 DEF TidyCall, DraftsAreCounted
  <2> QED
    BY <2>2, <2>3
<1> QED
  BY <1>1, <1>3

(* A loop that is left changes nothing, one that is skipped joins the      *)
(* checklist.                                                              *)
LEMMA LeaveTidy ==
  ASSUME PipelineInv, NEW c \in Calls, TidyCall(c), LeaveLoop(c) \/ SkipLoop(c)
  PROVE  (DraftsAreCounted /\ ProposalIsLast /\ ChecklistIsCurrent /\ SomebodyIsAtIt)'
<1>1. CASE LeaveLoop(c)
  <2>1. /\ rows' = rows /\ calls' = [calls EXCEPT ![c].at = @ + 1]
        /\ UNCHANGED <<run, drafts, clock, late, started, lost>>
        /\ calls \in [Calls -> Call] /\ calls[c] \in Call /\ calls[c].pc = "ready"
    BY <1>1, RowsTyped DEF LeaveLoop, AtStep
  <2>2. /\ calls'[c].pc = "ready" /\ calls'[c].checklist = calls[c].checklist
        /\ calls' = [calls EXCEPT ![c] = calls'[c]]
    BY <2>1 DEF Call
  <2>3. Grown /\ \A r \in DOMAIN rows' : IsDone(r)' => r \in DOMAIN rows /\ IsDone(r)
    BY <2>1, RowsTyped, GrownSame DEF Quiet, IsDone
  <2>4. Executing(c)'
    BY <2>2 DEF Executing
  <2> QED
    BY <2>1, <2>2, <2>3, <2>4, QuietTidy
<1>2. CASE SkipLoop(c) /\ Free(Here(c), 1, 1)
  <2> DEFINE n == Len(rows) + 1
  <2>1. /\ Grown /\ DOMAIN rows' = DOMAIN rows \cup {n}
        /\ \A r \in DOMAIN rows : rows'[r] = rows[r]
        /\ rows'[n].step = Here(c) /\ rows'[n].iteration = 1 /\ rows'[n].status = "skipped"
        /\ calls' = [calls EXCEPT ![c] = calls'[c]]
        /\ calls'[c].pc = "ready"
        /\ calls'[c].checklist = calls[c].checklist \cup {<<Here(c), 1>>}
    BY <1>2, SkipIs DEF Quiet
  <2>2. /\ drafts' = drafts /\ lost' = lost /\ calls[c].pc = "ready" /\ AtLoop(c)
    BY <1>2 DEF SkipLoop, AtStep
  <2> HIDE DEF n
  <2>3. DonePasses' = DonePasses \cup {<<Here(c), 1>>}
    <3>1. DonePasses' = DonePasses \cup {<<rows'[n].step, rows'[n].iteration>>}
      BY <2>1, DonePassesAppend
    <3> QED
      BY <2>1, <3>1, Zenon
  <2>4. Free("propose", 1, 1)' <=> Free("propose", 1, 1)
    BY <2>1, <2>2, FreeStays, StepsFacts DEF AtLoop
  <2>5. Executing(c)' /\ calls'[c].pc # "proposed" /\ calls[c].pc \notin {"proposed", "recorded"}
    BY <2>1, <2>2 DEF Executing
  <2>6. ChecklistIsCurrent' /\ SomebodyIsAtIt'
    BY <2>1, <2>2, <2>3, <2>5, ChecklistWork DEF TidyCall
  <2> QED
    BY <2>1, <2>2, <2>4, <2>5, <2>6, DraftsWork
<1>3. CASE SkipLoop(c) /\ ~Free(Here(c), 1, 1)
  <2>1. /\ calls' = [calls EXCEPT ![c] = Fresh] /\ rows' = rows
        /\ drafts' = drafts /\ lost' = lost /\ calls[c].pc # "proposed"
    BY <1>3 DEF SkipLoop, AtStep
  <2> QED
    BY <1>3, <2>1, SkipIsFree, StoppedTidy
<1> QED
  BY <1>1, <1>2, <1>3


(* An answer puts its pass among what is done and on the checklist.        *)
LEMMA SucceedTidy ==
  ASSUME PipelineInv, NEW c \in Calls, TidyCall(c), Succeed(c)
  PROVE  (DraftsAreCounted /\ ProposalIsLast /\ ChecklistIsCurrent /\ SomebodyIsAtIt)'
<1> DEFINE k == calls[c].row
           pass == <<Asked(c).step, Asked(c).iteration>>
<1>1. /\ calls[c].pc = "asking" /\ Settled(c, "succeeded")
      /\ calls' = [calls EXCEPT ![c] = calls'[c]]
      /\ calls'[c].checklist = calls[c].checklist \cup {pass}
  BY SucceedIs
<1>2. drafts' = drafts /\ lost' = lost
  BY DEF Succeed
<1>3. calls'[c].pc \in {"halting", "ready", "rescore"}
  <2>1. PICK s, i : s = Asked(c).step /\ i = Asked(c).iteration
    OBVIOUS
  <2>2. calls'[c].pc = "halting" \/ \E score \in Scores : AfterPass(calls'[c], c, s, i, score)
    BY <2>1, AnswerIs
  <2> QED
    BY <2>2 DEF AfterPass
<1>4. Executing(c)' /\ calls'[c].pc # "proposed" /\ calls[c].pc \notin {"proposed", "recorded"}
  BY <1>1, <1>3 DEF Executing
<1>5. /\ Grown /\ k \in DOMAIN rows' /\ DOMAIN rows' = DOMAIN rows
      /\ rows'[k].status = "succeeded" /\ <<rows'[k].step, rows'[k].iteration>> = pass
      /\ \A r \in DOMAIN rows : r # k => rows'[r] = rows[r]
  BY <1>1, SettledGrows, AskedIs DEF Settled
<1>6. DonePasses' = DonePasses \cup {<<rows'[k].step, rows'[k].iteration>>}
  <2>1. PICK q : q = k
    OBVIOUS
  <2>2. /\ q \in DOMAIN rows' /\ DOMAIN rows' = DOMAIN rows /\ rows'[q].status = "succeeded"
        /\ \A r \in DOMAIN rows : r # q => rows'[r] = rows[r]
    BY <1>5, <2>1
  <2>3. IsDone(q)'
    BY <2>2 DEF IsDone
  <2>4. ASSUME NEW r \in DOMAIN rows', r # q, IsDone(r)' PROVE r \in DOMAIN rows /\ IsDone(r)
    BY <2>2, <2>4 DEF IsDone
  <2>5. DonePasses' = DonePasses \cup {<<rows'[q].step, rows'[q].iteration>>}
    BY <1>5, <2>2, <2>3, <2>4, DonePassesGrow, Zenon
  <2> QED
    BY <2>1, <2>5, Zenon
<1> HIDE DEF pass, k
<1>7. DonePasses' = DonePasses \cup {pass}
  BY <1>5, <1>6, Zenon
<1>8. Free("propose", 1, 1)' <=> Free("propose", 1, 1)
  BY <1>5, FreeStays
<1>9. ChecklistIsCurrent' /\ SomebodyIsAtIt'
  BY <1>1, <1>2, <1>4, <1>7, ChecklistWork DEF TidyCall
<1> QED
  BY <1>1, <1>2, <1>4, <1>8, <1>9, DraftsWork

(* A failed attempt does not, and the next one finds its place free.       *)
LEMMA FailTidy ==
  ASSUME PipelineInv, NEW c \in Calls, TidyCall(c), Fail(c) \/ NeedsHuman(c)
  PROVE  (DraftsAreCounted /\ ProposalIsLast /\ ChecklistIsCurrent /\ SomebodyIsAtIt)'
<1>1. /\ calls[c].pc = "asking" /\ calls' = [calls EXCEPT ![c] = calls'[c]]
      /\ UNCHANGED <<run, drafts, clock, late, started, lost>>
      /\ calls[c].pc \notin {"proposed", "recorded"}
  BY FailIs
<1>2. CASE Settled(c, "failed") /\ calls'[c].pc = "halting" /\ calls'[c].checklist = calls[c].checklist
  <2>1. /\ Grown /\ DOMAIN rows' = DOMAIN rows /\ calls[c].row \in DOMAIN rows
        /\ rows'[calls[c].row].status = "failed"
        /\ \A r \in DOMAIN rows : r # calls[c].row => rows'[r] = rows[r]
    BY <1>1, <1>2, SettledGrows, AskedIs DEF Settled
  <2>2. \A r \in DOMAIN rows' : IsDone(r)' => r \in DOMAIN rows /\ IsDone(r)
    <3> SUFFICES ASSUME NEW r \in DOMAIN rows', IsDone(r)' PROVE r \in DOMAIN rows /\ IsDone(r)
      OBVIOUS
    <3> QED
      BY <2>1 DEF IsDone
  <2>3. Executing(c)'
    BY <1>2 DEF Executing
  <2> QED
    BY <1>1, <1>2, <2>1, <2>2, <2>3, QuietTidy
<1>3. CASE Settled(c, "failed") /\ ~Free(Asked(c).step, Asked(c).iteration, Asked(c).attempt + 1)
  <2>1. PICK r \in DOMAIN rows : /\ rows[r].step = Asked(c).step
                                 /\ rows[r].iteration = Asked(c).iteration
                                 /\ rows[r].attempt = Asked(c).attempt + 1
    BY <1>3 DEF Free
  <2>2. rows[r].attempt <= Asked(c).attempt /\ Asked(c).attempt \in Nat
    BY <1>1, <2>1, AskedIs DEF TidyCall, Alone, AsksAnew
  <2> QED
    BY <2>1, <2>2
<1>4. CASE Retry(c)
  <2> DEFINE n == Len(rows) + 1
             k == calls[c].row
  <2>1. /\ Grown /\ DOMAIN rows' = DOMAIN rows \cup {n}
        /\ \A r \in DOMAIN rows : r # k => rows'[r] = rows[r]
        /\ rows'[k].status = "failed" /\ rows'[n].status = "running"
        /\ rows'[n].step = Asked(c).step /\ calls'[c].pc = "asking"
        /\ calls'[c].checklist = calls[c].checklist
    BY <1>1, <1>4, RetryIs DEF Quiet
  <2>2. Asked(c).step \in Keys
    BY <1>1, AskedIs
  <2> HIDE DEF n, k
  <2>3. \A r \in DOMAIN rows' : IsDone(r)' => r \in DOMAIN rows /\ IsDone(r)
    <3> SUFFICES ASSUME NEW r \in DOMAIN rows', IsDone(r)' PROVE r \in DOMAIN rows /\ IsDone(r)
      OBVIOUS
    <3>1. r # n /\ r # k
      BY <2>1 DEF IsDone
    <3> QED
      BY <2>1, <3>1 DEF IsDone
  <2>4. Executing(c)'
    BY <2>1 DEF Executing
  <2> QED
    BY <1>1, <2>1, <2>2, <2>3, <2>4, QuietTidy
<1> QED
  BY <1>2, <1>3, <1>4, FailIs


(* While a call executes and no call is lost, nobody has proposed.         *)
LEMMA NotProposedYet ==
  ASSUME NEW c \in Calls, TidyCall(c), calls[c].pc # "recorded", lost = 0
  PROVE  Free("propose", 1, 1)
<1> SUFFICES ASSUME ~Free("propose", 1, 1) PROVE FALSE
  OBVIOUS
<1>1. CASE \E d \in Calls : calls[d].pc = "recorded"
  BY <1>1 DEF TidyCall, Alone, Executing
<1>2. CASE \A d \in Calls : ~Executing(d)
  BY <1>2 DEF TidyCall
<1> QED
  BY <1>1, <1>2 DEF TidyCall, ProposalIsLast

(* A call submits its draft when all drafts before were those of the dead. *)
LEMMA ProposeTidy ==
  ASSUME PipelineInv, NEW c \in Calls, TidyCall(c), Propose(c)
  PROVE  (DraftsAreCounted /\ ProposalIsLast /\ ChecklistIsCurrent /\ SomebodyIsAtIt)'
<1>1. /\ calls[c].pc = "ready" /\ rows' = rows /\ lost' = lost
      /\ calls \in [Calls -> Call] /\ Len(drafts) \in Nat /\ lost \in Nat
  BY ProposeOutcomes, RowsTyped DEF PipelineInv, PipelineTypeOK
<1>2. Free("propose", 1, 1)' <=> Free("propose", 1, 1)
  BY <1>1 DEF Free
<1>3. DonePasses' = DonePasses
  BY <1>1 DEF DonePasses
<1>4. CASE drafts' = drafts /\ calls' = [calls EXCEPT ![c] = Halting(calls[c], "failed")]
  <2>1. PICK new : new = Halting(calls[c], "failed")
    OBVIOUS
  <2>2. new.pc = "halting" /\ new.checklist = calls[c].checklist
    BY <2>1, RowsTyped, CallTyped, HaltingIs
  <2>3. calls' = [calls EXCEPT ![c] = new] /\ calls'[c] = new
    BY <1>1, <1>4, <2>1
  <2>4. /\ calls' = [calls EXCEPT ![c] = calls'[c]] /\ calls'[c].pc = "halting"
        /\ calls'[c].checklist = calls[c].checklist
    BY <2>2, <2>3
  <2>5. Executing(c)' /\ calls'[c].pc # "proposed" /\ calls[c].pc \notin {"proposed", "recorded"}
    BY <1>1, <2>4 DEF Executing
  <2>6. ChecklistIsCurrent' /\ SomebodyIsAtIt'
    BY <1>1, <1>3, <2>4, <2>5, ChecklistWork DEF TidyCall
  <2> QED
    BY <1>1, <1>2, <1>4, <2>4, <2>5, <2>6, DraftsWork
<1>5. CASE /\ calls' = [calls EXCEPT ![c] = calls'[c]] /\ calls'[c].pc = "proposed"
           /\ calls'[c].checklist = calls[c].checklist
           /\ Len(drafts') \in {Len(drafts), Len(drafts) + 1}
  <2>1. Executing(c)'
    BY <1>5 DEF Executing
  <2>2. ChecklistIsCurrent' /\ SomebodyIsAtIt'
    BY <1>1, <1>3, <1>5, <2>1, ChecklistWork DEF TidyCall
  <2>3. \A d \in Calls : calls[d].pc # "proposed"
    BY <1>1 DEF TidyCall, Alone, Executing
  <2>4. Free("propose", 1, 1) => Len(drafts) <= lost
    BY <2>3 DEF TidyCall, DraftsAreCounted
  <2>5. Free("propose", 1, 1)' => Len(drafts') <= 1 + lost'
    BY <1>1, <1>2, <1>5, <2>4
  <2>6. DraftsAreCounted'
    BY <1>5, <2>5 DEF DraftsAreCounted
  <2>7. ProposalIsLast'
    BY <1>1, <1>2, NotProposedYet DEF ProposalIsLast
  <2> QED
    BY <2>2, <2>6, <2>7
<1> QED
  BY <1>4, <1>5, ProposeOutcomes

(* The row that says so is the last word of the run.                       *)
LEMMA RecordTidy ==
  ASSUME PipelineInv, NEW c \in Calls, TidyCall(c), RecordProposal(c)
  PROVE  (DraftsAreCounted /\ ProposalIsLast /\ ChecklistIsCurrent /\ SomebodyIsAtIt)'
<1>1. calls[c].pc = "proposed" /\ drafts' = drafts /\ lost' = lost
  BY DEF RecordProposal
<1>2. CASE Free("propose", 1, 1)
  <2> DEFINE n == Len(rows) + 1
  <2>1. /\ Grown /\ DOMAIN rows' = DOMAIN rows \cup {n}
        /\ \A r \in DOMAIN rows : rows'[r] = rows[r]
        /\ rows'[n].step = "propose" /\ rows'[n].iteration = 1 /\ rows'[n].attempt = 1
        /\ rows'[n].status = "succeeded"
        /\ calls' = [calls EXCEPT ![c] = calls'[c]] /\ calls'[c].pc = "recorded"
        /\ calls'[c].checklist = calls[c].checklist \cup {<<"propose", 1>>}
    BY <1>2, RecordIs
  <2> HIDE DEF n
  <2>2. rows'[n].status \in {"succeeded", "skipped"}
    BY <2>1
  <2>3. DonePasses' = DonePasses \cup {<<rows'[n].step, rows'[n].iteration>>}
    BY <2>1, <2>2, DonePassesAppend
  <2>4. DonePasses' = DonePasses \cup {<<"propose", 1>>}
    BY <2>1, <2>3, Zenon
  <2>5. Executing(c)'
    BY <2>1 DEF Executing
  <2>6. ChecklistIsCurrent' /\ SomebodyIsAtIt'
    BY <1>1, <2>1, <2>4, <2>5, ChecklistWork DEF TidyCall
  <2>7. ~Free("propose", 1, 1)'
    BY <2>1 DEF Free
  <2>8. DraftsAreCounted'
    BY <2>7 DEF DraftsAreCounted
  <2>9. lost = 0 => Len(drafts) <= 1
    BY <1>2 DEF TidyCall, DraftsAreCounted
  <2>10. ProposalIsLast'
    BY <1>1, <2>1, <2>9 DEF ProposalIsLast
  <2> QED
    BY <2>6, <2>8, <2>10
<1>3. CASE ~Free("propose", 1, 1)
  <2>1. lost # 0
    BY <1>1, <1>3, NotProposedYet
  <2>2. calls' = [calls EXCEPT ![c] = Fresh] /\ rows' = rows
    BY <1>3 DEF RecordProposal
  <2> QED
    BY <1>1, <1>3, <2>1, <2>2, StoppedTidy
<1> QED
  BY <1>2, <1>3


(* A step that touches neither the rows nor a call that executes, and      *)
(* leaves the run where it is, queues it or cancels it.                    *)
LEMMA TidyRest ==
  ASSUME PipelineInv, DraftsAreCounted, ProposalIsLast, ChecklistIsCurrent, SomebodyIsAtIt,
         rows' = rows, lost' = lost, Len(drafts') = Len(drafts),
         run'.checklist = run.checklist,
         \/ run'.status = run.status \/ run'.status = "cancelled"
         \/ run.status = "absent" /\ run'.status = "queued",
         \A d \in Calls : calls'[d] = calls[d] \/ (~Executing(d) /\ ~Executing(d)')
  PROVE  (DraftsAreCounted /\ ProposalIsLast /\ ChecklistIsCurrent /\ SomebodyIsAtIt)'
<1>1. Free("propose", 1, 1)' <=> Free("propose", 1, 1)
  BY DEF Free
<1>2. DonePasses' = DonePasses
  BY DEF DonePasses
<1>3. ASSUME NEW d \in Calls
      PROVE  /\ Executing(d)' <=> Executing(d)
             /\ Executing(d) => calls'[d] = calls[d]
             /\ calls'[d].pc = "proposed" <=> calls[d].pc = "proposed"
             /\ calls'[d].pc = "recorded" <=> calls[d].pc = "recorded"
  BY DEF Executing
<1>4. DraftsAreCounted'
  BY <1>1, <1>3 DEF DraftsAreCounted
<1>5. ProposalIsLast'
  BY <1>1, <1>3 DEF ProposalIsLast, Terminal
<1>6. ChecklistIsCurrent'
  BY <1>2, <1>3 DEF ChecklistIsCurrent
<1>7. SomebodyIsAtIt'
  BY <1>3 DEF SomebodyIsAtIt
<1> QED
  BY <1>4, <1>5, <1>6, <1>7

(* The last step of a call that says how the run has ended.                *)
LEMMA FinishTidy ==
  ASSUME PipelineInv, NEW c \in Calls, TidyCall(c), Finish(c)
  PROVE  (DraftsAreCounted /\ ProposalIsLast /\ ChecklistIsCurrent /\ SomebodyIsAtIt)'
<1>1. /\ calls[c].pc \in {"recorded", "halting"} /\ run'.checklist = calls[c].checklist
      /\ run'.status \in {"succeeded", "failed", "escalated"}
      /\ run'.status = "succeeded" <=> calls[c].pc = "recorded"
      /\ calls' = [calls EXCEPT ![c] = calls'[c]] /\ calls'[c].pc \in {"idle", "approving"}
      /\ UNCHANGED <<rows, drafts, lost>>
  BY FinishIs
<1>2. Free("propose", 1, 1)' <=> Free("propose", 1, 1)
  BY <1>1 DEF Free
<1>3. DonePasses' = DonePasses
  BY <1>1 DEF DonePasses
<1>4. \A d \in Calls : ~Executing(d)'
  <2> SUFFICES ASSUME NEW d \in Calls, Executing(d)' PROVE FALSE
    OBVIOUS
  <2>1. d = c
    BY <1>1, OthersRest DEF TidyCall
  <2> QED
    BY <1>1, <2>1 DEF Executing
<1>5. \A d \in Calls : calls[d].pc # "proposed"
  BY <1>1 DEF TidyCall, Alone, Executing
<1>6. DraftsAreCounted'
  BY <1>1, <1>2, <1>5 DEF TidyCall, DraftsAreCounted
<1>7. ChecklistIsCurrent'
  BY <1>1, <1>3, <1>4 DEF TidyCall, ChecklistIsCurrent
<1>8. ProposalIsLast'
  <2> SUFFICES ASSUME lost = 0, ~Free("propose", 1, 1)
               PROVE  Len(drafts) <= 1 /\ run'.status \in Terminal
    BY <1>1, <1>2, <1>4 DEF ProposalIsLast
  <2>1. calls[c].pc = "recorded"
    BY NotProposedYet
  <2> QED
    BY <1>1, <2>1 DEF TidyCall, ProposalIsLast, Terminal
<1>9. SomebodyIsAtIt'
  BY <1>1 DEF SomebodyIsAtIt
<1> QED
  BY <1>6, <1>7, <1>8, <1>9

(* A call takes over the run, its checklist included.                      *)
LEMMA ClaimTidy ==
  ASSUME PipelineInv, DraftsAreCounted, ProposalIsLast, ChecklistIsCurrent, SomebodyIsAtIt,
         NEW c \in Calls, Claim(c), \A d \in Calls : ~Executing(d)
  PROVE  (DraftsAreCounted /\ ProposalIsLast /\ ChecklistIsCurrent /\ SomebodyIsAtIt)'
<1>1. /\ Claimable /\ UNCHANGED <<rows, drafts, lost>>
      /\ calls' = [calls EXCEPT ![c] = calls'[c]] /\ calls'[c].checklist = run.checklist
      /\ calls'[c].pc \in {"halting", "ready"} /\ calls \in [Calls -> Call]
  BY ClaimIs, RowsTyped DEF Claim
<1>2. Free("propose", 1, 1)' <=> Free("propose", 1, 1)
  BY <1>1 DEF Free
<1>3. DonePasses' = DonePasses
  BY <1>1 DEF DonePasses
<1>4. Executing(c)' /\ \A d \in Calls : Executing(d)' => d = c
  <2>1. ASSUME NEW d \in Calls, d # c PROVE ~Executing(d)'
    <3>1. calls'[d] = calls[d]
      BY <1>1, <2>1
    <3> QED
      BY <3>1 DEF Executing
  <2> QED
    BY <1>1, <2>1 DEF Executing
<1>5. \A d \in Calls : calls[d].pc # "proposed"
  BY DEF Executing
<1>6. DraftsAreCounted'
  BY <1>1, <1>2, <1>5 DEF DraftsAreCounted
<1>7. ChecklistIsCurrent'
  BY <1>1, <1>3, <1>4 DEF ChecklistIsCurrent
<1>8. ProposalIsLast'
  <2>1. ~(run.status \in Terminal)
    BY <1>1 DEF Claimable, Terminal
  <2>2. \A d \in Calls : calls[d].pc # "recorded"
    BY DEF Executing
  <2> QED
    BY <1>1, <1>2, <2>1, <2>2 DEF ProposalIsLast
<1>9. SomebodyIsAtIt'
  BY <1>4 DEF SomebodyIsAtIt
<1> QED
  BY <1>6, <1>7, <1>8, <1>9

(* Every step keeps drafts, checklist and calls in order.                  *)
LEMMA TidyNext ==
  ASSUME PipelineInv, Fence, Memory, Needs, Tidy, [Next]_vars
  PROVE  Tidy'
<1> SUFFICES ASSUME ~late'
             PROVE  (DraftsAreCounted /\ ProposalIsLast /\ ChecklistIsCurrent /\ SomebodyIsAtIt)'
  BY DEF Tidy
<1>0. calls \in [Calls -> Call] /\ late \in BOOLEAN
  BY RowsTyped
<1>1. late' = late => ~late
  OBVIOUS
<1>2. ~late => /\ LeaseCovers /\ PassesInOrder /\ TriedLoopsStayNeeded
               /\ \A c \in Calls : Complete(c) /\ AsksAnew(c) /\ LeavesLoops(c)
               /\ DraftsAreCounted /\ ProposalIsLast /\ ChecklistIsCurrent /\ SomebodyIsAtIt
  BY DEF Memory, Fence, Needs, Tidy
<1>3. CASE UNCHANGED <<run, rows, drafts, calls, clock, late, started, lost>>
  BY <1>1, <1>2, <1>3, TidyRest
<1>4. CASE Enqueue \/ Cancel
  <2>1. /\ UNCHANGED <<rows, drafts, calls, late, lost>>
        /\ run.status = "absent" \/ run'.status = "cancelled"
    BY <1>4, RunTyped DEF Enqueue, Cancel, Create, PipelineInv, PipelineTypeOK, PipelineRun
  <2>2. run'.checklist = run.checklist
    BY <1>4, RunTyped DEF Enqueue, Cancel, Create, PipelineInv, PipelineTypeOK, PipelineRun
  <2>3. run'.status \in {"queued", "cancelled"} /\ (run'.status = "queued" => run.status = "absent")
    BY <1>4, RunTyped DEF Enqueue, Cancel, Create, PipelineInv, PipelineTypeOK, PipelineRun
  <2> QED
    BY <1>1, <1>2, <2>1, <2>2, <2>3, TidyRest
<1>5. CASE TimePasses
  <2>1. /\ UNCHANGED <<run, rows, drafts, calls, lost>>
        /\ late' = (late \/ \E c \in Calls : Executing(c) /\ clock' > calls[c].deadline)
    BY <1>5 DEF TimePasses
  <2>2. ~late
    BY <2>1, Zenon
  <2> QED
    BY <1>2, <2>1, <2>2, TidyRest
<1>6. ASSUME NEW c \in Calls, Rests(c)
      PROVE  (DraftsAreCounted /\ ProposalIsLast /\ ChecklistIsCurrent /\ SomebodyIsAtIt)'
  <2>1. /\ calls' = [calls EXCEPT ![c] = calls'[c]] /\ ~Executing(c) /\ ~Executing(c)'
        /\ UNCHANGED <<rows, late, lost>> /\ Len(drafts') = Len(drafts)
        /\ \/ run' = run
           \/ run.status = "absent" /\ run'.status = "queued" /\ run'.checklist = run.checklist
    BY <1>6, RestIs
  <2>2. \A d \in Calls : calls'[d] = calls[d] \/ (~Executing(d) /\ ~Executing(d)')
    BY <1>0, <2>1
  <2> QED
    BY <1>1, <1>2, <2>1, <2>2, TidyRest
<1>7. ASSUME NEW c \in Calls, Claim(c)
      PROVE  (DraftsAreCounted /\ ProposalIsLast /\ ChecklistIsCurrent /\ SomebodyIsAtIt)'
  <2>1. late' = late /\ Claimable
    BY <1>7 DEF Claim
  <2>2. \A d \in Calls : ~Executing(d)
    <3>1. LeaseCovers /\ clock \in Nat /\ run.leaseExpiresAt \in Nat
      BY <1>1, <1>2, <2>1, RowsTyped, RunTyped
    <3> QED
      BY <2>1, <3>1 DEF LeaseCovers, Claimable
  <2> QED
    BY <1>1, <1>2, <1>7, <2>1, <2>2, ClaimTidy
<1>8. ASSUME NEW c \in Calls, Executing(c), ~late PROVE TidyCall(c)
  BY <1>2, <1>8 DEF TidyCall, Alone, LeaseCovers, ChecklistIsCurrent
<1>9. ASSUME NEW c \in Calls, Works(c)
      PROVE  (DraftsAreCounted /\ ProposalIsLast /\ ChecklistIsCurrent /\ SomebodyIsAtIt)'
  <2>1. TidyCall(c)
    <3>1. Executing(c) /\ late' = late
      BY <1>9, WorkIs
    <3> QED
      BY <1>1, <1>8, <3>1
  <2>2. CASE Advance(c) \/ Revise(c) \/ Rescore(c)
    <3>1. PICK s, i : IsPass(c, s, i)
      BY <2>2, AdvanceIsPass, ReviseIsPass, RescoreIsPass
    <3> QED
      BY <2>1, <3>1, PassTidy
  <2> QED
    BY <1>9, <2>1, <2>2, LeaveTidy, SucceedTidy, FailTidy, ProposeTidy, RecordTidy DEF Works
<1>10. ASSUME NEW c \in Calls, Finish(c)
       PROVE  (DraftsAreCounted /\ ProposalIsLast /\ ChecklistIsCurrent /\ SomebodyIsAtIt)'
  <2>1. late' = late /\ Executing(c)
    BY <1>10, FinishIs DEF Executing
  <2> QED
    BY <1>1, <1>8, <1>10, <2>1, FinishTidy
<1>11. ASSUME NEW c \in Calls, Crash(c)
       PROVE  (DraftsAreCounted /\ ProposalIsLast /\ ChecklistIsCurrent /\ SomebodyIsAtIt)'
  <2>1. /\ UNCHANGED <<rows, drafts, late>> /\ lost' = lost + 1
        /\ lost \in Nat /\ Len(drafts) \in Nat
    BY <1>11, RowsTyped DEF Crash, PipelineInv, PipelineTypeOK
  <2>2. lost' # 0
    BY <2>1
  <2>3. Free("propose", 1, 1)' <=> Free("propose", 1, 1)
    BY <2>1 DEF Free
  <2>4. Free("propose", 1, 1) => Len(drafts) <= 1 + lost
    BY <1>1, <1>2, <2>1 DEF DraftsAreCounted
  <2>5. DraftsAreCounted'
    BY <2>1, <2>3, <2>4 DEF DraftsAreCounted
  <2> QED
    BY <2>2, <2>5 DEF ProposalIsLast, ChecklistIsCurrent, SomebodyIsAtIt
<1> QED
  BY <1>3, <1>4, <1>5, <1>6, <1>7, <1>9, <1>10, <1>11, NextIs


(* The invariant of a run no call of which has outlived its lease, and so  *)
(* of the engine as far as it goes: the lease covers the one call that     *)
(* executes, whose memory is complete and who asks anew, leaves loops for  *)
(* good and keeps the checklist; drafts are counted, and a run that is     *)
(* running is being executed.                                              *)
THEOREM FencedInvariance == Spec => []FencedInv
<1>1. Init => Fence /\ Memory /\ Needs /\ Tidy
  <2> SUFFICES ASSUME Init PROVE Fence /\ Memory /\ Needs /\ Tidy
    OBVIOUS
  <2>1. /\ rows = <<>> /\ drafts = <<>> /\ DOMAIN rows = {} /\ Len(drafts) = 0 /\ lost = 0
        /\ run.status = "absent" /\ run.checklist = {}
    BY DEF Init
  <2>2. ASSUME NEW c \in Calls PROVE calls[c].pc = "idle"
    BY DEF Init, Fresh
  <2>3. ASSUME NEW c \in Calls PROVE ~Executing(c) /\ ~Walking(c) /\ calls[c].pc # "asking"
    BY <2>2 DEF Executing, Walking
  <2>4. Fence /\ Memory
    BY <2>1, <2>3 DEF Fence, LeaseCovers, Memory, PassesInOrder, Succeeded, Complete, AsksAnew
  <2>5. Needs
    BY <2>1, <2>3 DEF Needs, TriedLoopsStayNeeded, LeavesLoops, Tried
  <2>6. DonePasses = {}
    BY <2>1 DEF DonePasses
  <2>7. Free("propose", 1, 1)
    BY <2>1 DEF Free
  <2>8. Tidy
    BY <2>1, <2>3, <2>6, <2>7 DEF Tidy, DraftsAreCounted, ProposalIsLast, ChecklistIsCurrent,
       SomebodyIsAtIt
  <2> QED
    BY <2>4, <2>5, <2>8
<1>2. PipelineInv /\ Fence /\ Memory /\ Needs /\ Tidy /\ [Next]_vars => (Fence /\ Memory /\ Needs /\ Tidy)'
  BY FenceNext, MemoryNext, NeedsNext, TidyNext
<1>3. Fence /\ Memory /\ Needs /\ Tidy => FencedInv
  BY DEF Fence, Memory, Needs, Tidy, FencedInv
<1>4. Spec => [](Fence /\ Memory /\ Needs /\ Tidy)
  BY <1>1, <1>2, PipelineInvariance, PTL DEF Spec
<1> QED
  BY <1>3, <1>4, PTL

(* A run is left "running" by nothing but a call that died or threw, or    *)
(* outlived its lease: no interleaving of claims, cancellations and        *)
(* resumptions strands it.                                                 *)
THEOREM NobodyStrandsARun == Spec => []RunningIsExecuting
<1>1. FencedInv => RunningIsExecuting
  BY DEF FencedInv, SomebodyIsAtIt, RunningIsExecuting
<1> QED
  BY <1>1, FencedInvariance, PTL

(* A run hands one draft to the gate, and one more for each call that was  *)
(* lost before it said so.                                                 *)
THEOREM OneDraftReachesTheGate == Spec => []OneDraftPerRun
<1>1. PipelineInv /\ FencedInv => OneDraftPerRun
  <2> SUFFICES ASSUME PipelineInv, FencedInv, ~late, lost = 0 \/ Free("propose", 1, 1)
               PROVE  Len(drafts) <= 1 + lost
    BY DEF OneDraftPerRun
  <2>1. CASE Free("propose", 1, 1)
    BY <2>1 DEF FencedInv, DraftsAreCounted
  <2>2. CASE ~Free("propose", 1, 1)
    <3>1. lost = 0 /\ Len(drafts) <= 1
      BY <2>2 DEF FencedInv, ProposalIsLast
    <3> QED
      BY <3>1
  <2> QED
    BY <2>1, <2>2
<1> QED
  BY <1>1, PipelineInvariance, FencedInvariance, PTL

(* The checklist of a run that succeeded names every pass that was done.   *)
THEOREM TheChecklistIsComplete == Spec => []ChecklistIsComplete
<1>1. FencedInv => ChecklistIsComplete
  <2> SUFFICES ASSUME FencedInv, ~late, lost = 0, run.status = "succeeded"
               PROVE  run.checklist = DonePasses
    BY DEF ChecklistIsComplete, DonePasses
  <2>1. \A c \in Calls : ~Executing(c)
    BY DEF FencedInv, LeaseCovers
  <2> QED
    BY <2>1 DEF FencedInv, ChecklistIsCurrent
<1> QED
  BY <1>1, FencedInvariance, PTL
===========================================================================
