--------------------------- MODULE OutreachProofs ---------------------------
(***************************************************************************)
(* What the outreach engine guarantees for any sequences, people and       *)
(* callers: whoever unsubscribed is not mailed, nothing unapproved leaves, *)
(* nobody is in two sequences, steps are sent in order, and the mailbox's  *)
(* cap is exceeded by overlapping sends only.                              *)
(***************************************************************************)
EXTENDS Outreach, FiniteSetTheorems, TLAPS

USE OutreachAssumption

(***************************************************************************)
(* The inductive invariant.                                                *)
(***************************************************************************)

Call ==
    [pc : {"idle", "walking", "generating", "sending"}, began : Nat, todo : SUBSET Sequences,
     seq : Sequences \cup {None}, rows : UNION {[D -> Enrollment] : D \in SUBSET Enrollments},
     msg : MessageIds \cup {None}, row : Enrollment \cup {<<>>}, goesOn : BOOLEAN]

Prior(m) == <<m[1], m[2], m[3] - 1>>

(* A row as some tick read it: the enrollment has not gone back since.     *)
Read(e, row) == e \in DOMAIN enrollments /\ row.step <= enrollments[e].step

(* A message may be drafted: the one before it is sent.                    *)
Follows(m) ==
    /\ m \in MessageIds /\ EnrollmentOf(m) \in DOMAIN enrollments
    /\ m[3] - 1 <= enrollments[EnrollmentOf(m)].step
    /\ m[3] > 1 => Prior(m) \in DOMAIN messages /\ messages[Prior(m)].status = "sent"

(* A message may be on its way to Gmail.                                   *)
Proposed(call) ==
    /\ call.msg \in DOMAIN actions
    /\ call.goesOn =>
          /\ call.row \in Enrollment /\ Read(EnrollmentOf(call.msg), call.row)
          /\ call.msg = <<call.msg[1], call.msg[2], call.row.step>>

CallIsFine(call) ==
    /\ call \in Call
    /\ \A e \in DOMAIN call.rows : Read(e, call.rows[e])
    /\ call.pc = "generating" => Follows(call.msg)
    /\ call.pc = "sending" => Proposed(call)
    /\ call.goesOn => call.pc = "sending"

CallsAreFine ==
    calls = [c \in Callers |-> calls[c]] /\ \A c \in Callers : CallIsFine(calls[c])

(* The messages of an enrollment are of its first steps, all but the last  *)
(* are sent, and the enrollment is at the last or one behind.              *)
Ordered(e) ==
    \E last \in 0..Steps[e[1]] :
        /\ \A k \in 1..Steps[e[1]] : <<e[1], e[2], k>> \in DOMAIN messages <=> k <= last
        /\ \A k \in 1..(last - 1) : messages[<<e[1], e[2], k>>].status = "sent"
        /\ enrollments[e].step \in {last, last - 1}

RowsAreOrdered ==
    /\ \A e \in DOMAIN enrollments : Ordered(e)
    /\ \A m \in DOMAIN messages : EnrollmentOf(m) \in DOMAIN enrollments

(* Only an approved draft is ever proposed, and stays approved.            *)
ProposalsAreApproved == \A m \in DOMAIN actions : messages[m].draft = "approved"

(* Whoever unsubscribed is suppressed for good.                            *)
OptOutsLast == \A p \in optedOut : suppressions[p] = "lasting"

SendsAreCounted ==
    /\ IsFiniteSet(SentToday)
    /\ CapExceededOnlyByOverlap

OutreachInv ==
    /\ TypeOK /\ CallsAreFine /\ RowsAreOrdered /\ ProposalsAreApproved /\ OptOutsLast
    /\ OneSequencePerPerson /\ SendsAreCounted

(***************************************************************************)
(* Lemmas about the operators of the model.                                *)
(***************************************************************************)

Rows == UNION {[D -> Enrollment] : D \in SUBSET Enrollments}
Pcs == {"idle", "walking", "generating", "sending"}

(* The parts of a message's name.                                          *)
LEMMA IdsAre ==
  ASSUME NEW m \in MessageIds
  PROVE  /\ m[1] \in Sequences /\ m[2] \in People /\ Steps[m[1]] \in Nat \ {0}
         /\ m[3] \in 1..Steps[m[1]] /\ m = <<m[1], m[2], m[3]>> /\ m # None
         /\ EnrollmentOf(m) \in Enrollments
<1>1. PICK s \in Sequences : m \in {s} \X People \X (1..Steps[s])
  BY DEF MessageIds
<1>2. m[1] = s /\ m[2] \in People /\ m[3] \in 1..Steps[s] /\ m = <<m[1], m[2], m[3]>>
  BY <1>1
<1>3. m \in Sequences \X People \X Nat
  BY <1>2
<1> QED
  BY <1>2, <1>3 DEF EnrollmentOf, Enrollments

(* An enrollment and one of its steps name a message.                      *)
LEMMA MakesId ==
  ASSUME NEW e \in Enrollments, NEW k \in 1..Steps[e[1]]
  PROVE  /\ <<e[1], e[2], k>> \in MessageIds /\ EnrollmentOf(<<e[1], e[2], k>>) = e
         /\ e[1] \in Sequences /\ e[2] \in People /\ Steps[e[1]] \in Nat \ {0}
<1>1. e[1] \in Sequences /\ e[2] \in People /\ e = <<e[1], e[2]>>
  BY DEF Enrollments
<1>2. <<e[1], e[2], k>> \in {e[1]} \X People \X (1..Steps[e[1]])
  BY <1>1
<1> QED
  BY <1>1, <1>2 DEF MessageIds, EnrollmentOf

(* Rows are functions from enrollments to what their rows said.            *)
LEMMA RowsAre ==
  /\ \A f \in Rows : DOMAIN f \subseteq Enrollments /\ \A e \in DOMAIN f : f[e] \in Enrollment
  /\ \A D \in SUBSET Enrollments : \A f \in [D -> Enrollment] : f \in Rows
  /\ \A f \in Rows : \A e : Without(f, e) \in Rows
<1>1. \A f \in Rows : DOMAIN f \subseteq Enrollments /\ \A e \in DOMAIN f : f[e] \in Enrollment
  BY DEF Rows
<1>2. \A D \in SUBSET Enrollments : \A f \in [D -> Enrollment] : f \in Rows
  BY DEF Rows
<1>3. ASSUME NEW f \in Rows, NEW e PROVE Without(f, e) \in Rows
  <2>1. PICK D : D = DOMAIN f \ {e}
    OBVIOUS
  <2>2. D \in SUBSET Enrollments /\ Without(f, e) \in [D -> Enrollment]
    BY <1>1, <2>1 DEF Without
  <2> QED
    BY <1>2, <2>2
<1> QED
  BY <1>1, <1>2, <1>3

(* The empty rows are rows.                                                *)
LEMMA IdleIs == /\ Idle \in Call /\ DOMAIN Idle.rows = {} /\ Idle.pc = "idle" /\ Idle.msg = None
                /\ Idle.seq = None /\ ~Idle.goesOn
<1>1. <<>> \in Rows
  <2>1. <<>> \in [{} -> Enrollment]
    OBVIOUS
  <2> QED
    BY <2>1, RowsAre
<1>2. PICK r : r = <<>>
  OBVIOUS
<1>3. [pc |-> "idle", began |-> 0, todo |-> {}, seq |-> None, rows |-> r, msg |-> None,
       row |-> r, goesOn |-> FALSE] \in Call
  BY <1>1, <1>2 DEF Call, Rows
<1> QED
  BY <1>2, <1>3 DEF Idle

(* A call with another position, message, row or rows is a call.           *)
LEMMA CallIs ==
  ASSUME NEW x \in Call
  PROVE  /\ x.pc \in Pcs /\ x.began \in Nat /\ x.todo \subseteq Sequences
         /\ x.seq \in Sequences \cup {None} /\ x.rows \in Rows
         /\ x.msg \in MessageIds \cup {None} /\ x.row \in Enrollment \cup {<<>>}
         /\ x.goesOn \in BOOLEAN
         /\ x = [pc |-> x.pc, began |-> x.began, todo |-> x.todo, seq |-> x.seq,
                 rows |-> x.rows, msg |-> x.msg, row |-> x.row, goesOn |-> x.goesOn]
  BY DEF Call, Pcs, Rows

(* And whatever has these parts is a call.                                 *)
LEMMA MakesCall ==
  ASSUME NEW y,
         y = [pc |-> y.pc, began |-> y.began, todo |-> y.todo, seq |-> y.seq,
              rows |-> y.rows, msg |-> y.msg, row |-> y.row, goesOn |-> y.goesOn],
         y.pc \in Pcs, y.began \in Nat, y.todo \subseteq Sequences,
         y.seq \in Sequences \cup {None}, y.rows \in Rows,
         y.msg \in MessageIds \cup {None}, y.row \in Enrollment \cup {<<>>},
         y.goesOn \in BOOLEAN
  PROVE  y \in Call
<1>1. PICK pc, began, todo, seq, rows, msg, row, goesOn :
         /\ pc = y.pc /\ began = y.began /\ todo = y.todo /\ seq = y.seq
         /\ rows = y.rows /\ msg = y.msg /\ row = y.row /\ goesOn = y.goesOn
  OBVIOUS
<1>2. [pc |-> pc, began |-> began, todo |-> todo, seq |-> seq, rows |-> rows,
       msg |-> msg, row |-> row, goesOn |-> goesOn] \in Call
  BY <1>1 DEF Call, Pcs, Rows
<1> QED
  BY <1>1, <1>2

(* What a walk is left with when it is done with an enrollment.            *)
Back(x, e) == [x EXCEPT !.rows = Without(@, e)]

(* The call without one of its rows.                                       *)
LEMMA BackIs ==
  ASSUME NEW x \in Call, NEW e, NEW y, y = Back(x, e)
  PROVE  /\ y \in Call /\ y.pc = x.pc /\ y.began = x.began /\ y.seq = x.seq /\ y.msg = x.msg
         /\ y.row = x.row /\ y.goesOn = x.goesOn /\ y.todo = x.todo
         /\ DOMAIN y.rows \subseteq DOMAIN x.rows
         /\ \A d \in DOMAIN y.rows : y.rows[d] = x.rows[d]
<1>1. PICK f \in Rows : f = x.rows
  BY CallIs
<1>2. PICK g \in Rows : g = Without(f, e)
  BY RowsAre
<1>3. DOMAIN g \subseteq DOMAIN f /\ \A d \in DOMAIN g : g[d] = f[d]
  BY <1>2 DEF Without
<1>4. y = [x EXCEPT !.rows = g]
  BY <1>1, <1>2 DEF Back
<1>5. /\ y.pc = x.pc /\ y.began = x.began /\ y.seq = x.seq /\ y.msg = x.msg
      /\ y.row = x.row /\ y.goesOn = x.goesOn /\ y.todo = x.todo /\ y.rows = g
      /\ y = [pc |-> y.pc, began |-> y.began, todo |-> y.todo, seq |-> y.seq,
              rows |-> y.rows, msg |-> y.msg, row |-> y.row, goesOn |-> y.goesOn]
  BY <1>4, CallIs
<1>6. y \in Call
  <2>1. /\ x.pc \in Pcs /\ x.began \in Nat /\ x.todo \subseteq Sequences
        /\ x.seq \in Sequences \cup {None}
        /\ x.msg \in MessageIds \cup {None} /\ x.row \in Enrollment \cup {<<>>}
        /\ x.goesOn \in BOOLEAN
    BY CallIs
  <2>2. /\ y.pc \in Pcs /\ y.began \in Nat /\ y.todo \subseteq Sequences
        /\ y.seq \in Sequences \cup {None} /\ y.rows \in Rows
        /\ y.msg \in MessageIds \cup {None} /\ y.row \in Enrollment \cup {<<>>}
        /\ y.goesOn \in BOOLEAN
    BY <1>2, <1>5, <2>1
  <2> QED
    BY <1>5, <2>2, MakesCall
<1> QED
  BY <1>1, <1>3, <1>5, <1>6

(* Back to the walk with the rows that are left, or done.                  *)
LEMMA ReturnedIs ==
  ASSUME NEW c, calls[c] \in Call, NEW y, y = Returned(c)
  PROVE  /\ y \in Call /\ y.pc \in {"idle", "walking"} /\ y.seq = calls[c].seq /\ ~y.goesOn
         /\ \A d \in DOMAIN y.rows : d \in DOMAIN calls[c].rows /\ y.rows[d] = calls[c].rows[d]
<1>1. CASE calls[c].seq = None
  BY <1>1, IdleIs DEF Returned
<1>2. CASE calls[c].seq # None
  <2>1. PICK x \in Call : x = calls[c]
    OBVIOUS
  <2>2. y = [x EXCEPT !.pc = "walking", !.msg = None, !.row = <<>>, !.goesOn = FALSE]
    BY <1>2, <2>1 DEF Returned
  <2>3. /\ y.pc = "walking" /\ y.began = x.began /\ y.seq = x.seq /\ y.msg = None
        /\ y.row = <<>> /\ y.goesOn = FALSE /\ y.todo = x.todo /\ y.rows = x.rows
        /\ y = [pc |-> y.pc, began |-> y.began, todo |-> y.todo, seq |-> y.seq,
                rows |-> y.rows, msg |-> y.msg, row |-> y.row, goesOn |-> y.goesOn]
    <3>1. PICK r : r = <<>>
      OBVIOUS
    <3>2. x = [pc |-> x.pc, began |-> x.began, todo |-> x.todo, seq |-> x.seq,
               rows |-> x.rows, msg |-> x.msg, row |-> x.row, goesOn |-> x.goesOn]
      BY CallIs
    <3>3. y = [x EXCEPT !.pc = "walking", !.msg = None, !.row = r, !.goesOn = FALSE]
      BY <2>2, <3>1
    <3>4. y = [pc |-> "walking", began |-> x.began, todo |-> x.todo, seq |-> x.seq,
               rows |-> x.rows, msg |-> None, row |-> r, goesOn |-> FALSE]
      BY <3>2, <3>3
    <3> QED
      BY <3>1, <3>4
  <2>4. /\ x.began \in Nat /\ x.todo \subseteq Sequences /\ x.seq \in Sequences \cup {None}
        /\ x.rows \in Rows
    BY CallIs
  <2>5. y \in Call
    <3>1. /\ y.pc \in Pcs /\ y.began \in Nat /\ y.todo \subseteq Sequences
          /\ y.seq \in Sequences \cup {None} /\ y.rows \in Rows
          /\ y.msg \in MessageIds \cup {None} /\ y.row \in Enrollment \cup {<<>>}
          /\ y.goesOn \in BOOLEAN
      BY <2>3, <2>4 DEF Pcs
    <3> QED
      BY <2>3, <3>1, MakesCall
  <2> QED
    BY <2>1, <2>3, <2>5
<1> QED
  BY <1>1, <1>2

(***************************************************************************)
(* What carries the invariant over a step.                                 *)
(***************************************************************************)

RowsStay ==
    /\ \A e \in DOMAIN enrollments :
          e \in DOMAIN enrollments' /\ enrollments'[e].step >= enrollments[e].step
    /\ \A m \in DOMAIN messages :
          /\ m \in DOMAIN messages'
          /\ messages[m].status = "sent" => messages'[m].status = "sent"
    /\ DOMAIN actions \subseteq DOMAIN actions'

(* The parts of the tables' types the steps of calls rely on.              *)
StepsAreNumbers ==
    \A e \in DOMAIN enrollments : enrollments[e].step \in Nat

(* What a call refers to is still there when the rows stay.                *)
LEMMA CallStays ==
  ASSUME StepsAreNumbers, StepsAreNumbers', RowsStay, NEW x, CallIsFine(x)
  PROVE  CallIsFine(x)'
<1>1. ASSUME NEW e, NEW row, row.step \in Nat, Read(e, row) PROVE Read(e, row)'
  <2>1. e \in DOMAIN enrollments /\ e \in DOMAIN enrollments' /\ row.step <= enrollments[e].step
        /\ enrollments'[e].step >= enrollments[e].step
    BY <1>1 DEF Read, RowsStay
  <2> QED
    BY <1>1, <2>1 DEF Read, StepsAreNumbers
<1>2. x \in Call /\ \A e \in DOMAIN x.rows : x.rows[e].step \in Nat
  BY CallIs, RowsAre DEF CallIsFine, Enrollment
<1>3. \A e \in DOMAIN x.rows : Read(e, x.rows[e])'
  BY <1>1, <1>2 DEF CallIsFine
<1>4. ASSUME x.pc = "generating" PROVE Follows(x.msg)'
  <2>1. PICK m : m = x.msg
    OBVIOUS
  <2>2. Follows(m)
    BY <1>4, <2>1 DEF CallIsFine
  <2>3. m \in MessageIds /\ m[3] \in Nat
    BY <2>2, IdsAre DEF Follows
  <2>4. EnrollmentOf(m) \in DOMAIN enrollments' /\ m[3] - 1 <= enrollments'[EnrollmentOf(m)].step
    BY <2>2, <2>3 DEF Follows, RowsStay, StepsAreNumbers
  <2>5. m[3] > 1 => Prior(m) \in DOMAIN messages' /\ messages'[Prior(m)].status = "sent"
    BY <2>2 DEF Follows, RowsStay
  <2>6. Follows(m)'
    BY <2>3, <2>4, <2>5 DEF Follows, EnrollmentOf, Prior
  <2> QED
    BY <2>1, <2>6
<1>5. ASSUME x.pc = "sending" PROVE Proposed(x)'
  <2>1. Proposed(x)
    BY <1>5 DEF CallIsFine
  <2>2. x.goesOn => x.row.step \in Nat
    BY <2>1 DEF Proposed, Enrollment
  <2>3. x.goesOn => Read(EnrollmentOf(x.msg), x.row)'
    BY <1>1, <2>1, <2>2 DEF Proposed, EnrollmentOf
  <2> QED
    BY <2>1, <2>3 DEF Proposed, RowsStay
<1> QED
  BY <1>2, <1>3, <1>4, <1>5 DEF CallIsFine

(* A call that rests relies on its rows only.                              *)
LEMMA RestingIsFine ==
  ASSUME NEW x, CallIsFine(x), NEW y \in Call, y.pc \in {"idle", "walking"}, ~y.goesOn,
         \A d \in DOMAIN y.rows : d \in DOMAIN x.rows /\ y.rows[d] = x.rows[d]
  PROVE  CallIsFine(y)
  BY DEF CallIsFine

(* All calls are fine after a step of none.                                *)
LEMMA CallsStay ==
  ASSUME CallsAreFine, StepsAreNumbers, StepsAreNumbers', RowsStay, UNCHANGED calls
  PROVE  CallsAreFine'
<1> SUFFICES ASSUME NEW c \in Callers PROVE CallIsFine(calls[c])'
  BY DEF CallsAreFine
<1>1. PICK x : x = calls[c] /\ calls'[c] = x
  OBVIOUS
<1>2. CallIsFine(x)'
  BY <1>1, CallStays DEF CallsAreFine
<1> QED
  BY <1>1, <1>2

(* And after a step of one.                                                *)
LEMMA CallGoes ==
  ASSUME CallsAreFine, StepsAreNumbers, StepsAreNumbers', RowsStay, NEW c \in Callers, NEW y,
         calls' = [calls EXCEPT ![c] = y], CallIsFine(y) \/ CallIsFine(y)'
  PROVE  CallsAreFine'
<1>1. calls = [d \in Callers |-> calls[d]] /\ \A d \in Callers : CallIsFine(calls[d])
  BY DEF CallsAreFine
<1>2. CallIsFine(y)'
  BY CallStays
<1>3. calls' = [d \in Callers |-> calls'[d]] /\ calls'[c] = y
      /\ \A d \in Callers : d # c => calls'[d] = calls[d]
  BY <1>1
<1> SUFFICES ASSUME NEW d \in Callers PROVE CallIsFine(calls[d])'
  BY <1>3 DEF CallsAreFine
<1>4. PICK x : x = calls'[d]
  OBVIOUS
<1>5. CallIsFine(x)'
  <2>1. CASE d = c
    BY <1>2, <1>3, <1>4, <2>1
  <2>2. CASE d # c
    <3>1. CallIsFine(x)
      BY <1>1, <1>3, <1>4, <2>2
    <3> QED
      BY <3>1, CallStays
  <2> QED
    BY <2>1, <2>2
<1> QED
  BY <1>4, <1>5

(* After a crash there are no calls.                                       *)
LEMMA AllIdle ==
  ASSUME calls' = [c \in Callers |-> Idle]
  PROVE  CallsAreFine'
<1>1. CallIsFine(Idle)'
  BY IdleIs DEF CallIsFine
<1>2. PICK x : x = Idle
  OBVIOUS
<1>3. CallIsFine(x)'
  BY <1>1, <1>2
<1> SUFFICES ASSUME NEW d \in Callers PROVE CallIsFine(calls[d])'
  BY DEF CallsAreFine
<1>4. calls'[d] = x
  BY <1>2
<1> QED
  BY <1>3, <1>4

(***************************************************************************)
(* Counting the mails of the day.                                          *)
(***************************************************************************)

Sending == {c \in Callers : calls[c].pc = "sending"}

(* The callers are finitely many, and so are those that send.              *)
LEMMA SendingIs ==
  /\ Cardinality(Callers) \in Nat /\ Cardinality(Callers) >= 1
  /\ \A S \in SUBSET Callers :
        IsFiniteSet(S) /\ Cardinality(S) \in Nat /\ Cardinality(S) <= Cardinality(Callers)
<1>1. IsFiniteSet(Callers) /\ Cardinality(Callers) \in Nat
  BY FS_CardinalityType
<1>2. \A S \in SUBSET Callers :
        IsFiniteSet(S) /\ Cardinality(S) \in Nat /\ Cardinality(S) <= Cardinality(Callers)
  BY <1>1, FS_Subset, FS_CardinalityType
<1>3. PICK c : c \in Callers
  OBVIOUS
<1>4. Cardinality({c}) = 1 /\ {c} \in SUBSET Callers
  BY <1>3, FS_Singleton
<1> QED
  BY <1>1, <1>2, <1>4

(* No mail is counted and no more callers send.                            *)
LEMMA CountStays ==
  ASSUME SendsAreCounted, SentToday' \subseteq SentToday, Sending' \subseteq Sending
  PROVE  SendsAreCounted'
<1>1. PICK A, B, S, R : A = SentToday /\ B = SentToday' /\ S = Sending /\ R = Sending'
  OBVIOUS
<1>2. IsFiniteSet(A) /\ B \subseteq A /\ R \subseteq S /\ S \in SUBSET Callers /\ R \in SUBSET Callers
  BY <1>1 DEF SendsAreCounted, Sending
<1>3. /\ Cardinality(A) \in Nat /\ IsFiniteSet(B) /\ Cardinality(B) \in Nat
      /\ Cardinality(B) <= Cardinality(A)
  BY <1>2, FS_Subset, FS_CardinalityType
<1>4. /\ Cardinality(S) \in Nat /\ Cardinality(R) \in Nat /\ Cardinality(R) <= Cardinality(S)
      /\ Cardinality(Callers) \in Nat
  BY <1>2, SendingIs, FS_Subset
<1>5. Cardinality(A) + Cardinality(S) <= DailyCap + Cardinality(Callers) - 1
  BY <1>1 DEF SendsAreCounted, CapExceededOnlyByOverlap, Sending
<1>6. Cardinality(B) + Cardinality(R) <= DailyCap + Cardinality(Callers) - 1
  BY <1>3, <1>4, <1>5
<1> QED
  BY <1>1, <1>3, <1>6 DEF SendsAreCounted, CapExceededOnlyByOverlap, Sending

(* A send may begin while the cap is not reached.                          *)
LEMMA CountBegins ==
  ASSUME SendsAreCounted, SentToday' \subseteq SentToday, Cardinality(SentToday) < DailyCap
  PROVE  SendsAreCounted'
<1>1. PICK A, B, R : A = SentToday /\ B = SentToday' /\ R = Sending'
  OBVIOUS
<1>2. IsFiniteSet(A) /\ B \subseteq A /\ R \in SUBSET Callers
  BY <1>1 DEF SendsAreCounted, Sending
<1>3. /\ Cardinality(A) \in Nat /\ IsFiniteSet(B) /\ Cardinality(B) \in Nat
      /\ Cardinality(B) <= Cardinality(A)
  BY <1>2, FS_Subset, FS_CardinalityType
<1>4. /\ Cardinality(R) \in Nat /\ Cardinality(R) <= Cardinality(Callers)
      /\ Cardinality(Callers) \in Nat
  BY <1>2, SendingIs
<1>5. Cardinality(A) < DailyCap /\ DailyCap \in Nat
  BY <1>1
<1>6. Cardinality(B) + Cardinality(R) <= DailyCap + Cardinality(Callers) - 1
  BY <1>3, <1>4, <1>5
<1> QED
  BY <1>1, <1>3, <1>6 DEF SendsAreCounted, CapExceededOnlyByOverlap, Sending

(* A mail is counted when its caller ceases to send.                       *)
LEMMA CountEnds ==
  ASSUME SendsAreCounted, NEW m, SentToday' \subseteq SentToday \cup {m},
         NEW c \in Sending, Sending' \subseteq Sending \ {c}
  PROVE  SendsAreCounted'
<1>1. PICK A, B, S, R : A = SentToday /\ B = SentToday' /\ S = Sending /\ R = Sending'
  OBVIOUS
<1>2. /\ IsFiniteSet(A) /\ B \subseteq A \cup {m} /\ R \subseteq S \ {c} /\ c \in S
      /\ S \in SUBSET Callers /\ R \in SUBSET Callers
  BY <1>1 DEF SendsAreCounted, Sending
<1>3. /\ Cardinality(A) \in Nat /\ IsFiniteSet(A \cup {m})
      /\ Cardinality(A \cup {m}) \in Nat /\ Cardinality(A \cup {m}) <= Cardinality(A) + 1
  <2>1. IsFiniteSet(A) /\ Cardinality(A) \in Nat
    BY <1>2, FS_CardinalityType
  <2>2. /\ IsFiniteSet(A \cup {m})
        /\ Cardinality(A \cup {m}) = IF m \in A THEN Cardinality(A) ELSE Cardinality(A) + 1
    BY <2>1, FS_AddElement
  <2> QED
    BY <2>1, <2>2
<1>4. IsFiniteSet(B) /\ Cardinality(B) \in Nat /\ Cardinality(B) <= Cardinality(A \cup {m})
  BY <1>2, <1>3, FS_Subset, FS_CardinalityType
<1>5. /\ IsFiniteSet(S) /\ Cardinality(S) \in Nat /\ Cardinality(Callers) \in Nat
      /\ IsFiniteSet(S \ {c}) /\ Cardinality(S \ {c}) = Cardinality(S) - 1
  BY <1>2, SendingIs, FS_RemoveElement
<1>6. Cardinality(R) \in Nat /\ Cardinality(R) <= Cardinality(S \ {c})
  BY <1>2, <1>5, FS_Subset, FS_CardinalityType
<1>7. Cardinality(A) + Cardinality(S) <= DailyCap + Cardinality(Callers) - 1
  BY <1>1 DEF SendsAreCounted, CapExceededOnlyByOverlap, Sending
<1>8. Cardinality(B) + Cardinality(R) <= DailyCap + Cardinality(Callers) - 1
  BY <1>3, <1>4, <1>5, <1>6, <1>7
<1> QED
  BY <1>1, <1>4, <1>8 DEF SendsAreCounted, CapExceededOnlyByOverlap, Sending

(* Which callers send after a step of one of them.                         *)
LEMMA SendingAfter ==
  ASSUME CallsAreFine, NEW c \in Callers, NEW y, calls' = [calls EXCEPT ![c] = y]
  PROVE  /\ y.pc # "sending" => Sending' = Sending \ {c}
         /\ y.pc = "sending" => Sending' = Sending \cup {c}
<1>1. calls'[c] = y /\ \A d \in Callers : d # c => calls'[d] = calls[d]
  BY DEF CallsAreFine
<1>2. CASE y.pc # "sending"
  BY <1>1, <1>2 DEF Sending
<1>3. CASE y.pc = "sending"
  BY <1>1, <1>3 DEF Sending
<1> QED
  BY <1>2, <1>3

(***************************************************************************)
(* Steps that add no row.                                                  *)
(***************************************************************************)

EnrollmentsKeep ==
    /\ enrollments' \in [DOMAIN enrollments -> Enrollment]
    /\ \A e \in DOMAIN enrollments :
          /\ enrollments'[e].step = enrollments[e].step
          /\ enrollments'[e].status = "active" => enrollments[e].status = "active"

MessagesKeep ==
    /\ messages' \in [DOMAIN messages -> Message]
    /\ \A m \in DOMAIN messages :
          /\ messages[m].status = "sent" => messages'[m].status = "sent"
          /\ messages[m].draft = "approved" => messages'[m].draft = "approved"

ActionsGrow ==
    /\ DOMAIN actions \subseteq DOMAIN actions' /\ actions' \in [DOMAIN actions' -> Action]
    /\ DOMAIN actions' \subseteq DOMAIN messages
    /\ \A m \in DOMAIN actions' : messages[m].draft = "approved"

RestIsTyped ==
    /\ clock' \in 1..MaxClock
    /\ statuses' \in [Sequences -> {"active", "paused", "completed"}]
    /\ permissions' \in [People -> {"unknown", "allowed", "suppressed"}]
    /\ suppressions' \in [People -> {"none", "founder", "lasting"}]
    /\ DOMAIN replies' \subseteq 1..MaxReplies /\ replies' \in [DOMAIN replies' -> Reply]
    /\ events' \in 0..MaxEvents
    /\ optedOut' \subseteq People

(* Such a step keeps the rows, their order, and who is in which sequence.  *)
LEMMA KeepingStep ==
  ASSUME OutreachInv, EnrollmentsKeep, MessagesKeep, ActionsGrow
  PROVE  /\ RowsStay /\ StepsAreNumbers /\ StepsAreNumbers'
         /\ RowsAreOrdered' /\ ProposalsAreApproved' /\ OneSequencePerPerson'
<1>1. /\ enrollments \in [DOMAIN enrollments -> Enrollment] /\ DOMAIN enrollments' = DOMAIN enrollments
      /\ DOMAIN messages' = DOMAIN messages
      /\ \A e \in DOMAIN enrollments : enrollments[e].step \in Nat
  BY DEF OutreachInv, TypeOK, Enrollment, EnrollmentsKeep, MessagesKeep
<1>2. StepsAreNumbers /\ StepsAreNumbers'
  BY <1>1 DEF StepsAreNumbers, EnrollmentsKeep
<1>3. RowsStay
  BY <1>1 DEF RowsStay, EnrollmentsKeep, MessagesKeep, ActionsGrow
<1>4. RowsAreOrdered'
  <2>1. \A m \in DOMAIN messages' : EnrollmentOf(m)' \in DOMAIN enrollments'
    BY <1>1 DEF OutreachInv, RowsAreOrdered, EnrollmentOf
  <2>2. ASSUME NEW e \in DOMAIN enrollments PROVE Ordered(e)'
    <3>1. PICK last \in 0..Steps[e[1]] :
             /\ \A k \in 1..Steps[e[1]] : <<e[1], e[2], k>> \in DOMAIN messages <=> k <= last
             /\ \A k \in 1..(last - 1) : messages[<<e[1], e[2], k>>].status = "sent"
             /\ enrollments[e].step \in {last, last - 1}
      BY DEF OutreachInv, RowsAreOrdered, Ordered
    <3>2. e \in Enrollments
      BY DEF OutreachInv, TypeOK
    <3>3. Steps[e[1]] \in Nat
      BY <3>2 DEF Enrollments
    <3>4. \A k \in 1..(last - 1) : messages'[<<e[1], e[2], k>>].status = "sent"
      <4> SUFFICES ASSUME NEW k \in 1..(last - 1)
                   PROVE  messages'[<<e[1], e[2], k>>].status = "sent"
        OBVIOUS
      <4>1. k \in 1..Steps[e[1]] /\ k <= last
        BY <3>3
      <4>2. <<e[1], e[2], k>> \in DOMAIN messages
        BY <3>1, <4>1
      <4>3. messages[<<e[1], e[2], k>>].status = "sent"
        BY <3>1
      <4> QED
        BY <4>2, <4>3 DEF MessagesKeep
    <3>5. enrollments'[e].step \in {last, last - 1}
      BY <3>1 DEF EnrollmentsKeep
    <3>6. \A k \in 1..Steps[e[1]] : <<e[1], e[2], k>> \in DOMAIN messages' <=> k <= last
      BY <1>1, <3>1
    <3> QED
      BY <3>4, <3>5, <3>6 DEF Ordered
  <2> QED
    BY <1>1, <2>1, <2>2 DEF RowsAreOrdered
<1>5. ProposalsAreApproved'
  BY DEF ProposalsAreApproved, ActionsGrow, MessagesKeep
<1>6. OneSequencePerPerson'
  BY <1>1 DEF OutreachInv, OneSequencePerPerson, Active, EnrollmentsKeep
<1> QED
  BY <1>2, <1>3, <1>4, <1>5, <1>6

(* And with the calls and the rest in order it keeps the invariant.        *)
LEMMA KeepingStepKeeps ==
  ASSUME OutreachInv, EnrollmentsKeep, MessagesKeep, ActionsGrow, RestIsTyped, OptOutsLast',
         CallsAreFine', SendsAreCounted'
  PROVE  OutreachInv'
<1>1. RowsAreOrdered' /\ ProposalsAreApproved' /\ OneSequencePerPerson'
  BY KeepingStep
<1>2. TypeOK'
  <2>1. /\ DOMAIN enrollments' \subseteq Enrollments /\ enrollments' \in [DOMAIN enrollments' -> Enrollment]
        /\ DOMAIN messages' \subseteq MessageIds /\ messages' \in [DOMAIN messages' -> Message]
        /\ DOMAIN actions' \subseteq DOMAIN messages' /\ actions' \in [DOMAIN actions' -> Action]
    BY DEF OutreachInv, TypeOK, EnrollmentsKeep, MessagesKeep, ActionsGrow
  <2> QED
    BY <2>1 DEF TypeOK, RestIsTyped
<1> QED
  BY <1>1, <1>2 DEF OutreachInv

(***************************************************************************)
(* Steps of people and of time: no call moves.                             *)
(***************************************************************************)

(* Steps that leave the calls and the accepted mails alone.                *)
LEMMA PeopleStepKeeps ==
  ASSUME OutreachInv, EnrollmentsKeep, MessagesKeep, ActionsGrow, RestIsTyped, OptOutsLast',
         UNCHANGED calls, SentToday' \subseteq SentToday
  PROVE  OutreachInv'
<1>1. CallsAreFine'
  BY KeepingStep, CallsStay DEF OutreachInv
<1>2. SendsAreCounted'
  BY CountStays DEF OutreachInv, Sending
<1> QED
  BY <1>1, <1>2, KeepingStepKeeps

(* What a step that leaves a table alone keeps of it.                      *)
LEMMA UnchangedKeeps ==
  ASSUME OutreachInv
  PROVE  /\ UNCHANGED enrollments => EnrollmentsKeep
         /\ UNCHANGED messages => MessagesKeep
         /\ UNCHANGED actions => ActionsGrow /\ SentToday' = SentToday
         /\ UNCHANGED <<permissions, suppressions, optedOut>> => OptOutsLast'
         /\ UNCHANGED <<clock, statuses, permissions, suppressions, replies, optedOut>>
               /\ events' \in 0..MaxEvents => RestIsTyped
         /\ Event => events' \in 0..MaxEvents
         /\ UNCHANGED events => events' \in 0..MaxEvents
<1> USE DEF OutreachInv, TypeOK
<1>1. UNCHANGED enrollments => EnrollmentsKeep
  BY DEF EnrollmentsKeep
<1>2. UNCHANGED messages => MessagesKeep
  BY DEF MessagesKeep
<1>3. UNCHANGED actions => ActionsGrow /\ SentToday' = SentToday
  BY DEF ActionsGrow, ProposalsAreApproved, SentToday
<1>4. UNCHANGED <<permissions, suppressions, optedOut>> => OptOutsLast'
  BY DEF OptOutsLast
<1>5. UNCHANGED <<clock, statuses, permissions, suppressions, replies, optedOut>>
               /\ events' \in 0..MaxEvents => RestIsTyped
  BY DEF RestIsTyped
<1>6. Event => events' \in 0..MaxEvents
  BY DEF Event
<1>7. UNCHANGED events => events' \in 0..MaxEvents
  OBVIOUS
<1> QED
  BY <1>1, <1>2, <1>3, <1>4, <1>5, <1>6, <1>7

(* Suppressions only grow while somebody unsubscribes or is suppressed.    *)
LEMMA SuppressingKeeps ==
  ASSUME OutreachInv, NEW p \in People, Unsubscribed(p) \/ Suppressed(p)
  PROVE  /\ OptOutsLast'
         /\ permissions' \in [People -> {"unknown", "allowed", "suppressed"}]
         /\ suppressions' \in [People -> {"none", "founder", "lasting"}]
         /\ optedOut' \subseteq People
<1>1. /\ permissions \in [People -> {"unknown", "allowed", "suppressed"}]
      /\ suppressions \in [People -> {"none", "founder", "lasting"}] /\ optedOut \subseteq People
      /\ \A q \in optedOut : suppressions[q] = "lasting"
  BY DEF OutreachInv, TypeOK, OptOutsLast
<1>2. CASE Unsubscribed(p)
  BY <1>1, <1>2 DEF Unsubscribed, OptOutsLast
<1>3. CASE Suppressed(p)
  BY <1>1, <1>3 DEF Suppressed, OptOutsLast
<1> QED
  BY <1>2, <1>3

(* Unsubscribing, an import, and what the founder permits.                 *)
LEMMA PermissionsKeep ==
  ASSUME OutreachInv, NEW p \in People,
         \/ Unsubscribe(p) \/ Import(p)
         \/ \E status \in {"allowed", "suppressed"} : UpdatePermission(p, status)
  PROVE  OutreachInv'
<1>1. UNCHANGED <<clock, statuses, enrollments, messages, actions, replies, calls>> /\ Event
  BY DEF Unsubscribe, Import, UpdatePermission
<1>2. /\ OptOutsLast'
      /\ permissions' \in [People -> {"unknown", "allowed", "suppressed"}]
      /\ suppressions' \in [People -> {"none", "founder", "lasting"}]
      /\ optedOut' \subseteq People
  <2>1. CASE Unsubscribe(p) \/ Import(p)
    BY <2>1, SuppressingKeeps DEF Unsubscribe, Import
  <2>2. CASE \E status \in {"allowed", "suppressed"} : UpdatePermission(p, status)
    <3>1. PICK status \in {"allowed", "suppressed"} : UpdatePermission(p, status)
      BY <2>2
    <3>2. /\ permissions \in [People -> {"unknown", "allowed", "suppressed"}]
          /\ suppressions \in [People -> {"none", "founder", "lasting"}] /\ optedOut \subseteq People
          /\ \A q \in optedOut : suppressions[q] = "lasting"
      BY DEF OutreachInv, TypeOK, OptOutsLast
    <3>3. permissions' = [permissions EXCEPT ![p] = status] /\ optedOut' = optedOut
      BY <3>1 DEF UpdatePermission
    <3>4. PICK now \in {"none", "founder", "lasting"} :
             /\ suppressions' = [suppressions EXCEPT ![p] = now]
             /\ suppressions[p] = "lasting" => now = "lasting"
      <4>1. suppressions[p] \in {"none", "founder", "lasting"}
        BY <3>2
      <4>2. CASE status = "suppressed" /\ suppressions[p] = "none"
        BY <3>1, <4>2 DEF UpdatePermission
      <4>3. CASE status = "allowed" /\ suppressions[p] = "founder"
        BY <3>1, <4>3 DEF UpdatePermission
      <4>4. CASE /\ ~(status = "suppressed" /\ suppressions[p] = "none")
                 /\ ~(status = "allowed" /\ suppressions[p] = "founder")
        BY <3>1, <4>1, <4>4 DEF UpdatePermission
      <4> QED
        BY <4>2, <4>3, <4>4
    <3> QED
      BY <3>2, <3>3, <3>4 DEF OptOutsLast
  <2> QED
    BY <2>1, <2>2
<1>3. EnrollmentsKeep /\ MessagesKeep /\ ActionsGrow /\ SentToday' = SentToday /\ events' \in 0..MaxEvents
  BY <1>1, UnchangedKeeps
<1>4. RestIsTyped
  BY <1>1, <1>2, <1>3 DEF OutreachInv, TypeOK, RestIsTyped
<1> QED
  BY <1>1, <1>2, <1>3, <1>4, PeopleStepKeeps

(* A reply comes in.                                                       *)
LEMMA IngestKeeps ==
  ASSUME OutreachInv, NEW p \in People, NEW at \in 1..clock, Ingest(p, at)
  PROVE  OutreachInv'
<1>1. /\ UNCHANGED <<clock, statuses, enrollments, messages, actions, permissions, suppressions>>
      /\ UNCHANGED <<calls, optedOut>> /\ Event
      /\ Cardinality(DOMAIN replies) < MaxReplies
      /\ replies' = Put(replies, Cardinality(DOMAIN replies) + 1,
                        [from |-> p, at |-> at, label |-> "none"])
  BY DEF Ingest, db
<1>2. /\ replies \in [DOMAIN replies -> Reply] /\ DOMAIN replies \subseteq 1..MaxReplies
      /\ clock \in 1..MaxClock
  BY DEF OutreachInv, TypeOK
<1>3. Cardinality(DOMAIN replies) \in Nat
  <2>1. 1 \in Int /\ MaxReplies \in Int
    OBVIOUS
  <2>2. IsFiniteSet(1..MaxReplies)
    BY <2>1, FS_Interval
  <2> QED
    BY <1>2, <2>2, FS_Subset, FS_CardinalityType
<1>4. DOMAIN replies' \subseteq 1..MaxReplies /\ replies' \in [DOMAIN replies' -> Reply]
  <2>1. PICK n : n = Cardinality(DOMAIN replies) + 1
    OBVIOUS
  <2>2. n \in 1..MaxReplies
    BY <1>1, <1>3, <2>1
  <2>3. PICK reply : reply = [from |-> p, at |-> at, label |-> "none"]
    OBVIOUS
  <2>4. reply \in Reply
    BY <1>2, <2>3 DEF Reply
  <2>5. replies' = [y \in DOMAIN replies \cup {n} |-> IF y = n THEN reply ELSE replies[y]]
    BY <1>1, <2>1, <2>3 DEF Put
  <2> QED
    BY <1>2, <2>2, <2>4, <2>5
<1>5. /\ EnrollmentsKeep /\ MessagesKeep /\ ActionsGrow /\ SentToday' = SentToday /\ OptOutsLast'
      /\ events' \in 0..MaxEvents
  BY <1>1, UnchangedKeeps
<1>6. RestIsTyped
  BY <1>1, <1>4, <1>5 DEF OutreachInv, TypeOK, RestIsTyped
<1> QED
  BY <1>1, <1>5, <1>6, PeopleStepKeeps

(* A reply is labeled.                                                     *)
LEMMA ClassifyKeeps ==
  ASSUME OutreachInv, NEW i \in DOMAIN replies, NEW label \in Labels, Classify(i, label)
  PROVE  OutreachInv'
<1>1. /\ UNCHANGED <<clock, statuses, enrollments, messages, actions, permissions, suppressions>>
      /\ UNCHANGED <<calls, optedOut, events>>
      /\ replies' = [replies EXCEPT ![i].label = label]
  BY DEF Classify, db, history
<1>2. DOMAIN replies' \subseteq 1..MaxReplies /\ replies' \in [DOMAIN replies' -> Reply]
  <2>1. replies \in [DOMAIN replies -> Reply] /\ DOMAIN replies \subseteq 1..MaxReplies
    BY DEF OutreachInv, TypeOK
  <2>2. PICK reply : reply = [replies[i] EXCEPT !.label = label]
    OBVIOUS
  <2>3. reply \in Reply
    BY <2>1, <2>2 DEF Reply
  <2>4. replies' = [replies EXCEPT ![i] = reply]
    BY <1>1, <2>2
  <2> QED
    BY <2>1, <2>3, <2>4
<1>3. /\ EnrollmentsKeep /\ MessagesKeep /\ ActionsGrow /\ SentToday' = SentToday /\ OptOutsLast'
      /\ events' \in 0..MaxEvents
  BY <1>1, UnchangedKeeps
<1>4. RestIsTyped
  BY <1>1, <1>2, <1>3 DEF OutreachInv, TypeOK, RestIsTyped
<1> QED
  BY <1>1, <1>3, <1>4, PeopleStepKeeps

(* A draft is reviewed, an action denied, an enrollment stopped, a         *)
(* sequence paused or resumed; time passes.                                *)
LEMMA InterventionsKeep ==
  ASSUME OutreachInv,
         \/ \E m \in DOMAIN messages, verdict \in {"approved", "rejected"} : Review(m, verdict)
         \/ \E m \in DOMAIN actions : Deny(m)
         \/ \E e \in DOMAIN enrollments : Stop(e)
         \/ \E s \in Sequences, status \in {"active", "paused"} : SetStatus(s, status)
         \/ Tick
  PROVE  OutreachInv'
<1> USE UnchangedKeeps
<1>1. /\ enrollments \in [DOMAIN enrollments -> Enrollment]
      /\ messages \in [DOMAIN messages -> Message] /\ actions \in [DOMAIN actions -> Action]
  BY DEF OutreachInv, TypeOK
<1>2. CASE \E m \in DOMAIN messages, verdict \in {"approved", "rejected"} : Review(m, verdict)
  <2>1. PICK m \in DOMAIN messages, verdict \in {"approved", "rejected"} : Review(m, verdict)
    BY <1>2
  <2>2. /\ UNCHANGED <<clock, statuses, enrollments, actions, permissions, suppressions, replies, calls>>
        /\ UNCHANGED <<events, optedOut>> /\ messages[m].draft = "pending_review"
        /\ messages' = [messages EXCEPT ![m].draft = verdict]
    BY <2>1 DEF Review, history
  <2>3. PICK row : row = [messages[m] EXCEPT !.draft = verdict]
    OBVIOUS
  <2>4. row \in Message /\ row.status = messages[m].status
    BY <1>1, <2>3 DEF Message
  <2>5. messages' = [messages EXCEPT ![m] = row]
    BY <2>2, <2>3
  <2>6. MessagesKeep
    BY <1>1, <2>2, <2>4, <2>5 DEF MessagesKeep
  <2> QED
    BY <2>2, <2>6, PeopleStepKeeps
<1>3. CASE \E m \in DOMAIN actions : Deny(m)
  <2>1. PICK m \in DOMAIN actions : Deny(m)
    BY <1>3
  <2>2. /\ UNCHANGED <<clock, statuses, enrollments, messages, permissions, suppressions, replies, calls>>
        /\ UNCHANGED <<events, optedOut>>
        /\ actions' = [actions EXCEPT ![m].status = "cancelled"]
    BY <2>1 DEF Deny, history
  <2>3. PICK row : row = [actions[m] EXCEPT !.status = "cancelled"]
    OBVIOUS
  <2>4. row \in Action /\ row.accepted = actions[m].accepted
    BY <1>1, <2>3 DEF Action
  <2>5. actions' = [actions EXCEPT ![m] = row]
    BY <2>2, <2>3
  <2>6. ActionsGrow /\ SentToday' \subseteq SentToday
    BY <1>1, <2>4, <2>5 DEF ActionsGrow, SentToday, OutreachInv, TypeOK, ProposalsAreApproved
  <2> QED
    BY <2>2, <2>6, PeopleStepKeeps
<1>4. CASE \E e \in DOMAIN enrollments : Stop(e)
  <2>1. PICK e \in DOMAIN enrollments : Stop(e)
    BY <1>4
  <2>2. /\ UNCHANGED <<clock, statuses, messages, actions, permissions, suppressions, replies, calls, optedOut>>
        /\ Event /\ enrollments' = [enrollments EXCEPT ![e] =
                                      [enrollments[e] EXCEPT !.status = "stopped", !.due = 0]]
    BY <2>1 DEF Stop, Set
  <2>3. PICK row : row = [enrollments[e] EXCEPT !.status = "stopped", !.due = 0]
    OBVIOUS
  <2>4. row \in Enrollment /\ row.step = enrollments[e].step /\ row.status = "stopped"
    BY <1>1, <2>3 DEF Enrollment
  <2>5. EnrollmentsKeep
    BY <1>1, <2>2, <2>3, <2>4 DEF EnrollmentsKeep
  <2> QED
    BY <2>2, <2>5, PeopleStepKeeps
<1>5. CASE \E s \in Sequences, status \in {"active", "paused"} : SetStatus(s, status)
  <2>1. /\ UNCHANGED <<clock, enrollments, messages, actions, permissions, suppressions, replies, calls, optedOut>>
        /\ Event /\ statuses' \in [Sequences -> {"active", "paused", "completed"}]
    BY <1>5 DEF SetStatus, OutreachInv, TypeOK
  <2>2. RestIsTyped
    BY <2>1 DEF OutreachInv, TypeOK, RestIsTyped
  <2> QED
    BY <2>1, <2>2, PeopleStepKeeps
<1>6. CASE Tick
  <2>1. /\ UNCHANGED <<statuses, enrollments, messages, actions, permissions, suppressions>>
        /\ UNCHANGED <<replies, calls, optedOut>> /\ Event /\ clock' \in 1..MaxClock
    BY <1>6 DEF Tick, db, OutreachInv, TypeOK
  <2>2. RestIsTyped
    BY <2>1 DEF OutreachInv, TypeOK, RestIsTyped
  <2> QED
    BY <2>1, <2>2, PeopleStepKeeps
<1> QED
  BY <1>2, <1>3, <1>4, <1>5, <1>6

(***************************************************************************)
(* What the steps of a call change.                                        *)
(***************************************************************************)

(* The call at another position, with another message or row.              *)
LEMMA CallWith ==
  ASSUME NEW x \in Call, NEW pc \in Pcs, NEW msg \in MessageIds \cup {None},
         NEW row \in Enrollment \cup {<<>>}, NEW goesOn \in BOOLEAN,
         NEW y, y = [pc |-> pc, began |-> x.began, todo |-> x.todo, seq |-> x.seq,
                     rows |-> x.rows, msg |-> msg, row |-> row, goesOn |-> goesOn]
  PROVE  y \in Call
<1>1. /\ x.began \in Nat /\ x.todo \subseteq Sequences /\ x.seq \in Sequences \cup {None}
      /\ x.rows \in Rows
  BY CallIs
<1>2. /\ y.pc \in Pcs /\ y.began \in Nat /\ y.todo \subseteq Sequences
      /\ y.seq \in Sequences \cup {None} /\ y.rows \in Rows
      /\ y.msg \in MessageIds \cup {None} /\ y.row \in Enrollment \cup {<<>>}
      /\ y.goesOn \in BOOLEAN
  BY <1>1
<1>3. y = [pc |-> y.pc, began |-> y.began, todo |-> y.todo, seq |-> y.seq,
           rows |-> y.rows, msg |-> y.msg, row |-> y.row, goesOn |-> y.goesOn]
  OBVIOUS
<1> QED
  BY <1>2, <1>3, MakesCall

(* The call while it drafts a message, and while it waits for Gmail, the   *)
(* row in hand if the message was of an earlier tick.                      *)
Drafting(x, m) == [x EXCEPT !.pc = "generating", !.msg = m]
Mailing(x, m, row) ==
    [pc |-> "sending", began |-> x.began, todo |-> x.todo, seq |-> x.seq,
     rows |-> x.rows, msg |-> m, row |-> row, goesOn |-> TRUE]
MailingOnly(x, m) == [x EXCEPT !.pc = "sending", !.msg = m]

(* A call that is about to draft a message.                                *)
LEMMA GeneratingIs ==
  ASSUME NEW x \in Call, NEW m \in MessageIds, NEW y, y = Drafting(x, m)
  PROVE  /\ y \in Call /\ y.pc = "generating" /\ y.msg = m /\ y.rows = x.rows
         /\ y.goesOn => x.goesOn
<1>1. x = [pc |-> x.pc, began |-> x.began, todo |-> x.todo, seq |-> x.seq,
           rows |-> x.rows, msg |-> x.msg, row |-> x.row, goesOn |-> x.goesOn]
  BY CallIs
<1>2. y = [pc |-> "generating", began |-> x.began, todo |-> x.todo, seq |-> x.seq,
           rows |-> x.rows, msg |-> m, row |-> x.row, goesOn |-> x.goesOn]
  BY <1>1 DEF Drafting
<1>3. x.row \in Enrollment \cup {<<>>} /\ x.goesOn \in BOOLEAN /\ "generating" \in Pcs
  BY CallIs DEF Pcs
<1>4. y \in Call
  BY <1>2, <1>3, CallWith
<1> QED
  BY <1>2, <1>4

(* A call that waits for Gmail, and will go on from there.                 *)
LEMMA MailingIs ==
  ASSUME NEW x \in Call, NEW m \in MessageIds, NEW row \in Enrollment, NEW y,
         y = Mailing(x, m, row)
  PROVE  /\ y \in Call /\ y.pc = "sending" /\ y.msg = m /\ y.rows = x.rows /\ y.row = row
<1>1. "sending" \in Pcs /\ row \in Enrollment \cup {<<>>}
  BY DEF Pcs
<1>2. y \in Call
  BY <1>1, CallWith DEF Mailing
<1> QED
  BY <1>2 DEF Mailing

(* A call that waits for Gmail, whatever it does then.                     *)
LEMMA MailingOnlyIs ==
  ASSUME NEW x \in Call, NEW m \in MessageIds, NEW y, y = MailingOnly(x, m)
  PROVE  /\ y \in Call /\ y.pc = "sending" /\ y.msg = m /\ y.rows = x.rows
         /\ y.goesOn => x.goesOn
<1>1. x = [pc |-> x.pc, began |-> x.began, todo |-> x.todo, seq |-> x.seq,
           rows |-> x.rows, msg |-> x.msg, row |-> x.row, goesOn |-> x.goesOn]
  BY CallIs
<1>2. y = [pc |-> "sending", began |-> x.began, todo |-> x.todo, seq |-> x.seq,
           rows |-> x.rows, msg |-> m, row |-> x.row, goesOn |-> x.goesOn]
  BY <1>1 DEF MailingOnly
<1>3. x.row \in Enrollment \cup {<<>>} /\ x.goesOn \in BOOLEAN /\ "sending" \in Pcs
  BY CallIs DEF Pcs
<1>4. y \in Call
  BY <1>2, <1>3, CallWith
<1> QED
  BY <1>2, <1>4

(* An action is changed.                                                   *)
LEMMA ActionChanges ==
  ASSUME OutreachInv, NEW m \in DOMAIN actions, NEW a \in Action,
         actions' = [actions EXCEPT ![m] = a]
  PROVE  /\ ActionsGrow /\ SentToday' \subseteq SentToday \cup {m}
         /\ a.accepted = actions[m].accepted \/ a.accepted = 0 => SentToday' \subseteq SentToday
<1>1. /\ actions \in [DOMAIN actions -> Action] /\ DOMAIN actions \subseteq DOMAIN messages
      /\ \A n \in DOMAIN actions : messages[n].draft = "approved"
  BY DEF OutreachInv, TypeOK, ProposalsAreApproved
<1>2. ActionsGrow
  BY <1>1 DEF ActionsGrow
<1> QED
  BY <1>1, <1>2 DEF SentToday

(* Parts of an action change.                                              *)
LEMMA ActionIs ==
  ASSUME NEW a \in Action,
         NEW status \in {"authorization_required", "dispatching", "succeeded", "blocked", "cancelled"},
         NEW linked \in BOOLEAN, NEW accepted \in Nat, NEW b,
         b = [a EXCEPT !.status = status, !.linked = linked, !.accepted = accepted]
  PROVE  /\ b \in Action /\ b.status = status /\ b.linked = linked /\ b.accepted = accepted
         /\ b.threaded = a.threaded
  BY DEF Action

(* An enrollment is changed, its step is not.                              *)
LEMMA EnrollmentChanges ==
  ASSUME OutreachInv, NEW e \in DOMAIN enrollments, NEW row \in Enrollment,
         row.step = enrollments[e].step,
         row.status = "active" => enrollments[e].status = "active",
         Set(e, row)
  PROVE  EnrollmentsKeep
  BY DEF EnrollmentsKeep, Set, OutreachInv, TypeOK

(* A message is sent.                                                      *)
LEMMA MessageIsSent ==
  ASSUME OutreachInv, NEW m \in DOMAIN messages, NEW at \in Nat,
         messages' = [messages EXCEPT ![m].status = "sent", ![m].sent = at]
  PROVE  /\ MessagesKeep /\ messages'[m].status = "sent"
<1>1. messages \in [DOMAIN messages -> Message]
  BY DEF OutreachInv, TypeOK
<1>2. PICK row : row = [messages[m] EXCEPT !.status = "sent", !.sent = at]
  OBVIOUS
<1>3. row \in Message /\ row.status = "sent" /\ row.draft = messages[m].draft
  BY <1>1, <1>2 DEF Message
<1>4. messages' = [messages EXCEPT ![m] = row]
  BY <1>2
<1>5. messages'[m] = row /\ \A n \in DOMAIN messages : n # m => messages'[n] = messages[n]
  BY <1>1, <1>4
<1>6. messages' \in [DOMAIN messages -> Message]
  BY <1>1, <1>3, <1>4
<1>7. MessagesKeep
  BY <1>3, <1>5, <1>6 DEF MessagesKeep
<1> QED
  BY <1>3, <1>5, <1>7

(* What an enrollment has gone past has a message.                         *)
LEMMA StepHasMessage ==
  ASSUME OutreachInv, NEW e \in DOMAIN enrollments, NEW k \in Nat \ {0},
         k <= enrollments[e].step
  PROVE  k \in 1..Steps[e[1]] /\ <<e[1], e[2], k>> \in DOMAIN messages
<1>1. PICK last \in 0..Steps[e[1]] :
         /\ \A j \in 1..Steps[e[1]] : <<e[1], e[2], j>> \in DOMAIN messages <=> j <= last
         /\ enrollments[e].step \in {last, last - 1}
  BY DEF OutreachInv, RowsAreOrdered, Ordered
<1>2. e \in Enrollments
  BY DEF OutreachInv, TypeOK
<1>3. Steps[e[1]] \in Nat
  BY <1>2 DEF Enrollments
<1>4. k <= last
  BY <1>1
<1> QED
  BY <1>1, <1>3, <1>4

(* What Propose does, in terms of what it lets go.                         *)
Proposes(c, m, here, back) ==
    \E a, y :
       /\ a \in Action
       /\ a.accepted = 0
       /\ actions' = Put(actions, m, a) /\ calls' = [calls EXCEPT ![c] = y]
       /\ \/ y = back
          \/ y = [here EXCEPT !.pc = "sending"] /\ Guarded(m[2]) /\ m[1] \notin Gated

(* A send is proposed: a new action, and the caller waits for Gmail only   *)
(* when the guard of an ungated sequence lets it.                          *)
LEMMA ProposeIs ==
  ASSUME OutreachInv, NEW c, NEW m, EnrollmentOf(m) \in DOMAIN enrollments,
         NEW here, NEW back, Propose(c, m, here, back)
  PROVE  Proposes(c, m, here, back)
<1>1. Threaded(m) \in BOOLEAN
  BY DEF Threaded, OutreachInv, TypeOK, Enrollment
<1>2. CASE m[1] \in Gated \/ ~Guarded(m[2])
  <2>1. PICK a : a = ActionOf(m, IF m[1] \in Gated THEN "authorization_required" ELSE "blocked", TRUE)
    OBVIOUS
  <2>2. a \in Action /\ a.accepted = 0
    BY <1>1, <2>1 DEF ActionOf, Action
  <2>3. actions' = Put(actions, m, a) /\ calls' = [calls EXCEPT ![c] = back]
    BY <1>2, <2>1 DEF Propose
  <2> QED
    BY <2>2, <2>3 DEF Proposes
<1>3. CASE m[1] \notin Gated /\ Guarded(m[2])
  <2>1. PICK a : a = ActionOf(m, "dispatching", FALSE)
    OBVIOUS
  <2>2. a \in Action /\ a.accepted = 0
    BY <1>1, <2>1 DEF ActionOf, Action
  <2>3. actions' = Put(actions, m, a) /\ calls' = [calls EXCEPT ![c] = [here EXCEPT !.pc = "sending"]]
    BY <1>3, <2>1 DEF Propose
  <2> QED
    BY <1>3, <2>2, <2>3 DEF Proposes
<1> QED
  BY <1>2, <1>3

(* What Onward does, in terms of what it keeps.                            *)
GoesOn(c, e, row, back) ==
    \E new, y :
       /\ new \in Enrollment
       /\ Set(e, new) /\ new.step = enrollments[e].step
       /\ new.status \in {enrollments[e].status, "completed"}
       /\ calls' = [calls EXCEPT ![c] = y]
       /\ \/ y = back
          \/ row.step < Steps[e[1]] /\ y = Drafting(back, <<e[1], e[2], row.step + 1>>)

(* The sequence goes on from a sent message: the enrollment keeps its      *)
(* step, and the caller rests or drafts the next one.                      *)
LEMMA OnwardIs ==
  ASSUME OutreachInv, NEW c, NEW e \in DOMAIN enrollments, NEW row, NEW sent \in Nat, NEW back,
         Onward(c, e, row, sent, back)
  PROVE  GoesOn(c, e, row, back)
<1>1. enrollments[e] \in Enrollment
  BY DEF OutreachInv, TypeOK
<1>2. PICK cur : cur = IF row.threaded /\ row.since = sent THEN enrollments[e] ELSE Noted(e, sent)
  OBVIOUS
<1>3. cur \in Enrollment /\ cur.step = enrollments[e].step /\ cur.status = enrollments[e].status
  BY <1>1, <1>2 DEF Noted, Enrollment
<1>4. PICK over : over = [cur EXCEPT !.status = "completed", !.due = 0]
  OBVIOUS
<1>5. over \in Enrollment /\ over.step = enrollments[e].step /\ over.status = "completed"
  BY <1>3, <1>4 DEF Enrollment
<1>6. PICK parked : parked = IF row.due = sent + Delay THEN cur ELSE [cur EXCEPT !.due = sent + Delay]
  OBVIOUS
<1>7. parked \in Enrollment /\ parked.step = enrollments[e].step /\ parked.status = enrollments[e].status
  <2>1. sent + Delay \in Nat
    OBVIOUS
  <2> QED
    BY <1>3, <1>6, <2>1 DEF Enrollment
<1>8. \/ Set(e, over) /\ calls' = [calls EXCEPT ![c] = back]
      \/ /\ row.step < Steps[e[1]] /\ Set(e, cur)
         /\ calls' = [calls EXCEPT ![c] = Drafting(back, <<e[1], e[2], row.step + 1>>)]
      \/ Set(e, parked) /\ calls' = [calls EXCEPT ![c] = back]
  BY <1>2, <1>4, <1>6 DEF Onward, Drafting
<1> QED
  BY <1>3, <1>5, <1>7, <1>8 DEF GoesOn

(***************************************************************************)
(* The steps of a call that keep the rows.                                 *)
(***************************************************************************)

(* A call is at a row it has read.                                         *)
LEMMA RowIsRead ==
  ASSUME OutreachInv, NEW c \in Callers, NEW e \in DOMAIN calls[c].rows
  PROVE  /\ e \in DOMAIN enrollments /\ calls[c].rows[e] \in Enrollment
         /\ calls[c].rows[e].step \in Nat /\ calls[c].rows[e].step <= enrollments[e].step
<1>1. calls[c] \in Call /\ Read(e, calls[c].rows[e])
  BY DEF OutreachInv, CallsAreFine, CallIsFine
<1>2. calls[c].rows[e] \in Enrollment
  BY <1>1, CallIs, RowsAre
<1> QED
  BY <1>1, <1>2 DEF Read, Enrollment

(* A reply is handled.                                                     *)
LEMMA HandleReplyKeeps ==
  ASSUME OutreachInv, NEW c \in Callers, NEW e, HandleReply(c, e)
  PROVE  OutreachInv'
<1>1. /\ calls[c].pc = "walking" /\ e \in DOMAIN calls[c].rows
      /\ calls' = [calls EXCEPT ![c].rows = Without(@, e)]
      /\ UNCHANGED <<clock, statuses, messages, actions, replies, events>>
  BY DEF HandleReply
<1>2. /\ e \in DOMAIN enrollments /\ e[2] \in People /\ enrollments[e] \in Enrollment
  BY <1>1, RowIsRead DEF OutreachInv, TypeOK, Enrollments
<1>3. calls[c] \in Call /\ CallIsFine(calls[c]) /\ CallsAreFine
  BY DEF OutreachInv, CallsAreFine, CallIsFine
<1>4. PICK y : y = [calls[c] EXCEPT !.rows = Without(@, e)]
  OBVIOUS
<1>5. /\ y \in Call /\ y.pc = "walking"
      /\ \A d \in DOMAIN y.rows : d \in DOMAIN calls[c].rows /\ y.rows[d] = calls[c].rows[d]
      /\ ~y.goesOn
  <2>1. PICK x \in Call : x = calls[c] /\ y = [x EXCEPT !.rows = Without(@, e)]
    BY <1>3, <1>4
  <2>2. y = Back(x, e)
    BY <2>1 DEF Back
  <2>3. /\ y \in Call /\ y.pc = x.pc /\ y.began = x.began /\ y.seq = x.seq /\ y.msg = x.msg
        /\ y.row = x.row /\ y.goesOn = x.goesOn /\ y.todo = x.todo
        /\ DOMAIN y.rows \subseteq DOMAIN x.rows
        /\ \A d \in DOMAIN y.rows : y.rows[d] = x.rows[d]
    BY <2>2, BackIs
  <2>4. ~x.goesOn
    BY <1>1, <1>3, <2>1 DEF CallIsFine
  <2> QED
    BY <1>1, <2>1, <2>3, <2>4
<1>6. calls' = [calls EXCEPT ![c] = y]
  BY <1>1, <1>4
<1>7. CallIsFine(y)
  BY <1>3, <1>5, RestingIsFine
<1>8. PICK i \in DOMAIN replies, status \in {enrollments[e].status, "stopped", "failed", "replied"},
           due \in Nat :
         /\ Handled(e, i, status, due)
         /\ \/ UNCHANGED <<permissions, suppressions, optedOut>>
            \/ Unsubscribed(e[2]) \/ Suppressed(e[2])
  <2>1. PICK i \in Newest(Unhandled(e, calls[c].rows[e])) :
          \/ /\ replies[i].label = "out_of_office"
             /\ Handled(e, i, enrollments[e].status, calls[c].began + Retry)
             /\ UNCHANGED <<permissions, suppressions, optedOut>>
          \/ /\ replies[i].label = "unsubscribe_request"
             /\ Unsubscribed(e[2])
             /\ Handled(e, i, "stopped", 0)
          \/ /\ replies[i].label = "bounce"
             /\ Suppressed(e[2])
             /\ Handled(e, i, "failed", 0)
          \/ /\ replies[i].label \in {"positive", "none"}
             /\ Handled(e, i, "replied", 0)
             /\ UNCHANGED <<permissions, suppressions, optedOut>>
    BY DEF HandleReply
  <2>2. i \in DOMAIN replies
    BY DEF Newest, Unhandled
  <2>3. calls[c].began + Retry \in Nat
    BY <1>3, CallIs
  <2> QED
    BY <2>1, <2>2, <2>3
<1>9. PICK row : row = [enrollments[e] EXCEPT !.status = status, !.due = due, !.handled = replies[i].at]
  OBVIOUS
<1>10. row \in Enrollment /\ row.step = enrollments[e].step /\ row.status = status
  <2>1. replies[i].at \in Nat
    BY DEF OutreachInv, TypeOK, Reply
  <2>2. status \in {"active", "replied", "stopped", "failed", "completed"}
    BY <1>2 DEF Enrollment
  <2> QED
    BY <1>2, <1>9, <2>1, <2>2 DEF Enrollment
<1>11. EnrollmentsKeep
  <2>1. Set(e, row)
    BY <1>8, <1>9 DEF Handled
  <2> QED
    BY <1>2, <1>10, <2>1, EnrollmentChanges
<1>12. MessagesKeep /\ ActionsGrow /\ SentToday' = SentToday /\ events' \in 0..MaxEvents
  BY <1>1, UnchangedKeeps
<1>13. /\ OptOutsLast'
       /\ permissions' \in [People -> {"unknown", "allowed", "suppressed"}]
       /\ suppressions' \in [People -> {"none", "founder", "lasting"}]
       /\ optedOut' \subseteq People
  <2>1. CASE UNCHANGED <<permissions, suppressions, optedOut>>
    BY <2>1 DEF OutreachInv, TypeOK, OptOutsLast
  <2>2. CASE Unsubscribed(e[2]) \/ Suppressed(e[2])
    BY <1>2, <2>2, SuppressingKeeps
  <2> QED
    BY <1>8, <2>1, <2>2
<1>14. RestIsTyped
  BY <1>1, <1>12, <1>13 DEF OutreachInv, TypeOK, RestIsTyped
<1>15. CallsAreFine'
  <2>1. RowsStay /\ StepsAreNumbers /\ StepsAreNumbers'
    BY <1>11, <1>12, KeepingStep
  <2> QED
    BY <1>3, <1>6, <1>7, <2>1, CallGoes
<1>16. SendsAreCounted'
  <2>1. Sending' \subseteq Sending
    BY <1>3, <1>5, <1>6, SendingAfter
  <2> QED
    BY <1>12, <2>1, CountStays DEF OutreachInv
<1> QED
  BY <1>11, <1>12, <1>13, <1>14, <1>15, <1>16, KeepingStepKeeps

(* A step of a call that keeps the rows keeps the invariant when the call  *)
(* stays fine and a send begins below the cap or ends with its mail.       *)
LEMMA CallStepKeeps ==
  ASSUME OutreachInv, EnrollmentsKeep, MessagesKeep, ActionsGrow,
         UNCHANGED <<clock, statuses, permissions, suppressions, replies, optedOut>>,
         events' \in 0..MaxEvents,
         NEW c \in Callers, NEW y, calls' = [calls EXCEPT ![c] = y], CallIsFine(y) \/ CallIsFine(y)',
         NEW m,
         \/ SentToday' \subseteq SentToday /\ y.pc # "sending"
         \/ SentToday' \subseteq SentToday /\ Guarded(m[2])
         \/ SentToday' \subseteq SentToday \cup {m} /\ calls[c].pc = "sending" /\ y.pc # "sending"
  PROVE  OutreachInv'
<1>1. RestIsTyped /\ OptOutsLast' /\ CallsAreFine /\ SendsAreCounted
  BY UnchangedKeeps DEF OutreachInv
<1>2. CallsAreFine'
  <2>1. RowsStay /\ StepsAreNumbers /\ StepsAreNumbers'
    BY KeepingStep
  <2> QED
    BY <1>1, <2>1, CallGoes
<1>3. SendsAreCounted'
  <2>1. CASE SentToday' \subseteq SentToday /\ y.pc # "sending"
    <3>1. Sending' \subseteq Sending
      BY <1>1, <2>1, SendingAfter
    <3> QED
      BY <1>1, <2>1, <3>1, CountStays
  <2>2. CASE SentToday' \subseteq SentToday /\ Guarded(m[2])
    BY <1>1, <2>2, CountBegins DEF Guarded
  <2>3. CASE SentToday' \subseteq SentToday \cup {m} /\ calls[c].pc = "sending" /\ y.pc # "sending"
    <3>1. c \in Sending /\ Sending' \subseteq Sending \ {c}
      <4>1. c \in Sending
        BY <2>3 DEF Sending
      <4> QED
        BY <1>1, <2>3, <4>1, SendingAfter
    <3> QED
      BY <1>1, <2>3, <3>1, CountEnds
  <2> QED
    BY <2>1, <2>2, <2>3
<1> QED
  BY <1>1, <1>2, <1>3, KeepingStepKeeps

(* A new proposal.                                                         *)
LEMMA PutAction ==
  ASSUME OutreachInv, NEW m \in DOMAIN messages, messages[m].draft = "approved",
         NEW a \in Action, a.accepted = 0, actions' = Put(actions, m, a)
  PROVE  ActionsGrow /\ SentToday' \subseteq SentToday /\ m \in DOMAIN actions'
<1>1. /\ actions \in [DOMAIN actions -> Action] /\ DOMAIN actions \subseteq DOMAIN messages
      /\ \A n \in DOMAIN actions : messages[n].draft = "approved"
  BY DEF OutreachInv, TypeOK, ProposalsAreApproved
<1>2. actions' = [y \in DOMAIN actions \cup {m} |-> IF y = m THEN a ELSE actions[y]]
  BY DEF Put
<1>3. ActionsGrow
  BY <1>1, <1>2 DEF ActionsGrow
<1> QED
  BY <1>1, <1>2, <1>3 DEF SentToday

(* A caller that rests with some rows less is fine, and may go on to draft *)
(* the message after a sent one.                                           *)
LEMMA NextIsFine ==
  ASSUME OutreachInv, EnrollmentsKeep, MessagesKeep, ActionsGrow,
         NEW back, CallIsFine(back), back.pc # "sending", NEW e \in DOMAIN enrollments, NEW k \in Nat,
         k < Steps[e[1]], k <= enrollments[e].step,
         k > 0 => /\ <<e[1], e[2], k>> \in DOMAIN messages
                  /\ messages'[<<e[1], e[2], k>>].status = "sent",
         NEW m, m = <<e[1], e[2], k + 1>>, NEW y, y = Drafting(back, m)
  PROVE  CallIsFine(y)'
<1>1. CallIsFine(back)' /\ back \in Call
  BY KeepingStep, CallStays DEF CallIsFine
<1>2. e \in Enrollments /\ Steps[e[1]] \in Nat
  BY DEF OutreachInv, TypeOK, Enrollments
<1>3. m \in MessageIds /\ EnrollmentOf(m) = e /\ m[3] = k + 1 /\ Prior(m) = <<e[1], e[2], k>>
  <2>1. k + 1 \in 1..Steps[e[1]]
    BY <1>2
  <2>2. m \in MessageIds /\ EnrollmentOf(m) = e
    BY <1>2, <2>1, MakesId
  <2> QED
    BY <2>2 DEF Prior
<1>4. y \in Call /\ y.pc = "generating" /\ y.msg = m /\ y.rows = back.rows /\ ~y.goesOn
  <2>1. /\ y \in Call /\ y.pc = "generating" /\ y.msg = m /\ y.rows = back.rows
        /\ y.goesOn => back.goesOn
    BY <1>1, <1>3, GeneratingIs
  <2>2. ~back.goesOn
    BY DEF CallIsFine
  <2> QED
    BY <2>1, <2>2
<1>5. Follows(m)'
  <2>1. EnrollmentOf(m)' = e /\ Prior(m)' = <<e[1], e[2], k>>
    BY <1>3 DEF EnrollmentOf, Prior
  <2>2. e \in DOMAIN enrollments' /\ k <= enrollments'[e].step
    BY DEF EnrollmentsKeep
  <2>3. m[3] - 1 = k
    BY <1>3
  <2>4. m[3] > 1 => Prior(m)' \in DOMAIN messages' /\ messages'[Prior(m)'].status = "sent"
    BY <1>3, <2>1 DEF MessagesKeep
  <2> QED
    BY <1>3, <2>1, <2>2, <2>3, <2>4 DEF Follows
<1>6. \A d \in DOMAIN y.rows : Read(d, y.rows[d])'
  BY <1>1, <1>4 DEF CallIsFine
<1> QED
  BY <1>4, <1>5, <1>6 DEF CallIsFine

(* An enrollment is advanced.                                              *)
LEMMA AdvanceKeeps ==
  ASSUME OutreachInv, NEW c \in Callers, NEW e, Advance(c, e)
  PROVE  OutreachInv'
<1>0. PICK row, m : row = calls[c].rows[e] /\ m = <<e[1], e[2], row.step>>
  OBVIOUS
<1>1. /\ calls[c].pc = "walking" /\ e \in DOMAIN calls[c].rows
      /\ UNCHANGED <<clock, statuses, messages, permissions, suppressions, replies, optedOut>>
      /\ UNCHANGED events
  BY DEF Advance, history
<1>2. /\ e \in DOMAIN enrollments /\ row \in Enrollment /\ row.step \in Nat
      /\ row.step <= enrollments[e].step /\ e \in Enrollments
      /\ row.step > 0 => m \in DOMAIN messages /\ row.step \in 1..Steps[e[1]]
  <2>1. /\ e \in DOMAIN enrollments /\ row \in Enrollment /\ row.step \in Nat
        /\ row.step <= enrollments[e].step
    BY <1>0, <1>1, RowIsRead
  <2>2. row.step > 0 => m \in DOMAIN messages /\ row.step \in 1..Steps[e[1]]
    BY <1>0, <2>1, StepHasMessage
  <2> QED
    BY <2>1, <2>2 DEF OutreachInv, TypeOK
<1>3. calls[c] \in Call /\ CallIsFine(calls[c])
  BY DEF OutreachInv, CallsAreFine, CallIsFine
<1>4. PICK b : b = Back(calls[c], e)
  OBVIOUS
<1>5. /\ b \in Call /\ b.pc = "walking"
      /\ \A d \in DOMAIN b.rows : d \in DOMAIN calls[c].rows /\ b.rows[d] = calls[c].rows[d]
      /\ ~b.goesOn
  <2>1. PICK x \in Call : x = calls[c]
    BY <1>3
  <2>2. b = Back(x, e)
    BY <1>4, <2>1
  <2>3. /\ b \in Call /\ b.pc = x.pc /\ DOMAIN b.rows \subseteq DOMAIN x.rows
        /\ b.goesOn = x.goesOn /\ \A d \in DOMAIN b.rows : b.rows[d] = x.rows[d]
    BY <2>2, BackIs
  <2>4. ~x.goesOn
    BY <1>1, <1>3, <2>1 DEF CallIsFine
  <2> QED
    BY <1>1, <2>1, <2>3, <2>4
<1>6. CallIsFine(b) /\ b.pc # "sending"
  BY <1>3, <1>5, RestingIsFine
<1>7. MessagesKeep /\ events' \in 0..MaxEvents /\ (UNCHANGED enrollments => EnrollmentsKeep)
      /\ (UNCHANGED actions => ActionsGrow /\ SentToday' = SentToday)
  BY <1>1, UnchangedKeeps
<1>8. EnrollmentOf(m) = e /\ m[2] = e[2] /\ m[1] = e[1]
  BY <1>0, <1>2 DEF EnrollmentOf, Enrollments
<1>9. \/ /\ row.step = 0
         /\ calls' = [calls EXCEPT ![c] = Drafting(b, <<e[1], e[2], 1>>)]
         /\ UNCHANGED <<actions, enrollments>>
      \/ /\ ~Fresh(m) /\ Found(m)
         /\ calls' = [calls EXCEPT ![c] = b]
         /\ UNCHANGED enrollments
      \/ /\ row.step > 0 /\ Ready(m)
         /\ Propose(c, m, [b EXCEPT !.msg = m, !.row = row, !.goesOn = TRUE], b)
         /\ UNCHANGED enrollments
      \/ /\ row.step > 0 /\ Gone(m)
         /\ Onward(c, e, row, messages[m].sent, b)
         /\ UNCHANGED actions
      \/ /\ calls' = [calls EXCEPT ![c] = b]
         /\ UNCHANGED <<actions, enrollments>>
  BY <1>0, <1>4 DEF Advance, Back, Drafting
<1>10. CASE row.step = 0
             /\ calls' = [calls EXCEPT ![c] = Drafting(b, <<e[1], e[2], 1>>)]
             /\ UNCHANGED <<actions, enrollments>>
  <2>1. PICK n, y : n = <<e[1], e[2], 1>> /\ y = Drafting(b, n)
    OBVIOUS
  <2>2. 0 < Steps[e[1]] /\ 0 <= enrollments[e].step
    BY <1>2, <1>10 DEF Enrollments
  <2>3. PICK k \in Nat : k = 0 /\ n = <<e[1], e[2], k + 1>>
    BY <2>1
  <2>4. EnrollmentsKeep /\ ActionsGrow /\ MessagesKeep
    BY <1>7, <1>10
  <2>5. CallIsFine(y)'
    <3>1. k < Steps[e[1]] /\ k <= enrollments[e].step
      BY <2>2, <2>3
    <3>2. k > 0 => /\ <<e[1], e[2], k>> \in DOMAIN messages
                   /\ messages'[<<e[1], e[2], k>>].status = "sent"
      BY <2>3
    <3>3. e \in DOMAIN enrollments /\ n = <<e[1], e[2], k + 1>> /\ y = Drafting(b, n)
      BY <1>2, <2>1, <2>3
    <3> QED
      BY <1>6, <2>4, <3>1, <3>2, <3>3, NextIsFine
  <2>6. y.pc = "generating"
    BY <1>5, <2>1, CallIs DEF Drafting
  <2> QED
    BY <1>1, <1>7, <1>10, <2>1, <2>4, <2>5, <2>6, CallStepKeeps
<1>11. CASE ~Fresh(m) /\ Found(m) /\ calls' = [calls EXCEPT ![c] = b] /\ UNCHANGED enrollments
  <2>1. m \in DOMAIN actions
    BY <1>11 DEF Fresh
  <2>2. actions[m] \in Action
    BY <2>1 DEF OutreachInv, TypeOK
  <2>3. PICK linked \in BOOLEAN :
           linked = (actions[m].linked \/ actions[m].threaded = Threaded(m))
    BY <2>2 DEF Action
  <2>4. PICK a : a = [actions[m] EXCEPT !.linked = linked]
    OBVIOUS
  <2>5. a \in Action /\ a.accepted = actions[m].accepted
    BY <2>2, <2>4 DEF Action
  <2>6. actions' = [actions EXCEPT ![m] = a]
    BY <1>11, <2>3, <2>4 DEF Found
  <2>7. ActionsGrow /\ SentToday' \subseteq SentToday
    BY <2>1, <2>5, <2>6, ActionChanges
  <2>8. b.pc # "sending"
    BY <1>5
  <2> QED
    BY <1>1, <1>6, <1>7, <1>11, <2>7, <2>8, CallStepKeeps
<1>12. CASE row.step > 0 /\ Ready(m) /\ UNCHANGED enrollments
              /\ Propose(c, m, [b EXCEPT !.msg = m, !.row = row, !.goesOn = TRUE], b)
  <2>1. PICK here : here = [b EXCEPT !.msg = m, !.row = row, !.goesOn = TRUE]
    OBVIOUS
  <2>2. Propose(c, m, here, b) /\ EnrollmentOf(m) \in DOMAIN enrollments
    BY <1>2, <1>8, <1>12, <2>1
  <2>3. PICK a, y :
            /\ a \in Action
            /\ a.accepted = 0
            /\ actions' = Put(actions, m, a) /\ calls' = [calls EXCEPT ![c] = y]
            /\ \/ y = b
               \/ y = [here EXCEPT !.pc = "sending"] /\ Guarded(m[2]) /\ m[1] \notin Gated
    <3>1. Proposes(c, m, here, b)
      BY <2>2, ProposeIs
    <3> QED
      BY <3>1 DEF Proposes
  <2>4. m \in DOMAIN messages /\ messages[m].draft = "approved"
    BY <1>2, <1>12 DEF Ready
  <2>5. ActionsGrow /\ SentToday' \subseteq SentToday /\ m \in DOMAIN actions'
    BY <2>3, <2>4, PutAction
  <2>6. CASE y = b
    BY <1>1, <1>5, <1>6, <1>7, <1>12, <2>3, <2>5, <2>6, CallStepKeeps
  <2>7. CASE y = [here EXCEPT !.pc = "sending"] /\ Guarded(m[2])
    <3>1. b = [pc |-> b.pc, began |-> b.began, todo |-> b.todo, seq |-> b.seq,
               rows |-> b.rows, msg |-> b.msg, row |-> b.row, goesOn |-> b.goesOn]
      BY <1>5, CallIs
    <3>2. y = Mailing(b, m, row)
      BY <2>1, <2>7, <3>1 DEF Mailing
    <3>3. m \in MessageIds /\ row \in Enrollment
      BY <1>2, <2>4 DEF OutreachInv, TypeOK
    <3>4. /\ y \in Call /\ y.pc = "sending" /\ y.msg = m /\ y.rows = b.rows
          /\ y.row = row
      <4>1. b \in Call
        BY <1>5
      <4> QED
        BY <3>2, <3>3, <4>1, MailingIs
    <3>5. CallIsFine(b)'
      BY <1>6, <1>7, <1>12, <2>5, KeepingStep, CallStays
    <3>6. \A d \in DOMAIN y.rows : Read(d, y.rows[d])'
      BY <3>4, <3>5 DEF CallIsFine
    <3>7. Proposed(y)'
      <4>1. Read(e, row)'
        BY <1>2, <1>12 DEF Read
      <4>2. EnrollmentOf(y.msg)' = e /\ y.msg = <<y.msg[1], y.msg[2], row.step>>
        BY <1>0, <1>8, <3>4 DEF EnrollmentOf
      <4> QED
        BY <1>2, <2>5, <3>4, <4>1, <4>2 DEF Proposed
    <3>8. CallIsFine(y)'
      BY <3>4, <3>6, <3>7 DEF CallIsFine
    <3> QED
      BY <1>1, <1>7, <1>12, <2>3, <2>5, <2>7, <3>8, CallStepKeeps
  <2> QED
    BY <2>3, <2>6, <2>7
<1>13. CASE row.step > 0 /\ Gone(m) /\ Onward(c, e, row, messages[m].sent, b) /\ UNCHANGED actions
  <2>1. PICK sent \in Nat : sent = messages[m].sent
    BY <1>2, <1>13 DEF OutreachInv, TypeOK, Message
  <2>2. Onward(c, e, row, sent, b)
    BY <1>13, <2>1
  <2>3. PICK new, y :
            /\ new \in Enrollment
            /\ Set(e, new) /\ new.step = enrollments[e].step
            /\ new.status \in {enrollments[e].status, "completed"}
            /\ calls' = [calls EXCEPT ![c] = y]
            /\ \/ y = b
               \/ row.step < Steps[e[1]] /\ y = Drafting(b, <<e[1], e[2], row.step + 1>>)
    <3>1. e \in DOMAIN enrollments
      BY <1>2
    <3>2. GoesOn(c, e, row, b)
      BY <2>2, <3>1, OnwardIs
    <3> QED
      BY <3>2 DEF GoesOn
  <2>4. EnrollmentsKeep
    BY <1>2, <2>3, EnrollmentChanges
  <2>5. CASE y = b
    BY <1>1, <1>5, <1>6, <1>7, <1>13, <2>3, <2>4, <2>5, CallStepKeeps
  <2>6. CASE row.step < Steps[e[1]] /\ y = Drafting(b, <<e[1], e[2], row.step + 1>>)
    <3>1. /\ <<e[1], e[2], row.step>> \in DOMAIN messages
          /\ messages'[<<e[1], e[2], row.step>>].status = "sent"
      BY <1>0, <1>1, <1>2, <1>13 DEF Gone
    <3>2. CallIsFine(y)'
      BY <1>2, <1>6, <1>7, <1>13, <2>4, <2>6, <3>1, NextIsFine
    <3>3. y.pc # "sending"
      BY <1>5, <2>6, CallIs DEF Drafting
    <3> QED
      BY <1>1, <1>7, <1>13, <2>3, <2>4, <3>2, <3>3, CallStepKeeps
  <2> QED
    BY <2>3, <2>5, <2>6
<1>14. CASE calls' = [calls EXCEPT ![c] = b] /\ UNCHANGED <<actions, enrollments>>
  BY <1>1, <1>5, <1>6, <1>7, <1>14, CallStepKeeps
<1> QED
  BY <1>9, <1>10, <1>11, <1>12, <1>13, <1>14

(* A caller that returns to its walk, or is done, is fine.                 *)
LEMMA ReturnedIsFine ==
  ASSUME OutreachInv, NEW c \in Callers, NEW y, y = Returned(c)
  PROVE  CallIsFine(y) /\ y \in Call /\ y.pc # "sending" /\ y.pc # "generating"
<1>1. calls[c] \in Call /\ CallIsFine(calls[c])
  BY DEF OutreachInv, CallsAreFine, CallIsFine
<1>2. /\ y \in Call /\ y.pc \in {"idle", "walking"} /\ ~y.goesOn
      /\ \A d \in DOMAIN y.rows : d \in DOMAIN calls[c].rows /\ y.rows[d] = calls[c].rows[d]
  BY <1>1, ReturnedIs
<1> QED
  BY <1>1, <1>2, RestingIsFine

(* A message on its way to Gmail has an action and an enrollment.          *)
LEMMA ActionHas ==
  ASSUME OutreachInv, NEW m \in DOMAIN actions
  PROVE  /\ m \in DOMAIN messages /\ m \in MessageIds /\ actions[m] \in Action
         /\ EnrollmentOf(m) \in DOMAIN enrollments /\ enrollments[EnrollmentOf(m)] \in Enrollment
         /\ messages[m].draft = "approved"
  BY DEF OutreachInv, TypeOK, RowsAreOrdered, ProposalsAreApproved

(* Gmail took the mail and everything is written.                          *)
LEMMA AcceptKeeps ==
  ASSUME OutreachInv, NEW c \in Callers, Accept(c)
  PROVE  OutreachInv'
<1>0. PICK m, e : m = calls[c].msg /\ e = EnrollmentOf(m)
  OBVIOUS
<1>1. /\ calls[c].pc = "sending"
      /\ actions' = [actions EXCEPT ![m].accepted = clock, ![m].linked = TRUE, ![m].status = "succeeded"]
      /\ messages' = [messages EXCEPT ![m].status = "sent", ![m].sent = clock]
      /\ \/ /\ calls[c].goesOn
            /\ Onward(c, e, [calls[c].row EXCEPT !.threaded = FALSE], clock, Returned(c))
         \/ /\ ~calls[c].goesOn
            /\ calls' = [calls EXCEPT ![c] = Returned(c)]
            /\ IF calls[c].seq = None THEN UNCHANGED enrollments ELSE Set(e, Noted(e, clock))
      /\ UNCHANGED <<clock, statuses, permissions, suppressions, replies, optedOut>>
      /\ UNCHANGED events
  BY <1>0 DEF Accept, history
<1>2. Proposed(calls[c]) /\ m \in DOMAIN actions
  BY <1>0, <1>1 DEF OutreachInv, CallsAreFine, CallIsFine, Proposed
<1>3. /\ m \in DOMAIN messages /\ m \in MessageIds /\ actions[m] \in Action
      /\ e \in DOMAIN enrollments /\ enrollments[e] \in Enrollment
  BY <1>0, <1>2, ActionHas
<1>4. clock \in Nat
  BY DEF OutreachInv, TypeOK
<1>5. ActionsGrow /\ SentToday' \subseteq SentToday \cup {m}
  <2>1. PICK a : a = [actions[m] EXCEPT !.accepted = clock, !.linked = TRUE, !.status = "succeeded"]
    OBVIOUS
  <2>2. a \in Action
    BY <1>3, <1>4, <2>1 DEF Action
  <2>3. actions' = [actions EXCEPT ![m] = a]
    BY <1>1, <2>1
  <2> QED
    BY <1>2, <2>2, <2>3, ActionChanges
<1>6. MessagesKeep /\ messages'[m].status = "sent"
  BY <1>1, <1>3, <1>4, MessageIsSent
<1>7. PICK back : back = Returned(c)
  OBVIOUS
<1>8. CallIsFine(back) /\ back \in Call /\ back.pc # "sending"
  BY <1>7, ReturnedIsFine
<1>9. events' \in 0..MaxEvents
  BY <1>1, UnchangedKeeps
<1>10. CASE ~calls[c].goesOn
  <2>1. /\ calls' = [calls EXCEPT ![c] = back]
        /\ UNCHANGED enrollments \/ Set(e, Noted(e, clock))
    BY <1>1, <1>7, <1>10
  <2>2. EnrollmentsKeep
    <3>1. CASE UNCHANGED enrollments
      BY <3>1, UnchangedKeeps
    <3>2. CASE Set(e, Noted(e, clock))
      <4>1. PICK row : row = Noted(e, clock)
        OBVIOUS
      <4>2. row \in Enrollment /\ row.step = enrollments[e].step /\ row.status = enrollments[e].status
        BY <1>3, <1>4, <4>1 DEF Noted, Enrollment
      <4> QED
        BY <1>3, <3>2, <4>1, <4>2, EnrollmentChanges
    <3> QED
      BY <2>1, <3>1, <3>2
  <2> QED
    BY <1>1, <1>5, <1>6, <1>8, <1>9, <2>1, <2>2, CallStepKeeps
<1>11. CASE calls[c].goesOn
  <2>1. PICK row : row = [calls[c].row EXCEPT !.threaded = FALSE]
    OBVIOUS
  <2>2. /\ calls[c].row \in Enrollment /\ Read(e, calls[c].row)
        /\ m = <<m[1], m[2], calls[c].row.step>>
    BY <1>0, <1>2, <1>11 DEF Proposed
  <2>3. row.step = calls[c].row.step /\ row.step \in Nat /\ row.step <= enrollments[e].step
    BY <2>1, <2>2 DEF Read, Enrollment
  <2>4. m = <<e[1], e[2], row.step>> /\ m[3] = row.step
    BY <1>0, <2>2, <2>3 DEF EnrollmentOf
  <2>5. Onward(c, e, row, clock, back)
    BY <1>1, <1>7, <1>11, <2>1
  <2>6. GoesOn(c, e, row, back)
    <3>1. e \in DOMAIN enrollments
      BY <1>3
    <3> QED
      BY <1>4, <2>5, <3>1, OnwardIs
  <2>7. PICK new, y :
            /\ new \in Enrollment
            /\ Set(e, new) /\ new.step = enrollments[e].step
            /\ new.status \in {enrollments[e].status, "completed"}
            /\ calls' = [calls EXCEPT ![c] = y]
            /\ \/ y = back
               \/ row.step < Steps[e[1]] /\ y = Drafting(back, <<e[1], e[2], row.step + 1>>)
    BY <2>6 DEF GoesOn
  <2>8. EnrollmentsKeep
    BY <1>3, <2>7, EnrollmentChanges
  <2>9. CASE y = back
    BY <1>1, <1>5, <1>6, <1>8, <1>9, <2>7, <2>8, <2>9, CallStepKeeps
  <2>10. CASE row.step < Steps[e[1]] /\ y = Drafting(back, <<e[1], e[2], row.step + 1>>)
    <3>1. /\ <<e[1], e[2], row.step>> \in DOMAIN messages
          /\ messages'[<<e[1], e[2], row.step>>].status = "sent"
      BY <1>3, <1>6, <2>4
    <3>2. CallIsFine(y)'
      BY <1>3, <1>5, <1>6, <1>8, <2>3, <2>8, <2>10, <3>1, NextIsFine
    <3>3. y.pc # "sending"
      BY <1>8, <2>10, CallIs DEF Drafting
    <3> QED
      BY <1>1, <1>5, <1>6, <1>9, <2>7, <2>8, <3>2, <3>3, CallStepKeeps
  <2> QED
    BY <2>7, <2>9, <2>10
<1> QED
  BY <1>10, <1>11

(* The process dies after Gmail took the mail.                             *)
LEMMA AcceptAndDieKeeps ==
  ASSUME OutreachInv, NEW c \in Callers, AcceptAndDie(c)
  PROVE  OutreachInv'
<1>0. PICK m : m = calls[c].msg
  OBVIOUS
<1>1. PICK written \in {"delivery", "message", "action"} :
         /\ actions' = [actions EXCEPT ![m].accepted = clock,
                            ![m].linked = @ \/ written # "delivery",
                            ![m].status = IF written = "action" THEN "succeeded" ELSE @]
         /\ messages' = IF written = "delivery" THEN messages
                        ELSE [messages EXCEPT ![m].status = "sent", ![m].sent = clock]
  BY <1>0 DEF AcceptAndDie
<1>2. /\ calls[c].pc = "sending" /\ calls' = [d \in Callers |-> Idle] /\ Event
      /\ UNCHANGED <<clock, statuses, enrollments, permissions, suppressions, replies, optedOut>>
  BY DEF AcceptAndDie, Died
<1>3. m \in DOMAIN actions
  BY <1>0, <1>2 DEF OutreachInv, CallsAreFine, CallIsFine, Proposed
<1>4. m \in DOMAIN messages /\ actions[m] \in Action
  BY <1>3, ActionHas
<1>5. clock \in Nat
  BY DEF OutreachInv, TypeOK
<1>6. ActionsGrow /\ SentToday' \subseteq SentToday \cup {m}
  <2>1. PICK linked \in BOOLEAN : linked = (actions[m].linked \/ written # "delivery")
    BY <1>4 DEF Action
  <2>2. PICK status : status = IF written = "action" THEN "succeeded" ELSE actions[m].status
    OBVIOUS
  <2>3. PICK a : a = [actions[m] EXCEPT !.accepted = clock, !.linked = linked, !.status = status]
    OBVIOUS
  <2>4. a \in Action
    BY <1>4, <1>5, <2>2, <2>3 DEF Action
  <2>5. actions' = [actions EXCEPT ![m] = a]
    BY <1>1, <2>1, <2>2, <2>3
  <2> QED
    BY <1>3, <2>4, <2>5, ActionChanges
<1>7. MessagesKeep
  <2>1. CASE UNCHANGED messages
    BY <2>1, UnchangedKeeps
  <2>2. CASE messages' = [messages EXCEPT ![m].status = "sent", ![m].sent = clock]
    BY <1>4, <1>5, <2>2, MessageIsSent
  <2> QED
    BY <1>1, <2>1, <2>2
<1>8. EnrollmentsKeep /\ RestIsTyped /\ OptOutsLast'
  BY <1>2, UnchangedKeeps
<1>9. SendsAreCounted'
  <2>1. c \in Sending /\ Sending' = {}
    BY <1>2, IdleIs DEF Sending
  <2> QED
    BY <1>6, <2>1, CountEnds DEF OutreachInv
<1> QED
  BY <1>2, <1>6, <1>7, <1>8, <1>9, AllIdle, KeepingStepKeeps

(* Gmail failed, or its answer was lost.                                   *)
LEMMA FailSendKeeps ==
  ASSUME OutreachInv, NEW c \in Callers, FailSend(c)
  PROVE  OutreachInv'
<1>0. PICK m, y : m = calls[c].msg /\ y = Returned(c)
  OBVIOUS
<1>1. /\ calls[c].pc = "sending" /\ Event
      /\ actions' = [actions EXCEPT ![m].linked = @ \/ calls[c].seq # None]
      /\ calls' = [calls EXCEPT ![c] = y]
      /\ UNCHANGED <<clock, statuses, enrollments, messages, permissions, suppressions, replies, optedOut>>
  BY <1>0 DEF FailSend
<1>2. m \in DOMAIN actions
  BY <1>0, <1>1 DEF OutreachInv, CallsAreFine, CallIsFine, Proposed
<1>3. actions[m] \in Action
  BY <1>2, ActionHas
<1>4. ActionsGrow /\ SentToday' \subseteq SentToday
  <2>1. PICK linked \in BOOLEAN : linked = (actions[m].linked \/ calls[c].seq # None)
    BY <1>3 DEF Action
  <2>2. PICK a : a = [actions[m] EXCEPT !.linked = linked]
    OBVIOUS
  <2>3. a \in Action /\ a.accepted = actions[m].accepted
    BY <1>3, <2>2 DEF Action
  <2>4. actions' = [actions EXCEPT ![m] = a]
    BY <1>1, <2>1, <2>2
  <2> QED
    BY <1>2, <2>3, <2>4, ActionChanges
<1>5. EnrollmentsKeep /\ MessagesKeep /\ events' \in 0..MaxEvents
  BY <1>1, UnchangedKeeps
<1>6. CallIsFine(y) /\ y.pc # "sending"
  BY <1>0, ReturnedIsFine
<1> QED
  BY <1>1, <1>4, <1>5, <1>6, CallStepKeeps

(* A caller that only dispatches an action is fine.                        *)
LEMMA DispatcherIsFine ==
  ASSUME OutreachInv, NEW m \in DOMAIN actions, m \in DOMAIN actions', NEW y,
         y = MailingOnly(Idle, m)
  PROVE  CallIsFine(y)' /\ y.pc = "sending"
<1>1. m \in MessageIds
  BY ActionHas
<1>2. y \in Call /\ y.pc = "sending" /\ y.msg = m /\ y.rows = Idle.rows /\ (y.goesOn => Idle.goesOn)
  BY <1>1, IdleIs, MailingOnlyIs
<1>3. Proposed(y)'
  BY <1>2, IdleIs DEF Proposed
<1> QED
  BY <1>2, <1>3, IdleIs DEF CallIsFine

(* A human authorizes a send.                                              *)
LEMMA AuthorizeKeeps ==
  ASSUME OutreachInv, NEW c \in Callers, NEW m \in DOMAIN actions, Authorize(c, m)
  PROVE  OutreachInv'
<1>1. /\ actions[m].status = "authorization_required" /\ (Event \/ UNCHANGED events)
      /\ UNCHANGED <<clock, statuses, enrollments, messages, permissions, suppressions, replies, optedOut>>
  BY DEF Authorize, Starting
<1>2. actions[m] \in Action
  BY ActionHas
<1>3. EnrollmentsKeep /\ MessagesKeep /\ events' \in 0..MaxEvents
  BY <1>1, UnchangedKeeps
<1>4. PICK status \in {"blocked", "dispatching"} :
         /\ actions' = [actions EXCEPT ![m].status = status]
         /\ \/ UNCHANGED calls
            \/ /\ Guarded(m[2])
               /\ calls' = [calls EXCEPT ![c] = MailingOnly(Idle, m)]
  BY DEF Authorize, MailingOnly
<1>5. ActionsGrow /\ SentToday' \subseteq SentToday /\ m \in DOMAIN actions'
  <2>1. PICK a : a = [actions[m] EXCEPT !.status = status]
    OBVIOUS
  <2>2. a \in Action /\ a.accepted = actions[m].accepted
    BY <1>2, <2>1 DEF Action
  <2>3. actions' = [actions EXCEPT ![m] = a]
    BY <1>4, <2>1
  <2> QED
    BY <2>2, <2>3, ActionChanges
<1>6. CASE UNCHANGED calls
  <2>1. RestIsTyped /\ OptOutsLast'
    BY <1>1, <1>3, UnchangedKeeps
  <2> QED
    BY <1>3, <1>5, <1>6, <2>1, PeopleStepKeeps
<1>7. CASE Guarded(m[2]) /\ calls' = [calls EXCEPT ![c] = MailingOnly(Idle, m)]
  <2>1. PICK y : y = MailingOnly(Idle, m)
    OBVIOUS
  <2>2. CallIsFine(y)'
    BY <1>5, <2>1, DispatcherIsFine
  <2> QED
    BY <1>1, <1>3, <1>5, <1>7, <2>1, <2>2, CallStepKeeps
<1> QED
  BY <1>4, <1>6, <1>7

(* The job takes up an action that is dispatching.                         *)
LEMMA ResumeKeeps ==
  ASSUME OutreachInv, NEW c \in Callers, NEW m \in DOMAIN actions, Resume(c, m)
  PROVE  OutreachInv'
<1>1. /\ Guarded(m[2]) /\ (Event \/ UNCHANGED events)
      /\ UNCHANGED <<clock, statuses, enrollments, permissions, suppressions, replies, optedOut>>
  BY DEF Resume, Starting
<1>2. actions[m] \in Action /\ m \in DOMAIN messages
  BY ActionHas
<1>3. EnrollmentsKeep /\ events' \in 0..MaxEvents
  BY <1>1, UnchangedKeeps
<1>4. \/ /\ calls' = [calls EXCEPT ![c] = MailingOnly(Idle, m)]
         /\ UNCHANGED <<messages, actions>>
      \/ /\ messages' = [messages EXCEPT ![m].status = "sent", ![m].sent = actions[m].accepted]
         /\ actions' = [actions EXCEPT ![m].status = "succeeded", ![m].linked = TRUE]
         /\ UNCHANGED calls
  BY DEF Resume, MailingOnly
<1>5. CASE calls' = [calls EXCEPT ![c] = MailingOnly(Idle, m)] /\ UNCHANGED <<messages, actions>>
  <2>1. PICK y : y = MailingOnly(Idle, m)
    OBVIOUS
  <2>2. m \in DOMAIN actions'
    BY <1>5
  <2>3. CallIsFine(y)'
    BY <2>1, <2>2, DispatcherIsFine
  <2>4. MessagesKeep /\ ActionsGrow /\ SentToday' \subseteq SentToday
    BY <1>5, UnchangedKeeps
  <2> QED
    BY <1>1, <1>3, <1>5, <2>1, <2>3, <2>4, CallStepKeeps
<1>6. CASE /\ messages' = [messages EXCEPT ![m].status = "sent", ![m].sent = actions[m].accepted]
           /\ actions' = [actions EXCEPT ![m].status = "succeeded", ![m].linked = TRUE]
           /\ UNCHANGED calls
  <2>1. PICK at \in Nat : at = actions[m].accepted
    BY <1>2 DEF Action
  <2>2. MessagesKeep
    BY <1>2, <1>6, <2>1, MessageIsSent
  <2>3. PICK a : a = [actions[m] EXCEPT !.status = "succeeded", !.linked = TRUE]
    OBVIOUS
  <2>4. a \in Action /\ a.accepted = actions[m].accepted
    BY <1>2, <2>3 DEF Action
  <2>5. actions' = [actions EXCEPT ![m] = a]
    BY <1>6, <2>3
  <2>6. ActionsGrow /\ SentToday' \subseteq SentToday
    BY <2>4, <2>5, ActionChanges
  <2>7. RestIsTyped /\ OptOutsLast'
    BY <1>1, <1>3, UnchangedKeeps
  <2> QED
    BY <1>3, <1>6, <2>2, <2>6, <2>7, PeopleStepKeeps
<1> QED
  BY <1>4, <1>5, <1>6

(* The process dies.                                                       *)
LEMMA CrashKeeps ==
  ASSUME OutreachInv, Crash
  PROVE  OutreachInv'
<1>1. /\ calls' = [d \in Callers |-> Idle] /\ Event
      /\ UNCHANGED <<clock, statuses, enrollments, messages, actions, permissions, suppressions>>
      /\ UNCHANGED <<replies, optedOut>>
  BY DEF Crash, Died, db
<1>2. /\ EnrollmentsKeep /\ MessagesKeep /\ ActionsGrow /\ SentToday' = SentToday /\ RestIsTyped
      /\ OptOutsLast'
  BY <1>1, UnchangedKeeps
<1>3. SendsAreCounted'
  <2>1. Sending' \subseteq Sending
    BY <1>1, IdleIs DEF Sending
  <2> QED
    BY <1>2, <2>1, CountStays DEF OutreachInv
<1> QED
  BY <1>1, <1>2, <1>3, AllIdle, KeepingStepKeeps

(***************************************************************************)
(* The steps that add a row: a step is started, people are enrolled.       *)
(***************************************************************************)

(* The enrollment of the message moves to its step, or died before it did. *)
Moves(e, k) ==
    \/ UNCHANGED enrollments
    \/ \E row \in Enrollment :
          Set(e, row) /\ row.step = k /\ row.status = enrollments[e].status

(* A message that may be drafted, and is not there yet, is the one after   *)
(* the last.                                                               *)
LEMMA StartingKeepsOrder ==
  ASSUME OutreachInv, NEW m, Follows(m), Missing(m), NEW new \in Message,
         messages' = Put(messages, m, new), Moves(EnrollmentOf(m), m[3]),
         DOMAIN actions \subseteq DOMAIN actions'
  PROVE  /\ RowsStay /\ StepsAreNumbers /\ StepsAreNumbers'
         /\ RowsAreOrdered' /\ OneSequencePerPerson'
         /\ enrollments' \in [DOMAIN enrollments' -> Enrollment]
         /\ DOMAIN enrollments' \subseteq Enrollments
         /\ messages' \in [DOMAIN messages' -> Message] /\ DOMAIN messages' \subseteq MessageIds
         /\ m \in DOMAIN messages' /\ messages'[m] = new /\ m \notin DOMAIN messages
         /\ \A n \in DOMAIN messages : n \in DOMAIN messages' /\ messages'[n] = messages[n]
<1>0. PICK e : e = EnrollmentOf(m)
  OBVIOUS
<1>1. /\ enrollments \in [DOMAIN enrollments -> Enrollment] /\ DOMAIN enrollments \subseteq Enrollments
      /\ messages \in [DOMAIN messages -> Message] /\ DOMAIN messages \subseteq MessageIds
      /\ \A n \in DOMAIN messages : EnrollmentOf(n) \in DOMAIN enrollments
  BY DEF OutreachInv, TypeOK, RowsAreOrdered
<1>2. /\ m \in MessageIds /\ e \in DOMAIN enrollments /\ m[3] - 1 <= enrollments[e].step
      /\ m[3] > 1 => Prior(m) \in DOMAIN messages /\ messages[Prior(m)].status = "sent"
  BY <1>0 DEF Follows
<1>3. /\ m[3] \in 1..Steps[e[1]] /\ m = <<e[1], e[2], m[3]>> /\ Steps[e[1]] \in Nat
      /\ e = <<m[1], m[2]>>
  <2>1. /\ m[3] \in 1..Steps[m[1]] /\ m = <<m[1], m[2], m[3]>> /\ Steps[m[1]] \in Nat \ {0}
    BY <1>2, IdsAre
  <2> QED
    BY <1>0, <2>1 DEF EnrollmentOf
<1>4. /\ DOMAIN messages' = DOMAIN messages \cup {m} /\ messages'[m] = new
      /\ m \notin DOMAIN messages
      /\ \A n \in DOMAIN messages : n \in DOMAIN messages' /\ messages'[n] = messages[n]
      /\ messages' \in [DOMAIN messages' -> Message]
  <2>1. messages' = [y \in DOMAIN messages \cup {m} |-> IF y = m THEN new ELSE messages[y]]
    BY DEF Put
  <2> QED
    BY <1>1, <2>1 DEF Missing
<1>5. PICK last \in 0..Steps[e[1]] :
         /\ \A k \in 1..Steps[e[1]] : <<e[1], e[2], k>> \in DOMAIN messages <=> k <= last
         /\ \A k \in 1..(last - 1) : messages[<<e[1], e[2], k>>].status = "sent"
         /\ enrollments[e].step \in {last, last - 1}
  BY <1>2 DEF OutreachInv, RowsAreOrdered, Ordered
<1>6. enrollments[e].step = last /\ m[3] = last + 1
  <2>1. ~(m[3] <= last)
    BY <1>3, <1>4, <1>5
  <2> QED
    BY <1>2, <1>3, <1>5, <2>1
<1>7. /\ enrollments' \in [DOMAIN enrollments -> Enrollment]
      /\ \A d \in DOMAIN enrollments :
            /\ d # e => enrollments'[d] = enrollments[d]
            /\ enrollments'[d].status = enrollments[d].status
      /\ enrollments'[e].step \in {last, last + 1}
  <2>1. CASE UNCHANGED enrollments
    BY <1>1, <1>6, <2>1
  <2>2. CASE \E row \in Enrollment :
                Set(e, row) /\ row.step = m[3] /\ row.status = enrollments[e].status
    BY <1>1, <1>2, <1>6, <2>2 DEF Set
  <2> QED
    BY <1>0, <2>1, <2>2 DEF Moves
<1>8. StepsAreNumbers /\ StepsAreNumbers'
  BY <1>1, <1>7 DEF StepsAreNumbers, Enrollment
<1>9. RowsStay
  <2>1. \A d \in DOMAIN enrollments :
           d \in DOMAIN enrollments' /\ enrollments'[d].step >= enrollments[d].step
    BY <1>5, <1>6, <1>7, <1>8 DEF StepsAreNumbers
  <2> QED
    BY <1>4, <2>1 DEF RowsStay
<1>10. Ordered(e)'
  <2>1. m[3] \in 0..Steps[e[1]]
    BY <1>3
  <2>2. \A k \in 1..Steps[e[1]] : <<e[1], e[2], k>> \in DOMAIN messages' <=> k <= m[3]
    <3> SUFFICES ASSUME NEW k \in 1..Steps[e[1]]
                 PROVE  <<e[1], e[2], k>> \in DOMAIN messages' <=> k <= m[3]
      OBVIOUS
    <3>1. <<e[1], e[2], k>> = m <=> k = m[3]
      BY <1>3
    <3>2. <<e[1], e[2], k>> \in DOMAIN messages <=> k <= last
      BY <1>5
    <3>3. k <= m[3] <=> (k <= last \/ k = m[3])
      BY <1>6
    <3> QED
      BY <1>4, <3>1, <3>2, <3>3
  <2>3. \A k \in 1..(m[3] - 1) : messages'[<<e[1], e[2], k>>].status = "sent"
    <3> SUFFICES ASSUME NEW k \in 1..(m[3] - 1)
                 PROVE  messages'[<<e[1], e[2], k>>].status = "sent"
      OBVIOUS
    <3>1. k \in 1..Steps[e[1]] /\ k <= last
      BY <1>3, <1>6
    <3>2. <<e[1], e[2], k>> \in DOMAIN messages
      BY <1>5, <3>1
    <3>3. messages[<<e[1], e[2], k>>].status = "sent"
      <4>1. CASE k = last
        <5>1. m[3] > 1 /\ Prior(m) = <<e[1], e[2], k>>
          BY <1>3, <1>6, <4>1 DEF Prior
        <5> QED
          BY <1>2, <5>1
      <4>2. CASE k # last
        BY <1>5, <3>1, <4>2
      <4> QED
        BY <4>1, <4>2
    <3> QED
      BY <1>4, <3>2, <3>3
  <2>4. enrollments'[e].step \in {m[3], m[3] - 1}
    BY <1>6, <1>7
  <2> QED
    BY <2>1, <2>2, <2>3, <2>4 DEF Ordered
<1>11. ASSUME NEW d \in DOMAIN enrollments, d # e PROVE Ordered(d)'
  <2>1. PICK l \in 0..Steps[d[1]] :
           /\ \A k \in 1..Steps[d[1]] : <<d[1], d[2], k>> \in DOMAIN messages <=> k <= l
           /\ \A k \in 1..(l - 1) : messages[<<d[1], d[2], k>>].status = "sent"
           /\ enrollments[d].step \in {l, l - 1}
    BY DEF OutreachInv, RowsAreOrdered, Ordered
  <2>2. d = <<d[1], d[2]>> /\ Steps[d[1]] \in Nat
    BY <1>1 DEF Enrollments
  <2>3. \A k : <<d[1], d[2], k>> # m
    BY <1>3, <1>11, <2>2
  <2>4. \A k \in 1..Steps[d[1]] : <<d[1], d[2], k>> \in DOMAIN messages' <=> k <= l
    BY <1>4, <2>1, <2>3
  <2>5. \A k \in 1..(l - 1) : messages'[<<d[1], d[2], k>>].status = "sent"
    <3> SUFFICES ASSUME NEW k \in 1..(l - 1)
                 PROVE  messages'[<<d[1], d[2], k>>].status = "sent"
      OBVIOUS
    <3>1. k \in 1..Steps[d[1]] /\ k <= l
      BY <2>2
    <3>2. <<d[1], d[2], k>> \in DOMAIN messages
      BY <2>1, <3>1
    <3> QED
      BY <1>4, <2>1, <3>2
  <2>6. enrollments'[d].step \in {l, l - 1}
    BY <1>7, <1>11, <2>1
  <2> QED
    BY <2>1, <2>4, <2>5, <2>6 DEF Ordered
<1>12. RowsAreOrdered'
  <2>1. ASSUME NEW d \in DOMAIN enrollments' PROVE Ordered(d)'
    <3>1. PICK f : f = d
      OBVIOUS
    <3>2. f \in DOMAIN enrollments
      BY <1>7, <3>1
    <3>3. Ordered(f)'
      BY <1>10, <1>11, <3>2
    <3> QED
      BY <3>1, <3>3
  <2>2. \A n \in DOMAIN messages' : EnrollmentOf(n)' \in DOMAIN enrollments'
    BY <1>0, <1>1, <1>2, <1>4, <1>7 DEF EnrollmentOf
  <2> QED
    BY <2>1, <2>2 DEF RowsAreOrdered
<1>13. OneSequencePerPerson'
  BY <1>7 DEF OutreachInv, OneSequencePerPerson, Active
<1>14. DOMAIN messages' \subseteq MessageIds
  BY <1>1, <1>2, <1>4
<1> QED
  BY <1>1, <1>4, <1>7, <1>8, <1>9, <1>12, <1>13, <1>14

(* What a draft leaves of the actions.                                     *)
ProposesOnly(m) ==
    \/ UNCHANGED actions
    \/ \E a \in Action : a.accepted = 0 /\ actions' = Put(actions, m, a)

(* Together with the calls and the rest it keeps the invariant.            *)
LEMMA StartingKeeps ==
  ASSUME OutreachInv, NEW m, Follows(m), Missing(m), NEW new \in Message,
         messages' = Put(messages, m, new), Moves(EnrollmentOf(m), m[3]),
         ProposesOnly(m), UNCHANGED actions \/ new.draft = "approved",
         UNCHANGED <<clock, statuses, permissions, suppressions, replies, optedOut>>,
         events' \in 0..MaxEvents, CallsAreFine', SendsAreCounted'
  PROVE  OutreachInv'
<1>1. /\ actions \in [DOMAIN actions -> Action] /\ DOMAIN actions \subseteq DOMAIN messages
      /\ \A n \in DOMAIN actions : messages[n].draft = "approved"
  BY DEF OutreachInv, TypeOK, ProposalsAreApproved
<1>2. /\ actions' \in [DOMAIN actions' -> Action] /\ DOMAIN actions \subseteq DOMAIN actions'
      /\ DOMAIN actions' \subseteq DOMAIN actions \cup {m}
      /\ m \in DOMAIN actions' /\ m \notin DOMAIN actions => new.draft = "approved"
  <2>1. CASE UNCHANGED actions
    BY <1>1, <2>1
  <2>2. CASE new.draft = "approved" /\ \E a \in Action : actions' = Put(actions, m, a)
    <3>1. PICK a \in Action : actions' = [y \in DOMAIN actions \cup {m} |-> IF y = m THEN a ELSE actions[y]]
      BY <2>2 DEF Put
    <3> QED
      BY <1>1, <2>2, <3>1
  <2> QED
    BY <2>1, <2>2 DEF ProposesOnly
<1>3. /\ RowsAreOrdered' /\ OneSequencePerPerson'
      /\ enrollments' \in [DOMAIN enrollments' -> Enrollment]
      /\ DOMAIN enrollments' \subseteq Enrollments
      /\ messages' \in [DOMAIN messages' -> Message] /\ DOMAIN messages' \subseteq MessageIds
      /\ m \in DOMAIN messages' /\ messages'[m] = new /\ m \notin DOMAIN messages
      /\ \A n \in DOMAIN messages : n \in DOMAIN messages' /\ messages'[n] = messages[n]
  BY <1>2, StartingKeepsOrder
<1>4. ProposalsAreApproved'
  BY <1>1, <1>2, <1>3 DEF ProposalsAreApproved
<1>5. RestIsTyped /\ OptOutsLast'
  BY UnchangedKeeps
<1>6. TypeOK'
  BY <1>1, <1>2, <1>3, <1>5 DEF TypeOK, RestIsTyped
<1> QED
  BY <1>3, <1>4, <1>5, <1>6 DEF OutreachInv

(* A message is drafted, or its caller finds it there already.             *)
LEMMA DraftKeeps ==
  ASSUME OutreachInv, NEW c \in Callers, Draft(c)
  PROVE  OutreachInv'
<1>0. PICK m, e, back : m = calls[c].msg /\ e = EnrollmentOf(m) /\ back = Returned(c)
  OBVIOUS
<1>1. /\ calls[c].pc = "generating"
      /\ UNCHANGED <<clock, statuses, permissions, suppressions, replies, optedOut>>
  BY DEF Draft
<1>2. calls[c] \in Call /\ CallIsFine(calls[c]) /\ CallsAreFine /\ SendsAreCounted
  BY DEF OutreachInv, CallsAreFine, CallIsFine
<1>3. Follows(m)
  BY <1>0, <1>1, <1>2 DEF CallIsFine
<1>4. m \in MessageIds /\ m[3] \in Nat /\ e \in DOMAIN enrollments /\ enrollments[e] \in Enrollment
  <2>1. m \in MessageIds /\ e \in DOMAIN enrollments
    BY <1>0, <1>3 DEF Follows
  <2>2. m[3] \in Nat
    BY <2>1, IdsAre
  <2> QED
    BY <2>1, <2>2 DEF OutreachInv, TypeOK
<1>5. CallIsFine(back) /\ back \in Call /\ back.pc # "sending" /\ back.pc # "generating"
  BY <1>0, ReturnedIsFine
<1>6. PICK row : row = [enrollments[e] EXCEPT !.step = m[3], !.due = 0]
  OBVIOUS
<1>6a. row \in Enrollment /\ row.step = m[3] /\ row.status = enrollments[e].status
  BY <1>4, <1>6 DEF Enrollment
<1>7. Sending \subseteq Callers /\ c \notin Sending
  BY <1>1 DEF Sending
<1>8. CASE /\ ~Missing(m) /\ calls' = [calls EXCEPT ![c] = back]
           /\ UNCHANGED <<enrollments, messages, actions, events>>
  <2>1. /\ EnrollmentsKeep /\ MessagesKeep /\ ActionsGrow /\ SentToday' = SentToday
        /\ events' \in 0..MaxEvents
    BY <1>8, UnchangedKeeps
  <2> QED
    BY <1>1, <1>5, <1>8, <2>1, CallStepKeeps
<1>9. ASSUME Missing(m), NEW new \in Message, messages' = Put(messages, m, new),
             Moves(e, m[3]), events' \in 0..MaxEvents, UNCHANGED actions,
             calls' = [calls EXCEPT ![c] = back] \/ calls' = [d \in Callers |-> Idle]
      PROVE  OutreachInv'
  <2>1. RowsStay /\ StepsAreNumbers /\ StepsAreNumbers'
    BY <1>0, <1>3, <1>9, StartingKeepsOrder
  <2>2. CallsAreFine' /\ Sending' \subseteq Sending
    <3>1. CASE calls' = [calls EXCEPT ![c] = back]
      <4>1. CallsAreFine'
        BY <1>2, <1>5, <2>1, <3>1, CallGoes
      <4>2. Sending' \subseteq Sending
        BY <1>2, <1>5, <3>1, SendingAfter
      <4> QED
        BY <4>1, <4>2
    <3>2. CASE calls' = [d \in Callers |-> Idle]
      <4>1. CallsAreFine'
        BY <3>2, AllIdle
      <4>2. Sending' = {}
        BY <3>2, IdleIs DEF Sending
      <4> QED
        BY <4>1, <4>2
    <3> QED
      BY <1>9, <3>1, <3>2
  <2>3. SendsAreCounted'
    <3>1. SentToday' \subseteq SentToday
      BY <1>9, UnchangedKeeps
    <3> QED
      BY <1>2, <2>2, <3>1, CountStays
  <2>4. ProposesOnly(m)
    BY <1>9 DEF ProposesOnly
  <2> QED
    BY <1>0, <1>1, <1>3, <1>9, <2>2, <2>3, <2>4, StartingKeeps
<1>10. CASE /\ Missing(m) /\ StartStep(c, m) /\ UNCHANGED events
  <2>1. PICK new \in Message :
           /\ messages' = Put(messages, m, new)
           /\ new.draft = IF m[1] \in Automatic THEN "approved" ELSE "pending_review"
    <3>1. PICK draft \in {"approved", "pending_review"} :
             draft = IF m[1] \in Automatic THEN "approved" ELSE "pending_review"
      OBVIOUS
    <3>2. PICK new : new = [status |-> "pending", sent |-> 0, draft |-> draft]
      OBVIOUS
    <3>3. new \in Message /\ new.draft = draft
      BY <3>2 DEF Message
    <3> QED
      BY <1>10, <3>1, <3>2, <3>3 DEF StartStep
  <2>2. Moves(e, m[3])
    <3>1. Set(e, row)
      BY <1>0, <1>6, <1>10 DEF StartStep
    <3> QED
      BY <1>6a, <3>1 DEF Moves
  <2>3. events' \in 0..MaxEvents
    BY <1>10, UnchangedKeeps
  <2>4. \/ /\ m[1] \in Automatic /\ Propose(c, m, calls[c], back)
        \/ calls' = [calls EXCEPT ![c] = back] /\ UNCHANGED actions
    BY <1>0, <1>10 DEF StartStep
  <2>5. CASE calls' = [calls EXCEPT ![c] = back] /\ UNCHANGED actions
    BY <1>9, <1>10, <2>1, <2>2, <2>3, <2>5
  <2>6. CASE m[1] \in Automatic /\ Propose(c, m, calls[c], back)
    <3>1. EnrollmentOf(m) \in DOMAIN enrollments
      BY <1>0, <1>4
    <3>2. PICK a, y :
              /\ a \in Action
              /\ a.accepted = 0
              /\ actions' = Put(actions, m, a) /\ calls' = [calls EXCEPT ![c] = y]
              /\ \/ y = back
                 \/ y = [calls[c] EXCEPT !.pc = "sending"] /\ Guarded(m[2]) /\ m[1] \notin Gated
      <4>1. PICK here : here = calls[c]
        OBVIOUS
      <4>2. Propose(c, m, here, back)
        BY <2>6, <4>1
      <4>3. Proposes(c, m, here, back)
        BY <3>1, <4>2, ProposeIs
      <4> QED
        BY <4>1, <4>3 DEF Proposes
    <3>3. ProposesOnly(m) /\ new.draft = "approved"
      BY <2>1, <2>6, <3>2 DEF ProposesOnly
    <3>4. /\ DOMAIN actions \subseteq DOMAIN actions' /\ m \in DOMAIN actions'
          /\ SentToday' \subseteq SentToday
      <4>1. actions' = [n \in DOMAIN actions \cup {m} |-> IF n = m THEN a ELSE actions[n]]
        BY <3>2 DEF Put
      <4> QED
        BY <3>2, <4>1 DEF SentToday
    <3>5. RowsStay /\ StepsAreNumbers /\ StepsAreNumbers'
      BY <1>0, <1>3, <1>10, <2>1, <2>2, <3>4, StartingKeepsOrder
    <3>6. CASE y = back
      <4>1. CallsAreFine'
        BY <1>2, <1>5, <3>2, <3>5, <3>6, CallGoes
      <4>2. Sending' \subseteq Sending
        BY <1>2, <1>5, <3>2, <3>6, SendingAfter
      <4>3. SendsAreCounted'
        BY <1>2, <3>4, <4>2, CountStays
      <4> QED
        BY <1>0, <1>1, <1>3, <1>10, <2>1, <2>2, <2>3, <3>3, <4>1, <4>3, StartingKeeps
    <3>7. CASE y = [calls[c] EXCEPT !.pc = "sending"] /\ Guarded(m[2])
      <4>1. y = MailingOnly(calls[c], m)
        <5>1. PICK x \in Call : x = calls[c]
          BY <1>2
        <5>2. x = [pc |-> x.pc, began |-> x.began, todo |-> x.todo, seq |-> x.seq,
                   rows |-> x.rows, msg |-> x.msg, row |-> x.row, goesOn |-> x.goesOn]
          BY CallIs
        <5>3. x.msg = m
          BY <1>0, <5>1
        <5>4. y = [x EXCEPT !.pc = "sending"]
          BY <3>7, <5>1
        <5>5. [x EXCEPT !.pc = "sending"] = [x EXCEPT !.pc = "sending", !.msg = m]
          BY <5>2, <5>3
        <5> QED
          BY <5>1, <5>4, <5>5 DEF MailingOnly
      <4>2. /\ y \in Call /\ y.pc = "sending" /\ y.msg = m /\ y.rows = calls[c].rows
            /\ y.goesOn => calls[c].goesOn
        BY <1>2, <1>4, <4>1, MailingOnlyIs
      <4>3. ~y.goesOn
        BY <1>1, <1>2, <4>2 DEF CallIsFine
      <4>4. CallIsFine(y)'
        <5>1. PICK x : x = calls[c]
          OBVIOUS
        <5>2. CallIsFine(x)'
          BY <1>2, <3>5, <5>1, CallStays
        <5>3. \A d \in DOMAIN y.rows : Read(d, y.rows[d])'
          BY <4>2, <5>1, <5>2 DEF CallIsFine
        <5>4. Proposed(y)'
          BY <3>4, <4>2, <4>3 DEF Proposed
        <5> QED
          BY <4>2, <4>3, <5>3, <5>4 DEF CallIsFine
      <4>5. CallsAreFine'
        BY <1>2, <3>2, <3>5, <4>4, CallGoes
      <4>6. SendsAreCounted'
        BY <1>2, <3>4, <3>7, CountBegins DEF Guarded
      <4> QED
        BY <1>0, <1>1, <1>3, <1>10, <2>1, <2>2, <2>3, <3>3, <4>5, <4>6, StartingKeeps
    <3> QED
      BY <3>2, <3>6, <3>7
  <2> QED
    BY <2>4, <2>5, <2>6
<1>11. CASE /\ Missing(m) /\ Event /\ UNCHANGED actions
            /\ Set(e, row) \/ (UNCHANGED enrollments /\ calls' = [d \in Callers |-> Idle])
            /\ calls' = [calls EXCEPT ![c] = back] \/ calls' = [d \in Callers |-> Idle]
            /\ \/ messages' = Put(messages, m, [status |-> "failed", sent |-> 0, draft |-> "none"])
               \/ messages' = Put(messages, m, [status |-> "pending", sent |-> 0,
                                               draft |-> "pending_review"])
  <2>1. PICK new \in Message : messages' = Put(messages, m, new)
    <3>1. PICK failed, pending :
             /\ failed = [status |-> "failed", sent |-> 0, draft |-> "none"]
             /\ pending = [status |-> "pending", sent |-> 0, draft |-> "pending_review"]
      OBVIOUS
    <3>2. failed \in Message /\ pending \in Message
      BY <3>1 DEF Message
    <3> QED
      BY <1>11, <3>1, <3>2
  <2>2. Moves(e, m[3])
    BY <1>6a, <1>11 DEF Moves
  <2>3. events' \in 0..MaxEvents
    BY <1>11, UnchangedKeeps
  <2> QED
    BY <1>9, <1>11, <2>1, <2>2, <2>3
<1>12. \/ ~Missing(m) /\ calls' = [calls EXCEPT ![c] = back]
             /\ UNCHANGED <<enrollments, messages, actions, events>>
       \/ Missing(m) /\ StartStep(c, m) /\ UNCHANGED events
       \/ /\ Missing(m) /\ Event /\ UNCHANGED actions
          /\ Set(e, row) \/ (UNCHANGED enrollments /\ calls' = [d \in Callers |-> Idle])
          /\ calls' = [calls EXCEPT ![c] = back] \/ calls' = [d \in Callers |-> Idle]
          /\ \/ messages' = Put(messages, m, [status |-> "failed", sent |-> 0, draft |-> "none"])
             \/ messages' = Put(messages, m, [status |-> "pending", sent |-> 0,
                                             draft |-> "pending_review"])
  <2>1. PICK moved : moved = [enrollments EXCEPT ![e].step = m[3], ![e].due = 0]
    OBVIOUS
  <2>2. moved = [enrollments EXCEPT ![e] = row]
    BY <1>6, <2>1
  <2> QED
    BY <1>0, <2>1, <2>2 DEF Draft, Died, Set
<1> QED
  BY <1>8, <1>10, <1>11, <1>12

(* People are enrolled, and the caller works from the rows it reads then.  *)
LEMMA OpenKeeps ==
  ASSUME OutreachInv, NEW c \in Callers, NEW s \in Sequences, NEW call \in Call,
         call.pc = "walking", ~call.goesOn, calls[c].pc \in {"idle", "walking"},
         OpenSequence(c, s, call),
         UNCHANGED <<messages, actions, permissions, suppressions, replies, optedOut, clock>>,
         statuses' \in [Sequences -> {"active", "paused", "completed"}],
         events' \in 0..MaxEvents
  PROVE  OutreachInv'
<1>1. PICK new \in SUBSET Enrollable(s) :
         /\ enrollments' = Joins(s, new, call.began)
         /\ calls' = [calls EXCEPT ![c] = [call EXCEPT !.todo = @ \ {s}, !.seq = s, !.rows =
              [e \in {x \in DOMAIN enrollments' : x[1] = s /\ enrollments'[x].status = "active"}
                  |-> enrollments'[e]]]]
  BY DEF OpenSequence
<1>2. /\ enrollments \in [DOMAIN enrollments -> Enrollment] /\ DOMAIN enrollments \subseteq Enrollments
      /\ CallsAreFine /\ SendsAreCounted
      /\ \A n \in DOMAIN messages : EnrollmentOf(n) \in DOMAIN enrollments
  BY DEF OutreachInv, TypeOK, RowsAreOrdered
<1>3. /\ call.began \in Nat /\ call.todo \subseteq Sequences /\ call.row \in Enrollment \cup {<<>>}
      /\ call.msg \in MessageIds \cup {None}
      /\ call = [pc |-> call.pc, began |-> call.began, todo |-> call.todo, seq |-> call.seq,
                 rows |-> call.rows, msg |-> call.msg, row |-> call.row, goesOn |-> call.goesOn]
  BY CallIs
<1>4. PICK first \in Enrollment :
         first = [status |-> "active", step |-> 0, due |-> call.began, since |-> call.began,
                  threaded |-> FALSE, handled |-> 0]
  BY <1>3 DEF Enrollment
<1>5. /\ new \subseteq People
      /\ \A p \in new : /\ <<s, p>> \notin DOMAIN enrollments
                        /\ ~\E e \in DOMAIN enrollments : e[2] = p /\ Active(e)
  BY DEF Enrollable
<1>6. /\ DOMAIN enrollments' = DOMAIN enrollments \cup ({s} \X new)
      /\ \A e \in DOMAIN enrollments : enrollments'[e] = enrollments[e]
      /\ \A e \in {s} \X new : e \notin DOMAIN enrollments /\ enrollments'[e] = first
      /\ enrollments' \in [DOMAIN enrollments' -> Enrollment]
      /\ DOMAIN enrollments' \subseteq Enrollments
  <2>1. enrollments' = [e \in DOMAIN enrollments \cup ({s} \X new) |->
                           IF e \in DOMAIN enrollments THEN enrollments[e] ELSE first]
    BY <1>1, <1>4 DEF Joins
  <2>2. \A e \in {s} \X new : e \notin DOMAIN enrollments
    BY <1>5
  <2>3. {s} \X new \subseteq Enrollments
    BY <1>5 DEF Enrollments
  <2> QED
    BY <1>2, <2>1, <2>2, <2>3
<1>7. RowsStay /\ StepsAreNumbers /\ StepsAreNumbers'
  <2>1. StepsAreNumbers /\ StepsAreNumbers'
    BY <1>2, <1>6 DEF StepsAreNumbers, Enrollment
  <2>2. \A e \in DOMAIN enrollments :
           e \in DOMAIN enrollments' /\ enrollments'[e].step >= enrollments[e].step
    BY <1>6, <2>1 DEF StepsAreNumbers
  <2> QED
    BY <2>1, <2>2 DEF RowsStay
<1>8. RowsAreOrdered'
  <2>1. ASSUME NEW e \in DOMAIN enrollments PROVE Ordered(e)'
    <3>1. Ordered(e)
      BY DEF OutreachInv, RowsAreOrdered
    <3> QED
      BY <1>6, <3>1 DEF Ordered
  <2>2. ASSUME NEW e \in {s} \X new PROVE Ordered(e)'
    <3>1. e = <<e[1], e[2]>> /\ e[1] = s /\ Steps[s] \in Nat /\ e \notin DOMAIN enrollments
      BY <1>6
    <3>2. \A k : <<e[1], e[2], k>> \notin DOMAIN messages
      BY <1>2, <3>1 DEF EnrollmentOf
    <3>3. PICK last : last = 0
      OBVIOUS
    <3>4. last \in 0..Steps[e[1]]
      BY <3>1, <3>3
    <3>5. \A k \in 1..Steps[e[1]] : <<e[1], e[2], k>> \in DOMAIN messages' <=> k <= last
      BY <3>1, <3>2, <3>3
    <3>6. \A k \in 1..(last - 1) : messages'[<<e[1], e[2], k>>].status = "sent"
      BY <3>3
    <3>7. enrollments'[e].step \in {last, last - 1}
      BY <1>4, <1>6, <3>3
    <3> QED
      BY <3>4, <3>5, <3>6, <3>7 DEF Ordered
  <2>3. ASSUME NEW e \in DOMAIN enrollments' PROVE Ordered(e)'
    <3>1. PICK f : f = e
      OBVIOUS
    <3>2. f \in DOMAIN enrollments \/ f \in {s} \X new
      BY <1>6, <3>1
    <3>3. Ordered(f)'
      BY <2>1, <2>2, <3>2
    <3> QED
      BY <3>1, <3>3
  <2>4. \A n \in DOMAIN messages' : EnrollmentOf(n)' \in DOMAIN enrollments'
    BY <1>2, <1>6 DEF EnrollmentOf
  <2> QED
    BY <2>3, <2>4 DEF RowsAreOrdered
<1>9. OneSequencePerPerson'
  <2>1. \A d, e \in DOMAIN enrollments :
           d[2] = e[2] /\ enrollments[d].status = "active" /\ enrollments[e].status = "active" => d = e
    BY DEF OutreachInv, OneSequencePerPerson, Active
  <2>2. \A e \in {s} \X new, d \in DOMAIN enrollments :
           d[2] = e[2] => enrollments[d].status # "active"
    BY <1>5 DEF Active
  <2>3. \A d, e \in {s} \X new : d[2] = e[2] => d = e
    OBVIOUS
  <2> SUFFICES ASSUME NEW d \in DOMAIN enrollments', NEW e \in DOMAIN enrollments', d[2] = e[2],
                      enrollments'[d].status = "active", enrollments'[e].status = "active"
               PROVE  d = e
    BY DEF OneSequencePerPerson, Active
  <2> QED
    BY <1>6, <2>1, <2>2, <2>3
<1>10. CallsAreFine'
  <2>1. PICK D : D = {x \in DOMAIN enrollments' : x[1] = s /\ enrollments'[x].status = "active"}
    OBVIOUS
  <2>2. PICK rows : rows = [e \in D |-> enrollments'[e]]
    OBVIOUS
  <2>3. D \in SUBSET Enrollments /\ rows \in [D -> Enrollment]
    BY <1>6, <2>1, <2>2
  <2>4. rows \in Rows
    BY <2>3, RowsAre
  <2>5. PICK todo : todo = call.todo \ {s}
    OBVIOUS
  <2>6. PICK y : y = [call EXCEPT !.todo = todo, !.seq = s, !.rows = rows]
    OBVIOUS
  <2>7. y = [pc |-> call.pc, began |-> call.began, todo |-> todo, seq |-> s,
             rows |-> rows, msg |-> call.msg, row |-> call.row, goesOn |-> call.goesOn]
    BY <1>3, <2>6
  <2>8. y \in Call
    <3>1. /\ y.pc \in Pcs /\ y.began \in Nat /\ y.todo \subseteq Sequences
          /\ y.seq \in Sequences \cup {None} /\ y.rows \in Rows
          /\ y.msg \in MessageIds \cup {None} /\ y.row \in Enrollment \cup {<<>>}
          /\ y.goesOn \in BOOLEAN
      <4>1. call.goesOn \in BOOLEAN
        BY CallIs
      <4> QED
        BY <1>3, <2>4, <2>5, <2>7, <4>1 DEF Pcs
    <3>2. y = [pc |-> y.pc, began |-> y.began, todo |-> y.todo, seq |-> y.seq,
               rows |-> y.rows, msg |-> y.msg, row |-> y.row, goesOn |-> y.goesOn]
      BY <2>7
    <3> QED
      BY <3>1, <3>2, MakesCall
  <2>9. y.pc = "walking" /\ ~y.goesOn /\ y.rows = rows
    BY <2>7
  <2>10. \A e \in DOMAIN y.rows : Read(e, y.rows[e])'
    <3> SUFFICES ASSUME NEW e \in DOMAIN rows PROVE Read(e, rows[e])'
      BY <2>9
    <3>1. e \in DOMAIN enrollments' /\ rows[e] = enrollments'[e]
      BY <2>1, <2>2
    <3>2. enrollments'[e].step \in Nat
      BY <1>7, <3>1 DEF StepsAreNumbers
    <3> QED
      BY <3>1, <3>2 DEF Read
  <2>11. CallIsFine(y)'
    BY <2>8, <2>9, <2>10 DEF CallIsFine
  <2>12. calls' = [calls EXCEPT ![c] = y]
    BY <1>1, <2>1, <2>2, <2>5, <2>6
  <2> QED
    BY <1>2, <1>7, <2>11, <2>12, CallGoes
<1>11. SendsAreCounted'
  <2>1. Sending' \subseteq Sending
    BY <1>1, <1>2, <1>3 DEF Sending, CallsAreFine
  <2>2. SentToday' \subseteq SentToday
    BY DEF SentToday
  <2> QED
    BY <1>2, <2>1, <2>2, CountStays
<1>12. ProposalsAreApproved' /\ OptOutsLast'
  BY DEF OutreachInv, ProposalsAreApproved, OptOutsLast
<1>13. TypeOK'
  BY <1>6 DEF OutreachInv, TypeOK
<1> QED
  BY <1>8, <1>9, <1>10, <1>11, <1>12, <1>13 DEF OutreachInv

(* A tick begins.                                                          *)
LEMMA BeginKeeps ==
  ASSUME OutreachInv, NEW c \in Callers, Begin(c)
  PROVE  OutreachInv'
<1>1. PICK active : active = {s \in Sequences : statuses[s] = "active"}
  OBVIOUS
<1>2. PICK call : call = [Idle EXCEPT !.pc = "walking", !.began = clock, !.todo = active]
  OBVIOUS
<1>3. PICK s \in Sequences : OpenSequence(c, s, call)
  BY <1>1, <1>2 DEF Begin
<1>4. /\ calls[c].pc = "idle" /\ (Event \/ UNCHANGED events)
      /\ UNCHANGED <<messages, actions, permissions, suppressions, replies, optedOut, clock>>
      /\ UNCHANGED statuses
  BY DEF Begin, Starting
<1>5. events' \in 0..MaxEvents
  BY <1>4, UnchangedKeeps
<1>6. call \in Call /\ call.pc = "walking" /\ ~call.goesOn
  <2>1. PICK r : r = <<>>
    OBVIOUS
  <2>2. call = [pc |-> "walking", began |-> clock, todo |-> active, seq |-> None, rows |-> r,
                msg |-> None, row |-> r, goesOn |-> FALSE]
    BY <1>2, <2>1 DEF Idle
  <2>3. r \in Rows
    BY <2>1, IdleIs, CallIs DEF Idle
  <2>4. /\ call.pc \in Pcs /\ call.began \in Nat /\ call.todo \subseteq Sequences
        /\ call.seq \in Sequences \cup {None} /\ call.rows \in Rows
        /\ call.msg \in MessageIds \cup {None} /\ call.row \in Enrollment \cup {<<>>}
        /\ call.goesOn \in BOOLEAN
    BY <1>1, <2>1, <2>2, <2>3 DEF Pcs, OutreachInv, TypeOK
  <2>5. call = [pc |-> call.pc, began |-> call.began, todo |-> call.todo, seq |-> call.seq,
                rows |-> call.rows, msg |-> call.msg, row |-> call.row, goesOn |-> call.goesOn]
    BY <2>2
  <2> QED
    BY <2>2, <2>4, <2>5, MakesCall
<1>7. statuses' \in [Sequences -> {"active", "paused", "completed"}]
  BY <1>4 DEF OutreachInv, TypeOK
<1> QED
  BY <1>3, <1>4, <1>5, <1>6, <1>7, OpenKeeps

(* A tick closes a sequence, and opens the next or ends.                   *)
LEMMA CloseKeeps ==
  ASSUME OutreachInv, NEW c \in Callers, CloseSequence(c)
  PROVE  OutreachInv'
<1>1. /\ calls[c].pc = "walking"
      /\ statuses' \in [Sequences -> {"active", "paused", "completed"}]
      /\ \/ \E next \in calls[c].todo : OpenSequence(c, next, calls[c])
         \/ calls' = [calls EXCEPT ![c] = Idle] /\ UNCHANGED enrollments
      /\ UNCHANGED <<messages, actions, permissions, suppressions, replies, optedOut, clock>>
      /\ UNCHANGED events
  BY DEF CloseSequence, history, OutreachInv, TypeOK
<1>2. calls[c] \in Call /\ CallIsFine(calls[c]) /\ ~calls[c].goesOn /\ CallsAreFine /\ SendsAreCounted
  BY <1>1 DEF OutreachInv, CallsAreFine, CallIsFine
<1>3. events' \in 0..MaxEvents
  BY <1>1, UnchangedKeeps
<1>4. CASE \E next \in calls[c].todo : OpenSequence(c, next, calls[c])
  <2>1. PICK next \in calls[c].todo : OpenSequence(c, next, calls[c])
    BY <1>4
  <2>2. PICK call \in Call : call = calls[c]
    BY <1>2
  <2>3. next \in Sequences
    BY <2>1, <2>2, CallIs
  <2>4. OpenSequence(c, next, call) /\ call.pc = "walking" /\ ~call.goesOn
    BY <1>1, <1>2, <2>1, <2>2
  <2> QED
    BY <1>1, <1>3, <2>3, <2>4, OpenKeeps
<1>5. CASE calls' = [calls EXCEPT ![c] = Idle] /\ UNCHANGED enrollments
  <2>1. EnrollmentsKeep /\ MessagesKeep /\ ActionsGrow /\ SentToday' = SentToday /\ OptOutsLast'
    BY <1>1, <1>5, UnchangedKeeps
  <2>2. RestIsTyped
    BY <1>1, <1>3 DEF OutreachInv, TypeOK, RestIsTyped
  <2>3. PICK y : y = Idle
    OBVIOUS
  <2>4. CallIsFine(y)
    BY <2>3, IdleIs DEF CallIsFine
  <2>5. CallsAreFine'
    BY <1>2, <1>5, <2>1, <2>3, <2>4, KeepingStep, CallGoes
  <2>6. Sending' \subseteq Sending
    BY <1>2, <1>5, <2>3, IdleIs, SendingAfter
  <2>7. SendsAreCounted'
    BY <1>2, <2>1, <2>6, CountStays
  <2> QED
    BY <2>1, <2>2, <2>5, <2>7, KeepingStepKeeps
<1> QED
  BY <1>1, <1>4, <1>5

(***************************************************************************)
(* The invariance, and the invariants it gives.                            *)
(***************************************************************************)

(* The invariant holds initially.                                          *)
LEMMA InitIsFine == ASSUME Init PROVE OutreachInv
<1>1. /\ DOMAIN enrollments = {} /\ DOMAIN messages = {} /\ DOMAIN actions = {} /\ DOMAIN replies = {}
      /\ optedOut = {} /\ events = 0 /\ clock = 1 /\ calls = [c \in Callers |-> Idle]
  <2>1. PICK r : r = <<>>
    OBVIOUS
  <2>2. DOMAIN r = {}
    BY <2>1
  <2> QED
    BY <2>1, <2>2 DEF Init
<1>2. TypeOK
  <2>1. enrollments \in [{} -> Enrollment] /\ messages \in [{} -> Message]
        /\ actions \in [{} -> Action] /\ replies \in [{} -> Reply]
    <3>1. PICK r : r = <<>>
      OBVIOUS
    <3>2. r \in [{} -> Enrollment] /\ r \in [{} -> Message] /\ r \in [{} -> Action] /\ r \in [{} -> Reply]
      BY <3>1
    <3> QED
      BY <3>1, <3>2 DEF Init
  <2>2. /\ statuses \in [Sequences -> {"active", "paused", "completed"}]
        /\ permissions \in [People -> {"unknown", "allowed", "suppressed"}]
        /\ suppressions \in [People -> {"none", "founder", "lasting"}]
    BY DEF Init
  <2> QED
    BY <1>1, <2>1, <2>2 DEF TypeOK
<1>3. CallsAreFine
  <2>1. CallIsFine(Idle)
    BY IdleIs DEF CallIsFine
  <2> QED
    BY <1>1, <2>1 DEF CallsAreFine
<1>4. SendsAreCounted
  <2>1. SentToday = {} /\ Sending = {}
    BY <1>1, IdleIs DEF SentToday, Sending
  <2>2. IsFiniteSet({}) /\ Cardinality({}) = 0
    BY FS_EmptySet
  <2>3. Cardinality(SentToday) + Cardinality(Sending) <= DailyCap + Cardinality(Callers) - 1
    BY <2>1, <2>2, SendingIs
  <2> QED
    BY <2>1, <2>2, <2>3 DEF SendsAreCounted, CapExceededOnlyByOverlap, Sending
<1> QED
  BY <1>1, <1>2, <1>3, <1>4
  DEF OutreachInv, RowsAreOrdered, ProposalsAreApproved, OptOutsLast, OneSequencePerPerson

(* Every step keeps it.                                                    *)
LEMMA OutreachNext == ASSUME OutreachInv, [Next]_vars PROVE OutreachInv'
<1>1. ASSUME NEW c \in Callers, Begin(c) \/ CloseSequence(c) \/ Draft(c)
      PROVE  OutreachInv'
  BY <1>1, BeginKeeps, CloseKeeps, DraftKeeps
<1>2. ASSUME NEW c \in Callers, Accept(c) \/ AcceptAndDie(c) \/ FailSend(c)
      PROVE  OutreachInv'
  BY <1>2, AcceptKeeps, AcceptAndDieKeeps, FailSendKeeps
<1>3. ASSUME NEW c \in Callers, NEW e \in DOMAIN enrollments, HandleReply(c, e) \/ Advance(c, e)
      PROVE  OutreachInv'
  BY <1>3, HandleReplyKeeps, AdvanceKeeps
<1>4. ASSUME NEW c \in Callers, NEW m \in DOMAIN actions, Authorize(c, m) \/ Resume(c, m)
      PROVE  OutreachInv'
  BY <1>4, AuthorizeKeeps, ResumeKeeps
<1>5. ASSUME \/ \E m \in DOMAIN messages, verdict \in {"approved", "rejected"} : Review(m, verdict)
             \/ \E m \in DOMAIN actions : Deny(m)
             \/ \E e \in DOMAIN enrollments : Stop(e)
             \/ \E s \in Sequences, status \in {"active", "paused"} : SetStatus(s, status)
             \/ Tick
      PROVE  OutreachInv'
  BY <1>5, InterventionsKeep
<1>6. ASSUME NEW p \in People,
             \/ Unsubscribe(p) \/ Import(p)
             \/ \E status \in {"allowed", "suppressed"} : UpdatePermission(p, status)
      PROVE  OutreachInv'
  BY <1>6, PermissionsKeep
<1>7. ASSUME NEW p \in People, NEW at \in 1..clock, Ingest(p, at)
      PROVE  OutreachInv'
  BY <1>7, IngestKeeps
<1>8. ASSUME NEW i \in DOMAIN replies, NEW label \in Labels, Classify(i, label)
      PROVE  OutreachInv'
  BY <1>8, ClassifyKeeps
<1>9. CASE Crash
  BY <1>9, CrashKeeps
<1>10. CASE UNCHANGED vars
  <2>1. /\ UNCHANGED <<clock, statuses, enrollments, messages, actions, permissions, suppressions>>
        /\ UNCHANGED <<replies, calls, optedOut>> /\ UNCHANGED events
    BY <1>10 DEF vars, db, history
  <2>2. /\ EnrollmentsKeep /\ MessagesKeep /\ ActionsGrow /\ SentToday' = SentToday /\ RestIsTyped
        /\ OptOutsLast'
    BY <2>1, UnchangedKeeps
  <2> QED
    BY <2>1, <2>2, PeopleStepKeeps
<1> QED
  BY <1>1, <1>2, <1>3, <1>4, <1>5, <1>6, <1>7, <1>8, <1>9, <1>10 DEF Next

(* Whatever the ticks, the requests, the people and the crashes do.        *)
THEOREM OutreachInvariance == Spec => []OutreachInv
<1>1. Init => OutreachInv
  BY InitIsFine
<1>2. OutreachInv /\ [Next]_vars => OutreachInv'
  BY OutreachNext
<1> QED
  BY <1>1, <1>2, PTL DEF Spec

(* Nobody is in two sequences at a time, although ticks that enroll        *)
(* overlap (runOutreachTick, enrollAudience).                              *)
THEOREM PeopleAreInOneSequence == Spec => []OneSequencePerPerson
<1>1. OutreachInv => OneSequencePerPerson
  BY DEF OutreachInv
<1> QED
  BY <1>1, OutreachInvariance, PTL

(* The mailbox's daily cap is exceeded by the sends under way only, that   *)
(* is by less than there are callers (external-action-email.ts).           *)
THEOREM TheCapIsExceededByOverlapOnly == Spec => []CapExceededOnlyByOverlap
<1>1. OutreachInv => CapExceededOnlyByOverlap
  BY DEF OutreachInv, SendsAreCounted
<1> QED
  BY <1>1, OutreachInvariance, PTL

(* A sequence is mailed in order, whatever overlaps and dies in between    *)
(* (advanceEnrollment, generateStep).                                      *)
THEOREM SequencesAreMailedInOrder == Spec => []StepsInOrder
<1>1. ASSUME OutreachInv PROVE StepsInOrder
  <2> SUFFICES ASSUME NEW e \in DOMAIN enrollments
               PROVE  LET drafted == {k \in 1..Steps[e[1]] : <<e[1], e[2], k>> \in DOMAIN messages}
                          last == Cardinality(drafted) IN
                      /\ drafted = 1..last
                      /\ \A k \in 1..(last - 1) : messages[<<e[1], e[2], k>>].status = "sent"
                      /\ enrollments[e].step \in {last, last - 1}
    BY DEF StepsInOrder
  <2>1. PICK n \in 0..Steps[e[1]] :
           /\ \A k \in 1..Steps[e[1]] : <<e[1], e[2], k>> \in DOMAIN messages <=> k <= n
           /\ \A k \in 1..(n - 1) : messages[<<e[1], e[2], k>>].status = "sent"
           /\ enrollments[e].step \in {n, n - 1}
    BY <1>1 DEF OutreachInv, RowsAreOrdered, Ordered
  <2>2. Steps[e[1]] \in Nat /\ n \in Nat
    BY <1>1 DEF OutreachInv, TypeOK, Enrollments
  <2>3. PICK drafted : drafted = {k \in 1..Steps[e[1]] : <<e[1], e[2], k>> \in DOMAIN messages}
    OBVIOUS
  <2>4. drafted = 1..n
    BY <2>1, <2>2, <2>3
  <2>5. Cardinality(1..n) = n
    <3>1. 1 \in Int /\ n \in Int
      BY <2>2
    <3>2. Cardinality(1..n) = IF 1 > n THEN 0 ELSE n - 1 + 1
      BY <3>1, FS_Interval
    <3> QED
      BY <2>2, <3>2
  <2> QED
    BY <2>1, <2>3, <2>4, <2>5
<1> QED
  BY <1>1, OutreachInvariance, PTL

(***************************************************************************)
(* How a mail begins.                                                      *)
(***************************************************************************)

(* The recipient and the cap are guarded in the step the mail begins in,   *)
(* and in a gated sequence its action was authorized.                      *)
MayBegin(m) ==
    /\ Guarded(m[2])
    /\ m[1] \in Gated => actions[m].status \in {"authorization_required", "dispatching"}

BeginsRightly == \A c \in Callers : Sends(c) => MayBegin(calls'[c].msg)

(* The step of one caller begins no other caller's mail.                   *)
LEMMA OneBegins ==
  ASSUME CallsAreFine, NEW c \in Callers, NEW y, calls' = [calls EXCEPT ![c] = y],
         y.pc = "sending" => MayBegin(y.msg)
  PROVE  BeginsRightly
<1>1. calls'[c] = y /\ \A d \in Callers : d # c => calls'[d] = calls[d]
  BY DEF CallsAreFine
<1> SUFFICES ASSUME NEW d \in Callers, Sends(d) PROVE MayBegin(calls'[d].msg)
  BY DEF BeginsRightly
<1>2. d = c
  BY <1>1 DEF Sends
<1> QED
  BY <1>1, <1>2 DEF Sends

(* A caller that opens a sequence mails nobody.                            *)
LEMMA OpenBeginsNone ==
  ASSUME CallsAreFine, NEW c \in Callers, NEW s, NEW call \in Call, call.pc = "walking",
         OpenSequence(c, s, call)
  PROVE  BeginsRightly
<1>1. PICK todo, rows : calls' = [calls EXCEPT ![c] = [call EXCEPT !.todo = todo, !.seq = s, !.rows = rows]]
  BY DEF OpenSequence
<1>2. PICK y : y = [call EXCEPT !.todo = todo, !.seq = s, !.rows = rows]
  OBVIOUS
<1>3. y.pc = "walking"
  BY <1>2, CallIs
<1> QED
  BY <1>1, <1>2, <1>3, OneBegins

(* A proposal begins the mail it proposes, in an ungated sequence.         *)
LEMMA ProposalBegins ==
  ASSUME OutreachInv, NEW c \in Callers, NEW m, EnrollmentOf(m) \in DOMAIN enrollments,
         NEW here \in Call, here.msg = m, NEW back \in Call, back.pc # "sending",
         Propose(c, m, here, back)
  PROVE  BeginsRightly
<1>1. PICK a, y :
         /\ a \in Action
         /\ a.accepted = 0
         /\ actions' = Put(actions, m, a) /\ calls' = [calls EXCEPT ![c] = y]
         /\ \/ y = back
            \/ y = [here EXCEPT !.pc = "sending"] /\ Guarded(m[2]) /\ m[1] \notin Gated
  <2>1. Proposes(c, m, here, back)
    BY ProposeIs
  <2> QED
    BY <2>1 DEF Proposes
<1>2. CallsAreFine
  BY DEF OutreachInv
<1>3. y.pc = "sending" => MayBegin(y.msg)
  <2>1. CASE y = back
    BY <2>1
  <2>2. CASE y = [here EXCEPT !.pc = "sending"] /\ Guarded(m[2]) /\ m[1] \notin Gated
    <3>1. y.msg = m
      BY <2>2, CallIs
    <3> QED
      BY <2>2, <3>1 DEF MayBegin
  <2> QED
    BY <1>1, <2>1, <2>2
<1> QED
  BY <1>1, <1>2, <1>3, OneBegins

(* Going on from a sent message mails nobody yet.                          *)
LEMMA OnwardBeginsNone ==
  ASSUME OutreachInv, NEW c \in Callers, NEW e \in DOMAIN enrollments, NEW row, NEW sent \in Nat,
         NEW back \in Call, back.pc # "sending", Onward(c, e, row, sent, back)
  PROVE  BeginsRightly
<1>1. GoesOn(c, e, row, back)
  BY OnwardIs
<1>2. PICK y : /\ calls' = [calls EXCEPT ![c] = y]
               /\ y = back \/ y = Drafting(back, <<e[1], e[2], row.step + 1>>)
  BY <1>1 DEF GoesOn
<1>3. y.pc # "sending"
  BY <1>2, CallIs DEF Drafting
<1>4. CallsAreFine
  BY DEF OutreachInv
<1> QED
  BY <1>2, <1>3, <1>4, OneBegins

(* An enrollment that is advanced.                                         *)
LEMMA AdvanceBegins ==
  ASSUME OutreachInv, NEW c \in Callers, NEW e, Advance(c, e)
  PROVE  BeginsRightly
<1>0. PICK row, m : row = calls[c].rows[e] /\ m = <<e[1], e[2], row.step>>
  OBVIOUS
<1>1. calls[c].pc = "walking" /\ e \in DOMAIN calls[c].rows
  BY DEF Advance
<1>2. /\ e \in DOMAIN enrollments /\ row \in Enrollment /\ e = <<e[1], e[2]>>
      /\ m \in DOMAIN messages \/ ~(row.step > 0)
  <2>1. /\ e \in DOMAIN enrollments /\ row \in Enrollment /\ row.step \in Nat
        /\ row.step <= enrollments[e].step
    BY <1>0, <1>1, RowIsRead
  <2>2. row.step > 0 => m \in DOMAIN messages
    BY <1>0, <2>1, StepHasMessage
  <2> QED
    BY <2>1, <2>2 DEF OutreachInv, TypeOK, Enrollments
<1>3. CallsAreFine /\ calls[c] \in Call
  BY DEF OutreachInv, CallsAreFine, CallIsFine
<1>4. PICK b : b = Back(calls[c], e)
  OBVIOUS
<1>5. b \in Call /\ b.pc = "walking"
  <2>1. PICK x \in Call : x = calls[c]
    BY <1>3
  <2>2. b = Back(x, e)
    BY <1>4, <2>1
  <2>3. b \in Call /\ b.pc = x.pc
    BY <2>2, BackIs
  <2> QED
    BY <1>1, <2>1, <2>3
<1>6. \/ calls' = [calls EXCEPT ![c] = Drafting(b, <<e[1], e[2], 1>>)]
      \/ calls' = [calls EXCEPT ![c] = b]
      \/ /\ row.step > 0
         /\ Propose(c, m, [b EXCEPT !.msg = m, !.row = row, !.goesOn = TRUE], b)
      \/ /\ row.step > 0
         /\ Onward(c, e, row, messages[m].sent, b)
  BY <1>0, <1>4 DEF Advance, Back, Drafting
<1>7. CASE \/ calls' = [calls EXCEPT ![c] = Drafting(b, <<e[1], e[2], 1>>)]
           \/ calls' = [calls EXCEPT ![c] = b]
  <2>1. PICK y : /\ calls' = [calls EXCEPT ![c] = y]
                 /\ y = b \/ y = Drafting(b, <<e[1], e[2], 1>>)
    BY <1>7
  <2>2. y.pc # "sending"
    BY <1>5, <2>1, CallIs DEF Drafting
  <2> QED
    BY <1>3, <2>1, <2>2, OneBegins
<1>8. CASE /\ row.step > 0
           /\ Propose(c, m, [b EXCEPT !.msg = m, !.row = row, !.goesOn = TRUE], b)
  <2>1. PICK here : here = [b EXCEPT !.msg = m, !.row = row, !.goesOn = TRUE]
    OBVIOUS
  <2>2. m \in MessageIds /\ row \in Enrollment \cup {<<>>} /\ TRUE \in BOOLEAN
    BY <1>2, <1>8 DEF OutreachInv, TypeOK
  <2>3. here = [pc |-> b.pc, began |-> b.began, todo |-> b.todo, seq |-> b.seq,
                rows |-> b.rows, msg |-> m, row |-> row, goesOn |-> TRUE]
    <3>1. b = [pc |-> b.pc, began |-> b.began, todo |-> b.todo, seq |-> b.seq,
               rows |-> b.rows, msg |-> b.msg, row |-> b.row, goesOn |-> b.goesOn]
      BY <1>5, CallIs
    <3> QED
      BY <2>1, <3>1
  <2>4. here.msg = m /\ here \in Call
    <3>1. b.pc \in Pcs
      BY <1>5, CallIs
    <3>2. here \in Call
      BY <1>5, <2>2, <2>3, <3>1, CallWith
    <3> QED
      BY <2>3, <3>2
  <2>5. EnrollmentOf(m) \in DOMAIN enrollments
    BY <1>0, <1>2 DEF EnrollmentOf
  <2>6. Propose(c, m, here, b) /\ b.pc # "sending"
    BY <1>5, <1>8, <2>1
  <2> QED
    BY <1>5, <2>4, <2>5, <2>6, ProposalBegins
<1>9. CASE row.step > 0 /\ Onward(c, e, row, messages[m].sent, b)
  <2>1. PICK sent \in Nat : sent = messages[m].sent
    BY <1>2, <1>9 DEF OutreachInv, TypeOK, Message
  <2>2. Onward(c, e, row, sent, b) /\ b.pc # "sending"
    BY <1>5, <1>9, <2>1
  <2> QED
    BY <1>2, <1>5, <2>2, OnwardBeginsNone
<1> QED
  BY <1>6, <1>7, <1>8, <1>9

(* The other steps of a caller.                                            *)
LEMMA CallerBegins ==
  ASSUME OutreachInv, NEW c \in Callers,
         \/ Begin(c) \/ CloseSequence(c) \/ Draft(c)
         \/ Accept(c) \/ AcceptAndDie(c) \/ FailSend(c)
         \/ \E e \in DOMAIN enrollments : HandleReply(c, e)
  PROVE  BeginsRightly
<1>1. CallsAreFine /\ calls[c] \in Call /\ CallIsFine(calls[c])
  BY DEF OutreachInv, CallsAreFine, CallIsFine
<1>2. PICK back : back = Returned(c)
  OBVIOUS
<1>3. back \in Call /\ back.pc # "sending"
  BY <1>2, ReturnedIsFine
<1>4. CASE calls' = [calls EXCEPT ![c] = back]
  BY <1>1, <1>3, <1>4, OneBegins
<1>5. CASE calls' = [d \in Callers |-> Idle]
  BY <1>5, IdleIs DEF BeginsRightly, Sends
<1>6. CASE Begin(c)
  <2>1. PICK active, call : /\ active = {s \in Sequences : statuses[s] = "active"}
                            /\ call = [Idle EXCEPT !.pc = "walking", !.began = clock, !.todo = active]
    OBVIOUS
  <2>2. PICK s : OpenSequence(c, s, call)
    BY <1>6, <2>1 DEF Begin
  <2>3. PICK todo, rows :
           calls' = [calls EXCEPT ![c] = [call EXCEPT !.todo = todo, !.seq = s, !.rows = rows]]
    BY <2>2 DEF OpenSequence
  <2>4. PICK y : y = [call EXCEPT !.todo = todo, !.seq = s, !.rows = rows]
    OBVIOUS
  <2>5. y.pc = "walking"
    BY <2>1, <2>4 DEF Idle
  <2> QED
    BY <1>1, <2>3, <2>4, <2>5, OneBegins
<1>7. CASE CloseSequence(c)
  <2>1. CASE calls' = [calls EXCEPT ![c] = Idle]
    <3>1. PICK y : y = Idle
      OBVIOUS
    <3>2. y.pc # "sending"
      BY <3>1, IdleIs
    <3> QED
      BY <1>1, <2>1, <3>1, <3>2, OneBegins
  <2>2. CASE \E next : OpenSequence(c, next, calls[c])
    <3>1. PICK next : OpenSequence(c, next, calls[c])
      BY <2>2
    <3>2. PICK call \in Call : call = calls[c]
      BY <1>1
    <3>3. OpenSequence(c, next, call) /\ call.pc = "walking"
      BY <1>7, <3>1, <3>2 DEF CloseSequence
    <3> QED
      BY <1>1, <3>3, OpenBeginsNone
  <2> QED
    BY <1>7, <2>1, <2>2 DEF CloseSequence
<1>8. CASE Draft(c)
  <2>1. PICK m : m = calls[c].msg
    OBVIOUS
  <2>2. \/ calls' = [calls EXCEPT ![c] = back] \/ calls' = [d \in Callers |-> Idle]
        \/ Propose(c, m, calls[c], back)
    BY <1>2, <1>8, <2>1 DEF Draft, StartStep, Died
  <2>3. CASE Propose(c, m, calls[c], back)
    <3>1. calls[c].pc = "generating"
      BY <1>8 DEF Draft
    <3>2. EnrollmentOf(m) \in DOMAIN enrollments
      BY <1>1, <2>1, <3>1 DEF CallIsFine, Follows
    <3>3. PICK here \in Call : here = calls[c]
      BY <1>1
    <3>4. Propose(c, m, here, back) /\ here.msg = m
      BY <2>1, <2>3, <3>3
    <3> QED
      BY <1>3, <3>2, <3>4, ProposalBegins
  <2> QED
    BY <1>4, <1>5, <2>2, <2>3
<1>9. CASE Accept(c)
  <2>1. PICK m, e : m = calls[c].msg /\ e = EnrollmentOf(m)
    OBVIOUS
  <2>2. \/ calls' = [calls EXCEPT ![c] = back]
        \/ Onward(c, e, [calls[c].row EXCEPT !.threaded = FALSE], clock, back)
    BY <1>2, <1>9, <2>1 DEF Accept
  <2>3. CASE Onward(c, e, [calls[c].row EXCEPT !.threaded = FALSE], clock, back)
    <3>1. m \in DOMAIN actions
      BY <1>1, <1>9, <2>1 DEF Accept, CallIsFine, Proposed
    <3>2. e \in DOMAIN enrollments /\ clock \in Nat
      BY <2>1, <3>1, ActionHas DEF OutreachInv, TypeOK
    <3>3. PICK row : row = [calls[c].row EXCEPT !.threaded = FALSE]
      OBVIOUS
    <3>3a. PICK at \in Nat : at = clock
      BY <3>2
    <3>4. Onward(c, e, row, at, back)
      BY <2>3, <3>3, <3>3a
    <3> QED
      BY <1>3, <3>2, <3>4, OnwardBeginsNone
  <2> QED
    BY <1>4, <2>2, <2>3
<1>10. CASE AcceptAndDie(c)
  BY <1>5, <1>10 DEF AcceptAndDie, Died
<1>11. CASE FailSend(c)
  BY <1>2, <1>4, <1>11 DEF FailSend
<1>12. CASE \E e \in DOMAIN enrollments : HandleReply(c, e)
  <2>1. PICK e : /\ calls[c].pc = "walking"
                 /\ calls' = [calls EXCEPT ![c].rows = Without(@, e)]
    BY <1>12 DEF HandleReply
  <2>2. PICK x \in Call : x = calls[c]
    BY <1>1
  <2>3. PICK y : y = Back(x, e)
    OBVIOUS
  <2>4. y.pc = x.pc
    BY <2>3, BackIs
  <2>5. calls' = [calls EXCEPT ![c] = y] /\ y.pc = "walking"
    BY <2>1, <2>2, <2>3, <2>4 DEF Back
  <2> QED
    BY <1>1, <2>5, OneBegins
<1> QED
  BY <1>6, <1>7, <1>8, <1>9, <1>10, <1>11, <1>12

(* An authorized action is dispatched, or a dispatching one taken up.      *)
LEMMA DispatchBegins ==
  ASSUME OutreachInv, NEW c \in Callers, NEW m \in DOMAIN actions, Authorize(c, m) \/ Resume(c, m)
  PROVE  BeginsRightly
<1>1. CASE UNCHANGED calls
  BY <1>1 DEF BeginsRightly, Sends
<1>2. CASE /\ calls' = [calls EXCEPT ![c] = MailingOnly(Idle, m)] /\ Guarded(m[2])
           /\ actions[m].status \in {"authorization_required", "dispatching"}
  <2>1. PICK y : y = MailingOnly(Idle, m)
    OBVIOUS
  <2>2. y.msg = m
    BY <2>1 DEF MailingOnly, Idle
  <2>3. CallsAreFine
    BY DEF OutreachInv
  <2>4. MayBegin(y.msg)
    BY <1>2, <2>2 DEF MayBegin
  <2> QED
    BY <1>2, <2>1, <2>3, <2>4, OneBegins
<1> QED
  BY <1>1, <1>2 DEF Authorize, Resume, MailingOnly

(* No step begins a mail that may not begin.                               *)
LEMMA MailsBeginRightly == ASSUME OutreachInv, [Next]_vars PROVE BeginsRightly
<1>1. CASE UNCHANGED calls
  BY <1>1 DEF BeginsRightly, Sends
<1>2. CASE Crash
  BY <1>2, IdleIs DEF Crash, Died, BeginsRightly, Sends
<1>3. ASSUME NEW c \in Callers,
             \/ Begin(c) \/ CloseSequence(c) \/ Draft(c)
             \/ Accept(c) \/ AcceptAndDie(c) \/ FailSend(c)
             \/ \E e \in DOMAIN enrollments : HandleReply(c, e)
      PROVE  BeginsRightly
  BY <1>3, CallerBegins
<1>4. ASSUME NEW c \in Callers, NEW e \in DOMAIN enrollments, Advance(c, e) PROVE BeginsRightly
  BY <1>4, AdvanceBegins
<1>5. ASSUME NEW c \in Callers, NEW m \in DOMAIN actions, Authorize(c, m) \/ Resume(c, m)
      PROVE  BeginsRightly
  BY <1>5, DispatchBegins
<1>6. ASSUME \/ \E m \in DOMAIN messages, verdict \in {"approved", "rejected"} : Review(m, verdict)
             \/ \E m \in DOMAIN actions : Deny(m)
             \/ \E e \in DOMAIN enrollments : Stop(e)
             \/ \E s \in Sequences, status \in {"active", "paused"} : SetStatus(s, status)
             \/ \E p \in People :
                   \/ Unsubscribe(p) \/ Import(p)
                   \/ \E status \in {"allowed", "suppressed"} : UpdatePermission(p, status)
                   \/ \E at \in 1..clock : Ingest(p, at)
             \/ \E i \in DOMAIN replies, label \in Labels : Classify(i, label)
             \/ Tick
             \/ UNCHANGED vars
      PROVE  UNCHANGED calls
  BY <1>6 DEF Review, Deny, Stop, SetStatus, Unsubscribe, Import, UpdatePermission, Ingest,
              Classify, Tick, vars
<1> QED
  BY <1>1, <1>2, <1>3, <1>4, <1>5, <1>6 DEF Next

(* Whoever unsubscribed is never mailed again, from whatever was drafted,  *)
(* approved or dispatching before (applyUnsubscribe, emailSafetyBlock).    *)
THEOREM UnsubscribersAreLeftAlone == Spec => UnsubscribingIsForGood
<1>1. ASSUME OutreachInv, [Next]_vars
      PROVE  [\A c \in Callers : Sends(c) => calls'[c].msg[2] \notin optedOut]_vars
  <2> SUFFICES ASSUME NEW c \in Callers, Sends(c) PROVE calls'[c].msg[2] \notin optedOut
    OBVIOUS
  <2>1. Guarded(calls'[c].msg[2])
    BY <1>1, MailsBeginRightly DEF BeginsRightly, MayBegin
  <2>2. PICK p : p = calls'[c].msg[2]
    OBVIOUS
  <2>3. suppressions[p] = "none"
    BY <2>1, <2>2 DEF Guarded
  <2> QED
    BY <1>1, <2>2, <2>3 DEF OutreachInv, OptOutsLast
<1> QED
  BY <1>1, OutreachInvariance, PTL DEF Spec, UnsubscribingIsForGood

(* No mail begins without an approved draft, nor in a gated sequence       *)
(* without a human's authorization of its action.                          *)
THEOREM NothingUnapprovedLeaves == Spec => NothingUnapproved
<1>1. ASSUME OutreachInv, [Next]_vars
      PROVE  [\A c \in Callers : Sends(c) =>
                 LET m == calls'[c].msg IN
                 /\ messages'[m].draft = "approved"
                 /\ m[1] \in Gated => actions[m].status \in {"authorization_required", "dispatching"}]_vars
  <2> SUFFICES ASSUME NEW c \in Callers, Sends(c)
               PROVE  LET m == calls'[c].msg IN
                      /\ messages'[m].draft = "approved"
                      /\ m[1] \in Gated => actions[m].status \in {"authorization_required", "dispatching"}
    OBVIOUS
  <2>1. PICK m : m = calls'[c].msg
    OBVIOUS
  <2>2. MayBegin(calls'[c].msg)
    BY <1>1, MailsBeginRightly DEF BeginsRightly
  <2>3. m[1] \in Gated => actions[m].status \in {"authorization_required", "dispatching"}
    BY <2>1, <2>2 DEF MayBegin
  <2>4. OutreachInv'
    BY <1>1, OutreachNext
  <2>5. m \in DOMAIN actions'
    <3>1. CallIsFine(calls[c])'
      BY <2>4 DEF OutreachInv, CallsAreFine
    <3> QED
      BY <2>1, <3>1 DEF Sends, CallIsFine, Proposed
  <2>6. messages'[m].draft = "approved"
    BY <2>4, <2>5 DEF OutreachInv, ProposalsAreApproved
  <2> QED
    BY <2>1, <2>3, <2>6
<1> QED
  BY <1>1, OutreachInvariance, PTL DEF Spec, NothingUnapproved
===========================================================================
