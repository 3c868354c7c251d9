-------------------------- MODULE TaskLeaseProofs --------------------------
(***************************************************************************)
(* What TaskLease guarantees for any number of calls, any assignment of    *)
(* owner strings, any lease duration and any clock.                        *)
(*                                                                         *)
(* Fenced is inductive together with TypeOK: versions only grow, each      *)
(* claim takes a new one, and nothing but a claim changes a token.         *)
(***************************************************************************)
EXTENDS TaskLease, TLAPS

(* The state stays well typed.                                             *)
LEMMA TypeInit == Init => TypeOK
  BY DEF Init, TypeOK

LEMMA TypeStep == TypeOK /\ [Next]_vars => TypeOK'
<1> SUFFICES ASSUME TypeOK, [Next]_vars PROVE TypeOK'
  OBVIOUS
<1> USE CallsAssumption, LeaseAssumption DEF TypeOK, LeaseRow
<1>1. ASSUME NEW c \in Calls, Claim(c) PROVE TypeOK'
  <2>1. Version \in Nat
    BY DEF Version
  <2>2. OwnerOf[c] \in Owners
    OBVIOUS
  <2> QED
    BY <1>1, <2>1, <2>2 DEF Claim
<1>2. ASSUME NEW c \in Calls, Busy(c) PROVE TypeOK'
  BY <1>2 DEF Busy
<1>3. ASSUME NEW c \in Calls, Heartbeat(c) PROVE TypeOK'
  <2>1. CASE Renewable(c)
    <3>1. lease \in LeaseRow
      BY <2>1 DEF Renewable, Matches
    <3>2. lease' = [lease EXCEPT !.expiresAt = clock + LeaseMs]
      BY <1>3, <2>1 DEF Heartbeat
    <3>3. lease' \in LeaseRow
      BY <3>1, <3>2
    <3> QED
      BY <1>3, <2>1, <3>3 DEF Heartbeat
  <2>2. CASE ~Renewable(c)
    BY <1>3, <2>2 DEF Heartbeat
  <2> QED
    BY <2>1, <2>2
<1>4. ASSUME NEW c \in Calls, Finish(c) PROVE TypeOK'
  BY <1>4 DEF Finish, Released, Matches
<1>5. ASSUME NEW c \in Calls, Crash(c) PROVE TypeOK'
  BY <1>5 DEF Crash
<1>6. CASE Tick
  BY <1>6 DEF Tick
<1>7. CASE UNCHANGED vars
  BY <1>7 DEF vars
<1> QED
  BY <1>1, <1>2, <1>3, <1>4, <1>5, <1>6, <1>7 DEF Next

(* TypeOK always holds.                                                    *)
THEOREM Typing == Spec => []TypeOK
  BY TypeInit, TypeStep, PTL DEF Spec

(* A renewed or released row keeps its owner and version.                  *)
LEMMA FencedStep == TypeOK /\ Fenced /\ [Next]_vars => Fenced'
<1> SUFFICES ASSUME TypeOK, Fenced, [Next]_vars PROVE Fenced'
  OBVIOUS
<1> USE CallsAssumption, LeaseAssumption, NoLeaseAssumption DEF TypeOK, LeaseRow
<1>1. ASSUME NEW c \in Calls, Claim(c) PROVE Fenced'
  <2>1. Version \in Nat /\ Version' = Version + 1 /\ lease' # NoLease
    <3>1. Version \in Nat
      BY DEF Version
    <3>2. lease' \in LeaseRow
      BY <1>1, <3>1 DEF Claim
    <3> QED
      BY <1>1, <3>1, <3>2 DEF Claim, Version
  <2>2. token'[c] = Version + 1 /\ \A d \in Calls \ {c} : token'[d] = token[d]
    BY <1>1 DEF Claim
  <2>3. \A d \in Calls : token[d] <= Version
    BY DEF Fenced
  <2>4. \A d \in Calls : pc'[d] = "working" => d = c \/ pc[d] = "working"
    BY <1>1 DEF Claim
  <2>5. lease'.owner = OwnerOf[c]
    BY <1>1 DEF Claim
  <2> QED
    BY <2>1, <2>2, <2>3, <2>4, <2>5 DEF Fenced
<1>2. ASSUME NEW c \in Calls, Heartbeat(c) \/ Finish(c) PROVE Fenced'
  <2>1. UNCHANGED token /\ \A d \in Calls : pc'[d] = "working" => pc[d] = "working"
    BY <1>2 DEF Heartbeat, Finish
  <2>2. /\ lease = NoLease => lease' = NoLease
        /\ lease # NoLease => /\ lease' # NoLease
                              /\ lease'.owner = lease.owner
                              /\ lease'.version = lease.version
    BY <1>2 DEF Heartbeat, Finish, Released, Renewable, Matches, Live
  <2>3. Version' = Version
    BY <2>2 DEF Version
  <2> QED
    BY <2>1, <2>2, <2>3 DEF Fenced
<1>3. ASSUME NEW c \in Calls, Busy(c) \/ Crash(c) PROVE Fenced'
  BY <1>3 DEF Busy, Crash, Fenced, Version
<1>4. CASE Tick
  BY <1>4 DEF Tick, Fenced, Version
<1>5. CASE UNCHANGED vars
  BY <1>5 DEF vars, Fenced, Version
<1> QED
  BY <1>1, <1>2, <1>3, <1>4, <1>5 DEF Next

(* Fencing versions are never shared or ahead of the row.                  *)
THEOREM Fencing == Spec => []Fenced
<1>1. Init => Fenced
  BY DEF Init, Fenced, Version
<1> QED
  BY <1>1, TypeInit, TypeStep, FencedStep, PTL DEF Spec

(* At most one call can renew or rely on the row.                          *)
THEOREM MutualExclusion == Spec => []AtMostOneHolder
<1>1. TypeOK /\ Fenced => AtMostOneHolder
  <2> SUFFICES ASSUME TypeOK, Fenced, NEW c \in Calls, NEW d \in Calls,
                      Holds(c), Holds(d)
               PROVE  c = d
    BY DEF AtMostOneHolder
  <2>1. token[c] = token[d]
    BY DEF Holds, Renewable, Matches
  <2>2. token[c] # 0
    BY DEF Holds, Fenced, TypeOK
  <2> QED
    BY <2>1, <2>2 DEF Fenced
<1> QED
  BY <1>1, Typing, Fencing, PTL

(* A call that cannot renew the row cannot renew it after any step: a new  *)
(* claim moves the version past its token, and nothing else makes a row    *)
(* live again.                                                             *)
LEMMA NoRevival ==
  ASSUME TypeOK, Fenced, [Next]_vars, NEW c \in Calls,
         pc[c] = "working", ~Renewable(c), pc'[c] = "working"
  PROVE  ~Renewable(c)'
<1> USE CallsAssumption, LeaseAssumption, NoLeaseAssumption DEF TypeOK, LeaseRow
<1>1. ASSUME NEW d \in Calls, Claim(d) PROVE ~Renewable(c)'
  <2>1. c # d /\ token'[c] = token[c]
    BY <1>1 DEF Claim
  <2>2. Version \in Nat /\ token[c] <= Version /\ lease'.version = Version + 1
    BY <1>1 DEF Claim, Version, Fenced
  <2> QED
    BY <2>1, <2>2 DEF Renewable, Matches
<1>2. ASSUME NEW d \in Calls, Heartbeat(d) PROVE ~Renewable(c)'
  <2>1. CASE Renewable(d)
    <3>1. lease.version = token[d] /\ token[d] # token[c]
      <4>1. c # d
        BY <2>1
      <4>2. token[c] # 0
        BY DEF Fenced
      <4> QED
        BY <2>1, <4>1, <4>2 DEF Renewable, Matches, Fenced
    <3>2. lease'.version = lease.version /\ token' = token
      BY <1>2, <2>1 DEF Heartbeat, Renewable, Matches
    <3> QED
      BY <3>1, <3>2 DEF Renewable, Matches
  <2>2. CASE ~Renewable(d)
    BY <1>2, <2>2 DEF Heartbeat, Renewable, Matches, Live
  <2> QED
    BY <2>1, <2>2
<1>3. ASSUME NEW d \in Calls, Finish(d) PROVE ~Renewable(c)'
  <2>1. CASE Matches(d)
    <3>1. lease'.expiresAt = clock /\ clock' = clock
      BY <1>3, <2>1 DEF Finish, Released, Matches
    <3> QED
      BY <3>1 DEF Renewable, Live
  <2>2. CASE ~Matches(d)
    BY <1>3, <2>2 DEF Finish, Released, Renewable, Matches, Live
  <2> QED
    BY <2>1, <2>2
<1>4. ASSUME NEW d \in Calls, Busy(d) \/ Crash(d) PROVE ~Renewable(c)'
  BY <1>4 DEF Busy, Crash, Renewable, Matches, Live
<1>5. CASE Tick
  <2>1. lease' = lease /\ token' = token /\ clock' = clock + 1
    BY <1>5 DEF Tick
  <2>2. Matches(c)' = Matches(c)
    BY <2>1 DEF Matches
  <2>3. lease # NoLease => lease.expiresAt \in Nat
    OBVIOUS
  <2>4. Live' => Live
    BY <2>1, <2>3 DEF Live
  <2> QED
    BY <2>2, <2>4 DEF Renewable
<1>6. CASE UNCHANGED vars
  BY <1>6 DEF vars, Renewable, Matches, Live
<1> QED
  BY <1>1, <1>2, <1>3, <1>4, <1>5, <1>6 DEF Next

(* A raised signal is never wrong: its call has lost the row.              *)
AbortedLost ==
    \A c \in Calls : aborted[c] => /\ pc[c] # "idle"
                                   /\ pc[c] = "working" => ~Renewable(c)

LEMMA AbortedStep == TypeOK /\ Fenced /\ AbortedLost /\ [Next]_vars => AbortedLost'
<1> SUFFICES ASSUME TypeOK, Fenced, AbortedLost, [Next]_vars, NEW c \in Calls,
                    aborted'[c]
             PROVE  pc'[c] # "idle" /\ (pc'[c] = "working" => ~Renewable(c)')
  BY DEF AbortedLost
<1>1. CASE aborted[c]
  <2>1. pc[c] # "idle"
    BY <1>1 DEF AbortedLost
  <2>2. pc'[c] # "idle" /\ (pc'[c] = "working" => pc[c] = "working")
    BY <2>1 DEF Next, Claim, Busy, Heartbeat, Finish, Crash, Tick, vars, TypeOK
  <2> QED
    BY <1>1, <2>2, NoRevival DEF AbortedLost
<1>2. CASE ~aborted[c]
  <2>1. Heartbeat(c) /\ ~Renewable(c)
    BY <1>2 DEF Next, Claim, Busy, Heartbeat, Finish, Crash, Tick, vars, TypeOK
  <2>2. pc[c] = "working" /\ pc'[c] = "working"
    BY <2>1 DEF Heartbeat
  <2> QED
    BY <2>1, <2>2, NoRevival
<1> QED
  BY <1>1, <1>2

(* A lost lease is lost for good.                                          *)
THEOREM LossIsFinal == Spec => LostIsFinal
<1>1. Init => AbortedLost
  BY DEF Init, AbortedLost
<1>2. TypeOK /\ Fenced /\ AbortedLost /\ [Next]_vars =>
         [\A c \in Calls :
             pc[c] = "working" /\ (aborted[c] \/ ~Renewable(c)) =>
                ~(pc'[c] = "working" /\ Renewable(c)')]_vars
  BY NoRevival DEF AbortedLost
<1> QED
  BY <1>1, <1>2, Typing, Fencing, AbortedStep, PTL DEF Spec, LostIsFinal

(* No lease runs longer than a renewal made now would.                     *)
Bounded == lease # NoLease => lease.expiresAt <= clock + LeaseMs

LEMMA BoundedStep == TypeOK /\ Bounded /\ [Next]_vars => Bounded'
<1> SUFFICES ASSUME TypeOK, Bounded, [Next]_vars PROVE Bounded'
  OBVIOUS
<1> USE LeaseAssumption, NoLeaseAssumption DEF TypeOK, LeaseRow
<1>1. ASSUME NEW c \in Calls, Claim(c) PROVE Bounded'
  BY <1>1 DEF Claim, Bounded
<1>2. ASSUME NEW c \in Calls, Heartbeat(c) PROVE Bounded'
  <2>1. CASE Renewable(c)
    BY <1>2, <2>1 DEF Heartbeat, Renewable, Matches, Bounded
  <2>2. CASE ~Renewable(c)
    BY <1>2, <2>2 DEF Heartbeat, Bounded
  <2> QED
    BY <2>1, <2>2
<1>3. ASSUME NEW c \in Calls, Finish(c) PROVE Bounded'
  <2>1. CASE Matches(c)
    BY <1>3, <2>1 DEF Finish, Released, Matches, Bounded
  <2>2. CASE ~Matches(c)
    BY <1>3, <2>2 DEF Finish, Released, Bounded
  <2> QED
    BY <2>1, <2>2
<1>4. ASSUME NEW c \in Calls, Busy(c) \/ Crash(c) PROVE Bounded'
  BY <1>4 DEF Busy, Crash, Bounded
<1>5. CASE Tick
  BY <1>5 DEF Tick, Bounded
<1>6. CASE UNCHANGED vars
  BY <1>6 DEF vars, Bounded
<1> QED
  BY <1>1, <1>2, <1>3, <1>4, <1>5, <1>6 DEF Next

(* While a call holds the lease and time stands still, the step of another *)
(* call leaves the row's version and its expiry, or prolongs it.           *)
LEMMA HolderStep ==
  ASSUME TypeOK, Fenced, Bounded, [Next]_vars, NEW c \in Calls, Holds(c),
         clock' = clock, pc'[c] = "working"
  PROVE  lease'.version = lease.version /\ lease'.expiresAt >= lease.expiresAt
<1> USE LeaseAssumption, NoLeaseAssumption DEF TypeOK, LeaseRow
<1>1. Live /\ Matches(c) /\ lease \in LeaseRow
  BY DEF Holds, Renewable, Live
<1>2. ASSUME NEW d \in Calls, Claim(d) PROVE FALSE
  BY <1>1, <1>2 DEF Claim
<1>3. ASSUME NEW d \in Calls, Heartbeat(d)
      PROVE  lease'.version = lease.version /\ lease'.expiresAt >= lease.expiresAt
  <2>1. CASE Renewable(d)
    <3>1. lease' = [lease EXCEPT !.expiresAt = clock + LeaseMs]
      BY <1>3, <2>1 DEF Heartbeat
    <3>2. lease'.version = lease.version /\ lease'.expiresAt = clock + LeaseMs
      BY <1>1, <3>1
    <3>3. lease # NoLease /\ clock \in Nat /\ lease.expiresAt \in Nat
      BY <1>1
    <3> QED
      BY <3>2, <3>3 DEF Bounded
  <2>2. CASE ~Renewable(d)
    BY <1>1, <1>3, <2>2 DEF Heartbeat
  <2> QED
    BY <2>1, <2>2
<1>4. ASSUME NEW d \in Calls, Finish(d)
      PROVE  lease'.version = lease.version /\ lease'.expiresAt >= lease.expiresAt
  <2>1. d # c
    BY <1>4 DEF Finish
  <2>2. ~Matches(d)
    <3>1. token[c] = lease.version /\ token[c] # 0
      BY <1>1 DEF Matches, Holds, Fenced
    <3>2. token[d] # token[c]
      BY <2>1, <3>1 DEF Fenced
    <3> QED
      BY <3>1, <3>2 DEF Matches
  <2>3. lease' = lease
    BY <1>4, <2>2 DEF Finish, Released
  <2> QED
    BY <1>1, <2>3
<1>5. ASSUME NEW d \in Calls, Busy(d) \/ Crash(d)
      PROVE  lease'.version = lease.version /\ lease'.expiresAt >= lease.expiresAt
  BY <1>1, <1>5 DEF Busy, Crash
<1>6. CASE Tick
  BY <1>6 DEF Tick
<1>7. CASE UNCHANGED vars
  BY <1>1, <1>7 DEF vars
<1> QED
  BY <1>2, <1>3, <1>4, <1>5, <1>6, <1>7 DEF Next

(* The time a live lease has left is taken away by nobody but its holder.  *)
THEOREM HolderKeepsTheLease == Spec => OnlyTheHolderEndsALiveLease
<1>1. Init => Bounded
  BY DEF Init, Bounded
<1>2. TypeOK /\ Fenced /\ Bounded /\ [Next]_vars =>
         [\A c \in Calls :
             Holds(c) /\ clock' = clock =>
                \/ pc'[c] # "working"
                \/ /\ lease'.version = lease.version
                   /\ lease'.expiresAt >= lease.expiresAt]_vars
  BY HolderStep
<1> QED
  BY <1>1, <1>2, Typing, Fencing, BoundedStep, PTL DEF Spec, OnlyTheHolderEndsALiveLease
=============================================================================
