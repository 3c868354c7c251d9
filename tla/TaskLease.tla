----------------------------- MODULE TaskLease -----------------------------
(***************************************************************************)
(* One row of the task_leases table and the calls of withTaskLease that    *)
(* compete for it (apps/api/src/services/task-leases.ts).  A row is        *)
(* independent of the rows of other keys, so the key itself is left out.   *)
(*                                                                         *)
(* A call claims the row, runs its work while a timer renews the row, and  *)
(* releases it when the work settles.  The work learns of a lost lease     *)
(* only through an abort signal, raised by the first renewal that fails.   *)
(* A call whose process dies leaves the row as it is.                      *)
(***************************************************************************)
EXTENDS Naturals, FiniteSets

CONSTANTS
    Calls,      \* calls of withTaskLease
    Owners,     \* the owner strings the calls pass
    OwnerOf,    \* OwnerOf[c]: the owner string of call c; two calls may share one
    NoLease,    \* there is no row yet
    LeaseMs,    \* how long a claim or a renewal lasts
    MaxClock    \* bound: the database clock stops here

ASSUME CallsAssumption == OwnerOf \in [Calls -> Owners]
ASSUME LeaseAssumption == LeaseMs \in Nat \ {0} /\ MaxClock \in Nat
ASSUME NoLeaseAssumption ==
    NoLease \notin [owner : Owners, version : Nat, expiresAt : Nat]

VARIABLES
    clock,      \* DATABASE_NOW_MS
    lease,      \* the row, or NoLease
    pc,         \* pc[c]: "idle", "working", or how the call ended
    token,      \* token[c]: the version in latestToken (0 before a claim)
    aborted     \* aborted[c]: the abort signal given to the work is raised

vars == <<clock, lease, pc, token, aborted>>

LeaseRow == [owner : Owners, version : Nat, expiresAt : Nat]

TypeOK ==
    /\ clock \in Nat
    /\ lease \in LeaseRow \cup {NoLease}
    /\ pc \in [Calls -> {"idle", "working", "busy", "done", "crashed"}]
    /\ token \in [Calls -> Nat]
    /\ aborted \in [Calls -> BOOLEAN]

Init ==
    /\ clock = 0
    /\ lease = NoLease
    /\ pc = [c \in Calls |-> "idle"]
    /\ token = [c \in Calls |-> 0]
    /\ aborted = [c \in Calls |-> FALSE]

(* The version the row holds; versions start at 1.                         *)
Version == IF lease = NoLease THEN 0 ELSE lease.version

Live == lease # NoLease /\ lease.expiresAt > clock

(* Mutant of Matches: the version is not compared.                         *)
MatchesAnyVersion(c) == lease # NoLease /\ lease.owner = OwnerOf[c]

(* The row still names the call's owner and version.                       *)
Matches(c) ==
    /\ lease # NoLease
    /\ lease.owner = OwnerOf[c]
    /\ lease.version = token[c]

(* claimTaskLease inserts the row, or takes over an expired one with the   *)
(* next version.                                                           *)
Claim(c) ==
    /\ pc[c] = "idle"
    /\ ~Live
    /\ lease' = [owner |-> OwnerOf[c], version |-> Version + 1,
                 expiresAt |-> clock + LeaseMs]
    /\ pc' = [pc EXCEPT ![c] = "working"]
    /\ token' = [token EXCEPT ![c] = Version + 1]
    /\ UNCHANGED <<clock, aborted>>

(* claimTaskLease returns null: the call answers busy without working.     *)
Busy(c) ==
    /\ pc[c] = "idle"
    /\ Live
    /\ pc' = [pc EXCEPT ![c] = "busy"]
    /\ UNCHANGED <<clock, lease, token, aborted>>

(* The UPDATE of heartbeatTaskLease matches the row only while it is live. *)
Renewable(c) == Matches(c) /\ Live

(* The renewal timer fires.  A failed renewal raises the signal and is not *)
(* scheduled again.                                                        *)
Heartbeat(c) ==
    /\ pc[c] = "working"
    /\ ~aborted[c]
    /\ IF Renewable(c)
       THEN /\ lease' = [lease EXCEPT !.expiresAt = clock + LeaseMs]
            /\ UNCHANGED aborted
       ELSE /\ aborted' = [aborted EXCEPT ![c] = TRUE]
            /\ UNCHANGED lease
    /\ UNCHANGED <<clock, pc, token>>

(* Mutant of Released: the row is ended by key alone.                      *)
ReleasedByKey(c) == [lease EXCEPT !.expiresAt = clock]

(* releaseTaskLease ends the row, expired or not, if it still carries the  *)
(* token.                                                                  *)
Released(c) ==
    IF Matches(c) THEN [lease EXCEPT !.expiresAt = clock] ELSE lease

(* The work settles, whether it returned or threw, and the finally block   *)
(* stops the timer and releases the row.                                   *)
Finish(c) ==
    /\ pc[c] = "working"
    /\ pc' = [pc EXCEPT ![c] = "done"]
    /\ lease' = Released(c)
    /\ UNCHANGED <<clock, token, aborted>>

(* The process of the call dies.                                           *)
Crash(c) ==
    /\ pc[c] = "working"
    /\ pc' = [pc EXCEPT ![c] = "crashed"]
    /\ UNCHANGED <<clock, lease, token, aborted>>

Tick ==
    /\ clock < MaxClock
    /\ clock' = clock + 1
    /\ UNCHANGED <<lease, pc, token, aborted>>

Next ==
    \/ \E c \in Calls : Claim(c) \/ Busy(c) \/ Heartbeat(c) \/ Finish(c) \/ Crash(c)
    \/ Tick

Spec == Init /\ [][Next]_vars

(***************************************************************************)
(* Safety.                                                                 *)
(***************************************************************************)

(* A call believes it may write while it works and its signal is down.     *)
Holds(c) == pc[c] = "working" /\ Renewable(c)

(* Fencing versions: no two calls are ever given the same one, none is     *)
(* ahead of the row, and the call whose version the row carries is the one *)
(* the row names.  The rest follows from it, whatever the owner strings.   *)
Fenced ==
    /\ \A c \in Calls : token[c] <= Version
    /\ \A c \in Calls : pc[c] = "working" => token[c] >= 1
    /\ \A c, d \in Calls : token[c] = token[d] /\ token[c] # 0 => c = d
    /\ \A c \in Calls :
          token[c] = Version /\ lease # NoLease => lease.owner = OwnerOf[c]

(* At most one call can renew or rely on the row at any time: the          *)
(* "singleton" lease of the schedulers, even when two calls pass the same  *)
(* owner string (docs/specs/sprint-49, 5.4).                               *)
AtMostOneHolder ==
    \A c, d \in Calls : Holds(c) /\ Holds(d) => c = d

(* Time a live lease has left is taken away only by the call that holds    *)
(* it, when its work settles: a stale call that wakes up and settles, a    *)
(* late timer or a new claimant never shortens or takes over another's.    *)
OnlyTheHolderEndsALiveLease ==
    [][\A c \in Calls :
          Holds(c) /\ clock' = clock =>
             \/ pc'[c] # "working"
             \/ /\ lease'.version = lease.version
                /\ lease'.expiresAt >= lease.expiresAt]_vars

(* A call that lost the row never regains it: once a later version was     *)
(* granted, or its renewal failed, no renewal by it succeeds again.        *)
LostIsFinal ==
    [][\A c \in Calls :
          pc[c] = "working" /\ (aborted[c] \/ ~Renewable(c)) =>
             ~(pc'[c] = "working" /\ Renewable(c)')]_vars
=============================================================================
