---------------------------- MODULE DiscoveryJobs ----------------------------
(***************************************************************************)
(* How a discovery source is read: ticks of the scheduler, under a lease   *)
(* of their own, enqueue a job for the source, claim it and read its       *)
(* targets page after page from the provider, storing each page with the   *)
(* cursor in one transaction (discovery-scheduler.ts, discovery-jobs.ts,   *)
(* discovery.ts, discovery/paging.ts, discovery/connected-adapters.ts).    *)
(* Ticks of several API processes overlap once a lease has expired under   *)
(* one of them, and users change the source meanwhile.                     *)
(*                                                                         *)
(* One connected source, never deleted; the rows of others are independent *)
(* of it.  Posts of a target are numbered from the oldest.  A provider     *)
(* lists them by publication, with a post as the token of the next page,   *)
(* or, LinkedIn, by their last modification, with a position as the token: *)
(* there an edited post moves to the front.                                *)
(***************************************************************************)
EXTENDS Naturals, FiniteSets

CONSTANTS
    Ticks,      \* calls of runDiscoveryScheduler
    Targets,    \* 1..n, in the order targetsForSource gives them
    Offset,     \* targets listed by last modification, read by position
    Initial,    \* posts a target has to begin with
    PageSize,   \* posts in a page
    MaxPages,   \* pages a job may read
    Nobody,     \* no tick, or one whose process is gone
    MaxPosts, MaxEvents     \* bounds

ASSUME DiscoveryAssumption ==
    /\ IsFiniteSet(Targets) /\ Targets = 1..Cardinality(Targets) /\ Targets # {}
    /\ Offset \subseteq Targets
    /\ {PageSize, MaxPages} \subseteq Nat \ {0} /\ {MaxPosts, MaxEvents} \subseteq Nat
    /\ Initial \in [Targets -> 0..MaxPosts]
    /\ Nobody \notin Ticks

VARIABLES
    posts,      \* per target, its newest post
    deleted,    \* per target, posts the provider no longer shows
    stamps,     \* per target and post, when it was last modified
    edits,      \* per target, how many posts were moved by an edit
    prints,     \* per target, the fingerprint of what it names now
    missing,    \* targets whose tracked account is disabled or deleted
    source,     \* enabled, executionVersion, whether backoffUntil lies ahead
    cursor,     \* cursorJson of the source
    job,        \* the newest row of discovery_jobs for the source
    scheduler,  \* the row "discovery:scheduler" of task_leases
    ticks,      \* per tick, how far it is and what it holds
    found,      \* discovered_items: target, fingerprint it was read under, post
    events      \* faults, edits and posts so far

provider == <<posts, deleted, stamps, edits>>
accounts == <<prints, missing>>
vars == <<provider, accounts, source, cursor, job, scheduler, ticks, found, events>>

(* No post, no token.                                                      *)
None == 0
Active == {"queued", "running"}

(* A checkpoint of a target: continuing is whether there is a continuation, *)
(* token, boundary and newest its parts.                                    *)
Empty(print) ==
    [print |-> print, high |-> None, continuing |-> FALSE, token |-> None,
     boundary |-> None, newest |-> None]

(* What a tick holds; version and own are of the execution of its job.     *)
Idle ==
    [pc |-> "idle", due |-> FALSE, worked |-> FALSE, aborted |-> "no", version |-> 0,
     own |-> [next |-> 1, at |-> [t \in Targets |-> Empty(0)]],
     target |-> 1, pages |-> 0, done |-> {}, refused |-> {}, replayed |-> {},
     code |-> "none"]

Init ==
    /\ posts = Initial /\ deleted = [t \in Targets |-> {}]
    /\ stamps = [t \in Targets |-> [k \in 1 .. MaxPosts |-> k]]
    /\ edits = [t \in Targets |-> 0]
    /\ prints = [t \in Targets |-> 0] /\ missing = {}
    /\ source = [enabled |-> TRUE, version |-> 1, backoff |-> FALSE]
    /\ cursor = [next |-> 1, at |-> [t \in Targets |-> Empty(0)]]
    /\ job = [status |-> "succeeded", version |-> 1, holder |-> Nobody, live |-> FALSE]
    /\ scheduler = [holder |-> Nobody, live |-> FALSE]
    /\ ticks = [c \in Ticks |-> Idle]
    /\ found = {} /\ events = 0

(* What happens only so often: a fault, an edit, a new post.               *)
Event == events < MaxEvents /\ events' = events + 1

(* The owner strings are random, so the owner alone names a claim.         *)
LiveClaim(c) == job.status = "running" /\ job.holder = c /\ job.live
Leads(c) == scheduler.holder = c /\ scheduler.live

(***************************************************************************)
(* The tick.                                                               *)
(***************************************************************************)

(* A call that gets the lease lists the sources; one that does not answers *)
(* busy.  The list is not read again before it is used.                    *)
Begin(c) ==
    /\ ticks[c].pc = "idle" /\ ~scheduler.live
    /\ scheduler' = [holder |-> c, live |-> TRUE]
    /\ ticks' = [ticks EXCEPT ![c].pc = "listed",
                              ![c].due = source.enabled /\ ~source.backoff]
    /\ UNCHANGED <<provider, accounts, source, cursor, job, found, events>>

(* enqueueDueDiscoveryJobs; the unique index admits one active row.        *)
Enqueue(c) ==
    /\ ticks[c].pc = "listed"
    /\ job' = IF ticks[c].due /\ job.status \notin Active
              THEN [status |-> "queued", version |-> source.version,
                    holder |-> Nobody, live |-> FALSE]
              ELSE job
    /\ ticks' = [ticks EXCEPT ![c].pc = "claiming", ![c].due = FALSE]
    /\ UNCHANGED <<provider, accounts, source, cursor, scheduler, found, events>>

Claimable == job.status = "queued" \/ (job.status = "running" /\ ~job.live)

Claim(c) ==
    /\ ticks[c].pc = "claiming" /\ ticks[c].aborted # "tick" /\ Claimable
    /\ job' = [job EXCEPT !.status = "running", !.holder = c, !.live = TRUE]
    /\ ticks' = [ticks EXCEPT ![c].pc = "claimed", ![c].version = job.version]
    /\ UNCHANGED <<provider, accounts, source, cursor, scheduler, found, events>>

(* Nothing to claim, no lease or no time left: the tick ends and releases  *)
(* its lease.  The first claim is never short of time.                     *)
End(c) ==
    /\ ticks[c].pc = "claiming"
    /\ ticks[c].aborted = "tick" \/ ticks[c].worked \/ ~Claimable
    /\ ticks' = [ticks EXCEPT ![c] = Idle]
    /\ scheduler' = IF scheduler.holder = c THEN [holder |-> Nobody, live |-> FALSE]
                    ELSE scheduler
    /\ UNCHANGED <<provider, accounts, source, cursor, job, found, events>>

(***************************************************************************)
(* One job.                                                                *)
(***************************************************************************)

(* reconcileTargets keeps the checkpoints whose fingerprint is current.    *)
Reconciled(c) ==
    [c EXCEPT !.at = [t \in Targets |-> IF @[t].print = prints[t] THEN @[t]
                                        ELSE Empty(prints[t])]]

(* Mutant of Successor: the turn stays with the target that was read.      *)
SameTarget(t) == t

Successor(t) == (t % Cardinality(Targets)) + 1

(* The next target in turn that is not done yet.                           *)
InTurn(x) ==
    CHOOSE t \in Targets \ x.done :
        \A u \in Targets \ x.done :
            LET Distance(v) == (v + Cardinality(Targets) - x.own.next) % Cardinality(Targets)
            IN  Distance(t) <= Distance(u)

(* Of what the execution was doing only the code is left.                  *)
Ending(x, code) ==
    [x EXCEPT !.pc = "ending", !.code = code, !.target = 1, !.pages = 0,
              !.done = {}, !.refused = {}, !.replayed = {}]

(* The top of the loop: what ends the execution, or the page it asks for.  *)
Looping(x) ==
    CASE x.done = Targets ->
            Ending(x, IF x.refused = Targets THEN "failed" ELSE "completed")
      [] x.done # Targets /\ x.aborted # "no" -> Ending(x, "quiet")
      [] x.done # Targets /\ x.aborted = "no" /\ x.pages >= MaxPages -> Ending(x, "failed")
      [] OTHER -> [x EXCEPT !.pc = "reading", !.target = InTurn(x)]

(* The source is read after the claim; a job queued for another version    *)
(* fails, and so does one with a target whose account is missing, before   *)
(* anything is read of the others.  The accounts behind the targets are    *)
(* resolved with its first page.  Its other budgets (calls, of which the   *)
(* resolution spends some, bytes, items, time) may allow it fewer pages    *)
(* than MaxPages, but one at least.                                        *)
Open(c) ==
    LET x == ticks[c] IN
    /\ x.pc = "claimed"
    /\ \E spent \in 0 .. MaxPages - 1 :
       \E on \in {[x EXCEPT !.own = Reconciled(cursor), !.pages = spent]} :
          ticks' = [ticks EXCEPT ![c] =
             IF source.version # x.version THEN Ending(x, "quiet")
             ELSE IF missing # {} THEN Ending(x, "failed")
             ELSE Looping(on)]
    /\ UNCHANGED <<provider, accounts, source, cursor, job, scheduler, found, events>>

(* Post i stands before post k in the list of a target, which for all but  *)
(* the targets in Offset is the order of publication.                      *)
Ahead(t, i, k) == stamps[t][i] > stamps[t][k]

(* What the provider shows from a token on: the token counts the posts of  *)
(* the list to leave out, or is the newest post to show.                   *)
Shown(t) == 1..posts[t] \ deleted[t]
Before(t, k) == {i \in Shown(t) : Ahead(t, i, k)}
From(t, token) ==
    IF token = None THEN Shown(t)
    ELSE IF t \in Offset THEN {k \in Shown(t) : Cardinality(Before(t, k)) >= token}
    ELSE {k \in Shown(t) : k <= token}

(* newestItem compares publishedAt, whichever the order of the list.       *)
Newest(S) == CHOOSE k \in S : \A i \in S : i <= k

(* The watermark to read down to.                                          *)
Boundary(cp) == IF cp.boundary # None THEN cp.boundary ELSE cp.high

(* A page: the first posts of the list from the token on, cut off where    *)
(* the boundary stands among them, and the token of the next.              *)
Page(t, cp) ==
    LET from == From(t, cp.token)
        whole == {k \in from : Cardinality({i \in from : Ahead(t, i, k)}) < PageSize}
        rest == from \ whole
        reached == Boundary(cp) \in whole
    IN  [items |-> {k \in whole : reached => Ahead(t, k, Boundary(cp))},
         token |-> IF rest = {} THEN None
                   ELSE IF t \in Offset THEN cp.token + PageSize ELSE Newest(rest),
         complete |-> reached \/ rest = {}]

(* Mutant of Checkpointed: the watermark moves with the first page.        *)
CheckpointedAtOnce(cp, page) ==
    LET newest == IF page.items # {} THEN Newest(page.items) ELSE cp.high
    IN  IF page.complete THEN [Empty(cp.print) EXCEPT !.high = newest]
        ELSE [cp EXCEPT !.high = newest, !.continuing = TRUE, !.token = page.token,
                        !.boundary = cp.high, !.newest = newest]

(* checkpointPage: the watermark moves, to the newest post of the first    *)
(* page, once the old watermark or the end of the target is reached.       *)
Checkpointed(cp, page) ==
    LET newest == IF cp.newest # None THEN cp.newest
                  ELSE IF page.items # {} THEN Newest(page.items) ELSE None
    IN  IF page.complete
        THEN [Empty(cp.print) EXCEPT !.high = IF newest # None THEN newest ELSE cp.high]
        ELSE [cp EXCEPT !.continuing = TRUE, !.token = page.token, !.newest = newest,
                        !.boundary = Boundary(cp)]

(* Mutants of Admitted: the target of the page is not compared with the    *)
(* one of now, or the claim is not looked at.                              *)
AdmittedForVersion(c, t) == LiveClaim(c) /\ source.version = ticks[c].version
AdmittedWithoutClaim(c, t) ==
    source.version = ticks[c].version /\ prints[t] = ticks[c].own.at[t].print

(* The fences of persistDiscoveryPage.                                     *)
Admitted(c, t) ==
    /\ LiveClaim(c)
    /\ source.version = ticks[c].version
    /\ missing = {}
    /\ prints[t] = ticks[c].own.at[t].print

(* The execution after a page: its target has had its turn.                *)
Advanced(x, page) ==
    LET t == x.target
        own == [next |-> Successor(t),
                at |-> [x.own.at EXCEPT ![t] = Checkpointed(x.own.at[t], page)]]
        done == IF page.complete THEN x.done \cup {t} ELSE x.done
    IN  [x EXCEPT !.own = own, !.pages = x.pages + 1, !.done = done]

(* Its page is stored with the cursor it leads to.                         *)
Stored(c, x, page, on) ==
    /\ found' = found \cup {<<x.target, x.own.at[x.target].print, k>> : k \in page.items}
    /\ cursor' = on.own
    /\ source' = [source EXCEPT !.backoff = FALSE]
    /\ ticks' = [ticks EXCEPT ![c] = Looping(on)]

(* A page arrives and is stored, or fenced off.                            *)
Arrive(c) ==
    LET x == ticks[c] IN
    /\ x.pc = "reading"
    /\ \E page \in {Page(x.target, x.own.at[x.target])} :
       \E on \in {Advanced(x, page)} :
          IF Admitted(c, x.target) THEN Stored(c, x, page, on)
          ELSE /\ ticks' = [ticks EXCEPT ![c] = Ending(x, "quiet")]
               /\ UNCHANGED <<found, cursor, source>>
    /\ UNCHANGED <<provider, accounts, job, scheduler, events>>

(* persistPermissionCheckpoint looks at the claim and the version only.    *)
Noted(c, x) ==
    IF LiveClaim(c) /\ source.version = x.version
    THEN cursor' = x.own /\ ticks' = [ticks EXCEPT ![c] = Looping(x)]
    ELSE ticks' = [ticks EXCEPT ![c] = Ending(x, "quiet")] /\ UNCHANGED cursor

Restarted(cp) == [Empty(cp.print) EXCEPT !.high = cp.high]

(* The provider rejects the token: once per target the execution starts    *)
(* over from the newest page, a second time it fails.                      *)
Reject(c) ==
    LET x == ticks[c]
        t == x.target
    IN
    /\ x.pc = "reading" /\ x.own.at[t].continuing
    /\ \/ /\ t \in x.replayed
          /\ ticks' = [ticks EXCEPT ![c] = Ending(x, "failed")]
          /\ UNCHANGED <<cursor, events>>
       \/ /\ t \notin x.replayed /\ Event
          /\ Noted(c, [x EXCEPT !.replayed = @ \cup {t}, !.own.next = t,
                                !.own.at[t] = Restarted(@)])
    /\ UNCHANGED <<provider, accounts, source, job, scheduler, found>>

(* The provider refuses the target; the others are read all the same.      *)
Refuse(c) ==
    LET x == ticks[c]
        t == x.target
    IN
    /\ x.pc = "reading" /\ Event
    /\ Noted(c, [x EXCEPT !.done = @ \cup {t}, !.refused = @ \cup {t},
                          !.own.next = Successor(t), !.own.at[t] = Restarted(@)])
    /\ UNCHANGED <<provider, accounts, source, job, scheduler, found>>

(* The call fails: aborted, throttled, or for any other reason.            *)
Break(c) ==
    LET x == ticks[c] IN
    /\ x.pc = "reading"
    /\ \/ /\ x.aborted # "no"
          /\ ticks' = [ticks EXCEPT ![c] = Ending(x, "quiet")]
          /\ UNCHANGED events
       \/ /\ x.aborted = "no" /\ Event
          /\ \E code \in {"rate_limited", "failed"} :
                ticks' = [ticks EXCEPT ![c] = Ending(x, code)]
    /\ UNCHANGED <<provider, accounts, source, cursor, job, scheduler, found>>

(* writeSourceFailure, fenced by the version alone, not by the claim.      *)
(* lastError and status, which only people read, are left out.             *)
AfterFailure(x) ==
    IF x.code = "rate_limited" /\ source.version = x.version
    THEN [source EXCEPT !.backoff = TRUE] ELSE source

(* The end of the job, fenced by the claim.                                *)
Settle(c) ==
    LET x == ticks[c] IN
    /\ x.pc = "ending"
    /\ source' = AfterFailure(x)
    /\ job' = IF LiveClaim(c)
              THEN [job EXCEPT !.status = IF x.code = "completed" THEN "succeeded"
                                          ELSE "failed",
                               !.holder = Nobody, !.live = FALSE]
              ELSE job
    /\ ticks' = [ticks EXCEPT ![c] = [Idle EXCEPT !.pc = "claiming", !.worked = TRUE,
           !.aborted = IF x.aborted = "tick" THEN "tick" ELSE "no"]]
    /\ UNCHANGED <<provider, accounts, cursor, scheduler, found, events>>

(***************************************************************************)
(* Leases, processes, users and the provider.                              *)
(***************************************************************************)

(* A renewal of either lease fails, and the reading is aborted.            *)
Notice(c) ==
    /\ ticks[c].aborted = "no"
    /\ \/ /\ ticks[c].pc \notin {"idle", "listed"} /\ ~Leads(c)
          /\ ticks' = [ticks EXCEPT ![c].aborted = "tick"]
       \/ /\ ticks[c].pc = "reading" /\ Leads(c) /\ ~LiveClaim(c)
          /\ ticks' = [ticks EXCEPT ![c].aborted = "job"]
    /\ UNCHANGED <<provider, accounts, source, cursor, job, scheduler, found, events>>

JobLapsed == [job EXCEPT !.live = FALSE]
SchedulerLapsed == [scheduler EXCEPT !.live = FALSE]

(* The leases of a process that is gone expire.                            *)
Expire ==
    /\ \/ job.status = "running" /\ job.live /\ job.holder = Nobody
          /\ job' = JobLapsed /\ UNCHANGED scheduler
       \/ scheduler.live /\ scheduler.holder = Nobody
          /\ scheduler' = SchedulerLapsed /\ UNCHANGED job
    /\ UNCHANGED <<provider, accounts, source, cursor, ticks, found, events>>

(* A process stalls past the renewal of its tick's lease, its job's, or    *)
(* both.                                                                   *)
Stall(c) ==
    /\ Event
    /\ job' \in {job, IF LiveClaim(c) THEN JobLapsed ELSE job}
    /\ scheduler' \in {scheduler, IF Leads(c) THEN SchedulerLapsed ELSE scheduler}
    /\ <<job', scheduler'>> # <<job, scheduler>>
    /\ UNCHANGED <<provider, accounts, source, cursor, ticks, found>>

Shutdown(c) ==
    /\ ticks[c].pc # "idle" /\ ticks[c].aborted # "tick" /\ Event
    /\ ticks' = [ticks EXCEPT ![c].aborted = "tick"]
    /\ UNCHANGED <<provider, accounts, source, cursor, job, scheduler, found>>

Crash(c) ==
    /\ ticks[c].pc # "idle" /\ Event
    /\ ticks' = [ticks EXCEPT ![c] = Idle]
    /\ job' = [job EXCEPT !.holder = IF @ = c THEN Nobody ELSE @]
    /\ scheduler' = [scheduler EXCEPT !.holder = IF @ = c THEN Nobody ELSE @]
    /\ UNCHANGED <<provider, accounts, source, cursor, found>>

(* updateDiscoverySource skips the job that is queued or under way.        *)
Withdrawn ==
    IF job.status \in Active
    THEN [job EXCEPT !.status = "skipped", !.holder = Nobody, !.live = FALSE] ELSE job

Changed(S) == [t \in Targets |-> prints[t] + (IF t \in S THEN 1 ELSE 0)]

Invalidated == source' = [source EXCEPT !.version = @ + 1] /\ job' = Withdrawn

(* A user switches the source on or off, or has it name other things; any  *)
(* edit lifts the backoff.  None is accepted while the source names an     *)
(* account that is missing.                                                *)
Update ==
    /\ Event
    /\ \/ /\ missing = {} /\ UNCHANGED accounts
          /\ source' = [enabled |-> ~source.enabled, version |-> source.version + 1,
                        backoff |-> FALSE]
          /\ job' = Withdrawn
       \/ /\ source' = [source EXCEPT !.version = @ + 1, !.backoff = FALSE]
          /\ job' = Withdrawn
          /\ \E S \in (SUBSET Targets) \ {{}} :
                missing \subseteq S /\ prints' = Changed(S) /\ missing' = {}
       \/ /\ missing = {} /\ UNCHANGED <<accounts, job>>
          /\ source' = [source EXCEPT !.backoff = FALSE] /\ source.backoff
    /\ UNCHANGED <<provider, cursor, scheduler, ticks, found>>

(* A tracked account is edited, or resolved again: its fingerprint holds   *)
(* updatedAt and changes.  Another handle also invalidates the source.     *)
EditAccount(t) ==
    /\ Event
    /\ prints' = Changed({t})
    /\ UNCHANGED <<source, job>> \/ Invalidated
    /\ UNCHANGED <<provider, missing, cursor, scheduler, ticks, found>>

(* An account is disabled or deleted, or enabled again.                    *)
SwitchAccount(t) ==
    /\ Event
    /\ missing' = IF t \in missing THEN missing \ {t} ELSE missing \cup {t}
    /\ prints' = Changed({t})
    /\ Invalidated
    /\ UNCHANGED <<provider, cursor, scheduler, ticks, found>>

(* The provider: a post is published, deleted, or edited, which matters    *)
(* where it thereby moves to the front of the list.                        *)
Post(t) ==
    /\ posts[t] < MaxPosts /\ Event
    /\ posts' = [posts EXCEPT ![t] = @ + 1]
    /\ stamps' = [stamps EXCEPT ![t][posts[t] + 1] = posts[t] + edits[t] + 1]
    /\ UNCHANGED <<deleted, edits, accounts, source, cursor, job, scheduler, ticks, found>>

Delete(t) ==
    /\ Event
    /\ \E k \in Shown(t) : deleted' = [deleted EXCEPT ![t] = @ \cup {k}]
    /\ UNCHANGED <<posts, stamps, edits, accounts, source, cursor, job, scheduler, ticks,
                   found>>

Edit(t) ==
    /\ t \in Offset /\ Event
    /\ edits' = [edits EXCEPT ![t] = @ + 1]
    /\ \E k \in Shown(t) :
          /\ Before(t, k) # {}
          /\ stamps' = [stamps EXCEPT ![t][k] = posts[t] + edits[t] + 1]
    /\ UNCHANGED <<posts, deleted, accounts, source, cursor, job, scheduler, ticks, found>>

(* backoffUntil passes.                                                    *)
Relent ==
    /\ source.backoff
    /\ source' = [source EXCEPT !.backoff = FALSE]
    /\ UNCHANGED <<provider, accounts, cursor, job, scheduler, ticks, found, events>>

(***************************************************************************)
(* The specification.                                                      *)
(***************************************************************************)

Work(c) ==
    \/ Enqueue(c) \/ Claim(c) \/ End(c)
    \/ Open(c) \/ Arrive(c) \/ Break(c) \/ Settle(c)

Next ==
    \/ \E c \in Ticks : Begin(c) \/ Work(c) \/ Notice(c) \/ Reject(c) \/ Refuse(c)
    \/ Expire
    \/ \E c \in Ticks : Stall(c) \/ Shutdown(c) \/ Crash(c)
    \/ Update
    \/ \E t \in Targets : EditAccount(t) \/ SwitchAccount(t)
    \/ \E t \in Targets : Post(t) \/ Delete(t) \/ Edit(t)
    \/ Relent

(* Fairness: the worker keeps asking for ticks, a tick that has begun goes *)
(* on and its calls are answered, time lets leases and backoffs run out.   *)
(* Nothing is assumed of faults, users or posts.                           *)
Spec ==
    /\ Init /\ [][Next]_vars
    /\ WF_vars(\E c \in Ticks : Begin(c))
    /\ \A c \in Ticks : WF_vars(Work(c))
    /\ WF_vars(Expire)
    /\ WF_vars(Relent)

(***************************************************************************)
(* Properties.                                                             *)
(***************************************************************************)

(* Whatever a target shows up to its watermark has been stored.            *)
Traversed(t) ==
    \A k \in 1..cursor.at[t].high \ deleted[t] : <<t, cursor.at[t].print, k>> \in found

(* The posts of a target keep their places in the list.                    *)
Steady(t) == t \in Offset => deleted[t] = {} /\ edits[t] = 0

(* No post is skipped: whatever a target shows up to its watermark has     *)
(* been stored, although tokens expire, targets are refused, posts appear  *)
(* and vanish between pages and executions die half way.  A target read by *)
(* position loses a post when another is deleted or edited between two     *)
(* pages, or the post of its watermark is edited before the next reading.  *)
NothingMissed == \A t \in Targets : Steady(t) => Traversed(t)

(* The execution that may write the cursor works from the stored one: no   *)
(* other execution, of this tick or another, has moved it since.           *)
CursorIsCurrent ==
    \A c \in Ticks :
        LiveClaim(c) /\ ticks[c].pc = "reading" /\ ticks[c].version = source.version =>
            \A t \in Targets :
                ticks[c].own.at[t] \in {cursor.at[t], Empty(ticks[c].own.at[t].print)}

(* Nothing is stored for what a target no longer names: a call still under *)
(* way when its account or its source is edited leaves no post behind.     *)
NoStaleResults ==
    [][\A f \in found' \ found : f[2] = prints[f[1]]]_vars

(* A source that stays on, with all the accounts it names, is read up to   *)
(* date in the end, whichever process dies, stalls or is refused on the    *)
(* way, and however small the page budget is for the number of targets.    *)
CaughtUp ==
    \A t \in Targets :
        Steady(t) => \A k \in Shown(t) : <<t, prints[t], k>> \in found
Readable == source.enabled /\ missing = {}
EveryPostIsFound == Readable ~> (CaughtUp \/ ~Readable)
=============================================================================
