------------------------- MODULE DiscoveryJobsProofs -------------------------
(***************************************************************************)
(* What the discovery jobs guarantee of a source for any number of ticks,  *)
(* targets, posts and pages.                                               *)
(***************************************************************************)
EXTENDS DiscoveryJobs, FiniteSetTheorems, WellFoundedInduction, TLAPS

Checkpoint ==
    [print : Nat, high : Nat, continuing : BOOLEAN, token : Nat, boundary : Nat, newest : Nat]
Checkpoints == [Targets -> Checkpoint]
Cursor == [next : Targets, at : Checkpoints]
Tick ==
    [pc : {"idle", "listed", "claiming", "claimed", "reading", "ending"},
     due : BOOLEAN, worked : BOOLEAN, aborted : {"no", "tick", "job"}, version : Nat,
     own : Cursor, target : Targets, pages : Nat,
     done : SUBSET Targets, refused : SUBSET Targets, replayed : SUBSET Targets,
     code : {"none", "quiet", "completed", "failed", "rate_limited"}]

DiscoveryTypeOK ==
    /\ posts \in [Targets -> Nat] /\ deleted \in [Targets -> SUBSET Nat]
    /\ stamps \in [Targets -> [1 .. MaxPosts -> Nat]] /\ edits \in [Targets -> Nat]
    /\ \A t \in Targets : posts[t] <= MaxPosts /\ (t \notin Offset => edits[t] = 0)
    /\ \A t \in Targets : \A k \in 1 .. posts[t] : edits[t] = 0 => stamps[t][k] = k
    /\ prints \in [Targets -> Nat] /\ missing \in SUBSET Targets
    /\ source \in [enabled : BOOLEAN, version : Nat, backoff : BOOLEAN]
    /\ cursor \in Cursor
    /\ job \in [status : {"queued", "running", "succeeded", "failed", "skipped"},
                version : Nat, holder : Ticks \cup {Nobody}, live : BOOLEAN]
    /\ scheduler \in [holder : Ticks \cup {Nobody}, live : BOOLEAN]
    /\ ticks \in [Ticks -> Tick]
    /\ events \in Nat

(* A checkpoint of target t claims no more than what is stored: everything *)
(* up to its watermark and, between the watermark and the newest post of   *)
(* the first page, all but what the next page has.                         *)
Sound(t, cp) ==
    /\ cp.high <= posts[t]
    /\ \A k \in 1 .. cp.high \ deleted[t] : <<t, cp.print, k>> \in found
    /\ cp.continuing =>
          /\ cp.boundary = cp.high /\ cp.newest # None /\ cp.newest <= posts[t]
          /\ \A k \in (cp.high + 1) .. cp.newest \ deleted[t] :
                <<t, cp.print, k>> \in found \/ k \in From(t, cp.token)
    /\ ~cp.continuing => cp.token = None /\ cp.boundary = None /\ cp.newest = None

SoundCursor == \A t \in Targets : Steady(t) => Sound(t, cursor.at[t])
SoundTicks ==
    \A c \in Ticks, t \in Targets : Steady(t) => Sound(t, ticks[c].own.at[t])

(* What the call that holds the claim works from is what is stored.        *)
HolderIsCurrent ==
    \A c \in Ticks : LiveClaim(c) /\ ticks[c].pc = "reading" =>
        \A t \in Targets :
            ticks[c].own.at[t] \in {cursor.at[t], Empty(ticks[c].own.at[t].print)}

(* Posts only appear, vanish and are edited.                               *)
Grows(t) == posts[t] <= posts'[t] /\ deleted[t] \subseteq deleted'[t] /\ edits[t] <= edits'[t]

DiscoveryInv == DiscoveryTypeOK /\ SoundCursor /\ SoundTicks /\ HolderIsCurrent

(***************************************************************************)
(* Lemmas about the operators of the model.                                *)
(***************************************************************************)

(* What the assumptions say of targets and pages.                          *)
LEMMA TargetsFacts ==
  /\ Cardinality(Targets) \in Nat \ {0} /\ Targets = 1 .. Cardinality(Targets) /\ 1 \in Targets
  /\ \A t \in Targets : t \in Nat /\ Successor(t) \in Targets
  /\ PageSize \in Nat \ {0} /\ MaxPages \in Nat \ {0}
  /\ Initial \in [Targets -> Nat]
<1>1. /\ Cardinality(Targets) \in Nat /\ Targets = 1 .. Cardinality(Targets) /\ Targets # {}
      /\ PageSize \in Nat \ {0} /\ MaxPages \in Nat \ {0}
  BY DiscoveryAssumption, FS_CardinalityType
<1>2. PICK n : n = Cardinality(Targets)
  OBVIOUS
<1>3. n \in Nat \ {0} /\ Targets = 1 .. n
  BY <1>1, <1>2
<1>4. \A t \in Targets : t \in Nat /\ (t % n) + 1 \in Targets
  BY <1>3
<1>5. Initial \in [Targets -> Nat]
  <2>1. MaxPosts \in Nat /\ Initial \in [Targets -> 0 .. MaxPosts]
    BY DiscoveryAssumption
  <2> QED
    BY <2>1
<1>6. \A t \in Targets : t \in Nat /\ Successor(t) \in Targets
  BY <1>2, <1>4, Zenon DEF Successor
<1>7. Cardinality(Targets) \in Nat \ {0} /\ 1 \in Targets
  <2>1. 1 \in Targets
    BY <1>3
  <2>2. Cardinality(Targets) \in Nat \ {0}
    BY <1>2, <1>3, Zenon
  <2> QED
    BY <2>1, <2>2
<1> QED
  BY <1>1, <1>5, <1>6, <1>7

(* A set of natural numbers has a least element.                           *)
LEMMA LeastIs ==
  ASSUME NEW S \in SUBSET Nat, S # {}
  PROVE  \E x \in S : \A y \in S : x <= y
<1>1. PICK x \in S : \A y \in S : ~ (<<y, x>> \in OpToRel(<, Nat))
  BY WFMin, NatLessThanWellFounded, Zenon
<1>2. ASSUME NEW y \in S, ~(x <= y) PROVE FALSE
  <2>1. <<y, x>> \in Nat \X Nat /\ <<y, x>>[1] < <<y, x>>[2]
    BY <1>2
  <2>2. <<y, x>> \in OpToRel(<, Nat)
    BY <2>1 DEF OpToRel
  <2> QED
    BY <1>1, <2>2
<1> QED
  BY <1>2

(* The newest of some posts.                                               *)
LEMMA NewestIs ==
  ASSUME NEW n \in Nat, NEW S \in SUBSET (1 .. n), S # {}
  PROVE  Newest(S) \in S /\ \A k \in S : k <= Newest(S)
<1> DEFINE gaps == {n - k : k \in S}
<1>1. \A k \in S : k \in Nat /\ n - k \in Nat
  OBVIOUS
<1>2. gaps \subseteq Nat /\ gaps # {}
  BY <1>1
<1>3. PICK g \in gaps : \A h \in gaps : g <= h
  <2> HIDE DEF gaps
  <2> QED
    BY <1>2, LeastIs
<1>4. PICK k \in S : g = n - k
  BY <1>3
<1>5. \A i \in S : i <= k
  <2> SUFFICES ASSUME NEW i \in S PROVE i <= k
    OBVIOUS
  <2>1. g <= n - i
    BY <1>3
  <2> QED
    BY <1>1, <1>4, <2>1
<1> QED
  BY <1>4, <1>5 DEF Newest

(* The target that is next in turn is one that is not done.                *)
LEMMA InTurnIs ==
  ASSUME NEW x \in Tick, x.done # Targets
  PROVE  InTurn(x) \in Targets
<1> DEFINE n == Cardinality(Targets)
           Far(v) == (v + n - x.own.next) % n
           S == Targets \ x.done
           D == {Far(v) : v \in S}
<1>1. x.done \subseteq Targets /\ x.own.next \in Targets
  BY DEF Tick, Cursor
<1>2. \A v \in S : Far(v) \in Nat
  BY <1>1, TargetsFacts
<1>3. S # {}
  BY <1>1
<1>4. D \subseteq Nat /\ D # {}
  BY <1>2, <1>3
<1>5. PICK d \in D : \A e \in D : d <= e
  <2> HIDE DEF D
  <2> QED
    BY <1>4, LeastIs
<1>6. PICK t \in S : d = Far(t)
  BY <1>5
<1>7. \A u \in S : Far(t) <= Far(u)
  BY <1>5, <1>6
<1>8. InTurn(x) = CHOOSE v \in S : \A u \in S : Far(v) <= Far(u)
  BY DEF InTurn
<1> HIDE DEF Far, D
<1> QED
  BY <1>7, <1>8

(* A call goes on with what it has read.                                   *)
LEMMA EndingIs ==
  ASSUME NEW x \in Tick, NEW code \in {"quiet", "completed", "failed", "rate_limited"}
  PROVE  /\ Ending(x, code) \in Tick /\ Ending(x, code).pc = "ending"
         /\ Ending(x, code).own = x.own /\ Ending(x, code).version = x.version
<1>1. /\ 1 \in Targets /\ {} \in SUBSET Targets
  BY TargetsFacts
<1> QED
  BY <1>1 DEF Ending, Tick

(* So it does at the top of its loop, whichever way it goes from there.    *)
LEMMA LoopingIs ==
  ASSUME NEW x \in Tick
  PROVE  Looping(x) \in Tick /\ Looping(x).own = x.own /\ Looping(x).version = x.version
<1>1. CASE x.done = Targets
  <2>1. Looping(x) = Ending(x, IF x.refused = Targets THEN "failed" ELSE "completed")
    BY <1>1 DEF Looping
  <2>2. CASE x.refused = Targets
    BY <2>1, <2>2, EndingIs
  <2>3. CASE x.refused # Targets
    BY <2>1, <2>3, EndingIs
  <2> QED
    BY <2>2, <2>3
<1>2. CASE x.done # Targets
  <2>1. CASE x.aborted # "no"
    <3>1. Looping(x) = Ending(x, "quiet")
      BY <1>2, <2>1 DEF Looping
    <3> QED
      BY <3>1, EndingIs
  <2>2. CASE x.aborted = "no" /\ x.pages >= MaxPages
    <3>1. Looping(x) = Ending(x, "failed")
      BY <1>2, <2>2 DEF Looping
    <3> QED
      BY <3>1, EndingIs
  <2>3. CASE x.aborted = "no" /\ ~(x.pages >= MaxPages)
    <3>1. Looping(x) = [x EXCEPT !.pc = "reading", !.target = InTurn(x)]
      BY <1>2, <2>3 DEF Looping
    <3>2. InTurn(x) \in Targets
      BY <1>2, InTurnIs
    <3> QED
      BY <3>1, <3>2 DEF Tick
  <2> QED
    BY <2>1, <2>2, <2>3
<1> QED
  BY <1>1, <1>2


(***************************************************************************)
(* What a page has, and what is known of a target after it.                *)
(***************************************************************************)

(* The posts that a target shows from a token on, and those of a page.     *)
FromOf(t, cp) == From(t, cp.token)
WholeOf(t, cp) ==
    {k \in FromOf(t, cp) : Cardinality({i \in FromOf(t, cp) : Ahead(t, i, k)}) < PageSize}

(* What a target shows, from a token on too, are some of its posts.        *)
LEMMA ShownIs ==
  ASSUME DiscoveryTypeOK, NEW t \in Targets, NEW token
  PROVE  /\ posts[t] \in Nat /\ Shown(t) \subseteq 1 .. posts[t] /\ IsFiniteSet(Shown(t))
         /\ From(t, token) \subseteq Shown(t)
<1>1. posts[t] \in Nat /\ Shown(t) \subseteq 1 .. posts[t]
  BY DEF DiscoveryTypeOK, Shown
<1>2. IsFiniteSet(1 .. posts[t])
  BY <1>1, FS_Interval
<1> QED
  BY <1>1, <1>2, FS_Subset DEF From

(* As long as no post is edited, the list is in the order of publication.  *)
LEMMA AheadIs ==
  ASSUME DiscoveryTypeOK, NEW t \in Targets, Steady(t)
  PROVE  /\ edits[t] = 0
         /\ \A i, k \in 1 .. posts[t] : Ahead(t, i, k) <=> i > k
<1>1. edits[t] = 0
  BY DEF DiscoveryTypeOK, Steady
<1>2. \A k \in 1 .. posts[t] : stamps[t][k] = k
  BY <1>1 DEF DiscoveryTypeOK
<1> QED
  BY <1>1, <1>2 DEF Ahead

(* A page has some of them, in such a list the newest, and at least one if *)
(* there is one.                                                           *)
LEMMA WholeIs ==
  ASSUME DiscoveryTypeOK, NEW t \in Targets, NEW cp,
         NEW from, from = FromOf(t, cp), NEW whole, whole = WholeOf(t, cp)
  PROVE  /\ from \subseteq 1 .. posts[t] /\ from \subseteq Shown(t) /\ whole \subseteq from
         /\ Steady(t) =>
               /\ whole = {k \in from : Cardinality({i \in from : i > k}) < PageSize}
               /\ \A k \in whole, i \in from : i > k => i \in whole
               /\ from # {} => whole # {}
<1>1. from \subseteq 1 .. posts[t] /\ from \subseteq Shown(t) /\ IsFiniteSet(Shown(t)) /\ posts[t] \in Nat
  BY ShownIs DEF FromOf
<1>2. IsFiniteSet(from)
  BY <1>1, FS_Subset
<1>0. whole = {k \in from : Cardinality({i \in from : Ahead(t, i, k)}) < PageSize}
  BY DEF WholeOf
<1> SUFFICES ASSUME Steady(t)
             PROVE  /\ whole = {k \in from : Cardinality({i \in from : i > k}) < PageSize}
                    /\ \A k \in whole, i \in from : i > k => i \in whole
                    /\ from # {} => whole # {}
  BY <1>0, <1>1
<1>3. whole = {k \in from : Cardinality({i \in from : i > k}) < PageSize}
  <2>1. ASSUME NEW k \in from PROVE {i \in from : Ahead(t, i, k)} = {i \in from : i > k}
    BY <1>1, AheadIs
  <2> QED
    BY <1>0, <2>1
<1>4. ASSUME NEW k \in whole, NEW i \in from, i > k PROVE i \in whole
  <2> DEFINE A == {j \in from : j > i}
             B == {j \in from : j > k}
  <2>1. A \in SUBSET B
    BY <1>1, <1>3, <1>4
  <2>2. IsFiniteSet(B) /\ IsFiniteSet(A)
    <3>1. A \in SUBSET from /\ B \in SUBSET from
      OBVIOUS
    <3> QED
      BY <1>2, <3>1, FS_Subset
  <2>3. Cardinality(A) \in Nat /\ Cardinality(B) \in Nat /\ Cardinality(A) <= Cardinality(B)
    BY <2>1, <2>2, FS_Subset, FS_CardinalityType
  <2>4. Cardinality(B) < PageSize
    BY <1>3
  <2>5. Cardinality(A) < PageSize
    BY <2>3, <2>4, TargetsFacts
  <2> QED
    BY <1>3, <2>5
<1>5. ASSUME from # {} PROVE whole # {}
  <2>1. PICK k : k \in from /\ \A i \in from : i <= k
    BY <1>1, <1>5, NewestIs
  <2>2. {i \in from : i > k} = {}
    BY <1>1, <2>1
  <2>3. Cardinality({i \in from : i > k}) = 0
    BY <2>2, FS_EmptySet
  <2> QED
    BY <1>3, <2>1, <2>3, TargetsFacts
<1> QED
  BY <1>1, <1>3, <1>4, <1>5

(* How many numbers there are between two.                                 *)
LEMMA BetweenIs ==
  ASSUME NEW a \in Int, NEW b \in Int, a <= b, NEW S, S = (a + 1) .. b
  PROVE  Cardinality(S) = b - a
<1>1. PICK c : c = a + 1
  OBVIOUS
<1>2. c \in Int /\ S = c .. b
  BY <1>1
<1>3. Cardinality(c .. b) = IF c > b THEN 0 ELSE b - c + 1
  BY <1>2, FS_Interval
<1> QED
  BY <1>1, <1>2, <1>3

(* The next token shows no less than the rest of the page.                 *)
LEMMA RestIsNext ==
  ASSUME DiscoveryTypeOK, NEW t \in Targets, Steady(t), NEW cp \in Checkpoint,
         NEW from, from = FromOf(t, cp), NEW whole, whole = WholeOf(t, cp),
         NEW token, token = (IF t \in Offset THEN cp.token + PageSize ELSE Newest(from \ whole)),
         NEW k \in from \ whole
  PROVE  k \in From(t, token)
<1>1. /\ from \subseteq 1 .. posts[t] /\ from \subseteq Shown(t) /\ whole \subseteq from
      /\ posts[t] \in Nat /\ cp.token \in Nat /\ PageSize \in Nat \ {0}
  <2>1. from \subseteq 1 .. posts[t] /\ from \subseteq Shown(t) /\ whole \subseteq from
    BY WholeIs
  <2>2. posts[t] \in Nat /\ cp.token \in Nat /\ PageSize \in Nat \ {0}
    BY ShownIs, TargetsFacts DEF Checkpoint
  <2> QED
    BY <2>1, <2>2
<1>2. CASE t \notin Offset
  <2>1. from \ whole \in SUBSET (1 .. posts[t]) /\ from \ whole # {}
    BY <1>1
  <2>2. Newest(from \ whole) \in from \ whole /\ k <= Newest(from \ whole)
    BY <1>1, <2>1, NewestIs
  <2>3. token # None /\ k <= token
    BY <1>1, <1>2, <2>2 DEF None
  <2> QED
    BY <1>1, <1>2, <2>3 DEF From
<1>3. CASE t \in Offset
  <2>1. Shown(t) = 1 .. posts[t]
    BY <1>3 DEF Steady, Shown
  <2>2. ASSUME NEW i \in Shown(t) PROVE Cardinality(Before(t, i)) = posts[t] - i
    <3>1. Before(t, i) = (i + 1) .. posts[t] /\ i \in Nat
      BY <1>1, <2>1, AheadIs DEF Before
    <3>2. i \in Int /\ posts[t] \in Int /\ i <= posts[t]
      BY <1>1, <2>1
    <3> QED
      BY <3>1, <3>2, BetweenIs
  <2>3. from = {i \in Shown(t) : posts[t] - i >= cp.token}
    <3>1. CASE cp.token = None
      BY <1>1, <2>1, <3>1 DEF FromOf, From, None
    <3>2. CASE cp.token # None
      BY <1>3, <2>2, <3>2 DEF FromOf, From
    <3> QED
      BY <3>1, <3>2
  <2>4. k \in Shown(t) /\ k \in Nat /\ k <= posts[t] - cp.token
    BY <1>1, <2>3
  <2>5. {i \in from : i > k} = (k + 1) .. (posts[t] - cp.token)
    BY <1>1, <2>1, <2>3, <2>4
  <2>6. Cardinality({i \in from : i > k}) = posts[t] - cp.token - k
    <3>1. k \in Int /\ posts[t] - cp.token \in Int
      BY <1>1, <2>4
    <3> QED
      BY <2>4, <2>5, <3>1, BetweenIs
  <2>7. ~(Cardinality({i \in from : i > k}) < PageSize)
    BY WholeIs
  <2>8. posts[t] - k >= cp.token + PageSize
    BY <1>1, <2>4, <2>6, <2>7
  <2> QED
    BY <1>1, <1>3, <2>2, <2>4, <2>8 DEF From, None
<1> QED
  BY <1>2, <1>3


(* What is in a page.                                                      *)
HasPage(t, cp, page, from, whole) ==
    /\ page.items \subseteq whole
    /\ Steady(t) => \A k \in whole :
          k \in page.items <=> (Boundary(cp) \in whole => k > Boundary(cp))
    /\ page.token = IF from \ whole = {} THEN None
                    ELSE IF t \in Offset THEN cp.token + PageSize ELSE Newest(from \ whole)
    /\ page.complete <=> Boundary(cp) \in whole \/ from \ whole = {}
    /\ page.token \in Nat /\ page.complete \in BOOLEAN
    /\ page.items \subseteq 1 .. posts[t]

(* Every page is one.                                                      *)
LEMMA PageIs ==
  ASSUME DiscoveryTypeOK, NEW t \in Targets, NEW cp \in Checkpoint
  PROVE  HasPage(t, cp, Page(t, cp), FromOf(t, cp), WholeOf(t, cp))
<1> DEFINE page == Page(t, cp)
           from == FromOf(t, cp)
           whole == WholeOf(t, cp)
           reached == Boundary(cp) \in whole
<1>1. page = [items |-> {k \in whole : reached => Ahead(t, k, Boundary(cp))},
              token |-> IF from \ whole = {} THEN None
                        ELSE IF t \in Offset THEN cp.token + PageSize ELSE Newest(from \ whole),
              complete |-> reached \/ from \ whole = {}]
  BY Zenon DEF Page, FromOf, WholeOf
<1>0. from = FromOf(t, cp) /\ whole = WholeOf(t, cp)
  OBVIOUS
<1> HIDE DEF page, from, whole
<1>2. /\ page.items = {k \in whole : reached => Ahead(t, k, Boundary(cp))}
      /\ page.token = IF from \ whole = {} THEN None
                      ELSE IF t \in Offset THEN cp.token + PageSize ELSE Newest(from \ whole)
      /\ page.complete = (reached \/ from \ whole = {})
  BY <1>1
<1>3. from \subseteq 1 .. posts[t] /\ whole \subseteq from
  BY <1>0, WholeIs
<1>4. posts[t] \in Nat /\ cp.token \in Nat /\ PageSize \in Nat
  BY ShownIs, TargetsFacts DEF Checkpoint
<1>5. page.token \in Nat
  <2>1. CASE from \ whole = {} \/ t \in Offset
    BY <1>2, <1>4, <2>1 DEF None
  <2>2. CASE from \ whole # {} /\ t \notin Offset
    <3>1. from \ whole \in SUBSET (1 .. posts[t])
      BY <1>3
    <3>2. Newest(from \ whole) \in 1 .. posts[t]
      BY <1>4, <2>2, <3>1, NewestIs
    <3> QED
      BY <1>2, <1>4, <2>2, <3>2
  <2> QED
    BY <2>1, <2>2
<1>6. page.complete \in BOOLEAN
  BY <1>2
<1>7. ASSUME Steady(t), NEW k \in whole
      PROVE  k \in page.items <=> (Boundary(cp) \in whole => k > Boundary(cp))
  BY <1>2, <1>3, <1>7, AheadIs
<1>8. HasPage(t, cp, page, from, whole)
  BY <1>2, <1>3, <1>5, <1>6, <1>7 DEF HasPage
<1> QED
  BY <1>8 DEF page, from, whole

(* The checkpoint after a page is a checkpoint, for the same fingerprint.  *)
LEMMA CheckpointedTyped ==
  ASSUME DiscoveryTypeOK, NEW t \in Targets, NEW cp \in Checkpoint, NEW page, page = Page(t, cp)
  PROVE  Checkpointed(cp, page) \in Checkpoint /\ Checkpointed(cp, page).print = cp.print
<1> DEFINE newest == IF cp.newest # None THEN cp.newest
                     ELSE IF page.items # {} THEN Newest(page.items) ELSE None
           done == [Empty(cp.print) EXCEPT !.high = IF newest # None THEN newest ELSE cp.high]
           more == [cp EXCEPT !.continuing = TRUE, !.token = page.token, !.newest = newest,
                              !.boundary = Boundary(cp)]
<1>1. posts[t] \in Nat /\ page.items \in SUBSET (1 .. posts[t]) /\ page.token \in Nat
  BY ShownIs, PageIs DEF HasPage
<1>2. newest \in Nat
  <2>1. page.items # {} => Newest(page.items) \in Nat
    <3> SUFFICES ASSUME page.items # {} PROVE Newest(page.items) \in Nat
      OBVIOUS
    <3>1. Newest(page.items) \in page.items
      BY <1>1, NewestIs
    <3> QED
      BY <1>1, <3>1
  <2> QED
    BY <2>1 DEF Checkpoint, None
<1>3. Boundary(cp) \in Nat
  BY DEF Boundary, Checkpoint
<1>4. Checkpointed(cp, page) = IF page.complete THEN done ELSE more
  BY Zenon DEF Checkpointed
<1> HIDE DEF newest
<1>5. done \in Checkpoint /\ done.print = cp.print
  BY <1>2 DEF Checkpoint, Empty, None
<1>6. more \in Checkpoint /\ more.print = cp.print
  BY <1>1, <1>2, <1>3 DEF Checkpoint
<1> HIDE DEF done, more
<1> QED
  BY <1>4, <1>5, <1>6

(* It claims no more than what is stored with the page.                    *)
LEMMA CheckpointedIsSound ==
  ASSUME DiscoveryTypeOK, NEW t \in Targets, Steady(t), NEW cp \in Checkpoint, Sound(t, cp),
         NEW page, page = Page(t, cp), NEW new, new = Checkpointed(cp, page),
         UNCHANGED <<posts, deleted, stamps, edits>>, found \subseteq found',
         \A k \in page.items : <<t, cp.print, k>> \in found'
  PROVE  Sound(t, new)'
<1>1. PICK from, whole : from = FromOf(t, cp) /\ whole = WholeOf(t, cp)
  OBVIOUS
<1>2. PICK newest : newest = IF cp.newest # None THEN cp.newest
                             ELSE IF page.items # {} THEN Newest(page.items) ELSE None
  OBVIOUS
<1>3. /\ from \subseteq 1 .. posts[t] /\ from \subseteq Shown(t) /\ whole \subseteq from
      /\ \A k \in whole, i \in from : i > k => i \in whole
      /\ from # {} => whole # {}
      /\ posts[t] \in Nat
  BY <1>1, WholeIs, ShownIs
<1>4. /\ cp.high \in Nat /\ cp.newest \in Nat /\ cp.token \in Nat /\ cp.boundary \in Nat
      /\ cp.continuing \in BOOLEAN
  BY DEF Checkpoint
<1>5. Boundary(cp) = cp.high
  BY <1>4 DEF Boundary, Sound
<1>6. /\ page.items = {k \in whole : cp.high \in whole => k > cp.high}
      /\ page.complete = (cp.high \in whole \/ from \ whole = {})
      /\ page.items \in SUBSET (1 .. posts[t])
  <2>1. HasPage(t, cp, page, from, whole)
    BY <1>1, PageIs
  <2> QED
    BY <1>3, <1>5, <2>1 DEF HasPage
<1>7. \A k \in (cp.high + 1) .. posts[t] \ deleted[t] :
         (cp.continuing => k <= cp.newest) => <<t, cp.print, k>> \in found \/ k \in from
  <2>1. CASE cp.continuing
    BY <1>1, <1>3, <1>4, <2>1 DEF Sound, FromOf
  <2>2. CASE ~cp.continuing
    <3>1. from = Shown(t)
      BY <1>1, <2>2 DEF Sound, FromOf, From
    <3> QED
      BY <1>3, <1>4, <3>1 DEF Shown
  <2> QED
    BY <1>4, <2>1, <2>2
<1>8. /\ newest \in Nat /\ newest <= posts[t] /\ (cp.continuing => newest = cp.newest)
      /\ ~cp.continuing /\ page.items # {} =>
            newest \in page.items /\ \A k \in page.items : k <= newest
      /\ ~cp.continuing /\ page.items = {} => newest = None
  <2>1. CASE cp.continuing
    BY <1>2, <1>4, <2>1 DEF Sound
  <2>2. CASE ~cp.continuing /\ page.items # {}
    <3>1. newest = Newest(page.items)
      BY <1>2, <2>2 DEF Sound
    <3>2. newest \in page.items /\ \A k \in page.items : k <= newest
      BY <1>3, <1>6, <2>2, <3>1, NewestIs
    <3> QED
      BY <1>3, <1>6, <2>2, <3>2
  <2>3. CASE ~cp.continuing /\ page.items = {}
    BY <1>2, <1>3, <2>3 DEF Sound, None
  <2> QED
    BY <1>4, <2>1, <2>2, <2>3
<1>9. \A k \in 1 .. cp.high \ deleted[t] : <<t, cp.print, k>> \in found'
  BY DEF Sound
<1>10. CASE page.complete
  <2>1. PICK high : high = IF newest # None THEN newest ELSE cp.high
    OBVIOUS
  <2>2. new = [Empty(cp.print) EXCEPT !.high = high]
    BY <1>2, <1>10, <2>1 DEF Checkpointed
  <2>3. /\ new.high = high /\ new.print = cp.print /\ ~new.continuing
        /\ new.token = None /\ new.boundary = None /\ new.newest = None
    BY <2>2 DEF Empty
  <2>4. high \in Nat /\ high <= posts[t]
    BY <1>4, <1>8, <2>1 DEF Sound
  <2>5. ASSUME NEW k \in 1 .. high \ deleted[t] PROVE <<t, cp.print, k>> \in found'
    <3>1. CASE k <= cp.high
      BY <1>4, <1>9, <2>4, <3>1
    <3>2. CASE k > cp.high
      <4>1. k \in (cp.high + 1) .. posts[t] \ deleted[t] /\ high = newest
        BY <1>3, <1>4, <2>1, <2>4, <2>5, <3>2
      <4>2. <<t, cp.print, k>> \in found \/ k \in from
        BY <1>7, <1>8, <2>4, <2>5, <4>1
      <4>3. CASE k \in from
        <5>1. k \in whole
          BY <1>3, <1>4, <1>6, <1>10, <3>2, <4>3
        <5>2. k \in page.items
          BY <1>6, <3>2, <5>1
        <5> QED
          BY <5>2
      <4> QED
        BY <4>2, <4>3
    <3> QED
      BY <1>4, <2>4, <3>1, <3>2
  <2>6. high <= posts'[t] /\ \A k \in 1 .. high \ deleted'[t] : <<t, cp.print, k>> \in found'
    BY <2>4, <2>5
  <2> QED
    BY <2>3, <2>6 DEF Sound
<1>11. CASE ~page.complete
  <2>1. /\ new.print = cp.print /\ new.high = cp.high /\ new.continuing
        /\ new.newest = newest /\ new.boundary = cp.high /\ new.token = page.token
    BY <1>2, <1>5, <1>11 DEF Checkpointed, Checkpoint
  <2>2. from \ whole # {} /\ cp.high \notin whole /\ page.items = whole /\ whole # {}
    BY <1>3, <1>6, <1>11
  <2>3. newest # None
    BY <1>3, <1>4, <1>8, <2>2 DEF Sound, None
  <2>4. page.token = IF t \in Offset THEN cp.token + PageSize ELSE Newest(from \ whole)
    <3>1. HasPage(t, cp, page, from, whole)
      BY <1>1, PageIs
    <3> QED
      BY <2>2, <3>1 DEF HasPage
  <2>5. ASSUME NEW k \in (cp.high + 1) .. newest \ deleted[t]
        PROVE  <<t, cp.print, k>> \in found' \/ k \in From(t, page.token)
    <3>1. <<t, cp.print, k>> \in found \/ k \in from
      BY <1>3, <1>4, <1>7, <1>8, <2>5
    <3>2. CASE k \in whole
      BY <2>2, <3>2
    <3>3. CASE k \in from \ whole
      BY <1>1, <2>4, <3>3, RestIsNext
    <3> QED
      BY <3>1, <3>2, <3>3
  <2>7. PICK token : token = page.token
    OBVIOUS
  <2>8. From(t, token)' = From(t, token)
    BY DEF From, Shown, Before, Ahead
  <2>9. \A k \in (cp.high + 1) .. newest \ deleted'[t] :
           <<t, cp.print, k>> \in found' \/ k \in From(t, token)'
    BY <2>5, <2>7, <2>8
  <2>10. cp.high <= posts'[t] /\ newest <= posts'[t]
    BY <1>8 DEF Sound
  <2> QED
    BY <1>9, <2>1, <2>3, <2>7, <2>9, <2>10 DEF Sound
<1> QED
  BY <1>6, <1>10, <1>11


(* What is stored stays stored, and posts that appear or vanish take       *)
(* nothing from what the next page has to show.                            *)
LEMMA SoundStays ==
  ASSUME DiscoveryTypeOK, DiscoveryTypeOK', NEW t \in Targets, NEW cp \in Checkpoint,
         Steady(t) => Sound(t, cp), found \subseteq found',
         Grows(t)
  PROVE  Steady(t)' => Sound(t, cp)'
<1> SUFFICES ASSUME Steady(t)' PROVE Sound(t, cp)'
  OBVIOUS
<1>1. Steady(t) /\ Sound(t, cp)
  BY DEF Steady, Grows, DiscoveryTypeOK
<1>2. /\ posts[t] \in Nat /\ posts'[t] \in Nat /\ Shown(t) \subseteq 1 .. posts[t]
      /\ Shown(t)' \subseteq 1 .. posts'[t] /\ IsFiniteSet(Shown(t)')
      /\ \A k \in Shown(t) : k \notin deleted'[t] => k \in Shown(t)'
      /\ \A i, k \in Shown(t) : Ahead(t, i, k) => Ahead(t, i, k)'
  <2>1. posts[t] \in Nat /\ posts'[t] \in Nat
    BY DEF DiscoveryTypeOK
  <2>6. IsFiniteSet(1 .. posts'[t])
    BY <2>1, FS_Interval
  <2>2. IsFiniteSet(1 .. posts'[t]) /\ Shown(t)' \in SUBSET (1 .. posts'[t])
    BY <2>6 DEF Shown
  <2>3. IsFiniteSet(Shown(t)')
    BY <2>2, FS_Subset
  <2>4. \A i \in 1 .. posts[t] : stamps[t][i] = i /\ stamps'[t][i] = i
    BY <1>1, <2>1 DEF DiscoveryTypeOK, Steady, Grows
  <2>5. \A i, k \in Shown(t) : Ahead(t, i, k) => Ahead(t, i, k)'
    BY <2>1, <2>4 DEF Shown, Ahead
  <2> QED
    BY <2>1, <2>2, <2>3, <2>5 DEF Shown, Grows
<1>3. ASSUME NEW k \in From(t, cp.token), k \notin deleted'[t] PROVE k \in From(t, cp.token)'
  <2>1. k \in Shown(t)'
    BY <1>2, <1>3 DEF From
  <2>2. CASE cp.token = None \/ t \notin Offset
    BY <1>3, <2>1, <2>2 DEF From
  <2>3. CASE cp.token # None /\ t \in Offset
    <3>1. Before(t, k) \in SUBSET Before(t, k)' /\ Before(t, k)' \in SUBSET (Shown(t)')
      BY <1>1, <1>2, <1>3, <2>3 DEF Before, From, Shown, Steady
    <3>2. IsFiniteSet(Before(t, k)') /\ IsFiniteSet(Before(t, k))
      BY <1>2, <3>1, FS_Subset
    <3>3. /\ Cardinality(Before(t, k)) \in Nat /\ Cardinality(Before(t, k)') \in Nat
          /\ Cardinality(Before(t, k)) <= Cardinality(Before(t, k)')
      BY <3>1, <3>2, FS_Subset, FS_CardinalityType
    <3>4. Cardinality(Before(t, k)) >= cp.token /\ cp.token \in Nat
      BY <1>3, <2>3 DEF From, Checkpoint
    <3>5. Cardinality(Before(t, k)') >= cp.token
      BY <3>3, <3>4
    <3> QED
      BY <2>1, <2>3, <3>5 DEF From
  <2> QED
    BY <2>2, <2>3
<1>4. cp.high \in Nat /\ cp.newest \in Nat /\ cp.high <= posts'[t]
  BY <1>1, <1>2 DEF Sound, Checkpoint, Grows
<1>5. \A k \in 1 .. cp.high \ deleted'[t] : <<t, cp.print, k>> \in found'
  BY <1>1 DEF Sound, Grows
<1>6. cp.continuing =>
         /\ cp.boundary = cp.high /\ cp.newest # None /\ cp.newest <= posts'[t]
         /\ \A k \in (cp.high + 1) .. cp.newest \ deleted'[t] :
               <<t, cp.print, k>> \in found' \/ k \in From(t, cp.token)'
  BY <1>1, <1>2, <1>3, <1>4 DEF Sound, Grows
<1> QED
  BY <1>1, <1>4, <1>5, <1>6 DEF Sound

(* A checkpoint that has nothing claims nothing.                           *)
LEMMA EmptyIsSound ==
  ASSUME DiscoveryTypeOK, NEW t \in Targets, NEW print \in Nat
  PROVE  Empty(print) \in Checkpoint /\ Empty(print).print = print /\ Sound(t, Empty(print))
<1>1. posts[t] \in Nat
  BY DEF DiscoveryTypeOK
<1> QED
  BY <1>1 DEF Empty, Checkpoint, Sound, None

(* A checkpoint that starts over keeps its watermark and claims no more.   *)
LEMMA RestartedIsSound ==
  ASSUME DiscoveryTypeOK, NEW t \in Targets, NEW cp \in Checkpoint
  PROVE  Restarted(cp) \in Checkpoint /\ (Sound(t, cp) => Sound(t, Restarted(cp)))
<1>1. /\ Restarted(cp) \in Checkpoint /\ Restarted(cp).print = cp.print
      /\ Restarted(cp).high = cp.high /\ Restarted(cp).token = None
      /\ Restarted(cp).boundary = None /\ Restarted(cp).newest = None
      /\ ~Restarted(cp).continuing
  BY DEF Restarted, Empty, Checkpoint, None
<1> QED
  BY <1>1 DEF Sound


(***************************************************************************)
(* The steps.                                                              *)
(***************************************************************************)

(* Nothing is stored to begin with and no checkpoint claims anything.      *)
LEMMA DiscoveryInit == Init => DiscoveryInv
<1> SUFFICES ASSUME Init PROVE DiscoveryInv
  OBVIOUS
<1>1. \A t \in Targets : Empty(0) \in Checkpoint
  BY DEF Empty, Checkpoint, None
<1>2. PICK own : own = [next |-> 1, at |-> [t \in Targets |-> Empty(0)]]
  OBVIOUS
<1>3. own \in Cursor /\ \A t \in Targets : own.at[t] = Empty(0)
  BY <1>1, <1>2, TargetsFacts DEF Cursor, Checkpoints
<1>4. Idle \in Tick /\ Idle.own = own /\ Idle.pc = "idle"
  BY <1>2, <1>3, TargetsFacts DEF Idle, Tick
<1>5. DiscoveryTypeOK
  <2>1. /\ posts \in [Targets -> Nat] /\ deleted \in [Targets -> SUBSET Nat]
        /\ stamps \in [Targets -> [1 .. MaxPosts -> Nat]] /\ edits \in [Targets -> Nat]
        /\ prints \in [Targets -> Nat] /\ missing \in SUBSET Targets
    BY TargetsFacts, DiscoveryAssumption DEF Init
  <2>4. \A t \in Targets : posts[t] <= MaxPosts /\ (t \notin Offset => edits[t] = 0)
    BY DiscoveryAssumption DEF Init
  <2>5. \A t \in Targets : \A k \in 1 .. posts[t] : stamps[t][k] = k
    BY <2>1, <2>4, DiscoveryAssumption DEF Init
  <2>2. cursor = own /\ ticks \in [Ticks -> Tick]
    BY <1>2, <1>4 DEF Init
  <2>3. /\ source \in [enabled : BOOLEAN, version : Nat, backoff : BOOLEAN]
        /\ job \in [status : {"queued", "running", "succeeded", "failed", "skipped"},
                    version : Nat, holder : Ticks \cup {Nobody}, live : BOOLEAN]
        /\ scheduler \in [holder : Ticks \cup {Nobody}, live : BOOLEAN]
        /\ events \in Nat
    BY DEF Init
  <2> QED
    BY <1>3, <2>1, <2>2, <2>3, <2>4, <2>5 DEF DiscoveryTypeOK
<1>6. \A t \in Targets : Sound(t, Empty(0))
  BY <1>5, EmptyIsSound
<1>7. cursor = own /\ \A c \in Ticks : ticks[c] = Idle
  BY <1>2 DEF Init
<1> QED
  BY <1>3, <1>4, <1>5, <1>6, <1>7 DEF DiscoveryInv, SoundCursor, SoundTicks, HolderIsCurrent

(* What a tick that is under way has.                                      *)
LEMMA TickIs ==
  ASSUME DiscoveryTypeOK, NEW c \in Ticks
  PROVE  /\ ticks[c] \in Tick /\ ticks[c].own \in Cursor /\ ticks[c].own.at \in Checkpoints
         /\ \A t \in Targets : ticks[c].own.at[t] \in Checkpoint /\ cursor.at[t] \in Checkpoint
         /\ cursor \in Cursor /\ cursor.at \in Checkpoints /\ cursor.next \in Targets
         /\ Idle \in Tick /\ Idle.pc = "idle"
         /\ \A t \in Targets : Idle.own.at[t] = Empty(0)
<1>1. ticks[c] \in Tick /\ cursor \in Cursor
  BY DEF DiscoveryTypeOK
<1>2. ticks[c].own \in Cursor
  BY <1>1 DEF Tick
<1>3. /\ ticks[c].own.at \in Checkpoints /\ cursor.at \in Checkpoints
      /\ cursor.next \in Targets
  BY <1>1, <1>2 DEF Cursor
<1>4. PICK own : own = [next |-> 1, at |-> [t \in Targets |-> Empty(0)]]
  OBVIOUS
<1>5. \A t \in Targets : Empty(0) \in Checkpoint
  BY DEF Empty, Checkpoint, None
<1>6. own \in Cursor /\ \A t \in Targets : own.at[t] = Empty(0)
  BY <1>4, <1>5, TargetsFacts DEF Cursor, Checkpoints
<1>7. Idle \in Tick /\ Idle.own = own /\ Idle.pc = "idle"
  BY <1>4, <1>6, TargetsFacts DEF Idle, Tick
<1> QED
  BY <1>1, <1>2, <1>3, <1>6, <1>7 DEF Checkpoints

(* A step that stores nothing and lets nobody start to read.               *)
LEMMA AsideKeeps ==
  ASSUME DiscoveryInv, DiscoveryTypeOK', cursor' = cursor, found' = found,
         \A t \in Targets : Grows(t),
         \A c \in Ticks : ticks'[c].own = ticks[c].own \/ ticks'[c].own = Idle.own,
         \A c \in Ticks : LiveClaim(c)' /\ ticks'[c].pc = "reading" =>
            LiveClaim(c) /\ ticks[c].pc = "reading" /\ ticks'[c].own = ticks[c].own
  PROVE  DiscoveryInv'
<1>0. DiscoveryTypeOK
  BY DEF DiscoveryInv
<1>1. SoundCursor'
  <2> SUFFICES ASSUME NEW t \in Targets PROVE Steady(t)' => Sound(t, cursor.at[t])'
    BY DEF SoundCursor
  <2>1. PICK cp : cp = cursor.at[t]
    OBVIOUS
  <2>2. cp \in Checkpoint /\ (Steady(t) => Sound(t, cp))
    BY <1>0, <2>1 DEF DiscoveryInv, SoundCursor, DiscoveryTypeOK, Cursor, Checkpoints
  <2>3. Steady(t)' => Sound(t, cp)'
    BY <1>0, <2>2, SoundStays
  <2> QED
    BY <2>1, <2>3
<1>2. SoundTicks'
  <2> SUFFICES ASSUME NEW c \in Ticks, NEW t \in Targets
               PROVE  Steady(t)' => Sound(t, ticks[c].own.at[t])'
    BY DEF SoundTicks
  <2>1. PICK cp : cp = ticks'[c].own.at[t]
    OBVIOUS
  <2>2. cp \in Checkpoint /\ (Steady(t) => Sound(t, cp))
    <3>1. CASE ticks'[c].own = ticks[c].own
      BY <1>0, <2>1, <3>1, TickIs DEF DiscoveryInv, SoundTicks
    <3>2. CASE ticks'[c].own = Idle.own
      <4>1. cp = Empty(0)
        BY <1>0, <2>1, <3>2, TickIs
      <4> QED
        BY <1>0, <4>1, EmptyIsSound
    <3> QED
      BY <3>1, <3>2
  <2>3. Steady(t)' => Sound(t, cp)'
    BY <1>0, <2>2, SoundStays
  <2> QED
    BY <2>1, <2>3
<1>3. HolderIsCurrent'
  BY DEF DiscoveryInv, HolderIsCurrent
<1> QED
  BY <1>1, <1>2, <1>3 DEF DiscoveryInv

(* A step that stores the checkpoints of the call that holds the claim.    *)
LEMMA StoringKeeps ==
  ASSUME DiscoveryInv, NEW c \in Ticks, LiveClaim(c), NEW own \in Cursor, NEW y \in Tick, y.own = own,
         UNCHANGED <<posts, deleted, stamps, edits, prints, missing, job, scheduler>>, found \subseteq found',
         source' \in [enabled : BOOLEAN, version : Nat, backoff : BOOLEAN], events' \in Nat,
         cursor' = own, ticks' = [ticks EXCEPT ![c] = y],
         \A t \in Targets : Steady(t) => Sound(t, own.at[t])'
  PROVE  DiscoveryInv'
<1>1. DiscoveryTypeOK /\ DiscoveryTypeOK'
  BY DEF DiscoveryInv, DiscoveryTypeOK
<1>2. \A t \in Targets : Steady(t)' <=> Steady(t)
  BY DEF Steady
<1>3. SoundCursor'
  BY <1>2 DEF SoundCursor
<1>4. SoundTicks'
  <2> SUFFICES ASSUME NEW d \in Ticks, NEW t \in Targets
               PROVE  Steady(t)' => Sound(t, ticks[d].own.at[t])'
    BY DEF SoundTicks
  <2>1. CASE d = c
    BY <1>1, <1>2, <2>1 DEF DiscoveryTypeOK
  <2>2. CASE d # c
    <3>1. PICK cp : cp = ticks[d].own.at[t]
      OBVIOUS
    <3>2. ticks'[d] = ticks[d]
      BY <1>1, <2>2 DEF DiscoveryTypeOK
    <3>3. cp \in Checkpoint /\ (Steady(t) => Sound(t, cp))
      BY <1>1, <3>1, TickIs DEF DiscoveryInv, SoundTicks
    <3>4. Grows(t)
      BY <1>1 DEF DiscoveryTypeOK, Grows
    <3>5. Steady(t)' => Sound(t, cp)'
      BY <1>1, <3>3, <3>4, SoundStays
    <3> QED
      BY <3>1, <3>2, <3>5
  <2> QED
    BY <2>1, <2>2
<1>5. HolderIsCurrent'
  <2> SUFFICES ASSUME NEW d \in Ticks, LiveClaim(d)', NEW t \in Targets
               PROVE  ticks'[d].own.at[t] = cursor'.at[t]
    BY DEF HolderIsCurrent
  <2>1. d = c
    BY DEF LiveClaim
  <2> QED
    BY <1>1, <2>1 DEF DiscoveryTypeOK
<1> QED
  BY <1>1, <1>3, <1>4, <1>5 DEF DiscoveryInv


Sources == [enabled : BOOLEAN, version : Nat, backoff : BOOLEAN]
Jobs == [status : {"queued", "running", "succeeded", "failed", "skipped"},
         version : Nat, holder : Ticks \cup {Nobody}, live : BOOLEAN]
Leases == [holder : Ticks \cup {Nobody}, live : BOOLEAN]

(* A step of one tick that stores nothing.                                 *)
LEMMA OneTickKeeps ==
  ASSUME DiscoveryInv, NEW c \in Ticks, NEW y \in Tick, ticks' = [ticks EXCEPT ![c] = y],
         y.own = ticks[c].own \/ y.own = Idle.own,
         y.pc = "reading" => ticks[c].pc = "reading" /\ y.own = ticks[c].own,
         UNCHANGED <<posts, deleted, stamps, edits, prints, missing, cursor, found>>,
         source' \in Sources, job' \in Jobs, scheduler' \in Leases, events' \in Nat,
         \A d \in Ticks : LiveClaim(d)' => LiveClaim(d) \/ (d = c /\ y.pc # "reading")
  PROVE  DiscoveryInv'
<1>1. DiscoveryTypeOK
  BY DEF DiscoveryInv
<1>2. ticks' \in [Ticks -> Tick] /\ ticks'[c] = y /\ \A d \in Ticks : d # c => ticks'[d] = ticks[d]
  BY <1>1 DEF DiscoveryTypeOK
<1>3. DiscoveryTypeOK'
  BY <1>1, <1>2 DEF DiscoveryTypeOK, Sources, Jobs, Leases
<1>4. \A t \in Targets : Grows(t)
  BY <1>1 DEF DiscoveryTypeOK, Grows
<1>5. \A d \in Ticks : ticks'[d].own = ticks[d].own \/ ticks'[d].own = Idle.own
  BY <1>2
<1>6. ASSUME NEW d \in Ticks, LiveClaim(d)', ticks'[d].pc = "reading"
      PROVE  LiveClaim(d) /\ ticks[d].pc = "reading" /\ ticks'[d].own = ticks[d].own
  BY <1>2, <1>6
<1> QED
  BY <1>3, <1>4, <1>5, <1>6, AsideKeeps

(* The types of what a step of a tick leaves alone.                        *)
LEMMA RestTyped ==
  ASSUME DiscoveryInv
  PROVE  /\ source \in Sources /\ job \in Jobs /\ scheduler \in Leases /\ events \in Nat
         /\ source.version \in Nat /\ job.version \in Nat /\ source.enabled \in BOOLEAN
         /\ prints \in [Targets -> Nat] /\ ticks \in [Ticks -> Tick]
         /\ missing \in SUBSET Targets
  BY DEF DiscoveryInv, DiscoveryTypeOK, Sources, Jobs, Leases

(* The steps of the tick around its jobs.                                  *)
LEMMA TickKeeps ==
  ASSUME DiscoveryInv, NEW c \in Ticks, Begin(c) \/ Enqueue(c) \/ Claim(c) \/ End(c)
  PROVE  DiscoveryInv'
<1>1. ticks[c] \in Tick /\ Idle \in Tick /\ Idle.pc = "idle" /\ DiscoveryTypeOK
  BY TickIs DEF DiscoveryInv
<1>2. PICK x : x = ticks[c]
  OBVIOUS
<1>3. CASE Begin(c)
  <2> DEFINE y == [x EXCEPT !.pc = "listed", !.due = source.enabled /\ ~source.backoff]
  <2>1. y \in Tick /\ y.pc = "listed" /\ y.own = x.own
    BY <1>1, <1>2, RestTyped DEF Tick
  <2>2. ticks' = [ticks EXCEPT ![c] = y] /\ scheduler' \in Leases
    BY <1>2, <1>3 DEF Begin, Leases
  <2> HIDE DEF y
  <2> QED
    BY <1>2, <1>3, <2>1, <2>2, OneTickKeeps, RestTyped DEF Begin, provider, accounts, LiveClaim
<1>4. CASE Enqueue(c)
  <2> DEFINE y == [x EXCEPT !.pc = "claiming", !.due = FALSE]
  <2>1. y \in Tick /\ y.pc = "claiming" /\ y.own = x.own
    BY <1>1, <1>2 DEF Tick
  <2>2. ticks' = [ticks EXCEPT ![c] = y]
    BY <1>2, <1>4 DEF Enqueue
  <2>3. job' \in Jobs /\ \A d \in Ticks : LiveClaim(d)' => LiveClaim(d)
    <3>1. CASE job' = job
      BY <3>1, RestTyped DEF LiveClaim
    <3>2. CASE job' = [status |-> "queued", version |-> source.version,
                       holder |-> Nobody, live |-> FALSE]
      BY <3>2, RestTyped DEF LiveClaim, Jobs
    <3> QED
      BY <1>4, <3>1, <3>2 DEF Enqueue
  <2> HIDE DEF y
  <2> QED
    BY <1>2, <1>4, <2>1, <2>2, <2>3, OneTickKeeps, RestTyped DEF Enqueue, provider, accounts
<1>5. CASE Claim(c)
  <2> DEFINE y == [x EXCEPT !.pc = "claimed", !.version = job.version]
  <2>1. y \in Tick /\ y.pc = "claimed" /\ y.own = x.own
    BY <1>1, <1>2, RestTyped DEF Tick
  <2>2. ticks' = [ticks EXCEPT ![c] = y]
    BY <1>2, <1>5 DEF Claim
  <2>3. job' \in Jobs /\ \A d \in Ticks : LiveClaim(d)' => d = c
    <3>1. job' = [job EXCEPT !.status = "running", !.holder = c, !.live = TRUE]
      BY <1>5 DEF Claim
    <3>2. job' \in Jobs /\ job'.holder = c
      BY <3>1, RestTyped DEF Jobs
    <3> QED
      BY <3>2 DEF LiveClaim
  <2> HIDE DEF y
  <2> QED
    BY <1>2, <1>5, <2>1, <2>2, <2>3, OneTickKeeps, RestTyped DEF Claim, provider, accounts
<1>6. CASE End(c)
  <2>1. scheduler' \in Leases
    BY <1>6, RestTyped DEF End, Leases
  <2> QED
    BY <1>1, <1>6, <2>1, OneTickKeeps, RestTyped DEF End, provider, accounts, LiveClaim
<1> QED
  BY <1>3, <1>4, <1>5, <1>6

(* A job is opened on the checkpoints that are stored, those of other      *)
(* things left out.                                                        *)
LEMMA OpenKeeps ==
  ASSUME DiscoveryInv, NEW c \in Ticks, Open(c)
  PROVE  DiscoveryInv'
<1>1. /\ ticks[c] \in Tick /\ DiscoveryTypeOK /\ ticks[c].pc = "claimed"
      /\ UNCHANGED <<posts, deleted, stamps, edits, prints, missing, source, cursor, job, scheduler, found, events>>
  BY TickIs DEF DiscoveryInv, Open, provider, accounts
<1>2. PICK x : x = ticks[c]
  OBVIOUS
<1>3. CASE source.version # x.version \/ missing # {}
  <2>1. PICK y : y = Ending(x, IF source.version # x.version THEN "quiet" ELSE "failed")
    OBVIOUS
  <2>2. y \in Tick /\ y.pc = "ending" /\ y.own = x.own
    BY <1>1, <1>2, <2>1, EndingIs
  <2>3. ticks' = [ticks EXCEPT ![c] = y]
    BY <1>2, <1>3, <2>1 DEF Open
  <2> QED
    BY <1>1, <1>2, <2>2, <2>3, OneTickKeeps, RestTyped DEF LiveClaim
<1>4. CASE source.version = x.version /\ missing = {}
  <2>1. PICK own : own = Reconciled(cursor)
    OBVIOUS
  <2>2. cursor \in Cursor /\ cursor.at \in Checkpoints /\ prints \in [Targets -> Nat]
    BY <1>1, TickIs, RestTyped
  <2>3. \A t \in Targets : Empty(prints[t]) \in Checkpoint /\ Empty(prints[t]).print = prints[t]
    BY <1>1, <2>2, EmptyIsSound
  <2>4. /\ own \in Cursor
        /\ \A t \in Targets : own.at[t] = IF cursor.at[t].print = prints[t] THEN cursor.at[t]
                                          ELSE Empty(prints[t])
    <3>1. PICK at : at = [t \in Targets |-> IF cursor.at[t].print = prints[t] THEN cursor.at[t]
                                            ELSE Empty(prints[t])]
      OBVIOUS
    <3>2. at \in Checkpoints
      BY <2>2, <2>3, <3>1 DEF Checkpoints
    <3>3. own = [cursor EXCEPT !.at = at]
      BY <2>1, <3>1 DEF Reconciled
    <3>4. own \in Cursor /\ own.at = at
      BY <2>2, <3>2, <3>3 DEF Cursor
    <3> QED
      BY <3>1, <3>4
  <2>5. PICK z : z \in Tick /\ z.own = own /\ ticks' = [ticks EXCEPT ![c] = Looping(z)]
    <3>1. PICK spent, z :
             /\ spent \in 0 .. MaxPages - 1
             /\ z = [x EXCEPT !.own = own, !.pages = spent]
             /\ ticks' = [ticks EXCEPT ![c] = Looping(z)]
      BY <1>2, <1>4, <2>1 DEF Open
    <3>2. spent \in Nat
      BY <3>1, TargetsFacts
    <3>3. z \in Tick /\ z.own = own
      BY <1>1, <1>2, <2>4, <3>1, <3>2 DEF Tick
    <3> QED
      BY <3>1, <3>3
  <2>7. PICK y : y = Looping(z)
    OBVIOUS
  <2>8. y \in Tick /\ y.own = own
    BY <2>5, <2>7, LoopingIs
  <2>9. ticks' = [ticks EXCEPT ![c] = y]
    BY <2>5, <2>7
  <2>10. /\ ticks' \in [Ticks -> Tick] /\ ticks'[c] = y
         /\ \A d \in Ticks : d # c => ticks'[d] = ticks[d]
    BY <1>1, <2>8, <2>9 DEF DiscoveryTypeOK
  <2>11. DiscoveryTypeOK'
    BY <1>1, <2>10 DEF DiscoveryTypeOK
  <2>12. SoundCursor' /\ \A t \in Targets : (Steady(t)' <=> Steady(t))
    BY <1>1 DEF DiscoveryInv, SoundCursor, Sound, From, Shown, Before, Ahead, Steady
  <2>13. ASSUME NEW t \in Targets, Steady(t) PROVE Sound(t, own.at[t])
    <3>1. CASE own.at[t] = cursor.at[t]
      BY <2>13, <3>1 DEF DiscoveryInv, SoundCursor
    <3>2. CASE own.at[t] = Empty(prints[t])
      BY <1>1, <2>2, <3>2, EmptyIsSound
    <3> QED
      BY <2>4, <3>1, <3>2
  <2>14. \A cp, t : Sound(t, cp)' <=> Sound(t, cp)
    BY <1>1 DEF Sound, From, Shown, Before, Ahead
  <2>15. SoundTicks'
    <3> SUFFICES ASSUME NEW d \in Ticks, NEW t \in Targets, Steady(t)
                 PROVE  Sound(t, ticks[d].own.at[t])'
      BY <2>12 DEF SoundTicks
    <3>1. PICK cp : cp = ticks'[d].own.at[t]
      OBVIOUS
    <3>2. Sound(t, cp)
      BY <2>8, <2>10, <2>13, <3>1 DEF DiscoveryInv, SoundTicks
    <3> QED
      BY <2>14, <3>1, <3>2
  <2>16. HolderIsCurrent'
    <3> SUFFICES ASSUME NEW d \in Ticks, LiveClaim(d)', ticks'[d].pc = "reading", NEW t \in Targets
                 PROVE  ticks'[d].own.at[t] \in {cursor.at[t], Empty(ticks'[d].own.at[t].print)}
      BY <1>1 DEF HolderIsCurrent
    <3>1. CASE d = c
      BY <2>3, <2>4, <2>8, <2>10, <3>1
    <3>2. CASE d # c
      <4>1. LiveClaim(d) /\ ticks'[d] = ticks[d]
        BY <1>1, <2>10, <3>2 DEF LiveClaim
      <4> QED
        BY <4>1 DEF DiscoveryInv, HolderIsCurrent
    <3> QED
      BY <3>1, <3>2
  <2> QED
    BY <2>11, <2>12, <2>15, <2>16 DEF DiscoveryInv
<1> QED
  BY <1>3, <1>4


(* A call gives up, with checkpoints that claim no more than is stored.    *)
LEMMA GivingUpKeeps ==
  ASSUME DiscoveryInv, NEW c \in Ticks, NEW y \in Tick, ticks' = [ticks EXCEPT ![c] = y],
         y.pc = "ending", \A t \in Targets : Steady(t) => Sound(t, y.own.at[t]),
         UNCHANGED <<posts, deleted, stamps, edits, prints, missing, source, cursor, job, scheduler, found>>, events' \in Nat
  PROVE  DiscoveryInv'
<1>1. /\ ticks' \in [Ticks -> Tick] /\ ticks'[c] = y
      /\ \A d \in Ticks : d # c => ticks'[d] = ticks[d]
  BY DEF DiscoveryInv, DiscoveryTypeOK
<1>2. DiscoveryTypeOK'
  BY <1>1 DEF DiscoveryInv, DiscoveryTypeOK
<1>3. \A cp, t : (Sound(t, cp)' <=> Sound(t, cp)) /\ (Steady(t)' <=> Steady(t))
  BY DEF Sound, From, Shown, Before, Ahead, Steady
<1>4. SoundCursor'
  BY <1>3 DEF DiscoveryInv, SoundCursor
<1>5. SoundTicks'
  <2> SUFFICES ASSUME NEW d \in Ticks, NEW t \in Targets, Steady(t)
               PROVE  Sound(t, ticks[d].own.at[t])'
    BY <1>3 DEF SoundTicks
  <2>1. PICK cp : cp = ticks'[d].own.at[t]
    OBVIOUS
  <2>2. Sound(t, cp)
    BY <1>1, <2>1 DEF DiscoveryInv, SoundTicks
  <2> QED
    BY <1>3, <2>1, <2>2
<1>6. HolderIsCurrent'
  <2> SUFFICES ASSUME NEW d \in Ticks, LiveClaim(d)', ticks'[d].pc = "reading", NEW t \in Targets
               PROVE  ticks'[d].own.at[t] \in {cursor.at[t], Empty(ticks'[d].own.at[t].print)}
    BY DEF HolderIsCurrent
  <2>1. d # c /\ LiveClaim(d) /\ ticks'[d] = ticks[d]
    BY <1>1 DEF LiveClaim
  <2> QED
    BY <2>1 DEF DiscoveryInv, HolderIsCurrent
<1> QED
  BY <1>2, <1>4, <1>5, <1>6 DEF DiscoveryInv

(* The page that arrives, and what becomes of it.                          *)
LEMMA ArriveIs ==
  ASSUME NEW c \in Ticks, Arrive(c), NEW x, x = ticks[c]
  PROVE  \E page, on :
            /\ page = Page(x.target, x.own.at[x.target]) /\ on = Advanced(x, page)
            /\ Admitted(c, x.target) => Stored(c, x, page, on)
            /\ ~Admitted(c, x.target) => /\ ticks' = [ticks EXCEPT ![c] = Ending(x, "quiet")]
                                         /\ UNCHANGED <<found, cursor, source>>
  BY DEF Arrive

(* A page is stored with the checkpoint it leads to, or not at all.        *)
LEMMA ArriveKeeps ==
  ASSUME DiscoveryInv, NEW c \in Ticks, Arrive(c)
  PROVE  DiscoveryInv'
<1>1. PICK x, t : x = ticks[c] /\ t = x.target
  OBVIOUS
<1>2. /\ x \in Tick /\ t \in Targets /\ DiscoveryTypeOK /\ x.pc = "reading"
      /\ x.own \in Cursor /\ x.own.at \in Checkpoints
      /\ \A u \in Targets : x.own.at[u] \in Checkpoint
      /\ UNCHANGED <<posts, deleted, stamps, edits, prints, missing, job, scheduler, events>>
  <2>1. DiscoveryTypeOK
    BY DEF DiscoveryInv
  <2>2. x \in Tick /\ x.own \in Cursor /\ x.own.at \in Checkpoints
    BY <1>1, <2>1, TickIs
  <2>3. t \in Targets /\ \A u \in Targets : x.own.at[u] \in Checkpoint
    BY <1>1, <2>2 DEF Tick, Checkpoints
  <2> QED
    BY <1>1, <2>1, <2>2, <2>3 DEF Arrive, provider, accounts
<1>3. PICK page, z :
         /\ page = Page(t, x.own.at[t]) /\ z = Advanced(x, page)
         /\ Admitted(c, t) => Stored(c, x, page, z)
         /\ ~Admitted(c, t) => /\ ticks' = [ticks EXCEPT ![c] = Ending(x, "quiet")]
                               /\ UNCHANGED <<found, cursor, source>>
  BY <1>1, ArriveIs
<1>4. PICK cp, own : /\ cp = Checkpointed(x.own.at[t], page)
                     /\ own = [next |-> Successor(t), at |-> [x.own.at EXCEPT ![t] = cp]]
  OBVIOUS
<1>5. z = [x EXCEPT !.own = own, !.pages = x.pages + 1,
                    !.done = IF page.complete THEN x.done \cup {t} ELSE x.done]
  BY <1>1, <1>3, <1>4, Zenon DEF Advanced
<1>6. cp \in Checkpoint
  BY <1>2, <1>3, <1>4, CheckpointedTyped
<1>7. /\ own \in Cursor /\ own.at[t] = cp
      /\ \A u \in Targets : u # t => own.at[u] = x.own.at[u]
  <2>1. PICK at : at = [x.own.at EXCEPT ![t] = cp]
    OBVIOUS
  <2>2. /\ at \in Checkpoints /\ at[t] = cp
        /\ \A u \in Targets : u # t => at[u] = x.own.at[u]
    BY <1>2, <1>6, <2>1 DEF Checkpoints
  <2>3. Successor(t) \in Targets
    BY <1>2, TargetsFacts
  <2>4. own \in Cursor /\ own.at = at
    BY <1>4, <2>1, <2>2, <2>3 DEF Cursor
  <2> QED
    BY <2>2, <2>4
<1>8. CASE Admitted(c, t)
  <2>2. PICK y : y = Looping(z)
    OBVIOUS
  <2>3. z \in Tick /\ z.own = own
    <3>1. PICK done, pages : /\ done = IF page.complete THEN x.done \cup {t} ELSE x.done
                             /\ pages = x.pages + 1
      OBVIOUS
    <3>2. x.done \in SUBSET Targets /\ x.pages \in Nat
      BY <1>2 DEF Tick
    <3>3. done \in SUBSET Targets /\ pages \in Nat
      BY <1>2, <3>1, <3>2
    <3>4. z = [x EXCEPT !.own = own, !.pages = pages, !.done = done]
      BY <1>5, <3>1
    <3> QED
      BY <1>2, <1>7, <3>3, <3>4 DEF Tick
  <2>4. /\ found' = found \cup {<<t, x.own.at[t].print, k>> : k \in page.items}
        /\ cursor' = own /\ source' = [source EXCEPT !.backoff = FALSE]
        /\ ticks' = [ticks EXCEPT ![c] = y]
    <3>1. Stored(c, x, page, z) /\ x.target = t /\ z.own = own
      BY <1>1, <1>3, <1>8, <2>3
    <3>2. found' = found \cup {<<t, x.own.at[t].print, k>> : k \in page.items}
      BY <3>1, Zenon DEF Stored
    <3>3. cursor' = own /\ source' = [source EXCEPT !.backoff = FALSE]
      BY <3>1, Zenon DEF Stored
    <3>4. ticks' = [ticks EXCEPT ![c] = y]
      BY <2>2, <3>1, Zenon DEF Stored
    <3> QED
      BY <3>2, <3>3, <3>4
  <2>5. y \in Tick /\ y.own = own
    BY <2>2, <2>3, LoopingIs
  <2>6. source' \in Sources
    BY <2>4, RestTyped DEF Sources
  <2>7. found \subseteq found' /\ \A k \in page.items : <<t, x.own.at[t].print, k>> \in found'
    BY <2>4
  <2>8. ASSUME NEW u \in Targets, Steady(u) PROVE Sound(u, own.at[u])'
    <3>1. PICK old : old = x.own.at[u]
      OBVIOUS
    <3>2. old \in Checkpoint /\ Sound(u, old)
      BY <1>1, <1>2, <2>8, <3>1 DEF DiscoveryInv, SoundTicks
    <3>3. CASE u = t
      <4>1. PICK new : new = Checkpointed(old, page)
        OBVIOUS
      <4>2. page = Page(u, old) /\ \A k \in page.items : <<u, old.print, k>> \in found'
        BY <1>3, <2>7, <3>1, <3>3
      <4>3. UNCHANGED <<posts, deleted, stamps, edits>>
        BY <1>2
      <4>4. Sound(u, new)'
        BY <1>2, <2>7, <2>8, <3>2, <4>1, <4>2, <4>3, CheckpointedIsSound
      <4>5. own.at[u] = new
        BY <1>4, <1>7, <3>1, <3>3, <4>1
      <4> QED
        BY <4>4, <4>5
    <3>4. CASE u # t
      <4>1. own.at[u] = old
        BY <1>7, <3>1, <3>4
      <4>2. From(u, old.token)' = From(u, old.token)
        BY <1>2 DEF From, Shown, Before, Ahead
      <4>3. Sound(u, old)'
        BY <1>2, <2>7, <3>2, <4>2 DEF Sound
      <4> QED
        BY <4>1, <4>3
    <3> QED
      BY <3>3, <3>4
  <2>9. LiveClaim(c)
    BY <1>8 DEF Admitted
  <2> QED
    BY <1>2, <1>7, <2>4, <2>5, <2>6, <2>7, <2>8, <2>9, RestTyped, StoringKeeps DEF Sources
<1>9. CASE ~Admitted(c, t)
  <2>1. PICK y : y = Ending(x, "quiet")
    OBVIOUS
  <2>2. y \in Tick /\ y.pc = "ending" /\ y.own = x.own
    BY <1>2, <2>1, EndingIs
  <2>3. ticks' = [ticks EXCEPT ![c] = y] /\ UNCHANGED <<found, cursor, source>>
    BY <1>3, <1>9, <2>1
  <2> QED
    BY <1>1, <1>2, <2>2, <2>3, OneTickKeeps, RestTyped DEF LiveClaim
<1> QED
  BY <1>8, <1>9

(* A checkpoint that starts over is written by the call that holds the     *)
(* claim, or not at all.                                                   *)
LEMMA NotedKeeps ==
  ASSUME DiscoveryInv, NEW c \in Ticks, NEW x \in Tick, Noted(c, x),
         \A t \in Targets : Steady(t) => Sound(t, x.own.at[t]),
         UNCHANGED <<posts, deleted, stamps, edits, prints, missing, source, job, scheduler, found>>, events' \in Nat
  PROVE  DiscoveryInv'
<1>1. CASE LiveClaim(c) /\ source.version = x.version
  <2>1. PICK y : y = Looping(x)
    OBVIOUS
  <2>2. y \in Tick /\ y.own = x.own /\ x.own \in Cursor
    BY <2>1, LoopingIs DEF Tick
  <2>3. cursor' = x.own /\ ticks' = [ticks EXCEPT ![c] = y]
    BY <1>1, <2>1 DEF Noted
  <2>4. ASSUME NEW t \in Targets, Steady(t) PROVE Sound(t, x.own.at[t])'
    <3>1. PICK cp : cp = x.own.at[t]
      OBVIOUS
    <3>2. Sound(t, cp)
      BY <2>4, <3>1
    <3>3. Sound(t, cp)'
      BY <3>2 DEF Sound, From, Shown, Before, Ahead
    <3> QED
      BY <3>1, <3>3
  <2> QED
    BY <1>1, <2>2, <2>3, <2>4, StoringKeeps, RestTyped DEF Sources
<1>2. CASE ~(LiveClaim(c) /\ source.version = x.version)
  <2>1. PICK y : y = Ending(x, "quiet")
    OBVIOUS
  <2>2. y \in Tick /\ y.pc = "ending" /\ y.own = x.own
    BY <2>1, EndingIs
  <2>3. ticks' = [ticks EXCEPT ![c] = y] /\ cursor' = cursor
    BY <1>2, <2>1 DEF Noted
  <2> QED
    BY <2>2, <2>3, GivingUpKeeps
<1> QED
  BY <1>1, <1>2


(* A token is rejected or a target refused: the call starts over.          *)
LEMMA StartingOverKeeps ==
  ASSUME DiscoveryInv, NEW c \in Ticks, Reject(c) \/ Refuse(c)
  PROVE  DiscoveryInv'
<1>1. PICK x, t : x = ticks[c] /\ t = x.target
  OBVIOUS
<1>2. /\ x \in Tick /\ t \in Targets /\ DiscoveryTypeOK /\ x.pc = "reading"
      /\ x.own \in Cursor /\ x.own.at \in Checkpoints /\ events \in Nat
      /\ \A u \in Targets : x.own.at[u] \in Checkpoint
      /\ UNCHANGED <<posts, deleted, stamps, edits, prints, missing, source, job, scheduler, found>>
  <2>1. DiscoveryTypeOK
    BY DEF DiscoveryInv
  <2>2. x \in Tick /\ x.own \in Cursor /\ x.own.at \in Checkpoints
    BY <1>1, <2>1, TickIs
  <2>3. t \in Targets /\ \A u \in Targets : x.own.at[u] \in Checkpoint
    BY <1>1, <2>2 DEF Tick, Checkpoints
  <2>4. x.pc = "reading" /\ UNCHANGED <<posts, deleted, stamps, edits, prints, missing, source, job, scheduler, found>>
    BY <1>1 DEF Reject, Refuse, provider, accounts
  <2> QED
    BY <2>1, <2>2, <2>3, <2>4, RestTyped
<1>3. ASSUME NEW next \in Targets, NEW own, own = [x.own EXCEPT !.next = next, !.at[t] = Restarted(@)]
      PROVE  own \in Cursor /\ \A u \in Targets : Steady(u) => Sound(u, own.at[u])
  <2>1. PICK cp : cp = Restarted(x.own.at[t])
    OBVIOUS
  <2>2. cp \in Checkpoint /\ (Steady(t) => Sound(t, cp))
    <3>1. PICK old : old = x.own.at[t]
      OBVIOUS
    <3>2. old \in Checkpoint /\ (Steady(t) => Sound(t, old))
      BY <1>1, <1>2, <3>1 DEF DiscoveryInv, SoundTicks
    <3> QED
      BY <1>2, <2>1, <3>1, <3>2, RestartedIsSound
  <2>3. PICK at : at = [x.own.at EXCEPT ![t] = cp]
    OBVIOUS
  <2>4. /\ at \in Checkpoints /\ at[t] = cp
        /\ \A u \in Targets : u # t => at[u] = x.own.at[u]
    BY <1>2, <2>2, <2>3 DEF Checkpoints
  <2>5. own = [x.own EXCEPT !.next = next, !.at = at]
    BY <1>2, <1>3, <2>1, <2>3 DEF Cursor
  <2>6. own \in Cursor /\ own.at = at
    BY <1>2, <2>4, <2>5 DEF Cursor
  <2>7. ASSUME NEW u \in Targets, Steady(u) PROVE Sound(u, own.at[u])
    <3>1. CASE u = t
      BY <2>2, <2>4, <2>6, <2>7, <3>1
    <3>2. CASE u # t
      BY <1>1, <2>4, <2>6, <2>7, <3>2 DEF DiscoveryInv, SoundTicks
    <3> QED
      BY <3>1, <3>2
  <2> QED
    BY <2>6, <2>7
<1>4. CASE Reject(c) /\ t \in x.replayed
  <2>1. PICK y : y = Ending(x, "failed")
    OBVIOUS
  <2>2. y \in Tick /\ y.pc = "ending" /\ y.own = x.own
    BY <1>2, <2>1, EndingIs
  <2>3. ticks' = [ticks EXCEPT ![c] = y] /\ UNCHANGED <<cursor, events>>
    BY <1>1, <1>4, <2>1 DEF Reject
  <2> QED
    BY <1>1, <1>2, <2>2, <2>3, OneTickKeeps, RestTyped DEF LiveClaim
<1>5. CASE Reject(c) /\ t \notin x.replayed
  <2>1. PICK own : own = [x.own EXCEPT !.next = t, !.at[t] = Restarted(@)]
    OBVIOUS
  <2>2. own \in Cursor /\ \A u \in Targets : Steady(u) => Sound(u, own.at[u])
    BY <1>2, <1>3, <2>1
  <2>3. PICK z : z = [x EXCEPT !.replayed = @ \cup {t}, !.own = own]
    OBVIOUS
  <2>4. z \in Tick /\ z.own = own
    BY <1>2, <2>2, <2>3 DEF Tick
  <2>5. z = [x EXCEPT !.replayed = @ \cup {t}, !.own.next = t, !.own.at[t] = Restarted(@)]
    BY <1>2, <2>1, <2>3 DEF Tick, Cursor
  <2>6. Noted(c, z) /\ events' = events + 1
    BY <1>1, <1>5, <2>5 DEF Reject, Event
  <2> QED
    BY <1>2, <2>2, <2>4, <2>6, NotedKeeps
<1>6. CASE Refuse(c)
  <2>0. Successor(t) \in Targets
    BY <1>2, TargetsFacts
  <2>1. PICK own : own = [x.own EXCEPT !.next = Successor(t), !.at[t] = Restarted(@)]
    OBVIOUS
  <2>2. own \in Cursor /\ \A u \in Targets : Steady(u) => Sound(u, own.at[u])
    BY <1>3, <2>0, <2>1
  <2>3. PICK z : z = [x EXCEPT !.done = @ \cup {t}, !.refused = @ \cup {t}, !.own = own]
    OBVIOUS
  <2>4. z \in Tick /\ z.own = own
    BY <1>2, <2>2, <2>3 DEF Tick
  <2>5. z = [x EXCEPT !.done = @ \cup {t}, !.refused = @ \cup {t},
                      !.own.next = Successor(t), !.own.at[t] = Restarted(@)]
    BY <1>2, <2>1, <2>3 DEF Tick, Cursor
  <2>6. Noted(c, z) /\ events' = events + 1
    BY <1>1, <1>6, <2>5 DEF Refuse, Event
  <2> QED
    BY <1>2, <2>2, <2>4, <2>6, NotedKeeps
<1> QED
  BY <1>4, <1>5, <1>6

(* A call fails, or its job ends.                                          *)
LEMMA EndingKeeps ==
  ASSUME DiscoveryInv, NEW c \in Ticks, Break(c) \/ Settle(c)
  PROVE  DiscoveryInv'
<1>1. ticks[c] \in Tick /\ Idle \in Tick /\ Idle.pc = "idle" /\ DiscoveryTypeOK
  BY TickIs DEF DiscoveryInv
<1>2. PICK x : x = ticks[c]
  OBVIOUS
<1>3. CASE Break(c)
  <2>1. PICK code \in {"quiet", "rate_limited", "failed"} :
           ticks' = [ticks EXCEPT ![c] = Ending(x, code)] /\ events' \in Nat
    BY <1>2, <1>3, RestTyped DEF Break, Event
  <2>2. PICK y : y = Ending(x, code)
    OBVIOUS
  <2>3. y \in Tick /\ y.pc = "ending" /\ y.own = x.own
    BY <1>1, <1>2, <2>2, EndingIs
  <2> QED
    BY <1>2, <1>3, <2>1, <2>2, <2>3, OneTickKeeps, RestTyped DEF Break, provider, accounts, LiveClaim
<1>4. CASE Settle(c)
  <2>1. PICK y : y = [Idle EXCEPT !.pc = "claiming", !.worked = TRUE,
                                  !.aborted = IF x.aborted = "tick" THEN "tick" ELSE "no"]
    OBVIOUS
  <2>2. y \in Tick /\ y.pc = "claiming" /\ y.own = Idle.own
    BY <1>1, <2>1 DEF Tick
  <2>3. ticks' = [ticks EXCEPT ![c] = y]
    BY <1>2, <1>4, <2>1 DEF Settle
  <2>4. source' \in Sources
    BY <1>4, RestTyped DEF Settle, AfterFailure, Sources
  <2>5. job' \in Jobs /\ \A d \in Ticks : LiveClaim(d)' => LiveClaim(d)
    <3>1. CASE job' = job
      BY <3>1, RestTyped DEF LiveClaim
    <3>2. CASE job' = [job EXCEPT !.status = IF x.code = "completed" THEN "succeeded" ELSE "failed",
                                  !.holder = Nobody, !.live = FALSE]
      BY <3>2, RestTyped DEF LiveClaim, Jobs
    <3> QED
      BY <1>2, <1>4, <3>1, <3>2 DEF Settle
  <2> QED
    BY <1>4, <2>2, <2>3, <2>4, <2>5, OneTickKeeps, RestTyped DEF Settle, provider, accounts
<1> QED
  BY <1>3, <1>4


(* A call learns that it lost a lease, is told to stop, or dies.           *)
LEMMA StoppingKeeps ==
  ASSUME DiscoveryInv, NEW c \in Ticks, Notice(c) \/ Shutdown(c) \/ Crash(c)
  PROVE  DiscoveryInv'
<1>1. ticks[c] \in Tick /\ Idle \in Tick /\ Idle.pc = "idle" /\ DiscoveryTypeOK
  BY TickIs DEF DiscoveryInv
<1>2. PICK x : x = ticks[c]
  OBVIOUS
<1>3. CASE Notice(c) \/ Shutdown(c)
  <2>1. PICK aborted \in {"tick", "job"} : ticks' = [ticks EXCEPT ![c].aborted = aborted]
    BY <1>3 DEF Notice, Shutdown
  <2>2. PICK y : y = [x EXCEPT !.aborted = aborted]
    OBVIOUS
  <2>3. y \in Tick /\ y.pc = x.pc /\ y.own = x.own
    BY <1>1, <1>2, <2>2 DEF Tick
  <2>4. ticks' = [ticks EXCEPT ![c] = y]
    BY <1>2, <2>1, <2>2
  <2>5. UNCHANGED <<posts, deleted, stamps, edits, prints, missing, source, cursor, job, scheduler, found>> /\ events' \in Nat
    BY <1>3, RestTyped DEF Notice, Shutdown, Event, provider, accounts
  <2> QED
    BY <1>2, <2>3, <2>4, <2>5, OneTickKeeps, RestTyped DEF LiveClaim
<1>4. CASE Crash(c)
  <2>1. /\ ticks' = [ticks EXCEPT ![c] = Idle] /\ events' \in Nat
        /\ UNCHANGED <<posts, deleted, stamps, edits, prints, missing, source, cursor, found>>
    BY <1>4, RestTyped DEF Crash, Event, provider, accounts
  <2>2. PICK holder : holder = IF job.holder = c THEN Nobody ELSE job.holder
    OBVIOUS
  <2>3. job' = [job EXCEPT !.holder = holder] /\ holder \in Ticks \cup {Nobody}
    BY <1>4, <2>2, RestTyped DEF Crash, Jobs
  <2>4. job' \in Jobs /\ \A d \in Ticks : LiveClaim(d)' => LiveClaim(d)
    BY <2>2, <2>3, RestTyped, DiscoveryAssumption DEF LiveClaim, Jobs
  <2>5. PICK leader : leader = IF scheduler.holder = c THEN Nobody ELSE scheduler.holder
    OBVIOUS
  <2>6. scheduler' = [scheduler EXCEPT !.holder = leader] /\ leader \in Ticks \cup {Nobody}
    BY <1>4, <2>5, RestTyped DEF Crash, Leases
  <2>7. scheduler' \in Leases
    BY <2>6, RestTyped DEF Leases
  <2> QED
    BY <1>1, <2>1, <2>4, <2>7, OneTickKeeps, RestTyped
<1> QED
  BY <1>3, <1>4

(* A lease runs out, under a process or after it.                          *)
LEMMA LapsingKeeps ==
  ASSUME DiscoveryInv, Expire \/ \E c \in Ticks : Stall(c)
  PROVE  DiscoveryInv'
<1>1. /\ job' \in {job, JobLapsed} /\ scheduler' \in {scheduler, SchedulerLapsed}
      /\ UNCHANGED <<posts, deleted, stamps, edits, prints, missing, source, cursor, ticks, found>> /\ events' \in Nat
  BY RestTyped DEF Expire, Stall, Event, provider, accounts
<1>2. job' \in Jobs /\ \A d \in Ticks : LiveClaim(d)' => LiveClaim(d)
  BY <1>1, RestTyped DEF JobLapsed, Jobs, LiveClaim
<1>3. scheduler' \in Leases
  BY <1>1, RestTyped DEF SchedulerLapsed, Leases
<1>4. DiscoveryTypeOK'
  BY <1>1, <1>2, <1>3 DEF DiscoveryInv, DiscoveryTypeOK, Jobs, Leases
<1>5. \A t \in Targets : Grows(t)
  BY <1>1 DEF DiscoveryInv, DiscoveryTypeOK, Grows
<1> QED
  BY <1>1, <1>2, <1>4, <1>5, AsideKeeps

(* A user edits the source or an account behind it, or its backoff passes. *)
LEMMA EditingKeeps ==
  ASSUME DiscoveryInv, Update \/ (\E t \in Targets : EditAccount(t) \/ SwitchAccount(t)) \/ Relent
  PROVE  DiscoveryInv'
<1>0. UNCHANGED <<posts, deleted, stamps, edits, cursor, scheduler, ticks, found>>
  BY DEF Update, EditAccount, SwitchAccount, Invalidated, Relent, provider, accounts
<1>1. UNCHANGED <<posts, deleted, stamps, edits, cursor, scheduler, ticks, found>> /\ events' \in Nat
  <2>1. events' \in {events, events + 1}
    BY DEF Update, EditAccount, SwitchAccount, Invalidated, Relent, Event
  <2> QED
    BY <1>0, <2>1, RestTyped
<1>2. \A S : Changed(S) \in [Targets -> Nat]
  <2> SUFFICES ASSUME NEW S, NEW t \in Targets PROVE prints[t] + (IF t \in S THEN 1 ELSE 0) \in Nat
    BY DEF Changed
  <2> QED
    BY RestTyped
<1>3. prints' \in [Targets -> Nat]
  BY <1>2, RestTyped DEF Update, EditAccount, SwitchAccount, Relent, accounts
<1>9. missing' \in SUBSET Targets
  BY RestTyped DEF Update, EditAccount, SwitchAccount, Relent, accounts
<1>4. source' \in Sources
  <2>1. source \in Sources /\ source.version + 1 \in Nat
    BY RestTyped
  <2>2. PICK version \in Nat, enabled \in BOOLEAN :
           version = source.version + 1 /\ enabled = ~source.enabled
    BY <2>1
  <2>3. \A backoff \in BOOLEAN :
           /\ [enabled |-> enabled, version |-> version, backoff |-> backoff] \in Sources
           /\ [source EXCEPT !.version = version, !.backoff = backoff] \in Sources
           /\ [source EXCEPT !.version = version] \in Sources
           /\ [source EXCEPT !.backoff = backoff] \in Sources
    BY <2>1 DEF Sources
  <2>4. CASE Update
    BY <2>2, <2>3, <2>4 DEF Update
  <2>5. CASE \E t \in Targets : EditAccount(t) \/ SwitchAccount(t)
    BY <2>1, <2>2, <2>3, <2>5 DEF EditAccount, SwitchAccount, Invalidated
  <2>6. CASE Relent
    BY <2>3, <2>6 DEF Relent
  <2> QED
    BY <2>4, <2>5, <2>6
<1>5. job' \in {job, Withdrawn}
  BY DEF Update, EditAccount, SwitchAccount, Invalidated, Relent
<1>6. job' \in Jobs /\ \A d \in Ticks : LiveClaim(d)' => LiveClaim(d)
  BY <1>5, RestTyped DEF Withdrawn, Jobs, LiveClaim
<1>7. DiscoveryTypeOK'
  BY <1>1, <1>3, <1>4, <1>6, <1>9 DEF DiscoveryInv, DiscoveryTypeOK, Jobs, Sources
<1>8. \A t \in Targets : Grows(t)
  BY <1>1 DEF DiscoveryInv, DiscoveryTypeOK, Grows
<1> QED
  BY <1>1, <1>6, <1>7, <1>8, AsideKeeps

(* A post appears, vanishes or moves to the front.                         *)
LEMMA PostingKeeps ==
  ASSUME DiscoveryInv, NEW t \in Targets, Post(t) \/ Delete(t) \/ Edit(t)
  PROVE  DiscoveryInv'
<1>1. /\ UNCHANGED <<prints, missing, source, cursor, job, scheduler, ticks, found>>
      /\ events' \in Nat
  BY RestTyped DEF Post, Delete, Edit, Event, accounts
<1>2. /\ posts \in [Targets -> Nat] /\ deleted \in [Targets -> SUBSET Nat]
      /\ stamps \in [Targets -> [1 .. MaxPosts -> Nat]] /\ edits \in [Targets -> Nat]
      /\ \A u \in Targets : posts[u] <= MaxPosts /\ (u \notin Offset => edits[u] = 0)
      /\ \A u \in Targets : \A k \in 1 .. posts[u] : edits[u] = 0 => stamps[u][k] = k
      /\ MaxPosts \in Nat /\ \A u \in Targets : posts[u] \in Nat /\ edits[u] \in Nat
  BY DiscoveryAssumption DEF DiscoveryInv, DiscoveryTypeOK
<1>3. /\ posts' \in [Targets -> Nat] /\ deleted' \in [Targets -> SUBSET Nat]
      /\ stamps' \in [Targets -> [1 .. MaxPosts -> Nat]] /\ edits' \in [Targets -> Nat]
      /\ \A u \in Targets : posts'[u] <= MaxPosts /\ (u \notin Offset => edits'[u] = 0)
      /\ \A u \in Targets : \A k \in 1 .. posts'[u] : edits'[u] = 0 => stamps'[u][k] = k
      /\ \A u \in Targets : Grows(u)
  <2>1. CASE Post(t)
    <3>1. PICK k, stamp : k = posts[t] + 1 /\ stamp = posts[t] + edits[t] + 1
      OBVIOUS
    <3>2. k \in 1 .. MaxPosts /\ stamp \in Nat /\ (edits[t] = 0 => stamp = k)
      BY <1>2, <2>1, <3>1 DEF Post
    <3>3. posts' = [posts EXCEPT ![t] = k] /\ UNCHANGED <<deleted, edits>>
      BY <2>1, <3>1 DEF Post
    <3>4. PICK row : row = [stamps[t] EXCEPT ![k] = stamp]
      OBVIOUS
    <3>5. stamps' = [stamps EXCEPT ![t] = row]
      BY <1>2, <2>1, <3>1, <3>4 DEF Post
    <3>6. /\ row \in [1 .. MaxPosts -> Nat] /\ row[k] = stamp
          /\ \A i \in 1 .. MaxPosts : i # k => row[i] = stamps[t][i]
      BY <1>2, <3>2, <3>4
    <3>7. \A u \in Targets : posts'[u] <= MaxPosts /\ Grows(u)
      BY <1>2, <3>1, <3>2, <3>3 DEF Grows
    <3>8. \A u \in Targets : \A i \in 1 .. posts'[u] : edits'[u] = 0 => stamps'[u][i] = i
      <4> SUFFICES ASSUME NEW u \in Targets, NEW i \in 1 .. posts'[u], edits[u] = 0
                   PROVE  stamps'[u][i] = i
        BY <3>3
      <4>1. CASE u # t
        BY <1>2, <3>3, <3>5, <4>1
      <4>2. CASE u = t
        <5>1. stamps'[t] = row /\ posts'[t] = k
          BY <1>2, <3>3, <3>5
        <5>2. CASE i = k
          BY <3>2, <3>6, <4>2, <5>1, <5>2
        <5>3. CASE i # k
          <6>1. i \in 1 .. posts[t] /\ i \in 1 .. MaxPosts
            BY <1>2, <3>1, <3>2, <4>2, <5>1, <5>3
          <6> QED
            BY <1>2, <3>6, <4>2, <5>1, <5>3, <6>1
        <5> QED
          BY <5>2, <5>3
      <4> QED
        BY <4>1, <4>2
    <3> QED
      BY <1>2, <3>2, <3>3, <3>5, <3>6, <3>7, <3>8
  <2>2. CASE Delete(t)
    <3>1. PICK k \in Shown(t) : deleted' = [deleted EXCEPT ![t] = @ \cup {k}]
      BY <2>2 DEF Delete
    <3>2. k \in Nat /\ UNCHANGED <<posts, stamps, edits>>
      BY <1>2, <2>2 DEF Shown, Delete
    <3>3. PICK D : D = deleted[t] \cup {k}
      OBVIOUS
    <3>4. D \in SUBSET Nat /\ deleted' = [deleted EXCEPT ![t] = D]
      BY <1>2, <3>1, <3>2, <3>3
    <3>5. deleted' \in [Targets -> SUBSET Nat]
      BY <1>2, <3>4
    <3>6. \A u \in Targets : deleted[u] \subseteq deleted'[u]
      BY <1>2, <3>3, <3>4
    <3> QED
      BY <1>2, <3>2, <3>5, <3>6 DEF Grows
  <2>3. CASE Edit(t)
    <3>1. PICK k \in Shown(t) : stamps' = [stamps EXCEPT ![t][k] = posts[t] + edits[t] + 1]
      BY <2>3 DEF Edit
    <3>2. PICK stamp, row : /\ stamp = posts[t] + edits[t] + 1
                            /\ row = [stamps[t] EXCEPT ![k] = stamp]
      OBVIOUS
    <3>9. k \in 1 .. MaxPosts /\ stamp \in Nat
      BY <1>2, <3>2 DEF Shown
    <3>3. row \in [1 .. MaxPosts -> Nat] /\ stamps' = [stamps EXCEPT ![t] = row]
      BY <1>2, <3>1, <3>2, <3>9
    <3>4. /\ edits' = [edits EXCEPT ![t] = edits[t] + 1] /\ UNCHANGED <<posts, deleted>>
          /\ t \in Offset
      BY <2>3 DEF Edit
    <3>5. edits' \in [Targets -> Nat] /\ \A u \in Targets : edits'[u] = 0 => u # t /\ edits[u] = 0
      BY <1>2, <3>4
    <3>6. stamps' \in [Targets -> [1 .. MaxPosts -> Nat]]
      BY <1>2, <3>3
    <3>7. \A u \in Targets : \A i \in 1 .. posts'[u] : edits'[u] = 0 => stamps'[u][i] = i
      BY <1>2, <3>3, <3>4, <3>5
    <3>8. \A u \in Targets : Grows(u) /\ (u \notin Offset => edits'[u] = 0)
      BY <1>2, <3>4 DEF Grows
    <3> QED
      BY <1>2, <3>4, <3>5, <3>6, <3>7, <3>8
  <2> QED
    BY <2>1, <2>2, <2>3
<1>4. DiscoveryTypeOK'
  BY <1>1, <1>3 DEF DiscoveryInv, DiscoveryTypeOK
<1>5. \A d \in Ticks : LiveClaim(d)' => LiveClaim(d)
  BY <1>1 DEF LiveClaim
<1> QED
  BY <1>1, <1>3, <1>4, <1>5, AsideKeeps

(* Every step keeps the invariant.                                         *)
LEMMA DiscoveryNext == DiscoveryInv /\ [Next]_vars => DiscoveryInv'
<1> SUFFICES ASSUME DiscoveryInv, [Next]_vars PROVE DiscoveryInv'
  OBVIOUS
<1>1. CASE UNCHANGED vars
  <2>1. UNCHANGED <<posts, deleted, stamps, edits, prints, missing, source, cursor, job, scheduler, ticks, found, events>>
    BY <1>1 DEF vars, provider, accounts
  <2>2. DiscoveryTypeOK'
    BY <2>1 DEF DiscoveryInv, DiscoveryTypeOK
  <2>3. \A t \in Targets : Grows(t)
    BY <2>1 DEF DiscoveryInv, DiscoveryTypeOK, Grows
  <2>4. \A d \in Ticks : LiveClaim(d)' => LiveClaim(d)
    BY <2>1 DEF LiveClaim
  <2> QED
    BY <2>1, <2>2, <2>3, <2>4, AsideKeeps
<1>2. CASE Expire \/ \E c \in Ticks : Stall(c)
  BY <1>2, LapsingKeeps
<1>3. CASE Update \/ (\E t \in Targets : EditAccount(t) \/ SwitchAccount(t)) \/ Relent
  BY <1>3, EditingKeeps
<1>4. CASE \E t \in Targets : Post(t) \/ Delete(t) \/ Edit(t)
  BY <1>4, PostingKeeps
<1>5. ASSUME NEW c \in Ticks, Begin(c) \/ Work(c) \/ Notice(c) \/ Reject(c) \/ Refuse(c)
                              \/ Shutdown(c) \/ Crash(c)
      PROVE  DiscoveryInv'
  <2>1. CASE Begin(c) \/ Enqueue(c) \/ Claim(c) \/ End(c)
    BY <2>1, TickKeeps
  <2>2. CASE Open(c)
    BY <2>2, OpenKeeps
  <2>3. CASE Arrive(c)
    BY <2>3, ArriveKeeps
  <2>4. CASE Break(c) \/ Settle(c)
    BY <2>4, EndingKeeps
  <2>5. CASE Reject(c) \/ Refuse(c)
    BY <2>5, StartingOverKeeps
  <2>6. CASE Notice(c) \/ Shutdown(c) \/ Crash(c)
    BY <2>6, StoppingKeeps
  <2> QED
    BY <1>5, <2>1, <2>2, <2>3, <2>4, <2>5, <2>6 DEF Work
<1> QED
  BY <1>1, <1>2, <1>3, <1>4, <1>5 DEF Next

(***************************************************************************)
(* The theorems.                                                           *)
(***************************************************************************)

(* In every reachable state the checkpoints, those stored and those every  *)
(* call holds, claim no more than what persistDiscoveryPage has stored.    *)
THEOREM DiscoveryInvariance == Spec => []DiscoveryInv
<1>1. Init => DiscoveryInv
  BY DiscoveryInit
<1>2. DiscoveryInv /\ [Next]_vars => DiscoveryInv'
  BY DiscoveryNext
<1> QED
  BY <1>1, <1>2, PTL DEF Spec

(* No post is skipped: whatever a target shows up to its watermark has     *)
(* been stored, whichever calls read it and wherever they were cut off.    *)
THEOREM NothingIsMissed == Spec => []NothingMissed
<1>1. DiscoveryInv => NothingMissed
  BY DEF DiscoveryInv, SoundCursor, Sound, Traversed, NothingMissed
<1> QED
  BY <1>1, DiscoveryInvariance, PTL

(* The call that may write the cursor of the source works from the one     *)
(* that is stored: no other has moved it since the call read it.           *)
THEOREM TheCursorIsCurrent == Spec => []CursorIsCurrent
<1>1. DiscoveryInv => CursorIsCurrent
  BY DEF DiscoveryInv, HolderIsCurrent, CursorIsCurrent
<1> QED
  BY <1>1, DiscoveryInvariance, PTL

(* No call leaves a post behind for what its target no longer names: the   *)
(* page it read was of the fingerprint that is current when it is stored.  *)
THEOREM NothingStaleIsStored == Spec => NoStaleResults
<1>1. [Next]_vars => [\A f \in found' \ found : f[2] = prints[f[1]]]_vars
  <2> SUFFICES ASSUME Next, NEW f \in found' \ found PROVE f[2] = prints[f[1]]
    OBVIOUS
  <2>1. PICK c \in Ticks : Arrive(c)
    BY DEF Next, Work, Begin, Enqueue, Claim, End, Open, Break, Settle, Notice, Reject, Refuse,
           Expire, Stall, Shutdown, Crash, Update, EditAccount, SwitchAccount, Post, Delete, Edit,
           Relent
  <2>2. PICK x, t : x = ticks[c] /\ t = x.target
    OBVIOUS
  <2>3. PICK page, on :
           /\ Admitted(c, t) => Stored(c, x, page, on)
           /\ ~Admitted(c, t) => found' = found
    BY <2>1, <2>2, ArriveIs
  <2>4. Admitted(c, t) /\ f \in {<<t, x.own.at[t].print, k>> : k \in page.items}
    BY <2>2, <2>3 DEF Stored
  <2>5. f[1] = t /\ f[2] = x.own.at[t].print
    BY <2>4
  <2>6. prints[t] = x.own.at[t].print
    BY <2>2, <2>4 DEF Admitted
  <2> QED
    BY <2>5, <2>6
<1> QED
  BY <1>1, PTL DEF Spec, NoStaleResults
===========================================================================
