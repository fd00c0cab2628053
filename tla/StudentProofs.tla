--------------------------- MODULE StudentProofs ---------------------------
(***************************************************************************)
(* Proofs about Notices, Attendance and Streaks: what a student and the    *)
(* staff see of days and numbers.  Each is about the specification of the  *)
(* component alone, with the constants of CampusMC.  At the end what the   *)
(* three modules of proofs show is put together for CampusMC itself.       *)
(***************************************************************************)
EXTENDS ContentProofs, FiniteSetTheorems, TLAPS

LEMMA NoticesConstants == IsFiniteSet(Notice) /\ Life \in Nat \ {0}
BY PartsAssumption DEF N!NoticesAssumption, N!IsFiniteSet, IsFiniteSet

LEMMA SameNumber == \A some : N!Cardinality(some) = Cardinality(some)
BY DEF Cardinality, N!Cardinality

-----------------------------------------------------------------------------
(* Notices *)

Written == {"announce", "campaign", "read"}

\* A page that is not late has counted the rows as they are.
PageCounted(r) == calls[r].pc = "page" /\ ~calls[r].late => calls[r].count = Cardinality(N!Unread)

\* A request that has deleted the number, and seen no other stored, will commit
\* when there is none.
StaysDeleted(r) == calls[r].pc \in {"campaign", "read"} /\ ~calls[r].late => ~N!Kept

Number == 0..Cardinality(Notice)
Left   == 0..Life

Called == [pc : {"page"}, count : Number, late : BOOLEAN]
          \cup [pc : {"announce", "campaign", "read"}, notices : SUBSET Notice, late : BOOLEAN]

\* The requests
AtDesk(r) == /\ calls[r] = N!Idle \/ calls[r] \in Called
             /\ calls[r].pc = "announce" => calls[r].notices # {}
             /\ PageCounted(r) /\ StaysDeleted(r)

NoticesInv ==
    /\ notices \in [Notice -> {"none", "unread", "read"}]
    /\ cache \in [count : Number, life : Left] /\ blurred \in BOOLEAN /\ up \in BOOLEAN
    /\ calls = [r \in Request |-> calls[r]] /\ \A r \in Request : AtDesk(r)
    /\ N!BadgeExplained

LEMMA Numbers ==
    /\ Number \subseteq Nat /\ 0 \in Number
    /\ Left \subseteq Nat /\ 0 \in Left /\ Life \in Left /\ \A k \in Left : k > 0 => k - 1 \in Left
<1>1. Cardinality(Notice) \in Nat /\ Life \in Nat
  BY NoticesConstants, FS_CardinalityType
<1>2. QED
  BY <1>1 DEF Number, Left

\* Unread rows can be counted.
LEMMA UnreadCounted == IsFiniteSet(N!Unread) /\ Cardinality(N!Unread) \in Nat /\ Cardinality(N!Unread) \in Number
<1>1. IsFiniteSet(N!Unread) /\ Cardinality(N!Unread) <= Cardinality(Notice)
  BY NoticesConstants, FS_Subset DEF N!Unread
<1>2. Cardinality(N!Unread) \in Nat /\ Cardinality(Notice) \in Nat
  BY <1>1, NoticesConstants, FS_CardinalityType
<1>3. QED
  BY <1>1, <1>2 DEF Number

LEMMA NoticesInit == N!Init => NoticesInv
<1> SUFFICES ASSUME N!Init PROVE NoticesInv
  OBVIOUS
<1>1. /\ notices = [n \in Notice |-> "none"] /\ blurred = FALSE /\ up = TRUE
      /\ cache = [count |-> 0, life |-> 0] /\ calls = [r \in Request |-> N!Idle]
  BY DEF N!Init, N!None
<1>2. cache \in [count : Number, life : Left] /\ ~N!Kept
  BY <1>1, Numbers DEF N!Kept
<1>3. QED
  BY <1>1, <1>2 DEF NoticesInv, AtDesk, PageCounted, StaysDeleted, N!BadgeExplained, N!Idle

\* Only one request moves; no rows change, and no number is stored.
LEMMA OneCalled ==
    ASSUME NoticesInv, NEW r \in Request, NEW q, calls' = [calls EXCEPT ![r] = q],
           q = N!Idle \/ q \in Called,
           q.pc = "announce" => q.notices # {},
           q.pc = "page" /\ ~q.late => q.count = Cardinality(N!Unread),
           q.pc \in {"campaign", "read"} /\ ~q.late => ~N!Kept',
           N!Kept' => N!Kept, UNCHANGED notices
    PROVE  calls' = [a \in Request |-> calls'[a]] /\ \A a \in Request : AtDesk(a)'
<1>1. /\ calls'[r] = q /\ (\A a \in Request : a # r => calls'[a] = calls[a])
      /\ calls' = [a \in Request |-> calls'[a]]
  BY DEF NoticesInv
<1>2. N!Unread' = N!Unread
  BY DEF N!Unread
<1>3. AtDesk(r)'
  BY <1>1, <1>2 DEF AtDesk, PageCounted, StaysDeleted
<1>4. ASSUME NEW a \in Request, a # r PROVE AtDesk(a)'
  BY <1>1, <1>2, <1>4 DEF NoticesInv, AtDesk, PageCounted, StaysDeleted
<1>5. QED
  BY <1>1, <1>3, <1>4

LEMMA CountRowsStep ==
    ASSUME NoticesInv, NEW r \in Request, N!CountRows(r)
    PROVE  NoticesInv'
<1> DEFINE q == [pc |-> "page", count |-> Cardinality(N!Unread), late |-> FALSE]
<1>1. calls' = [calls EXCEPT ![r] = q] /\ UNCHANGED <<notices, cache, blurred, up>>
  BY SameNumber DEF N!CountRows
<1>2. q \in Called /\ q.pc = "page" /\ q.count = Cardinality(N!Unread)
  BY UnreadCounted DEF Called
<1>3. N!Kept' = N!Kept /\ N!Unread' = N!Unread
  BY <1>1 DEF N!Kept, N!Unread
<1>4. calls' = [a \in Request |-> calls'[a]] /\ \A a \in Request : AtDesk(a)'
  <2> HIDE DEF q
  <2> QED
    BY <1>1, <1>2, <1>3, OneCalled
<1>5. QED
  BY <1>1, <1>3, <1>4, SameNumber DEF NoticesInv, N!BadgeExplained

\* Whoever has deleted the number is told that another was stored.
LEMMA StoreCountStep ==
    ASSUME NoticesInv, NEW r \in Request, N!StoreCount(r)
    PROVE  NoticesInv'
<1>1. calls[r].pc = "page" /\ UNCHANGED <<notices, up>> /\ N!Unread' = N!Unread
  BY DEF N!StoreCount, N!Unread
<1>2. calls[r] \in Called /\ calls[r].count \in Number /\ calls[r].late \in BOOLEAN
      /\ (~calls[r].late => calls[r].count = Cardinality(N!Unread))
  BY <1>1 DEF NoticesInv, AtDesk, PageCounted, Called, N!Idle
<1>3. /\ calls' = [a \in Request |-> calls'[a]]
      /\ calls'[r] = N!Idle
      /\ \A a \in Request : a # r =>
            calls'[a] = IF up /\ calls[a].pc \in {"campaign", "read"}
                        THEN [calls[a] EXCEPT !.late = TRUE] ELSE calls[a]
  BY DEF N!StoreCount
<1>4. /\ up  => cache' = [count |-> calls[r].count, life |-> Life] /\ blurred' = calls[r].late
      /\ ~up => UNCHANGED <<cache, blurred>>
  BY DEF N!StoreCount
<1>5. cache' \in [count : Number, life : Left] /\ blurred' \in BOOLEAN
  BY <1>2, <1>4, Numbers DEF NoticesInv
<1>6. ASSUME NEW a \in Request, a # r PROVE AtDesk(a)'
  <2>1. CASE up /\ calls[a].pc \in {"campaign", "read"}
    <3> DEFINE q == [calls[a] EXCEPT !.late = TRUE]
    <3>1. calls[a] \in [pc : {"announce", "campaign", "read"}, notices : SUBSET Notice, late : BOOLEAN]
      BY <2>1 DEF NoticesInv, AtDesk, Called, N!Idle
    <3>2. q \in Called /\ q.pc = calls[a].pc /\ q.late = TRUE
      BY <3>1 DEF Called
    <3>3. calls'[a] = q
      BY <1>3, <1>6, <2>1
    <3> HIDE DEF q
    <3>4. QED
      BY <2>1, <3>2, <3>3 DEF AtDesk, PageCounted, StaysDeleted
  <2>2. CASE ~(up /\ calls[a].pc \in {"campaign", "read"})
    <3>1. calls'[a] = calls[a] /\ (N!Kept' = N!Kept \/ calls[a].pc \notin {"campaign", "read"})
      BY <1>3, <1>4, <1>6, <2>2 DEF N!Kept, NoticesInv
    <3>2. QED
      BY <1>1, <3>1 DEF NoticesInv, AtDesk, PageCounted, StaysDeleted
  <2>3. QED
    BY <2>1, <2>2
<1>7. AtDesk(r)'
  BY <1>3 DEF AtDesk, PageCounted, StaysDeleted, N!Idle
<1>8. N!BadgeExplained'
  BY <1>1, <1>2, <1>4, SameNumber DEF NoticesInv, N!BadgeExplained, N!Kept
<1>9. QED
  BY <1>1, <1>3, <1>5, <1>6, <1>7, <1>8 DEF NoticesInv

\* Deleted, or Redis is away.
LEMMA DeleteStep ==
    ASSUME NoticesInv, N!Delete, UNCHANGED <<notices, up>>
    PROVE  /\ cache' \in [count : Number, life : Left] /\ blurred' \in BOOLEAN
           /\ N!Kept' => N!Kept
           /\ up => ~N!Kept'
           /\ N!BadgeExplained'
<1>1. CASE up
  <2>1. cache' = [count |-> 0, life |-> 0] /\ blurred' = FALSE
    BY <1>1 DEF N!Delete, N!None
  <2>2. cache' \in [count : Number, life : Left] /\ ~N!Kept'
    BY <2>1, Numbers DEF N!Kept
  <2>3. QED
    BY <1>1, <2>1, <2>2 DEF N!BadgeExplained
<1>2. CASE ~up
  <2>1. UNCHANGED <<cache, blurred>> /\ N!Unread' = N!Unread
    BY <1>2 DEF N!Delete, N!Unread
  <2>2. QED
    BY <1>2, <2>1, SameNumber DEF N!Kept, N!BadgeExplained, NoticesInv
<1>3. QED
  BY <1>1, <1>2

LEMMA WriteNoticesStep ==
    ASSUME NoticesInv, NEW r \in Request,
           (\E n \in Notice : N!Announce(r, n) \/ N!Campaign(r, n)) \/ N!ReadAll(r)
    PROVE  NoticesInv'
<1>1. CASE \E n \in Notice : N!Announce(r, n)
  <2>1. PICK n \in Notice : N!Announce(r, n)
    BY <1>1
  <2> DEFINE q == [pc |-> "announce", notices |-> {n}, late |-> FALSE]
  <2>2. calls' = [calls EXCEPT ![r] = q] /\ UNCHANGED <<notices, cache, blurred, up>>
    BY <2>1 DEF N!Announce
  <2>3. q \in Called /\ q.pc = "announce" /\ q.notices # {}
    BY DEF Called
  <2>4. N!Kept' = N!Kept /\ N!Unread' = N!Unread
    BY <2>2 DEF N!Kept, N!Unread
  <2> HIDE DEF q
  <2>5. calls' = [a \in Request |-> calls'[a]] /\ \A a \in Request : AtDesk(a)'
    BY <2>2, <2>3, <2>4, OneCalled
  <2>6. QED
    BY <2>2, <2>4, <2>5, SameNumber DEF NoticesInv, N!BadgeExplained
<1>2. ASSUME NEW some \in SUBSET Notice, NEW kind \in {"campaign", "read"}, N!Delete,
             calls' = [calls EXCEPT ![r] = [pc |-> kind, notices |-> some, late |-> ~up]],
             UNCHANGED <<notices, up>>
      PROVE  NoticesInv'
  <2> DEFINE q == [pc |-> kind, notices |-> some, late |-> ~up]
  <2>1. q \in Called /\ q.pc = kind /\ q.late = ~up
    BY DEF Called, NoticesInv
  <2>2. calls' = [calls EXCEPT ![r] = q]
    BY <1>2
  <2> HIDE DEF q
  <2>3. calls' = [a \in Request |-> calls'[a]] /\ \A a \in Request : AtDesk(a)'
    BY <1>2, <2>1, <2>2, OneCalled, DeleteStep
  <2>4. QED
    BY <1>2, <2>3, DeleteStep DEF NoticesInv
<1>3. CASE \E n \in Notice : N!Campaign(r, n)
  BY <1>2, <1>3 DEF N!Campaign
<1>4. CASE N!ReadAll(r)
  <2>1. N!Unread \in SUBSET Notice
    BY DEF N!Unread
  <2>2. QED
    BY <1>2, <1>4, <2>1 DEF N!ReadAll
<1>5. QED
  BY <1>1, <1>3, <1>4

\* The commit, and the reading of all through the API: the pages that have
\* counted become late, and a number that is kept may be wrong from now on.
LEMMA ChangeStep ==
    ASSUME NoticesInv, NEW done \in SUBSET Request, NEW new \in [Notice -> {"none", "unread", "read"}],
           NEW deleted \in BOOLEAN, N!Change(done, new, deleted), UNCHANGED <<cache, up>>,
           deleted => ~N!Kept \/ new = notices,
           \A r \in done : calls[r].pc # "page"
    PROVE  NoticesInv'
<1>1. notices' = new /\ blurred' = (N!Kept /\ (blurred \/ ~deleted))
  BY DEF N!Change
<1>2. /\ calls' = [a \in Request |-> calls'[a]]
      /\ \A a \in done : calls'[a] = N!Idle
      /\ \A a \in Request \ done :
            calls'[a] = IF calls[a].pc = "page" THEN [calls[a] EXCEPT !.late = TRUE] ELSE calls[a]
  BY DEF N!Change
<1>3. N!Kept' = N!Kept /\ blurred' \in BOOLEAN
  BY <1>1 DEF N!Kept
<1>4. ASSUME NEW a \in Request PROVE AtDesk(a)'
  <2>1. CASE a \in done
    BY <1>2, <2>1 DEF AtDesk, PageCounted, StaysDeleted, N!Idle
  <2>2. CASE a \notin done /\ calls[a].pc = "page"
    <3> DEFINE q == [calls[a] EXCEPT !.late = TRUE]
    <3>1. calls[a] \in [pc : {"page"}, count : Number, late : BOOLEAN]
      BY <2>2 DEF NoticesInv, AtDesk, Called, N!Idle
    <3>2. q \in Called /\ q.pc = "page" /\ q.late = TRUE
      BY <3>1 DEF Called
    <3>3. calls'[a] = q
      BY <1>2, <2>2
    <3> HIDE DEF q
    <3>4. QED
      BY <3>2, <3>3 DEF AtDesk, PageCounted, StaysDeleted
  <2>3. CASE a \notin done /\ calls[a].pc # "page"
    BY <1>2, <1>3, <2>3 DEF NoticesInv, AtDesk, PageCounted, StaysDeleted
  <2>4. QED
    BY <2>1, <2>2, <2>3
<1>5. N!BadgeExplained'
  <2> SUFFICES ASSUME N!Kept', ~blurred' PROVE cache'.count = Cardinality(N!Unread)'
    BY SameNumber DEF N!BadgeExplained
  <2>1. ~blurred /\ deleted /\ N!Kept
    BY <1>1, <1>3
  <2>2. notices' = notices
    BY <1>1, <2>1
  <2>3. N!Unread' = N!Unread
    BY <2>2 DEF N!Unread
  <2>4. QED
    BY <2>1, <2>3, SameNumber DEF NoticesInv, N!BadgeExplained
<1>6. QED
  BY <1>1, <1>2, <1>3, <1>4, <1>5 DEF NoticesInv

LEMMA CommitNoticesStep ==
    ASSUME NoticesInv, NEW r \in Request, N!Commit(r)
    PROVE  NoticesInv'
<1>1. /\ calls[r].pc \in {"announce", "campaign", "read"}
      /\ N!Change({r}, N!Written(calls[r]), calls[r].pc # "announce" /\ ~calls[r].late)
      /\ UNCHANGED <<cache, up>>
  BY DEF N!Commit
<1>2. N!Written(calls[r]) \in [Notice -> {"none", "unread", "read"}]
  BY DEF N!Written, NoticesInv
<1> DEFINE deleted == calls[r].pc # "announce" /\ ~calls[r].late
<1>3. deleted => ~N!Kept
  BY <1>1 DEF NoticesInv, AtDesk, StaysDeleted
<1>4. (deleted) \in BOOLEAN
  OBVIOUS
<1>5. {r} \in SUBSET Request /\ \A a \in {r} : calls[a].pc # "page"
  BY <1>1
<1>6. N!Change({r}, N!Written(calls[r]), deleted)
  BY <1>1
<1> HIDE DEF deleted
<1>7. QED
  BY <1>1, <1>2, <1>3, <1>4, <1>5, <1>6, ChangeStep

LEMMA ReadAllApiStep ==
    ASSUME NoticesInv, N!ReadAllApi
    PROVE  NoticesInv'
<1> DEFINE new == [n \in Notice |-> IF n \in N!Unread THEN "read" ELSE notices[n]]
           none == N!Unread = {}
<1>1. N!Change({}, new, none) /\ UNCHANGED <<cache, up>>
  BY DEF N!ReadAllApi
<1>2. new \in [Notice -> {"none", "unread", "read"}] /\ (none) \in BOOLEAN
  BY DEF NoticesInv
<1>3. none => new = notices
  BY DEF NoticesInv
<1>4. {} \in SUBSET Request /\ \A a \in {} : calls[a].pc # "page"
  OBVIOUS
<1> HIDE DEF new, none
<1>5. QED
  BY <1>1, <1>2, <1>3, <1>4, ChangeStep

LEMMA RollbackStep ==
    ASSUME NoticesInv, NEW r \in Request, N!Rollback(r)
    PROVE  NoticesInv'
<1>1. calls' = [calls EXCEPT ![r] = N!Idle] /\ UNCHANGED <<notices, cache, blurred, up>>
  BY DEF N!Rollback
<1>2. N!Kept' = N!Kept /\ N!Unread' = N!Unread
  BY <1>1 DEF N!Kept, N!Unread
<1>3. calls' = [a \in Request |-> calls'[a]] /\ \A a \in Request : AtDesk(a)'
  BY <1>1, <1>2, OneCalled DEF N!Idle
<1>4. QED
  BY <1>1, <1>2, <1>3, SameNumber DEF NoticesInv, N!BadgeExplained

LEMMA TickStep ==
    ASSUME NoticesInv, N!Tick
    PROVE  NoticesInv'
<1>1. /\ N!Kept /\ cache' = IF cache.life = 1 THEN N!None ELSE [cache EXCEPT !.life = @ - 1]
      /\ blurred' = (blurred /\ cache.life > 1) /\ UNCHANGED <<notices, up, calls>>
      /\ N!Unread' = N!Unread
  BY DEF N!Tick, N!Unread
<1>2. cache \in [count : Number, life : Left] /\ cache.life \in Nat /\ cache.life \in Left
  BY Numbers DEF NoticesInv
<1>3. \/ cache.life = 1 /\ cache' = [count |-> 0, life |-> 0]
      \/ cache.life > 1 /\ cache' = [cache EXCEPT !.life = @ - 1]
  BY <1>1, <1>2 DEF N!Kept, N!None
<1>4. /\ cache' \in [count : Number, life : Left]
      /\ N!Kept' => cache.life > 1 /\ cache'.count = cache.count
  BY <1>2, <1>3, Numbers DEF N!Kept
<1>5. blurred' \in BOOLEAN /\ N!BadgeExplained'
  BY <1>1, <1>4, SameNumber DEF NoticesInv, N!BadgeExplained
<1>6. \A a \in Request : AtDesk(a)'
  BY <1>1, SameNumber DEF NoticesInv, AtDesk, PageCounted, StaysDeleted
<1>7. QED
  BY <1>1, <1>4, <1>5, <1>6 DEF NoticesInv

LEMMA NoticesStep == NoticesInv /\ [N!Next]_(N!vars) => NoticesInv'
<1> SUFFICES ASSUME NoticesInv, [N!Next]_(N!vars) PROVE NoticesInv'
  OBVIOUS
<1>1. UNCHANGED <<notices, cache, blurred, calls>> /\ up' \in BOOLEAN => NoticesInv'
  BY DEF NoticesInv, AtDesk, PageCounted, StaysDeleted, N!BadgeExplained, N!Kept, N!Unread
<1>2. CASE UNCHANGED N!vars
  BY <1>1, <1>2 DEF N!vars, NoticesInv
<1>3. CASE N!GoDown \/ N!ComeBack \/ N!Register \/ N!Unregister
  BY <1>1, <1>3 DEF N!GoDown, N!ComeBack, N!Register, N!Unregister, NoticesInv
<1>4. ASSUME NEW n \in Notice, N!Pick(n) \/ \E answer \in {"taken", "failed", "unregistered"} : N!Send(n, answer)
      PROVE  NoticesInv'
  BY <1>1, <1>4 DEF N!Pick, N!Send, NoticesInv
<1>5. CASE \E r \in Request :
              \/ N!CountRows(r) \/ N!StoreCount(r) \/ N!ReadAll(r) \/ N!Commit(r) \/ N!Rollback(r)
              \/ \E n \in Notice : N!Announce(r, n) \/ N!Campaign(r, n)
  BY <1>5, CountRowsStep, StoreCountStep, WriteNoticesStep, CommitNoticesStep, RollbackStep
<1>6. CASE N!ReadAllApi \/ N!Tick
  BY <1>6, ReadAllApiStep, TickStep
<1>7. QED
  BY <1>2, <1>3, <1>4, <1>5, <1>6 DEF N!Next

LEMMA NoticesHolds == N!Spec => []NoticesInv
BY NoticesInit, NoticesStep, PTL DEF N!Spec

\* The number on the badge is that of the unread notifications as long as nobody
\* has changed the rows without deleting it, counted across a commit, or found
\* Redis away when it was to be deleted (services/communications.py:136).
THEOREM BadgeExplainedHolds == N!Spec => []BadgeExplained
<1>1. NoticesInv => BadgeExplained
  BY DEF NoticesInv, BadgeExplained
<1>2. QED
  BY <1>1, NoticesHolds, PTL

\* Pushes that hold a slot of the executor
Holding == {n \in Notice : pool[n] # "no"}

PoolInv ==
    /\ pool \in [Notice -> {"no", "queued", "sending"}] /\ pushed \subseteq Notice
    /\ \A n \in Notice : pool[n] # "no" \/ n \in pushed => notices[n] # "none"
    /\ N!Slots >= 0

\* The slots are enough as long as no more notifications hold one.
LEMMA SlotsKept ==
    ASSUME NoticesInv, PoolInv, Holding' \subseteq Holding
    PROVE  N!Slots' >= 0
<1>1. IsFiniteSet(Holding) /\ N!Slots = MaxPending - Cardinality(Holding)
  BY NoticesConstants, FS_Subset, SameNumber DEF Holding, N!Slots
<1>2. N!Slots' = MaxPending - Cardinality(Holding')
  BY SameNumber DEF Holding, N!Slots
<1>3. /\ Cardinality(Holding') <= Cardinality(Holding) /\ Cardinality(Holding') \in Nat
      /\ Cardinality(Holding) \in Nat
  BY <1>1, FS_Subset, FS_CardinalityType
<1>4. MaxPending \in Nat
  BY PartsAssumption DEF N!NoticesAssumption
<1>5. QED
  BY <1>1, <1>2, <1>3, <1>4 DEF PoolInv

\* An announcement that is committed takes a slot if there is one.
LEMMA SlotTaken ==
    ASSUME NoticesInv, PoolInv, NEW n \in Notice, pool' = N!Submitted(n)
    PROVE  /\ pool' \in [Notice -> {"no", "queued", "sending"}]
           /\ \A k \in Notice : pool'[k] = "no" \/ pool'[k] = pool[k] \/ k = n
           /\ N!Slots' >= 0
<1>1. CASE N!Slots > 0
  <2>1. pool' = [pool EXCEPT ![n] = "queued"]
    BY <1>1 DEF N!Submitted
  <2>2. /\ pool' \in [Notice -> {"no", "queued", "sending"}]
        /\ \A k \in Notice : pool'[k] = pool[k] \/ k = n
    BY <2>1 DEF PoolInv
  <2>3. Holding' \subseteq Holding \cup {n}
    BY <2>2 DEF Holding
  <2>4. IsFiniteSet(Holding) /\ N!Slots = MaxPending - Cardinality(Holding)
    BY NoticesConstants, FS_Subset, SameNumber DEF Holding, N!Slots
  <2>5. N!Slots' = MaxPending - Cardinality(Holding')
    BY SameNumber DEF Holding, N!Slots
  <2>6. /\ IsFiniteSet(Holding \cup {n}) /\ Cardinality(Holding) \in Nat
        /\ Cardinality(Holding \cup {n}) <= Cardinality(Holding) + 1
    <3>1. IsFiniteSet(Holding \cup {n}) /\ Cardinality(Holding) \in Nat
      BY <2>4, FS_AddElement, FS_CardinalityType
    <3>2. CASE n \in Holding
      <4>1. Holding \cup {n} = Holding
        BY <3>2
      <4>2. QED
        BY <3>1, <4>1
    <3>3. CASE n \notin Holding
      <4>1. Cardinality(Holding \cup {n}) = Cardinality(Holding) + 1
        BY <2>4, <3>3, FS_AddElement
      <4>2. QED
        BY <3>1, <4>1
    <3>4. QED
      BY <3>2, <3>3
  <2>7. Cardinality(Holding') <= Cardinality(Holding) + 1 /\ Cardinality(Holding') \in Nat
    BY <2>3, <2>6, FS_Subset, FS_CardinalityType
  <2>8. MaxPending \in Nat
    BY PartsAssumption DEF N!NoticesAssumption
  <2>9. N!Slots' >= 0
    BY <1>1, <2>4, <2>5, <2>6, <2>7, <2>8
  <2>10. QED
    BY <2>2, <2>9
<1>2. CASE ~(N!Slots > 0)
  <2>1. pool' = pool
    BY <1>2 DEF N!Submitted
  <2>2. QED
    BY <2>1 DEF PoolInv, N!Slots
<1>3. QED
  BY <1>1, <1>2

LEMMA PoolStep == NoticesInv /\ PoolInv /\ [N!Next]_(N!vars) => PoolInv'
<1> SUFFICES ASSUME NoticesInv, PoolInv, [N!Next]_(N!vars) PROVE PoolInv'
  OBVIOUS
<1>1. ASSUME UNCHANGED <<pool, pushed>>, \A n \in Notice : notices[n] # "none" => notices'[n] # "none"
      PROVE  PoolInv'
  BY <1>1 DEF PoolInv, N!Slots
<1>2. CASE UNCHANGED N!vars
  BY <1>1, <1>2 DEF N!vars
<1>3. CASE N!Tick \/ N!GoDown \/ N!ComeBack \/ N!Register \/ N!Unregister
  BY <1>1, <1>3 DEF N!Tick, N!GoDown, N!ComeBack, N!Register, N!Unregister
<1>4. CASE N!ReadAllApi
  <2>1. /\ notices' = [n \in Notice |-> IF n \in N!Unread THEN "read" ELSE notices[n]]
        /\ UNCHANGED <<pool, pushed>>
    BY <1>4 DEF N!ReadAllApi, N!Change
  <2>2. QED
    BY <1>1, <2>1
<1>5. ASSUME NEW r \in Request,
             \/ N!CountRows(r) \/ N!StoreCount(r) \/ N!ReadAll(r) \/ N!Rollback(r)
             \/ \E n \in Notice : N!Announce(r, n) \/ N!Campaign(r, n)
      PROVE  PoolInv'
  BY <1>1, <1>5 DEF N!CountRows, N!StoreCount, N!ReadAll, N!Rollback, N!Announce, N!Campaign
<1>6. ASSUME NEW r \in Request, N!Commit(r) PROVE PoolInv'
  <2>1. /\ calls[r].pc \in {"announce", "campaign", "read"} /\ notices' = N!Written(calls[r])
        /\ pool' = IF calls[r].pc = "announce"
                   THEN N!Submitted(CHOOSE n \in calls[r].notices : TRUE) ELSE pool
        /\ pushed' = pushed
    BY <1>6 DEF N!Commit, N!Change
  <2>2. /\ \A n \in Notice : notices[n] # "none" => notices'[n] # "none"
        /\ calls[r].pc = "announce" =>
              \A n \in Notice : n \in calls[r].notices => notices'[n] # "none"
    BY <2>1 DEF N!Written
  <2>3. CASE calls[r].pc = "announce"
    <3>1. calls[r].notices # {} /\ calls[r].notices \subseteq Notice
      BY <2>3 DEF NoticesInv, AtDesk, Called, N!Idle
    <3>2. PICK n \in calls[r].notices : n = CHOOSE k \in calls[r].notices : TRUE
      BY <3>1
    <3>3. n \in Notice /\ notices'[n] # "none" /\ pool' = N!Submitted(n)
      BY <2>1, <2>2, <2>3, <3>1, <3>2
    <3>4. QED
      BY <2>1, <2>2, <3>3, SlotTaken DEF PoolInv
  <2>4. CASE calls[r].pc # "announce"
    BY <1>1, <2>1, <2>2, <2>4
  <2>5. QED
    BY <2>3, <2>4
<1>7. ASSUME NEW n \in Notice, NEW to \in {"no", "sending"}, pool[n] # "no",
             pool' = [pool EXCEPT ![n] = to], notices' = notices,
             pushed' = pushed \/ pushed' = pushed \cup {n}
      PROVE  PoolInv'
  <2>1. /\ pool' \in [Notice -> {"no", "queued", "sending"}] /\ pushed' \subseteq Notice
        /\ \A k \in Notice : pool'[k] # "no" \/ k \in pushed' => pool[k] # "no" \/ k \in pushed
    BY <1>7 DEF PoolInv
  <2>2. Holding' \subseteq Holding
    BY <1>7 DEF Holding, PoolInv
  <2>3. QED
    BY <1>7, <2>1, <2>2, SlotsKept DEF PoolInv
<1>8. ASSUME NEW n \in Notice, N!Pick(n) PROVE PoolInv'
  BY <1>7, <1>8 DEF N!Pick
<1>9. ASSUME NEW n \in Notice, NEW answer \in {"taken", "failed", "unregistered"}, N!Send(n, answer)
      PROVE  PoolInv'
  BY <1>7, <1>9 DEF N!Send
<1>10. QED
  BY <1>2, <1>3, <1>4, <1>5, <1>6, <1>8, <1>9 DEF N!Next

LEMMA PoolInit == N!Init => PoolInv
<1> SUFFICES ASSUME N!Init PROVE PoolInv
  OBVIOUS
<1>1. pool = [n \in Notice |-> "no"] /\ pushed = {}
  BY DEF N!Init
<1>2. {n \in Notice : pool[n] # "no"} = {}
  BY <1>1
<1>3. N!Slots >= 0
  BY <1>2, FS_EmptySet, SameNumber, PartsAssumption DEF N!Slots, N!NoticesAssumption
<1>4. QED
  BY <1>1, <1>3 DEF PoolInv

\* The executor never holds more pushes than it has slots (push.py:96), and a push
\* is handed to it, or taken by FCM, only for a notification that is committed:
\* the hooks of the session run after the commit.
THEOREM PushesCommittedHolds ==
    N!Spec => [](/\ N!Slots >= 0
                 /\ \A n \in Notice : pool[n] # "no" \/ n \in pushed => notices[n] # "none")
<1>1. N!Init => NoticesInv /\ PoolInv
  BY NoticesInit, PoolInit
<1>2. NoticesInv /\ PoolInv /\ [N!Next]_(N!vars) => (NoticesInv /\ PoolInv)'
  BY NoticesStep, PoolStep
<1>3. PoolInv => /\ N!Slots >= 0
                 /\ \A n \in Notice : pool[n] # "no" \/ n \in pushed => notices[n] # "none"
  BY DEF PoolInv
<1>4. QED
  BY <1>1, <1>2, <1>3, PTL DEF N!Spec

\* The types of Notices need both invariants and that of the phone.
LEMMA NoticesTypes == N!Spec => []N!NoticesTypeOK
<1>1. N!Init => NoticesInv /\ PoolInv /\ phone \in {"on", "off"}
  BY NoticesInit, PoolInit DEF N!Init
<1>2. phone \in {"on", "off"} /\ [N!Next]_(N!vars) => phone' \in {"on", "off"}
  BY DEF N!Next, N!vars, N!CountRows, N!StoreCount, N!ReadAll, N!Commit, N!Rollback, N!Announce, N!Campaign,
         N!ReadAllApi, N!Tick, N!GoDown, N!ComeBack, N!Register, N!Unregister, N!Pick, N!Send
<1>3. NoticesInv /\ PoolInv /\ phone \in {"on", "off"} /\ [N!Next]_(N!vars)
        => (NoticesInv /\ PoolInv /\ phone \in {"on", "off"})'
  BY <1>2, NoticesStep, PoolStep
<1>4. NoticesInv /\ PoolInv /\ phone \in {"on", "off"} => N!NoticesTypeOK
  <2> SUFFICES ASSUME NoticesInv, PoolInv, phone \in {"on", "off"} PROVE N!NoticesTypeOK
    OBVIOUS
  <2>1. cache \in [count : 0..N!Cardinality(Notice), life : 0..Life]
    BY SameNumber DEF NoticesInv, Number, Left
  <2>2. \A r \in Request : calls[r] = N!Idle \/ calls[r] \in N!Requests
    BY SameNumber DEF NoticesInv, AtDesk, Called, Number, N!Requests
  <2>3. QED
    BY <2>1, <2>2 DEF NoticesInv, PoolInv, N!NoticesTypeOK
<1>5. QED
  BY <1>1, <1>3, <1>4, PTL DEF N!Spec

-----------------------------------------------------------------------------
(* Attendance *)

LEMMA PupilsFinite == IsFiniteSet(Pupil) /\ LastDate \in Nat \ {0}
BY PartsAssumption DEF A!AttendanceAssumption, A!IsFiniteSet, IsFiniteSet

LEMMA SameHeadcount == \A some : A!Cardinality(some) = Cardinality(some)
BY DEF Cardinality, A!Cardinality

\* The rows know only days on which the student came, and a day they do not know
\* was followed by one on which the student came again.
RowsRemember(p) ==
    /\ dates[p] \subseteq came[p]
    /\ \A d \in came[p] : d <= date /\ (d \in dates[p] \/ \E e \in came[p] : e > d)

AttendanceInv == A!AttendanceTypeOK /\ \A p \in Pupil : RowsRemember(p)

LEMMA AttendanceInit == A!Init => AttendanceInv
BY PupilsFinite DEF A!Init, AttendanceInv, A!AttendanceTypeOK, RowsRemember, A!Date, A!Statuses

\* A row of today is written, and perhaps another goes for it.
LEMMA ComeStep ==
    ASSUME AttendanceInv, NEW p \in Pupil, NEW gone,
           dates' = [dates EXCEPT ![p] = (@ \ gone) \cup {date}],
           came' = [came EXCEPT ![p] = @ \cup {date}], UNCHANGED <<date, enabled, mark>>
    PROVE  AttendanceInv'
<1>1. /\ dates'[p] = (dates[p] \ gone) \cup {date} /\ came'[p] = came[p] \cup {date}
      /\ \A x \in Pupil : x # p => dates'[x] = dates[x] /\ came'[x] = came[x]
      /\ dates' \in [Pupil -> SUBSET A!Date] /\ came' \in [Pupil -> SUBSET A!Date]
  BY DEF AttendanceInv, A!AttendanceTypeOK
<1>2. A!AttendanceTypeOK'
  BY <1>1 DEF AttendanceInv, A!AttendanceTypeOK
<1>3. RowsRemember(p)'
  <2>1. RowsRemember(p) /\ date \in Nat /\ came[p] \subseteq Nat
    BY PupilsFinite DEF AttendanceInv, A!AttendanceTypeOK, A!Date
  <2>2. ASSUME NEW d \in came'[p] PROVE d <= date /\ (d \in dates'[p] \/ \E e \in came'[p] : e > d)
    <3>1. d \in Nat /\ d <= date /\ date \in came'[p]
      BY <1>1, <2>1, <2>2 DEF RowsRemember
    <3>2. CASE d = date
      BY <1>1, <3>1, <3>2
    <3>3. CASE d # date
      BY <2>1, <3>1, <3>3
    <3>4. QED
      BY <3>2, <3>3
  <2>3. QED
    BY <1>1, <2>1, <2>2 DEF RowsRemember
<1>4. ASSUME NEW x \in Pupil, x # p PROVE RowsRemember(x)'
  BY <1>1, <1>4 DEF AttendanceInv, RowsRemember
<1>5. QED
  BY <1>2, <1>3, <1>4 DEF AttendanceInv

LEMMA AttendanceStep == AttendanceInv /\ [A!Next]_(A!vars) => AttendanceInv'
<1> SUFFICES ASSUME AttendanceInv, [A!Next]_(A!vars) PROVE AttendanceInv'
  OBVIOUS
<1>1. UNCHANGED <<date, dates, came>> /\ A!AttendanceTypeOK' => AttendanceInv'
  BY DEF AttendanceInv, RowsRemember
<1>2. CASE UNCHANGED A!vars
  BY <1>1, <1>2 DEF A!vars, AttendanceInv, A!AttendanceTypeOK
<1>3. ASSUME NEW p \in Pupil, A!NewRow(p) PROVE AttendanceInv'
  <2>1. /\ dates' = [dates EXCEPT ![p] = (@ \ {}) \cup {date}]
        /\ came' = [came EXCEPT ![p] = @ \cup {date}] /\ UNCHANGED <<date, enabled, mark>>
    BY <1>3 DEF A!NewRow
  <2>2. QED
    BY <2>1, ComeStep
<1>4. ASSUME NEW p \in Pupil, NEW d \in A!Date, A!Touch(p, d) PROVE AttendanceInv'
  BY <1>4, ComeStep DEF A!Touch
<1>5. ASSUME NEW p \in Pupil, NEW d \in A!Date, NEW status \in A!Statuses, A!Mark(p, d, status)
      PROVE  AttendanceInv'
  <2>1. mark' = [mark EXCEPT ![p][d] = status] /\ UNCHANGED <<date, enabled, dates, came>>
    BY <1>5 DEF A!Mark
  <2>2. mark' \in [Pupil -> [A!Date -> A!Statuses \cup {"none"}]]
    BY <2>1 DEF AttendanceInv, A!AttendanceTypeOK
  <2>3. QED
    BY <1>1, <2>1, <2>2 DEF AttendanceInv, A!AttendanceTypeOK
<1>6. ASSUME NEW p \in Pupil, A!Switch(p) PROVE AttendanceInv'
  BY <1>1, <1>6 DEF A!Switch, AttendanceInv, A!AttendanceTypeOK
<1>7. CASE A!Midnight
  <2>1. date \in Nat /\ \A p \in Pupil : came[p] \subseteq Nat
    BY PupilsFinite DEF AttendanceInv, A!AttendanceTypeOK, A!Date
  <2>2. date' = date + 1 /\ date' \in A!Date /\ UNCHANGED <<enabled, dates, mark, came>>
    BY <1>7, <2>1, PupilsFinite DEF A!Midnight, A!Date
  <2>3. ASSUME NEW p \in Pupil, NEW d \in came[p] PROVE d <= date'
    BY <2>1, <2>2, <2>3 DEF AttendanceInv, RowsRemember
  <2>4. QED
    BY <2>2, <2>3 DEF AttendanceInv, A!AttendanceTypeOK, RowsRemember
<1>8. QED
  BY <1>2, <1>3, <1>4, <1>5, <1>6, <1>7 DEF A!Next

LEMMA AttendanceHolds == A!Spec => []AttendanceInv
BY AttendanceInit, AttendanceStep, PTL DEF A!Spec

LEMMA DisjointCount ==
    ASSUME NEW some, IsFiniteSet(some), NEW others, IsFiniteSet(others), some \cap others = {}
    PROVE  /\ IsFiniteSet(some \cup others)
           /\ Cardinality(some \cup others) = Cardinality(some) + Cardinality(others)
BY FS_Union, FS_EmptySet, FS_CardinalityType

\* Every student with an active account is in one of the three lists of a day.
LEMMA ListsAdd ==
    ASSUME AttendanceInv, NEW d \in A!Date, NEW status \in A!Statuses
    PROVE  /\ A!Metrics(d)[status] = A!Cardinality(A!Listed(d, status))
           /\ A!Listed(d, status) = {p \in enabled : A!Resolved(p, d) = status}
<1>1. IsFiniteSet(enabled) /\ \A p \in enabled : mark[p][d] \in {"present", "absent", "excused", "none"}
  BY PupilsFinite, FS_Subset DEF AttendanceInv, A!AttendanceTypeOK, A!Statuses
<1> DEFINE away    == {p \in enabled : mark[p][d] = "none" /\ ~A!Active(p, d)}
           present == A!Marked(d, "present") \cup A!AutoPresent(d)
           onLeave == A!Marked(d, "excused")
           absent  == A!Marked(d, "absent") \cup away
<1>2. /\ IsFiniteSet(A!Marked(d, "present")) /\ IsFiniteSet(A!AutoPresent(d)) /\ IsFiniteSet(onLeave)
      /\ IsFiniteSet(absent)
  BY <1>1, FS_Subset DEF A!Marked, A!AutoPresent
<1>3. /\ A!Listed(d, "present") = present /\ A!Listed(d, "excused") = onLeave
      /\ A!Listed(d, "absent") = absent
  BY DEF A!Listed, A!AutoPresent
<1>4. A!Marked(d, "present") \cap A!AutoPresent(d) = {}
  BY DEF A!Marked, A!AutoPresent
<1>5. /\ IsFiniteSet(present)
      /\ Cardinality(present) = Cardinality(A!Marked(d, "present")) + Cardinality(A!AutoPresent(d))
  BY <1>2, <1>4, DisjointCount
<1>6. enabled = (present \cup onLeave) \cup absent
  BY <1>1 DEF A!Marked, A!AutoPresent
<1>7. present \cap onLeave = {} /\ (present \cup onLeave) \cap absent = {}
  BY DEF A!Marked, A!AutoPresent
<1>8. Cardinality(enabled) = Cardinality(present) + Cardinality(onLeave) + Cardinality(absent)
  <2> HIDE DEF present, onLeave, absent
  <2>1. /\ IsFiniteSet(present \cup onLeave)
        /\ Cardinality(present \cup onLeave) = Cardinality(present) + Cardinality(onLeave)
    BY <1>2, <1>5, <1>7, DisjointCount
  <2>2. QED
    BY <1>2, <1>6, <1>7, <2>1, DisjointCount
<1>9. /\ Cardinality(present) \in Nat /\ Cardinality(onLeave) \in Nat /\ Cardinality(absent) \in Nat
  BY <1>2, <1>5, FS_CardinalityType
<1>10. /\ A!Metrics(d).present = Cardinality(present) /\ A!Metrics(d).excused = Cardinality(onLeave)
       /\ A!Metrics(d).absent = Cardinality(absent)
  <2> DEFINE there == Cardinality(present)
             leave == Cardinality(onLeave)
             rest  == Cardinality(enabled) - there - leave
  <2>1. A!Metrics(d) = [present |-> there, excused |-> leave, absent |-> IF rest > 0 THEN rest ELSE 0]
    BY <1>5, SameHeadcount DEF A!Metrics
  <2>2. rest = Cardinality(absent)
    <3> HIDE DEF present, onLeave, absent
    <3> QED
      BY <1>8, <1>9
  <2> HIDE DEF rest, there, leave
  <2>3. (IF rest > 0 THEN rest ELSE 0) = Cardinality(absent)
    BY <1>9, <2>2
  <2>4. QED
    BY <2>1, <2>3 DEF there, leave
<1>11. A!Metrics(d)[status] = A!Cardinality(A!Listed(d, status))
  <2> HIDE DEF present, onLeave, absent
  <2>1. status = "present" \/ status = "excused" \/ status = "absent"
    BY DEF A!Statuses
  <2>2. QED
    BY <1>3, <1>10, <2>1, SameHeadcount
<1>12. A!Listed(d, status) = {p \in enabled : A!Resolved(p, d) = status}
  <2>1. CASE status = "present"
    BY <1>1, <1>3, <2>1 DEF A!Resolved, A!Marked, A!AutoPresent
  <2>2. CASE status = "excused"
    BY <1>1, <1>3, <2>2 DEF A!Resolved, A!Marked
  <2>3. CASE status = "absent"
    BY <1>1, <1>3, <2>3 DEF A!Resolved, A!Marked
  <2>4. QED
    BY <2>1, <2>2, <2>3 DEF A!Statuses
<1>13. QED
  BY <1>11, <1>12

\* Totals, filters, table and weekly report say the same of every day
\* (services/community.py:101), and of students without a mark what happened,
\* except that a day is lost once the student comes back and the row takes the
\* later date.
THEOREM AttendanceExplainedHolds == A!Spec => []AttendanceExplained
<1>1. AttendanceInv => AttendanceExplained
  <2> SUFFICES ASSUME AttendanceInv PROVE A!AttendanceExplained
    BY DEF AttendanceExplained
  <2>1. ASSUME NEW d \in A!Date, NEW p \in Pupil, mark[p][d] = "none"
        PROVE  /\ A!Weekly(p, d) = "present" => d \in came[p]
               /\ A!Weekly(p, d) = "absent" /\ d \in came[p] => \E e \in came[p] : e > d
    BY <2>1 DEF A!Weekly, AttendanceInv, RowsRemember
  <2>2. QED
    BY <2>1, ListsAdd DEF A!AttendanceExplained
<1>2. QED
  BY <1>1, AttendanceHolds, PTL

-----------------------------------------------------------------------------
(* Streaks *)

LEMMA StreaksConstants == LastVisit \in Nat \ {0}
BY PartsAssumption DEF K!StreaksAssumption

LEMMA SameDays == \A some : K!Cardinality(some) = Cardinality(some)
BY DEF Cardinality, K!Cardinality

LEMMA GreatestIs ==
    ASSUME NEW some \in SUBSET Int, NEW m \in some, \A k \in some : k <= m
    PROVE  K!Max(some) = m
<1>1. \A x \in some : (\A y \in some : x >= y) => x = m
  OBVIOUS
<1>2. \A y \in some : m >= y
  OBVIOUS
<1>3. QED
  BY <1>1, <1>2 DEF K!Max

\* The row ends with the latest day; the current streak is the days in a row up
\* to it, and the best is some day's and no day's is greater.
RowCounts ==
    /\ streak.last \in visited /\ \A d \in visited : d <= streak.last
    /\ streak.current = K!DaysInARow(streak.last)
    /\ \A d \in visited : K!DaysInARow(d) <= streak.best
    /\ \E d \in visited : K!DaysInARow(d) = streak.best

StreaksInv ==
    /\ K!StreaksTypeOK
    /\ visited \subseteq 1..now /\ streak.last <= now /\ \A v \in Request : visit[v] <= now
    /\ streak.current <= streak.last
    /\ visited = {} => streak = K!NoStreak
    /\ ~backdated /\ visited # {} => RowCounts

LEMMA StreaksInit == K!Init => StreaksInv
<1> SUFFICES ASSUME K!Init PROVE StreaksInv
  OBVIOUS
<1>1. /\ now = 1 /\ streak = [current |-> 0, best |-> 0, last |-> 0] /\ visited = {}
      /\ backdated = FALSE /\ visit = [v \in Request |-> 0]
  BY DEF K!Init, K!NoStreak
<1>2. 0 \in 0..LastVisit /\ 1 \in 1..LastVisit
  BY StreaksConstants
<1>3. K!StreaksTypeOK
  <2>1. streak \in [current : 0..LastVisit, best : 0..LastVisit, last : 0..LastVisit]
    BY <1>1, <1>2
  <2>2. visit \in [Request -> 0..LastVisit] /\ streak.current <= streak.best
    BY <1>1, <1>2
  <2>3. QED
    BY <1>1, <1>2, <2>1, <2>2 DEF K!StreaksTypeOK
<1>4. QED
  BY <1>1, <1>3 DEF StreaksInv, K!NoStreak

\* The count of the days up to one of them ignores what comes after.
LEMMA DaysBefore ==
    ASSUME NEW d \in Nat, NEW e \in Nat, visited' = visited \cup {e}, d < e
    PROVE  K!DaysInARow(d)' = K!DaysInARow(d)
<1>1. \A k \in 1..d : k..d \subseteq visited' <=> k..d \subseteq visited
  OBVIOUS
<1>2. {k \in 1..d : k..d \subseteq visited'} = {k \in 1..d : k..d \subseteq visited}
  BY <1>1
<1>3. QED
  BY <1>2 DEF K!DaysInARow

\* A day after all others adds one to the count of the day before, and begins a
\* count if the day before was missed.
LEMMA DaysTo ==
    ASSUME NEW d \in Nat \ {0}, visited \subseteq 1..(d - 1), visited' = visited \cup {d}
    PROVE  K!DaysInARow(d)' = IF d - 1 \in visited THEN K!DaysInARow(d - 1) + 1 ELSE 1
<1> DEFINE new == {k \in 1..d : k..d \subseteq visited'}
           old == {k \in 1..(d - 1) : k..(d - 1) \subseteq visited}
<1>1. K!DaysInARow(d)' = Cardinality(new) /\ K!DaysInARow(d - 1) = Cardinality(old)
  BY SameDays DEF K!DaysInARow
<1>2. \A k \in 1..(d - 1) : k..d \subseteq visited' <=> k..(d - 1) \subseteq visited
  <2> SUFFICES ASSUME NEW k \in 1..(d - 1)
               PROVE  k..d \subseteq visited' <=> k..(d - 1) \subseteq visited
    OBVIOUS
  <2>1. k..d = k..(d - 1) \cup {d}
    OBVIOUS
  <2>2. d \notin k..(d - 1)
    OBVIOUS
  <2>3. QED
    BY <2>1, <2>2
<1>3. d..d \subseteq visited'
  OBVIOUS
<1>4. 1..d = 1..(d - 1) \cup {d}
  OBVIOUS
<1>5. new = old \cup {d}
  BY <1>2, <1>3, <1>4
<1>6. IsFiniteSet(old)
  <2>1. IsFiniteSet(1..(d - 1))
    BY FS_Interval
  <2>2. old \subseteq 1..(d - 1)
    OBVIOUS
  <2> HIDE DEF old
  <2>3. QED
    BY <2>1, <2>2, FS_Subset
<1>7. d \notin old
  OBVIOUS
<1>8. Cardinality(new) = Cardinality(old) + 1
  <2> HIDE DEF new, old
  <2> QED
    BY <1>5, <1>6, <1>7, FS_AddElement
<1>9. CASE d - 1 \in visited
  BY <1>1, <1>8, <1>9
<1>10. CASE d - 1 \notin visited
  <2>1. old = {}
    <3> SUFFICES ASSUME NEW k \in old PROVE FALSE
      OBVIOUS
    <3>1. d - 1 \in k..(d - 1)
      OBVIOUS
    <3>2. QED
      BY <1>10, <3>1
  <2>2. Cardinality(old) = 0
    BY <2>1, FS_EmptySet
  <2> HIDE DEF old, new
  <2>3. QED
    BY <1>1, <1>8, <1>10, <2>2
<1>11. QED
  BY <1>9, <1>10

LEMMA TouchTypes ==
    ASSUME StreaksInv, NEW v \in Request, K!Touch(v)
    PROVE  /\ K!StreaksTypeOK' /\ visited' \subseteq 1..now' /\ streak'.last <= now'
           /\ \A u \in Request : visit'[u] <= now'
           /\ streak'.current <= streak'.last /\ visited' # {}
<1> DEFINE d == visit[v]
           current == K!Prolonged(d)
           best == IF current > streak.best THEN current ELSE streak.best
<1>1. /\ d # 0 /\ visited' = visited \cup {d} /\ now' = now
      /\ streak' = IF d = streak.last THEN streak ELSE [current |-> current, last |-> d, best |-> best]
      /\ backdated' = (backdated \/ d < streak.last)
      /\ visit' = [visit EXCEPT ![v] = 0]
  BY DEF K!Touch
<1>2. /\ d \in 0..LastVisit /\ d <= now /\ now \in 1..LastVisit
      /\ streak.current \in 0..LastVisit /\ streak.best \in 0..LastVisit /\ streak.last \in 0..LastVisit
      /\ streak.current <= streak.best /\ streak.current <= streak.last /\ streak.last <= now
  BY DEF StreaksInv, K!StreaksTypeOK
<1>3. d \in 1..now
  BY <1>1, <1>2, StreaksConstants
<1>4. current \in 1..d
  <2>1. current = IF streak.last # 0 /\ d - streak.last = 1 THEN streak.current + 1 ELSE 1
    BY DEF K!Prolonged
  <2> HIDE DEF current, d
  <2>2. QED
    BY <1>2, <1>3, <2>1, StreaksConstants
<1>5. best \in 0..LastVisit /\ current <= best
  <2> HIDE DEF current, d
  <2> QED
    BY <1>2, <1>3, <1>4, StreaksConstants DEF best
<1>6. /\ streak' \in [current : 0..LastVisit, best : 0..LastVisit, last : 0..LastVisit]
      /\ streak'.current <= streak'.best /\ streak'.current <= streak'.last /\ streak'.last <= now
  <2>1. CASE d = streak.last
    BY <1>1, <1>2, <2>1 DEF StreaksInv, K!StreaksTypeOK
  <2>2. CASE d # streak.last
    <3>1. streak' = [current |-> current, last |-> d, best |-> best]
      BY <1>1, <2>2
    <3>2. current \in 0..LastVisit /\ current <= d /\ d <= now
      BY <1>2, <1>3, <1>4, StreaksConstants
    <3> HIDE DEF current, d, best
    <3>3. QED
      BY <1>2, <1>5, <3>1, <3>2
  <2>3. QED
    BY <2>1, <2>2
<1>7. visited' \subseteq 1..now /\ visited' \subseteq 1..LastVisit
  <2>1. visited \subseteq 1..now
    BY DEF StreaksInv
  <2> HIDE DEF d
  <2>2. visited' \subseteq 1..now
    BY <1>1, <1>3, <2>1
  <2>3. QED
    BY <1>2, <2>2, StreaksConstants
<1>8. backdated' \in BOOLEAN
  BY <1>1 DEF StreaksInv, K!StreaksTypeOK
<1>9. visit' \in [Request -> 0..LastVisit] /\ \A u \in Request : visit'[u] <= now
  BY <1>1, <1>2, StreaksConstants DEF StreaksInv, K!StreaksTypeOK
<1>10. QED
  BY <1>1, <1>2, <1>6, <1>7, <1>8, <1>9 DEF K!StreaksTypeOK

LEMMA TouchCounts ==
    ASSUME StreaksInv, NEW v \in Request, K!Touch(v), ~backdated'
    PROVE  RowCounts'
<1>0. PICK d : d = visit[v]
  OBVIOUS
<1> DEFINE current == K!Prolonged(d)
           best == IF current > streak.best THEN current ELSE streak.best
<1>1. /\ d # 0 /\ visited' = visited \cup {d} /\ ~backdated /\ ~(d < streak.last)
      /\ streak' = IF d = streak.last THEN streak ELSE [current |-> current, last |-> d, best |-> best]
  BY <1>0 DEF K!Touch
<1>2. /\ d \in Nat /\ streak.last \in Nat /\ streak.current \in Nat /\ streak.best \in Nat
      /\ visited \subseteq Nat \ {0}
  BY <1>0, StreaksConstants DEF StreaksInv, K!StreaksTypeOK
<1>3. visited # {} => RowCounts
  BY <1>1 DEF StreaksInv
<1>4. visited = {} => streak.last = 0 /\ streak.best = 0
  BY DEF StreaksInv, K!NoStreak
<1>5. CASE d = streak.last
  <2>1. visited # {} /\ streak' = streak
    BY <1>1, <1>4, <1>5
  <2>2. visited' = visited
    BY <1>1, <1>3, <1>5, <2>1 DEF RowCounts
  <2>3. QED
    BY <1>3, <2>1, <2>2 DEF RowCounts, K!DaysInARow
<1>6. CASE d # streak.last
  <2>1. streak.last < d /\ streak' = [current |-> current, last |-> d, best |-> best]
    BY <1>1, <1>2, <1>6
  <2>2. \A k \in visited : k < d
    BY <1>2, <1>3, <2>1 DEF RowCounts
  <2>3. d \in Nat \ {0} /\ visited \subseteq 1..(d - 1)
    BY <1>1, <1>2, <2>2
  <2>4. K!DaysInARow(d)' = current
    <3>1. K!DaysInARow(d)' = IF d - 1 \in visited THEN K!DaysInARow(d - 1) + 1 ELSE 1
      BY <1>1, <2>3, DaysTo
    <3>2. d - 1 \in visited <=> (streak.last # 0 /\ d - streak.last = 1)
      BY <1>2, <1>3, <1>4, <2>1, <2>3 DEF RowCounts
    <3>3. d - 1 \in visited => d - 1 = streak.last /\ K!DaysInARow(d - 1) = streak.current
      BY <1>2, <1>3, <3>2 DEF RowCounts
    <3>4. QED
      BY <3>1, <3>2, <3>3 DEF K!Prolonged
  <2>5. ASSUME NEW k \in visited PROVE K!DaysInARow(k)' = K!DaysInARow(k)
    BY <1>1, <1>2, <2>2, <2>5, DaysBefore
  <2>6. current \in Nat
    BY <1>2 DEF K!Prolonged
  <2>7. best \in Nat /\ best >= current /\ best >= streak.best
        /\ (best = current \/ best = streak.best)
    <3> HIDE DEF current
    <3> QED
      BY <1>2, <2>6 DEF best
  <2>8. d \in visited' /\ \A k \in visited' : k <= d
    BY <1>1, <1>2, <2>2
  <2> HIDE DEF best, current
  <2>9. ASSUME NEW k \in visited' PROVE K!DaysInARow(k)' <= best
    <3>1. CASE k = d
      BY <2>4, <2>6, <2>7, <3>1
    <3>2. CASE k # d
      <4>1. k \in visited /\ K!DaysInARow(k)' = K!DaysInARow(k)
        BY <1>1, <2>5, <2>9, <3>2
      <4>2. K!DaysInARow(k) <= streak.best /\ K!DaysInARow(k) \in Nat
        <5>1. K!DaysInARow(k) <= streak.best
          BY <1>3, <4>1 DEF RowCounts
        <5>2. IsFiniteSet({i \in 1..k : i..k \subseteq visited})
          BY <1>2, <4>1, FS_Interval, FS_Subset
        <5>3. QED
          BY <5>1, <5>2, SameDays, FS_CardinalityType DEF K!DaysInARow
      <4>3. QED
        BY <1>2, <2>7, <4>1, <4>2
    <3>3. QED
      BY <3>1, <3>2
  <2>10. \E k \in visited' : K!DaysInARow(k)' = best
    <3>1. CASE best = current
      BY <2>4, <2>8, <3>1
    <3>2. CASE best # current
      <4>1. best = streak.best /\ best # 0
        BY <2>6, <2>7, <3>2
      <4>2. PICK k \in visited : K!DaysInARow(k) = streak.best
        BY <1>3, <1>4, <4>1 DEF RowCounts
      <4>3. QED
        BY <1>1, <2>5, <4>1, <4>2
    <3>3. QED
      BY <3>1, <3>2
  <2>11. QED
    BY <2>1, <2>4, <2>8, <2>9, <2>10 DEF RowCounts
<1>7. QED
  BY <1>5, <1>6

LEMMA StreaksStep == StreaksInv /\ [K!Next]_(K!vars) => StreaksInv'
<1> SUFFICES ASSUME StreaksInv, [K!Next]_(K!vars) PROVE StreaksInv'
  OBVIOUS
<1>1. UNCHANGED <<streak, visited>> /\ backdated' = backdated => (RowCounts <=> RowCounts')
  BY DEF RowCounts, K!DaysInARow
<1>2. CASE UNCHANGED K!vars
  BY <1>1, <1>2 DEF K!vars, StreaksInv, K!StreaksTypeOK
<1>3. ASSUME NEW v \in Request, K!Look(v) PROVE StreaksInv'
  <2>1. visit' = [visit EXCEPT ![v] = now] /\ UNCHANGED <<now, streak, visited, backdated>>
    BY <1>3 DEF K!Look
  <2>2. visit' \in [Request -> 0..LastVisit] /\ \A u \in Request : visit'[u] <= now
    BY <2>1, StreaksConstants DEF StreaksInv, K!StreaksTypeOK
  <2>3. QED
    BY <1>1, <2>1, <2>2 DEF StreaksInv, K!StreaksTypeOK
<1>4. ASSUME NEW v \in Request, K!Touch(v) PROVE StreaksInv'
  BY <1>4, TouchTypes, TouchCounts DEF StreaksInv
<1>5. CASE K!Midnight
  <2>1. now < LastVisit /\ now' = now + 1 /\ UNCHANGED <<streak, visited, backdated, visit>>
    BY <1>5 DEF K!Midnight
  <2>2. now \in 1..LastVisit /\ now' \in 1..LastVisit /\ now <= now'
    BY <2>1, StreaksConstants DEF StreaksInv, K!StreaksTypeOK
  <2>3. visited' \subseteq 1..now' /\ streak'.last <= now' /\ \A u \in Request : visit'[u] <= now'
    BY <2>1, <2>2, StreaksConstants DEF StreaksInv, K!StreaksTypeOK
  <2>4. QED
    BY <1>1, <2>1, <2>2, <2>3 DEF StreaksInv, K!StreaksTypeOK
<1>6. QED
  BY <1>2, <1>3, <1>4, <1>5 DEF K!Next

LEMMA StreaksHolds == K!Spec => []StreaksInv
BY StreaksInit, StreaksStep, PTL DEF K!Spec

\* The row of a student is what a count over all visits would give: the current
\* streak ends with the last visit and the best was the longest, as long as no
\* visit of an earlier day was written after one of a later day
\* (services/student_rewards.py).
THEOREM StreakExplainedHolds == K!Spec => []StreakExplained
<1>1. StreaksInv => StreakExplained
  <2> SUFFICES ASSUME StreaksInv, ~backdated, visited # {}
               PROVE  /\ streak.last = K!Max(visited)
                      /\ streak.current = K!DaysInARow(streak.last)
                      /\ streak.best = K!Max({K!DaysInARow(d) : d \in visited})
    BY DEF StreakExplained, K!StreakExplained
  <2>1. RowCounts /\ visited \subseteq 1..LastVisit
    BY DEF StreaksInv, K!StreaksTypeOK
  <2> DEFINE counts == {K!DaysInARow(d) : d \in visited}
  <2>2. K!Max(visited) = streak.last
    <3>1. visited \in SUBSET Int /\ streak.last \in visited
      BY <2>1, StreaksConstants DEF RowCounts
    <3>2. QED
      BY <2>1, <3>1, GreatestIs DEF RowCounts
  <2>3. counts \subseteq Nat
    <3> SUFFICES ASSUME NEW d \in visited PROVE K!DaysInARow(d) \in Nat
      OBVIOUS
    <3>1. IsFiniteSet({k \in 1..d : k..d \subseteq visited})
      BY <2>1, StreaksConstants, FS_Interval, FS_Subset
    <3>2. QED
      BY <3>1, SameDays, FS_CardinalityType DEF K!DaysInARow
  <2>4. streak.best \in counts /\ \A k \in counts : k <= streak.best
    BY <2>1 DEF RowCounts
  <2>5. K!Max(counts) = streak.best
    <3> HIDE DEF counts
    <3>1. counts \in SUBSET Int
      BY <2>3
    <3>2. QED
      BY <2>4, <3>1, GreatestIs
  <2>6. QED
    BY <2>1, <2>2, <2>5 DEF RowCounts
<1>2. QED
  BY <1>1, StreaksHolds, PTL

-----------------------------------------------------------------------------
(* The campus *)

\* Which component moves is chosen once.
Parts == {"lessons", "coursework", "certificates", "licences", "streams", "media",
          "members", "classes", "questions", "inbox", "presence", "streaks"}

LEMMA PartIsChosen == MCSpec => [](part \in Parts)
<1>1. MCInit => part \in Parts
  BY DEF MCInit, Parts
<1>2. part \in Parts /\ [MCNext]_campus => (part \in Parts)'
  BY DEF MCNext, campus
<1>3. QED
  BY <1>1, <1>2, PTL DEF MCSpec, campus

\* The rows and the requests of every component are of their types, among them
\* that no score exceeds the total it was computed with (services/quiz_grading.py),
\* and that a student gets at most one certificate for a course.
THEOREM CampusTypes == MCSpec => []CampusTypeOK
<1>1. /\ LessonsInv => LessonsTypeOK
      /\ CourseworkInv => W!CourseworkTypeOK
      /\ OfflineInv => G!OfflineTypeOK
      /\ StreamsInv => S!StreamsTypeOK
      /\ MediaInv => M!MediaTypeOK
      /\ GroupsInv => C!GroupsTypeOK
      /\ AttendanceInv => A!AttendanceTypeOK
      /\ StreaksInv => K!StreaksTypeOK
  BY DEF LessonsInv, CourseworkInv, OfflineInv, StreamsInv, MediaInv, GroupsInv, AttendanceInv, StreaksInv
<1>2. /\ part \in Parts
      /\ LessonsTypeOK /\ W!CourseworkTypeOK /\ D!CertificatesTypeOK /\ G!OfflineTypeOK
      /\ S!StreamsTypeOK /\ M!MediaTypeOK /\ C!GroupsTypeOK /\ Q!QuestionsTypeOK
      /\ N!NoticesTypeOK /\ A!AttendanceTypeOK /\ K!StreaksTypeOK
      => CampusTypeOK
  BY DEF Parts, CampusTypeOK
<1>3. QED
  BY <1>1, <1>2, PartIsChosen, PartsAreAlone, LessonsHolds, CourseworkHolds, OneCertificateHolds, OfflineHolds,
     StreamsHolds, MediaHolds, GroupsHolds, QuestionsTypes, NoticesTypes, AttendanceHolds, StreaksHolds, PTL

\* What the theorems show of the components by themselves holds of the campus,
\* where the requests of one of them move and the rows of the others stand.
THEOREM CampusSafe ==
    MCSpec => [](/\ SeenInOrder /\ LocksSuffice /\ GradeMatchesAnswer /\ OfflineDevicesWithinLimit
                 /\ PublishedWasReady /\ MissingObjectExplained /\ MembersEnrolled /\ GradedAsHandedOut
                 /\ BadgeExplained /\ AttendanceExplained /\ StreakExplained)
BY PartsAreAlone, SeenInOrderHolds, LocksSufficeHolds, GradeMatchesAnswerHolds,
   OfflineDevicesWithinLimitHolds, PublishedWasReadyHolds, MissingObjectExplainedHolds,
   MembersEnrolledHolds, GradedAsHandedOutHolds, BadgeExplainedHolds,
   AttendanceExplainedHolds, StreakExplainedHolds, PTL

=============================================================================
