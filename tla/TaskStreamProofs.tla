-------------------------- MODULE TaskStreamProofs --------------------------
(***************************************************************************)
(* Proofs about the background task queue, for any number of workers, jobs *)
(* and attempts, and with no bound on the number of entries: the fields    *)
(* keep their types, a job is buried only for failures that happened, and  *)
(* a job that never failed stays where a worker will be handed it.         *)
(*                                                                         *)
(* The inductive invariant says what ties a worker's local copies to the   *)
(* stream.  XADD gives every entry an ID above all earlier ones, so a copy *)
(* and an entry with the same ID are the same message (Numbered,           *)
(* CopiesAgree).  And where a worker stands says what has become of the    *)
(* job it holds: past the handler the job is done, in the except branch    *)
(* one more failure has been counted than its attempts field says (AtWork).*)
(* So an XACK or XDEL can only forget an entry whose job is done or failed.*)
(***************************************************************************)
EXTENDS TaskStream, FiniteSetTheorems, SequenceTheorems, WellFoundedInduction, TLAPS

Handling == {"handle", "ack", "del", "failed_ack", "failed_del", "again"}
Failing  == {"failed_ack", "failed_del", "again"}

\* The messages worker w has in its local variables.
Held(w) == mail[w] \cup ({cur[w]} \ {NoMsg})

Numbered ==
    /\ lastRead <= added
    /\ \A m \in stream : m.mid \in 1 .. added
    /\ \A m, n \in stream : m.mid = n.mid => m = n

CopiesAgree ==
    \A w \in Worker : \A n \in Held(w) :
        /\ n.mid <= added
        /\ \A m \in stream : m.mid = n.mid => m = n

CopiesEarned ==
    \A w \in Worker : \A n \in Held(w) : n.attempts <= failures[n.job]

AtWork(w) ==
    /\ IF pc[w] \in Handling THEN cur[w] \in Message ELSE cur[w] = NoMsg
    /\ pc[w] \in {"ack", "del"} => cur[w].job \in done
    /\ pc[w] \in Failing => cur[w].attempts + 1 <= failures[cur[w].job]

IInv ==
    /\ TypeOK
    /\ Numbered
    /\ CopiesAgree
    /\ CopiesEarned
    /\ \A w \in Worker : AtWork(w)
    /\ AttemptsAreEarned
    /\ UnfailedJobsSurvive

-----------------------------------------------------------------------------
(* Facts about the constants, IDs and the operator Earliest. *)

LEMMA Constants ==
    /\ MaxAttempts \in Nat \ {0} /\ ReadCount \in Nat \ {0} /\ ClaimCount \in Nat \ {0}
    /\ MaxJobs \in Nat /\ MaxRaises \in Nat /\ MaxCrashes \in Nat /\ MaxOutages \in Nat
    /\ NoMsg \notin Message
<1>1. Message \subseteq [mid : Nat, job : Nat, payload : Payload, attempts : Nat]
  BY ConstantsAssumption DEF Message, Job
<1>2. QED
  BY <1>1, ConstantsAssumption

LEMMA FunctionIsSeq ==
    ASSUME NEW S, NEW n \in Nat, NEW f \in [1 .. n -> S]
    PROVE  f \in Seq(S) /\ Len(f) = n
<1>1. f \in Seq(S)
  BY SeqDef
<1>2. Len(f) \in Nat /\ 1 .. Len(f) = 1 .. n
  BY <1>1, LenProperties
<1>3. QED
  BY <1>1, <1>2

LEMMA LargestOfSome ==
    ASSUME NEW n \in Nat, NEW S \in SUBSET (1 .. n), S # {}
    PROVE  \E x \in S : \A y \in S : y <= x
<1> DEFINE R == {ss \in Nat \X Nat : ss[1] < ss[2]}
           T == {n - x : x \in S}
<1>0. IsWellFoundedOn(R, Nat)
  BY NatLessThanWellFounded DEF OpToRel
<1>1. T \subseteq Nat /\ T # {}
  <2>1. \A x \in S : n - x \in Nat
    OBVIOUS
  <2>2. PICK x \in S : TRUE
    OBVIOUS
  <2>3. QED
    BY <2>1, <2>2
<1> HIDE DEF R
<1>2. PICK t \in T : \A u \in T : ~(<<u, t>> \in R)
  BY <1>0, <1>1, WFMin
<1>3. PICK x \in S : t = n - x
  BY <1>2
<1>4. ASSUME NEW y \in S PROVE y <= x
  <2>1. n - y \in T /\ <<n - y, t>> \notin R
    BY <1>2
  <2>2. n - y \in Nat /\ t \in Nat
    BY <1>1, <2>1
  <2>3. ~(n - y < t)
    BY <2>1, <2>2 DEF R
  <2>4. QED
    BY <1>3, <2>3
<1>5. QED
  BY <1>4

\* Entries are as many as their IDs: finitely many.
LEMMA StreamFinite ==
    ASSUME TypeOK, Numbered
    PROVE  IsFiniteSet(stream)
<1> DEFINE f == [m \in stream |-> m.mid]
<1>1. added \in Nat /\ IsFiniteSet(1 .. added)
  BY FS_Interval DEF TypeOK
<1>2. f \in Injection(stream, 1 .. added)
  BY DEF Numbered, Injection, IsInjective
<1>3. QED
  BY <1>1, <1>2, FS_Injection

\* The first k of some entries are a prefix of them, in the order of the IDs.
LEMMA EarliestIsPrefix ==
    ASSUME TypeOK, Numbered, NEW S \in SUBSET stream, NEW k \in Nat,
           NEW n \in Earliest(S, k), NEW m \in S, m.mid <= n.mid
    PROVE  m \in Earliest(S, k)
<1> DEFINE Before(x) == {y \in S : y.mid < x.mid}
<1>1. Before(m) \subseteq Before(n) /\ Before(n) \subseteq stream
  <2>1. \A y \in stream : y.mid \in Nat
    BY DEF TypeOK, Message
  <2>2. m.mid \in Nat /\ n.mid \in Nat /\ n \in S
    BY <2>1 DEF Earliest
  <2>3. QED
    BY <2>1, <2>2
<1>2. IsFiniteSet(Before(n)) /\ IsFiniteSet(Before(m))
  BY <1>1, StreamFinite, FS_Subset
<1>3. Cardinality(Before(m)) <= Cardinality(Before(n))
  BY <1>1, <1>2, FS_Subset
<1>4. Cardinality(Before(m)) \in Nat /\ Cardinality(Before(n)) \in Nat
  BY <1>2, FS_CardinalityType
<1>5. Cardinality(Before(n)) < k
  BY DEF Earliest
<1>6. QED
  BY <1>3, <1>4, <1>5 DEF Earliest

\* What XREADGROUP hands out ends at the group's new last-delivered ID.
LEMMA NewLastRead ==
    ASSUME TypeOK, Numbered, NEW ms \in SUBSET stream, ms # {},
           lastRead' = CHOOSE i \in {m.mid : m \in ms} : \A m \in ms : m.mid <= i
    PROVE  \E n \in ms : lastRead' = n.mid /\ \A m \in ms : m.mid <= n.mid
<1> DEFINE ids == {m.mid : m \in ms}
<1>1. added \in Nat /\ ids \in SUBSET (1 .. added) /\ ids # {}
  BY DEF TypeOK, Numbered
<1>2. \E i \in ids : \A y \in ids : y <= i
  BY <1>1, LargestOfSome
<1>3. \E i \in ids : \A m \in ms : m.mid <= i
  BY <1>2
<1>4. lastRead' \in ids /\ \A m \in ms : m.mid <= lastRead'
  BY <1>3
<1>5. QED
  BY <1>4

-----------------------------------------------------------------------------
(* What a step must keep for each part of the invariant to carry over. *)

\* No entry and no copy is new: copies come from the stream.
LEMMA NothingAdded ==
    ASSUME IInv, TypeOK', stream' \subseteq stream, added' = added, lastRead' <= added,
           \A j \in Job : failures[j] <= failures'[j],
           \A w \in Worker : Held(w)' \subseteq Held(w) \cup stream
    PROVE  /\ Numbered' /\ CopiesAgree' /\ CopiesEarned'
           /\ \A m \in stream' : m.attempts <= failures'[m.job]
<1>1. Numbered'
  BY DEF IInv, Numbered
<1>2. CopiesAgree'
  BY DEF IInv, Numbered, CopiesAgree, TypeOK
<1>3. \A w \in Worker : \A n \in Held(w) \cup stream : n \in Message
  BY DEF IInv, TypeOK, Held
<1>4. \A m \in Message : m.attempts \in Nat /\ m.job \in Job
  BY DEF Message
<1>5. \A j \in Job : failures[j] \in Nat /\ failures'[j] \in Nat
  BY DEF IInv, TypeOK
<1>6. ASSUME NEW w \in Worker, NEW n \in Held(w) \cup stream
      PROVE  n.attempts <= failures'[n.job]
  <2>1. n.attempts <= failures[n.job]
    BY DEF IInv, CopiesEarned, AttemptsAreEarned
  <2>2. n.attempts \in Nat /\ n.job \in Job
    BY <1>3, <1>4
  <2>3. QED
    BY <1>5, <2>1, <2>2
<1>7. \A m \in stream : m.attempts <= failures'[m.job]
  <2> SUFFICES ASSUME NEW m \in stream PROVE m.attempts <= failures'[m.job]
    OBVIOUS
  <2>1. m.attempts <= failures[m.job] /\ m \in Message
    BY DEF IInv, AttemptsAreEarned, TypeOK
  <2>2. QED
    BY <1>4, <1>5, <2>1
<1>8. CopiesEarned'
  BY <1>6 DEF CopiesEarned
<1>9. QED
  BY <1>1, <1>2, <1>7, <1>8

\* New entries have IDs above all others, and no more attempts than failures.
LEMMA EntriesAdded ==
    ASSUME IInv, TypeOK', NEW new, stream' = stream \cup new, lastRead' = lastRead,
           added <= added', failures' = failures,
           \A m \in new : m \in Message /\ m.mid \in (added + 1) .. added',
           \A m, n \in new : m.mid = n.mid => m = n,
           \A m \in new : m.attempts <= failures[m.job],
           \A w \in Worker : Held(w)' \subseteq Held(w)
    PROVE  /\ Numbered' /\ CopiesAgree' /\ CopiesEarned'
           /\ \A m \in stream' : m.attempts <= failures'[m.job]
<1>1. /\ added \in Nat /\ added' \in Nat /\ lastRead \in Nat
      /\ \A m \in stream : m.mid \in Nat
  BY DEF IInv, TypeOK, Message
<1>2. \A w \in Worker : \A n \in Held(w) : n.mid \in Nat /\ n.mid <= added
  BY DEF IInv, TypeOK, Held, Message, CopiesAgree
<1>3. Numbered'
  BY <1>1 DEF IInv, Numbered
<1>4. CopiesAgree'
  BY <1>1, <1>2 DEF IInv, CopiesAgree
<1>5. CopiesEarned'
  BY DEF IInv, CopiesEarned
<1>6. QED
  BY <1>3, <1>4, <1>5 DEF IInv, AttemptsAreEarned

\* A worker that a step leaves where it is.
LEMMA StaysAtWork ==
    ASSUME IInv, NEW w \in Worker, AtWork(w), pc'[w] = pc[w], cur'[w] = cur[w],
           done \subseteq done', failures' \in [Job -> Nat],
           \A j \in Job : failures[j] <= failures'[j]
    PROVE  AtWork(w)'
<1>1. CASE pc[w] \in Handling
  <2>1. cur[w] \in Message /\ cur[w].attempts \in Nat /\ cur[w].job \in Job
    BY <1>1 DEF AtWork, Message
  <2>2. failures[cur[w].job] \in Nat /\ failures'[cur[w].job] \in Nat
    BY <2>1 DEF IInv, TypeOK
  <2>3. QED
    BY <2>1, <2>2 DEF AtWork
<1>2. CASE pc[w] \notin Handling
  BY <1>2 DEF AtWork, Handling, Failing
<1>3. QED
  BY <1>1, <1>2

\* A step may forget only entries whose job is done or has failed.
LEMMA StillDeliverable ==
    ASSUME IInv, TypeOK', jobs' = jobs, done \subseteq done',
           \A j \in Job : failures[j] <= failures'[j],
           \A m \in stream : Deliverable(m) =>
               \/ m \in stream' /\ (m.mid > lastRead' \/ m.mid \in pel')
               \/ m.job \in done'
               \/ failures'[m.job] > 0
    PROVE  UnfailedJobsSurvive'
<1> SUFFICES ASSUME NEW j \in 1 .. jobs, j \notin done', ~(failures'[j] > 0)
             PROVE  \E m \in stream' : m.job = j /\ Deliverable(m)'
  BY DEF UnfailedJobsSurvive
<1>1. j \in Job /\ failures[j] \in Nat /\ failures'[j] \in Nat /\ ~(failures[j] > 0)
  BY Constants DEF IInv, TypeOK, Job
<1>2. PICK m \in stream : m.job = j /\ Deliverable(m)
  BY <1>1 DEF IInv, UnfailedJobsSurvive
<1>3. QED
  BY <1>2 DEF Deliverable

LEMMA CutTypes ==
    ASSUME TypeOK, UNCHANGED network \/ Cut
    PROVE  up' \in BOOLEAN /\ outages' \in 0 .. MaxOutages
<1>1. outages \in 0 .. MaxOutages /\ MaxOutages \in Nat
  BY Constants DEF TypeOK
<1>2. CASE UNCHANGED network
  BY <1>2 DEF TypeOK, network
<1>3. CASE Cut
  <2>1. outages < MaxOutages /\ outages' = outages + 1 /\ up' = FALSE
    BY <1>3 DEF Cut
  <2>2. outages' \in 0 .. MaxOutages
    BY <1>1, <2>1
  <2>3. QED
    BY <2>1, <2>2
<1>4. QED
  BY <1>2, <1>3

\* The steps of a worker that change its program counter, its copies and the
\* pending list only, and what such a step must show.
LEMMA WorkerOnly ==
    ASSUME IInv, NEW w \in Worker, TypeOK',
           UNCHANGED <<added, dead, jobs>>, lastRead' = lastRead,
           stream' \subseteq stream, done \subseteq done',
           \A j \in Job : failures[j] <= failures'[j],
           \A v \in Worker \ {w} : /\ pc'[v] = pc[v] /\ cur'[v] = cur[v]
                                   /\ mail'[v] = mail[v],
           Held(w)' \subseteq Held(w) \cup stream,
           AtWork(w)',
           \A m \in stream : Deliverable(m) =>
               \/ m \in stream' /\ (m.mid > lastRead' \/ m.mid \in pel')
               \/ m.job \in done'
               \/ failures'[m.job] > 0
    PROVE  IInv'
<1>1. \A v \in Worker : Held(v)' \subseteq Held(v) \cup stream
  BY DEF Held
<1>2. /\ Numbered' /\ CopiesAgree' /\ CopiesEarned'
      /\ \A m \in stream' : m.attempts <= failures'[m.job]
  BY <1>1, NothingAdded DEF IInv, Numbered
<1>3. \A v \in Worker : AtWork(v)'
  <2> SUFFICES ASSUME NEW v \in Worker, v # w PROVE AtWork(v)'
    OBVIOUS
  <2>1. failures' \in [Job -> Nat] /\ AtWork(v)
    BY DEF IInv, TypeOK
  <2>2. QED
    BY <2>1, StaysAtWork
<1>4. AttemptsAreEarned'
  <2>1. ASSUME NEW j \in dead PROVE failures'[j] >= MaxAttempts
    <3>1. j \in Job /\ failures[j] >= MaxAttempts
      BY DEF IInv, TypeOK, AttemptsAreEarned
    <3>2. failures[j] \in Nat /\ failures'[j] \in Nat /\ failures[j] <= failures'[j]
      BY <3>1 DEF IInv, TypeOK
    <3>3. QED
      BY <3>1, <3>2, Constants
  <2>2. QED
    BY <1>2, <2>1 DEF AttemptsAreEarned
<1>5. UnfailedJobsSurvive'
  BY StillDeliverable
<1>6. QED
  BY <1>2, <1>3, <1>4, <1>5 DEF IInv

-----------------------------------------------------------------------------
(* Producers. *)

LEMMA SubmitStep ==
    ASSUME IInv, NEW n \in 1 .. MaxJobs, NEW ps \in [1 .. n -> Payload], Submit(ps)
    PROVE  IInv'
<1>1. Len(ps) = n /\ n \in Nat
  BY FunctionIsSeq, Constants
<1>2. PICK k \in 0 .. n : /\ stream' = stream \cup Fresh(ps, k)
                          /\ added' = added + k /\ jobs' = jobs + k
  <2>1. CASE up
    BY <1>1, <2>1 DEF Submit, Enqueue
  <2>2. CASE ~up
    <3>1. Fresh(ps, 0) = {} /\ 0 \in 0 .. n
      BY <1>1 DEF Fresh
    <3>2. UNCHANGED <<stream, added, jobs>> /\ added + 0 = added /\ jobs + 0 = jobs
      BY <2>2 DEF Submit, Enqueue, IInv, TypeOK
    <3>3. QED
      BY <3>1, <3>2
  <2>3. QED
    BY <2>1, <2>2
<1>3. /\ UNCHANGED <<lastRead, pel, stale, dead, failures, done, raises, crashes, pc, cur, mail>>
      /\ up' \in BOOLEAN /\ outages' \in 0 .. MaxOutages
      /\ jobs + n <= MaxJobs
  <2>1. UNCHANGED network \/ Cut
    BY DEF Submit, Enqueue
  <2>2. up' \in BOOLEAN /\ outages' \in 0 .. MaxOutages
    BY <2>1, CutTypes DEF IInv
  <2>3. QED
    BY <1>1, <2>2 DEF Submit, Enqueue, budgets, local
<1>4. ASSUME NEW i \in 1 .. k
      PROVE  /\ added + i \in (added + 1) .. added' /\ added + i \in Nat
             /\ jobs + i \in Job /\ ps[i] \in Payload
  BY <1>1, <1>2, <1>3, Constants DEF IInv, TypeOK, Job
<1>5. \A m \in Fresh(ps, k) : /\ m \in Message /\ m.mid \in (added + 1) .. added'
                              /\ m.attempts = 0 /\ m.job \in Job
  BY <1>4 DEF Fresh, Message
<1>6. \A m, x \in Fresh(ps, k) : m.mid = x.mid => m = x
  <2> SUFFICES ASSUME NEW i \in 1 .. k, NEW l \in 1 .. k, added + i = added + l
               PROVE  i = l
    BY DEF Fresh
  <2>1. QED
    BY <1>2 DEF IInv, TypeOK
<1>7. TypeOK'
  <2>1. added' \in Nat /\ jobs' \in 0 .. MaxJobs
    BY <1>2, <1>3, Constants DEF IInv, TypeOK
  <2>2. stream' \subseteq Message
    BY <1>2, <1>5 DEF IInv, TypeOK
  <2>3. QED
    BY <1>3, <2>1, <2>2 DEF IInv, TypeOK
<1>8. /\ Numbered' /\ CopiesAgree' /\ CopiesEarned'
      /\ \A m \in stream' : m.attempts <= failures'[m.job]
  <2>1. \A m \in Fresh(ps, k) : m.attempts <= failures[m.job]
    <3> SUFFICES ASSUME NEW m \in Fresh(ps, k) PROVE m.attempts <= failures[m.job]
      OBVIOUS
    <3>1. m.attempts = 0 /\ m.job \in Job
      BY <1>5
    <3>2. failures[m.job] \in Nat
      BY <3>1 DEF IInv, TypeOK
    <3>3. QED
      BY <3>1, <3>2
  <2>2. added <= added' /\ \A v \in Worker : Held(v)' \subseteq Held(v)
    BY <1>2, <1>3 DEF Held, IInv, TypeOK
  <2>3. QED
    BY <1>2, <1>3, <1>5, <1>6, <1>7, <2>1, <2>2, EntriesAdded
<1>9. (\A v \in Worker : AtWork(v))' /\ AttemptsAreEarned'
  BY <1>3, <1>8 DEF IInv, AtWork, AttemptsAreEarned
<1>10. UnfailedJobsSurvive'
  <2> SUFFICES ASSUME NEW j \in 1 .. jobs'
               PROVE  \/ j \in done
                      \/ failures[j] > 0
                      \/ \E m \in stream' : m.job = j /\ (m.mid > lastRead \/ m.mid \in pel)
    BY <1>3 DEF UnfailedJobsSurvive, Deliverable
  <2>1. CASE j \in 1 .. jobs
    BY <1>2, <2>1 DEF IInv, UnfailedJobsSurvive, Deliverable
  <2>2. CASE j \notin 1 .. jobs
    <3> DEFINE i == j - jobs
               m == [mid |-> added + i, job |-> jobs + i, payload |-> ps[i], attempts |-> 0]
    <3>1. i \in 1 .. k /\ jobs + i = j
      BY <1>2, <2>2 DEF IInv, TypeOK
    <3>2. m \in Fresh(ps, k)
      BY <3>1 DEF Fresh
    <3>3. m.mid > lastRead
      BY <3>1, <1>4 DEF IInv, TypeOK, Numbered
    <3>4. QED
      BY <1>2, <3>1, <3>2, <3>3
  <2>3. QED
    BY <2>1, <2>2
<1>11. QED
  BY <1>7, <1>8, <1>9, <1>10 DEF IInv

-----------------------------------------------------------------------------
(* Reading, claiming and taking. *)

\* XREADGROUP moves the last-delivered ID, but everything it passes over is
\* now pending.
LEMMA ReadPassesNothing ==
    ASSUME TypeOK, Numbered, NEW w \in Worker, Read(w)
    PROVE  /\ lastRead' \in Nat /\ lastRead' <= added /\ pel' \subseteq Nat
           /\ \A m \in stream : Deliverable(m) => m.mid > lastRead' \/ m.mid \in pel'
<1> DEFINE S == {m \in stream : m.mid > lastRead}
           ms == Earliest(S, ReadCount)
<1>1. /\ ms \in SUBSET stream /\ ms # {} /\ S \in SUBSET stream /\ ReadCount \in Nat
      /\ lastRead' = CHOOSE i \in {m.mid : m \in ms} : \A m \in ms : m.mid <= i
      /\ pel' = pel \cup {m.mid : m \in ms}
  BY Constants DEF Read, Earliest
<1> HIDE DEF ms
<1>2. PICK n \in ms : lastRead' = n.mid /\ \A m \in ms : m.mid <= n.mid
  BY <1>1, NewLastRead
<1>3. lastRead' \in Nat /\ lastRead' <= added /\ \A m \in ms : m.mid \in Nat
  <2>1. \A m \in stream : m \in Message /\ m.mid \in 1 .. added
    BY DEF TypeOK, Numbered
  <2>2. added \in Nat /\ \A m \in ms : m \in stream
    BY <1>1 DEF TypeOK
  <2>3. QED
    BY <1>2, <2>1, <2>2
<1>4. ASSUME NEW m \in stream, Deliverable(m), ~(m.mid > lastRead')
      PROVE  m.mid \in pel'
  <2>1. CASE m.mid \in pel
    BY <1>1, <2>1
  <2>2. CASE m.mid > lastRead
    <3>1. m \in S /\ m.mid \in Nat
      BY <2>2 DEF TypeOK, Message
    <3>2. m.mid <= n.mid
      BY <1>2, <1>3, <1>4, <3>1
    <3>3. m \in ms
      BY <1>1, <3>1, <3>2, EarliestIsPrefix DEF ms
    <3>4. QED
      BY <1>1, <3>3
  <2>3. QED
    BY <1>4, <2>1, <2>2 DEF Deliverable
<1>5. QED
  BY <1>1, <1>3, <1>4 DEF TypeOK

LEMMA ReadStep ==
    ASSUME IInv, NEW w \in Worker, Read(w)
    PROVE  IInv'
<1> DEFINE ms == Earliest({m \in stream : m.mid > lastRead}, ReadCount)
<1>1. /\ ms \in SUBSET stream /\ pel \subseteq pel'
      /\ UNCHANGED <<stream, added, dead, stale, pc, cur, jobs, failures, done, raises, crashes>>
      /\ mail' = [mail EXCEPT ![w] = ms] \/ UNCHANGED mail
      /\ UNCHANGED network \/ Cut
  BY DEF Read, Handed, Earliest, history, budgets
<1> HIDE DEF ms
<1>2. /\ lastRead' \in Nat /\ lastRead' <= added /\ pel' \subseteq Nat
      /\ \A m \in stream : Deliverable(m) => m.mid > lastRead' \/ m.mid \in pel'
  BY ReadPassesNothing DEF IInv
<1>3. TypeOK'
  <2>1. stale' \subseteq pel'
    BY <1>1 DEF IInv, TypeOK
  <2>2. mail' \in [Worker -> SUBSET Message]
    BY <1>1 DEF IInv, TypeOK
  <2>3. QED
    BY <1>1, <1>2, <2>1, <2>2, CutTypes DEF IInv, TypeOK
<1>4. \A v \in Worker : Held(v)' \subseteq Held(v) \cup stream
  BY <1>1 DEF Held, IInv, TypeOK
<1>5. \A j \in Job : failures[j] <= failures'[j]
  BY <1>1 DEF IInv, TypeOK
<1>6. /\ Numbered' /\ CopiesAgree' /\ CopiesEarned'
      /\ \A m \in stream' : m.attempts <= failures'[m.job]
  BY <1>1, <1>2, <1>3, <1>4, <1>5, NothingAdded
<1>7. (\A v \in Worker : AtWork(v))' /\ AttemptsAreEarned'
  BY <1>1, <1>6 DEF IInv, AtWork, AttemptsAreEarned
<1>8. UnfailedJobsSurvive'
  BY <1>1, <1>2, <1>3, <1>5, StillDeliverable
<1>9. QED
  BY <1>3, <1>6, <1>7, <1>8 DEF IInv

LEMMA ClaimStep ==
    ASSUME IInv, NEW w \in Worker, Claim(w)
    PROVE  IInv'
<1> DEFINE ms == Earliest({m \in stream : m.mid \in stale}, ClaimCount)
<1>1. /\ ms \in SUBSET stream /\ stale' \subseteq stale
      /\ UNCHANGED <<stream, added, lastRead, pel, dead, pc, cur, jobs, failures, done, raises, crashes>>
      /\ mail' = [mail EXCEPT ![w] = ms] \/ UNCHANGED mail
      /\ UNCHANGED network \/ Cut
  BY DEF Claim, Handed, Earliest, history, budgets
<1> HIDE DEF ms
<1>2. TypeOK'
  <2>1. mail' \in [Worker -> SUBSET Message]
    BY <1>1 DEF IInv, TypeOK
  <2>2. QED
    BY <1>1, <2>1, CutTypes DEF IInv, TypeOK
<1>3. /\ Held(w)' \subseteq Held(w) \cup stream
      /\ \A v \in Worker \ {w} : mail'[v] = mail[v]
  BY <1>1 DEF Held, IInv, TypeOK
<1>4. AtWork(w)' /\ \A j \in Job : failures[j] <= failures'[j]
  BY <1>1 DEF IInv, AtWork, TypeOK
<1>5. \A m \in stream : Deliverable(m) => m.mid > lastRead' \/ m.mid \in pel'
  BY <1>1 DEF Deliverable
<1>6. QED
  BY <1>1, <1>2, <1>3, <1>4, <1>5, WorkerOnly

LEMMA TakeStep ==
    ASSUME IInv, NEW w \in Worker, Take(w)
    PROVE  IInv'
<1>1. PICK m \in mail[w] : /\ cur' = [cur EXCEPT ![w] = m]
                           /\ mail' = [mail EXCEPT ![w] = @ \ {m}]
  BY DEF Take, Earliest
<1>2. /\ pc' = [pc EXCEPT ![w] = "handle"]
      /\ UNCHANGED <<stream, added, lastRead, pel, stale, dead, up, outages, jobs, failures,
                     done, raises, crashes>>
  BY DEF Take, Goto, redis, network, history, budgets
<1>3. m \in Message /\ m # NoMsg
  BY Constants DEF IInv, TypeOK
<1>4. TypeOK'
  <2>1. mail' \in [Worker -> SUBSET Message]
    BY <1>1 DEF IInv, TypeOK
  <2>2. cur' \in [Worker -> Message \cup {NoMsg}]
    BY <1>1, <1>3 DEF IInv, TypeOK
  <2>3. QED
    BY <1>2, <2>1, <2>2 DEF IInv, TypeOK
<1>5. Held(w)' \subseteq Held(w)
  BY <1>1 DEF Held, IInv, TypeOK
<1>6. AtWork(w)' /\ \A j \in Job : failures[j] <= failures'[j]
  BY <1>1, <1>2, <1>3 DEF IInv, AtWork, TypeOK, Handling, Failing
<1>7. \A x \in stream : Deliverable(x) => x.mid > lastRead' \/ x.mid \in pel'
  BY <1>2 DEF Deliverable
<1>8. \A v \in Worker \ {w} : /\ pc'[v] = pc[v] /\ cur'[v] = cur[v] /\ mail'[v] = mail[v]
  BY <1>1, <1>2 DEF IInv, TypeOK
<1>9. QED
  BY <1>2, <1>4, <1>5, <1>6, <1>7, <1>8, WorkerOnly

-----------------------------------------------------------------------------
(* _process_message. *)

LEMMA HandlerReturnsStep ==
    ASSUME IInv, NEW w \in Worker, HandlerReturns(w)
    PROVE  IInv'
<1>1. /\ pc[w] = "handle" /\ pc' = [pc EXCEPT ![w] = "ack"]
      /\ done' = done \cup {cur[w].job}
      /\ UNCHANGED <<stream, added, lastRead, pel, stale, dead, up, outages, cur, mail, jobs,
                     failures, raises, crashes>>
  BY DEF HandlerReturns, Goto, redis, network, local, budgets
<1>2. cur[w] \in Message /\ cur[w].job \in Job
  BY <1>1 DEF IInv, AtWork, Handling, Message
<1>3. TypeOK'
  BY <1>1, <1>2 DEF IInv, TypeOK
<1>4. Held(w)' = Held(w) /\ \A v \in Worker \ {w} : pc'[v] = pc[v]
  BY <1>1 DEF Held, IInv, TypeOK
<1>5. AtWork(w)' /\ \A j \in Job : failures[j] <= failures'[j]
  BY <1>1, <1>2 DEF IInv, AtWork, TypeOK, Handling, Failing
<1>6. \A x \in stream : Deliverable(x) => x.mid > lastRead' \/ x.mid \in pel'
  BY <1>1 DEF Deliverable
<1>7. QED
  BY <1>1, <1>3, <1>4, <1>5, <1>6, WorkerOnly

\* What counting one more failure does.
LEMMA FailsGrows ==
    ASSUME IInv, NEW w \in Worker, cur[w] \in Message, Fails(w)
    PROVE  /\ failures' \in [Job -> Nat]
           /\ \A j \in Job : failures[j] <= failures'[j]
           /\ cur[w].attempts + 1 <= failures'[cur[w].job]
<1>1. cur[w].job \in Job /\ cur[w].attempts \in Nat
  BY DEF Message
<1>2. failures \in [Job -> Nat]
  BY DEF IInv, TypeOK
<1>3. cur[w].attempts <= failures[cur[w].job]
  BY Constants DEF IInv, CopiesEarned, Held
<1>4. failures' = [failures EXCEPT ![cur[w].job] = failures[cur[w].job] + 1]
  BY DEF Fails
<1>5. QED
  BY <1>1, <1>2, <1>3, <1>4

LEMMA HandlerRaisesStep ==
    ASSUME IInv, NEW w \in Worker, HandlerRaises(w)
    PROVE  IInv'
<1>1. /\ pc[w] = "handle" /\ pc' = [pc EXCEPT ![w] = "failed_ack"]
      /\ raises < MaxRaises /\ raises' = raises + 1 /\ Fails(w)
      /\ UNCHANGED <<stream, added, lastRead, pel, stale, dead, up, outages, cur, mail, jobs,
                     done, crashes>>
  BY DEF HandlerRaises, Goto, redis, network, local
<1>2. cur[w] \in Message
  BY <1>1 DEF IInv, AtWork, Handling
<1>3. /\ failures' \in [Job -> Nat] /\ \A j \in Job : failures[j] <= failures'[j]
      /\ cur[w].attempts + 1 <= failures'[cur[w].job]
  BY <1>1, <1>2, FailsGrows
<1>4. TypeOK'
  <2>1. raises' \in 0 .. MaxRaises
    BY <1>1, Constants DEF IInv, TypeOK
  <2>2. QED
    BY <1>1, <1>3, <2>1 DEF IInv, TypeOK
<1>5. Held(w)' = Held(w) /\ \A v \in Worker \ {w} : pc'[v] = pc[v]
  BY <1>1 DEF Held, IInv, TypeOK
<1>6. AtWork(w)'
  BY <1>1, <1>2, <1>3 DEF IInv, AtWork, TypeOK, Handling
<1>7. \A x \in stream : Deliverable(x) => x.mid > lastRead' \/ x.mid \in pel'
  BY <1>1 DEF Deliverable
<1>8. QED
  BY <1>1, <1>3, <1>4, <1>5, <1>6, <1>7, WorkerOnly

\* The entry whose ID a worker holds is of the worker's own job.
LEMMA OwnEntry ==
    ASSUME IInv, NEW w \in Worker, cur[w] \in Message, NEW m \in stream, m.mid = cur[w].mid
    PROVE  m.job = cur[w].job
  BY Constants DEF IInv, CopiesAgree, Held

\* XACK and XDEL by a worker whose job is done or failed: at most the entry of
\* that job stops being deliverable.
LEMMA Forgets ==
    ASSUME IInv, NEW w \in Worker, cur[w] \in Message,
           AckEffect(w) \/ DelEffect(w) \/ UNCHANGED redis,
           cur[w].job \in done \/ failures[cur[w].job] > 0
    PROVE  /\ UNCHANGED <<added, lastRead, dead>>
           /\ stream' \subseteq stream /\ pel' \subseteq Nat /\ stale' \subseteq pel'
           /\ \A m \in stream : Deliverable(m) =>
                \/ m \in stream' /\ (m.mid > lastRead' \/ m.mid \in pel')
                \/ m.job \in done
                \/ failures[m.job] > 0
<1>1. \A m \in stream : m.mid = cur[w].mid => m.job \in done \/ failures[m.job] > 0
  <2> SUFFICES ASSUME NEW m \in stream, m.mid = cur[w].mid
               PROVE  m.job \in done \/ failures[m.job] > 0
    OBVIOUS
  <2>1. m.job = cur[w].job
    BY OwnEntry
  <2>2. QED
    BY <2>1
<1>2. CASE AckEffect(w)
  BY <1>1, <1>2 DEF AckEffect, Deliverable, IInv, TypeOK
<1>3. CASE DelEffect(w)
  BY <1>1, <1>3 DEF DelEffect, Deliverable, IInv, TypeOK
<1>4. CASE UNCHANGED redis
  BY <1>4 DEF redis, Deliverable, IInv, TypeOK
<1>5. QED
  BY <1>2, <1>3, <1>4

\* One XACK or XDEL of a worker, with whatever it does to the worker itself.
LEMMA CommandStep ==
    ASSUME IInv, NEW w \in Worker, cur[w] \in Message,
           AckEffect(w) \/ DelEffect(w) \/ UNCHANGED redis,
           UNCHANGED network \/ Cut,
           cur[w].job \in done \/ failures[cur[w].job] > 0,
           NEW l \in {"off", "idle"} \cup Handling, pc' = [pc EXCEPT ![w] = l],
           UNCHANGED <<mail, jobs, done, raises, crashes>>,
           UNCHANGED failures \/ Fails(w),
           IF l \in Handling THEN UNCHANGED cur ELSE cur' = [cur EXCEPT ![w] = NoMsg],
           l \in {"ack", "del"} => cur[w].job \in done,
           l \in Failing => Fails(w) \/ pc[w] \in Failing
    PROVE  IInv'
<1>1. /\ UNCHANGED <<added, lastRead, dead>>
      /\ stream' \subseteq stream /\ pel' \subseteq Nat /\ stale' \subseteq pel'
      /\ \A m \in stream : Deliverable(m) =>
           \/ m \in stream' /\ (m.mid > lastRead' \/ m.mid \in pel')
           \/ m.job \in done
           \/ failures[m.job] > 0
  BY Forgets
<1>2. /\ failures' \in [Job -> Nat] /\ \A j \in Job : failures[j] <= failures'[j]
      /\ Fails(w) => cur[w].attempts + 1 <= failures'[cur[w].job]
  <2>1. failures \in [Job -> Nat]
    BY DEF IInv, TypeOK
  <2>2. CASE Fails(w)
    BY <2>2, FailsGrows
  <2>3. CASE ~Fails(w)
    BY <2>1, <2>3
  <2>4. QED
    BY <2>2, <2>3
<1>3. cur' \in [Worker -> Message \cup {NoMsg}] /\ \A v \in Worker \ {w} : cur'[v] = cur[v]
  BY DEF IInv, TypeOK
<1>4. pc' \in [Worker -> {"off", "idle"} \cup Handling] /\ \A v \in Worker \ {w} : pc'[v] = pc[v]
  BY DEF IInv, TypeOK, Handling
<1>5. up' \in BOOLEAN /\ outages' \in 0 .. MaxOutages
  BY CutTypes DEF IInv
<1>6. TypeOK'
  <2>1. {"off", "idle"} \cup Handling = {"off", "idle", "handle", "ack", "del",
                                         "failed_ack", "failed_del", "again"}
    BY DEF Handling
  <2>2. stream' \subseteq Message
    BY <1>1 DEF IInv, TypeOK
  <2>3. QED
    BY <1>1, <1>2, <1>3, <1>4, <1>5, <2>1, <2>2 DEF IInv, TypeOK
<1>7. Held(w)' \subseteq Held(w)
  BY DEF Held, IInv, TypeOK
<1>8. pc'[w] = l /\ cur'[w] = IF l \in Handling THEN cur[w] ELSE NoMsg
  BY DEF IInv, TypeOK, Handling
<1>9. AtWork(w)'
  <2>1. l \in Handling => cur'[w] \in Message
    BY <1>8
  <2>2. l \in {"ack", "del"} => cur'[w].job \in done'
    BY <1>8 DEF Handling
  <2>3. ASSUME l \in Failing PROVE cur'[w].attempts + 1 <= failures'[cur'[w].job]
    <3>1. cur'[w] = cur[w]
      BY <1>8, <2>3 DEF Handling, Failing
    <3>2. cur[w].job \in Job /\ cur[w].attempts \in Nat
      BY DEF Message
    <3>3. cur[w].attempts + 1 <= failures'[cur[w].job]
      <4>1. CASE Fails(w)
        BY <1>2, <4>1
      <4>2. CASE pc[w] \in Failing
        <5>1. cur[w].attempts + 1 <= failures[cur[w].job]
          BY <4>2 DEF IInv, AtWork
        <5>2. failures[cur[w].job] \in Nat /\ failures'[cur[w].job] \in Nat
          BY <1>2, <3>2 DEF IInv, TypeOK
        <5>3. QED
          BY <1>2, <3>2, <5>1, <5>2
      <4>3. QED
        BY <2>3, <4>1, <4>2
    <3>4. QED
      BY <3>1, <3>3
  <2>4. QED
    BY <1>8, <2>1, <2>2, <2>3 DEF AtWork
<1>10. \A m \in stream : Deliverable(m) =>
           \/ m \in stream' /\ (m.mid > lastRead' \/ m.mid \in pel')
           \/ m.job \in done'
           \/ failures'[m.job] > 0
  <2> SUFFICES ASSUME NEW m \in stream, failures[m.job] > 0
               PROVE  failures'[m.job] > 0
    BY <1>1
  <2>1. m.job \in Job
    BY DEF IInv, TypeOK, Message
  <2>2. failures[m.job] \in Nat /\ failures'[m.job] \in Nat /\ failures[m.job] <= failures'[m.job]
    BY <1>2, <2>1 DEF IInv, TypeOK
  <2>3. QED
    BY <2>2
<1>11. QED
  BY <1>1, <1>2, <1>3, <1>4, <1>6, <1>7, <1>9, <1>10, WorkerOnly

\* A worker past its handler has a message, whose job is done or has failed.
LEMMA PastHandler ==
    ASSUME IInv, NEW w \in Worker, pc[w] \in Handling \ {"handle"}
    PROVE  /\ cur[w] \in Message
           /\ cur[w].job \in done \/ failures[cur[w].job] > 0
<1>1. cur[w] \in Message /\ cur[w].job \in Job /\ cur[w].attempts \in Nat
  BY DEF IInv, AtWork, Message
<1>2. CASE pc[w] \in {"ack", "del"}
  BY <1>1, <1>2 DEF IInv, AtWork
<1>3. CASE pc[w] \in Failing
  <2>1. cur[w].attempts + 1 <= failures[cur[w].job]
    BY <1>3 DEF IInv, AtWork
  <2>2. failures[cur[w].job] \in Nat
    BY <1>1 DEF IInv, TypeOK
  <2>3. QED
    BY <1>1, <2>1, <2>2
<1>4. QED
  BY <1>2, <1>3 DEF Handling, Failing

LEMMA AckStep ==
    ASSUME IInv, NEW w \in Worker, Ack(w)
    PROVE  IInv'
<1>1. /\ cur[w] \in Message /\ cur[w].job \in done
      /\ cur[w].job \in done \/ failures[cur[w].job] > 0
  BY PastHandler DEF Ack, IInv, AtWork, Handling
<1>2. /\ AckEffect(w) \/ UNCHANGED redis
      /\ UNCHANGED network \/ Cut
      /\ pc' = [pc EXCEPT ![w] = "del"] \/ pc' = [pc EXCEPT ![w] = "failed_ack"]
      /\ IF pc'[w] = "failed_ack" THEN Fails(w) ELSE UNCHANGED failures
      /\ UNCHANGED <<cur, mail, jobs, done, raises, crashes>>
  BY DEF Ack, Answered, Refused, Goto, local, budgets
<1>3. CASE pc' = [pc EXCEPT ![w] = "del"]
  <2>1. UNCHANGED failures
    BY <1>2, <1>3 DEF IInv, TypeOK
  <2>2. "del" \in Handling /\ "del" \notin Failing
    BY DEF Handling, Failing
  <2>3. QED
    BY <1>1, <1>2, <1>3, <2>1, <2>2, CommandStep
<1>4. CASE pc' = [pc EXCEPT ![w] = "failed_ack"]
  <2>1. Fails(w)
    BY <1>2, <1>4 DEF IInv, TypeOK
  <2>2. "failed_ack" \in Handling
    BY DEF Handling
  <2>3. QED
    BY <1>1, <1>2, <1>4, <2>1, <2>2, CommandStep
<1>5. QED
  BY <1>2, <1>3, <1>4

LEMMA DelStep ==
    ASSUME IInv, NEW w \in Worker, Del(w)
    PROVE  IInv'
<1>1. /\ cur[w] \in Message /\ cur[w].job \in done
      /\ cur[w].job \in done \/ failures[cur[w].job] > 0
  BY PastHandler DEF Del, IInv, AtWork, Handling
<1>2. /\ DelEffect(w) \/ UNCHANGED redis
      /\ UNCHANGED network \/ Cut
      /\ pc' = [pc EXCEPT ![w] = "idle"] \/ pc' = [pc EXCEPT ![w] = "failed_ack"]
      /\ IF pc'[w] = "failed_ack"
         THEN Fails(w) /\ UNCHANGED cur
         ELSE cur' = [cur EXCEPT ![w] = NoMsg] /\ UNCHANGED failures
      /\ UNCHANGED <<mail, jobs, done, raises, crashes>>
  BY DEF Del, Answered, Refused, Goto, budgets
<1>3. CASE pc' = [pc EXCEPT ![w] = "idle"]
  <2>1. cur' = [cur EXCEPT ![w] = NoMsg] /\ UNCHANGED failures
    BY <1>2, <1>3 DEF IInv, TypeOK
  <2>2. "idle" \notin Failing /\ "idle" \notin Handling
    BY DEF Failing, Handling
  <2>3. QED
    BY <1>1, <1>2, <1>3, <2>1, <2>2, CommandStep
<1>4. CASE pc' = [pc EXCEPT ![w] = "failed_ack"]
  <2>1. Fails(w) /\ UNCHANGED cur
    BY <1>2, <1>4 DEF IInv, TypeOK
  <2>2. "failed_ack" \in Handling
    BY DEF Handling
  <2>3. QED
    BY <1>1, <1>2, <1>4, <2>1, <2>2, CommandStep
<1>5. QED
  BY <1>2, <1>3, <1>4

\* The except branch's own XACK and XDEL.
LEMMA FailedStep ==
    ASSUME IInv, NEW w \in Worker, FailedAck(w) \/ FailedDel(w)
    PROVE  IInv'
<1>1. /\ pc[w] \in Failing
      /\ AckEffect(w) \/ DelEffect(w) \/ UNCHANGED redis
      /\ UNCHANGED network \/ Cut
      /\ \E l \in {"failed_del", "again"} : pc' = [pc EXCEPT ![w] = l]
      /\ UNCHANGED <<cur, mail, jobs, failures, done, raises, crashes>>
  BY DEF FailedAck, FailedDel, Answered, Refused, Goto, local, history, budgets, Failing
<1>2. cur[w] \in Message /\ (cur[w].job \in done \/ failures[cur[w].job] > 0)
  BY <1>1, PastHandler DEF Handling, Failing
<1>3. PICK l \in {"failed_del", "again"} : pc' = [pc EXCEPT ![w] = l]
  BY <1>1
<1>4. l \in Handling /\ l \notin {"ack", "del"}
  BY DEF Handling
<1>5. QED
  BY <1>1, <1>2, <1>3, <1>4, CommandStep

-----------------------------------------------------------------------------
(* XADD of the retry copy, or of the dead letter. *)

LEMMA AgainStep ==
    ASSUME IInv, NEW w \in Worker, Again(w)
    PROVE  IInv'
<1>1. /\ AgainEffect(w) \/ UNCHANGED redis
      /\ UNCHANGED network \/ Cut
      /\ pc' = [pc EXCEPT ![w] = "idle"] /\ cur' = [cur EXCEPT ![w] = NoMsg]
      /\ mail' = mail \/ mail' = [mail EXCEPT ![w] = {}]
      /\ UNCHANGED <<jobs, failures, done, raises, crashes>>
  BY DEF Again, Answered, Refused, Goto, history, budgets
<1>2. /\ cur[w] \in Message /\ cur[w].attempts \in Nat /\ cur[w].job \in Job
      /\ cur[w].attempts + 1 <= failures[cur[w].job]
  BY PastHandler DEF Again, IInv, AtWork, Handling, Failing, Message
<1>3. PICK new \in SUBSET {Retry(cur[w])} :
        /\ stream' = stream \cup new
        /\ added' = IF new = {} THEN added ELSE added + 1
        /\ dead' = dead \/ (dead' = dead \cup {cur[w].job} /\ cur[w].attempts + 1 >= MaxAttempts)
        /\ UNCHANGED <<lastRead, pel, stale>>
  <2>1. CASE UNCHANGED redis
    <3>1. stream' = stream \cup {}
      BY <2>1 DEF redis
    <3>2. QED
      BY <2>1, <3>1 DEF redis
  <2>2. CASE AgainEffect(w) /\ cur[w].attempts + 1 < MaxAttempts
    BY <2>2 DEF AgainEffect
  <2>3. CASE AgainEffect(w) /\ ~(cur[w].attempts + 1 < MaxAttempts)
    <3>1. cur[w].attempts + 1 >= MaxAttempts
      BY <1>2, <2>3, Constants
    <3>2. stream' = stream \cup {}
      BY <2>3 DEF AgainEffect
    <3>3. QED
      BY <2>3, <3>1, <3>2 DEF AgainEffect
  <2>4. QED
    BY <1>1, <2>1, <2>2, <2>3
<1>4. \A m \in new : /\ m \in Message /\ m.mid = added + 1 /\ m.job = cur[w].job
                     /\ m.attempts = cur[w].attempts + 1
  <2>1. added \in Nat
    BY DEF IInv, TypeOK
  <2> DEFINE c == [cur[w] EXCEPT !.mid = added + 1]
             d == [c EXCEPT !.attempts = cur[w].attempts + 1]
  <2>2. Retry(cur[w]) = d
    BY <1>2 DEF Retry, Message
  <2>3. c \in Message /\ c.mid = added + 1 /\ c.job = cur[w].job
    BY <1>2, <2>1 DEF Message
  <2> HIDE DEF c
  <2>4. d \in Message /\ d.mid = c.mid /\ d.job = c.job /\ d.attempts = cur[w].attempts + 1
    BY <1>2, <2>3 DEF Message
  <2> HIDE DEF d
  <2>5. \A m \in new : m = d
    BY <1>3, <2>2
  <2>6. QED
    BY <2>3, <2>4, <2>5
<1>5. /\ added \in Nat /\ added' \in Nat /\ added <= added'
      /\ new # {} => added' = added + 1
  BY <1>3 DEF IInv, TypeOK
<1>6. TypeOK'
  <2>1. stream' \subseteq Message /\ dead' \subseteq Job
    BY <1>2, <1>3, <1>4 DEF IInv, TypeOK
  <2>2. mail' \in [Worker -> SUBSET Message]
    BY <1>1 DEF IInv, TypeOK
  <2>3. up' \in BOOLEAN /\ outages' \in 0 .. MaxOutages
    BY <1>1, CutTypes DEF IInv
  <2>4. QED
    BY <1>1, <1>3, <1>5, <2>1, <2>2, <2>3 DEF IInv, TypeOK
<1>7. \A v \in Worker : Held(v)' \subseteq Held(v)
  BY <1>1 DEF Held, IInv, TypeOK
<1>8. /\ Numbered' /\ CopiesAgree' /\ CopiesEarned'
      /\ \A m \in stream' : m.attempts <= failures'[m.job]
  <2>1. \A m \in new : m.attempts <= failures[m.job]
    BY <1>2, <1>4
  <2>2. \A m, n \in new : m.mid = n.mid => m = n
    BY <1>3
  <2>3. \A m \in new : m \in Message /\ m.mid \in (added + 1) .. added'
    BY <1>4, <1>5
  <2>4. stream' = stream \cup new /\ lastRead' = lastRead /\ failures' = failures
    BY <1>1, <1>3
  <2> HIDE DEF IInv
  <2>5. QED
    BY <1>5, <1>6, <1>7, <2>1, <2>2, <2>3, <2>4, EntriesAdded
<1>9. \A j \in Job : failures[j] <= failures'[j] /\ failures' \in [Job -> Nat]
  BY <1>1 DEF IInv, TypeOK
<1>10. \A v \in Worker : AtWork(v)'
  <2>1. ASSUME NEW v \in Worker, v # w PROVE AtWork(v)'
    <3>1. pc'[v] = pc[v] /\ cur'[v] = cur[v]
      BY <1>1, <2>1 DEF IInv, TypeOK
    <3>2. QED
      BY <1>1, <1>6, <1>9, <3>1, StaysAtWork DEF IInv, TypeOK
  <2>2. AtWork(w)'
    BY <1>1 DEF IInv, TypeOK, AtWork, Handling, Failing
  <2>3. QED
    BY <2>1, <2>2
<1>11. AttemptsAreEarned'
  <2>1. ASSUME NEW j \in dead' PROVE failures'[j] >= MaxAttempts
    <3>1. CASE j \in dead
      BY <1>1, <3>1 DEF IInv, AttemptsAreEarned
    <3>2. CASE j \notin dead
      <4>1. j = cur[w].job /\ cur[w].attempts + 1 >= MaxAttempts /\ failures[j] \in Nat
        BY <1>2, <1>3, <3>2 DEF IInv, TypeOK
      <4>2. QED
        BY <1>1, <1>2, <4>1, Constants
    <3>3. QED
      BY <3>1, <3>2
  <2>2. QED
    BY <1>8, <2>1 DEF AttemptsAreEarned
<1>12. UnfailedJobsSurvive'
  <2>1. \A m \in stream : Deliverable(m) => m \in stream' /\ (m.mid > lastRead' \/ m.mid \in pel')
    BY <1>3 DEF Deliverable
  <2>2. QED
    BY <1>1, <1>6, <1>9, <2>1, StillDeliverable
<1>13. QED
  BY <1>6, <1>8, <1>10, <1>11, <1>12 DEF IInv

-----------------------------------------------------------------------------
(* Processes, Redis and time. *)

LEMMA RunStep ==
    ASSUME IInv, NEW w \in Worker, Run(w)
    PROVE  IInv'
<1>1. /\ pc[w] = "off" /\ pc' = [pc EXCEPT ![w] = "idle"]
      /\ UNCHANGED <<stream, added, lastRead, pel, stale, dead, up, outages, cur, mail, jobs,
                     failures, done, raises, crashes>>
  BY DEF Run, Start, Goto, redis, network, local, history, budgets
<1>2. TypeOK'
  BY <1>1 DEF IInv, TypeOK
<1>3. Held(w)' = Held(w) /\ \A v \in Worker \ {w} : pc'[v] = pc[v]
  BY <1>1 DEF Held, IInv, TypeOK
<1>4. AtWork(w)' /\ \A j \in Job : failures[j] <= failures'[j]
  BY <1>1 DEF IInv, AtWork, TypeOK, Handling, Failing
<1>5. \A x \in stream : Deliverable(x) => x.mid > lastRead' \/ x.mid \in pel'
  BY <1>1 DEF Deliverable
<1>6. QED
  BY <1>1, <1>2, <1>3, <1>4, <1>5, WorkerOnly

\* A crash forgets the copies; the entries stay where they are.
LEMMA ExitStep ==
    ASSUME IInv, NEW w \in Worker, Exit(w)
    PROVE  IInv'
<1>1. /\ crashes < MaxCrashes /\ crashes' = crashes + 1
      /\ pc' = [pc EXCEPT ![w] = "off"] /\ cur' = [cur EXCEPT ![w] = NoMsg]
      /\ mail' = [mail EXCEPT ![w] = {}]
      /\ UNCHANGED <<stream, added, lastRead, pel, stale, dead, up, outages, jobs, failures,
                     done, raises>>
  BY DEF Exit, Goto, redis, network, history
<1>2. TypeOK'
  <2>1. crashes' \in 0 .. MaxCrashes
    BY <1>1, Constants DEF IInv, TypeOK
  <2>2. mail' \in [Worker -> SUBSET Message] /\ cur' \in [Worker -> Message \cup {NoMsg}]
    BY <1>1 DEF IInv, TypeOK
  <2>3. QED
    BY <1>1, <2>1, <2>2 DEF IInv, TypeOK
<1>3. /\ Held(w)' \subseteq Held(w)
      /\ \A v \in Worker \ {w} : pc'[v] = pc[v] /\ cur'[v] = cur[v] /\ mail'[v] = mail[v]
  BY <1>1 DEF Held, IInv, TypeOK
<1>4. AtWork(w)' /\ \A j \in Job : failures[j] <= failures'[j]
  BY <1>1 DEF IInv, AtWork, TypeOK, Handling, Failing
<1>5. \A x \in stream : Deliverable(x) => x.mid > lastRead' \/ x.mid \in pel'
  BY <1>1 DEF Deliverable
<1>6. QED
  BY <1>1, <1>2, <1>3, <1>4, <1>5, WorkerOnly

\* Redis going away, coming back, and time passing touch nothing but the idle
\* marks.
LEMMA SurroundingsStep ==
    ASSUME IInv, GoDown \/ ComeBack \/ (\E i \in 1 .. added : GoStale(i)) \/ UNCHANGED vars
    PROVE  IInv'
<1>1. /\ UNCHANGED <<stream, added, lastRead, pel, dead, pc, cur, mail, jobs, failures, done,
                     raises, crashes>>
      /\ stale' \subseteq pel
  BY DEF GoDown, ComeBack, GoStale, redis, local, history, budgets, vars, IInv, TypeOK
<1>2. up' \in BOOLEAN /\ outages' \in 0 .. MaxOutages
  <2>1. CASE UNCHANGED network \/ Cut
    BY <2>1, CutTypes DEF IInv
  <2>2. CASE ComeBack
    BY <2>2 DEF ComeBack, IInv, TypeOK
  <2>3. QED
    BY <2>1, <2>2 DEF GoDown, GoStale, vars, network
<1>3. TypeOK'
  BY <1>1, <1>2 DEF IInv, TypeOK
<1>4. (Numbered /\ CopiesAgree /\ CopiesEarned)'
  BY <1>1 DEF IInv, Numbered, CopiesAgree, CopiesEarned, Held
<1>5. ((\A w \in Worker : AtWork(w)) /\ AttemptsAreEarned /\ UnfailedJobsSurvive)'
  BY <1>1 DEF IInv, AtWork, AttemptsAreEarned, UnfailedJobsSurvive, Deliverable
<1>6. QED
  BY <1>3, <1>4, <1>5 DEF IInv

-----------------------------------------------------------------------------
(* Together. *)

LEMMA InitInv == Init => IInv
<1> SUFFICES ASSUME Init PROVE IInv
  OBVIOUS
<1>1. TypeOK
  BY Constants DEF Init, TypeOK
<1>2. Numbered /\ CopiesAgree /\ CopiesEarned
  BY DEF Init, Numbered, CopiesAgree, CopiesEarned, Held
<1>3. (\A w \in Worker : AtWork(w)) /\ AttemptsAreEarned /\ UnfailedJobsSurvive
  BY DEF Init, AtWork, Handling, Failing, AttemptsAreEarned, UnfailedJobsSurvive
<1>4. QED
  BY <1>1, <1>2, <1>3 DEF IInv

LEMMA StepInv == IInv /\ [Next]_vars => IInv'
<1> SUFFICES ASSUME IInv, [Next]_vars PROVE IInv'
  OBVIOUS
<1>1. CASE \E n \in 1 .. MaxJobs : \E ps \in [1 .. n -> Payload] : Submit(ps)
  BY <1>1, SubmitStep
<1>2. ASSUME NEW w \in Worker, WorkerStep(w) \/ Run(w) \/ Exit(w)
      PROVE  IInv'
  <2>1. CASE Read(w) \/ Claim(w) \/ Take(w)
    BY <2>1, ReadStep, ClaimStep, TakeStep
  <2>2. CASE HandlerReturns(w) \/ HandlerRaises(w)
    BY <2>2, HandlerReturnsStep, HandlerRaisesStep
  <2>3. CASE Ack(w) \/ Del(w) \/ FailedAck(w) \/ FailedDel(w)
    BY <2>3, AckStep, DelStep, FailedStep
  <2>4. CASE Again(w) \/ Run(w) \/ Exit(w)
    BY <2>4, AgainStep, RunStep, ExitStep
  <2>5. QED
    BY <1>2, <2>1, <2>2, <2>3, <2>4 DEF WorkerStep
<1>3. CASE GoDown \/ ComeBack \/ (\E i \in 1 .. added : GoStale(i)) \/ UNCHANGED vars
  BY <1>3, SurroundingsStep
<1>4. QED
  BY <1>1, <1>2, <1>3 DEF Next

LEMMA TaskStreamInv == Spec => []IInv
  BY InitInv, StepInv, PTL DEF Spec

\* The entries, pending lists, batches and counters of tasks.py keep their
\* types through every outage, crash and retry.
THEOREM TypeCorrect == Spec => []TypeOK
<1>1. IInv => TypeOK
  BY DEF IInv
<1>2. QED
  BY <1>1, TaskStreamInv, PTL

\* A job whose processing never failed is done, unread or still pending:
\* whatever workers exit and whatever replies of Redis are lost, no XACK or
\* XDEL of _process_message forgets it, for any number of workers that hold
\* copies of it.
THEOREM UnfailedJobsSurviveHolds == Spec => []UnfailedJobsSurvive
<1>1. IInv => UnfailedJobsSurvive
  BY DEF IInv
<1>2. QED
  BY <1>1, TaskStreamInv, PTL

\* The attempts field of an entry never exceeds the failures of its job, and a
\* job is written to the dead-letter stream only after MAX_ATTEMPTS of them,
\* although every claimed duplicate counts and retries on its own.
THEOREM AttemptsAreEarnedHolds == Spec => []AttemptsAreEarned
<1>1. IInv => AttemptsAreEarned
  BY DEF IInv
<1>2. QED
  BY <1>1, TaskStreamInv, PTL

=============================================================================
