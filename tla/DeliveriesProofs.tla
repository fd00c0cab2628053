-------------------------- MODULE DeliveriesProofs --------------------------
(***************************************************************************)
(* Proofs about the external campaign messages, for any number of workers, *)
(* rows and attempts: the composition implements the queue of TaskStream,  *)
(* a row says "sent" only for a message the provider accepted, a queued    *)
(* row has work under way until a fault is counted, and a lone worker      *)
(* repeats a message only after a fault.                                   *)
(*                                                                         *)
(* Every step is shown to be a step of the queue or a stutter, so what     *)
(* TaskStreamProofs proves of the queue holds of the composition (module   *)
(* instance QP).  On top of that, the invariant says what a worker's place *)
(* in the handler means for the row it works on (Handles), that nothing    *)
(* refers to a row that was never committed (RowsMade), and that Redis is  *)
(* down only after a counted outage (OutageCounted).                       *)
(***************************************************************************)
EXTENDS Deliveries, FiniteSetTheorems, SequenceTheorems, WellFoundedInduction, TLAPS

QP == INSTANCE TaskStreamProofs WITH Payload <- Delivery

-----------------------------------------------------------------------------
(* The ascending sequence of some rows. *)

LEMMA RowsNat == Rows \in Nat /\ RecoverLimit \in Nat
  BY BoundsAssumption

LEMMA FunctionIsSeq ==
    ASSUME NEW S, NEW n \in Nat, NEW f \in [1 .. n -> S]
    PROVE  f \in Seq(S) /\ Len(f) = n
<1>1. f \in Seq(S)
  BY SeqDef
<1>2. Len(f) \in Nat /\ 1 .. Len(f) = 1 .. n
  BY <1>1, LenProperties
<1>3. QED
  BY <1>1, <1>2

LEMMA LargestOfSome ==
    ASSUME NEW n \in Nat, NEW S \in SUBSET (1 .. n), S # {}
    PROVE  \E x \in S : \A y \in S : y <= x
<1> DEFINE R == {ss \in Nat \X Nat : ss[1] < ss[2]}
           T == {n - x : x \in S}
<1>0. IsWellFoundedOn(R, Nat)
  BY NatLessThanWellFounded DEF OpToRel
<1>1. T \subseteq Nat /\ T # {}
  <2>1. \A x \in S : n - x \in Nat
    OBVIOUS
  <2>2. PICK x \in S : TRUE
    OBVIOUS
  <2>3. QED
    BY <2>1, <2>2
<1> HIDE DEF R
<1>2. PICK t \in T : \A u \in T : ~(<<u, t>> \in R)
  BY <1>0, <1>1, WFMin
<1>3. PICK x \in S : t = n - x
  BY <1>2
<1>4. ASSUME NEW y \in S PROVE y <= x
  <2>1. n - y \in T /\ <<n - y, t>> \notin R
    BY <1>2
  <2>2. n - y \in Nat /\ t \in Nat
    BY <1>1, <2>1
  <2>3. ~(n - y < t)
    BY <2>1, <2>2 DEF R
  <2>4. QED
    BY <1>3, <2>3
<1>5. QED
  BY <1>4

Ascending(s) == \A i, j \in DOMAIN s : i < j => s[i] < s[j]

\* One more row, above all others, goes to the end.
LEMMA Longer ==
    ASSUME NEW n \in Nat, NEW T \in SUBSET (1 .. n), NEW x \in 1 .. n, \A y \in T : y < x,
           NEW k \in Nat, NEW t \in [1 .. k -> T], Ascending(t)
    PROVE  \E s \in [1 .. k + 1 -> T \cup {x}] : Ascending(s)
<1> DEFINE s == [i \in 1 .. k + 1 |-> IF i = k + 1 THEN x ELSE t[i]]
<1>1. \A i \in 1 .. k + 1 : i # k + 1 => i \in 1 .. k
  OBVIOUS
<1>2. s \in [1 .. k + 1 -> T \cup {x}]
  BY <1>1
<1>3. ASSUME NEW i \in 1 .. k + 1, NEW j \in 1 .. k + 1, i < j
      PROVE  s[i] < s[j]
  <2>1. i \in 1 .. k /\ s[i] = t[i] /\ t[i] \in T
    BY <1>1, <1>3
  <2>2. CASE j = k + 1
    BY <2>1, <2>2
  <2>3. CASE j # k + 1
    BY <1>1, <1>3, <2>1, <2>3 DEF Ascending
  <2>4. QED
    BY <2>2, <2>3
<1>4. Ascending(s)
  BY <1>2, <1>3 DEF Ascending
<1>5. QED
  BY <1>2, <1>4

\* Rows can be put in order: otherwise there would be a smallest number of
\* rows that cannot, and the largest of those rows could go to the end.
LEMMA CanBeOrdered ==
    ASSUME NEW n \in Nat, NEW S \in SUBSET (1 .. n)
    PROVE  /\ IsFiniteSet(S)
           /\ \E s \in [1 .. Cardinality(S) -> S] : Ascending(s)
<1> DEFINE Ordered(U) == \E s \in [1 .. Cardinality(U) -> U] : Ascending(s)
           Bad == {k \in Nat : \E U \in SUBSET (1 .. n) : Cardinality(U) = k /\ ~Ordered(U)}
           R == {ss \in Nat \X Nat : ss[1] < ss[2]}
<1>0. IsWellFoundedOn(R, Nat)
  BY NatLessThanWellFounded DEF OpToRel
<1>1. \A U \in SUBSET (1 .. n) : IsFiniteSet(U) /\ Cardinality(U) \in Nat
  <2>1. IsFiniteSet(1 .. n)
    BY FS_Interval
  <2>2. \A U \in SUBSET (1 .. n) : IsFiniteSet(U)
    BY <2>1, FS_Subset
  <2>3. QED
    BY <2>2, FS_CardinalityType
<1>2. Bad = {}
  <2> SUFFICES ASSUME Bad # {} PROVE FALSE
    OBVIOUS
  <2> HIDE DEF R, Ordered
  <2>1. PICK k \in Bad : \A l \in Bad : ~(<<l, k>> \in R)
    <3>1. Bad \subseteq Nat /\ Bad # {}
      OBVIOUS
    <3> HIDE DEF Bad
    <3>2. QED
      BY <1>0, <3>1, WFMin
  <2>2. PICK U \in SUBSET (1 .. n) : Cardinality(U) = k /\ ~Ordered(U)
    OBVIOUS
  <2>3. k \in Nat /\ \A l \in Nat : l < k => l \notin Bad
    BY <2>1 DEF R
  <2>4. CASE U = {}
    <3>1. Cardinality(U) = 0 /\ 1 .. 0 = {}
      BY <2>4, FS_EmptySet
    <3>2. [i \in {} |-> 0] \in [1 .. Cardinality(U) -> U] /\ Ascending([i \in {} |-> 0])
      BY <3>1 DEF Ascending
    <3>3. QED
      BY <2>2, <3>2 DEF Ordered
  <2>5. CASE U # {}
    <3>1. PICK x \in U : \A y \in U : y <= x
      BY <2>5, LargestOfSome
    <3> DEFINE T == U \ {x}
    <3>2. T \in SUBSET (1 .. n) /\ U = T \cup {x} /\ \A y \in T : y < x
      BY <3>1
    <3>3. Cardinality(U) = Cardinality(T) + 1 /\ Cardinality(T) \in Nat
      BY <1>1, <3>2, FS_AddElement
    <3>4. Ordered(T)
      BY <2>2, <2>3, <3>2, <3>3
    <3> HIDE DEF T
    <3>5. PICK t \in [1 .. Cardinality(T) -> T] : Ascending(t)
      BY <3>4 DEF Ordered
    <3>6. \E s \in [1 .. Cardinality(T) + 1 -> T \cup {x}] : Ascending(s)
      BY <3>2, <3>3, <3>5, Longer
    <3>7. QED
      BY <2>2, <3>2, <3>3, <3>6 DEF Ordered
  <2>6. QED
    BY <2>4, <2>5
<1>3. QED
  BY <1>1, <1>2

\* An ascending sequence of as many rows as there are names every row.
LEMMA InOrderIsSeq ==
    ASSUME NEW S \in SUBSET Delivery
    PROVE  InOrder(S) \in Seq(Delivery) /\ Range(InOrder(S)) = S
<1> DEFINE k == Cardinality(S)
           s == InOrder(S)
<1>1. IsFiniteSet(S) /\ k \in Nat /\ \E t \in [1 .. k -> S] : Ascending(t)
  BY RowsNat, CanBeOrdered, FS_CardinalityType DEF Delivery
<1>2. s \in [1 .. k -> S] /\ Ascending(s)
  BY <1>1 DEF InOrder, Ascending
<1> HIDE DEF s
<1>3. s \in Injection(1 .. k, S)
  <2>1. \A i \in 1 .. k : s[i] \in Nat
    <3>1. \A d \in S : d \in Nat
      BY RowsNat DEF Delivery
    <3>2. \A i \in 1 .. k : s[i] \in S
      BY <1>2
    <3>3. QED
      BY <3>1, <3>2
  <2>2. ASSUME NEW i \in 1 .. k, NEW j \in 1 .. k, s[i] = s[j]
        PROVE  i = j
    <3>1. ~(i < j) /\ ~(j < i)
      BY <1>2, <2>1, <2>2 DEF Ascending
    <3>2. QED
      BY <3>1
  <2>3. QED
    BY <1>2, <2>2 DEF Injection, IsInjective
<1>4. Cardinality(1 .. k) = Cardinality(S)
  BY <1>1, FS_Interval
<1>5. s \in Surjection(1 .. k, S)
  BY <1>1, <1>3, <1>4, FS_Injection
<1>6. Range(s) = S
  BY <1>2, <1>5 DEF Surjection, Range
<1>7. s \in Seq(S) /\ s \in [1 .. k -> Delivery]
  BY <1>1, <1>2, FunctionIsSeq
<1>8. s \in Seq(Delivery)
  BY <1>1, <1>7, FunctionIsSeq
<1>9. QED
  BY <1>6, <1>8 DEF s

-----------------------------------------------------------------------------
(* The queue's actions, read through the two instances of its module. *)

LEMMA SameStep == [Queue!Next]_(Queue!vars) => [QP!Next]_(QP!vars)
  BY DEF Queue!vars, QP!vars, Queue!Next, QP!Next, Queue!Submit, QP!Submit,
         Queue!Enqueue, QP!Enqueue, Queue!Fresh, QP!Fresh,
         Queue!WorkerStep, QP!WorkerStep, Queue!Run, QP!Run, Queue!Start, QP!Start,
         Queue!Exit, QP!Exit, Queue!GoDown, QP!GoDown, Queue!ComeBack, QP!ComeBack,
         Queue!GoStale, QP!GoStale, Queue!Read, QP!Read, Queue!Claim, QP!Claim,
         Queue!Take, QP!Take, Queue!Idle, QP!Idle, Queue!Handed, QP!Handed,
         Queue!Earliest, QP!Earliest, Queue!Cardinality, QP!Cardinality,
         Queue!HandlerReturns, QP!HandlerReturns, Queue!HandlerRaises, QP!HandlerRaises,
         Queue!Fails, QP!Fails, Queue!Ack, QP!Ack, Queue!Del, QP!Del,
         Queue!FailedAck, QP!FailedAck, Queue!FailedDel, QP!FailedDel, Queue!Again, QP!Again,
         Queue!AckEffect, QP!AckEffect, Queue!DelEffect, QP!DelEffect,
         Queue!AgainEffect, QP!AgainEffect, Queue!Retry, QP!Retry,
         Queue!Answered, QP!Answered, Queue!Refused, QP!Refused, Queue!Goto, QP!Goto,
         Queue!Cut, QP!Cut, Queue!redis, QP!redis, Queue!local, QP!local,
         Queue!network, QP!network, Queue!history, QP!history, Queue!budgets, QP!budgets

LEMMA SameInit == Queue!Init => QP!Init
  BY DEF Queue!Init, QP!Init, Queue!Job, QP!Job

LEMMA SameConstants == QP!ConstantsAssumption
  BY QueueAssumption DEF Queue!ConstantsAssumption, QP!ConstantsAssumption

\* What the queue's invariant says, in the terms of the composition.
Work == {"handle", "ack", "del", "failed_ack", "failed_del", "again"}

QueueFacts ==
    /\ stream \subseteq Queue!Message
    /\ added \in Nat /\ lastRead \in Nat /\ lastRead <= added /\ pel \subseteq Nat
    /\ dead \subseteq Queue!Job
    /\ up \in BOOLEAN /\ jobs \in Nat
    /\ raises \in Nat /\ crashes \in Nat /\ outages \in Nat
    /\ pc \in [Worker -> {"off", "idle"} \cup Work]
    /\ cur \in [Worker -> Queue!Message \cup {NoMsg}]
    /\ mail \in [Worker -> SUBSET Queue!Message]
    /\ \A w \in Worker : IF pc[w] \in Work THEN cur[w] \in Queue!Message ELSE cur[w] = NoMsg
    /\ \A w \in Worker : \A m \in stream :
           cur[w] # NoMsg /\ m.mid = cur[w].mid => m = cur[w]

LEMMA QueueConstants ==
    /\ NoMsg \notin Queue!Message
    /\ \A m \in Queue!Message : m.payload \in Delivery
    /\ MaxJobs \in Nat /\ MaxAttempts \in Nat /\ MaxCrashes \in Nat /\ MaxRaises \in Nat
    /\ MaxOutages \in Nat
<1>1. Queue!Message \subseteq [mid : Nat, job : Nat, payload : Delivery, attempts : Nat]
  BY QueueAssumption DEF Queue!ConstantsAssumption, Queue!Message, Queue!Job
<1>2. QED
  BY <1>1, QueueAssumption DEF Queue!ConstantsAssumption, Queue!Message

LEMMA QueueInv == QP!IInv => QueueFacts
<1> SUFFICES ASSUME QP!IInv PROVE QueueFacts
  OBVIOUS
<1>1. QP!TypeOK /\ QP!Numbered /\ QP!CopiesAgree /\ \A w \in Worker : QP!AtWork(w)
  BY DEF QP!IInv
<1>2. /\ stream \subseteq Queue!Message
      /\ added \in Nat /\ lastRead \in Nat /\ pel \subseteq Nat /\ dead \subseteq Queue!Job
      /\ up \in BOOLEAN
      /\ cur \in [Worker -> Queue!Message \cup {NoMsg}]
      /\ mail \in [Worker -> SUBSET Queue!Message]
  BY <1>1 DEF QP!TypeOK, QP!Message, QP!Job, Queue!Message, Queue!Job
<1>3. jobs \in Nat /\ raises \in Nat /\ crashes \in Nat /\ outages \in Nat
  BY <1>1, QueueConstants DEF QP!TypeOK
<1>4. pc \in [Worker -> {"off", "idle"} \cup Work]
  BY <1>1 DEF QP!TypeOK, Work
<1>5. lastRead <= added
  BY <1>1 DEF QP!Numbered
<1>6. \A w \in Worker : IF pc[w] \in Work THEN cur[w] \in Queue!Message ELSE cur[w] = NoMsg
  BY <1>1 DEF QP!AtWork, QP!Handling, Work, QP!Message, QP!Job, Queue!Message, Queue!Job
<1>7. \A w \in Worker : \A m \in stream : cur[w] # NoMsg /\ m.mid = cur[w].mid => m = cur[w]
  BY <1>1 DEF QP!CopiesAgree, QP!Held
<1>8. QED
  BY <1>2, <1>3, <1>4, <1>5, <1>6, <1>7 DEF QueueFacts

-----------------------------------------------------------------------------
(* Refinement: every step is a step of the queue, or leaves it alone. *)

\* A batch of jobs is one the queue admits; an empty one changes nothing, or
\* it loses the connection.
LEMMA EnqueueIsSubmit ==
    ASSUME QueueFacts, NEW q \in Seq(Delivery), Queue!Enqueue(q), UNCHANGED <<pc, cur, mail>>
    PROVE  [Queue!Next]_(Queue!vars)
<1>1. Len(q) \in Nat /\ q \in [1 .. Len(q) -> Delivery] /\ jobs + Len(q) <= MaxJobs
  BY LenProperties DEF Queue!Enqueue
<1>2. CASE Len(q) # 0
  <2>1. Len(q) \in 1 .. MaxJobs
    BY <1>1, <1>2, QueueConstants DEF QueueFacts
  <2>2. Queue!Submit(q)
    BY DEF Queue!Submit, Queue!local
  <2>3. QED
    BY <1>1, <2>1, <2>2 DEF Queue!Next
<1>3. CASE Len(q) = 0
  <2>1. /\ Queue!Fresh(q, 0) = {} /\ 0 .. Len(q) = {0}
        /\ added + 0 = added /\ jobs + 0 = jobs
    BY <1>3 DEF Queue!Fresh, QueueFacts
  <2>2. /\ UNCHANGED <<stream, added, lastRead, pel, stale, dead, jobs, failures, done,
                       raises, crashes, pc, cur, mail>>
        /\ UNCHANGED Queue!network \/ (up /\ Queue!Cut)
    BY <1>3, <2>1 DEF Queue!Enqueue, Queue!budgets
  <2>3. CASE UNCHANGED Queue!network
    BY <2>2, <2>3 DEF Queue!network, Queue!vars
  <2>4. CASE up /\ Queue!Cut
    <3>1. Queue!GoDown
      BY <2>2, <2>4 DEF Queue!GoDown, Queue!redis, Queue!local, Queue!history, Queue!budgets
    <3>2. QED
      BY <3>1 DEF Queue!Next
  <2>5. QED
    BY <2>2, <2>3, <2>4
<1>4. QED
  BY <1>2, <1>3

LEMMA StepRefines ==
    ASSUME QueueFacts, DeliveriesTypeOK, [Next]_vars
    PROVE  [Queue!Next]_(Queue!vars)
<1>1. CASE UNCHANGED queueVars
  BY <1>1 DEF queueVars, Queue!vars
<1>2. ASSUME NEW w \in Worker, ProcessStep(w) \/ Exit(w)
      PROVE  [Queue!Next]_(Queue!vars)
  <2>1. CASE Recover(w) \/ EnqueueCampaign(w)
    BY <2>1, EnqueueIsSubmit DEF Recover, EnqueueCampaign, DeliveriesTypeOK
  <2>2. CASE LoadQueued(w) \/ RecoveryFails(w)
    BY <1>1, <2>2 DEF LoadQueued, RecoveryFails
  <2>3. CASE RunWorker(w) \/ Exit(w)
    BY <2>3 DEF RunWorker, Exit, Queue!Next
  <2>4. QED
    BY <1>2, <2>1, <2>2, <2>3 DEF ProcessStep
<1>3. ASSUME NEW w \in Worker, Handle(w) \/ QueueStep(w)
      PROVE  [Queue!Next]_(Queue!vars)
  <2>1. \/ UNCHANGED queueVars
        \/ Queue!HandlerReturns(w) \/ Queue!HandlerRaises(w)
        \/ QueueStep(w)
    BY <1>3 DEF Handle, Load, Skip, PostWebhook, CommitVerdict, DatabaseError, Return
  <2>2. Queue!WorkerStep(w) \/ UNCHANGED queueVars
    BY <2>1 DEF QueueStep, Queue!WorkerStep
  <2>3. QED
    BY <1>1, <2>2 DEF Queue!Next
<1>4. ASSUME NEW w \in Worker, NEW last \in Delivery, CreateCampaign(w, last)
      PROVE  [Queue!Next]_(Queue!vars)
  BY <1>1, <1>4 DEF CreateCampaign
<1>5. CASE RedisOrTime
  BY <1>5 DEF RedisOrTime, Queue!Next
<1>6. CASE UNCHANGED vars
  BY <1>1, <1>6 DEF vars
<1>7. QED
  BY <1>2, <1>3, <1>4, <1>5, <1>6 DEF Next

LEMMA QueueStepInv ==
    ASSUME QP!IInv, DeliveriesTypeOK, [Next]_vars
    PROVE  QP!IInv' /\ QueueFacts /\ QueueFacts'
<1>1. QueueFacts
  BY QueueInv
<1>2. [QP!Next]_(QP!vars)
  BY <1>1, StepRefines, SameStep
<1>3. QP!IInv'
  BY <1>2, SameConstants, QP!StepInv
<1>4. QP!IInv' => QueueFacts'
  BY QueueInv, PTL
<1>5. QED
  BY <1>1, <1>3, <1>4

-----------------------------------------------------------------------------
(* The invariant of the composition. *)

\* Where a worker is in the handler, and what that says of its row.
Handles(w) ==
    /\ verdict[w] # "idle" => pc[w] = "handle"
    /\ verdict[w] = "sent" => posts[Row(w)] > 0
    /\ pc[w] \in {"ack", "del"} => status[Row(w)] \in Final
    /\ found[w] # <<>> => booting[w] = "recovering"

Made(d) == status[d] # "none"

\* Jobs, copies and lists name committed rows only.
RowsMade ==
    /\ \A m \in stream : Made(m.payload)
    /\ \A w \in Worker : \A m \in mail[w] : Made(m.payload)
    /\ \A w \in Worker : cur[w] # NoMsg => Made(Row(w))
    /\ \A w \in Worker : \A d \in Range(outbox[w]) \cup Range(found[w]) : Made(d)

OutageCounted == ~up => outages > 0

Own ==
    /\ DeliveriesTypeOK
    /\ \A w \in Worker : Handles(w)
    /\ RowsMade
    /\ OutageCounted
    /\ SentWasAccepted
    /\ QueuedRowHasWork

IInv == QP!IInv /\ Own

\* QueuedRowHasWork, for one row.
Covered(d) ==
    status[d] = "queued" => HasWork(d) \/ crashes > 0 \/ outages > 0 \/ dead # {}

LEMMA CoveredRows == QueuedRowHasWork <=> \A d \in Delivery : Covered(d)
  BY DEF QueuedRowHasWork, Covered

-----------------------------------------------------------------------------
(* What a step must keep for each part of the invariant to carry over. *)

\* Rows are created once and become final once.
Advances ==
    /\ \A d \in Delivery : status[d] # "none" => status'[d] # "none"
    /\ \A d \in Delivery : status[d] \in Final => status'[d] \in Final
    /\ \A d \in Delivery : posts[d] > 0 => posts'[d] > 0

\* A worker that the step leaves where it is.
LEMMA StaysInHandler ==
    ASSUME QueueFacts, NEW w \in Worker, Handles(w), Advances,
           pc'[w] = pc[w], cur'[w] = cur[w], verdict'[w] = verdict[w],
           found'[w] = found[w], booting'[w] = booting[w]
    PROVE  Handles(w)'
<1>1. CASE pc[w] \in Work
  <2>1. Row(w) \in Delivery /\ Row(w)' = Row(w)
    BY <1>1, QueueConstants DEF QueueFacts, Row
  <2>2. QED
    BY <2>1 DEF Handles, Advances
<1>2. CASE pc[w] \notin Work
  BY <1>2 DEF Handles, Work
<1>3. QED
  BY <1>1, <1>2

\* Nothing names a row that nothing named before.
LEMMA NoNewNames ==
    ASSUME QueueFacts, DeliveriesTypeOK, RowsMade, Advances,
           \A m \in stream' : \/ m \in stream
                              \/ \E v \in Worker : cur[v] # NoMsg /\ m.payload = Row(v)
                              \/ m.payload \in Delivery /\ Made(m.payload),
           \A w \in Worker : mail'[w] \subseteq mail[w] \cup stream,
           \A w \in Worker : cur'[w] # NoMsg => cur'[w] = cur[w] \/ cur'[w] \in mail[w],
           \A w \in Worker : \A d \in Range(outbox'[w]) \cup Range(found'[w]) :
               \/ d \in Range(outbox[w]) \cup Range(found[w])
               \/ d \in Delivery /\ status'[d] # "none"
    PROVE  RowsMade'
<1>1. /\ \A m \in stream : m.payload \in Delivery
      /\ \A w \in Worker : \A m \in mail[w] : m.payload \in Delivery
      /\ \A w \in Worker : cur[w] # NoMsg => Row(w) \in Delivery
  BY QueueConstants DEF QueueFacts, Row
<1>2. \A w \in Worker : \A d \in Range(outbox[w]) \cup Range(found[w]) : d \in Delivery
  <2> SUFFICES ASSUME NEW w \in Worker
               PROVE  Range(outbox[w]) \subseteq Delivery /\ Range(found[w]) \subseteq Delivery
    OBVIOUS
  <2>1. outbox[w] \in Seq(Delivery) /\ found[w] \in Seq(Delivery)
    BY DEF DeliveriesTypeOK
  <2>2. QED
    BY <2>1, LenProperties DEF Range
<1>3. \A d \in Delivery : Made(d) => Made(d)'
  BY DEF Advances, Made
<1>4. (\A m \in stream : Made(m.payload))'
  BY <1>1, <1>3 DEF RowsMade
<1>5. (\A w \in Worker : \A m \in mail[w] : Made(m.payload))'
  BY <1>1, <1>3 DEF RowsMade
<1>6. (\A w \in Worker : cur[w] # NoMsg => Made(Row(w)))'
  BY <1>1, <1>3 DEF RowsMade, Row
<1>7. (\A w \in Worker : \A d \in Range(outbox[w]) \cup Range(found[w]) : Made(d))'
  BY <1>2, <1>3 DEF RowsMade, Made
<1>8. QED
  BY <1>4, <1>5, <1>6, <1>7 DEF RowsMade

\* Redis goes away only by an outage that is counted.
LEMMA OutagesGrow ==
    ASSUME QueueFacts, OutageCounted, UNCHANGED Queue!network \/ Queue!Cut
    PROVE  /\ OutageCounted' /\ outages' >= outages /\ outages' \in Nat
           /\ Queue!Cut => outages' > 0
  BY DEF QueueFacts, OutageCounted, Queue!network, Queue!Cut

\* Once a fault is counted the rows are excused.
Excused == crashes > 0 \/ outages > 0 \/ dead # {}

\* Each row keeps some work, or is excused, or is no longer queued.
LEMMA WorkKept ==
    ASSUME QueueFacts, QueueFacts', QueuedRowHasWork,
           \A d \in Delivery : status'[d] = "queued" => status[d] = "queued",
           crashes <= crashes', outages <= outages', dead \subseteq dead',
           \A m \in stream : Queue!Deliverable(m) => Covered(m.payload)',
           \A w \in Worker, d \in Delivery : cur[w] # NoMsg /\ Row(w) = d => Covered(d)',
           \A w \in Worker : \A d \in Range(outbox[w]) \cup Range(found[w]) : Covered(d)'
    PROVE  QueuedRowHasWork'
<1>1. ASSUME NEW d \in Delivery PROVE Covered(d)'
  <2>1. CASE Excused
    <3>1. Excused'
      BY <2>1 DEF Excused, QueueFacts
    <3>2. QED
      BY <3>1 DEF Excused, Covered
  <2>2. CASE HasWork(d)
    <3>1. CASE \E m \in stream : m.payload = d /\ Queue!Deliverable(m)
      BY <3>1
    <3>2. CASE \E w \in Worker : cur[w] # NoMsg /\ Row(w) = d
      BY <3>2
    <3>3. CASE \E w \in Worker : d \in Range(outbox[w]) \cup Range(found[w])
      BY <3>3
    <3>4. QED
      BY <2>2, <3>1, <3>2, <3>3 DEF HasWork
  <2>3. CASE status[d] # "queued"
    BY <2>3 DEF Covered
  <2>4. QED
    BY <2>1, <2>2, <2>3 DEF QueuedRowHasWork, Excused
<1>2. QED
  BY <1>1 DEF QueuedRowHasWork, Covered

-----------------------------------------------------------------------------
(* The admin's request and the start of a process. *)

\* Steps that change no row, no handler and only w's lists.
LEMMA ListsStep ==
    ASSUME Own, QueueFacts, QueueFacts', NEW w \in Worker,
           UNCHANGED <<pc, cur, mail, verdict, posts>>,
           DeliveriesTypeOK', Advances,
           \A v \in Worker \ {w} : /\ outbox'[v] = outbox[v] /\ found'[v] = found[v]
                                   /\ booting'[v] = booting[v],
           found'[w] # <<>> => booting'[w] = "recovering",
           SentWasAccepted', QueuedRowHasWork', RowsMade', OutageCounted'
    PROVE  Own'
<1>1. ASSUME NEW v \in Worker PROVE Handles(v)'
  <2>1. CASE v # w
    BY <2>1, StaysInHandler DEF Own
  <2>2. CASE v = w
    <3>1. Handles(v)
      BY DEF Own
    <3>2. CASE pc[v] \in Work
      <4>1. Row(v) \in Delivery /\ Row(v)' = Row(v)
        BY <3>2, QueueConstants DEF QueueFacts, Row
      <4>2. QED
        BY <2>2, <3>1, <4>1 DEF Handles, Advances
    <3>3. CASE pc[v] \notin Work
      BY <2>2, <3>1, <3>3 DEF Handles, Work
    <3>4. QED
      BY <3>2, <3>3
  <2>3. QED
    BY <2>1, <2>2
<1>2. QED
  BY <1>1 DEF Own

LEMMA CreateCampaignStep ==
    ASSUME Own, QueueFacts, QueueFacts', NEW w \in Worker, NEW last \in Delivery,
           CreateCampaign(w, last)
    PROVE  Own'
<1> DEFINE rows == {d \in 1 .. last : status[d] = "none"}
<1>1. PICK configured \in BOOLEAN :
        /\ status' = [d \in Delivery |-> IF d \notin rows THEN status[d]
                                         ELSE IF configured THEN "queued" ELSE "not_configured"]
        /\ outbox' = IF configured THEN [outbox EXCEPT ![w] = InOrder(rows)] ELSE outbox
  BY DEF CreateCampaign
<1>2. /\ outbox[w] = <<>>
      /\ UNCHANGED <<queueVars, verdict, posts, found, booting, abandoned>>
  BY DEF CreateCampaign
<1>3. UNCHANGED <<stream, added, lastRead, pel, dead, up, pc, cur, mail, crashes, outages>>
  BY <1>2 DEF queueVars
<1>4. rows \in SUBSET Delivery /\ InOrder(rows) \in Seq(Delivery) /\ Range(InOrder(rows)) = rows
  <2>1. rows \in SUBSET Delivery
    BY RowsNat DEF Delivery
  <2>2. QED
    BY <2>1, InOrderIsSeq
<1> HIDE DEF rows
<1>5. DeliveriesTypeOK'
  <2>1. status' \in [Delivery -> Final \cup {"none", "queued"}]
    BY <1>1 DEF Own, DeliveriesTypeOK, Final
  <2>2. outbox' \in [Worker -> Seq(Delivery)]
    BY <1>1, <1>4 DEF Own, DeliveriesTypeOK
  <2>3. QED
    BY <1>2, <2>1, <2>2 DEF Own, DeliveriesTypeOK
<1>6. \A d \in rows : status[d] = "none"
  BY DEF rows
<1>7. Advances
  BY <1>1, <1>2, <1>6 DEF Advances, Final, Own, DeliveriesTypeOK
<1>8. SentWasAccepted'
  BY <1>1, <1>2 DEF Own, SentWasAccepted
<1>9. RowsMade'
  <2>1. ASSUME NEW v \in Worker, NEW d \in Range(outbox'[v]) \cup Range(found'[v])
        PROVE  \/ d \in Range(outbox[v]) \cup Range(found[v])
               \/ d \in Delivery /\ status'[d] # "none"
    <3>1. CASE d \in Range(found[v]) \/ outbox'[v] = outbox[v]
      BY <1>2, <2>1, <3>1
    <3>2. CASE configured /\ v = w
      <4>1. outbox'[v] = InOrder(rows) /\ found'[v] = found[v]
        BY <1>1, <1>2, <3>2 DEF Own, DeliveriesTypeOK
      <4>2. QED
        BY <1>1, <1>4, <2>1, <3>2, <4>1
    <3>3. QED
      BY <1>1, <1>2, <2>1, <3>1, <3>2 DEF Own, DeliveriesTypeOK
  <2>2. \A v \in Worker : mail'[v] \subseteq mail[v] \cup stream
    BY <1>3
  <2>3. \A v \in Worker : cur'[v] = cur[v]
    BY <1>3
  <2>4. QED
    BY <1>3, <1>7, <2>1, <2>2, <2>3, NoNewNames DEF Own
<1>10. QueuedRowHasWork'
  <2>1. ASSUME NEW d \in Delivery PROVE Covered(d)'
    <3>1. CASE d \in rows /\ configured
      <4>1. outbox'[w] = InOrder(rows)
        BY <1>1, <3>1 DEF Own, DeliveriesTypeOK
      <4>2. HasWork(d)'
        BY <1>4, <3>1, <4>1 DEF HasWork
      <4>3. QED
        BY <4>2 DEF Covered
    <3>2. CASE d \in rows /\ ~configured
      BY <1>1, <3>2 DEF Covered
    <3>3. CASE d \notin rows
      <4>1. status'[d] = status[d] /\ Covered(d)
        BY <1>1, <3>3 DEF Own, QueuedRowHasWork, Covered
      <4>2. HasWork(d) => HasWork(d)'
        <5>1. ASSUME NEW v \in Worker
              PROVE  Range(outbox[v]) \subseteq Range(outbox'[v])
          <6>1. CASE outbox'[v] = outbox[v]
            BY <6>1
          <6>2. CASE v = w
            BY <1>2, <6>2 DEF Range
          <6>3. QED
            BY <1>1, <6>1, <6>2 DEF Own, DeliveriesTypeOK
        <5>2. QED
          BY <1>2, <1>3, <5>1 DEF HasWork, Queue!Deliverable, Row
      <4>3. QED
        BY <1>3, <4>1, <4>2 DEF Covered
    <3>4. QED
      BY <3>1, <3>2, <3>3
  <2>2. QED
    BY <2>1 DEF QueuedRowHasWork, Covered
<1>11. \A v \in Worker \ {w} : outbox'[v] = outbox[v]
  BY <1>1 DEF Own, DeliveriesTypeOK
<1>12. OutageCounted' /\ (found'[w] # <<>> => booting'[w] = "recovering")
  BY <1>2, <1>3 DEF Own, OutageCounted, Handles
<1>13. QED
  BY <1>2, <1>3, <1>5, <1>7, <1>8, <1>9, <1>10, <1>11, <1>12, ListsStep

\* enqueue_many: every row of the list now has an entry that nobody has read,
\* or the connection was lost.
LEMMA EnqueueKeeps ==
    ASSUME Own, QueueFacts, QueueFacts', NEW q \in Seq(Delivery), Queue!Enqueue(q)
    PROVE  /\ stream \subseteq stream'
           /\ UNCHANGED <<lastRead, pel, dead, crashes>>
           /\ \A m \in stream' : m \in stream \/ m.payload \in Range(q)
           /\ OutageCounted' /\ outages <= outages'
           /\ \A d \in Range(q) : Covered(d)'
<1>1. Len(q) \in Nat /\ DOMAIN q = 1 .. Len(q) /\ \A i \in 1 .. Len(q) : q[i] \in Delivery
  BY LenProperties
<1>2. UNCHANGED <<lastRead, pel, dead, crashes>>
  BY DEF Queue!Enqueue, Queue!budgets
<1>3. OutageCounted' /\ outages <= outages' /\ (Queue!Cut => outages' > 0)
  <2>1. UNCHANGED Queue!network \/ Queue!Cut
    BY DEF Queue!Enqueue
  <2>2. QED
    BY <2>1, OutagesGrow DEF Own, QueueFacts
<1>4. CASE ~up
  <2>1. UNCHANGED stream /\ outages > 0 /\ outages' > 0
    BY <1>3, <1>4 DEF Queue!Enqueue, Own, OutageCounted, QueueFacts
  <2>2. QED
    BY <1>2, <1>3, <2>1 DEF Covered
<1>5. CASE up
  <2>1. PICK k \in 0 .. Len(q) : /\ stream' = stream \cup Queue!Fresh(q, k)
                                 /\ k = Len(q) \/ Queue!Cut
    BY <1>5 DEF Queue!Enqueue
  <2>2. \A m \in Queue!Fresh(q, k) : m.payload \in Range(q)
    <3>1. k \in Nat /\ k <= Len(q)
      BY <1>1
    <3>2. \A i \in 1 .. k : i \in DOMAIN q
      BY <1>1, <3>1
    <3>3. \A i \in 1 .. k : q[i] \in Range(q)
      BY <3>2 DEF Range
    <3>4. QED
      BY <3>3 DEF Queue!Fresh
  <2>3. ASSUME NEW d \in Range(q) PROVE Covered(d)'
    <3>1. CASE Queue!Cut
      BY <1>3, <3>1 DEF Covered
    <3>2. CASE k = Len(q)
      <4>1. PICK i \in 1 .. k : d = q[i]
        BY <1>1, <3>2 DEF Range
      <4>2. PICK m \in Queue!Fresh(q, k) : m.mid = added + i /\ m.payload = q[i]
        <5> DEFINE x == [mid |-> added + i, job |-> jobs + i, payload |-> q[i], attempts |-> 0]
        <5>1. x \in Queue!Fresh(q, k)
          BY DEF Queue!Fresh
        <5>2. x.mid = added + i /\ x.payload = q[i]
          OBVIOUS
        <5>3. QED
          BY <5>1, <5>2
      <4>3. m \in stream' /\ m.payload = d
        BY <2>1, <4>1, <4>2
      <4>4. i \in Nat /\ i > 0 /\ added \in Nat /\ lastRead \in Nat /\ lastRead <= added
        <5>1. k \in Nat
          BY <1>1
        <5>2. i \in Nat /\ i > 0
          BY <5>1
        <5>3. QED
          BY <5>2 DEF QueueFacts
      <4>5. m.mid > lastRead'
        BY <1>2, <4>2, <4>4
      <4>6. Queue!Deliverable(m)'
        BY <4>3, <4>5 DEF Queue!Deliverable
      <4>7. HasWork(d)'
        BY <4>3, <4>6 DEF HasWork
      <4>8. QED
        BY <4>7 DEF Covered
    <3>3. QED
      BY <2>1, <3>1, <3>2
  <2>4. QED
    BY <1>2, <1>3, <2>1, <2>2, <2>3
<1>6. QED
  BY <1>4, <1>5

\* Both users of enqueue_many: the list is gone, its rows are covered.
LEMMA EnqueueStep ==
    ASSUME Own, QueueFacts, QueueFacts', NEW w \in Worker, Recover(w) \/ EnqueueCampaign(w)
    PROVE  Own'
<1>1. PICK q \in {outbox[w], found[w]} :
        /\ Queue!Enqueue(q)
        /\ \/ /\ q = outbox[w] /\ outbox' = [outbox EXCEPT ![w] = <<>>]
              /\ UNCHANGED <<found, booting>>
           \/ /\ q = found[w] /\ found' = [found EXCEPT ![w] = <<>>]
              /\ booting' = [booting EXCEPT ![w] = "recovered"] /\ UNCHANGED outbox
  BY DEF Recover, EnqueueCampaign
<1>2. UNCHANGED <<pc, cur, mail, status, verdict, posts, abandoned>>
  BY DEF Recover, EnqueueCampaign, handlerVars
<1>3. q \in Seq(Delivery)
  BY DEF Own, DeliveriesTypeOK
<1>4. /\ stream \subseteq stream'
      /\ UNCHANGED <<lastRead, pel, dead, crashes>>
      /\ \A m \in stream' : m \in stream \/ m.payload \in Range(q)
      /\ OutageCounted' /\ outages <= outages'
      /\ \A d \in Range(q) : Covered(d)'
  BY <1>1, <1>3, EnqueueKeeps
<1>5. Advances
  BY <1>2 DEF Advances
<1>6. DeliveriesTypeOK'
  <2>1. <<>> \in Seq(Delivery)
    BY EmptySeq
  <2>2. QED
    BY <1>1, <1>2, <2>1 DEF Own, DeliveriesTypeOK
<1>7. \A v \in Worker : /\ outbox'[v] = outbox[v] \/ (v = w /\ q = outbox[w] /\ outbox'[v] = <<>>)
                        /\ found'[v] = found[v] \/ (v = w /\ q = found[w] /\ found'[v] = <<>>)
                        /\ v # w => booting'[v] = booting[v]
  BY <1>1 DEF Own, DeliveriesTypeOK
<1>8. Range(<<>>) = {}
  BY DEF Range
<1>9. \A d \in Range(q) : d \in Delivery /\ Made(d)
  <2>1. \A d \in Range(q) : d \in Delivery
    BY <1>3, LenProperties DEF Range
  <2>2. \A d \in Range(q) : Made(d)
    BY <1>1 DEF Own, RowsMade
  <2>3. QED
    BY <2>1, <2>2
<1>10. RowsMade'
  <2>1. \A v \in Worker : \A d \in Range(outbox'[v]) \cup Range(found'[v]) :
           d \in Range(outbox[v]) \cup Range(found[v])
    BY <1>7, <1>8
  <2>2. \A m \in stream' : m \in stream \/ (m.payload \in Delivery /\ Made(m.payload))
    BY <1>4, <1>9
  <2>3. QED
    BY <1>2, <1>5, <2>1, <2>2, NoNewNames DEF Own
<1>11. QueuedRowHasWork'
  <2>1. ASSUME NEW m \in stream, Queue!Deliverable(m) PROVE Covered(m.payload)'
    <3>1. Queue!Deliverable(m)'
      BY <1>4, <2>1 DEF Queue!Deliverable
    <3>2. QED
      BY <1>4, <3>1 DEF Covered, HasWork
  <2>2. ASSUME NEW v \in Worker, NEW d \in Delivery, cur[v] # NoMsg, Row(v) = d
        PROVE  Covered(d)'
    BY <1>2, <2>2 DEF Covered, HasWork, Row
  <2>3. ASSUME NEW v \in Worker, NEW d \in Range(outbox[v]) \cup Range(found[v])
        PROVE  Covered(d)'
    <3>1. CASE d \in Range(q)
      BY <1>4, <3>1
    <3>2. CASE d \in Range(outbox'[v]) \cup Range(found'[v])
      BY <3>2 DEF Covered, HasWork
    <3>3. QED
      BY <1>7, <2>3, <3>1, <3>2
  <2>4. QED
    BY <1>2, <1>4, <2>1, <2>2, <2>3, WorkKept DEF Own, QueueFacts
<1>12. SentWasAccepted' /\ (found'[w] # <<>> => booting'[w] = "recovering")
  <2>1. SentWasAccepted'
    BY <1>2 DEF Own, SentWasAccepted
  <2>2. Handles(w)
    BY DEF Own
  <2>3. QED
    BY <1>1, <1>7, <2>1, <2>2 DEF Handles, Own, DeliveriesTypeOK
<1>13. \A v \in Worker \ {w} : /\ outbox'[v] = outbox[v] /\ found'[v] = found[v]
                               /\ booting'[v] = booting[v]
  BY <1>7
<1>14. QED
  BY <1>2, <1>4, <1>5, <1>6, <1>10, <1>11, <1>12, <1>13, ListsStep

\* The recovery query of a starting process.
LEMMA LoadQueuedStep ==
    ASSUME Own, QueueFacts, QueueFacts', NEW w \in Worker, LoadQueued(w)
    PROVE  Own'
<1> DEFINE some == {d \in Queued : Cardinality({e \in Queued : e < d}) < RecoverLimit}
<1>1. /\ booting[w] = "down" /\ booting' = [booting EXCEPT ![w] = "recovering"]
      /\ found' = [found EXCEPT ![w] = QueuedIds]
      /\ abandoned' = Queued \ Range(QueuedIds)
      /\ UNCHANGED <<stream, added, lastRead, pel, dead, up, pc, cur, mail, crashes, outages,
                     status, verdict, posts, outbox>>
  BY DEF LoadQueued, queueVars, handlerVars
<1>2. some \in SUBSET Delivery /\ \A d \in some : status[d] = "queued"
  BY DEF Queued
<1>3. QueuedIds \in Seq(Delivery) /\ \A d \in Range(QueuedIds) : d \in Delivery /\ status[d] = "queued"
  <2>1. QueuedIds = InOrder(some)
    BY DEF QueuedIds
  <2> HIDE DEF some
  <2>2. QED
    BY <1>2, <2>1, InOrderIsSeq
<1>4. DeliveriesTypeOK' /\ Advances
  <2>1. abandoned' \subseteq Delivery
    BY <1>1 DEF Queued
  <2>2. QED
    BY <1>1, <1>3, <2>1 DEF Own, DeliveriesTypeOK, Advances
<1>5. found[w] = <<>> /\ Range(found[w]) = {}
  <2>1. found[w] = <<>>
    BY <1>1 DEF Own, Handles
  <2>2. QED
    BY <2>1 DEF Range
<1>6. \A v \in Worker : /\ v # w => found'[v] = found[v] /\ booting'[v] = booting[v]
                        /\ Range(found[v]) \subseteq Range(found'[v])
                        /\ v = w => found'[v] = QueuedIds /\ booting'[v] = "recovering"
  BY <1>1, <1>5 DEF Own, DeliveriesTypeOK
<1>7. RowsMade'
  <2>1. \A v \in Worker : \A d \in Range(outbox'[v]) \cup Range(found'[v]) :
           \/ d \in Range(outbox[v]) \cup Range(found[v])
           \/ d \in Delivery /\ status'[d] # "none"
    BY <1>1, <1>3, <1>6
  <2>2. QED
    BY <1>1, <1>4, <2>1, NoNewNames DEF Own
<1>8. QueuedRowHasWork'
  <2>1. ASSUME NEW d \in Delivery PROVE HasWork(d) => HasWork(d)'
    BY <1>1, <1>6 DEF HasWork, Queue!Deliverable, Row
  <2>2. QED
    BY <1>1, <2>1 DEF Own, QueuedRowHasWork
<1>9. SentWasAccepted' /\ OutageCounted'
  BY <1>1 DEF Own, SentWasAccepted, OutageCounted
<1>10. QED
  BY <1>1, <1>4, <1>6, <1>7, <1>8, <1>9, ListsStep

\* A recovery that fails moves the process on and touches nothing else.
LEMMA RecoveryFailsStep ==
    ASSUME Own, QueueFacts, QueueFacts', NEW w \in Worker, RecoveryFails(w)
    PROVE  Own'
<1>1. /\ booting[w] = "down" /\ booting' = [booting EXCEPT ![w] = "recovered"]
      /\ abandoned' \subseteq Delivery
      /\ UNCHANGED <<stream, added, lastRead, pel, dead, up, pc, cur, mail, crashes, outages,
                     status, verdict, posts, outbox, found>>
  BY DEF RecoveryFails, Queued, queueVars, handlerVars
<1>2. DeliveriesTypeOK' /\ Advances
  BY <1>1 DEF Own, DeliveriesTypeOK, Advances
<1>3. found'[w] = <<>> /\ \A v \in Worker \ {w} : booting'[v] = booting[v]
  BY <1>1 DEF Own, Handles, DeliveriesTypeOK
<1>4. RowsMade'
  BY <1>1, <1>2, NoNewNames DEF Own
<1>5. QueuedRowHasWork'
  <2>1. \A d \in Delivery : HasWork(d) => HasWork(d)'
    BY <1>1 DEF HasWork, Queue!Deliverable, Row
  <2>2. QED
    BY <1>1, <2>1 DEF Own, QueuedRowHasWork
<1>6. SentWasAccepted' /\ OutageCounted'
  BY <1>1 DEF Own, SentWasAccepted, OutageCounted
<1>7. QED
  BY <1>1, <1>2, <1>3, <1>4, <1>5, <1>6, ListsStep

-----------------------------------------------------------------------------
(* communication_delivery. *)

\* A worker in the handler has a message, of a row that exists.
LEMMA InHandler ==
    ASSUME Own, QueueFacts, NEW w \in Worker, pc[w] = "handle" \/ verdict[w] # "idle"
    PROVE  /\ pc[w] = "handle" /\ cur[w] \in Queue!Message /\ cur[w] # NoMsg
           /\ Row(w) \in Delivery /\ status[Row(w)] # "none"
           /\ status[Row(w)] \in Final \cup {"queued"}
<1>1. pc[w] = "handle" /\ cur[w] \in Queue!Message
  BY DEF Own, Handles, QueueFacts, Work
<1>2. cur[w] # NoMsg /\ Row(w) \in Delivery
  BY <1>1, QueueConstants DEF Row
<1>3. status[Row(w)] # "none"
  BY <1>2 DEF Own, RowsMade, Made
<1>4. QED
  BY <1>1, <1>2, <1>3 DEF Own, DeliveriesTypeOK

\* A step of the handler changes w's place and verdict, and the row.
LEMMA HandlerStep ==
    ASSUME Own, QueueFacts, QueueFacts', NEW w \in Worker,
           UNCHANGED <<stream, added, lastRead, pel, dead, up, outages, crashes, cur, mail,
                       outbox, found, booting>>,
           \A v \in Worker \ {w} : pc'[v] = pc[v] /\ verdict'[v] = verdict[v],
           DeliveriesTypeOK', Advances, Handles(w)', SentWasAccepted',
           \A d \in Delivery : status'[d] = "queued" => status[d] = "queued"
    PROVE  Own'
<1>1. \A v \in Worker : Handles(v)'
  <2> SUFFICES ASSUME NEW v \in Worker, v # w PROVE Handles(v)'
    OBVIOUS
  <2>1. QED
    BY StaysInHandler DEF Own
<1>2. RowsMade'
  BY NoNewNames DEF Own
<1>3. OutageCounted'
  BY DEF Own, OutageCounted
<1>4. QueuedRowHasWork'
  <2>1. \A d \in Delivery : HasWork(d) => HasWork(d)'
    BY DEF HasWork, Queue!Deliverable, Row
  <2>2. QED
    BY <2>1 DEF Own, QueuedRowHasWork
<1>5. QED
  BY <1>1, <1>2, <1>3, <1>4 DEF Own

\* What the queue sees of the handler.
LEMMA HandlerEffects ==
    ASSUME Own, QueueFacts, NEW w \in Worker, NEW l \in {"handle", "ack", "failed_ack"},
           \/ l = "handle" /\ UNCHANGED queueVars
           \/ l = "ack" /\ Queue!HandlerReturns(w)
           \/ l = "failed_ack" /\ Queue!HandlerRaises(w),
           pc[w] = "handle"
    PROVE  /\ pc'[w] = l /\ \A v \in Worker \ {w} : pc'[v] = pc[v]
           /\ UNCHANGED <<stream, added, lastRead, pel, dead, up, outages, crashes, cur, mail>>
<1>1. CASE UNCHANGED queueVars /\ l = "handle"
  BY <1>1 DEF queueVars
<1>2. CASE Queue!HandlerReturns(w) /\ l = "ack"
  BY <1>2 DEF Queue!HandlerReturns, Queue!Goto, Queue!redis, Queue!network, Queue!local,
              Queue!budgets, QueueFacts
<1>3. CASE Queue!HandlerRaises(w) /\ l = "failed_ack"
  BY <1>3 DEF Queue!HandlerRaises, Queue!Goto, Queue!redis, Queue!network, Queue!local,
              QueueFacts
<1>4. QED
  BY <1>1, <1>2, <1>3

LEMMA LoadStep ==
    ASSUME Own, QueueFacts, QueueFacts', NEW w \in Worker, Load(w)
    PROVE  Own'
<1>1. /\ pc[w] = "handle" /\ verdict[w] = "idle"
      /\ UNCHANGED <<status, posts, outbox, found, booting, abandoned>>
  BY DEF Load, processVars
<1>2. /\ Row(w) \in Delivery /\ status[Row(w)] \in Final \cup {"queued"}
  BY <1>1, InHandler
<1>3. PICK l \in {"handle", "ack"}, v \in {"idle", "loaded"} :
        /\ verdict' = [verdict EXCEPT ![w] = v]
        /\ \/ l = "handle" /\ UNCHANGED queueVars
           \/ l = "ack" /\ v = "idle" /\ Queue!HandlerReturns(w) /\ status[Row(w)] # "queued"
  BY DEF Load, Return
<1>4. /\ pc'[w] = l /\ \A u \in Worker \ {w} : pc'[u] = pc[u]
      /\ UNCHANGED <<stream, added, lastRead, pel, dead, up, outages, crashes, cur, mail>>
  BY <1>1, <1>3, HandlerEffects
<1>5. DeliveriesTypeOK' /\ Advances
  BY <1>1, <1>3 DEF Own, DeliveriesTypeOK, Advances
<1>6. verdict'[w] = v /\ \A u \in Worker \ {w} : verdict'[u] = verdict[u]
  BY <1>3 DEF Own, DeliveriesTypeOK
<1>7. Handles(w)'
  <2>1. Handles(w)
    BY DEF Own
  <2>2. l = "ack" => v = "idle" /\ status[Row(w)] \in Final
    BY <1>2, <1>3
  <2>3. QED
    BY <1>1, <1>4, <1>6, <2>1, <2>2 DEF Handles, Row
<1>8. SentWasAccepted'
  BY <1>1 DEF Own, SentWasAccepted
<1>9. QED
  BY <1>1, <1>4, <1>5, <1>6, <1>7, <1>8, HandlerStep

LEMMA PostStep ==
    ASSUME Own, QueueFacts, QueueFacts', NEW w \in Worker, PostWebhook(w)
    PROVE  Own'
<1>1. PICK v \in Final, accepted \in 0 .. 1 :
        /\ v = "sent" => accepted = 1
        /\ verdict' = [verdict EXCEPT ![w] = v]
        /\ posts' = [posts EXCEPT ![Row(w)] = @ + accepted]
  BY DEF PostWebhook, Final
<1>2. verdict[w] = "loaded" /\ UNCHANGED <<queueVars, status, outbox, found, booting, abandoned>>
  BY DEF PostWebhook, processVars
<1>3. pc[w] = "handle" /\ Row(w) \in Delivery
  BY <1>2, InHandler
<1>4. /\ pc'[w] = "handle" /\ \A u \in Worker \ {w} : pc'[u] = pc[u]
      /\ UNCHANGED <<stream, added, lastRead, pel, dead, up, outages, crashes, cur, mail>>
  BY <1>2, <1>3, HandlerEffects
<1>5. posts \in [Delivery -> Nat]
  BY DEF Own, DeliveriesTypeOK
<1>6. /\ posts' \in [Delivery -> Nat] /\ \A d \in Delivery : posts[d] <= posts'[d]
      /\ v = "sent" => posts'[Row(w)] > 0
  BY <1>1, <1>3, <1>5
<1>7. DeliveriesTypeOK'
  BY <1>1, <1>2, <1>6 DEF Own, DeliveriesTypeOK
<1>8. Advances
  BY <1>2, <1>5, <1>6 DEF Advances
<1>9. verdict'[w] = v /\ \A u \in Worker \ {w} : verdict'[u] = verdict[u]
  BY <1>1 DEF Own, DeliveriesTypeOK
<1>10. Handles(w)'
  <2>1. Handles(w)
    BY DEF Own
  <2>2. QED
    BY <1>2, <1>3, <1>4, <1>6, <1>9, <2>1 DEF Handles, Row
<1>11. SentWasAccepted'
  BY <1>2, <1>5, <1>6 DEF Own, SentWasAccepted
<1>12. QED
  BY <1>2, <1>4, <1>7, <1>8, <1>9, <1>10, <1>11, HandlerStep

\* A final status is committed, or the error rolls everything back.
LEMMA FinishStep ==
    ASSUME Own, QueueFacts, QueueFacts', NEW w \in Worker,
           Skip(w) \/ CommitVerdict(w) \/ DatabaseError(w)
    PROVE  Own'
<1>1. /\ pc[w] = "handle" \/ verdict[w] # "idle"
      /\ verdict' = [verdict EXCEPT ![w] = "idle"]
      /\ UNCHANGED <<posts, outbox, found, booting, abandoned>>
  BY DEF Skip, CommitVerdict, DatabaseError, Return, Decided, processVars, Queue!HandlerRaises
<1>2. PICK l \in {"ack", "failed_ack"} :
        /\ \/ l = "ack" /\ Queue!HandlerReturns(w)
           \/ l = "failed_ack" /\ Queue!HandlerRaises(w)
        /\ \/ l = "failed_ack" /\ UNCHANGED status
           \/ \E v \in Final : /\ status' = [status EXCEPT ![Row(w)] = v]
                               /\ v = "sent" => verdict[w] = "sent"
  <2>1. CASE Skip(w)
    BY <2>1 DEF Skip, Return, Final
  <2>2. Decided(w) => verdict[w] \in Final
    BY DEF Decided, Own, DeliveriesTypeOK
  <2>3. CASE CommitVerdict(w)
    BY <2>2, <2>3 DEF CommitVerdict, Return
  <2>4. CASE DatabaseError(w)
    BY <2>2, <2>4 DEF DatabaseError
  <2>5. QED
    BY <2>1, <2>3, <2>4
<1>3. pc[w] = "handle" /\ Row(w) \in Delivery
  BY <1>1, InHandler
<1>4. /\ pc'[w] = l /\ \A u \in Worker \ {w} : pc'[u] = pc[u]
      /\ UNCHANGED <<stream, added, lastRead, pel, dead, up, outages, crashes, cur, mail>>
  BY <1>2, <1>3, HandlerEffects
<1>5. /\ status' \in [Delivery -> Final \cup {"none", "queued"}]
      /\ \A d \in Delivery : status'[d] = status[d] \/ (d = Row(w) /\ status'[d] \in Final)
      /\ l = "ack" => status'[Row(w)] \in Final
      /\ \A d \in Delivery : status'[d] = "sent" =>
             status[d] = "sent" \/ (d = Row(w) /\ verdict[w] = "sent")
  BY <1>2, <1>3 DEF Own, DeliveriesTypeOK
<1>6. DeliveriesTypeOK'
  BY <1>1, <1>5 DEF Own, DeliveriesTypeOK
<1>7. /\ Advances
      /\ \A d \in Delivery : status'[d] = "queued" => status[d] = "queued"
  <2>1. "none" \notin Final /\ "queued" \notin Final
    BY DEF Final
  <2>2. QED
    BY <1>1, <1>5, <2>1 DEF Advances
<1>8. verdict'[w] = "idle" /\ \A u \in Worker \ {w} : verdict'[u] = verdict[u]
  BY <1>1 DEF Own, DeliveriesTypeOK
<1>9. Handles(w)'
  <2>1. Handles(w)
    BY DEF Own
  <2>2. QED
    BY <1>1, <1>4, <1>5, <1>8, <2>1 DEF Handles, Row
<1>10. SentWasAccepted'
  BY <1>1, <1>5 DEF Own, SentWasAccepted, Handles
<1>11. QED
  BY <1>1, <1>4, <1>6, <1>7, <1>8, <1>9, <1>10, HandlerStep

-----------------------------------------------------------------------------
(* The worker loop. *)

\* A step of the loop leaves rows and verdicts alone.
LEMMA LoopStep ==
    ASSUME Own, QueueFacts, QueueFacts', NEW w \in Worker,
           UNCHANGED <<status, verdict, posts, outbox, found, booting>>, abandoned' \subseteq Delivery,
           verdict[w] = "idle", crashes <= crashes', dead \subseteq dead',
           UNCHANGED Queue!network \/ Queue!Cut,
           \A v \in Worker \ {w} : pc'[v] = pc[v] /\ cur'[v] = cur[v] /\ mail'[v] = mail[v],
           pc'[w] \in {"ack", "del"} => cur'[w] = cur[w] /\ status[Row(w)] \in Final,
           \A m \in stream' : m \in stream \/ (cur[w] # NoMsg /\ m.payload = Row(w)),
           mail'[w] \subseteq mail[w] \cup stream,
           cur'[w] # NoMsg => cur'[w] = cur[w] \/ cur'[w] \in mail[w],
           \A m \in stream : Queue!Deliverable(m) => Covered(m.payload)',
           \A d \in Delivery : cur[w] # NoMsg /\ Row(w) = d => Covered(d)'
    PROVE  Own'
<1>1. Advances
  BY DEF Advances
<1>2. \A v \in Worker : Handles(v)'
  <2>1. ASSUME NEW v \in Worker, v # w PROVE Handles(v)'
    BY <1>1, <2>1, StaysInHandler DEF Own
  <2>2. Handles(w)'
    <3>1. Handles(w)
      BY DEF Own
    <3>2. QED
      BY <3>1 DEF Handles, Row
  <2>3. QED
    BY <2>1, <2>2
<1>3. RowsMade'
  BY <1>1, NoNewNames DEF Own
<1>4. OutageCounted' /\ outages <= outages'
  BY OutagesGrow DEF Own, QueueFacts
<1>5. QueuedRowHasWork'
  <2>1. ASSUME NEW v \in Worker, NEW d \in Delivery, cur[v] # NoMsg, Row(v) = d
        PROVE  Covered(d)'
    <3>1. CASE v = w
      BY <2>1, <3>1
    <3>2. CASE v # w
      BY <2>1, <3>2 DEF Covered, HasWork, Row
    <3>3. QED
      BY <3>1, <3>2
  <2>2. ASSUME NEW v \in Worker, NEW d \in Range(outbox[v]) \cup Range(found[v])
        PROVE  Covered(d)'
    BY DEF Covered, HasWork
  <2>3. QED
    BY <1>4, <2>1, <2>2, WorkKept DEF Own
<1>6. DeliveriesTypeOK' /\ SentWasAccepted'
  BY DEF Own, DeliveriesTypeOK, SentWasAccepted
<1>7. QED
  BY <1>2, <1>3, <1>4, <1>5, <1>6 DEF Own

\* An entry that stays, or a message that is still in hand, is work.
LEMMA StillWork ==
    ASSUME NEW w \in Worker
    PROVE  /\ \A m \in stream' : Queue!Deliverable(m)' => Covered(m.payload)'
           /\ \A d \in Delivery : cur'[w] # NoMsg /\ Row(w)' = d => Covered(d)'
           /\ outages' > 0 => \A d \in Delivery : Covered(d)'
  BY DEF Covered, HasWork, Row

LEMMA IdleVerdict ==
    ASSUME Own, NEW w \in Worker, pc[w] # "handle"
    PROVE  verdict[w] = "idle"
  BY DEF Own, Handles

\* What a step of the loop leaves alone; a job it buries abandons a row.
OthersStay ==
    /\ UNCHANGED <<handlerVars, outbox, found, booting>>
    /\ abandoned' \subseteq Delivery

LEMMA LoopLeavesOthers ==
    ASSUME Own, QueueFacts, NEW w \in Worker, QueueStep(w)
    PROVE  OthersStay
<1>1. CASE dead' = dead
  BY <1>1 DEF QueueStep, OthersStay, Own, DeliveriesTypeOK
<1>2. CASE dead' # dead
  <2>1. pc[w] = "again"
    BY <1>2 DEF QueueStep, Queue!Read, Queue!Claim, Queue!Handed, Queue!Take, Queue!Ack, Queue!Del,
           Queue!FailedAck, Queue!FailedDel, Queue!Again, Queue!AckEffect, Queue!DelEffect,
           Queue!redis
  <2>2. cur[w] \in Queue!Message
    BY <2>1 DEF QueueFacts, Work
  <2>3. Row(w) \in Delivery
    BY <2>2, QueueConstants DEF Row
  <2>4. QED
    BY <1>2, <2>3 DEF QueueStep, OthersStay, Own, DeliveriesTypeOK
<1>3. QED
  BY <1>1, <1>2

LEMMA LoopReadStep ==
    ASSUME QP!IInv, Own, QueueFacts, QueueFacts', NEW w \in Worker, Queue!Read(w),
           OthersStay
    PROVE  Own'
<1>1. QP!Read(w)
  BY DEF Queue!Read, QP!Read, Queue!Idle, QP!Idle, Queue!Handed, QP!Handed,
         Queue!Earliest, QP!Earliest, Queue!Cardinality, QP!Cardinality, Queue!Cut, QP!Cut,
         Queue!network, QP!network, Queue!history, QP!history, Queue!budgets, QP!budgets
<1>2. QP!TypeOK /\ QP!Numbered
  BY DEF QP!IInv
<1>3. \A m \in stream : QP!Deliverable(m) => m.mid > lastRead' \/ m.mid \in pel'
  BY <1>1, <1>2, SameConstants, QP!ReadPassesNothing
<1>4. /\ pc[w] = "idle"
      /\ UNCHANGED <<stream, dead, pc, cur, crashes>>
      /\ UNCHANGED Queue!network \/ Queue!Cut
      /\ \E ms \in SUBSET stream : mail' = mail \/ mail' = [mail EXCEPT ![w] = ms]
  BY DEF Queue!Read, Queue!Idle, Queue!Handed, Queue!Earliest, Queue!budgets
<1>5. /\ mail'[w] \subseteq mail[w] \cup stream
      /\ \A v \in Worker \ {w} : mail'[v] = mail[v]
  BY <1>4 DEF QueueFacts
<1>6. \A m \in stream : Queue!Deliverable(m) => Covered(m.payload)'
  BY <1>3, <1>4, StillWork DEF Queue!Deliverable, QP!Deliverable
<1>7. \A d \in Delivery : cur[w] # NoMsg /\ Row(w) = d => Covered(d)'
  BY <1>4, StillWork DEF Row
<1>8. verdict[w] = "idle" /\ crashes <= crashes'
  BY <1>4, IdleVerdict DEF QueueFacts
<1>9. UNCHANGED <<status, verdict, posts, outbox, found, booting>> /\ abandoned' \subseteq Delivery
  BY DEF OthersStay, handlerVars
<1>10. QED
  BY <1>4, <1>5, <1>6, <1>7, <1>8, <1>9, LoopStep

\* Claiming or taking moves copies; entries and pending list stay.
LEMMA LoopMoveStep ==
    ASSUME Own, QueueFacts, QueueFacts', NEW w \in Worker, Queue!Claim(w) \/ Queue!Take(w),
           OthersStay
    PROVE  Own'
<1>1. /\ pc[w] = "idle" /\ pc'[w] \notin {"ack", "del"}
      /\ UNCHANGED <<stream, lastRead, pel, dead, crashes>>
      /\ UNCHANGED Queue!network \/ Queue!Cut
      /\ \A v \in Worker \ {w} : pc'[v] = pc[v] /\ cur'[v] = cur[v] /\ mail'[v] = mail[v]
      /\ mail'[w] \subseteq mail[w] \cup stream
      /\ cur'[w] = cur[w] \/ cur'[w] \in mail[w]
  <2>1. CASE Queue!Claim(w)
    <3>1. /\ pc[w] = "idle" /\ UNCHANGED <<stream, lastRead, pel, dead, pc, cur, crashes>>
          /\ UNCHANGED Queue!network \/ Queue!Cut
          /\ \E ms \in SUBSET stream : mail' = mail \/ mail' = [mail EXCEPT ![w] = ms]
      BY <2>1 DEF Queue!Claim, Queue!Idle, Queue!Handed, Queue!Earliest, Queue!budgets
    <3>2. QED
      BY <3>1 DEF QueueFacts
  <2>2. CASE Queue!Take(w)
    <3>1. PICK m \in mail[w] : /\ cur' = [cur EXCEPT ![w] = m]
                               /\ mail' = [mail EXCEPT ![w] = @ \ {m}]
      BY <2>2 DEF Queue!Take, Queue!Earliest
    <3>2. /\ pc[w] = "idle" /\ pc' = [pc EXCEPT ![w] = "handle"]
          /\ UNCHANGED <<stream, lastRead, pel, dead, crashes>> /\ UNCHANGED Queue!network
      BY <2>2 DEF Queue!Take, Queue!Goto, Queue!redis, Queue!budgets
    <3>3. QED
      BY <3>1, <3>2 DEF QueueFacts
  <2>3. QED
    BY <2>1, <2>2
<1>2. \A m \in stream : Queue!Deliverable(m) => Covered(m.payload)'
  BY <1>1, StillWork DEF Queue!Deliverable
<1>3. verdict[w] = "idle" /\ crashes <= crashes'
  BY <1>1, IdleVerdict DEF QueueFacts
<1>4. UNCHANGED <<status, verdict, posts, outbox, found, booting>> /\ abandoned' \subseteq Delivery
  BY DEF OthersStay, handlerVars
<1>5. \A d \in Delivery : cur[w] # NoMsg /\ Row(w) = d => Covered(d)'
  BY <1>1 DEF QueueFacts, Work
<1>6. QED
  BY <1>1, <1>2, <1>3, <1>4, <1>5, LoopStep

\* XACK and XDEL forget no entry but the worker's own.
LEMMA CommandKeeps ==
    ASSUME QueueFacts, NEW w \in Worker, cur[w] # NoMsg,
           Queue!AckEffect(w) \/ Queue!DelEffect(w) \/ UNCHANGED Queue!redis
    PROVE  /\ UNCHANGED <<lastRead, dead>> /\ stream' \subseteq stream
           /\ \A m \in stream : Queue!Deliverable(m) =>
                  (m \in stream' /\ Queue!Deliverable(m)') \/ m.payload = Row(w)
<1>1. \A m \in stream : m.mid = cur[w].mid => m.payload = Row(w)
  BY DEF QueueFacts, Row
<1>2. CASE Queue!AckEffect(w)
  BY <1>1, <1>2 DEF Queue!AckEffect, Queue!Deliverable
<1>3. CASE Queue!DelEffect(w)
  BY <1>1, <1>3 DEF Queue!DelEffect, Queue!Deliverable
<1>4. CASE UNCHANGED Queue!redis
  BY <1>4 DEF Queue!redis, Queue!Deliverable
<1>5. QED
  BY <1>2, <1>3, <1>4

\* A command of a worker whose own row stays covered.
LEMMA CommandStep ==
    ASSUME Own, QueueFacts, QueueFacts', NEW w \in Worker,
           pc[w] \in Work \ {"handle"}, OthersStay, UNCHANGED <<mail, crashes>>,
           Queue!AckEffect(w) \/ Queue!DelEffect(w) \/ UNCHANGED Queue!redis,
           UNCHANGED Queue!network \/ Queue!Cut,
           NEW l \in {"idle"} \cup Work, pc' = [pc EXCEPT ![w] = l],
           cur' = cur \/ (cur' = [cur EXCEPT ![w] = NoMsg] /\ Covered(cur[w].payload)
                          /\ status[Row(w)] # "queued"),
           l \in {"ack", "del"} => cur' = cur /\ status[Row(w)] \in Final
    PROVE  Own'
<1>1. cur[w] \in Queue!Message /\ cur[w] # NoMsg /\ Row(w) \in Delivery
  BY QueueConstants DEF QueueFacts, Row
<1>2. /\ UNCHANGED <<lastRead, dead>> /\ stream' \subseteq stream
      /\ \A m \in stream : Queue!Deliverable(m) =>
             (m \in stream' /\ Queue!Deliverable(m)') \/ m.payload = Row(w)
  BY <1>1, CommandKeeps
<1>3. UNCHANGED <<status, verdict, posts, outbox, found, booting>> /\ abandoned' \subseteq Delivery
  BY DEF OthersStay, handlerVars
<1>4. \A d \in Delivery : Row(w) = d => Covered(d)'
  <2>1. CASE cur' = cur
    <3>1. cur'[w] # NoMsg /\ Row(w)' = Row(w)
      BY <1>1, <2>1 DEF Row
    <3>2. QED
      BY <3>1, StillWork
  <2>2. CASE status[Row(w)] # "queued"
    BY <1>3, <2>2 DEF Covered
  <2>3. QED
    BY <2>1, <2>2
<1>5. ASSUME NEW m \in stream, Queue!Deliverable(m) PROVE Covered(m.payload)'
  <2>1. CASE m \in stream' /\ Queue!Deliverable(m)'
    BY <2>1, StillWork
  <2>2. CASE m.payload = Row(w)
    <3>1. m.payload \in Delivery
      BY <1>1, <2>2
    <3>2. QED
      BY <1>4, <2>2, <3>1
  <2>3. QED
    BY <1>2, <1>5, <2>1, <2>2
<1>6. verdict[w] = "idle"
  BY IdleVerdict DEF Work
<1>7. /\ \A v \in Worker \ {w} : pc'[v] = pc[v] /\ cur'[v] = cur[v]
      /\ pc'[w] = l /\ (cur'[w] = cur[w] \/ cur'[w] = NoMsg)
  BY DEF QueueFacts
<1>8. /\ pc'[w] \in {"ack", "del"} => cur'[w] = cur[w] /\ status[Row(w)] \in Final
      /\ crashes <= crashes' /\ dead \subseteq dead'
  BY <1>2, <1>7 DEF QueueFacts
<1>9. QED
  BY <1>2, <1>3, <1>4, <1>5, <1>6, <1>7, <1>8, LoopStep

\* What Redis refuses, or executes without a reply, is an outage.
LEMMA OutageSeen ==
    ASSUME Own, QueueFacts, QueueFacts', (UNCHANGED Queue!network /\ ~up) \/ Queue!Cut
    PROVE  outages' > 0
  BY DEF Own, OutageCounted, QueueFacts, Queue!network, Queue!Cut

\* After a success the row is final; the failed branch keeps the message.
LEMMA LoopCommandStep ==
    ASSUME Own, QueueFacts, QueueFacts', NEW w \in Worker,
           Queue!Ack(w) \/ Queue!Del(w) \/ Queue!FailedAck(w) \/ Queue!FailedDel(w),
           OthersStay
    PROVE  Own'
<1>1. Handles(w) /\ "queued" \notin Final
  BY DEF Own, Final
<1>2. CASE Queue!Ack(w) \/ Queue!FailedAck(w) \/ Queue!FailedDel(w)
  <2>1. PICK l \in {"del", "failed_ack", "failed_del", "again"} :
          /\ pc' = [pc EXCEPT ![w] = l]
          /\ l = "del" => pc[w] = "ack"
    BY <1>2 DEF Queue!Ack, Queue!FailedAck, Queue!FailedDel, Queue!Answered, Queue!Refused,
                Queue!Goto
  <2>2. /\ pc[w] \in Work \ {"handle"} /\ UNCHANGED <<cur, mail, crashes>>
        /\ Queue!AckEffect(w) \/ Queue!DelEffect(w) \/ UNCHANGED Queue!redis
        /\ UNCHANGED Queue!network \/ Queue!Cut
    BY <1>2 DEF Queue!Ack, Queue!FailedAck, Queue!FailedDel, Queue!Answered, Queue!Refused,
                Queue!local, Queue!budgets, Work
  <2>3. l \in {"ack", "del"} => status[Row(w)] \in Final
    BY <1>1, <2>1 DEF Handles
  <2>4. l \in {"idle"} \cup Work
    BY DEF Work
  <2>5. QED
    BY <2>1, <2>2, <2>3, <2>4, CommandStep
<1>3. CASE Queue!Del(w)
  <2>1. PICK l \in {"idle", "failed_ack"} : pc' = [pc EXCEPT ![w] = l]
    BY <1>3 DEF Queue!Del, Queue!Answered, Queue!Refused, Queue!Goto
  <2>2. /\ pc[w] = "del" /\ UNCHANGED <<mail, crashes>>
        /\ Queue!DelEffect(w) \/ UNCHANGED Queue!redis
        /\ UNCHANGED Queue!network \/ Queue!Cut
        /\ cur' = cur \/ cur' = [cur EXCEPT ![w] = NoMsg]
    BY <1>3 DEF Queue!Del, Queue!Answered, Queue!Refused, Queue!budgets
  <2>3. status[Row(w)] # "queued" /\ Covered(cur[w].payload)
    BY <1>1, <2>2 DEF Handles, Covered, Row
  <2>4. l \in {"idle"} \cup Work /\ pc[w] \in Work \ {"handle"} /\ l \notin {"ack", "del"}
    BY <2>2 DEF Work
  <2>5. QED
    BY <2>1, <2>2, <2>3, <2>4, CommandStep
<1>4. QED
  BY <1>2, <1>3

\* The retry copy carries the row on, or a dead letter or an outage is seen.
LEMMA LoopAgainStep ==
    ASSUME Own, QueueFacts, QueueFacts', NEW w \in Worker, Queue!Again(w),
           OthersStay
    PROVE  Own'
<1>1. /\ pc[w] = "again" /\ pc' = [pc EXCEPT ![w] = "idle"]
      /\ cur' = [cur EXCEPT ![w] = NoMsg]
      /\ mail' = mail \/ mail' = [mail EXCEPT ![w] = {}]
      /\ crashes' = crashes
      /\ Queue!AgainEffect(w) \/ (UNCHANGED Queue!redis /\ UNCHANGED Queue!network /\ ~up)
      /\ UNCHANGED Queue!network \/ Queue!Cut
  BY DEF Queue!Again, Queue!Answered, Queue!Refused, Queue!Goto, Queue!budgets
<1>2. cur[w] \in Queue!Message /\ cur[w] # NoMsg /\ Row(w) \in Delivery
  BY <1>1, QueueConstants DEF QueueFacts, Work, Row
<1>3. UNCHANGED <<status, verdict, posts, outbox, found, booting>> /\ abandoned' \subseteq Delivery
  BY DEF OthersStay, handlerVars
<1>4. /\ UNCHANGED <<lastRead, pel>> /\ stream \subseteq stream' /\ dead \subseteq dead'
      /\ \A m \in stream' : m \in stream \/ m.payload = Row(w)
      /\ \/ \E m \in stream' : m.payload = Row(w) /\ m.mid = added + 1
         \/ dead' # {}
         \/ outages' > 0
  <2>1. CASE UNCHANGED Queue!redis /\ UNCHANGED Queue!network /\ ~up
    <3>1. outages' > 0
      BY <2>1, OutageSeen
    <3>2. QED
      BY <2>1, <3>1 DEF Queue!redis
  <2>2. CASE Queue!AgainEffect(w) /\ cur[w].attempts + 1 < MaxAttempts
    <3>1. Queue!Retry(cur[w]).payload = Row(w) /\ Queue!Retry(cur[w]).mid = added + 1
      BY <1>2 DEF Queue!Retry, Queue!Message, Row
    <3>2. /\ stream' = stream \cup {Queue!Retry(cur[w])}
          /\ UNCHANGED <<lastRead, pel, dead>>
      BY <2>2 DEF Queue!AgainEffect
    <3>3. QED
      BY <3>1, <3>2
  <2>3. CASE Queue!AgainEffect(w) /\ ~(cur[w].attempts + 1 < MaxAttempts)
    <3>1. /\ dead' = dead \cup {cur[w].job}
          /\ UNCHANGED <<stream, lastRead, pel>>
      BY <2>3 DEF Queue!AgainEffect
    <3>2. QED
      BY <3>1
  <2>4. QED
    BY <1>1, <2>1, <2>2, <2>3
<1>5. \A d \in Delivery : Row(w) = d => Covered(d)'
  <2>1. CASE dead' # {} \/ outages' > 0
    BY <2>1 DEF Covered
  <2>2. ASSUME NEW m \in stream', m.payload = Row(w), m.mid = added + 1
        PROVE  \A d \in Delivery : Row(w) = d => Covered(d)'
    <3>1. m.mid > lastRead'
      BY <1>4, <2>2 DEF QueueFacts
    <3>2. Queue!Deliverable(m)'
      BY <3>1 DEF Queue!Deliverable
    <3>3. Covered(m.payload)'
      BY <3>2, StillWork
    <3>4. ASSUME NEW d \in Delivery, Row(w) = d PROVE Covered(d)'
      BY <2>2, <3>2, <3>4 DEF Covered, HasWork
    <3>5. QED
      BY <3>4
  <2>3. QED
    BY <1>4, <2>1, <2>2
<1>6. \A m \in stream : Queue!Deliverable(m) => Covered(m.payload)'
  <2>1. \A m \in stream : Queue!Deliverable(m) => m \in stream' /\ Queue!Deliverable(m)'
    BY <1>4 DEF Queue!Deliverable
  <2>2. QED
    BY <2>1, StillWork
<1>7. verdict[w] = "idle" /\ crashes <= crashes'
  BY <1>1, IdleVerdict DEF QueueFacts
<1>8. /\ \A v \in Worker \ {w} : pc'[v] = pc[v] /\ cur'[v] = cur[v] /\ mail'[v] = mail[v]
      /\ pc'[w] = "idle" /\ cur'[w] = NoMsg /\ mail'[w] \subseteq mail[w]
  BY <1>1 DEF QueueFacts
<1>9. QED
  BY <1>1, <1>2, <1>3, <1>4, <1>5, <1>6, <1>7, <1>8, LoopStep

-----------------------------------------------------------------------------
(* Processes, Redis and time. *)

LEMMA RunWorkerStep ==
    ASSUME Own, QueueFacts, QueueFacts', NEW w \in Worker, RunWorker(w)
    PROVE  Own'
<1>1. /\ booting[w] = "recovered" /\ booting' = [booting EXCEPT ![w] = "running"]
      /\ pc[w] = "off" /\ pc' = [pc EXCEPT ![w] = "idle"]
      /\ UNCHANGED <<stream, added, lastRead, pel, dead, up, outages, crashes, cur, mail,
                     status, verdict, posts, outbox, found, abandoned>>
  BY DEF RunWorker, Queue!Run, Queue!Start, Queue!Goto, Queue!redis, Queue!network,
         Queue!local, Queue!budgets, handlerVars
<1>2. DeliveriesTypeOK' /\ Advances
  BY <1>1 DEF Own, DeliveriesTypeOK, Advances
<1>3. \A v \in Worker : Handles(v)'
  <2>1. ASSUME NEW v \in Worker, v # w PROVE Handles(v)'
    <3>1. pc'[v] = pc[v] /\ booting'[v] = booting[v]
      BY <1>1, <2>1 DEF Own, DeliveriesTypeOK, QueueFacts
    <3>2. QED
      BY <1>1, <1>2, <3>1, StaysInHandler DEF Own
  <2>2. Handles(w)'
    <3>1. pc'[w] = "idle"
      BY <1>1 DEF QueueFacts
    <3>2. Handles(w)
      BY DEF Own
    <3>3. QED
      BY <1>1, <3>1, <3>2 DEF Handles
  <2>3. QED
    BY <2>1, <2>2
<1>4. RowsMade'
  BY <1>1, <1>2, NoNewNames DEF Own
<1>5. QueuedRowHasWork'
  <2>1. \A d \in Delivery : HasWork(d) => HasWork(d)'
    BY <1>1 DEF HasWork, Queue!Deliverable, Row
  <2>2. QED
    BY <1>1, <2>1 DEF Own, QueuedRowHasWork
<1>6. QED
  BY <1>1, <1>2, <1>3, <1>4, <1>5 DEF Own, OutageCounted, SentWasAccepted

LEMMA ExitStep ==
    ASSUME Own, QueueFacts, QueueFacts', NEW w \in Worker, Exit(w)
    PROVE  Own'
<1>1. /\ crashes' = crashes + 1 /\ pc' = [pc EXCEPT ![w] = "off"]
      /\ cur' = [cur EXCEPT ![w] = NoMsg] /\ mail' = [mail EXCEPT ![w] = {}]
      /\ booting' = [booting EXCEPT ![w] = "down"]
      /\ outbox' = [outbox EXCEPT ![w] = <<>>] /\ found' = [found EXCEPT ![w] = <<>>]
      /\ verdict' = [verdict EXCEPT ![w] = "idle"]
      /\ UNCHANGED <<stream, added, lastRead, pel, dead, up, outages, status, posts, abandoned>>
  BY DEF Exit, Queue!Exit, Queue!Goto, Queue!redis, Queue!network
<1>2. DeliveriesTypeOK' /\ Advances
  <2>1. <<>> \in Seq(Delivery)
    BY EmptySeq
  <2>2. QED
    BY <1>1, <2>1 DEF Own, DeliveriesTypeOK, Advances
<1>3. \A v \in Worker :
        IF v = w
        THEN /\ pc'[v] = "off" /\ cur'[v] = NoMsg /\ mail'[v] = {} /\ booting'[v] = "down"
             /\ outbox'[v] = <<>> /\ found'[v] = <<>> /\ verdict'[v] = "idle"
        ELSE /\ pc'[v] = pc[v] /\ cur'[v] = cur[v] /\ mail'[v] = mail[v]
             /\ booting'[v] = booting[v]
             /\ outbox'[v] = outbox[v] /\ found'[v] = found[v] /\ verdict'[v] = verdict[v]
  BY <1>1 DEF Own, DeliveriesTypeOK, QueueFacts
<1>4. \A v \in Worker : Handles(v)'
  <2>1. ASSUME NEW v \in Worker, v # w PROVE Handles(v)'
    BY <1>2, <1>3, <2>1, StaysInHandler DEF Own
  <2>2. Handles(w)'
    BY <1>3 DEF Handles
  <2>3. QED
    BY <2>1, <2>2
<1>5. RowsMade'
  <2>1. Range(<<>>) = {}
    BY DEF Range
  <2>2. \A v \in Worker : \A d \in Range(outbox'[v]) \cup Range(found'[v]) :
           d \in Range(outbox[v]) \cup Range(found[v])
    BY <1>3, <2>1
  <2>3. \A v \in Worker : mail'[v] \subseteq mail[v] /\ (cur'[v] # NoMsg => cur'[v] = cur[v])
    BY <1>3
  <2>4. QED
    BY <1>1, <1>2, <2>2, <2>3, NoNewNames DEF Own
<1>6. crashes' > 0
  BY <1>1 DEF QueueFacts
<1>7. QED
  BY <1>1, <1>2, <1>4, <1>5, <1>6 DEF Own, OutageCounted, SentWasAccepted, QueuedRowHasWork

\* An outage, its end, and time: no entry stops being deliverable.
LEMMA SurroundingsStep ==
    ASSUME Own, QueueFacts, QueueFacts', RedisOrTime \/ UNCHANGED vars
    PROVE  Own'
<1>1. /\ UNCHANGED <<stream, added, lastRead, pel, dead, pc, cur, mail, crashes,
                     status, verdict, posts, outbox, found, booting, abandoned>>
      /\ UNCHANGED Queue!network \/ Queue!Cut \/ (up' = TRUE /\ outages' = outages)
  BY DEF RedisOrTime, Queue!GoDown, Queue!ComeBack, Queue!GoStale, Queue!redis, Queue!local,
         Queue!budgets, Queue!network, handlerVars, processVars, queueVars, vars
<1>2. OutageCounted' /\ outages <= outages'
  <2>1. CASE UNCHANGED Queue!network \/ Queue!Cut
    BY <2>1, OutagesGrow DEF Own, QueueFacts
  <2>2. CASE up' = TRUE /\ outages' = outages
    BY <2>2 DEF OutageCounted, QueueFacts
  <2>3. QED
    BY <1>1, <2>1, <2>2
<1>3. (DeliveriesTypeOK /\ RowsMade /\ SentWasAccepted)'
  BY <1>1 DEF Own, DeliveriesTypeOK, RowsMade, Made, Row, SentWasAccepted
<1>4. (\A v \in Worker : Handles(v))'
  BY <1>1 DEF Own, Handles, Row
<1>5. QueuedRowHasWork'
  <2>1. \A d \in Delivery : HasWork(d) => HasWork(d)'
    BY <1>1 DEF HasWork, Queue!Deliverable, Row
  <2>2. outages > 0 => outages' > 0
    BY <1>2 DEF QueueFacts
  <2>3. QED
    BY <1>1, <2>1, <2>2 DEF Own, QueuedRowHasWork
<1>6. QED
  BY <1>2, <1>3, <1>4, <1>5 DEF Own

-----------------------------------------------------------------------------
(* Together. *)

LEMMA InitOwn == Init => Own
<1> SUFFICES ASSUME Init PROVE Own
  OBVIOUS
<1>1. /\ stream = {} /\ up = TRUE /\ dead = {}
      /\ pc = [w \in Worker |-> "off"] /\ cur = [w \in Worker |-> NoMsg]
      /\ mail = [w \in Worker |-> {}]
  BY DEF Init, Queue!Init
<1>2. DeliveriesTypeOK
  <2>1. <<>> \in Seq(Delivery)
    BY EmptySeq
  <2>2. QED
    BY <2>1 DEF Init, DeliveriesTypeOK
<1>3. \A w \in Worker : Handles(w)
  BY <1>1 DEF Init, Handles
<1>4. RowsMade
  <2>1. Range(<<>>) = {}
    BY DEF Range
  <2>2. QED
    BY <1>1, <2>1 DEF Init, RowsMade
<1>5. OutageCounted /\ SentWasAccepted /\ QueuedRowHasWork
  BY <1>1 DEF Init, OutageCounted, SentWasAccepted, QueuedRowHasWork
<1>6. QED
  BY <1>2, <1>3, <1>4, <1>5 DEF Own

LEMMA InitInv == Init => IInv
<1>1. Init => QP!IInv
  BY SameInit, SameConstants, QP!InitInv DEF Init
<1>2. QED
  BY <1>1, InitOwn DEF IInv

LEMMA StepInv == IInv /\ [Next]_vars => IInv'
<1> SUFFICES ASSUME IInv, [Next]_vars PROVE IInv'
  OBVIOUS
<1>1. Own /\ QP!IInv
  BY DEF IInv
<1>2. QP!IInv' /\ QueueFacts /\ QueueFacts'
  BY <1>1, QueueStepInv DEF Own
<1>3. Own'
  <2>1. ASSUME NEW w \in Worker, NEW last \in Delivery, CreateCampaign(w, last)
        PROVE  Own'
    BY <1>1, <1>2, <2>1, CreateCampaignStep
  <2>2. ASSUME NEW w \in Worker, ProcessStep(w) \/ Exit(w)
        PROVE  Own'
    BY <1>1, <1>2, <2>2, LoadQueuedStep, RecoveryFailsStep, EnqueueStep,
       RunWorkerStep, ExitStep DEF ProcessStep
  <2>3. ASSUME NEW w \in Worker, Handle(w)
        PROVE  Own'
    BY <1>1, <1>2, <2>3, LoadStep, PostStep, FinishStep DEF Handle
  <2>4. ASSUME NEW w \in Worker, QueueStep(w)
        PROVE  Own'
    <3>1. OthersStay
      BY <1>1, <1>2, <2>4, LoopLeavesOthers
    <3>2. QED
      BY <1>1, <1>2, <2>4, <3>1, LoopReadStep, LoopMoveStep, LoopCommandStep, LoopAgainStep
         DEF QueueStep
  <2>5. CASE RedisOrTime \/ UNCHANGED vars
    BY <1>1, <1>2, <2>5, SurroundingsStep
  <2>6. QED
    BY <2>1, <2>2, <2>3, <2>4, <2>5 DEF Next
<1>4. QED
  BY <1>2, <1>3 DEF IInv

LEMMA DeliveriesInv == Spec => []IInv
  BY InitInv, StepInv, PTL DEF Spec

\* The delivery rows, verdicts, lists and process states keep their types.
THEOREM TypeCorrect == Spec => []DeliveriesTypeOK
<1>1. IInv => DeliveriesTypeOK
  BY DEF IInv, Own
<1>2. QED
  BY <1>1, DeliveriesInv, PTL

\* The campaign request, the embedded worker's start and its handler only ever
\* do to the queue what tasks.py allows: the composition implements TaskStream,
\* its handler's database and webhook steps being stuttering, return or raise.
THEOREM ImplementsQueueHolds == Spec => ImplementsQueue
<1>1. Init => Queue!Init
  BY DEF Init
<1>2. IInv /\ [Next]_vars => [Queue!Next]_(Queue!vars)
  BY StepRefines, QueueInv DEF IInv, Own
<1>3. QED
  BY <1>1, <1>2, DeliveriesInv, PTL DEF Spec, ImplementsQueue, Queue!Spec

\* communication_delivery writes "sent" only for a message the provider took,
\* although workers with copies of one job overwrite each other's verdicts.
THEOREM SentWasAcceptedHolds == Spec => []SentWasAccepted
<1>1. IInv => SentWasAccepted
  BY DEF IInv, Own
<1>2. QED
  BY <1>1, DeliveriesInv, PTL

\* Until a process exits, Redis is cut off or a job is buried, every queued row
\* has an unread or pending entry, a worker on it, or a list that names it.
THEOREM QueuedRowHasWorkHolds == Spec => []QueuedRowHasWork
<1>1. IInv => QueuedRowHasWork
  BY DEF IInv, Own
<1>2. QED
  BY <1>1, DeliveriesInv, PTL

-----------------------------------------------------------------------------
(* A lone worker.  With two, both can load one queued row and post it.      *)

\* A queued row whose call is not being decided right now was posted only in
\* attempts that an exit or an error undid.
Counted ==
    /\ \A d \in Delivery : status[d] = "none" => posts[d] = 0
    /\ \A w \in Worker : verdict[w] = "loaded" => status[Row(w)] = "queued"
    /\ \A d \in Delivery :
           status[d] = "queued" /\ (\A w \in Worker : ~(Decided(w) /\ Row(w) = d))
               => posts[d] <= crashes + raises
    /\ RepostsNeedFaults

\* Steps outside the handler.
LEMMA CountedKept ==
    ASSUME Own, Counted, UNCHANGED <<status, posts, verdict, crashes, raises>>,
           \A w \in Worker : verdict[w] # "idle" => cur'[w] = cur[w]
    PROVE  Counted'
<1>1. \A w \in Worker : /\ (verdict[w] = "loaded")' => verdict[w] = "loaded" /\ Row(w)' = Row(w)
                        /\ Decided(w)' <=> Decided(w)
                        /\ Decided(w) => Row(w)' = Row(w)
  BY DEF Decided, Row
<1>2. QED
  BY <1>1 DEF Counted, RepostsNeedFaults

\* Starting a process moves none of the counted things; committing rows makes
\* queued ones that nobody has posted.
LEMMA CountedProcess ==
    ASSUME Own, QueueFacts, Counted, NEW w \in Worker, ProcessStep(w)
    PROVE  Counted'
<1>1. UNCHANGED <<cur, crashes, raises>>
  BY DEF ProcessStep, LoadQueued, RecoveryFails, Recover, RunWorker, EnqueueCampaign, Queue!Enqueue, Queue!Run,
         queueVars, Queue!local, Queue!budgets
<1>2. UNCHANGED <<status, posts, verdict>>
  BY DEF ProcessStep, LoadQueued, RecoveryFails, Recover, RunWorker, EnqueueCampaign, handlerVars
<1>3. QED
  BY <1>1, <1>2, CountedKept

LEMMA CountedCreate ==
    ASSUME Own, QueueFacts, Counted, NEW w \in Worker, NEW last \in Delivery,
           CreateCampaign(w, last)
    PROVE  Counted'
<1> DEFINE rows == {d \in 1 .. last : status[d] = "none"}
<1>1. /\ UNCHANGED <<posts, verdict, cur, crashes, raises>>
      /\ \A d \in Delivery : status'[d] = status[d] \/ (status[d] = "none" /\ status'[d] # "none")
  BY DEF CreateCampaign, queueVars
<1>2. \A v \in Worker : /\ Row(v)' = Row(v) /\ (Decided(v)' <=> Decided(v))
                        /\ verdict'[v] = "loaded" => status'[Row(v)] = "queued"
  <2>1. \A v \in Worker : verdict[v] # "idle" => Row(v) \in Delivery
    BY InHandler
  <2>2. QED
    BY <1>1, <2>1 DEF Decided, Row, Counted
<1>3. \A d \in Delivery : posts[d] \in Nat /\ crashes \in Nat /\ raises \in Nat
  BY DEF Own, DeliveriesTypeOK, QueueFacts
<1>4. QED
  BY <1>1, <1>2, <1>3 DEF Counted, RepostsNeedFaults

\* Queue steps never replace the message of a worker with a verdict.
LEMMA CountedLoop ==
    ASSUME Own, QueueFacts, Counted, NEW w \in Worker, QueueStep(w)
    PROVE  Counted'
<1>1. /\ pc[w] # "handle" /\ UNCHANGED <<crashes, raises>>
      /\ \A v \in Worker \ {w} : cur'[v] = cur[v]
  BY DEF QueueStep, Queue!Read, Queue!Claim, Queue!Take, Queue!Ack, Queue!Del, Queue!FailedAck,
         Queue!FailedDel, Queue!Again, Queue!Idle, Queue!Handed, Queue!local, Queue!budgets,
         QueueFacts
<1>2. verdict[w] = "idle" /\ UNCHANGED <<status, posts, verdict>>
  BY <1>1, IdleVerdict DEF QueueStep, handlerVars
<1>3. QED
  BY <1>1, <1>2, CountedKept

LEMMA CountedSurroundings ==
    ASSUME Own, Counted, RedisOrTime \/ UNCHANGED vars
    PROVE  Counted'
<1>1. UNCHANGED <<status, posts, verdict, crashes, raises, cur>>
  BY DEF RedisOrTime, Queue!GoDown, Queue!ComeBack, Queue!GoStale, Queue!local, Queue!budgets,
         handlerVars, queueVars, vars
<1>2. QED
  BY <1>1, CountedKept

\* An exit is itself the fault that the next post is counted against.
LEMMA CountedExit ==
    ASSUME Own, QueueFacts, Counted, NEW w \in Worker, Exit(w), \A v \in Worker : v = w
    PROVE  Counted'
<1>1. /\ crashes' = crashes + 1 /\ raises' = raises /\ verdict' = [verdict EXCEPT ![w] = "idle"]
      /\ UNCHANGED <<status, posts>>
  BY DEF Exit, Queue!Exit
<1>2. \A v \in Worker : verdict'[v] = "idle"
  BY <1>1 DEF Own, DeliveriesTypeOK
<1>3. \A d \in Delivery : posts[d] \in Nat /\ crashes \in Nat /\ raises \in Nat
  BY DEF Own, DeliveriesTypeOK, QueueFacts
<1>4. \A d \in Delivery : posts[d] <= crashes' + raises'
  BY <1>1, <1>3 DEF Counted, RepostsNeedFaults
<1>5. \A d \in Delivery : posts[d] <= 1 + crashes' + raises'
  BY <1>1, <1>3, <1>4
<1>6. QED
  BY <1>1, <1>2, <1>4, <1>5 DEF Counted, RepostsNeedFaults

\* The handler: a lone worker's row stays as it loaded it until it commits.
LEMMA CountedHandler ==
    ASSUME Own, QueueFacts, Counted, NEW w \in Worker, Handle(w), \A v \in Worker : v = w
    PROVE  Counted'
<1>1. /\ \A d \in Delivery : posts[d] \in Nat
      /\ crashes \in Nat /\ raises \in Nat /\ crashes' = crashes
      /\ \A d \in Delivery : posts[d] <= 1 + crashes + raises
      /\ verdict \in [Worker -> Final \cup {"idle", "loaded"}]
      /\ posts \in [Delivery -> Nat]
      /\ status \in [Delivery -> Final \cup {"none", "queued"}]
  <2>1. crashes' = crashes
    BY DEF Handle, Load, Skip, PostWebhook, CommitVerdict, DatabaseError, Return,
           Queue!HandlerReturns, Queue!HandlerRaises, Queue!budgets, queueVars
  <2>2. QED
    BY <2>1 DEF Own, DeliveriesTypeOK, QueueFacts, Counted, RepostsNeedFaults
<1>2. pc[w] = "handle" /\ Row(w) \in Delivery /\ status[Row(w)] # "none"
  <2>1. pc[w] = "handle" \/ verdict[w] # "idle"
    BY DEF Handle, Load, Skip, PostWebhook, CommitVerdict, DatabaseError, Queue!HandlerRaises,
           Decided
  <2>2. QED
    BY <2>1, InHandler
<1>3. cur' = cur
  BY DEF Handle, Load, Skip, PostWebhook, CommitVerdict, DatabaseError, Return,
         Queue!HandlerReturns, Queue!HandlerRaises, Queue!local, queueVars
<1>4. Row(w)' = Row(w)
  BY <1>3 DEF Row
<1>5. CASE Load(w)
  <2>1. /\ verdict[w] = "idle" /\ raises' = raises /\ UNCHANGED <<status, posts>>
        /\ verdict'[w] = "idle" \/ (verdict'[w] = "loaded" /\ status[Row(w)] = "queued")
    BY <1>1, <1>5 DEF Load, Return, Queue!HandlerReturns, Queue!budgets, queueVars
  <2>2. ~Decided(w) /\ ~Decided(w)'
    BY <2>1 DEF Decided
  <2>3. QED
    BY <1>1, <1>4, <2>1, <2>2 DEF Counted, RepostsNeedFaults
<1>6. CASE PostWebhook(w)
  <2>1. PICK v \in Final, accepted \in 0 .. 1 :
          /\ verdict' = [verdict EXCEPT ![w] = v]
          /\ posts' = [posts EXCEPT ![Row(w)] = @ + accepted]
    BY <1>6 DEF PostWebhook, Final
  <2>2. verdict[w] = "loaded" /\ raises' = raises /\ UNCHANGED status
    BY <1>6 DEF PostWebhook, queueVars
  <2>3. ~Decided(w) /\ Decided(w)' /\ verdict'[w] # "loaded"
    BY <1>1, <2>1, <2>2 DEF Decided, Final
  <2>4. status[Row(w)] = "queued" /\ posts[Row(w)] <= crashes + raises
    BY <1>2, <2>2, <2>3 DEF Counted
  <2>5. /\ posts'[Row(w)] <= 1 + crashes + raises
        /\ \A d \in Delivery : d # Row(w) => posts'[d] = posts[d]
    BY <1>1, <1>2, <2>1, <2>4
  <2>6. \A d \in Delivery : posts'[d] <= 1 + crashes + raises
    BY <1>1, <2>5
  <2>7. QED
    BY <1>1, <1>2, <1>4, <2>2, <2>3, <2>5, <2>6 DEF Counted, RepostsNeedFaults
<1>7. CASE Skip(w) \/ CommitVerdict(w)
  <2>1. \E v \in Final : status' = [status EXCEPT ![Row(w)] = v]
    <3>1. Decided(w) => verdict[w] \in Final
      BY <1>1 DEF Decided
    <3>2. QED
      BY <1>7, <3>1 DEF Skip, CommitVerdict, Final
  <2>2. /\ verdict' = [verdict EXCEPT ![w] = "idle"] /\ raises' = raises /\ UNCHANGED posts
    BY <1>7 DEF Skip, CommitVerdict, Return, Queue!HandlerReturns, Queue!budgets
  <2>3. /\ verdict'[w] = "idle" /\ status'[Row(w)] \notin {"queued", "none"}
        /\ \A d \in Delivery : d # Row(w) => status'[d] = status[d]
    BY <1>1, <1>2, <2>1, <2>2 DEF Final
  <2>4. \A d \in Delivery : status'[d] = "queued" => posts'[d] <= crashes' + raises'
    BY <1>1, <2>2, <2>3 DEF Counted
  <2>5. QED
    BY <1>1, <2>2, <2>3, <2>4 DEF Counted, RepostsNeedFaults
<1>8. CASE DatabaseError(w)
  <2>1. /\ raises' = raises + 1 /\ verdict' = [verdict EXCEPT ![w] = "idle"] /\ UNCHANGED posts
        /\ status' = status \/ \E v \in Final : status' = [status EXCEPT ![Row(w)] = v]
    <3>1. Decided(w) => verdict[w] \in Final
      BY <1>1 DEF Decided
    <3>2. QED
      BY <1>8, <3>1 DEF DatabaseError, Queue!HandlerRaises
  <2>2. /\ verdict'[w] = "idle"
        /\ \A d \in Delivery : status'[d] = "none" => status[d] = "none"
    BY <1>1, <1>2, <2>1 DEF Final
  <2>3. \A d \in Delivery : posts[d] <= crashes' + raises' /\ posts[d] <= 1 + crashes' + raises'
    BY <1>1, <2>1
  <2>4. QED
    BY <2>1, <2>2, <2>3 DEF Counted, RepostsNeedFaults
<1>9. QED
  BY <1>5, <1>6, <1>7, <1>8 DEF Handle

\* With one worker a recipient gets a campaign message a second time only if
\* the process exited or a commit failed after the provider had taken it: each
\* post beyond the first is paid for by one of the counted faults.
THEOREM RepostsNeedFaultsHolds ==
    ASSUME \A v, w \in Worker : v = w
    PROVE  Spec => []RepostsNeedFaults
<1>1. Init => Counted
  <2> SUFFICES ASSUME Init PROVE Counted
    OBVIOUS
  <2>1. /\ posts = [d \in Delivery |-> 0] /\ crashes = 0 /\ raises = 0
        /\ status = [d \in Delivery |-> "none"] /\ verdict = [w \in Worker |-> "idle"]
    BY DEF Init, Queue!Init
  <2>2. QED
    BY <2>1 DEF Counted, RepostsNeedFaults
<1>2. IInv /\ Counted /\ [Next]_vars => Counted'
  <2> SUFFICES ASSUME Own, QueueFacts, Counted, [Next]_vars PROVE Counted'
    BY QueueInv DEF IInv
  <2>1. ASSUME NEW w \in Worker, ProcessStep(w) \/ Exit(w) \/ Handle(w) \/ QueueStep(w)
        PROVE  Counted'
    BY <2>1, CountedProcess, CountedExit, CountedHandler, CountedLoop
  <2>2. ASSUME NEW w \in Worker, NEW last \in Delivery, CreateCampaign(w, last)
        PROVE  Counted'
    BY <2>2, CountedCreate
  <2>3. CASE RedisOrTime \/ UNCHANGED vars
    BY <2>3, CountedSurroundings
  <2>4. QED
    BY <2>1, <2>2, <2>3 DEF Next
<1>3. Counted => RepostsNeedFaults
  BY DEF Counted
<1>4. QED
  BY <1>1, <1>2, <1>3, DeliveriesInv, PTL DEF Spec

=============================================================================
