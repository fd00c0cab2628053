------------------------- MODULE QuizAttemptsProofs -------------------------
(***************************************************************************)
(* Proofs about QuizAttempts, for every set of requests, every settings an *)
(* admin may choose and every bound.                                       *)
(***************************************************************************)
EXTENDS QuizAttempts, TLAPS

-----------------------------------------------------------------------------
(* The inductive invariant. *)

Critical == {"starting", "creating", "submitting", "grade"}

\* The advisory lock excludes.
LockHeld == \A r \in Request : pc[r] \in Critical => lock = r

RowsExist == \A a \in Attempt : status[a] = "none" <=> a > created

\* A row that is open has not been graded.
Ungraded ==
    \A a \in Attempt : status[a] \in {"none", "in_progress"} => grades[a] = 0

\* The quiz's settings and the copies that requests hold of them stay within
\* the extremes of their history.
View(r) ==
    /\ allowed[r] <= granted
    /\ pc[r] # "idle" => shortest <= limit[r] /\ limit[r] <= longest
    /\ now[r] <= clock

ViewHolds ==
    /\ maxAttempts <= granted
    /\ shortest <= timeLimit /\ timeLimit <= longest
    /\ \A r \in Request : View(r)

\* What a request has found out stays true until it acts on it.
Work(r) ==
    /\ pc[r] = "expire" =>
        /\ aid[r] \in 1 .. created
        /\ started[aid[r]] + limit[r] <= now[r]
    /\ pc[r] = "creating" =>
        /\ used[r] = created
        /\ \A a \in Live : a = aid[r]
        /\ aid[r] # 0 => started[aid[r]] + limit[r] <= now[r]
    /\ pc[r] = "grade" =>
        /\ aid[r] \in 1 .. created
        /\ status[aid[r]] = "in_progress"
        /\ now[r] <= started[aid[r]] + limit[r]

WorkHolds == \A r \in Request : Work(r)

RequestPart == LockHeld /\ ViewHolds /\ WorkHolds

RowPart ==
    /\ RowsExist /\ Ungraded
    /\ OneLiveAttempt /\ AttemptsWithinAllowance
    /\ PointsMatchGrades /\ GradedInTime /\ ExpiredAfterTime

IInv == TypeOK /\ RequestPart /\ RowPart

-----------------------------------------------------------------------------

LEMMA InitInv == Init => IInv
<1> SUFFICES ASSUME Init PROVE IInv
  OBVIOUS
<1> USE QuizAssumption DEF Init, Attempt, Time, Limit, Allowance
<1>1. TypeOK
  BY DEF TypeOK
<1>2. RequestPart
  BY DEF RequestPart, LockHeld, Critical, ViewHolds, View, WorkHolds, Work
<1>3. RowPart
  BY DEF RowPart, RowsExist, Ungraded, OneLiveAttempt, Live,
         AttemptsWithinAllowance, PointsMatchGrades, GradedInTime,
         ExpiredAfterTime
<1>4. QED
  BY <1>1, <1>2, <1>3 DEF IInv

-----------------------------------------------------------------------------
(* Steps that leave the rows alone. *)

\* The row part only depends on the settings' extremes, and they only widen.
LEMMA QuietRows ==
    ASSUME IInv, TypeOK', UNCHANGED <<rows, grading>>,
           granted <= granted', shortest' <= shortest, longest <= longest',
           clock <= clock'
    PROVE  RowPart'
<1> USE DEF IInv, RowPart, rows, grading
<1>1. /\ created \in Nat /\ granted \in Nat /\ granted' \in Nat
      /\ longest \in Nat /\ longest' \in Nat
      /\ shortest \in Nat /\ shortest' \in Nat
      /\ clock \in Nat /\ clock' \in Nat
  BY QuizAssumption DEF TypeOK, Limit, Allowance, Time
<1>2. \A a \in Attempt : started[a] \in Nat /\ gradedAt[a] \in Nat
  BY DEF TypeOK, Time
<1>3. RowsExist' /\ Ungraded' /\ OneLiveAttempt' /\ PointsMatchGrades'
  BY DEF RowsExist, Ungraded, OneLiveAttempt, Live, PointsMatchGrades
<1>4. AttemptsWithinAllowance'
  BY <1>1 DEF AttemptsWithinAllowance
<1>5. GradedInTime'
  BY <1>1, <1>2 DEF GradedInTime
<1>6. ExpiredAfterTime'
  BY <1>1, <1>2 DEF ExpiredAfterTime
<1>7. QED
  BY <1>3, <1>4, <1>5, <1>6

\* A request that a step does not concern keeps what it found out, if the
\* step leaves the row it is grading alone and makes no attempt live.
LEMMA WorkKept ==
    ASSUME NEW q \in Request, Work(q),
           pc'[q] = pc[q], aid'[q] = aid[q], now'[q] = now[q],
           limit'[q] = limit[q], used'[q] = used[q],
           UNCHANGED <<created, started>>, Live' \subseteq Live,
           pc[q] = "grade" => status'[aid[q]] = status[aid[q]]
    PROVE  Work(q)'
BY DEF Work

LEMMA ViewKept ==
    ASSUME NEW q \in Request, TypeOK, TypeOK', View(q), pc'[q] = pc[q],
           now'[q] = now[q], limit'[q] = limit[q], allowed'[q] = allowed[q],
           granted <= granted', shortest' <= shortest, longest <= longest',
           clock <= clock'
    PROVE  View(q)'
<1>1. /\ granted \in Nat /\ granted' \in Nat /\ allowed[q] \in Nat
      /\ longest \in Nat /\ longest' \in Nat /\ limit[q] \in Nat
      /\ shortest \in Nat /\ shortest' \in Nat /\ now[q] \in Nat
      /\ clock \in Nat /\ clock' \in Nat
  BY QuizAssumption DEF TypeOK, Limit, Allowance, Time
<1>2. QED
  BY <1>1 DEF View

\* A request that has answered holds nothing.
LEMMA Forgotten ==
    ASSUME TypeOK, NEW r \in Request, Forget(r), created' \in Nat,
           created <= created'
    PROVE  /\ pc' \in [Request -> {"idle", "expire", "start", "starting",
                          "creating", "submit", "submitting", "grade"}]
           /\ aid' \in [Request -> 0 .. created']
           /\ used' \in [Request -> 0 .. created']
           /\ now' \in [Request -> Time]
           /\ limit' \in [Request -> 0 .. MaxLimit]
           /\ allowed' \in [Request -> 0 .. MaxAllowance]
           /\ pc'[r] = "idle" /\ now'[r] = 0 /\ allowed'[r] = 0
           /\ \A q \in Request \ {r} :
                /\ pc'[q] = pc[q] /\ aid'[q] = aid[q] /\ now'[q] = now[q]
                /\ limit'[q] = limit[q] /\ allowed'[q] = allowed[q]
                /\ used'[q] = used[q]
<1> USE DEF Forget, Goto
<1>1. 0 .. created \subseteq 0 .. created' /\ 0 \in 0 .. created'
  BY DEF TypeOK
<1>2. aid' \in [Request -> 0 .. created'] /\ used' \in [Request -> 0 .. created']
  BY <1>1 DEF TypeOK
<1>3. now' \in [Request -> Time]
  BY QuizAssumption DEF TypeOK, Time
<1>4. /\ limit' \in [Request -> 0 .. MaxLimit]
      /\ allowed' \in [Request -> 0 .. MaxAllowance]
  BY QuizAssumption DEF TypeOK
<1>5. pc' \in [Request -> {"idle", "expire", "start", "starting",
                          "creating", "submit", "submitting", "grade"}]
  BY DEF TypeOK
<1>6. QED
  BY <1>2, <1>3, <1>4, <1>5 DEF TypeOK

\* When r answers, the request part holds if the other requests' work does.
LEMMA ForgetRequests ==
    ASSUME IInv, TypeOK', NEW r \in Request, Forget(r),
           lock' = IF lock = r THEN Nobody ELSE lock,
           UNCHANGED <<quiz, clock>>, created <= created',
           \A q \in Request \ {r} : Work(q)'
    PROVE  RequestPart'
<1> USE DEF IInv, RequestPart
<1>1. created' \in Nat
  BY DEF TypeOK
<1> DEFINE Same(q) ==
        /\ pc'[q] = pc[q] /\ now'[q] = now[q] /\ limit'[q] = limit[q]
        /\ allowed'[q] = allowed[q]
<1>2. /\ pc'[r] = "idle" /\ now'[r] = 0 /\ allowed'[r] = 0
      /\ \A q \in Request \ {r} : Same(q)
  BY <1>1, Forgotten
<1>3. LockHeld'
  BY <1>2 DEF LockHeld, Critical
<1>4. WorkHolds'
  <2>1. Work(r)'
    BY <1>2 DEF Work
  <2>2. QED
    BY <2>1 DEF WorkHolds
<1>5. UNCHANGED <<granted, shortest, longest, clock, maxAttempts, timeLimit>>
  BY DEF quiz
<1>6. /\ granted \in Nat /\ shortest \in Nat /\ longest \in Nat /\ clock \in Nat
  BY QuizAssumption DEF TypeOK, Limit, Allowance, Time
<1>7. View(r)'
  BY <1>2, <1>5, <1>6 DEF View
<1>8. ASSUME NEW q \in Request \ {r} PROVE View(q)'
  BY <1>2, <1>5, <1>8 DEF View, ViewHolds
<1>9. ViewHolds'
  BY <1>5, <1>7, <1>8 DEF ViewHolds
<1>10. QED
  BY <1>3, <1>4, <1>9

\* An answer that changes no row: Reuse, Refuse and Abort.
LEMMA AnswerInv ==
    ASSUME IInv, NEW r \in Request, Forget(r),
           lock' = IF lock = r THEN Nobody ELSE lock,
           UNCHANGED <<rows, quiz, clock, grading>>
    PROVE  IInv'
<1>0. TypeOK /\ WorkHolds
  BY DEF IInv, RequestPart
<1>1. /\ UNCHANGED <<created, status, started, ledger>>
      /\ UNCHANGED <<published, timeLimit, maxAttempts, granted, shortest, longest>>
      /\ UNCHANGED <<clock, grades, gradedAt>>
  BY DEF rows, quiz, grading
<1>2. created' \in Nat /\ created <= created'
  BY <1>0, <1>1 DEF TypeOK
<1>3. lock' \in Request \cup {Nobody}
  BY <1>0 DEF TypeOK
<1>4. TypeOK'
  BY <1>0, <1>1, <1>2, <1>3, Forgotten DEF TypeOK
<1>5. ASSUME NEW q \in Request \ {r} PROVE Work(q)'
  BY <1>0, <1>1, <1>2, <1>5, Forgotten, WorkKept DEF WorkHolds, Live
<1>6. RequestPart'
  BY <1>2, <1>4, <1>5, ForgetRequests
<1>7. RowPart'
  <2>1. /\ granted <= granted' /\ shortest' <= shortest
        /\ longest <= longest' /\ clock <= clock'
    BY <1>0, <1>1 DEF TypeOK, Allowance, Limit, Time
  <2>2. QED
    BY <1>4, <2>1, QuietRows
<1>8. QED
  BY <1>4, <1>6, <1>7 DEF IInv

\* A move of one request that changes no row: Open, Lock, Count, OpenSubmit
\* and Check.
LEMMA MoveInv ==
    ASSUME IInv, TypeOK', NEW r \in Request,
           UNCHANGED <<rows, quiz, clock, grading>>,
           LockHeld', View(r)', Work(r)',
           \A q \in Request \ {r} :
              /\ pc'[q] = pc[q] /\ aid'[q] = aid[q] /\ now'[q] = now[q]
              /\ limit'[q] = limit[q] /\ allowed'[q] = allowed[q]
              /\ used'[q] = used[q]
    PROVE  IInv'
<1>0. TypeOK /\ WorkHolds /\ ViewHolds
  BY DEF IInv, RequestPart
<1>1. /\ UNCHANGED <<created, status, started>>
      /\ UNCHANGED <<timeLimit, maxAttempts, granted, shortest, longest, clock>>
  BY DEF rows, quiz
<1>2. /\ granted <= granted' /\ shortest' <= shortest
      /\ longest <= longest' /\ clock <= clock'
  BY <1>0, <1>1 DEF TypeOK, Allowance, Limit, Time
<1>3. ASSUME NEW q \in Request \ {r} PROVE Work(q)' /\ View(q)'
  <2>1. Work(q) /\ View(q)
    BY <1>0 DEF WorkHolds, ViewHolds
  <2>2. Work(q)'
    BY <1>1, <2>1, WorkKept DEF Live
  <2>3. View(q)'
    BY <1>0, <1>2, <2>1, ViewKept
  <2>4. QED
    BY <2>2, <2>3
<1>4. ViewHolds' /\ WorkHolds'
  BY <1>0, <1>1, <1>3 DEF ViewHolds, WorkHolds
<1>5. RowPart'
  BY <1>2, QuietRows
<1>6. QED
  BY <1>4, <1>5 DEF IInv, RequestPart

\* Opening a page or a submission: the request takes its copy of the quiz.
LEMMA LoadInv ==
    ASSUME IInv, NEW r \in Request, NEW a \in 0 .. created,
           Open(r, a) \/ OpenSubmit(r, a)
    PROVE  IInv'
<1>0. TypeOK /\ ViewHolds /\ LockHeld
  BY DEF IInv, RequestPart
<1>1. /\ UNCHANGED <<rows, quiz, clock, lock, used, grading>>
      /\ LoadQuiz(r, a)
  BY DEF Open, OpenSubmit
<1>2. /\ UNCHANGED <<created, status, started, ledger>>
      /\ UNCHANGED <<published, timeLimit, maxAttempts, granted, shortest, longest>>
      /\ UNCHANGED <<clock, lock, used, grades, gradedAt>>
  BY <1>1 DEF rows, quiz, grading
<1>3. /\ aid' = [aid EXCEPT ![r] = a]
      /\ limit' = [limit EXCEPT ![r] = timeLimit]
      /\ allowed' = [allowed EXCEPT ![r] = maxAttempts]
      /\ pc[r] = "idle"
  BY <1>1 DEF LoadQuiz
<1>4. \/ now' = [now EXCEPT ![r] = clock]
      \/ now' = now
  BY DEF Open, OpenSubmit
<1>5. PICK l \in {"expire", "start", "submit"} : pc' = [pc EXCEPT ![r] = l]
  BY DEF Open, OpenSubmit, Goto
<1>6. /\ timeLimit \in 0 .. MaxLimit /\ maxAttempts \in 0 .. MaxAllowance
  BY <1>0, QuizAssumption DEF TypeOK, Limit, Allowance
<1>7. TypeOK'
  <2>1. /\ aid' \in [Request -> 0 .. created]
        /\ limit' \in [Request -> 0 .. MaxLimit]
        /\ allowed' \in [Request -> 0 .. MaxAllowance]
        /\ now' \in [Request -> Time]
    BY <1>0, <1>3, <1>4, <1>6 DEF TypeOK
  <2>2. pc' \in [Request -> {"idle", "expire", "start", "starting", "creating",
                             "submit", "submitting", "grade"}]
    BY <1>0, <1>5 DEF TypeOK
  <2>3. QED
    BY <1>0, <1>2, <2>1, <2>2 DEF TypeOK
<1>8. /\ pc'[r] = l /\ aid'[r] = a
      /\ limit'[r] = timeLimit /\ allowed'[r] = maxAttempts
  BY <1>0, <1>3, <1>5 DEF TypeOK
<1>9. LockHeld'
  BY <1>0, <1>2, <1>5 DEF LockHeld, Critical, TypeOK
<1>10. View(r)'
  <2>1. now'[r] <= clock
    <3>1. now[r] <= clock
      BY <1>0 DEF ViewHolds, View
    <3>2. CASE now' = now
      BY <3>1, <3>2
    <3>3. CASE now' = [now EXCEPT ![r] = clock]
      BY <1>0, <3>3 DEF TypeOK, Time
    <3>4. QED
      BY <1>4, <3>2, <3>3
  <2>2. QED
    BY <1>0, <1>2, <1>8, <2>1 DEF View, ViewHolds
<1>11. Work(r)'
  <2>1. CASE Open(r, a)
    <3>1. now'[r] = clock
      BY <1>0, <2>1 DEF Open, TypeOK
    <3>2. l = "expire" =>
            a # 0 /\ status[a] = "in_progress" /\ started[a] + timeLimit <= clock
      BY <1>0, <1>8, <2>1 DEF Open, Goto, TypeOK
    <3>3. created \in Nat
      BY <1>0 DEF TypeOK
    <3>4. l = "expire" => a \in 1 .. created
      BY <3>2, <3>3
    <3>5. QED
      BY <1>2, <1>8, <3>1, <3>2, <3>4 DEF Work
  <2>2. CASE OpenSubmit(r, a)
    <3>1. pc'[r] = "submit"
      BY <1>0, <2>2 DEF OpenSubmit, Goto, TypeOK
    <3>2. QED
      BY <3>1 DEF Work
  <2>3. QED
    BY <2>1, <2>2
<1>12. \A q \in Request \ {r} :
          /\ pc'[q] = pc[q] /\ aid'[q] = aid[q] /\ now'[q] = now[q]
          /\ limit'[q] = limit[q] /\ allowed'[q] = allowed[q]
          /\ used'[q] = used[q]
  BY <1>0, <1>2, <1>3, <1>4, <1>5 DEF TypeOK
<1>13. QED
  BY <1>1, <1>7, <1>9, <1>10, <1>11, <1>12, MoveInv

LEMMA LockInv ==
    ASSUME IInv, NEW r \in Request, Lock(r)
    PROVE  IInv'
<1>0. TypeOK /\ ViewHolds /\ LockHeld
  BY DEF IInv, RequestPart
<1>1. /\ UNCHANGED <<rows, quiz, clock, grading>>
      /\ UNCHANGED <<aid, now, limit, allowed, used>>
      /\ lock = Nobody /\ lock' = r
      /\ pc[r] \in {"start", "submit"}
  BY DEF Lock
<1>2. PICK l \in {"starting", "submitting"} : pc' = [pc EXCEPT ![r] = l]
  BY DEF Lock, Goto
<1>3. /\ UNCHANGED <<created, status, started, ledger>>
      /\ UNCHANGED <<published, timeLimit, maxAttempts, granted, shortest, longest>>
      /\ UNCHANGED <<clock, grades, gradedAt>>
  BY <1>1 DEF rows, quiz, grading
<1>4. pc'[r] = l
  BY <1>0, <1>2 DEF TypeOK
<1>5. TypeOK'
  <2>1. pc' \in [Request -> {"idle", "expire", "start", "starting", "creating",
                             "submit", "submitting", "grade"}]
    BY <1>0, <1>2 DEF TypeOK
  <2>2. QED
    BY <1>0, <1>1, <1>3, <2>1 DEF TypeOK
<1>6. LockHeld'
  BY <1>0, <1>1, <1>2, QuizAssumption DEF LockHeld, Critical, TypeOK
<1>7. View(r)'
  BY <1>0, <1>1, <1>3, <1>4 DEF ViewHolds, View
<1>8. Work(r)'
  BY <1>4 DEF Work
<1>9. QED
  BY <1>0, <1>1, <1>2, <1>5, <1>6, <1>7, <1>8, MoveInv DEF TypeOK

\* With at most one attempt live, the one that Count locks is the only one.
LEMMA ExistingIsLive ==
    ASSUME OneLiveAttempt
    PROVE  \A a \in Live : a = Existing
<1> SUFFICES ASSUME NEW a \in Live PROVE a = Existing
  OBVIOUS
<1>1. \A b \in Live : b = a
  BY DEF OneLiveAttempt
<1>2. Live = {a}
  BY <1>1
<1>3. a \in Attempt /\ a <= a
  BY QuizAssumption DEF Live, Attempt
<1>4. \E b \in Live : \A c \in Live : c <= b
  BY <1>2, <1>3
<1>5. (CHOOSE b \in Live : \A c \in Live : c <= b) \in Live
  BY <1>4
<1>6. QED
  BY <1>1, <1>5 DEF Existing

\* Whoever is in the critical section counts every row there will be until it
\* leaves, and knows the only attempt that may be live.
LEMMA CountInv ==
    ASSUME IInv, NEW r \in Request, Count(r)
    PROVE  IInv'
<1>0. /\ TypeOK /\ ViewHolds /\ LockHeld
      /\ OneLiveAttempt /\ RowsExist
  BY DEF IInv, RequestPart, RowPart
<1>1. /\ UNCHANGED <<rows, quiz, clock, grading>>
      /\ UNCHANGED <<lock, now, limit, allowed>>
      /\ pc' = [pc EXCEPT ![r] = "creating"]
      /\ aid' = [aid EXCEPT ![r] = Existing]
      /\ used' = [used EXCEPT ![r] = created]
      /\ pc[r] = "starting" /\ ~StillLive(r)
  BY DEF Count, Goto
<1>2. /\ UNCHANGED <<created, status, started, ledger>>
      /\ UNCHANGED <<published, timeLimit, maxAttempts, granted, shortest, longest>>
      /\ UNCHANGED <<clock, grades, gradedAt>>
  BY <1>1 DEF rows, quiz, grading
<1>3. created \in 0 .. created
  BY <1>0 DEF TypeOK
<1>4. Existing = 0 \/ Existing \in Live
  <2>1. CASE Live = {}
    BY <2>1 DEF Existing
  <2>2. CASE Live # {}
    <3>1. PICK a \in Live : TRUE
      BY <2>2
    <3>2. QED
      BY <1>0, <3>1, ExistingIsLive
  <2>3. QED
    BY <2>1, <2>2
<1>5. Existing \in 0 .. created
  <2>1. ASSUME Existing \in Live PROVE Existing \in 1 .. created
    <3>1. Existing \in Attempt /\ ~(Existing > created)
      BY <1>0, <2>1 DEF Live, RowsExist
    <3>2. QED
      BY <1>0, <3>1, QuizAssumption DEF Attempt, TypeOK
  <2>2. QED
    BY <1>3, <1>4, <2>1, <1>0 DEF TypeOK
<1>6. TypeOK'
  <2>1. /\ aid' \in [Request -> 0 .. created]
        /\ used' \in [Request -> 0 .. created]
    BY <1>0, <1>1, <1>3, <1>5 DEF TypeOK
  <2>2. pc' \in [Request -> {"idle", "expire", "start", "starting", "creating",
                             "submit", "submitting", "grade"}]
    BY <1>0, <1>1 DEF TypeOK
  <2>3. QED
    BY <1>0, <1>1, <1>2, <2>1, <2>2 DEF TypeOK
<1>7. pc'[r] = "creating" /\ aid'[r] = Existing /\ used'[r] = created
  BY <1>0, <1>1 DEF TypeOK
<1>8. LockHeld'
  BY <1>0, <1>1 DEF LockHeld, Critical, TypeOK
<1>9. View(r)'
  BY <1>0, <1>1, <1>2, <1>7 DEF ViewHolds, View
<1>10. Work(r)'
  <2>1. \A a \in Live' : a = Existing
    BY <1>0, <1>2, ExistingIsLive DEF Live
  <2>2. Existing # 0 => started[Existing] + limit[r] <= now[r]
    <3>1. SUFFICES ASSUME Existing # 0
                   PROVE  started[Existing] + limit[r] <= now[r]
      OBVIOUS
    <3>2. ~(started[Existing] + limit[r] > now[r])
      BY <1>1, <3>1 DEF StillLive, Deadline
    <3>3. Existing \in Attempt
      BY <1>4, <3>1 DEF Live
    <3>4. started[Existing] \in Nat /\ limit[r] \in Nat /\ now[r] \in Nat
      BY <1>0, <3>3, QuizAssumption DEF TypeOK, Time
    <3>5. QED
      BY <3>2, <3>4
  <2>3. QED
    BY <1>1, <1>2, <1>7, <2>1, <2>2 DEF Work
<1>11. QED
  BY <1>0, <1>1, <1>6, <1>8, <1>9, <1>10, MoveInv DEF TypeOK

LEMMA CheckInv ==
    ASSUME IInv, NEW r \in Request, Check(r)
    PROVE  IInv'
<1>0. TypeOK /\ ViewHolds /\ LockHeld /\ RowsExist
  BY DEF IInv, RequestPart, RowPart
<1>1. /\ UNCHANGED <<rows, quiz, clock, grading>>
      /\ UNCHANGED <<lock, aid, limit, allowed, used>>
      /\ now' = [now EXCEPT ![r] = clock]
      /\ pc' = [pc EXCEPT ![r] = "grade"]
      /\ pc[r] = "submitting" /\ InProgress(r)
      /\ Deadline(r, aid[r]) >= clock
  BY DEF Check, Goto
<1>2. /\ UNCHANGED <<created, status, started, ledger>>
      /\ UNCHANGED <<published, timeLimit, maxAttempts, granted, shortest, longest>>
      /\ UNCHANGED <<clock, grades, gradedAt>>
  BY <1>1 DEF rows, quiz, grading
<1>3. TypeOK'
  <2>1. pc' \in [Request -> {"idle", "expire", "start", "starting", "creating",
                             "submit", "submitting", "grade"}]
    BY <1>0, <1>1 DEF TypeOK
  <2>2. now' \in [Request -> Time]
    BY <1>0, <1>1 DEF TypeOK
  <2>3. QED
    BY <1>0, <1>1, <1>2, <2>1, <2>2 DEF TypeOK
<1>4. pc'[r] = "grade" /\ now'[r] = clock /\ aid'[r] = aid[r]
  BY <1>0, <1>1 DEF TypeOK
<1>5. LockHeld'
  BY <1>0, <1>1 DEF LockHeld, Critical, TypeOK
<1>6. View(r)'
  <2>1. clock \in Nat
    BY <1>0 DEF TypeOK, Time
  <2>2. QED
    BY <1>0, <1>1, <1>2, <1>4, <2>1 DEF ViewHolds, View
<1>7. Work(r)'
  <2>1. created \in Nat /\ clock \in Nat /\ aid[r] \in 0 .. created
    BY <1>0 DEF TypeOK, Time
  <2>2. aid[r] \in 1 .. created /\ status[aid[r]] = "in_progress"
    BY <1>1, <2>1 DEF InProgress
  <2>3. aid[r] \in Attempt
    BY <1>0, <2>2, QuizAssumption DEF TypeOK, Attempt
  <2>4. started[aid[r]] \in Nat /\ limit[r] \in Nat
    BY <1>0, <2>3 DEF TypeOK, Time
  <2>5. clock <= started[aid[r]] + limit[r]
    BY <1>1, <2>1, <2>4 DEF Deadline
  <2>6. QED
    BY <1>1, <1>2, <1>4, <2>2, <2>5 DEF Work
<1>8. QED
  BY <1>0, <1>1, <1>3, <1>5, <1>6, <1>7, MoveInv DEF TypeOK

LEMMA QuietAnswerInv ==
    ASSUME IInv, NEW r \in Request, Reuse(r) \/ Refuse(r) \/ Abort(r)
    PROVE  IInv'
<1>1. CASE Reuse(r) \/ Refuse(r)
  <2>1. lock = r
    BY <1>1 DEF IInv, RequestPart, LockHeld, Critical, Reuse, Refuse
  <2>2. QED
    BY <1>1, <2>1, AnswerInv DEF Reuse, Refuse, Release
<1>2. CASE Abort(r)
  BY <1>2, AnswerInv DEF Abort
<1>3. QED
  BY <1>1, <1>2

-----------------------------------------------------------------------------
(* The admin and the clock. *)

\* Requests do not notice a step that only widens the extremes of the settings
\* or advances the clock.
LEMMA AroundInv ==
    ASSUME IInv, TypeOK', UNCHANGED <<rows, lock, requests, grading>>,
           granted <= granted', shortest' <= shortest, longest <= longest',
           maxAttempts' <= granted', shortest' <= timeLimit',
           timeLimit' <= longest', clock <= clock'
    PROVE  IInv'
<1>0. TypeOK /\ ViewHolds /\ LockHeld /\ WorkHolds
  BY DEF IInv, RequestPart
<1>1. /\ UNCHANGED <<created, status, started>>
      /\ UNCHANGED <<lock, pc, aid, now, limit, allowed, used>>
  BY DEF rows, requests
<1>2. RowPart'
  BY QuietRows
<1>3. LockHeld' /\ WorkHolds'
  BY <1>0, <1>1 DEF LockHeld, WorkHolds, Work, Live
<1>4. ASSUME NEW q \in Request PROVE View(q)'
  BY <1>0, <1>1, ViewKept DEF ViewHolds
<1>5. QED
  BY <1>2, <1>3, <1>4 DEF IInv, RequestPart, ViewHolds

LEMMA AdminInv ==
    ASSUME IInv,
           \/ TogglePublish
           \/ \E l \in Limit, n \in Allowance : ChangeSettings(l, n)
           \/ Tick
    PROVE  IInv'
<1>0. TypeOK /\ ViewHolds
  BY DEF IInv, RequestPart
<1>1. /\ granted \in Nat /\ shortest \in Nat /\ longest \in Nat
      /\ clock \in Nat
  BY <1>0, QuizAssumption DEF TypeOK, Allowance, Limit, Time
<1>2. CASE TogglePublish
  <2>1. /\ UNCHANGED <<created, status, started, ledger>>
        /\ UNCHANGED <<timeLimit, maxAttempts, granted, shortest, longest>>
        /\ UNCHANGED <<clock, lock, pc, aid, now, limit, allowed, used>>
        /\ UNCHANGED <<grades, gradedAt>>
        /\ published' \in BOOLEAN
    BY <1>0, <1>2 DEF TogglePublish, rows, requests, grading, TypeOK
  <2>2. TypeOK'
    BY <1>0, <2>1 DEF TypeOK
  <2>3. QED
    BY <1>0, <1>1, <1>2, <2>1, <2>2, AroundInv DEF TogglePublish, ViewHolds
<1>3. ASSUME NEW l \in Limit, NEW n \in Allowance, ChangeSettings(l, n)
      PROVE  IInv'
  <2>1. /\ UNCHANGED <<rows, published, clock, lock, requests, grading>>
        /\ timeLimit' = l /\ maxAttempts' = n
        /\ granted' = IF n > granted THEN n ELSE granted
        /\ shortest' = IF l < shortest THEN l ELSE shortest
        /\ longest' = IF l > longest THEN l ELSE longest
    BY <1>3 DEF ChangeSettings
  <2>2. l \in Nat /\ n \in Nat
    BY QuizAssumption DEF Limit, Allowance
  <2>3. /\ granted <= granted' /\ shortest' <= shortest
        /\ longest <= longest' /\ maxAttempts' <= granted'
        /\ shortest' <= timeLimit' /\ timeLimit' <= longest'
        /\ clock <= clock'
    BY <1>1, <2>1, <2>2
  <2>4. /\ granted' \in Allowance /\ shortest' \in Limit /\ longest' \in Limit
        /\ timeLimit' \in Limit /\ maxAttempts' \in Allowance
    BY <1>0, <2>1 DEF TypeOK
  <2>5. /\ UNCHANGED <<created, status, started, ledger>>
        /\ UNCHANGED <<published, clock, lock, pc, aid, now, limit>>
        /\ UNCHANGED <<allowed, used, grades, gradedAt>>
    BY <2>1 DEF rows, requests, grading
  <2>6. TypeOK'
    BY <1>0, <2>4, <2>5 DEF TypeOK
  <2>7. QED
    BY <2>1, <2>3, <2>6, AroundInv
<1>4. CASE Tick
  <2>1. /\ UNCHANGED <<rows, quiz, lock, requests, grading>>
        /\ clock < MaxTime /\ clock' = clock + 1
    BY <1>4 DEF Tick
  <2>2. clock' \in Time
    BY <1>0, <2>1, QuizAssumption DEF TypeOK, Time
  <2>3. /\ UNCHANGED <<created, status, started, ledger>>
        /\ UNCHANGED <<published, timeLimit, maxAttempts, granted, shortest, longest>>
        /\ UNCHANGED <<lock, pc, aid, now, limit, allowed, used>>
        /\ UNCHANGED <<grades, gradedAt>>
    BY <2>1 DEF rows, quiz, requests, grading
  <2>4. TypeOK'
    BY <1>0, <2>2, <2>3 DEF TypeOK
  <2>5. clock <= clock'
    BY <1>1, <2>1
  <2>6. QED
    BY <1>0, <1>1, <2>1, <2>3, <2>4, <2>5, AroundInv DEF ViewHolds
<1>5. QED
  BY <1>2, <1>3, <1>4

-----------------------------------------------------------------------------
(* Steps that write rows. *)

\* A row that is past the shortest time may be expired.
LEMMA ExpireRows ==
    ASSUME IInv, NEW X \in SUBSET (1 .. created),
           status' = [a \in Attempt |-> IF a \in X THEN "expired" ELSE status[a]],
           \A x \in X : started[x] + shortest <= clock,
           UNCHANGED <<created, started, ledger, quiz, clock, grading>>
    PROVE  RowPart' /\ Live' \subseteq Live
<1>0. /\ TypeOK /\ RowsExist /\ Ungraded /\ OneLiveAttempt
      /\ AttemptsWithinAllowance /\ PointsMatchGrades /\ GradedInTime
      /\ ExpiredAfterTime
  BY DEF IInv, RowPart
<1>1. UNCHANGED <<granted, shortest, longest, grades, gradedAt>>
  BY DEF quiz, grading
<1>2. \A x \in X : ~(x > created)
  BY <1>0 DEF TypeOK
<1>3. \A a \in Attempt :
        status'[a] = IF a \in X THEN "expired" ELSE status[a]
  BY <1>0 DEF TypeOK
<1>4. RowsExist'
  BY <1>0, <1>2, <1>3 DEF RowsExist
<1>5. Ungraded'
  BY <1>0, <1>1, <1>3 DEF Ungraded
<1>6. Live' \subseteq Live
  BY <1>3 DEF Live
<1>7. OneLiveAttempt'
  BY <1>0, <1>6 DEF OneLiveAttempt
<1>8. AttemptsWithinAllowance' /\ PointsMatchGrades' /\ GradedInTime'
  BY <1>0, <1>1 DEF AttemptsWithinAllowance, PointsMatchGrades, GradedInTime
<1>9. ExpiredAfterTime'
  <2>1. SUFFICES ASSUME NEW a \in Attempt, status'[a] = "expired"
                 PROVE  clock >= started[a] + shortest
    BY <1>1 DEF ExpiredAfterTime
  <2>2. CASE a \in X
    <3>1. clock \in Nat /\ shortest \in Nat /\ started[a] \in Nat
      BY <1>0, QuizAssumption DEF TypeOK, Limit, Time
    <3>2. QED
      BY <2>2, <3>1
  <2>3. CASE a \notin X
    BY <1>0, <1>3, <2>1, <2>3 DEF ExpiredAfterTime
  <2>4. QED
    BY <2>2, <2>3
<1>10. QED
  BY <1>4, <1>5, <1>6, <1>7, <1>8, <1>9 DEF RowPart

\* A request outside the critical section relies on old rows' start only.
LEMMA OutsideWork ==
    ASSUME NEW q \in Request, Work(q), pc[q] \notin Critical, pc'[q] = pc[q],
           aid'[q] = aid[q], now'[q] = now[q], limit'[q] = limit[q],
           created \in Nat, created' \in Nat, created <= created',
           \A a \in 1 .. created : started'[a] = started[a]
    PROVE  Work(q)'
BY DEF Work, Critical

\* What the past-deadline test of a request says about the shortest time.
LEMMA PastShortest ==
    ASSUME IInv, NEW r \in Request, pc[r] # "idle", aid[r] \in Attempt,
           started[aid[r]] + limit[r] <= clock
    PROVE  started[aid[r]] + shortest <= clock
<1>1. shortest <= limit[r]
  BY DEF IInv, RequestPart, ViewHolds, View
<1>2. /\ started[aid[r]] \in Nat /\ limit[r] \in Nat /\ shortest \in Nat
      /\ clock \in Nat
  BY QuizAssumption DEF IInv, TypeOK, Time, Limit
<1>3. QED
  BY <1>1, <1>2

LEMMA ExpireInv ==
    ASSUME IInv, NEW r \in Request, Expire(r)
    PROVE  IInv'
<1>0. TypeOK /\ ViewHolds /\ LockHeld /\ WorkHolds
  BY DEF IInv, RequestPart
<1>1. /\ UNCHANGED <<created, started, ledger, quiz, clock, lock>>
      /\ UNCHANGED <<aid, now, limit, allowed, used, grading>>
      /\ pc[r] = "expire" /\ ~RowLocked(aid[r])
      /\ status' = [status EXCEPT ![aid[r]] = "expired"]
      /\ pc' = [pc EXCEPT ![r] = "start"]
  BY DEF Expire, Goto
<1>2. /\ UNCHANGED <<published, timeLimit, maxAttempts, granted, shortest, longest>>
      /\ UNCHANGED <<grades, gradedAt>>
  BY <1>1 DEF quiz, grading
<1>3. aid[r] \in 1 .. created /\ started[aid[r]] + limit[r] <= now[r]
  BY <1>0, <1>1 DEF WorkHolds, Work
<1>4. aid[r] \in Attempt
  BY <1>0, <1>3, QuizAssumption DEF TypeOK, Attempt
<1>5. started[aid[r]] + limit[r] <= clock
  <2>1. now[r] <= clock
    BY <1>0 DEF ViewHolds, View
  <2>2. /\ started[aid[r]] \in Nat /\ limit[r] \in Nat /\ now[r] \in Nat
        /\ clock \in Nat
    BY <1>0, <1>4 DEF TypeOK, Time
  <2>3. QED
    BY <1>3, <2>1, <2>2
<1>6. started[aid[r]] + shortest <= clock
  BY <1>1, <1>4, <1>5, PastShortest
<1>7. RowPart' /\ Live' \subseteq Live
  <2>1. status' = [a \in Attempt |->
                     IF a \in {aid[r]} THEN "expired" ELSE status[a]]
    BY <1>0, <1>1 DEF TypeOK
  <2>2. QED
    BY <1>1, <1>3, <1>6, <2>1, ExpireRows
<1>8. pc'[r] = "start" /\ \A q \in Request \ {r} : pc'[q] = pc[q]
  BY <1>0, <1>1 DEF TypeOK
<1>9. LockHeld'
  BY <1>0, <1>1, <1>8 DEF LockHeld, Critical
<1>10. WorkHolds'
  <2>1. Work(r)'
    BY <1>8 DEF Work
  <2>2. ASSUME NEW q \in Request \ {r} PROVE Work(q)'
    <3>1. pc[q] = "grade" => status'[aid[q]] = status[aid[q]]
      BY <1>0, <1>1 DEF RowLocked, TypeOK
    <3>2. Work(q)
      BY <1>0 DEF WorkHolds
    <3>3. QED
      BY <1>1, <1>7, <1>8, <3>1, <3>2, WorkKept
  <2>3. QED
    BY <2>1, <2>2 DEF WorkHolds
<1>11. ViewHolds'
  <2>1. \A q \in Request : View(q)'
    BY <1>0, <1>1, <1>2, <1>8 DEF ViewHolds, View
  <2>2. QED
    BY <1>0, <1>2, <2>1 DEF ViewHolds
<1>12. TypeOK'
  <2>1. /\ status' \in [Attempt -> {"none", "in_progress", "submitted", "expired"}]
        /\ pc' \in [Request -> {"idle", "expire", "start", "starting", "creating",
                                "submit", "submitting", "grade"}]
    BY <1>0, <1>1 DEF TypeOK
  <2>2. QED
    BY <1>0, <1>1, <1>2, <2>1 DEF TypeOK
<1>13. QED
  BY <1>7, <1>9, <1>10, <1>11, <1>12 DEF IInv, RequestPart

\* The holder of the lock answers: nobody else was in the critical section.
LEMMA HolderAnswers ==
    ASSUME IInv, NEW r \in Request, pc[r] \in Critical, Release(r), TypeOK',
           UNCHANGED <<quiz, clock>>, created <= created',
           \A a \in 1 .. created : started'[a] = started[a]
    PROVE  RequestPart'
<1>0. TypeOK /\ LockHeld /\ WorkHolds
  BY DEF IInv, RequestPart
<1>1. lock = r
  BY <1>0 DEF LockHeld
<1>2. Forget(r) /\ lock' = IF lock = r THEN Nobody ELSE lock
  BY <1>1 DEF Release
<1>3. created \in Nat /\ created' \in Nat
  BY <1>0 DEF TypeOK
<1>4. ASSUME NEW q \in Request \ {r} PROVE Work(q)'
  <2>1. pc[q] \notin Critical /\ Work(q)
    BY <1>0, <1>1 DEF LockHeld, WorkHolds
  <2>2. /\ pc'[q] = pc[q] /\ aid'[q] = aid[q] /\ now'[q] = now[q]
        /\ limit'[q] = limit[q]
    BY <1>0, <1>2, <1>3, Forgotten
  <2>3. QED
    BY <1>3, <2>1, <2>2, OutsideWork
<1>5. QED
  BY <1>2, <1>4, ForgetRequests

LEMMA TooLateInv ==
    ASSUME IInv, NEW r \in Request, TooLate(r)
    PROVE  IInv'
<1>0. TypeOK
  BY DEF IInv
<1>1. /\ UNCHANGED <<created, started, ledger, quiz, clock, grading>>
      /\ pc[r] = "submitting" /\ InProgress(r)
      /\ Deadline(r, aid[r]) < clock
      /\ status' = [status EXCEPT ![aid[r]] = "expired"]
      /\ Release(r) /\ Forget(r)
  BY DEF TooLate, Release
<1>2. UNCHANGED <<published, timeLimit, maxAttempts, granted, shortest, longest,
                  grades, gradedAt>>
  BY <1>1 DEF quiz, grading
<1>3. aid[r] \in 1 .. created /\ created \in Nat
  BY <1>0, <1>1 DEF InProgress, TypeOK
<1>4. aid[r] \in Attempt
  BY <1>0, <1>3, QuizAssumption DEF TypeOK, Attempt
<1>5. started[aid[r]] + limit[r] <= clock
  <2>1. started[aid[r]] \in Nat /\ limit[r] \in Nat /\ clock \in Nat
    BY <1>0, <1>4 DEF TypeOK, Time
  <2>2. QED
    BY <1>1, <2>1 DEF Deadline
<1>6. started[aid[r]] + shortest <= clock
  BY <1>1, <1>4, <1>5, PastShortest
<1>7. RowPart'
  <2>1. status' = [a \in Attempt |->
                     IF a \in {aid[r]} THEN "expired" ELSE status[a]]
    BY <1>0, <1>1 DEF TypeOK
  <2>2. QED
    BY <1>1, <1>3, <1>6, <2>1, ExpireRows
<1>8. TypeOK'
  <2>1. status' \in [Attempt -> {"none", "in_progress", "submitted", "expired"}]
    BY <1>0, <1>1 DEF TypeOK
  <2>2. lock' \in Request \cup {Nobody}
    BY <1>1 DEF Release
  <2>3. QED
    BY <1>0, <1>1, <1>2, <1>3, <2>1, <2>2, Forgotten DEF TypeOK
<1>9. RequestPart'
  BY <1>1, <1>3, <1>8, HolderAnswers DEF Critical
<1>10. QED
  BY <1>7, <1>8, <1>9 DEF IInv

\* The rows after the old attempt is expired and a new one is made.
LEMMA NewRow ==
    ASSUME IInv, NEW x \in 0 .. created, NEW t \in Time,
           created < granted, \A a \in Live : a = x,
           created' = created + 1,
           status' = [a \in Attempt |->
                        IF a = created + 1 THEN "in_progress"
                        ELSE IF a = x THEN "expired" ELSE status[a]],
           started' = [started EXCEPT ![created + 1] = t],
           x # 0 => started[x] + shortest <= clock,
           UNCHANGED <<ledger, quiz, clock, grading>>
    PROVE  RowPart'
<1>0. /\ TypeOK /\ RowsExist /\ Ungraded /\ OneLiveAttempt
      /\ PointsMatchGrades /\ GradedInTime /\ ExpiredAfterTime
  BY DEF IInv, RowPart
<1>1. UNCHANGED <<granted, shortest, longest, grades, gradedAt>>
  BY DEF quiz, grading
<1>2. /\ created \in Nat /\ granted \in Nat /\ longest \in Nat
      /\ shortest \in Nat /\ clock \in Nat /\ x \in Nat
      /\ MaxAllowance \in Nat /\ granted <= MaxAllowance
  BY <1>0, QuizAssumption DEF TypeOK, Allowance, Limit, Time
<1>3. created + 1 \in Attempt /\ Attempt \subseteq Nat
  BY <1>2 DEF Attempt
<1>4. \A a \in Attempt :
        /\ status'[a] = IF a = created + 1 THEN "in_progress"
                        ELSE IF a = x THEN "expired" ELSE status[a]
        /\ a # created + 1 => started'[a] = started[a]
  BY <1>0, <1>3 DEF TypeOK
<1>5. RowsExist'
  <2>1. SUFFICES ASSUME NEW a \in Attempt
                 PROVE  status'[a] = "none" <=> a > created + 1
    BY DEF RowsExist
  <2>2. a \in Nat /\ (status[a] = "none" <=> a > created)
    BY <1>0, <1>3 DEF RowsExist
  <2>3. CASE a = created + 1
    BY <1>2, <1>4, <2>3
  <2>4. CASE a # created + 1 /\ a = x
    BY <1>2, <1>4, <2>4
  <2>5. CASE a # created + 1 /\ a # x
    BY <1>2, <1>4, <2>2, <2>5
  <2>6. QED
    BY <2>3, <2>4, <2>5
<1>6. status[created + 1] = "none" /\ grades[created + 1] = 0
  BY <1>0, <1>2, <1>3 DEF RowsExist, Ungraded
<1>7. Ungraded'
  BY <1>0, <1>1, <1>4, <1>6 DEF Ungraded
<1>8. \A a \in Live' : a = created + 1
  BY <1>4 DEF Live
<1>9. OneLiveAttempt'
  BY <1>8 DEF OneLiveAttempt
<1>10. AttemptsWithinAllowance'
  BY <1>1, <1>2 DEF AttemptsWithinAllowance
<1>11. PointsMatchGrades'
  BY <1>0, <1>1 DEF PointsMatchGrades
<1>12. GradedInTime'
  <2>1. SUFFICES ASSUME NEW a \in Attempt, grades[a] > 0
                 PROVE  gradedAt[a] <= started'[a] + longest
    BY <1>1 DEF GradedInTime
  <2>2. a # created + 1
    BY <1>6, <2>1
  <2>3. QED
    BY <1>0, <1>4, <2>1, <2>2 DEF GradedInTime
<1>13. ExpiredAfterTime'
  <2>1. SUFFICES ASSUME NEW a \in Attempt, status'[a] = "expired"
                 PROVE  clock >= started'[a] + shortest
    BY <1>1 DEF ExpiredAfterTime
  <2>2. a # created + 1 /\ started'[a] = started[a]
    BY <1>4, <2>1
  <2>3. started[a] \in Nat /\ a # 0
    BY <1>0 DEF TypeOK, Time, Attempt
  <2>4. CASE a = x
    BY <1>2, <2>2, <2>3, <2>4
  <2>5. CASE a # x
    BY <1>0, <1>4, <2>1, <2>2, <2>5 DEF ExpiredAfterTime
  <2>6. QED
    BY <2>4, <2>5
<1>14. QED
  BY <1>5, <1>7, <1>9, <1>10, <1>11, <1>12, <1>13 DEF RowPart

LEMMA CreateInv ==
    ASSUME IInv, NEW r \in Request, Create(r)
    PROVE  IInv'
<1>0. TypeOK /\ ViewHolds /\ WorkHolds
  BY DEF IInv, RequestPart
<1> DEFINE closed == [a \in Attempt |->
                        IF a = aid[r] THEN "expired" ELSE status[a]]
<1>1. /\ UNCHANGED <<ledger, quiz, clock, grading>>
      /\ pc[r] = "creating"
      /\ Release(r) /\ Forget(r)
      /\ \/ used[r] >= allowed[r] /\ status' = closed
            /\ UNCHANGED <<created, started>>
         \/ /\ ~(used[r] >= allowed[r])
            /\ created' = created + 1
            /\ status' = [closed EXCEPT ![created + 1] = "in_progress"]
            /\ started' = [started EXCEPT ![created + 1] = now[r]]
  BY DEF Create, Release
<1>2. UNCHANGED <<published, timeLimit, maxAttempts, granted, shortest, longest,
                  grades, gradedAt>>
  BY <1>1 DEF quiz, grading
<1>3. /\ used[r] = created /\ \A a \in Live : a = aid[r]
      /\ aid[r] # 0 => started[aid[r]] + limit[r] <= now[r]
      /\ allowed[r] <= granted /\ now[r] <= clock
  BY <1>0, <1>1 DEF WorkHolds, Work, ViewHolds, View
<1>4. /\ created \in Nat /\ granted \in Nat /\ allowed[r] \in Nat
      /\ aid[r] \in 0 .. created /\ now[r] \in Time /\ granted <= MaxAllowance
      /\ created <= MaxAllowance
  BY <1>0, QuizAssumption DEF TypeOK, Allowance
<1>5. aid[r] # 0 => aid[r] \in 1 .. created /\ aid[r] \in Attempt
  BY <1>4, QuizAssumption DEF Attempt
<1>6. aid[r] # 0 => started[aid[r]] + shortest <= clock
  <2>1. SUFFICES ASSUME aid[r] # 0 PROVE started[aid[r]] + shortest <= clock
    OBVIOUS
  <2>2. /\ started[aid[r]] \in Nat /\ limit[r] \in Nat /\ now[r] \in Nat
        /\ clock \in Nat
    BY <1>0, <1>5, <2>1 DEF TypeOK, Time
  <2>3. started[aid[r]] + limit[r] <= clock
    BY <1>3, <2>1, <2>2
  <2>4. QED
    BY <1>1, <1>5, <2>1, <2>3, PastShortest
<1>7. closed \in [Attempt -> {"none", "in_progress", "submitted", "expired"}]
  BY <1>0 DEF TypeOK
<1>8. CASE used[r] >= allowed[r] /\ status' = closed
           /\ UNCHANGED <<created, started>>
  <2>1. RowPart'
    <3> DEFINE X == {aid[r]} \ {0}
    <3>1. X \in SUBSET (1 .. created)
      BY <1>5
    <3>2. \A a \in Attempt : a = aid[r] <=> a \in X
      BY DEF Attempt
    <3>3. status' = [a \in Attempt |-> IF a \in X THEN "expired" ELSE status[a]]
      BY <1>8, <3>2
    <3>4. \A x \in X : started[x] + shortest <= clock
      BY <1>6
    <3> HIDE DEF X
    <3>5. QED
      BY <1>1, <1>8, <3>1, <3>3, <3>4, ExpireRows
  <2>2. TypeOK'
    <3>1. lock' \in Request \cup {Nobody}
      BY <1>1 DEF Release
    <3>2. QED
      BY <1>0, <1>1, <1>2, <1>4, <1>7, <1>8, <3>1, Forgotten DEF TypeOK
  <2>3. RequestPart'
    BY <1>1, <1>4, <1>8, <2>2, HolderAnswers DEF Critical
  <2>4. QED
    BY <2>1, <2>2, <2>3 DEF IInv
<1>9. CASE /\ ~(used[r] >= allowed[r])
           /\ created' = created + 1
           /\ status' = [closed EXCEPT ![created + 1] = "in_progress"]
           /\ started' = [started EXCEPT ![created + 1] = now[r]]
  <2>1. created < granted /\ created + 1 \in Attempt
    BY <1>3, <1>4, <1>9, QuizAssumption DEF Attempt
  <2>2. RowPart'
    <3>1. status' = [a \in Attempt |->
                       IF a = created + 1 THEN "in_progress"
                       ELSE IF a = aid[r] THEN "expired" ELSE status[a]]
      BY <1>9
    <3>2. QED
      BY <1>1, <1>3, <1>4, <1>6, <1>9, <2>1, <3>1, NewRow
  <2>3. TypeOK'
    <3>1. /\ status' \in [Attempt -> {"none", "in_progress", "submitted", "expired"}]
          /\ started' \in [Attempt -> Time]
      BY <1>0, <1>4, <1>7, <1>9, <2>1 DEF TypeOK
    <3>2. lock' \in Request \cup {Nobody}
      BY <1>1 DEF Release
    <3>3. created' \in 0 .. MaxAllowance /\ created' \in Nat /\ created <= created'
      BY <1>4, <1>9, <2>1, QuizAssumption DEF Attempt
    <3>4. QED
      BY <1>0, <1>1, <1>2, <3>1, <3>2, <3>3, Forgotten DEF TypeOK
  <2>4. \A a \in 1 .. created : started'[a] = started[a]
    BY <1>0, <1>4, <1>9, QuizAssumption DEF TypeOK, Attempt
  <2>5. RequestPart'
    BY <1>1, <1>4, <1>9, <2>3, <2>4, HolderAnswers DEF Critical
  <2>6. QED
    BY <2>2, <2>3, <2>5 DEF IInv
<1>10. QED
  BY <1>1, <1>8, <1>9

LEMMA GradeInv ==
    ASSUME IInv, NEW r \in Request, Grade(r)
    PROVE  IInv'
<1>0. /\ TypeOK /\ ViewHolds /\ WorkHolds /\ RowsExist /\ Ungraded
      /\ OneLiveAttempt /\ AttemptsWithinAllowance /\ PointsMatchGrades
      /\ GradedInTime /\ ExpiredAfterTime
  BY DEF IInv, RequestPart, RowPart
<1>1. /\ UNCHANGED <<created, started, quiz, clock>>
      /\ pc[r] = "grade"
      /\ status' = [status EXCEPT ![aid[r]] = "submitted"]
      /\ ledger' = ledger \cup {aid[r]}
      /\ grades' = [grades EXCEPT ![aid[r]] = @ + 1]
      /\ gradedAt' = [gradedAt EXCEPT ![aid[r]] = now[r]]
      /\ Release(r) /\ Forget(r)
  BY DEF Grade, Release
<1>2. UNCHANGED <<published, timeLimit, maxAttempts, granted, shortest, longest>>
  BY <1>1 DEF quiz
<1>3. /\ aid[r] \in 1 .. created /\ status[aid[r]] = "in_progress"
      /\ now[r] <= started[aid[r]] + limit[r] /\ limit[r] <= longest
  BY <1>0, <1>1 DEF WorkHolds, Work, ViewHolds, View
<1>4. aid[r] \in Attempt /\ created \in Nat
  BY <1>0, <1>3, QuizAssumption DEF TypeOK, Attempt
<1>5. /\ started[aid[r]] \in Nat /\ limit[r] \in Nat /\ longest \in Nat
      /\ now[r] \in Time /\ now[r] \in Nat
  BY <1>0, <1>4, QuizAssumption DEF TypeOK, Time, Limit
<1>6. grades[aid[r]] = 0
  BY <1>0, <1>3, <1>4 DEF Ungraded
<1>7. /\ status'[aid[r]] = "submitted" /\ grades'[aid[r]] = 1
      /\ gradedAt'[aid[r]] = now[r]
      /\ \A a \in Attempt \ {aid[r]} :
            /\ status'[a] = status[a] /\ grades'[a] = grades[a]
            /\ gradedAt'[a] = gradedAt[a]
  BY <1>0, <1>1, <1>4, <1>6 DEF TypeOK
<1>8. RowPart'
  <2>1. RowsExist'
    BY <1>0, <1>1, <1>3, <1>4, <1>7 DEF RowsExist
  <2>2. Ungraded'
    BY <1>0, <1>7 DEF Ungraded
  <2>3. OneLiveAttempt'
    BY <1>0, <1>7 DEF OneLiveAttempt, Live
  <2>4. AttemptsWithinAllowance'
    BY <1>0, <1>1, <1>2 DEF AttemptsWithinAllowance
  <2>5. PointsMatchGrades'
    BY <1>0, <1>1, <1>7 DEF PointsMatchGrades
  <2>6. GradedInTime'
    <3>1. now[r] <= started[aid[r]] + longest
      BY <1>3, <1>5
    <3>2. QED
      BY <1>0, <1>1, <1>2, <1>7, <3>1 DEF GradedInTime
  <2>7. ExpiredAfterTime'
    BY <1>0, <1>1, <1>2, <1>7 DEF ExpiredAfterTime
  <2>8. QED
    BY <2>1, <2>2, <2>3, <2>4, <2>5, <2>6, <2>7 DEF RowPart
<1>9. TypeOK'
  <2>1. status' \in [Attempt -> {"none", "in_progress", "submitted", "expired"}]
    BY <1>0, <1>1 DEF TypeOK
  <2>2. ledger' \subseteq Attempt
    BY <1>0, <1>1, <1>4 DEF TypeOK
  <2>3. grades' \in [Attempt -> Nat] /\ gradedAt' \in [Attempt -> Time]
    <3>1. grades[aid[r]] + 1 \in Nat
      BY <1>6
    <3>2. QED
      BY <1>0, <1>1, <1>4, <1>5, <3>1 DEF TypeOK
  <2>4. lock' \in Request \cup {Nobody}
    BY <1>1 DEF Release
  <2>5. QED
    BY <1>0, <1>1, <1>2, <1>4, <2>1, <2>2, <2>3, <2>4, Forgotten DEF TypeOK
<1>10. RequestPart'
  BY <1>1, <1>4, <1>9, HolderAnswers DEF Critical
<1>11. QED
  BY <1>8, <1>9, <1>10 DEF IInv

-----------------------------------------------------------------------------
(* The theorems. *)

LEMMA StutterInv == IInv /\ UNCHANGED vars => IInv'
BY DEF vars, IInv, TypeOK, RequestPart, LockHeld, ViewHolds, View, WorkHolds,
       Work, RowPart, RowsExist, Ungraded, OneLiveAttempt, Live,
       AttemptsWithinAllowance, PointsMatchGrades, GradedInTime,
       ExpiredAfterTime

LEMMA NextInv == IInv /\ [Next]_vars => IInv'
<1> SUFFICES ASSUME IInv, [Next]_vars PROVE IInv'
  OBVIOUS
<1>1. ASSUME NEW r \in Request, NEW a \in 0 .. created,
             Open(r, a) \/ OpenSubmit(r, a)
      PROVE  IInv'
  BY <1>1, LoadInv
<1>2. ASSUME NEW r \in Request, Step(r) PROVE IInv'
  BY <1>2, ExpireInv, LockInv, QuietAnswerInv, CountInv, CreateInv, TooLateInv,
     CheckInv, GradeInv DEF Step
<1>3. ASSUME NEW r \in Request, Abort(r) PROVE IInv'
  BY <1>3, QuietAnswerInv
<1>4. CASE \/ TogglePublish
           \/ \E l \in Limit, n \in Allowance : ChangeSettings(l, n)
           \/ Tick
  BY <1>4, AdminInv
<1>5. CASE UNCHANGED vars
  BY <1>5, StutterInv
<1>6. QED
  BY <1>1, <1>2, <1>3, <1>4, <1>5 DEF Next

\* The invariant of start and submit holds in every reachable state.
THEOREM Invariance == Spec => []IInv
<1>1. QED
  BY InitInv, NextInv, PTL DEF Spec

\* Every variable keeps its type; in particular no attempt number passes the
\* largest allowance, so Create never writes a row outside Attempt.
THEOREM TypeCorrect == Spec => []TypeOK
<1>1. IInv => TypeOK
  BY DEF IInv
<1>2. QED
  BY <1>1, Invariance, PTL

\* However many requests open the quiz, in whatever order, from a browser or
\* through the API, the student has at most one attempt in progress.
THEOREM AtMostOneLive == Spec => []OneLiveAttempt
<1>1. IInv => OneLiveAttempt
  BY DEF IInv, RowPart
<1>2. QED
  BY <1>1, Invariance, PTL

\* Concurrent openings never make more attempts than an admin ever allowed.
THEOREM AllowanceKept == Spec => []AttemptsWithinAllowance
<1>1. IInv => AttemptsWithinAllowance
  BY DEF IInv, RowPart
<1>2. QED
  BY <1>1, Invariance, PTL

\* No interleaving of submissions grades an attempt twice, or awards points
\* for one that was not graded.
THEOREM GradedOnce == Spec => []PointsMatchGrades
<1>1. IInv => PointsMatchGrades
  BY DEF IInv, RowPart
<1>2. QED
  BY <1>1, Invariance, PTL

\* Waiting for the lock never buys time: an attempt is graded within the
\* longest time the quiz has allowed, and none is expired before the shortest.
THEOREM DeadlinesKept == Spec => [](GradedInTime /\ ExpiredAfterTime)
<1>1. IInv => GradedInTime /\ ExpiredAfterTime
  BY DEF IInv, RowPart
<1>2. QED
  BY <1>1, Invariance, PTL

=============================================================================
