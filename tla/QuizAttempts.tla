---------------------------- MODULE QuizAttempts ----------------------------
(***************************************************************************)
(* The attempts of one student at one quiz: quiz_page and submit_quiz of   *)
(* src/app/routers/learning_runtime.py and their twins quiz_attempt and    *)
(* quiz_submit of src/app/api_v1_learning.py, which do the same on the     *)
(* same rows under the same advisory lock (5507, user x quiz).             *)
(*                                                                         *)
(* A request is a sequence of database transactions in READ COMMITTED; one *)
(* action is what no other request can divide.  The lock is released when  *)
(* the transaction ends.  The attempt a request names comes from a cookie  *)
(* the client holds: a delayed or concurrent request may carry any attempt *)
(* the student was ever given, or none.  Questions, scores and the mock    *)
(* analysis are left out: a graded attempt is one with a points award.     *)
(***************************************************************************)
EXTENDS Integers, FiniteSets

CONSTANTS
    Request,       \* concurrent HTTP requests of the student
    Nobody,        \* no request: the lock is free
    MaxLimit,      \* the longest time an admin can set (300 in the code)
    MaxAllowance,  \* the most attempts an admin can set (20 in the code)
    MaxTime        \* bound: the clock

ASSUME QuizAssumption ==
    /\ Nobody \notin Request
    /\ MaxLimit \in Nat \ {0}
    /\ MaxAllowance \in Nat \ {0}
    /\ MaxTime \in Nat

Limit     == 1 .. MaxLimit
Allowance == 1 .. MaxAllowance
Attempt   == 1 .. MaxAllowance
Time      == 0 .. MaxTime

VARIABLES
    created,     \* rows in quiz_attempts; IDs are 1..created
    status,      \* QuizAttempt.status, "none" before the row exists
    started,     \* QuizAttempt.started_at
    ledger,      \* attempts with a PointLedger row
    published, timeLimit, maxAttempts,   \* the Quiz row
    clock,
    lock,        \* who holds the advisory lock
    pc,          \* where each request is
    aid,         \* the attempt each request names, 0 for none
    now,         \* each request's datetime.utcnow()
    limit, allowed,           \* each request's copy of the Quiz row
    used,        \* each request's count of the attempts
    granted, shortest, longest,   \* history: extreme settings so far
    grades, gradedAt          \* history: how often and when graded

rows     == <<created, status, started, ledger>>
quiz     == <<published, timeLimit, maxAttempts, granted, shortest, longest>>
requests == <<pc, aid, now, limit, allowed, used>>
grading  == <<grades, gradedAt>>
vars == <<created, status, started, ledger, published, timeLimit, maxAttempts,
          clock, lock, pc, aid, now, limit, allowed, used, granted,
          shortest, longest, grades, gradedAt>>

Init ==
    /\ created = 0
    /\ status = [a \in Attempt |-> "none"]
    /\ started = [a \in Attempt |-> 0]
    /\ ledger = {}
    /\ published = TRUE
    /\ timeLimit \in Limit /\ maxAttempts \in Allowance
    /\ granted = maxAttempts /\ shortest = timeLimit /\ longest = timeLimit
    /\ clock = 0
    /\ lock = Nobody
    /\ pc = [r \in Request |-> "idle"]
    /\ aid = [r \in Request |-> 0]
    /\ now = [r \in Request |-> 0]
    /\ limit = [r \in Request |-> 0]
    /\ allowed = [r \in Request |-> 0]
    /\ used = [r \in Request |-> 0]
    /\ grades = [a \in Attempt |-> 0]
    /\ gradedAt = [a \in Attempt |-> 0]

Goto(r, l) == pc' = [pc EXCEPT ![r] = l]

\* The response is sent: the request's view of the world is gone.
Forget(r) ==
    /\ Goto(r, "idle")
    /\ aid' = [aid EXCEPT ![r] = 0]
    /\ now' = [now EXCEPT ![r] = 0]
    /\ limit' = [limit EXCEPT ![r] = 0]
    /\ allowed' = [allowed EXCEPT ![r] = 0]
    /\ used' = [used EXCEPT ![r] = 0]

Release(r) == Forget(r) /\ lock' = Nobody

\* What a request has read of the Quiz row stays its view to the end.
LoadQuiz(r, a) ==
    /\ pc[r] = "idle"
    /\ published
    /\ a \in 0 .. created
    /\ aid' = [aid EXCEPT ![r] = a]
    /\ limit' = [limit EXCEPT ![r] = timeLimit]
    /\ allowed' = [allowed EXCEPT ![r] = maxAttempts]

\* Mutant of Deadline: a tick of grace.
GraceDeadline(r, a) == started[a] + limit[r] + 1

Deadline(r, a) == started[a] + limit[r]

-----------------------------------------------------------------------------
(* quiz_page *)

\* The attempt named by the cookie is read without the lock.  One past its
\* time is going to be expired; one still live is only shown, with no effect.
Open(r, a) ==
    /\ LoadQuiz(r, a)
    /\ now' = [now EXCEPT ![r] = clock]
    /\ \/ /\ a = 0
          /\ Goto(r, "start")
       \/ /\ a # 0
          /\ \/ status[a] # "in_progress" /\ Goto(r, "start")
             \/ status[a] = "in_progress" /\ Goto(r, "expire")
                /\ started[a] + timeLimit <= clock
    /\ UNCHANGED <<rows, quiz, clock, lock, used, grading>>

RowLocked(a) == \E r \in Request : pc[r] \in {"creating", "grade"} /\ aid[r] = a

\* UPDATE of the row as it was read; only a row lock delays it.
Expire(r) ==
    /\ pc[r] = "expire"
    /\ ~RowLocked(aid[r])
    /\ status' = [status EXCEPT ![aid[r]] = "expired"]
    /\ Goto(r, "start")
    /\ UNCHANGED <<created, started, ledger, quiz, clock, lock,
                   aid, now, limit, allowed, used, grading>>

\* Mutant of Lock: two requests may be in the critical section.
LockPerRequest(r) ==
    /\ pc[r] \in {"start", "submit"}
    /\ lock' = r
    /\ Goto(r, IF pc[r] = "start" THEN "starting" ELSE "submitting")
    /\ UNCHANGED <<rows, quiz, clock, aid, now, limit, allowed, used, grading>>

Lock(r) ==
    /\ pc[r] \in {"start", "submit"}
    /\ lock = Nobody
    /\ lock' = r
    /\ Goto(r, IF pc[r] = "start" THEN "starting" ELSE "submitting")
    /\ UNCHANGED <<rows, quiz, clock, aid, now, limit, allowed, used, grading>>

Live == {a \in Attempt : status[a] = "in_progress"}

\* The newest attempt in progress, or 0.
Existing ==
    IF Live = {} THEN 0
    ELSE CHOOSE a \in Live : \A b \in Live : b <= a

StillLive(r) == Existing # 0 /\ Deadline(r, Existing) > now[r]

Reuse(r) ==
    /\ pc[r] = "starting"
    /\ StillLive(r)
    /\ Release(r)
    /\ UNCHANGED <<rows, quiz, clock, grading>>

\* Otherwise the old attempt's row is locked and the attempts are counted.
Count(r) ==
    /\ pc[r] = "starting"
    /\ ~StillLive(r)
    /\ aid' = [aid EXCEPT ![r] = Existing]
    /\ used' = [used EXCEPT ![r] = created]
    /\ Goto(r, "creating")
    /\ UNCHANGED <<rows, quiz, clock, lock, now, limit, allowed, grading>>

\* Mutant of Create: counts, but does not compare.
CreateAnyway(r) ==
    /\ pc[r] = "creating"
    /\ created' = created + 1
    /\ status' = [a \in Attempt |-> IF a = aid[r] THEN "expired" ELSE
                                    IF a = created + 1 THEN "in_progress" ELSE
                                    status[a]]
    /\ started' = [a \in Attempt |-> IF a = created + 1 THEN now[r] ELSE started[a]]
    /\ Release(r)
    /\ UNCHANGED <<ledger, quiz, clock, grading>>

\* The old attempt is expired; a new one is made if the count leaves any.
Create(r) ==
    /\ pc[r] = "creating"
    /\ LET closed == [a \in Attempt |->
                        IF a = aid[r] THEN "expired" ELSE status[a]] IN
       IF used[r] >= allowed[r]
       THEN status' = closed /\ UNCHANGED <<created, started>>
       ELSE /\ created' = created + 1
            /\ status' = [closed EXCEPT ![created + 1] = "in_progress"]
            /\ started' = [started EXCEPT ![created + 1] = now[r]]
    /\ Release(r)
    /\ UNCHANGED <<ledger, quiz, clock, grading>>

-----------------------------------------------------------------------------
(* submit_quiz *)

OpenSubmit(r, a) ==
    /\ LoadQuiz(r, a)
    /\ Goto(r, "submit")
    /\ UNCHANGED <<rows, quiz, clock, lock, now, used, grading>>

\* Mutant of InProgress: does not ask for the status.
Named(r) == aid[r] # 0

InProgress(r) == aid[r] # 0 /\ status[aid[r]] = "in_progress"

Refuse(r) ==
    /\ pc[r] = "submitting"
    /\ ~InProgress(r)
    /\ Release(r)
    /\ UNCHANGED <<rows, quiz, clock, grading>>

TooLate(r) ==
    /\ pc[r] = "submitting"
    /\ InProgress(r)
    /\ Deadline(r, aid[r]) < clock
    /\ status' = [status EXCEPT ![aid[r]] = "expired"]
    /\ Release(r)
    /\ UNCHANGED <<created, started, ledger, quiz, clock, grading>>

\* Checks passed: the row is locked while the answers are graded.
Check(r) ==
    /\ pc[r] = "submitting"
    /\ InProgress(r)
    /\ Deadline(r, aid[r]) >= clock
    /\ now' = [now EXCEPT ![r] = clock]
    /\ Goto(r, "grade")
    /\ UNCHANGED <<rows, quiz, clock, lock, aid, limit, allowed, used, grading>>

Grade(r) ==
    /\ pc[r] = "grade"
    /\ status' = [status EXCEPT ![aid[r]] = "submitted"]
    /\ ledger' = ledger \cup {aid[r]}
    /\ grades' = [grades EXCEPT ![aid[r]] = @ + 1]
    /\ gradedAt' = [gradedAt EXCEPT ![aid[r]] = now[r]]
    /\ Release(r)
    /\ UNCHANGED <<created, started, quiz, clock>>

-----------------------------------------------------------------------------
(* Failures, the admin and the clock. *)

\* A lost connection or a crash rolls the transaction back.
Abort(r) ==
    /\ pc[r] # "idle"
    /\ Forget(r)
    /\ lock' = IF lock = r THEN Nobody ELSE lock
    /\ UNCHANGED <<rows, quiz, clock, grading>>

TogglePublish ==
    /\ published' = ~published
    /\ UNCHANGED <<rows, timeLimit, maxAttempts, granted, shortest, longest,
                   clock, lock, requests, grading>>

\* update_quiz_settings clamps the form's values to Limit and Allowance, and
\* refuses a published quiz.
ChangeSettings(l, n) ==
    /\ ~published
    /\ timeLimit' = l /\ maxAttempts' = n
    /\ granted' = IF n > granted THEN n ELSE granted
    /\ shortest' = IF l < shortest THEN l ELSE shortest
    /\ longest' = IF l > longest THEN l ELSE longest
    /\ UNCHANGED <<rows, published, clock, lock, requests, grading>>

Tick ==
    /\ clock < MaxTime
    /\ clock' = clock + 1
    /\ UNCHANGED <<rows, quiz, lock, requests, grading>>

Step(r) ==
    \/ Expire(r) \/ Lock(r) \/ Reuse(r) \/ Count(r) \/ Create(r)
    \/ Refuse(r) \/ TooLate(r) \/ Check(r) \/ Grade(r)

Next ==
    \/ \E r \in Request :
        \/ \E a \in 0 .. created : Open(r, a) \/ OpenSubmit(r, a)
        \/ Step(r) \/ Abort(r)
    \/ TogglePublish
    \/ \E l \in Limit, n \in Allowance : ChangeSettings(l, n)
    \/ Tick

Spec == Init /\ [][Next]_vars

-----------------------------------------------------------------------------
(* Properties *)

TypeOK ==
    /\ created \in 0 .. MaxAllowance
    /\ status \in [Attempt -> {"none", "in_progress", "submitted", "expired"}]
    /\ started \in [Attempt -> Time]
    /\ ledger \subseteq Attempt
    /\ published \in BOOLEAN
    /\ timeLimit \in Limit /\ maxAttempts \in Allowance
    /\ clock \in Time
    /\ lock \in Request \cup {Nobody}
    /\ pc \in [Request -> {"idle", "expire", "start", "starting", "creating",
                           "submit", "submitting", "grade"}]
    /\ aid \in [Request -> 0 .. created]
    /\ now \in [Request -> Time]
    /\ limit \in [Request -> 0 .. MaxLimit]
    /\ allowed \in [Request -> 0 .. MaxAllowance]
    /\ used \in [Request -> 0 .. created]
    /\ granted \in Allowance /\ shortest \in Limit /\ longest \in Limit
    /\ grades \in [Attempt -> Nat]
    /\ gradedAt \in [Attempt -> Time]

\* A student never has two attempts in progress, whichever browser, API client
\* or delayed request opens the quiz (quiz_page and quiz_attempt together).
OneLiveAttempt == \A a, b \in Live : a = b

\* Concurrent openings never make more attempts than the quiz ever allowed.
AttemptsWithinAllowance == created <= granted

\* An attempt is graded at most once and brings points exactly when it was,
\* although the same attempt may be submitted by several requests at once.
PointsMatchGrades ==
    \A a \in Attempt : /\ grades[a] <= 1
                       /\ (a \in ledger) = (grades[a] = 1)

\* Answers count only when they arrived within the longest time the quiz has
\* allowed, even if the request waited for the lock.
GradedInTime ==
    \A a \in Attempt : grades[a] > 0 => gradedAt[a] <= started[a] + longest

\* No attempt is expired, by any of the three places that do it, before the
\* shortest time the quiz has allowed is over.
ExpiredAfterTime ==
    \A a \in Attempt : status[a] = "expired" => clock >= started[a] + shortest

\* The comment in tests/test_v96_scale_upload_hardening.py:60: start and submit
\* cannot overlap, so an attempt that was submitted stays submitted.
SubmittedStaysSubmitted ==
    [][\A a \in Attempt :
        status[a] = "submitted" => status'[a] = "submitted"]_vars
=============================================================================
