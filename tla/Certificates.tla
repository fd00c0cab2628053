---------------------------- MODULE Certificates ----------------------------
(***************************************************************************)
(* The certificate of one student in one course                             *)
(* (src/app/routers/certificates.py, src/app/services/learning_runtime.py). *)
(* A view of the course page reads the completion policy and the student's  *)
(* results; if they suffice and there is no certificate it reads again and  *)
(* inserts one.  No lock is taken: the table's unique constraint on student *)
(* and course decides, and the loser's page fails.  The policy is read only *)
(* once, SQLAlchemy keeps the row it has; all the rest is read afresh.      *)
(***************************************************************************)
EXTENDS Integers, FiniteSets

CONSTANT Request    \* views of the course page

VARIABLES
    results,    \* which of the three kinds of results are sufficient now
    policy,     \* CourseCompletionPolicy row, or NoPolicy
    valid,      \* CourseCertificate rows that are not revoked
    revoked,    \* and those that are
    req         \* views in flight, with the policy they have read

vars == <<results, policy, valid, revoked, req>>

Kind   == {"lessons", "quizzes", "homeworks"}
Policy == [requires : SUBSET Kind, enabled : BOOLEAN]

\* A policy that was never saved has no values yet: it requires and enables nothing.
NoPolicy == [requires |-> {}, enabled |-> FALSE]

Idle == [pc |-> "idle", policy |-> NoPolicy]

Init ==
    /\ results = {} /\ policy = NoPolicy
    /\ valid = 0 /\ revoked = 0
    /\ req = [r \in Request |-> Idle]

At(r, pc)     == req[r].pc = pc
Become(r, to) == req' = [req EXCEPT ![r] = to]

\* course_completion_status
Complete(p) == p.requires \subseteq results

\* GET /course/{id}
ViewCourse(r) ==
    /\ At(r, "idle") /\ Complete(policy) /\ policy.enabled
    /\ valid + revoked = 0
    /\ Become(r, [pc |-> "issue", policy |-> policy])
    /\ UNCHANGED <<results, policy, valid, revoked>>

\* issue_course_certificate reads again; a certificate made meanwhile gets the
\* new score, a revoked one stops it.
Issue(r) ==
    /\ At(r, "issue") /\ Complete(req[r].policy) /\ valid + revoked = 0
    /\ Become(r, [req[r] EXCEPT !.pc = "insert"])
    /\ UNCHANGED <<results, policy, valid, revoked>>

Decline(r) ==
    /\ At(r, "issue") /\ (~Complete(req[r].policy) \/ valid + revoked > 0)
    /\ Become(r, Idle)
    /\ UNCHANGED <<results, policy, valid, revoked>>

\* Mutant of Insert: no uq_course_certificate_user_course.
InsertAnother(r) ==
    /\ At(r, "insert")
    /\ valid' = valid + 1
    /\ Become(r, Idle)
    /\ UNCHANGED <<results, policy, revoked>>

\* The commit of the new row, by leave of uq_course_certificate_user_course
Insert(r) ==
    /\ At(r, "insert") /\ valid + revoked = 0
    /\ valid' = valid + 1
    /\ Become(r, Idle)
    /\ UNCHANGED <<results, policy, revoked>>

\* The constraint, or anything else, fails the page.
Abort(r) ==
    /\ ~At(r, "idle") /\ Become(r, Idle)
    /\ UNCHANGED <<results, policy, valid, revoked>>

\* POST /admin/certificate/{id}/revoke
Revoke ==
    /\ valid > 0
    /\ valid' = valid - 1 /\ revoked' = revoked + 1
    /\ UNCHANGED <<results, policy, req>>

\* POST /admin/course/{id}/completion-policy
SetPolicy(p) ==
    /\ policy' = p
    /\ UNCHANGED <<results, valid, revoked, req>>

\* Lessons, QuizAttempts and Coursework: results come, and go when the staff
\* publish more, grade again or ask for a revision.
ChangeResults(k) ==
    /\ results' = IF k \in results THEN results \ {k} ELSE results \cup {k}
    /\ UNCHANGED <<policy, valid, revoked, req>>

Next ==
    \/ \E r \in Request : ViewCourse(r) \/ Issue(r) \/ Decline(r) \/ Insert(r) \/ Abort(r)
    \/ Revoke
    \/ \E p \in Policy : SetPolicy(p)
    \/ \E k \in Kind : ChangeResults(k)

Spec == Init /\ [][Next]_vars

-----------------------------------------------------------------------------
(* Properties *)

\* Types; and at most one certificate.  A student whose certificate was revoked
\* gets no other, also from pages of the course that were opened before and are
\* still about to insert one (services/learning_runtime.py:64-77).
CertificatesTypeOK ==
    /\ results \subseteq Kind /\ policy \in Policy
    /\ valid \in 0..1 /\ revoked \in 0..1 /\ valid + revoked \in 0..1
    /\ req \in [Request -> [pc : {"idle", "issue", "insert"}, policy : Policy]]
=============================================================================
