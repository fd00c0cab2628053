----------------------------- MODULE Coursework -----------------------------
(***************************************************************************)
(* One piece of work that a student hands in: a homework                    *)
(* (HomeworkSubmission), an answer inside a lesson (CheckpointAttempt) or a *)
(* tick on a revision task (RevisionTaskProgress), with the points it earns *)
(* and the teacher who grades a homework.  Different works share no row and *)
(* no lock, so one of any kind stands for all                               *)
(* (src/app/routers/learning_runtime.py, src/app/api_v1_learning.py,        *)
(* src/app/api_v1_interactions.py, src/app/routers/academic_content.py,     *)
(* src/app/routers/assessments_admin.py).                                   *)
(*                                                                          *)
(* A request checks that the work is offered, waits for the advisory lock   *)
(* of the student and the work (5506, 5508, 5521), reads the row, and       *)
(* writes everything in one commit that also frees the lock.  SQLAlchemy    *)
(* writes a column only where the value differs from the one it has read.   *)
(* The API and the revision page read the row FOR UPDATE, the browser pages *)
(* of homework and checkpoints do not; the teacher never does, and takes no *)
(* advisory lock.                                                           *)
(***************************************************************************)
EXTENDS Integers, FiniteSets

CONSTANTS
    Request,       \* requests of the student
    Nobody,        \* holder of a free lock
    MaxAnswers     \* bound: texts of the homework, numbered; 0 is a blank one

CourseworkAssumption == Nobody \notin Request /\ MaxAnswers \in Nat

Work == {"homework", "checkpoint", "task"}

VARIABLES
    work,       \* which kind of work this is
    offer,      \* "none", "open", "hidden" or "deleted"
    row,        \* the student's row is there
    sub,        \* columns of a homework's row, and their history
    ticked,     \* column completed of a task's row
    paid,       \* PointLedger rows for the work
    texts,      \* texts of the homework written so far
    lock,       \* the advisory lock
    req,        \* requests in flight
    teacher     \* the teacher's request in flight

vars == <<work, offer, row, sub, ticked, paid, texts, lock, req, teacher>>

Blank == [answer |-> 0, status |-> "submitted", mark |-> 0, overtaken |-> FALSE]
Idle  == [pc |-> "idle", rowlock |-> FALSE, answer |-> 0, found |-> FALSE,
          status |-> "submitted", done |-> FALSE]
Away  == [pc |-> "away", seen |-> 0, status |-> "submitted"]

Init ==
    /\ work \in Work /\ offer = "none"
    /\ row = FALSE /\ sub = Blank /\ ticked = FALSE
    /\ paid = 0 /\ texts = 0 /\ lock = Nobody
    /\ req = [r \in Request |-> Idle] /\ teacher = Away

At(r, pc)     == req[r].pc = pc
Become(r, to) == req' = [req EXCEPT ![r] = to]
Free(r)       == lock' = IF lock = r THEN Nobody ELSE lock

-----------------------------------------------------------------------------
(* The student *)

\* The checks of the handlers, done before the lock.  The browser page of the
\* homework takes a blank text; the API does not.
Open(r, api, blank) ==
    /\ At(r, "idle") /\ offer = "open"
    /\ blank => work = "homework" /\ ~api
    /\ texts' = IF work = "homework" /\ ~blank THEN texts + 1 ELSE texts
    /\ texts' <= MaxAnswers
    /\ Become(r, [Idle EXCEPT !.pc = "wait", !.rowlock = api \/ work = "task",
                              !.answer = IF blank THEN 0 ELSE texts'])
    /\ UNCHANGED <<work, offer, row, sub, ticked, paid, lock, teacher>>

Read(r) == Become(r, [req[r] EXCEPT !.pc = "save", !.found = row,
                                    !.status = sub.status, !.done = ticked])

\* Mutant of Take: the lock is not waited for.
TakeAnyway(r) ==
    /\ At(r, "wait")
    /\ lock' = r /\ Read(r)
    /\ UNCHANGED <<work, offer, row, sub, ticked, paid, texts, teacher>>

\* pg_advisory_xact_lock, and the row under it
Take(r) ==
    /\ At(r, "wait") /\ lock = Nobody
    /\ lock' = r /\ Read(r)
    /\ UNCHANGED <<work, offer, row, sub, ticked, paid, texts, teacher>>

\* The commit finds what it needs: the work, no row where it inserts one, and
\* the row where it updates it.
Writable(r) == offer # "deleted" /\ (req[r].found <=> row)

\* award_points, award_once: not if a PointLedger row for the work exists
Pay(first) == paid' = IF first /\ paid = 0 THEN 1 ELSE paid

\* Mutant of Handed: the status is set only on a new row.
HandedOnce(r) ==
    [sub EXCEPT !.answer = req[r].answer,
                !.status = IF req[r].found THEN @ ELSE "submitted"]

\* The homework's row after the commit; a status that was read as "submitted" is
\* not written, so that a grade given since then stays on the new text.
Handed(r) ==
    LET kept == req[r].found /\ req[r].status = "submitted" IN
    [sub EXCEPT !.answer = req[r].answer,
                !.status = IF kept THEN @ ELSE "submitted",
                !.overtaken = @ \/ (req[r].found /\ req[r].status # sub.status)]

SaveHomework(r) ==
    /\ work = "homework" /\ At(r, "save") /\ Writable(r)
    /\ sub' = Handed(r) /\ row' = TRUE
    /\ Pay(sub.answer = 0)
    /\ Free(r) /\ Become(r, Idle)
    /\ UNCHANGED <<work, offer, ticked, texts, teacher>>

SaveCheckpoint(r) ==
    /\ work = "checkpoint" /\ At(r, "save") /\ Writable(r)
    /\ row' = TRUE
    /\ Pay(~req[r].found)
    /\ Free(r) /\ Become(r, Idle)
    /\ UNCHANGED <<work, offer, sub, ticked, texts, teacher>>

\* A revision task is ticked and unticked in turn and earns nothing.
SaveTask(r) ==
    /\ work = "task" /\ At(r, "save") /\ Writable(r)
    /\ row' = TRUE
    /\ ticked' = (req[r].found => ~req[r].done)
    /\ Free(r) /\ Become(r, Idle)
    /\ UNCHANGED <<work, offer, sub, paid, texts, teacher>>

\* The commit fails, or the connection does: nothing is written.
Abort(r) ==
    /\ req[r].pc \in {"wait", "save"}
    /\ Free(r) /\ Become(r, Idle)
    /\ UNCHANGED <<work, offer, row, sub, ticked, paid, texts, teacher>>

-----------------------------------------------------------------------------
(* The staff *)

\* A request of the student holds the row locked.
RowLocked == \E r \in Request : At(r, "save") /\ req[r].rowlock /\ req[r].found

Withdrawable(kind) == work = kind /\ offer \in {"open", "hidden"} /\ ~RowLocked

\* POST /admin/course/{id}/homework and /admin/lesson/{id}/checkpoints: offered at once
CreateHomework ==
    /\ work = "homework" /\ offer = "none" /\ offer' = "open"
    /\ UNCHANGED <<work, row, sub, ticked, paid, texts, lock, req, teacher>>

AddCheckpoint ==
    /\ work = "checkpoint" /\ offer = "none" /\ offer' = "open"
    /\ UNCHANGED <<work, row, sub, ticked, paid, texts, lock, req, teacher>>

\* POST /teacher/revision/task: offered if its plan is published, or once it is
CreateTask ==
    /\ work = "task" /\ offer = "none" /\ offer' \in {"open", "hidden"}
    /\ UNCHANGED <<work, row, sub, ticked, paid, texts, lock, req, teacher>>

\* Schedules, enrolments and the publication of a plan hide and show work.
Hide ==
    /\ offer \in {"open", "hidden"}
    /\ offer' = IF offer = "open" THEN "hidden" ELSE "open"
    /\ UNCHANGED <<work, row, sub, ticked, paid, texts, lock, req, teacher>>

\* POST /admin/checkpoint/{id}/delete: the students' answers go with it.
WithdrawCheckpoint ==
    /\ Withdrawable("checkpoint")
    /\ offer' = "deleted" /\ row' = FALSE
    /\ UNCHANGED <<work, sub, ticked, paid, texts, lock, req, teacher>>

\* POST /teacher/revision/task/{id}/delete
WithdrawTask ==
    /\ Withdrawable("task")
    /\ offer' = "deleted" /\ row' = FALSE /\ ticked' = FALSE
    /\ UNCHANGED <<work, sub, paid, texts, lock, req, teacher>>

\* The teacher reads the text on a page, then posts the form; the handler reads
\* the row before it writes it.
Look ==
    /\ work = "homework" /\ row /\ teacher = Away
    /\ teacher' = [Away EXCEPT !.pc = "looked", !.seen = sub.answer]
    /\ UNCHANGED <<work, offer, row, sub, ticked, paid, texts, lock, req>>

Post ==
    /\ teacher.pc = "looked"
    /\ teacher' = [teacher EXCEPT !.pc = "posted", !.status = sub.status]
    /\ UNCHANGED <<work, offer, row, sub, ticked, paid, texts, lock, req>>

Judged(verdict) == IF teacher.status = verdict THEN sub.status ELSE verdict

\* POST /admin/homework/{id}/grade
Grade ==
    /\ teacher.pc = "posted" /\ ~RowLocked
    /\ sub' = [sub EXCEPT !.mark = teacher.seen, !.status = Judged("graded"),
                          !.overtaken = sub.answer # teacher.seen]
    /\ teacher' = Away
    /\ UNCHANGED <<work, offer, row, ticked, paid, texts, lock, req>>

\* POST /admin/homework/{id}/revision
RequestRevision ==
    /\ teacher.pc = "posted" /\ ~RowLocked
    /\ sub' = [sub EXCEPT !.status = Judged("revision_requested")]
    /\ teacher' = Away
    /\ UNCHANGED <<work, offer, row, ticked, paid, texts, lock, req>>

Next ==
    \/ \E r \in Request :
          \/ \E api \in BOOLEAN, blank \in BOOLEAN : Open(r, api, blank)
          \/ Take(r)
          \/ SaveHomework(r) \/ SaveCheckpoint(r) \/ SaveTask(r)
          \/ Abort(r)
    \/ CreateHomework \/ AddCheckpoint \/ CreateTask
    \/ Hide \/ WithdrawCheckpoint \/ WithdrawTask
    \/ Look \/ Post \/ Grade \/ RequestRevision

Spec == Init /\ [][Next]_vars

-----------------------------------------------------------------------------
(* Properties *)

Status == {"submitted", "graded", "revision_requested"}

\* Types.
CourseworkTypeOK ==
    /\ work \in Work /\ offer \in {"none", "open", "hidden", "deleted"} /\ row \in BOOLEAN
    /\ sub \in [answer : 0..MaxAnswers, status : Status, mark : 0..MaxAnswers, overtaken : BOOLEAN]
    /\ ticked \in BOOLEAN /\ paid \in 0..1 /\ texts \in 0..MaxAnswers
    /\ lock \in Request \cup {Nobody}
    /\ req \in [Request -> [pc : {"idle", "wait", "save"}, rowlock : BOOLEAN,
                            answer : 0..MaxAnswers, found : BOOLEAN, status : Status,
                            done : BOOLEAN]]
    /\ teacher \in [pc : {"away", "looked", "posted"}, seen : 0..MaxAnswers, status : Status]

\* However the browser, the app and a double click send the same work together
\* (learning_runtime.py:70, 128, api_v1_learning.py:119, api_v1_interactions.py:119,
\* academic_content.py:351), no request that holds its lock is about to insert a
\* second row, or to write a tick over one it has not read: only the withdrawal
\* of the work can make its commit fail.
LocksSuffice ==
    \A r \in Request : At(r, "save") /\ offer # "deleted" =>
        Writable(r) /\ (work = "task" => req[r].done = ticked)

\* A homework that counts as graded (services/learning_runtime.py:46) carries
\* the mark of the text that is in it: handing in again takes the grade back
\* (learning_runtime.py:74, api_v1_learning.py:122).  The exceptions are a text
\* handed in between the teacher's look at the page and the grade, and a grade
\* given between the read and the commit of a hand-in.
GradeMatchesAnswer ==
    sub.status = "graded" /\ ~sub.overtaken => sub.mark = sub.answer
=============================================================================
