----------------------------- MODULE Attendance -----------------------------
(***************************************************************************)
(* The attendance of students by day: what the platform has seen of them,   *)
(* what the staff have marked (src/app/routers/community.py), the staff's   *)
(* page with its totals and filters (src/app/services/community.py) and the *)
(* weekly report for student and parents (services/student_activity.py).    *)
(*                                                                          *)
(* The tables that stand for activity keep one date in a row.  Some rows    *)
(* are written once (a quiz attempt, a new session); others carry the date  *)
(* of the latest activity (a session in use, the progress of a lesson, a    *)
(* homework handed in again).  A page opened within SESSION_TOUCH_SECONDS    *)
(* of the last one counts as that one.  Days are numbers.                    *)
(***************************************************************************)
EXTENDS Integers, FiniteSets

CONSTANTS Pupil, LastDate   \* students; bound: days

\* Asserted by the modules that instantiate this one.
AttendanceAssumption == IsFiniteSet(Pupil) /\ LastDate \in Nat \ {0}

VARIABLES
    date,       \* today
    enabled,    \* students whose account is active
    dates,      \* the dates in a student's activity rows
    mark,       \* StudentAttendance rows
    came        \* history: the days on which a student was active

vars == <<date, enabled, dates, mark, came>>

Date     == 1..LastDate
Statuses == {"present", "absent", "excused"}

Init ==
    /\ date = 1 /\ enabled = Pupil
    /\ dates = [p \in Pupil |-> {}] /\ came = [p \in Pupil |-> {}]
    /\ mark = [p \in Pupil |-> [d \in Date |-> "none"]]

\* A login, a quiz attempt, the first report of a lesson, the first answer of a homework
NewRow(p) ==
    /\ p \in enabled
    /\ dates' = [dates EXCEPT ![p] = @ \cup {date}]
    /\ came' = [came EXCEPT ![p] = @ \cup {date}]
    /\ UNCHANGED <<date, enabled, mark>>

\* session_record with a session in use: the only row with date d becomes one of today.
Touch(p, d) ==
    /\ p \in enabled /\ d \in dates[p]
    /\ dates' = [dates EXCEPT ![p] = (@ \ {d}) \cup {date}]
    /\ came' = [came EXCEPT ![p] = @ \cup {date}]
    /\ UNCHANGED <<date, enabled, mark>>

\* admin_attendance_mark: any day, by name of the status
Mark(p, d, status) ==
    /\ p \in enabled
    /\ mark' = [mark EXCEPT ![p][d] = status]
    /\ UNCHANGED <<date, enabled, dates, came>>

\* The account is switched off and on (Accounts).
Switch(p) ==
    /\ enabled' = IF p \in enabled THEN enabled \ {p} ELSE enabled \cup {p}
    /\ UNCHANGED <<date, dates, mark, came>>

Midnight ==
    /\ date < LastDate /\ date' = date + 1
    /\ UNCHANGED <<enabled, dates, mark, came>>

Next ==
    \/ \E p \in Pupil :
          \/ NewRow(p) \/ Switch(p)
          \/ \E d \in Date : Touch(p, d) \/ \E status \in Statuses : Mark(p, d, status)
    \/ Midnight

Spec == Init /\ [][Next]_vars

-----------------------------------------------------------------------------
(* The pages *)

\* _activity_condition: a row whose date is in the bounds
Active(p, d) == d \in dates[p]

Marked(d, status) == {p \in enabled : mark[p][d] = status}

\* Mutant of AutoPresent: also students with a mark.
AutoPresentMarked(d) == {p \in enabled : Active(p, d)}

\* auto_present
AutoPresent(d) == {p \in enabled : mark[p][d] = "none" /\ Active(p, d)}

\* The totals above the table
Metrics(d) ==
    LET present == Cardinality(Marked(d, "present")) + Cardinality(AutoPresent(d))
        excused == Cardinality(Marked(d, "excused"))
        rest    == Cardinality(enabled) - present - excused
    IN  [present |-> present, excused |-> excused, absent |-> IF rest > 0 THEN rest ELSE 0]

\* The students that each filter of the table lists
Listed(d, status) ==
    CASE status = "present" -> Marked(d, "present") \cup {p \in enabled : mark[p][d] = "none" /\ Active(p, d)}
      [] status = "excused" -> Marked(d, "excused")
      [] status = "absent"  -> Marked(d, "absent") \cup {p \in enabled : mark[p][d] = "none" /\ ~Active(p, d)}

\* The status beside a name in the table: the activity is looked up again, by _activity_ids_for_day.
Resolved(p, d) ==
    IF mark[p][d] # "none" THEN mark[p][d] ELSE IF Active(p, d) THEN "present" ELSE "absent"

\* student_weekly_attendance, for a student with an account in whatever state
Weekly(p, d) ==
    IF mark[p][d] # "none" THEN mark[p][d] ELSE IF d \in dates[p] THEN "present" ELSE "absent"

-----------------------------------------------------------------------------
(* Properties *)

\* Types
AttendanceTypeOK ==
    /\ date \in Date /\ enabled \subseteq Pupil
    /\ dates \in [Pupil -> SUBSET Date] /\ came \in [Pupil -> SUBSET Date]
    /\ mark \in [Pupil -> [Date -> Statuses \cup {"none"}]]

\* Totals, filters, table and weekly report say the same of every day
\* (attendance_page: "Metrics and filtering are computed by SQL; only the visible
\* page is materialized in Python", services/community.py:101), and of students
\* without a mark they say what happened.  But a day on which a student was
\* there turns into an absence once the student comes back and the session or
\* the lesson gets a later date.
AttendanceExplained ==
    \A d \in Date :
        /\ \A status \in Statuses :
              /\ Metrics(d)[status] = Cardinality(Listed(d, status))
              /\ Listed(d, status) = {p \in enabled : Resolved(p, d) = status}
        /\ \A p \in Pupil : mark[p][d] = "none" =>
              /\ Weekly(p, d) = "present" => d \in came[p]
              /\ Weekly(p, d) = "absent" /\ d \in came[p] => \E e \in came[p] : e > d
=============================================================================
