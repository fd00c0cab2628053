------------------------------ MODULE Lessons ------------------------------
(***************************************************************************)
(* The lessons of one course and one enrolled student: what the staff set   *)
(* (src/app/routers/courses.py, routers/academic_content.py), which lessons *)
(* are open to the student (src/app/access.py) behind every door that       *)
(* serves them, and the progress reports (routers/learning_runtime.py).     *)
(*                                                                          *)
(* Time is counted in days.  A date that is not set is one that has passed, *)
(* or one that never comes (Never), and a schedule, a rule or an override   *)
(* that is missing or off is the one that changes nothing, so none of them  *)
(* needs a row of its own here; a rule without a delay has the delay 0.  A  *)
(* request of the staff that changes something touches one row and reads    *)
(* nothing another one may have changed: it is one step.  A progress report *)
(* checks the access first and writes later, under the advisory key 5505 of *)
(* the student and the lesson; the only other writer of its row deletes it. *)
(*                                                                          *)
(* lesson_progress cannot make a row: watched_seconds of a LessonProgress   *)
(* that has not been flushed is None, and max(None, seconds) raises.  Rows   *)
(* are those the database came with.                                        *)
(***************************************************************************)
EXTENDS Integers, FiniteSets

CONSTANTS
    Lesson,         \* IDs, in the order in which they are given out
    FirstLessons,   \* those that exist at the start
    Unit, NoUnit,
    FirstUnits,     \* units that exist at the start
    MaxOrder,       \* bound: order numbers typed by the staff
    MaxDay,         \* bound: days
    Delays,         \* bound: delays of drip rules, in days
    MaxEdits        \* bound: changes by the staff

ASSUME LessonsAssumption ==
    /\ Lesson \subseteq Nat \ {0} /\ FirstLessons \subseteq Lesson
    /\ IsFiniteSet(Lesson) /\ \A l \in FirstLessons, k \in Lesson \ FirstLessons : l < k
    /\ NoUnit \notin Unit /\ FirstUnits \subseteq Unit
    /\ MaxOrder \in Nat \ {0} /\ MaxDay \in Nat /\ Delays \subseteq Nat /\ MaxEdits \in Nat

VARIABLES
    day,        \* today, counted from the enrolment
    enrolled,   \* the enrolment is active (Enrolment)
    lesson,     \* Lesson rows with their unit, rule, schedule and override
    unit,       \* ContentUnit rows with their schedule
    progress,   \* LessonProgress rows of the student
    rewarded,   \* lessons with a PointLedger row for completing them
    edits,      \* history: how many changes the staff have made
    rearranged, \* history: the staff have put a lesson before another one, or opened one
    report      \* the lesson a progress report in flight is about, or 0

vars == <<day, enrolled, lesson, unit, progress, rewarded, edits, rearranged, report>>

Never   == MaxDay + 1
Window  == {w \in [from : 0..MaxDay, till : 1..Never] : w.from < w.till}
Always  == [from |-> 0, till |-> Never]
Rule    == [mode : {"open", "previous"}, delay : {0}] \cup
           [mode : {"days", "previous_and_days"}, delay : Delays]
NoRule  == [mode |-> "previous", delay |-> 0]
Override   == [action : {"lock", "unlock"}, until : 0..Never]
NoOverride == [action |-> "lock", until |-> 0]

Draft(order) == [is |-> "draft", order |-> order, unit |-> NoUnit, rule |-> NoRule,
                 window |-> Always, override |-> NoOverride]

Init ==
    /\ day = 0 /\ enrolled = TRUE
    /\ lesson = [l \in Lesson |->
                    IF l \in FirstLessons
                    THEN [Draft(Cardinality({k \in FirstLessons : k <= l})) EXCEPT !.is = "published"]
                    ELSE [Draft(1) EXCEPT !.is = "none"]]
    /\ unit = [u \in Unit |-> [is |-> IF u \in FirstUnits THEN "published" ELSE "none",
                               window |-> Always]]
    /\ progress \in [Lesson -> {"none", "open"}]
    /\ \A l \in Lesson \ FirstLessons : progress[l] = "none"
    /\ rewarded = {} /\ edits = 0 /\ rearranged = FALSE /\ report = 0

Exists(l)    == lesson[l].is \in {"draft", "published"}
Rows         == {l \in Lesson : Exists(l)}
Published    == {l \in Lesson : lesson[l].is = "published"}
Done(l)      == progress[l] = "done"

-----------------------------------------------------------------------------
(* access.py *)

\* schedule_status, schedule_allows: "manual" or "live"
Live(window) == window.from <= day /\ day < window.till

\* content_schedule_allows
ScheduleAllows(l) ==
    /\ Live(lesson[l].window)
    /\ lesson[l].unit # NoUnit =>
          unit[lesson[l].unit].is = "published" /\ Live(unit[lesson[l].unit].window)

\* The published lessons before a lesson, and (at most) one whose completion
\* opens it: the highest order, then the highest ID.
Before(l) == {k \in Published : lesson[k].order < lesson[l].order}

\* Mutant of Previous: the order of the sort is lost.
PreviousFirst(l) == {k \in Before(l) : \A j \in Before(l) : k <= j}

Previous(l) ==
    {k \in Before(l) : \A j \in Before(l) :
        \/ lesson[j].order < lesson[k].order
        \/ lesson[j].order = lesson[k].order /\ j <= k}

\* lesson_access_state for a student; an override decides until it runs out.
Unlocked(l) ==
    LET o    == lesson[l].override
        rule == lesson[l].rule
    IN  IF o.until > day THEN o.action = "unlock"
        ELSE /\ rule.mode \in {"previous", "previous_and_days"} => \A k \in Previous(l) : Done(k)
             /\ rule.mode \in {"days", "previous_and_days"} => enrolled /\ day >= rule.delay

\* What the progress report, the offline licence and the protected-lesson check
\* ask; unlike the pages they do not ask whether the lesson is published.
Reachable(l) == Exists(l) /\ ScheduleAllows(l) /\ enrolled /\ Unlocked(l)

\* _student_lesson, and the same four questions asked by each page
StudentLesson(l) == l \in Published /\ ScheduleAllows(l) /\ enrolled /\ Unlocked(l)

\* The pages that carry the text, the files and the video of a lesson; the page
\* hands out the tokens with which the video and the lesson itself are fetched,
\* and each of them asks again.
LessonPage(l)       == StudentLesson(l)
LessonAssistant(l)  == StudentLesson(l)
RenderLessonPage(l) == LessonPage(l) \/ LessonAssistant(l)
ProtectedVideo(l)   == StudentLesson(l)
ProtectedMedia(l)   == StudentLesson(l)
ProtectedLesson(l)  == Reachable(l)

\* API v1: the list of the course (with links to what is open), one lesson, its
\* content, the assistant and the discussion
Launchable(l)    == l \in {k \in Published : ScheduleAllows(k)} /\ enrolled /\ Unlocked(l)
LessonDetails(l) == StudentLesson(l)
Experience(l)    == StudentLesson(l)
Interaction(l)   == StudentLesson(l)

Served(l) == \/ RenderLessonPage(l) \/ ProtectedVideo(l) \/ ProtectedMedia(l) \/ ProtectedLesson(l)
             \/ Launchable(l) \/ LessonDetails(l) \/ Experience(l) \/ Interaction(l)

-----------------------------------------------------------------------------
(* The staff *)

Edit(l, row) == lesson' = [lesson EXCEPT ![l] = row]

\* A published lesson of this row and place opens others, or comes before them.
Intrudes(l, row) ==
    row.is = "published" /\ \E k \in Rows \ {l} : lesson[k].order > row.order

\* POST /admin/course/{id}/lessons: the number of lessons plus one is its place.
AddLesson ==
    /\ \E l \in Lesson :
          /\ lesson[l].is = "none" /\ \A k \in Lesson : lesson[k].is = "none" => l <= k
          /\ Edit(l, Draft(Cardinality(Rows) + 1))
    /\ UNCHANGED <<unit, progress, rearranged>>

\* POST /admin/lesson/{id}/update, as to place and publication (Media has the video)
UpdateLesson(l, order, is) ==
    /\ Exists(l)
    /\ LET row == [lesson[l] EXCEPT !.order = order, !.is = is] IN
          /\ Edit(l, row)
          /\ rearranged' = (\/ rearranged \/ order # lesson[l].order
                            \/ l \notin Published /\ Intrudes(l, row))
    /\ UNCHANGED <<unit, progress>>

\* POST /admin/lesson/{id}/toggle
ToggleLesson(l) ==
    /\ Exists(l)
    /\ LET row == [lesson[l] EXCEPT !.is = IF l \in Published THEN "draft" ELSE "published"] IN
          /\ Edit(l, row)
          /\ rearranged' = (rearranged \/ Intrudes(l, row))
    /\ UNCHANGED <<unit, progress>>

\* POST /admin/lesson/{id}/move: the two neighbours by place and ID swap numbers.
Follows(k, l) ==
    \/ lesson[k].order > lesson[l].order
    \/ lesson[k].order = lesson[l].order /\ k > l
Neighbours(k, l) == Follows(k, l) /\ ~\E j \in Rows : Follows(k, j) /\ Follows(j, l)

MoveLesson(k, l) ==
    /\ {k, l} \subseteq Rows /\ Neighbours(k, l)
    /\ lesson' = [lesson EXCEPT ![k].order = lesson[l].order, ![l].order = lesson[k].order]
    /\ rearranged' = (rearranged \/ lesson[k].order # lesson[l].order)
    /\ UNCHANGED <<unit, progress>>

\* POST /admin/lesson/{id}/delete: its rows go with it; media files refuse it.
DeleteLesson(l) ==
    /\ Exists(l)
    /\ Edit(l, [Draft(1) EXCEPT !.is = "deleted"])
    /\ progress' = [progress EXCEPT ![l] = "none"]
    /\ UNCHANGED <<unit, rearranged>>

\* POST /admin/lesson/{id}/drip-rule
SetRule(l, rule) ==
    /\ Exists(l)
    /\ Edit(l, [lesson[l] EXCEPT !.rule = rule])
    /\ rearranged' = (rearranged \/ rule.mode \in {"open", "days"})
    /\ UNCHANGED <<unit, progress>>

\* POST /admin/lesson/{id}/access-override, NoOverride for action "clear"
SetOverride(l, override) ==
    /\ Exists(l) /\ enrolled
    /\ Edit(l, [lesson[l] EXCEPT !.override = override])
    /\ rearranged' = (rearranged \/ override.action = "unlock")
    /\ UNCHANGED <<unit, progress>>

\* POST /teacher/content/unit
CreateUnit(u) ==
    /\ unit[u].is = "none"
    /\ unit' = [unit EXCEPT ![u].is = "published"]
    /\ UNCHANGED <<lesson, progress, rearranged>>

\* POST /teacher/content/unit/{id}/toggle
ToggleUnit(u) ==
    /\ unit[u].is # "none"
    /\ unit' = [unit EXCEPT ![u].is = IF @ = "published" THEN "draft" ELSE "published"]
    /\ UNCHANGED <<lesson, progress, rearranged>>

\* POST /teacher/content/assign: to a unit, to another one, or to none
Assign(l, u) ==
    /\ Exists(l) /\ (u # NoUnit => unit[u].is # "none")
    /\ Edit(l, [lesson[l] EXCEPT !.unit = u])
    /\ UNCHANGED <<unit, progress, rearranged>>

\* POST /teacher/content/schedule of a lesson or of a unit
ScheduleLesson(l, window) ==
    /\ Exists(l)
    /\ Edit(l, [lesson[l] EXCEPT !.window = window])
    /\ UNCHANGED <<unit, progress, rearranged>>

ScheduleUnit(u, window) ==
    /\ unit[u].is # "none"
    /\ unit' = [unit EXCEPT ![u].window = window]
    /\ UNCHANGED <<lesson, progress, rearranged>>

\* _clone_unit_contents: drafts with the places and rules of their originals, made
\* in the order of these.  Schedules and overrides are not copied.
Originals(u) == {l \in Rows : lesson[l].unit = u}
Free         == {l \in Lesson : lesson[l].is = "none"}
Rank(k)      == Cardinality({j \in Free : j < k})

Copy(k, u, v) ==
    LET original == CHOOSE l \in Originals(u) :
                        Cardinality({j \in Originals(u) : Follows(l, j)}) = Rank(k)
    IN  [Draft(lesson[original].order) EXCEPT !.unit = v, !.rule = lesson[original].rule]

\* POST /teacher/content/unit/{id}/clone, into the same course: a new unit that is
\* not published.
CloneUnit(u, v) ==
    /\ unit[u].is # "none" /\ unit[v].is = "none"
    /\ Cardinality(Originals(u)) <= Cardinality(Free)
    /\ unit' = [unit EXCEPT ![v].is = "draft"]
    /\ lesson' = [k \in Lesson |->
                    IF k \in Free /\ Rank(k) < Cardinality(Originals(u)) THEN Copy(k, u, v) ELSE lesson[k]]
    /\ UNCHANGED <<progress, rearranged>>

Staff ==
    /\ edits < MaxEdits /\ edits' = edits + 1
    /\ UNCHANGED <<day, enrolled, rewarded, report>>
    /\ \/ AddLesson
       \/ \E l \in Lesson :
             \/ ToggleLesson(l)
             \/ DeleteLesson(l)
             \/ \E order \in 1..MaxOrder, is \in {"draft", "published"} : UpdateLesson(l, order, is)
             \/ \E k \in Lesson : MoveLesson(k, l)
             \/ \E rule \in Rule : SetRule(l, rule)
             \/ \E override \in Override : SetOverride(l, override)
             \/ \E u \in Unit \cup {NoUnit} : Assign(l, u)
             \/ \E window \in Window : ScheduleLesson(l, window)
       \/ \E u \in Unit :
             \/ CreateUnit(u)
             \/ ToggleUnit(u)
             \/ \E window \in Window : ScheduleUnit(u, window)
             \/ \E v \in Unit : CloneUnit(u, v)
    /\ <<lesson', unit'>> # <<lesson, unit>>

-----------------------------------------------------------------------------
(* The student, and time *)

\* Enrolment decides; here it comes and goes.
ChangeEnrolment ==
    /\ enrolled' = ~enrolled
    /\ UNCHANGED <<day, lesson, unit, progress, rewarded, edits, rearranged, report>>

NextDay ==
    /\ day < MaxDay /\ day' = day + 1
    /\ UNCHANGED <<enrolled, lesson, unit, progress, rewarded, edits, rearranged, report>>

\* POST /api/lesson/{id}/progress that says the lesson is finished
OpenReport(l) ==
    /\ report = 0 /\ Reachable(l)
    /\ report' = l
    /\ UNCHANGED <<day, enrolled, lesson, unit, progress, rewarded, edits, rearranged>>

\* The advisory lock, the row read and written, and the points, once
SaveReport ==
    /\ report # 0 /\ progress[report] # "none"
    /\ progress' = [progress EXCEPT ![report] = "done"]
    /\ rewarded' = IF Done(report) THEN rewarded ELSE rewarded \cup {report}
    /\ report' = 0
    /\ UNCHANGED <<day, enrolled, lesson, unit, edits, rearranged>>

\* No row: the new one raises before it is written.
FailReport ==
    /\ report # 0 /\ progress[report] = "none"
    /\ report' = 0
    /\ UNCHANGED <<day, enrolled, lesson, unit, progress, rewarded, edits, rearranged>>

Next ==
    \/ Staff \/ ChangeEnrolment \/ NextDay
    \/ \E l \in Lesson : OpenReport(l)
    \/ SaveReport \/ FailReport

Spec == Init /\ [][Next]_vars

-----------------------------------------------------------------------------
(* Properties *)

\* Types.
LessonsTypeOK ==
    /\ day \in 0..MaxDay /\ enrolled \in BOOLEAN
    /\ lesson \in [Lesson -> [is : {"none", "draft", "published", "deleted"}, order : Nat \ {0},
                             unit : Unit \cup {NoUnit}, rule : Rule, window : Window,
                             override : Override]]
    /\ unit \in [Unit -> [is : {"none", "draft", "published"}, window : Window]]
    /\ progress \in [Lesson -> {"none", "open", "done"}]
    /\ rewarded \subseteq Lesson /\ edits \in 0..MaxEdits /\ rearranged \in BOOLEAN
    /\ report \in Lesson \cup {0}

\* Unless the staff themselves put a lesson before others or open one by hand,
\* a student gets a lesson, by any of the doors, and finishes it only after all
\* published lessons before it: each door asks for the one lesson before
\* (access.py:134), and lessons are meanwhile deleted, hidden, appended, scheduled
\* and locked.
SeenInOrder ==
    ~rearranged => \A l \in Rows : Served(l) \/ Done(l) => \A k \in Before(l) : Done(k)

\* A student who may see a lesson and reports it finished has it recorded
\* (README.md:11 lists the tracking of lesson progress).  The code never makes
\* the row: see FailReport.
ReportsAreRecorded ==
    [][report # 0 /\ report' = 0 /\ Exists(report) => progress'[report] = "done"]_vars
=============================================================================
