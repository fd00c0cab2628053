------------------------------- MODULE Groups -------------------------------
(***************************************************************************)
(* Student groups, one course that may be given to them, and one live class *)
(* of that course (src/app/routers/community.py, services/community.py,     *)
(* services/user_admin.py, and the import and bulk pages of                 *)
(* routers/admin_users.py).                                                 *)
(*                                                                          *)
(* A group hands its course on to its members by their Enrolment rows, which*)
(* are written when a student joins or when the course is given.  Nothing is*)
(* locked, so such a request reads in one step and commits in another; the  *)
(* commit fails if a row it adds has appeared meanwhile.  The session does  *)
(* not flush before a query (autoflush=False, src/app/db.py:34): a query    *)
(* sees the rows of the database, not those the request is about to write.  *)
(* Requests that touch one row are one step.                                *)
(***************************************************************************)
EXTENDS Integers, FiniteSets

CONSTANTS Student, Group, NoGroup, Staff

\* Asserted by the modules that instantiate this one.
GroupsAssumption == NoGroup \notin Group

VARIABLES
    member,     \* StudentGroupMembership: the group of each student
    given,      \* GroupCourseAssignment: the groups the course is given to
    enrolled,   \* Enrollment rows of the course
    class,      \* status of the live class
    owner,      \* GroupLiveClassAssignment: the group it is reserved for
    attendance, \* LiveClassAttendance rows of the class
    slipped,    \* history: members that joined past the hand-over, see Commit
    req         \* requests of the staff

vars == <<member, given, enrolled, class, owner, attendance, slipped, req>>

Rows == {"none", "on", "off"}

\* A request that hands the course on: the student it moves (if any), its
\* group, whether it gives the course, and what it has read.
Idle == [pc |-> "idle"]
Handing == [pc : {"move", "page", "import", "give"}, student : Student, group : Group,
            sawGiven : BOOLEAN, saw : [Student -> Rows \cup {"-"}]]

Init ==
    /\ member = [s \in Student |-> NoGroup] /\ given = {}
    /\ enrolled = [s \in Student |-> "none"]
    /\ class = "none" /\ owner = NoGroup
    /\ attendance = [s \in Student |-> "none"]
    /\ slipped = {} /\ req = [a \in Staff |-> Idle]

Members(g) == {s \in Student : member[s] = g}

-----------------------------------------------------------------------------
(* Handing the course on *)

\* A request reads whether its group has the course, and the Enrolment rows of
\* those it hands the course to.
Hand(a, kind, s, g, heirs) ==
    /\ req[a] = Idle
    /\ req' = [req EXCEPT ![a] =
                [pc |-> kind, student |-> s, group |-> g, sawGiven |-> g \in given,
                 saw |-> [x \in Student |-> IF x \in heirs THEN enrolled[x] ELSE "-"]]]
    /\ UNCHANGED <<member, given, enrolled, class, owner, attendance, slipped>>

\* set_student_group flushes the membership before it looks at the group's courses.
Moved(s, g) == IF g \in given THEN {s} ELSE {}

\* Mutant of BeginMove: set_student_group without its loop over the courses.
BeginMoveOnly(a, s, g) == Hand(a, "move", s, g, {})

\* admin_students_bulk with a group (one student of the list)
BeginMove(a, s, g) == Hand(a, "move", s, g, Moved(s, g))

\* admin_students_import (one row of the file) with a group and with the course
BeginImport(a, s, g) == Hand(a, "import", s, g, {s})

\* admin_group_member: sync_group_course takes the members the database has, so
\* not the one that the page is adding.
BeginPage(a, s, g) == Hand(a, "page", s, g, IF g \in given THEN Members(g) ELSE {})

\* admin_group_course with action "assign"
BeginGive(a, s, g) == Hand(a, "give", s, g, Members(g))

\* The rows read as missing are added, those read as off are switched on, and
\* those read as on are not written.  The import adds the row of a student once
\* for the group and once for the course, and fails, if both hand it on.
Fits(q) ==
    /\ \A s \in Student : q.saw[s] = "none" => enrolled[s] = "none"
    /\ q.pc = "import" /\ q.sawGiven => q.saw[q.student] # "none"
    /\ q.pc = "give" /\ ~q.sawGiven => q.group \notin given

\* set_student_group, sync_group_course: what is written, now with the row of
\* GroupCourseAssignment if the request found none.
Commit(a) ==
    LET q == req[a]
        served == {s \in Student : q.saw[s] # "-"}
        passed == IF q.pc = "give" THEN Members(q.group)
                  ELSE {s \in {q.student} : q.pc = "page" \/ q.sawGiven # (q.group \in given)}
    IN  /\ q # Idle /\ Fits(q)
        /\ enrolled' = [s \in Student |-> IF q.saw[s] \in {"none", "off"} THEN "on" ELSE enrolled[s]]
        /\ member' = IF q.pc = "give" THEN member ELSE [member EXCEPT ![q.student] = q.group]
        /\ given' = IF q.pc = "give" /\ ~q.sawGiven THEN given \cup {q.group} ELSE given
        /\ slipped' = (slipped \cup passed) \ served
        /\ req' = [req EXCEPT ![a] = Idle]
        /\ UNCHANGED <<class, owner, attendance>>

Abort(a) ==
    /\ req[a] # Idle /\ ~Fits(req[a])
    /\ req' = [req EXCEPT ![a] = Idle]
    /\ UNCHANGED <<member, given, enrolled, class, owner, attendance, slipped>>

\* POST /admin/groups/{id}/member/{id}/remove, or the bulk page without a group
Remove(s) ==
    /\ member[s] # NoGroup
    /\ member' = [member EXCEPT ![s] = NoGroup]
    /\ UNCHANGED <<given, enrolled, class, owner, attendance, slipped, req>>

\* POST /admin/groups/{id}/course with action "remove": the rows stay.
TakeBack(g) ==
    /\ given' = given \ {g}
    /\ UNCHANGED <<member, enrolled, class, owner, attendance, slipped, req>>

\* Enrolments come and go in other ways too (Enrolment); rows are never deleted.
EnrolElsewhere(s) ==
    /\ enrolled' = [enrolled EXCEPT ![s] = IF @ = "on" THEN "off" ELSE "on"]
    /\ UNCHANGED <<member, given, class, owner, attendance, slipped, req>>

-----------------------------------------------------------------------------
(* The live class *)

\* The checks of student_live_class_join, and the students of live_class_student_query
MayJoin(s) == enrolled[s] = "on" /\ (owner # NoGroup => member[s] = owner)
Eligible == {s \in Student : enrolled[s] = "on"} \cap (IF owner = NoGroup THEN Student ELSE Members(owner))

CreateClass ==
    /\ class = "none" /\ class' = "scheduled"
    /\ UNCHANGED <<member, given, enrolled, owner, attendance, slipped, req>>

\* scheduled stands for live and completed too.
SetStatus(status) ==
    /\ class # "none" /\ class' = status
    /\ UNCHANGED <<member, given, enrolled, owner, attendance, slipped, req>>

\* POST /admin/groups/{id}/live-class
Reserve(g, action) ==
    /\ class # "none" /\ g \in given
    /\ owner' = CASE action = "assign" -> g
                  [] owner = g -> NoGroup
                  [] OTHER -> owner
    /\ UNCHANGED <<member, given, enrolled, class, attendance, slipped, req>>

\* POST /live-class/{id}/join: neither the status nor the time is looked at.
Join(s) ==
    /\ class # "none" /\ MayJoin(s)
    /\ attendance' = [attendance EXCEPT ![s] = "present"]
    /\ UNCHANGED <<member, given, enrolled, class, owner, slipped, req>>

\* POST /admin/live-classes/{id}/attendance
Mark(s, status) ==
    /\ class # "none" /\ s \in Eligible
    /\ attendance' = [attendance EXCEPT ![s] = status]
    /\ UNCHANGED <<member, given, enrolled, class, owner, slipped, req>>

\* What the staff do with groups; only these steps touch more than one row.
HandOver ==
    \E a \in Staff :
        \/ \E s \in Student, g \in Group :
              BeginMove(a, s, g) \/ BeginPage(a, s, g) \/ BeginImport(a, s, g) \/ BeginGive(a, s, g)
        \/ Commit(a)
        \/ Abort(a)

Simple ==
    \/ \E s \in Student : Remove(s) \/ EnrolElsewhere(s)
    \/ \E g \in Group : TakeBack(g)

\* What the staff and the students do with the class; HandOver reads none of it.
ClassStep ==
    \/ CreateClass
    \/ \E status \in {"scheduled", "cancelled"} : SetStatus(status)
    \/ \E g \in Group, action \in {"assign", "remove"} : Reserve(g, action)
    \/ \E s \in Student : Join(s) \/ \E status \in {"present", "absent"} : Mark(s, status)

Next == HandOver \/ Simple \/ ClassStep

Spec == Init /\ [][Next]_vars

-----------------------------------------------------------------------------
(* Properties *)

\* Types.  A class is reserved only once it exists.
GroupsTypeOK ==
    /\ member \in [Student -> Group \cup {NoGroup}] /\ given \subseteq Group
    /\ enrolled \in [Student -> Rows]
    /\ class \in {"none", "scheduled", "cancelled"} /\ owner \in Group \cup {NoGroup}
    /\ (owner # NoGroup => class # "none")
    /\ attendance \in [Student -> {"none", "present", "absent"}]
    /\ slipped \subseteq Student
    /\ \A a \in Staff : req[a] = Idle \/ req[a] \in Handing

\* Every member of a group was enrolled in the group's course, whichever of the
\* pages moved the student and whichever came first, the member or the course
\* (sync_group_course, services/community.py:45: "Activate a course for a whole
\* group"), except for those who were added on the group's own page, which looks
\* for its members before it has written the new one, and those added while the
\* course was being given.
MembersEnrolled ==
    \A s \in Student : member[s] \in given /\ enrolled[s] = "none" => s \in slipped
=============================================================================
