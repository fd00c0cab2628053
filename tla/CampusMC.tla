------------------------------ MODULE CampusMC ------------------------------
(***************************************************************************)
(* A TLC instance of the components around a course: Lessons, Coursework,   *)
(* Certificates, OfflineGrants, Streams, Media, Groups, Questions, Notices, *)
(* Attendance and Streaks.  They write no rows in common, so each is        *)
(* explored on its own: "part" says which one moves, and the others stay at *)
(* a fixed start.                                                           *)
(***************************************************************************)
EXTENDS Lessons, TLC

CONSTANTS
    Request,                \* interchangeable requests
    Nobody,
    MaxAnswers,             \* Coursework
    Device, Limits, Terms, MaxGrants,   \* OfflineGrants
    Video,                  \* Streams
    Student, Group, NoGroup,            \* Groups
    Question, Points,       \* Questions
    Notice, Life, MaxPending, Workers,  \* Notices
    Pupil, LastDate, LastVisit          \* Attendance, Streaks

VARIABLES
    part,
    work, offer, row, sub, ticked, paid, texts, lock, sent, teacher,
    results, policy, valid, revoked, views,
    today, offline, grants, peak, crossed, asks,
    remote, clip, profile, excused, uploads,
    way, content, ticket, object, asset, key, erased, late, files,
    member, given, access, class, owner, attendance, slipped, desk,
    on, paper, used, attempt, disturbed, edit,
    notices, cache, blurred, up, phone, pool, pushed, calls,
    date, enabled, dates, mark, came,
    now, streak, visited, backdated, visit

coursework   == <<work, offer, row, sub, ticked, paid, texts, lock, sent, teacher>>
certificates == <<results, policy, valid, revoked, views>>
licences     == <<today, offline, grants, peak, crossed, asks>>
streams      == <<remote, clip, profile, excused, uploads>>
media        == <<way, content, ticket, object, asset, key, erased, late, files>>
groups       == <<member, given, access, class, owner, attendance, slipped, desk>>
questions    == <<on, paper, used, attempt, disturbed, edit>>
inbox        == <<notices, cache, blurred, up, phone, pool, pushed, calls>>
presence     == <<date, enabled, dates, mark, came>>
streaks      == <<now, streak, visited, backdated, visit>>

W == INSTANCE Coursework WITH req <- sent
D == INSTANCE Certificates WITH req <- views
G == INSTANCE OfflineGrants WITH day <- today, policy <- offline, req <- asks
S == INSTANCE Streams WITH lesson <- clip, req <- uploads
M == INSTANCE Media WITH row <- asset, lock <- key, req <- files
C == INSTANCE Groups WITH Staff <- Request, enrolled <- access, req <- desk
Q == INSTANCE Questions WITH Teacher <- Request
N == INSTANCE Notices WITH rows <- notices, req <- calls
A == INSTANCE Attendance
K == INSTANCE Streaks WITH Visit <- Request, LastDate <- LastVisit, date <- now

ASSUME PartsAssumption ==
    /\ W!CourseworkAssumption /\ G!OfflineAssumption /\ S!StreamsAssumption /\ M!MediaAssumption
    /\ C!GroupsAssumption /\ Q!QuestionsAssumption /\ N!NoticesAssumption
    /\ A!AttendanceAssumption /\ K!StreaksAssumption

Symmetry == {f @@ g : f \in Permutations(Request), g \in Permutations(Video)}

MCInit ==
    /\ part \in {"lessons", "coursework", "certificates", "licences", "streams", "media",
                 "members", "classes", "questions", "inbox", "presence", "streaks"}
    /\ Init /\ W!Init /\ D!Init /\ G!Init /\ S!Init /\ M!Init /\ C!Init /\ Q!Init /\ N!Init
    /\ A!Init /\ K!Init
    /\ \A l \in FirstLessons : progress[l] = IF part = "lessons" THEN "open" ELSE "none"
    /\ part # "coursework" => work = "homework"
    /\ part # "media"      => way = "browser" /\ content = "sound"
    /\ part # "questions"  => used = {}

\* Bounds of Streams: at most one update is under way, and while the history excuses
\* something, only where the profile would let it publish.
Updating(r) == uploads[r].op \in {"update", "checked"}
FewUpdates ==
    \A a, b \in Request :
        /\ Updating(a) /\ Updating(b) => a = b
        /\ Updating(a) /\ excused => profile.status = "ready"

MCNext ==
    \/ /\ part = "lessons" /\ Next
       /\ UNCHANGED <<part, coursework, certificates, licences, streams, media,
                      groups, questions, inbox, presence, streaks>>
    \/ /\ part = "coursework" /\ W!Next
       /\ UNCHANGED <<part, vars, certificates, licences, streams, media,
                      groups, questions, inbox, presence, streaks>>
    \/ /\ part = "certificates" /\ D!Next
       /\ UNCHANGED <<part, vars, coursework, licences, streams, media,
                      groups, questions, inbox, presence, streaks>>
    \/ /\ part = "licences" /\ G!Next
       /\ UNCHANGED <<part, vars, coursework, certificates, streams, media,
                      groups, questions, inbox, presence, streaks>>
    \/ /\ part = "streams" /\ S!Next /\ FewUpdates'
       /\ UNCHANGED <<part, vars, coursework, certificates, licences, media,
                      groups, questions, inbox, presence, streaks>>
    \/ /\ part = "media" /\ M!Next
       /\ UNCHANGED <<part, vars, coursework, certificates, licences, streams,
                      groups, questions, inbox, presence, streaks>>
    \/ /\ \/ part = "members" /\ (C!HandOver \/ C!Simple)
          \/ part = "classes" /\ C!Next /\ \A a, b \in Request : C!Idle \notin {desk'[a], desk'[b]} => a = b
       /\ UNCHANGED <<part, vars, coursework, certificates, licences, streams,
                      media, questions, inbox, presence, streaks>>
    \/ /\ part = "questions" /\ attempt.is # "graded" /\ Q!Next   \* a grade is final
       /\ UNCHANGED <<part, vars, coursework, certificates, licences, streams,
                      media, groups, inbox, presence, streaks>>
    \/ /\ part = "inbox" /\ N!Next
       /\ UNCHANGED <<part, vars, coursework, certificates, licences, streams,
                      media, groups, questions, presence, streaks>>
    \/ /\ part = "presence" /\ A!Next
       /\ UNCHANGED <<part, vars, coursework, certificates, licences, streams,
                      media, groups, questions, inbox, streaks>>
    \/ /\ part = "streaks" /\ K!Next
       /\ UNCHANGED <<part, vars, coursework, certificates, licences, streams,
                      media, groups, questions, inbox, presence>>

MCSpec == MCInit /\ [][MCNext]_<<part, vars, coursework, certificates, licences, streams, media,
                                 groups, questions, inbox, presence, streaks>>

\* The type invariant of the module that moves; the others are at their start.
\* That of Certificates also says that a student gets at most one certificate
\* for a course.
CampusTypeOK ==
    CASE part = "lessons"      -> LessonsTypeOK
      [] part = "coursework"   -> W!CourseworkTypeOK
      [] part = "certificates" -> D!CertificatesTypeOK
      [] part = "licences"     -> G!OfflineTypeOK
      [] part = "streams"      -> S!StreamsTypeOK
      [] part = "media"        -> M!MediaTypeOK
      [] part \in {"members", "classes"} -> C!GroupsTypeOK
      [] part = "questions"    -> Q!QuestionsTypeOK
      [] part = "inbox"        -> N!NoticesTypeOK
      [] part = "presence"     -> A!AttendanceTypeOK
      [] part = "streaks"      -> K!StreaksTypeOK

\* The properties of the modules that are instances, under their own names.
LocksSuffice              == part = "coursework" => W!LocksSuffice
GradeMatchesAnswer        == part = "coursework" => W!GradeMatchesAnswer
OfflineDevicesWithinLimit == part = "licences" => G!OfflineDevicesWithinLimit
PublishedWasReady         == part = "streams" => S!PublishedWasReady
MissingObjectExplained    == part = "media" => M!MissingObjectExplained
MembersEnrolled           == part = "members" => C!MembersEnrolled
GradedAsHandedOut         == part = "questions" => Q!GradedAsHandedOut
BadgeExplained            == part = "inbox" => N!BadgeExplained
AttendanceExplained       == part = "presence" => A!AttendanceExplained
StreakExplained           == part = "streaks" => K!StreakExplained
=============================================================================
