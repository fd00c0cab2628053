# A TLA+ model of the LMS backend

The repository is a FastAPI application over PostgreSQL and Redis for an online
school: students pay for or are enrolled in courses, watch lessons, sit quizzes,
and the staff manage all of it and message the students.  The code that can go
wrong in ways a unit test hardly reaches is the code where *several requests or
workers meet on the same rows*: handlers protect themselves with PostgreSQL
advisory locks (`_pg_xact_lock(db, 55xx, ...)`), with `SELECT ... FOR UPDATE`,
with unique constraints, or not at all; background work goes through a Redis
stream read by a worker thread in every web process.  These modules model those
protocols and the state of the courses they protect, TLC checks them on small
instances, and TLAPS proves what TLC found to hold, but for liveness, for every instance.

Paths below are relative to `src/`.

## 1. Inventory

| Component | State | Operations | What makes it correct |
|---|---|---|---|
| Background task queue, `app/tasks.py` | Redis stream, consumer group (last-delivered ID, pending entries), dead-letter stream; a worker's local batch | `enqueue`, `enqueue_many`, `run_worker` (claim stale, read), `_process_message` (handle, acknowledge, delete, retry or bury) | no accepted job is lost; a job is retried at most `MAX_ATTEMPTS` times and then buried; what is acknowledged is not handed out again; every job is eventually attempted |
| External deliveries, `app/worker.py`, `app/routers/communications.py`, `app/services/communications.py` | `CommunicationDelivery` rows | create a campaign (commit rows, then enqueue), handler (load, webhook, commit verdict), recovery at the start of an embedded worker | every row gets one verdict that is true; messages are not repeated without a fault; no row is stranded |
| Quiz attempts, `app/routers/learning_runtime.py`, `app/api_v1_learning.py`, `app/routers/assessments_admin.py` | `QuizAttempt`, `PointLedger`, the `Quiz` row; lock 5507 | open (expire, reuse, create), submit (refuse, expire, grade), admin publishes and changes settings | one attempt in progress; no more than allowed; graded once and in time; points exactly once; a submission stays one |
| Commerce, activation codes, enrolment, `app/routers/commerce.py`, `app/services/commerce.py`, `app/routers/activation_codes.py`, `app/services/activation_codes.py`, `app/routers/admin_users.py`, `app/payment.py` | `PaymentTransaction`, `Subscription`, `Coupon`, `CouponRedemption`, `ActivationCode`, `ActivationRedemption`, `Enrollment`; row locks, lock 5503 | free checkout, paid checkout, payment callback, redeem a code, enrol by hand, grant, extend, change a subscription | one subscription per payment; coupons and codes within their limits; who paid is in, nobody else |
| Accounts, `app/services/auth.py`, `app/routers/auth.py`, `app/security.py`, `app/request_context.py`, `app/routers/admin_security.py` | `User` (password, MFA, failed logins, lockout), `Device`, `ActiveSession`, `OTPChallenge`; lock 5501 | login, OTP, MFA, `establish_session`, logout, password change and reset, block or unblock a device, revoke a session | one live session and at most `MAX_DEVICES` devices for a student; no session outlives its password; a lock lasts its time; old codes are spent |
| Lessons, `app/access.py`, `app/routers/courses.py`, `app/routers/academic_content.py`, `app/api_v1_lesson.py`, `app/api_v1_interactions.py`, `app/routers/learning_runtime.py` | `Lesson`, `ContentUnit`, schedules, `LessonDripRule`, `LessonAccessOverride`, `LessonProgress`; lock 5505 | add, update, toggle, move, delete, clone, schedule, rule, override; every page that serves a lesson; the progress report | lessons open in their order, behind every door; what is finished is recorded |
| Homework, checkpoints, tasks, `app/routers/learning_runtime.py`, `app/api_v1_learning.py`, `app/api_v1_interactions.py`, `app/routers/assessments_admin.py` | `Homework`, `HomeworkSubmission`, `CheckpointAttempt`, `RevisionTaskProgress`, `PointLedger`; locks 5506, 5508, 5521 | hand in, withdraw, grade, request a revision | one row and one reward for an item; a mark belongs to its text |
| Certificates, `app/services/learning_runtime.py`, `app/routers/certificates.py` | `CourseCompletionPolicy`, `CourseCertificate` | issue on a view, revoke, change the policy | one certificate for a student and a course |
| Offline licences, `app/routers/learning_runtime.py`, `app/routers/courses.py` | `OfflineLessonPolicy`, `OfflineGrant` | grant, change of policy, expiry | no more devices than the policy ever allowed |
| Videos, `app/routers/media.py`, `app/cloudflare_upload.py`, `app/routers/courses.py` | `Lesson.video_url`, `Lesson.published`, `LessonVideoProfile`, the videos at Stream; lock 5531 | init, finalize, status; update, toggle, edit of the profile | what is published has been processed |
| Documents, `app/routers/media.py`, `app/storage.py`, `app/services/media.py` | `MediaAsset`, objects in R2; lock 5530 | direct upload with finalize, upload through the server, link, delete | a row's object exists |
| Groups, `app/services/community.py`, `app/routers/community.py`, `app/services/user_admin.py` | `StudentGroupMembership`, `GroupCourseAssignment`, `LiveClass`, `LiveClassAttendance` | move a student, give or take a course, classes and their attendance | members of a group have its courses |
| Attendance, `app/services/community.py`, `app/services/student_activity.py` | `StudentAttendance`, the rows that stand for activity | activity, mark, totals, filters, weekly report | all views agree, and agree with what happened |
| Quiz grading, `app/services/quiz_grading.py`, `app/routers/assessments_admin.py` | `Question`, `QuizQuestionSetting`, `Quiz.published` | add, change, delete, weigh questions; grade | a student is graded by the paper handed out |
| Notifications, `app/services/communications.py`, `app/cache.py`, `app/request_context.py`, `app/push.py` | `Notification`, the cached number of unread ones, the push executor, `PushDevice` | campaign, announcement, read all, page, push | the number is that of the rows; only what is committed is pushed |
| Streaks, `app/services/student_rewards.py`, `app/routers/english_tools.py` | `StudentStreak`; lock 5509 | visit | the streak counts the days in a row |
| Watermark, support, discussions, remediation, reports, dashboards, categories, parents, home page, PWA | small tables | CRUD, aggregation | last writer wins, or read-only |
| Start-up, `app/main.py`, `app/db.py`, `app/schema_*.py`, `app/seed.py`, `app/deploy_prepare.py` | schema | migrate and seed under advisory locks, start the worker | once per deployment |

**Interactions.**  A campaign of the staff commits rows and hands their IDs to the
queue; a worker takes a job, reads the row, calls the provider, writes the row and
acknowledges the job.  A payment callback, a code redemption, a free checkout and
the staff all write the same `Enrollment` row, which `access.py` reads on every
lesson and quiz.  The quiz of the browser and of API v1 are two implementations
over the same rows under one lock.  Points go to one ledger from progress,
homework, checkpoints and quizzes.  The staff change lessons, units, groups and
questions while students read them; a group hands its courses on by writing
`Enrollment` rows.  Stream, R2, FCM and the SMS provider answer late or never.

**Hard behaviours.**  Several web processes (`WEB_CONCURRENCY`, 2 by default in
`container-start.sh`), each with request threads and a worker thread; processes
that exit between two commits; Redis that goes away between two commands or
executes one whose reply is lost; payment callbacks repeated, delayed and
reordered; rows read without a lock and written later; locks taken after the
read they should protect.  `PROJECT.json` lists each at its line.

## 2. Modules

| Module | Models |
|---|---|
| `TaskStream` | the queue and its workers; the handler returns or raises |
| `Deliveries`, `DeliveriesMC` | rows, handler, campaigns, recovery, processes; composes `TaskStream` by INSTANCE and implements it |
| `QuizAttempts`, `QuizAttemptsMC` | one student at one quiz through any mix of browsers and API clients |
| `Enrolment`, `EnrolmentMC` | every way into one course |
| `Accounts` | one account: logins, devices, sessions, password and MFA |
| `Credentials` | its failed-login counter and its one-time codes |
| `AccountsMC` | runs `Accounts` and `Credentials` side by side |
| `Lessons` | the lessons of a course and what a student may see of them |
| `Coursework` | one homework, checkpoint or task, and its teacher |
| `Certificates`, `OfflineGrants` | a student's certificate; a student's offline licences for a lesson |
| `Streams`, `Media` | the video of a lesson; a document of a lesson |
| `Groups` | groups, a course they are given, a live class |
| `Questions` | the questions of a quiz against an attempt |
| `Notices` | a student's notifications, their cached number, their push |
| `Attendance`, `Streaks` | attendance by day; a student's streak |
| `CampusMC` | runs the eleven modules from `Lessons` to `Streaks`, each by itself |
| `QuizAttemptsProofs`, `EnrolmentProofs`, `TaskStreamProofs`, `DeliveriesProofs` | the inductive invariant of the module they are named after, and the theorems (section 4) |
| `AccountsProofs` | those of `Accounts`, of `Credentials`, and of both together |
| `CourseProofs` | those of `Coursework`, `Certificates`, `OfflineGrants` and `Lessons`; that the parts of `CampusMC` are alone |
| `ContentProofs` | those of `Streams`, `Media`, `Groups` and `Questions` |
| `StudentProofs` | those of `Notices`, `Attendance` and `Streaks`; `CampusMC` as a whole |

### TaskStream

The variables up to `dead` are Redis (`stream`, `added`, `lastRead`, `pel`,
`stale`), `cur` and `mail` are the local variables of `run_worker`, `pc` is where
it is.  Each Redis command is one action, since another worker or an outage fits
between any two: `Read` is XREADGROUP `>`, `Claim` XAUTOCLAIM, `Ack`/`Del` the
XACK/XDEL after success, `FailedAck`/`FailedDel` those of the except branch, whose
errors are swallowed, `Again` the XADD of the retry or of the dead letter.  A
command may take effect and still raise (`Answered`), which the code treats as a
failed attempt.  `GoStale` is time: an entry that has been pending for
`CLAIM_IDLE_MS`, whether its owner exited or only is slow.  `enqueue_many` uses a
pipeline that is not a transaction, so an outage may keep a prefix.

### Deliveries

A worker process is also the web process that serves the staff's requests, so
`Exit` ends both.  `CreateCampaign` is the commit of the rows and
`EnqueueCampaign` what follows it; `LoadQueued`, `Recover` and `RunWorker` are the
embedded start (`_run_embedded`), which passes over a recovery that raises
(`RecoveryFails`); `abandoned` is the history of the rows that only another start
can help: their job was buried, or the last start left them out.  `Load`, `PostWebhook`, `CommitVerdict` (or
`Skip`, or `DatabaseError`) are the handler, whose transactions are separate
steps since nothing locks the row.  The handler's last step is `TaskStream`'s
`HandlerReturns` or `HandlerRaises`, and `ImplementsQueue` checks that the whole
composition implements `TaskStream`'s specification under the mapping that
INSTANCE gives.  The handler also accepts rows of status "retry" (worker.py:33);
nothing in the program writes it.

### QuizAttempts

`Open` is the first half of `quiz_page` (or of `quiz_attempt` in
`api_v1_learning.py`): the quiz and the attempt named by the cookie are read
*before* the lock.  `Expire` writes what `Open` decided; `Lock` is lock 5507;
`Reuse`, `Count`, `Create` are the critical section, divided where the row of the
previous attempt is locked and the count is taken.  `OpenSubmit`, `Refuse`,
`TooLate`, `Check`, `Grade` are `submit_quiz` and `quiz_submit`.  `RowLocked`
keeps `Expire` from overtaking a row lock.  The settings a request has read are
its view to its end (`limit`, `allowed`), since sessions keep loaded rows
(`expire_on_commit=False` in db.py); reads FOR UPDATE are the first load of their
row, so they see the committed one.  Publication also stands for the schedules and
the enrolment, which only refuse a request.

### Enrolment

A request locks, reads, and writes everything at its commit; so an action that
ends a request writes all that its handler flushed, and `Abort` writes nothing.
An insert that would break a unique constraint is a commit that is not enabled.
`Enrol` is "insert, or set active, as read", with SQLAlchemy's rule that a column
set to the value it was read with is not written: this is what makes the lost
update of `PayingLetsIn` possible.  `checkout_start` is `StartFree` and
`ActivateFree`, or `StartPayment` and then `IntentionMade` or `IntentionFailed`
(the pending transaction is committed before the provider is called, which gives
the coupon's lock back: a request that waits for the provider holds nothing and is
identified with its transaction); `paymob_webhook` is `Decline`, or `Confirmation`,
`LockStudent`, `LockCoupon`, `Confirm`, which follow its locks in order.  Prices,
provider references, end dates of subscriptions and switching coupons or codes off
are left out.

### Accounts and Credentials

`Login`, `MfaVerify`, `OtpLogin` let a request into `establish_session`: `Enter` is
its critical section under lock 5501, where devices are counted and the sessions to
replace are found, and `Establish` its commit.  `Sweep` is an UPDATE that revokes
the live sessions it finds (password change and reset, MFA reset, a device or an
account switched off) and `CommitSweep` makes it visible; a session inserted in
between escapes it, which is the exception `raced` in `OldPasswordGone`.  A login
with the right password may also hash it once more (`rehash`) and commits that with
its session, or in `Preauthorize` and `Refuse`: after a change that overlaps it the
older password is valid again, `revived`, and the sessions of later logins with it
are an exception too.  `versions` numbers the passwords ever set, `password` is the
one that is accepted.  `HashFree` is the row lock a flush for a new device takes.
`Credentials` leaves out who logs in: it has the counter with its read (`Password`)
and its two writes (`Wrong`, `Right`), and the codes with `Supersede`, `Insert`,
`Send`, `ReadCode`, `Verify`.  `LockStands` says exactly when a lock can be taken
away before its time: SQLAlchemy writes `locked_until = NULL` only if the value read
was not NULL.

### Lessons

The staff's pages are the actions up to `Staff`, one step each since each touches
one row.  `Unlocked` is `lesson_access_state`, `Reachable` and `StudentLesson` the
two sets of questions asked before a lesson is served, and `LessonPage`,
`ProtectedVideo`, ..., `Interaction` the doors, each with the questions it asks: the
module's point is that they agree.  `SeenInOrder` quantifies over all of them.
`OpenReport`, `SaveReport` are `lesson_progress`, and `FailReport` is what it does
for a student who has no row: the default of `watched_seconds` is not there before
the flush.

### Coursework, Certificates, OfflineGrants

`Coursework` has one work of any of the three kinds, since different works share no
row and no lock; what differs between the kinds and between browser and API (a row
lock or not) is in `Read` and the three saves.  `Look`, `Post`, `Grade` are the
teacher, who reads the page, posts, and writes without any lock.  In
`Certificates`, `Issue` and `Insert` are the two reads of
`issue_course_certificate`, with nothing but the unique constraint between them; in
`OfflineGrants` a request counts in one step and inserts in another.

### Streams and Media

`InitStream` is one step under lock 5531; `AskFinalize` and `AskStatus` read the
lesson and ask Stream before the lock, `Finalize` and `RefreshStatus` write after
it, only the columns whose value is another one.  `update_lesson` has no lock at all
and three steps: `OpenUpdate` reads the lesson, `CheckUpdate` the profile, and
`CommitUpdate` writes what differs from what was read, so that a finalization in
between has its unprocessed video published.  The toggle and the form of the profile
read before they write as well, but are one step each: whatever they publish or set
is excused, and a stale toggle writes the value that is there.  `excused` is the
history of the ways in which a lesson gets past the check: the toggle, an address
pasted, a status set by hand, a read overtaken.  `Media` follows one
storage key: `Validate`, `Lock`, `Insert` are a finalization, `Discard` and
`LookAgain` what it does when its validation or its commit fails, `Erase` and `Drop`
a deletion, `SaveUpload` the upload through the server and `Link` a row without an
object.  `late` is the history of commits that come after another request's
decision to remove the object.

### Groups, Questions, Notices

The pages of `Groups` begin with a read (`BeginMove`, `BeginImport`, `BeginPage`,
`BeginGive`) and end with `Commit`; what they differ in is which members they see,
given that the session does not flush before a query.  `Questions` divides each of
the six changes of a quiz into the check that it is unpublished and the write.
`Notices` deletes the cached number before the commit, as the code does, and a page
counts in one step and stores in another; `blurred` is the history of the races and
outages that make the number wrong for at most its time to live.  The executor
(`pool`) has `MaxPending` slots, and the hooks run after the commit only.

### Attendance and Streaks

Both are a function of history that the code computes from what its rows have kept:
`came` and `visited` are the history, `AttendanceExplained` and `StreakExplained`
compare.  `Metrics`, `Listed`, `Resolved` and `Weekly` are the four separate
computations of the same status in the code.

## 3. Runs

| Run | Checks | Result |
|---|---|---|
| `TaskStream` | `TypeOK`, `UnfailedJobsSurvive`, `AttemptsAreEarned`, `JobsAreAttempted`, `JobsSettle` | hold: two workers, one job, two exceptions, one exit, one outage |
| `TaskStreamCrash` | `InFlightJobsSurvive` | **violated** (section 6) |
| `DeliveriesPair` | `DeliveriesTypeOK`, `SentWasAccepted`, `QueuedRowHasWork`, `ImplementsQueue` | hold: two workers on one row, a database error |
| `DeliveriesSolo` | `RepostsNeedFaults`, `QueuedRowsSettle` | hold: one worker, two rows, an exit, two exceptions, one row recovered at a start |
| `DeliveriesOutage` | `QueuedRowsSettle` | **violated** with an outage of Redis |
| `DeliveriesTwice` | `OneWorkerPerItem` | **violated** with two workers |
| `QuizAttempts` | `TypeOK`, `OneLiveAttempt`, `AttemptsWithinAllowance`, `PointsMatchGrades`, `GradedInTime` | hold: two requests, two attempts, limits 1..2, times 0..2 |
| `QuizOverwrite` | `SubmittedStaysSubmitted` | **violated** |
| `Enrolment` | `TypeOK`, `OneSubscriptionPerPayment`, `CouponCounted`, `CodeWithinLimit`, `EnrolledIffEntitled`, `PayingLetsIn` | hold: two students, two requests, two transactions, one use of coupon and code |
| `Accounts` | `AccountsTypeOK`, `OneLiveSession`, `DevicesWithinLimit`, `OldPasswordGone`, `LockStands`, `OlderCodesSpent` | hold: two requests, two browsers, two sessions, three passwords, one unblocking; three codes of two attempts |
| `Campus` | `CampusTypeOK`, `SeenInOrder`, `LocksSuffice`, `GradeMatchesAnswer`, `OfflineDevicesWithinLimit`, `PublishedWasReady`, `MissingObjectExplained`, `MembersEnrolled`, `GradedAsHandedOut`, `BadgeExplained`, `AttendanceExplained`, `StreakExplained` | hold: two requests in each part, bounds below |
| `ProgressLost` | `ReportsAreRecorded` | **violated** |

Every property of a passing run comes with a mutant of one definition, a bug the
code could plausibly have (a dropped lock, a forgotten status check, an
acknowledgement too early), that TLC refutes under the same configuration; the
mutants stand next to the definition they change.

Many properties of `Accounts` and `Campus` have the form "it holds, except when
...": the code does not lock there, and the exception names exactly the overlap or
the act of the staff that breaks it.  The exceptions are history variables set where
the overlap happens, so that a bug anywhere else still violates the property; each
property's comment lists them.

**One run for eleven modules.**  The modules of `CampusMC` write no rows in common
(what one needs of another is an input of its own: the enrolment of `Lessons`, the
results of `Certificates`).  A product of their states would show nothing that the
modules alone do not show; the variable `part`, chosen at the start, says which of
them moves.  `AccountsMC` does the same with its two, one at its start while the
other moves.

**Bounds and why they are enough.**  The protocols are symmetric in their actors
and each conflict is between two of them, so two workers, requests or students
show every conflict.  `MaxAttempts = 2` has one retry and one burial.  `MaxJobs`
bounds what is accepted; in `Deliveries` `BoundsAssumption` makes sure it never
stops a producer.  `MaxRaises`, `MaxCrashes` and `MaxOutages` are budgets of
faults: with one exit and two exceptions an exit hits every place of both
attempts, and in `DeliveriesSolo` two exceptions bury a job.  `MaxAllowance = 2` lets a quiz run out and an attempt be replaced;
`MaxLimit = 2` lets the staff shorten and lengthen the time while a request holds
the old value; `MaxTime = 2` passes every deadline of a first attempt.  In
`Enrolment` one use of the coupon and two students make the coupon run out, and
two transactions let one student pay twice or two compete.  `DeliveriesSolo` has
one worker on purpose: with two, a message is repeated without any fault (see
`OneWorkerPerItem`).  It reads and claims one message at a time, and recovers one row
of two, so that the limit is reached; batches of two are those of `TaskStream` and
`DeliveriesPair`.

In `Accounts` one device is allowed and there are two browsers, so the limit is
reached by the first login; two sessions are two live at once, or one begun under
each of two passwords; three passwords let an older one come back and be ended by the
next change; `Bounded` keeps the history `unblocks` at one.
`MaxFails = 2` and `MaxAttempts = 2` stand for 8 and 5: one failure before the last.
In `Campus`, `Lessons` starts with three published lessons whose progress is open,
and a fourth that can be added or cloned; `MaxEdits = 2` changes of the staff,
with `MaxDay = 1` and `MaxOrder = 2`, put a rule, an override or a schedule beside
a move or a deletion.  `Coursework` has two texts, one to replace the
other; `OfflineGrants` three devices under limits of one and two; `Streams` two
videos, one to replace the other; `Groups` one student and two groups to move
between; `Questions` two questions of weights one and two, up to the
grade, which nothing changes afterwards; `Notices` two rows and a
life of one tick; `Attendance` two students and two days; `Streaks` six days, enough
for two streaks with a gap.  In the part "classes", where requests touch one row
each, at most one request of a page is under way.  In the part "streams" at most one
request is an update of the lesson, and while the history already excuses something,
only where the profile says "ready" (`FewUpdates`): elsewhere it finds nothing that it
may publish.  The theorem has neither bound.

**Deadlock** is checked in `QuizAttempts`, `Enrolment` and `Accounts`.  The
configurations of `TaskStream` and `Deliveries` say CHECK_DEADLOCK FALSE, since
workers poll an empty stream for ever: there, once the budgets are spent, no step
changes the state.  Those of `Campus` and `ProgressLost` say so because their clocks
and counters are bounded: a part stops when its last day is over, its answers are
written or its document is gone.

**Symmetry.**  Requests, students, browsers, sessions, workers and videos are model
values under symmetry where nothing orders them; `TaskStream` and `DeliveriesSolo`, with
their liveness properties, use none.

**Fairness** is assumed in `TaskStream` and `Deliveries` only: a worker's loop
runs on (`while not stop_event`), threads of a request finish, a process that
exits is restarted (`restartPolicyType = "ON_FAILURE"` with three retries in
`railway.toml`; the runs have at most one exit), an outage ends, and time passes
until a pending entry is stale.  All are weak fairness.  No step of the
environment that could simply not happen is fair: no producer, exception, exit or
outage.  The other modules assume none: their requests may abort at any point.

## 4. Proofs

Every theorem holds for every value of the constants that the named assumptions
allow: any number of requests, workers, students, rows, days, any limits.  TLC checks
the same properties on the runs' instances.  Hardly any of them is inductive by
itself; what each proof adds is what the code relies on between two of its steps.

| Module | Theorems (the property each states) | Assumptions |
|---|---|---|
| `QuizAttemptsProofs` | `TypeCorrect`, `AtMostOneLive` (`OneLiveAttempt`), `AllowanceKept` (`AttemptsWithinAllowance`), `GradedOnce` (`PointsMatchGrades`), `DeadlinesKept` (`GradedInTime`), `Invariance` | `QuizAssumption` |
| `AccountsProofs` | `OneLiveSessionHolds`, `DevicesWithinLimitHolds`, `OldPasswordGoneHolds`; of `Credentials`: `OlderCodesSpentHolds`, `LockStandsHolds` (an action property); `AccountsTypes` for both side by side | `AccountsAssumption`, `CredentialsAssumed` |
| `EnrolmentProofs` | `TypeCorrect`, `OneSubscriptionHolds`, `CouponCountedHolds`, `CodeWithinLimitHolds`, `EnrolledIffEntitledHolds`, `PayingLetsInHolds` (an action property) | `EnrolmentAssumption` |
| `TaskStreamProofs` | `TypeCorrect`, `UnfailedJobsSurviveHolds`, `AttemptsAreEarnedHolds` | `ConstantsAssumption` |
| `DeliveriesProofs` | `ImplementsQueueHolds` (the refinement), `TypeCorrect`, `SentWasAcceptedHolds`, `QueuedRowHasWorkHolds`, `RepostsNeedFaultsHolds` | `BoundsAssumption`, `QueueAssumption`; the last theorem: one worker |
| `CourseProofs` | `LocksSufficeHolds`, `GradeMatchesAnswerHolds`, `OneCertificateHolds` (`CertificatesTypeOK`), `OfflineDevicesWithinLimitHolds`, `SeenInOrderHolds`; `PartsAreAlone` | `PartsAssumption`, `LessonsAssumption` |
| `ContentProofs` | `PublishedWasReadyHolds`, `MissingObjectExplainedHolds`, `MembersEnrolledHolds`, `GradedAsHandedOutHolds` | `PartsAssumption` |
| `StudentProofs` | `BadgeExplainedHolds`, `PushesCommittedHolds`, `AttendanceExplainedHolds`, `StreakExplainedHolds`; for `CampusMC` as a whole: `CampusTypes` (`CampusTypeOK`), `CampusSafe` | `PartsAssumption`, `LessonsAssumption` |

The theorems about a module of `CampusMC` or `AccountsMC` are about that module's
own specification.  `PartsAreAlone` shows that a behaviour of `CampusMC` is, for each
of the eleven, a behaviour of that module alone (the others stutter); `CampusSafe`
and `CampusTypes` put the modules' theorems together for what the run explores.
`ContentProofs` extends `CourseProofs`, and `StudentProofs` extends `ContentProofs`,
for these two alone.  `AccountsTypes` rests on the same fact for `AccountsMC`.

**Quiz attempts.**  That a request in `Create` adds no second live attempt depends
on what it found in `Count`, and that this is still true on nobody else having
been in the critical section since.  `IInv` therefore adds `LockHeld` (who is in
the critical section holds the lock), `WorkHolds` (what a request has found out
stays true until it acts on it: the attempt to expire is past its time, the count is
still the count, the attempt being graded is in progress and in time), `ViewHolds`
(settings and copies of them are within the extremes of their history), `RowsExist`
and `Ungraded`.  The subtle step is `Expire`, the only one outside the lock: it keeps
the invariant because whoever grades or replaces the same row holds its row lock.
It does not keep a submission: `SubmittedStaysSubmitted` is false.

**Accounts.**  `KeyExcludes` is key 5501.  `Decided`: for the request that is about to
commit a login, what `establish_session` read under the key is still true, every
live session is among those it revokes and a new device fits the limit.  `Covers`:
the commit of a change of password revokes every session it has no excuse for.
`OthersHold` says what a step must not do to a request it does not concern; the
hard steps are `Establish`, which revokes and inserts at once, and `CommitSweep`,
which takes no key.  `OldPasswordGone` is a part of the invariant, since a later
sweep relies on what an earlier one left.  `Accepted` and `HashMoves`: the password
that lets somebody in is the newest or one written back, so that a login with an older
one is always accounted for.

**Credentials.**  Nothing is locked.  `Superseding`: a request about to insert a code
spends every unused one but those made since its UPDATE ran (`crossed`).
`Judging`: who judges a code has read one that may still be tried.  `LockStands`
needs no invariant but a look at each write of `locked_until`.

**Enrolment.**  `Exclusive` (row locks and advisory keys exclude) makes what was read
under a lock stay true: `CouponKept`, `CodeKept`, `PaymentKept` for the counter of the
coupon, that of the code, and the payment's row; `SeesEnrolment` is the one fact
about a row read without a lock that survives, that an enrolment is never deleted.
`FreeCounted` ties the count of the coupon to the free checkouts.  For `PayingLetsIn`,
the step that makes a payment paid can only be the `Confirm` of the request that
holds the payment's row; the exception is needed because `SeesEnrolment` does not
say that what was active still is.

**The queue.**  XADD gives every entry an ID above all earlier ones (`Numbered`), so a
worker's copy and an entry with the same ID are the same message (`CopiesAgree`).
`AtWork`: past the handler the job is done; in the except branch one more failure
has been counted than its `attempts` field says.  So an XACK or an XDEL can only
forget an entry whose job is done or failed.  `CopiesEarned` bounds the field of a
copy by the failures of its job, which a claimed duplicate shares.

**Deliveries.**  `StepRefines` maps every action to a step of `TaskStream` or a stutter,
one case per action; that gives `ImplementsQueue`, and lets the composition use the
invariant of `TaskStreamProofs` (instance `QP`) instead of proving it again.  To it
come `Handles` (where a worker is in the handler, and what that says of its row: past
the handler its row is final, a verdict "sent" has been posted), `RowsMade` (jobs,
copies and lists name committed rows only) and `OutageCounted`.  `QueuedRowHasWork`
is checked step by step for each place a row's work can be: list, entry, pending,
worker.  `RepostsNeedFaults` is false with two workers (a claim repeats a slow
worker's call), so its theorem assumes one; `Counted` charges every post of a row
still queued to an exit or an exception.

**Coursework.**  `LockHeld`: who saves holds the advisory lock, and what it read there is
what is there.  For the mark, that the teacher writes the text it has looked at or
the history says that they crossed.

**Certificates, offline licences.**  The unique constraint alone gives one certificate.
`FoundRoom`: a request that inserts a licence counted under a limit that has been in
force, and the count grows only by what `crossed` records.

**Lessons.**  Each door asks for one lesson, the one before, and the property speaks of
all.  `Ordered` says, as long as the staff have rearranged nothing, that every
lesson asks, that the first lessons have a place each, and that what is finished, or
is about to be reported, comes after finished ones.  `PreviousFound` (among the
lessons before one, some is last), `UnlockedAfter` (that one finished, all are) and
`GentleChange` (a change of the staff that puts nothing before anything) carry it.
New lessons break no tie because IDs are given out in order, a part of
`LessonsAssumption`; clones and moves are the long cases (`CopyFound`,
`PlacesTaken`).

**Streams.**  `FoundReady`: a request that found its video ready found one that stays
ready, so a late write is harmless, and an update that publishes a video has read
"ready".  `ProviderSet` and `ReadyMeansReady`: unless the
history excuses it, the profile's "ready" is the provider's word about the video in
the lesson, which is what `update_lesson` relies on.

**Media.**  `Established`: a request has found out whether the file is good before it
discards or inserts, and one about to clean up has found no row, unless a commit
came later (`late`).  `RowWasAccepted`: a row stands for a file that was accepted.

**Groups.**  `StillThere`: what a page has seen of members and enrolments is still true in
the one direction that matters, since enrolments are never deleted.

**Questions.**  `FoundOff`: a change under way found the quiz off.  While nothing has
disturbed the attempt, its weights are those of the paper.  That no score exceeds its
total compares two sums over sets.  The library's induction theorems are out of
reach (they take an operator), so the facts about sums are proved on a smallest
counterexample: of the subsets of a finite set for which a claim fails, one contains
no other (`SmallestOfSets`, from `WFMin`).  `SumAddsUp` shows that way that the
recursive function behind `MapThenSumSet` exists and is the only one, `SumOfOthers`
that any element may be taken out first, `SumOfFewer` that a subset adds up to no
more.

**Notices.**  `PageCounted`: a page that is not late has counted the rows as they are;
`StaysDeleted`: a request that deleted the number, and saw no other stored, commits
when there is none.  `PoolInv`, with an argument about the number of pushes that hold a
slot, gives `PushesCommitted`: the executor is never overfull, and nothing is pushed
that was rolled back.

**Attendance.**  `RowsRemember`: rows know only days on which the student came, and a day
that they do not know was followed by another.  `ListsAdd` shows that the three
lists of a day share out the students with an active account, and that the totals
are their sizes.

**Streaks.**  `RowCounts`: as long as no day was written late, the row ends with the latest
day, `current` counts the days in a row to it, and `best` is some day's count.
`DaysBefore` and `DaysTo` say what one more day does to a count.

**Only model-checked.**  Every invariant and every action property that a passing
run checks is proved.  Liveness (`JobsAreAttempted`, `JobsSettle`,
`QueuedRowsSettle`) is beyond the prover and stays with TLC, and so do the five runs
that expect a violation.  What a proof takes for granted is what the assumptions in
the table say; each is named in the module that declares the constants, and TLC
evaluates it in the runs.  Two deserve a word: `LessonsAssumption` has the lessons
that the staff add numbered above those the course began with, since the database
gives out IDs in order, and `BoundsAssumption` lets the queue accept as
many jobs as the first campaign and all recoveries together may enqueue.

## 5. Plan

The state machines are written, and what the passing runs check is proved but for
liveness.  What is left is to say more.

1. Some exceptions never apply without an overlap: with one request at a time
   `raced` (`Accounts`), `crossed` (`Credentials`, `OfflineGrants`) and `backdated`
   (`Streaks`) are never set.
2. What the violated properties leave true: a job of `TaskStream` is lost only in the
   window between `FailedAck` and `Again`; a submitted attempt of `QuizAttempts` ends
   "expired" only through an `Open` that read it before; a queued row without work
   is stranded only by an outage, an exit, a job buried or a recovery that failed.
3. `Deliveries` with two workers: how often a message may be repeated, counted in
   claims of entries gone stale.

## 6. Where the code and its documentation part

- **A crash can lose a failed job.**  tasks.py:126-127 acknowledges and deletes a
  failed entry before tasks.py:138 adds its retry.  The module's docstring says a
  worker crash does not silently lose an in-flight job.  Run `TaskStreamCrash`;
  `UnfailedJobsSurvive` is what does hold: a job none of whose attempts failed
  survives everything.
- **An outage can strand a campaign.**  The comment at communications.py:95 says
  workers recover queued rows after Redis returns; worker.py:78-85 does it only
  when an embedded worker *starts*, and a dedicated worker never does
  (worker.py:109-112).  Run `DeliveriesOutage`.
- **Two workers can process one item.**  main.py:96-97 says consumer groups prevent
  it; tasks.py:146 claims what has been pending for `CLAIM_IDLE_MS` from a worker
  that is alive and slow.  Run `DeliveriesTwice`.
- **Opening a quiz can undo a submission.**  learning_runtime.py:297-300 and
  api_v1_learning.py:65-68 expire the attempt before they take the lock; the test
  at tests/test_v96_scale_upload_hardening.py:60 says start and submit cannot
  overlap.  Run `QuizOverwrite`: the attempt ends "expired", with its points.

- **The first progress report fails.**  learning_runtime.py:274 compares
  `watched_seconds` of a row that has not been flushed, which is None
  (`autoflush=False`, db.py:34), with a number: TypeError, and no row is made, though
  README.md:11 lists the tracking of progress and README.md:93 sequential
  unlocking.  Run `ProgressLost`.  The properties of `Lessons` hold for rows the
  database came with.

Covered by the exceptions that properties name:

- Two finalizations, or a deletion and a finalization, can leave a document without
  its file, though media.py:284-285 says one "must never delete an object that
  another worker has already linked": the clean-up of a failed commit looks for the
  row before the other one's commit (`MissingObjectExplained`).
- The comment at courses.py:165-167 keeps an unprocessed video from being published;
  `toggle_lesson` (313-322) does not ask, an address pasted makes a profile whose
  default status is "ready", a finalization that read `published` as false does
  not write it, and an update of the lesson publishes the unprocessed video of a
  finalization that commits between its read and its write (`PublishedWasReady`).
- A login that overlaps a password reset can write the older password's hash back
  (routers/auth.py:160): the older password is then valid again and the newer one is
  not (`OldPasswordGone`).  It needs a release that raised the parameters of the hash.
- A job buried after `MAX_ATTEMPTS` errors (tasks.py:140) leaves its row queued, and a
  recovery that raises is passed over (worker.py:81-84): such rows wait for the next
  start of a process (`QueuedRowsSettle`).
- media.py:152 promises one active upload for a lesson: a status that repeats itself
  does not renew `updated_at`, so half an hour later a second upload may begin.
- `admin_group_member` (community.py:188-198) adds the membership and then looks for
  the members of the group without a flush: the student it adds is not enrolled
  (`MembersEnrolled`; the docstring at services/community.py:45 promises the whole
  group).  An import with a group and one of its courses adds the enrolment twice
  and fails (admin_users.py:184-190).
- A class reserved for a group whose course was taken back cannot be released on
  that group's page (community.py:229).
- services/communications.py:136-138 drops the unread counters before the commit,
  push_notifications.py too, and announcements and API v1 never drop them
  (`BadgeExplained`).
- A day on which a student was present becomes an absence when the student returns
  with the same session (request_context.py:83), though the docstring at
  services/community.py:79 speaks of real activity during the day
  (`AttendanceExplained`).
- student_rewards.py:12 takes the day before the lock; around midnight a streak can
  break for no reason (`StreakExplained`).
- A change of a question that began before publication is written after it, and can
  leave a published quiz empty (assessments_admin.py:181; `GradedAsHandedOut`).
- A mark for a text handed in after the teacher opened the page counts for the new
  text (`GradeMatchesAnswer`), and licences are counted by row
  (`OfflineDevicesWithinLimit`).

Seen and not run:

- services/commerce.py:36-39 says `Subscription.ends_at` governs the paid period;
  `access.py` reads `Enrollment` only, and nothing sets `Enrollment.expires_at`.
- A coupon's limit is checked at checkout and counted at the payment's callback, so
  discounted payments may exceed it; free ones never do (`CouponCounted`).
- A callback that read the enrolment as active does not write it, so a concurrent
  cancellation wins over a payment just confirmed: the exception in `PayingLetsIn`.
- A linked document (courses.py:259-292, whose docstring says a private file "simply
  fails to load") never loads: `protected_media` does not follow links.
- english_tools.py:40-43 counts a first vocabulary review on columns that are None,
  as `lesson_progress` does: it fails.
- The clone of a course (academic_content.py:244-257, "so the course copy is
  complete") drops the drip rules and video profiles of loose lessons, and the lesson
  of a loose homework whose lesson is in a unit.
- courses.py:352 numbers a new lesson by the count, which repeats a number after a
  deletion; of two lessons of one number access.py asks for the one of the higher ID
  only, and moving one past the other has no effect.
- access.py:66 says `course_completion_status` uses the bulk check; nothing calls it.
- Bulk in-app campaigns insert past the ORM, so no push follows; a failed send
  deactivates a phone that may have registered anew meanwhile (push.py:73).
- API v1 keeps a student's list of courses for 45 seconds (api_v1_student.py:23-32),
  also past an enrolment.
- Two requests for a remediation plan may leave two active ones
  (services/remediation.py:11); replies in a support ticket may cross and leave the
  earlier one's status (services/support.py:52).

## 7. Not modelled, and why

Templates, static files, the front end, the edge worker and the deployment scripts
share no state with these protocols; start-up, schema and seed run once under
advisory locks.  Reports, dashboards, parents' pages and most others only read.
Support, discussions, titles, categories and the home page are single-row writes
where the last writer wins.  Watermarking keeps no state.  Trimming of the stream
at `STREAM_MAXLEN`, at least a thousand entries, needs instances beyond TLC.  Of
commerce, prices, provider references and end dates are left out, the last because
no state of the code depends on them.  The text of answers, messages and files is
abstracted to what the properties tell apart.
