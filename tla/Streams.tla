------------------------------ MODULE Streams ------------------------------
(***************************************************************************)
(* The video of one lesson, uploaded to Cloudflare Stream by the browser:   *)
(* init, finalize and status of an upload (src/app/routers/media.py), and   *)
(* the pages of the staff that publish the lesson or edit its video by hand *)
(* (routers/courses.py).                                                    *)
(*                                                                          *)
(* init reads everything under the advisory lock 5531 of the lesson, asks   *)
(* Stream for an upload and commits: one step.  finalize and status read    *)
(* the lesson and ask Stream before they take the lock.  update takes no    *)
(* lock: it reads the lesson, then the profile, and commits.  All three     *)
(* write a column only where its value differs from the one read.  So do    *)
(* toggle and video-profile, which are one step each: whatever they publish *)
(* or set is excused.                                                       *)
(***************************************************************************)
CONSTANTS
    Request,     \* requests for finalize, status and update
    Video        \* videos at Stream, by their uid

NoVideo == "none"     \* no video, or one elsewhere

StreamsAssumption == NoVideo \notin Video

VARIABLES
    remote,     \* how far Stream is with each video
    lesson,     \* columns published and video_url of the lesson
    profile,    \* LessonVideoProfile row; provider "none" if there is no row.  Whether
                \* updated_at is less than 30 minutes ago is kept while it matters.
    excused,    \* history: see PublishedWasReady
    req         \* requests in flight

vars == <<remote, lesson, profile, excused, req>>

\* Other stands for all the providers but one, and "blocked" also for "draft".
Provider == {"none", "cloudflare", "other"}
Status   == {"uploading", "processing", "ready", "blocked"}

\* A row is made with the default status "ready".
NoProfile == [provider |-> "none", status |-> "ready", recent |-> FALSE]

\* The lesson a request wants; the columns it writes because it has read another
\* value, provider "none" standing for no write and fresh for a new row; and the
\* status it has read.
Idle      == [op |-> "none", video |-> NoVideo, publish |-> FALSE, turns |-> FALSE,
              moves |-> FALSE, provider |-> "none", fresh |-> FALSE, status |-> "blocked"]

Init ==
    /\ remote = [v \in Video |-> "none"]
    /\ lesson = [published |-> FALSE, video |-> NoVideo]
    /\ profile = NoProfile
    /\ excused = FALSE
    /\ req = [r \in Request |-> Idle]

\* stream_video_details finds them.
Known       == {v \in Video : remote[v] # "none"}
Unready(v)  == v \in Video /\ remote[v] # "ready"

Unfinished == {"uploading", "processing"}

\* updated_at is set when another column changes, and only then; duration and
\* thumbnail are such columns.
Save(provider, status, more) ==
    profile' = [provider |-> provider, status |-> status,
                recent |-> /\ status \in Unfinished
                           /\ \/ more \/ profile.recent
                              \/ provider # profile.provider \/ status # profile.status]

\* The lesson after the commit of a request
Written(q) == [published |-> IF q.turns THEN q.publish ELSE lesson.published,
               video     |-> IF q.moves THEN q.video ELSE lesson.video]

Wanted(q) == [published |-> q.publish, video |-> q.video]

\* It shows a Stream video to the students.
Shows(q) == q.publish /\ q.video \in Video

-----------------------------------------------------------------------------
(* Cloudflare Stream, and time *)

Advance(v) ==
    /\ remote[v] = "pending"
    /\ \E end \in {"ready", "error"} : remote' = [remote EXCEPT ![v] = end]
    /\ UNCHANGED <<lesson, profile, excused, req>>

HalfAnHour ==
    /\ profile.recent
    /\ profile' = [profile EXCEPT !.recent = FALSE]
    /\ UNCHANGED <<remote, lesson, excused, req>>

\* What finalize and status make of it (stream_state)
Verdict(v) ==
    CASE remote[v] = "error" -> "blocked" [] remote[v] = "ready" -> "ready" [] OTHER -> "processing"

\* create_tus_upload: Stream makes a new video and says where to put it.
CreateUpload(v) == remote[v] = "none" /\ remote' = [remote EXCEPT ![v] = "pending"]

-----------------------------------------------------------------------------
(* Uploads *)

Busy == profile.status \in Unfinished /\ profile.recent

\* POST /admin/lesson/{id}/stream-upload/init
InitStream(v) ==
    /\ ~Busy
    /\ CreateUpload(v)
    /\ Save("cloudflare", "uploading", FALSE)
    /\ UNCHANGED <<lesson, excused, req>>

\* POST .../finalize: the lesson and Stream's details are read,
AskFinalize(r, v) ==
    /\ req[r] = Idle /\ v \in Known
    /\ req' = [req EXCEPT ![r] = [Idle EXCEPT !.op = "finalize", !.video = v, !.status = Verdict(v),
                                  !.turns = lesson.published, !.moves = lesson.video # v]]
    /\ UNCHANGED <<remote, lesson, profile, excused>>

\* then, under the lock, profile and lesson are written.
Finalize(r, more) ==
    LET q == req[r] IN
    /\ q.op = "finalize"
    /\ Save("cloudflare", q.status, more)
    /\ lesson' = Written(q)
    /\ excused' = (lesson' # Wanted(q))
    /\ req' = [req EXCEPT ![r] = Idle]
    /\ UNCHANGED <<remote>>

\* POST .../status, of the video that is in the lesson
AskStatus(r) ==
    /\ req[r] = Idle /\ lesson.video \in Known
    /\ req' = [req EXCEPT ![r] = [Idle EXCEPT !.op = "status", !.video = lesson.video,
                                            !.status = Verdict(lesson.video)]]
    /\ UNCHANGED <<remote, lesson, profile, excused>>

RefreshStatus(r, more) ==
    LET q == req[r] IN
    /\ q.op = "status"
    /\ Save("cloudflare", q.status, more)
    /\ excused' = (excused \/ lesson.video # q.video)
    /\ req' = [req EXCEPT ![r] = Idle]
    /\ UNCHANGED <<remote, lesson>>

\* Stream does not answer, the lock is not had, or the process stops.
Abort(r) ==
    /\ req[r] # Idle /\ req' = [req EXCEPT ![r] = Idle]
    /\ UNCHANGED <<remote, lesson, profile, excused>>

-----------------------------------------------------------------------------
(* The pages of the staff *)

\* detect_video_provider: an address of Stream; or of YouTube, Bunny or none of these
Classified(video) == IF video \in Video THEN {"cloudflare"} ELSE {"other", "none"}

\* _sync_auto_detected_video_provider: a recognised address sets the provider, in a
\* new row if there is none; another one does not.
Detected(video) == {IF provider = profile.provider THEN "none" ELSE provider :
                       provider \in Classified(video)}

\* POST /admin/lesson/{id}/update reads the lesson,
OpenUpdate(r, video, publish) ==
    /\ req[r] = Idle /\ video \in Known \cup {NoVideo}
    /\ req' = [req EXCEPT ![r] = [Idle EXCEPT !.op = "update", !.video = video,
                   !.publish = publish, !.turns = lesson.published # publish,
                   !.moves = lesson.video # video]]
    /\ UNCHANGED <<remote, lesson, profile, excused>>

\* then the profile,
ReadProfile(r) ==
    LET q == req[r] IN
    /\ q.op = "update"
    /\ \E provider \in Detected(q.video) :
          req' = [req EXCEPT ![r] = [q EXCEPT !.op = "checked", !.provider = provider,
                     !.fresh = provider # "none" /\ profile.provider = "none",
                     !.status = IF Shows(q) THEN profile.status ELSE @]]
    /\ UNCHANGED <<remote, lesson, profile, excused>>

\* Mutant of CheckUpdate: the status of the video is not asked.
UpdateUnchecked(r) == ReadProfile(r)

\* which has to say that a Stream video to be published is ready,
CheckUpdate(r) ==
    /\ Shows(req[r]) => profile.provider = "cloudflare" /\ profile.status = "ready"
    /\ ReadProfile(r)

\* and commits.
CommitUpdate(r) ==
    LET q == req[r] IN
    /\ q.op = "checked"
    /\ lesson' = Written(q)
    /\ IF q.provider = "none" THEN UNCHANGED profile
       ELSE (q.fresh => profile.provider = "none") /\ Save(q.provider, profile.status, TRUE)
    /\ excused' = \/ excused
                  \/ q.moves /\ q.video \in Video
                  \/ lesson' # Wanted(q)
                  \/ Shows(q) /\ q.status # profile.status
    /\ req' = [req EXCEPT ![r] = Idle]
    /\ UNCHANGED remote

\* POST /admin/lesson/{id}/toggle does not ask for the video.
ToggleLesson ==
    /\ lesson' = [lesson EXCEPT !.published = ~@]
    /\ excused' = (excused \/ ~lesson.published)
    /\ UNCHANGED <<remote, profile, req>>

\* POST /admin/lesson/{id}/video-profile, if it changes anything
EditProfile(provider, status) ==
    /\ provider = "cloudflare" => provider \in Classified(lesson.video)
    /\ Save(provider, status, TRUE)
    /\ excused' = TRUE
    /\ UNCHANGED <<remote, lesson, req>>

Next ==
    \/ HalfAnHour
    \/ \E v \in Video : Advance(v) \/ InitStream(v)
    \/ \E r \in Request :
          \/ \E v \in Video : AskFinalize(r, v)
          \/ AskStatus(r) \/ Abort(r)
          \/ \E more \in BOOLEAN : Finalize(r, more) \/ RefreshStatus(r, more)
          \/ \E video \in Video \cup {NoVideo}, publish \in BOOLEAN : OpenUpdate(r, video, publish)
          \/ CheckUpdate(r) \/ CommitUpdate(r)
    \/ ToggleLesson
    \/ \E provider \in Provider \ {"none"}, status \in Status : EditProfile(provider, status)

Spec == Init /\ [][Next]_vars

-----------------------------------------------------------------------------
(* Properties *)

\* Types.
StreamsTypeOK ==
    /\ remote \in [Video -> {"none", "pending", "ready", "error"}]
    /\ lesson \in [published : BOOLEAN, video : Video \cup {NoVideo}]
    /\ profile \in [provider : Provider, status : Status, recent : BOOLEAN]
    /\ excused \in BOOLEAN
    /\ req \in [Request -> [op : {"none", "finalize", "status", "update", "checked"},
                            video : Video \cup {NoVideo},
                            publish : BOOLEAN, turns : BOOLEAN, moves : BOOLEAN,
                            provider : Provider, fresh : BOOLEAN, status : Status]]

\* A Stream video that students can see has been processed, through replaced
\* uploads, late answers of Stream, concurrent finalizations and updates of the
\* lesson (courses.py:165-176, media.py:184), unless the staff published it with
\* the toggle, pasted its address or set its status by hand, or
\*  - the lesson changed between the read and the write of a finalization, which
\*    left the change there, or of a status request, or
\*  - the lesson or its profile changed between the read and the write of an
\*    update: it publishes the video that a finalization has put there meanwhile,
\* and no upload was finalized since.
PublishedWasReady ==
    lesson.published /\ ~excused => ~Unready(lesson.video)
=============================================================================
