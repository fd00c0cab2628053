---------------------------- MODULE ContentProofs ----------------------------
(***************************************************************************)
(* Proofs about what the staff put into a course and whom they put into    *)
(* it: Streams, Media, Questions and Groups.  They hold for every number   *)
(* of requests, videos, questions, students and groups, and they are about *)
(* the specification of each component on its own (S!Spec, M!Spec, Q!Spec, *)
(* C!Spec), of which CampusMC explores one at a time.  Before Questions    *)
(* stand the facts about sums that no score exceeding its total rests on.  *)
(***************************************************************************)
EXTENDS CourseProofs, FiniteSetTheorems, WellFoundedInduction, TLAPS

-----------------------------------------------------------------------------
(* Streams                                                                 *)

UploadType == [op : {"none", "finalize", "status", "update", "checked"},
               video : Video \cup {S!NoVideo},
               publish : BOOLEAN, turns : BOOLEAN, moves : BOOLEAN,
               provider : S!Provider, fresh : BOOLEAN, status : S!Status]

\* A request that found its video ready has found one that is ready for good;
Uploaded(q) ==
    q.op \in {"finalize", "status"} =>
        /\ q.video \in Video /\ ~q.publish
        /\ q.status = "ready" => remote[q.video] = "ready"

\* an update has read that the video it publishes is ready.
Checked(q) ==
    q.op = "checked" =>
        /\ S!Shows(q) => q.status = "ready"
        /\ q.video \in Video => q.provider \in {"none", "cloudflare"}

FoundReady(r) == Uploaded(uploads[r]) /\ Checked(uploads[r])

\* A Stream video that nobody pasted has the provider that its upload has set.
ProviderSet == ~excused /\ clip.video \in Video => profile.provider = "cloudflare"

\* What CheckUpdate asks before it publishes means what it says.
ReadyMeansReady ==
    ~excused /\ profile.provider = "cloudflare" /\ profile.status = "ready" => ~S!Unready(clip.video)

StreamsInv ==
    /\ S!StreamsTypeOK /\ \A r \in Request : FoundReady(r)
    /\ ProviderSet /\ ReadyMeansReady /\ S!PublishedWasReady

LEMMA StreamsConstants == S!NoVideo \notin Video
BY PartsAssumption DEF S!StreamsAssumption

LEMMA StreamsInit == S!Init => StreamsInv
<1> SUFFICES ASSUME S!Init PROVE StreamsInv
  OBVIOUS
<1>1. /\ remote = [v \in Video |-> "none"] /\ clip = [published |-> FALSE, video |-> S!NoVideo]
      /\ profile = S!NoProfile /\ excused = FALSE /\ uploads = [r \in Request |-> S!Idle]
  BY DEF S!Init
<1>2. S!Idle \in UploadType
  BY DEF S!Idle, UploadType, S!Status, S!Provider
<1>3. S!NoProfile \in [provider : S!Provider, status : S!Status, recent : BOOLEAN]
  BY DEF S!NoProfile, S!Provider, S!Status
<1>4. excused \in BOOLEAN /\ clip \in [published : BOOLEAN, video : Video \cup {S!NoVideo}]
  BY <1>1
<1>5. S!StreamsTypeOK
  BY <1>1, <1>2, <1>3, <1>4 DEF S!StreamsTypeOK, UploadType
<1>6. QED
  BY <1>1, <1>5, StreamsConstants
     DEF StreamsInv, FoundReady, Uploaded, Checked, S!Idle, ProviderSet, ReadyMeansReady, S!NoProfile,
         S!PublishedWasReady, S!Unready

\* What Save makes of the row.
LEMMA SavedProfile ==
    ASSUME S!StreamsTypeOK, NEW provider \in S!Provider, NEW status \in S!Status,
           NEW more \in BOOLEAN, S!Save(provider, status, more)
    PROVE  /\ profile' \in [provider : S!Provider, status : S!Status, recent : BOOLEAN]
           /\ profile'.provider = provider /\ profile'.status = status
<1> DEFINE recent == /\ status \in S!Unfinished
                     /\ \/ more \/ profile.recent
                        \/ provider # profile.provider \/ status # profile.status
<1>1. profile' = [provider |-> provider, status |-> status, recent |-> recent]
  BY DEF S!Save
<1>2. recent \in BOOLEAN
  OBVIOUS
<1> HIDE DEF recent
<1>3. QED
  BY <1>1, <1>2

\* The videos at Stream: one that is ready stays so.
LEMMA StreamMoves ==
    ASSUME StreamsInv, NEW v \in Video, S!Advance(v) \/ S!InitStream(v)
    PROVE  StreamsInv'
<1>1. /\ remote' \in [Video -> {"none", "pending", "ready", "error"}]
      /\ \A x \in Video : remote[x] = "ready" => remote'[x] = "ready"
      /\ UNCHANGED <<clip, excused, uploads>>
  BY DEF S!Advance, S!InitStream, S!CreateUpload, StreamsInv, S!StreamsTypeOK
<1>2. /\ profile' \in [provider : S!Provider, status : S!Status, recent : BOOLEAN]
      /\ profile' = profile \/ (profile'.provider = "cloudflare" /\ profile'.status = "uploading")
  BY SavedProfile DEF S!Advance, S!InitStream, StreamsInv, S!StreamsTypeOK, S!Provider, S!Status
<1>3. S!StreamsTypeOK'
  BY <1>1, <1>2 DEF StreamsInv, S!StreamsTypeOK
<1>4. \A r \in Request : FoundReady(r)'
  BY <1>1 DEF StreamsInv, FoundReady, Uploaded, Checked, S!Shows
<1>5. ProviderSet' /\ ReadyMeansReady' /\ S!PublishedWasReady'
  BY <1>1, <1>2 DEF StreamsInv, ProviderSet, ReadyMeansReady, S!PublishedWasReady, S!Unready
<1>6. QED
  BY <1>3, <1>4, <1>5 DEF StreamsInv

\* A request reads, or gives up.
LEMMA ReadStep ==
    ASSUME StreamsInv, NEW r \in Request, NEW x \in UploadType, Uploaded(x), Checked(x),
           uploads' = [uploads EXCEPT ![r] = x], UNCHANGED <<remote, clip, profile, excused>>
    PROVE  StreamsInv'
<1>1. uploads \in [Request -> UploadType]
  BY DEF StreamsInv, S!StreamsTypeOK, UploadType
<1>2. uploads' \in [Request -> UploadType] /\ \A q \in Request : uploads'[q] \in {x, uploads[q]}
  BY <1>1
<1>3. \A q \in Request : FoundReady(q)'
  BY <1>2 DEF StreamsInv, FoundReady, Uploaded, Checked, S!Shows
<1>4. S!StreamsTypeOK'
  BY <1>2 DEF StreamsInv, S!StreamsTypeOK, UploadType
<1>5. ProviderSet' /\ ReadyMeansReady' /\ S!PublishedWasReady'
  BY DEF StreamsInv, ProviderSet, ReadyMeansReady, S!PublishedWasReady, S!Unready
<1>6. QED
  BY <1>3, <1>4, <1>5 DEF StreamsInv

LEMMA IdleUpload == S!Idle \in UploadType /\ S!Idle.op = "none" /\ ~S!Idle.publish
BY DEF S!Idle, UploadType, S!Status, S!Provider

LEMMA AskUploadStep ==
    ASSUME StreamsInv, NEW r \in Request,
           (\E v \in Video : S!AskFinalize(r, v)) \/ S!AskStatus(r) \/ S!Abort(r)
    PROVE  StreamsInv'
<1>1. UNCHANGED <<remote, clip, profile, excused>>
  BY DEF S!AskFinalize, S!AskStatus, S!Abort
<1>2. \A v \in Video : /\ S!Verdict(v) \in S!Status
                       /\ S!Verdict(v) = "ready" => remote[v] = "ready"
  BY DEF S!Verdict, S!Status
<1>3. clip.published \in BOOLEAN /\ \A v \in Video : (clip.video # v) \in BOOLEAN
  BY DEF StreamsInv, S!StreamsTypeOK
<1>4. ASSUME NEW v \in Video, S!AskFinalize(r, v) PROVE StreamsInv'
  <2> DEFINE x == [S!Idle EXCEPT !.op = "finalize", !.video = v, !.status = S!Verdict(v),
                                 !.turns = clip.published, !.moves = clip.video # v]
  <2>1. uploads' = [uploads EXCEPT ![r] = x]
    BY <1>4 DEF S!AskFinalize
  <2>2. /\ x \in UploadType /\ x.op = "finalize" /\ x.video = v /\ ~x.publish
        /\ x.status = S!Verdict(v)
    BY <1>2, <1>3, IdleUpload DEF UploadType
  <2> HIDE DEF x
  <2>3. Uploaded(x) /\ Checked(x)
    BY <1>2, <2>2 DEF Uploaded, Checked
  <2>4. QED
    BY <1>1, <2>1, <2>2, <2>3, ReadStep
<1>5. CASE S!AskStatus(r)
  <2> DEFINE x == [S!Idle EXCEPT !.op = "status", !.video = clip.video,
                                 !.status = S!Verdict(clip.video)]
  <2>1. uploads' = [uploads EXCEPT ![r] = x] /\ clip.video \in Video
    BY <1>5 DEF S!AskStatus, S!Known
  <2>2. /\ x \in UploadType /\ x.op = "status" /\ x.video = clip.video /\ ~x.publish
        /\ x.status = S!Verdict(clip.video)
    BY <1>2, <2>1, IdleUpload DEF UploadType
  <2> HIDE DEF x
  <2>3. Uploaded(x) /\ Checked(x)
    BY <1>2, <2>1, <2>2 DEF Uploaded, Checked
  <2>4. QED
    BY <1>1, <2>1, <2>2, <2>3, ReadStep
<1>6. CASE S!Abort(r)
  <2>1. Uploaded(S!Idle) /\ Checked(S!Idle)
    BY IdleUpload DEF Uploaded, Checked
  <2>2. QED
    BY <1>1, <1>6, <2>1, IdleUpload, ReadStep DEF S!Abort
<1>7. QED
  BY <1>4, <1>5, <1>6

\* An update reads the lesson, and then the profile.
LEMMA ReadUpdateStep ==
    ASSUME StreamsInv, NEW r \in Request,
           \/ \E video \in Video \cup {S!NoVideo}, publish \in BOOLEAN :
                 S!OpenUpdate(r, video, publish)
           \/ S!CheckUpdate(r)
    PROVE  StreamsInv'
<1>1. UNCHANGED <<remote, clip, profile, excused>>
  BY DEF S!OpenUpdate, S!CheckUpdate, S!ReadProfile
<1>2. ASSUME NEW video \in Video \cup {S!NoVideo}, NEW publish \in BOOLEAN,
             S!OpenUpdate(r, video, publish)
      PROVE  StreamsInv'
  <2> DEFINE x == [S!Idle EXCEPT !.op = "update", !.video = video, !.publish = publish,
                      !.turns = clip.published # publish, !.moves = clip.video # video]
  <2>1. uploads' = [uploads EXCEPT ![r] = x]
    BY <1>2 DEF S!OpenUpdate
  <2>2. (clip.published # publish) \in BOOLEAN /\ (clip.video # video) \in BOOLEAN
    OBVIOUS
  <2>3. x \in UploadType /\ x.op = "update"
    BY <2>2, IdleUpload DEF UploadType
  <2> HIDE DEF x
  <2>4. Uploaded(x) /\ Checked(x)
    BY <2>3 DEF Uploaded, Checked
  <2>5. QED
    BY <1>1, <2>1, <2>3, <2>4, ReadStep
<1>3. CASE S!CheckUpdate(r)
  <2> DEFINE q == uploads[r]
             fresh(provider) == provider # "none" /\ profile.provider = "none"
             status == IF S!Shows(q) THEN profile.status ELSE q.status
             x(provider) == [q EXCEPT !.op = "checked", !.provider = provider,
                                      !.fresh = fresh(provider), !.status = status]
  <2>1. PICK provider \in S!Detected(q.video) : uploads' = [uploads EXCEPT ![r] = x(provider)]
    BY <1>3 DEF S!CheckUpdate, S!ReadProfile
  <2>2. /\ provider \in S!Provider
        /\ q.video \in Video => provider \in {"none", "cloudflare"}
    BY DEF S!Detected, S!Classified, S!Provider
  <2>3. q \in UploadType /\ profile.status \in S!Status
    BY DEF StreamsInv, S!StreamsTypeOK, UploadType
  <2>4. fresh(provider) \in BOOLEAN /\ status \in S!Status
    BY <2>3 DEF UploadType
  <2>5. S!Shows(q) => status = "ready"
    BY <1>3 DEF S!CheckUpdate
  <2> HIDE DEF fresh, status
  <2>6. /\ x(provider) \in UploadType /\ x(provider).op = "checked"
        /\ x(provider).publish = q.publish /\ x(provider).video = q.video
        /\ x(provider).status = status /\ x(provider).provider = provider
    BY <2>2, <2>3, <2>4 DEF UploadType
  <2> HIDE DEF x
  <2>7. Uploaded(x(provider)) /\ Checked(x(provider))
    BY <2>2, <2>5, <2>6 DEF Uploaded, Checked, S!Shows
  <2>8. QED
    BY <1>1, <2>1, <2>6, <2>7, ReadStep
<1>4. QED
  BY <1>2, <1>3

\* The lesson that a commit leaves has the type of a lesson.
LEMMA WrittenTyped ==
    ASSUME S!StreamsTypeOK, NEW q \in UploadType
    PROVE  S!Written(q) \in [published : BOOLEAN, video : Video \cup {S!NoVideo}]
<1> DEFINE shown == IF q.turns THEN q.publish ELSE clip.published
           video == IF q.moves THEN q.video ELSE clip.video
<1>1. shown \in BOOLEAN /\ video \in Video \cup {S!NoVideo}
  BY DEF UploadType, S!StreamsTypeOK
<1>2. S!Written(q) = [published |-> shown, video |-> video]
  BY DEF S!Written
<1> HIDE DEF shown, video
<1>3. QED
  BY <1>1, <1>2

\* A request writes what it has found, and the history says whether that is
\* what the lesson shows.
LEMMA WriteUploadStep ==
    ASSUME StreamsInv, NEW r \in Request, NEW more \in BOOLEAN,
           S!Finalize(r, more) \/ S!RefreshStatus(r, more)
    PROVE  StreamsInv'
<1> DEFINE q == uploads[r]
<1>1. /\ q.op \in {"finalize", "status"} /\ S!Save("cloudflare", q.status, more)
      /\ uploads' = [uploads EXCEPT ![r] = S!Idle] /\ remote' = remote
  BY DEF S!Finalize, S!RefreshStatus
<1>2. uploads \in [Request -> UploadType] /\ q \in UploadType
  BY DEF StreamsInv, S!StreamsTypeOK, UploadType
<1>3. /\ profile' \in [provider : S!Provider, status : S!Status, recent : BOOLEAN]
      /\ profile'.provider = "cloudflare" /\ profile'.status = q.status
  BY <1>1, <1>2, SavedProfile DEF StreamsInv, UploadType, S!Provider
<1>4. /\ q.video \in Video /\ ~q.publish
      /\ q.status = "ready" => remote'[q.video] = "ready"
  BY <1>1 DEF StreamsInv, FoundReady, Uploaded
<1>5. /\ uploads' \in [Request -> UploadType]
      /\ \A a \in Request : FoundReady(a)'
  BY <1>1, <1>2, IdleUpload DEF StreamsInv, FoundReady, Uploaded, Checked, S!Shows
<1>6. /\ clip' \in [published : BOOLEAN, video : Video \cup {S!NoVideo}] /\ excused' \in BOOLEAN
      /\ ~excused' => \/ clip'.published = FALSE /\ clip'.video = q.video
                      \/ clip' = clip /\ clip.video = q.video /\ ~excused
  <2>1. CASE S!Finalize(r, more)
    <3>1. clip' = S!Written(q) /\ excused' = (clip' # S!Wanted(q))
      BY <2>1 DEF S!Finalize
    <3>2. clip' \in [published : BOOLEAN, video : Video \cup {S!NoVideo}]
      BY <1>2, <3>1, WrittenTyped DEF StreamsInv
    <3>3. excused' \in BOOLEAN
      BY <3>1
    <3>4. ~excused' => clip'.published = FALSE /\ clip'.video = q.video
      <4>1. q.publish = FALSE
        BY <1>2, <1>4 DEF UploadType
      <4>2. S!Wanted(q).published = q.publish /\ S!Wanted(q).video = q.video
        BY DEF S!Wanted
      <4>3. QED
        BY <3>1, <4>1, <4>2
    <3>5. QED
      BY <3>2, <3>3, <3>4
  <2>2. CASE S!RefreshStatus(r, more)
    BY <2>2 DEF S!RefreshStatus, StreamsInv, S!StreamsTypeOK
  <2>3. QED
    BY <2>1, <2>2
<1>7. S!StreamsTypeOK'
  BY <1>1, <1>3, <1>5, <1>6 DEF StreamsInv, S!StreamsTypeOK, UploadType
<1>8. ProviderSet' /\ ReadyMeansReady'
  BY <1>3, <1>4, <1>6 DEF ProviderSet, ReadyMeansReady, S!Unready
<1>9. S!PublishedWasReady'
  BY <1>1, <1>6 DEF StreamsInv, S!PublishedWasReady, S!Unready
<1>10. QED
  BY <1>5, <1>7, <1>8, <1>9 DEF StreamsInv

\* Where the history has nothing to excuse, an update leaves the video that it has
\* found in the lesson, and publishes it only if the profile still says ready.
LEMMA UpdateVideoStep ==
    ASSUME StreamsInv, NEW r \in Request, S!CommitUpdate(r)
    PROVE  StreamsInv'
<1> DEFINE q == uploads[r]
<1>1. /\ q.op = "checked" /\ clip' = S!Written(q) /\ remote' = remote
      /\ uploads' = [uploads EXCEPT ![r] = S!Idle]
      /\ excused' = \/ excused
                    \/ q.moves /\ q.video \in Video
                    \/ clip' # S!Wanted(q)
                    \/ S!Shows(q) /\ q.status # profile.status
  BY DEF S!CommitUpdate
<1>2. uploads \in [Request -> UploadType] /\ q \in UploadType
  BY DEF StreamsInv, S!StreamsTypeOK, UploadType
<1>3. /\ S!Shows(q) => q.status = "ready"
      /\ q.video \in Video => q.provider \in {"none", "cloudflare"}
  BY <1>1 DEF StreamsInv, FoundReady, Checked
<1>4. /\ profile' \in [provider : S!Provider, status : S!Status, recent : BOOLEAN]
      /\ profile'.status = profile.status
      /\ \/ profile'.provider = profile.provider
         \/ q.provider # "none" /\ profile'.provider = q.provider
  <2>1. CASE q.provider = "none"
    <3>1. profile' = profile
      BY <2>1 DEF S!CommitUpdate
    <3>2. QED
      BY <3>1 DEF StreamsInv, S!StreamsTypeOK
  <2>2. CASE q.provider # "none"
    <3>1. S!Save(q.provider, profile.status, TRUE)
      BY <2>2 DEF S!CommitUpdate
    <3>2. S!StreamsTypeOK /\ q.provider \in S!Provider /\ profile.status \in S!Status
      BY <1>2 DEF StreamsInv, S!StreamsTypeOK, UploadType
    <3>3. QED
      BY <2>2, <3>1, <3>2, SavedProfile
  <2>3. QED
    BY <2>1, <2>2
<1>5. clip' \in [published : BOOLEAN, video : Video \cup {S!NoVideo}]
  BY <1>1, <1>2, WrittenTyped DEF StreamsInv
<1>6. /\ uploads' \in [Request -> UploadType]
      /\ \A a \in Request : FoundReady(a)'
  BY <1>1, <1>2, IdleUpload DEF StreamsInv, FoundReady, Uploaded, Checked, S!Shows
<1>7. excused' \in BOOLEAN
  BY <1>1 DEF StreamsInv, S!StreamsTypeOK
<1>8. S!StreamsTypeOK'
  BY <1>1, <1>4, <1>5, <1>6, <1>7 DEF StreamsInv, S!StreamsTypeOK, UploadType
<1>9. ASSUME ~excused', clip'.video \in Video
      PROVE  /\ ~excused /\ clip'.video = clip.video /\ profile.provider = "cloudflare"
             /\ profile'.provider = "cloudflare"
             /\ clip'.published => profile.status = "ready"
  <2>1. ~excused /\ clip'.published = q.publish /\ clip'.video = q.video
    BY <1>1, <1>9 DEF S!Wanted
  <2>2. ~q.moves
    BY <1>1, <1>9, <2>1
  <2>3. clip'.video = clip.video
    BY <1>1, <2>2 DEF S!Written
  <2>4. profile.provider = "cloudflare"
    BY <1>9, <2>1, <2>3 DEF StreamsInv, ProviderSet
  <2>5. profile'.provider = "cloudflare"
    BY <1>3, <1>4, <1>9, <2>1, <2>4
  <2>6. clip'.published => profile.status = "ready"
    BY <1>1, <1>3, <1>9, <2>1 DEF S!Shows
  <2>7. QED
    BY <2>1, <2>3, <2>4, <2>5, <2>6
<1>10. ProviderSet' /\ ReadyMeansReady' /\ S!PublishedWasReady'
  BY <1>1, <1>4, <1>9
     DEF StreamsInv, ProviderSet, ReadyMeansReady, S!PublishedWasReady, S!Unready
<1>11. QED
  BY <1>6, <1>8, <1>10 DEF StreamsInv

LEMMA OtherStreamSteps ==
    ASSUME StreamsInv,
           \/ S!HalfAnHour \/ S!ToggleLesson
           \/ \E provider \in S!Provider \ {"none"}, status \in S!Status :
                 S!EditProfile(provider, status)
    PROVE  StreamsInv'
<1>1. UNCHANGED <<remote, uploads>>
  BY DEF S!HalfAnHour, S!ToggleLesson, S!EditProfile
<1>2. \A r \in Request : FoundReady(r)'
  BY <1>1 DEF StreamsInv, FoundReady, Uploaded, Checked, S!Shows
<1>3. CASE S!HalfAnHour
  BY <1>1, <1>2, <1>3
     DEF S!HalfAnHour, StreamsInv, S!StreamsTypeOK, ProviderSet, ReadyMeansReady,
         S!PublishedWasReady, S!Unready
<1>4. CASE S!ToggleLesson
  <2>1. /\ clip' = [clip EXCEPT !.published = ~@] /\ profile' = profile
        /\ excused' = (excused \/ ~clip.published)
    BY <1>4 DEF S!ToggleLesson
  <2>2. clip \in [published : BOOLEAN, video : Video \cup {S!NoVideo}]
    BY DEF StreamsInv, S!StreamsTypeOK
  <2>3. /\ clip' \in [published : BOOLEAN, video : Video \cup {S!NoVideo}]
        /\ clip'.video = clip.video /\ clip'.published = ~clip.published
    BY <2>1, <2>2
  <2>4. excused' \in BOOLEAN /\ (~excused' => ~excused /\ ~clip'.published)
    BY <2>1, <2>3
  <2>5. S!StreamsTypeOK'
    BY <1>1, <2>1, <2>3, <2>4 DEF StreamsInv, S!StreamsTypeOK
  <2>6. QED
    BY <1>1, <1>2, <2>1, <2>3, <2>4, <2>5
       DEF StreamsInv, ProviderSet, ReadyMeansReady, S!PublishedWasReady, S!Unready
<1>5. ASSUME NEW provider \in S!Provider, NEW status \in S!Status, S!EditProfile(provider, status)
      PROVE  StreamsInv'
  <2>1. S!Save(provider, status, TRUE) /\ excused' = TRUE /\ clip' = clip
    BY <1>5 DEF S!EditProfile
  <2>2. profile' \in [provider : S!Provider, status : S!Status, recent : BOOLEAN]
    BY <2>1, SavedProfile DEF StreamsInv
  <2>3. QED
    BY <1>1, <1>2, <2>1, <2>2
       DEF StreamsInv, S!StreamsTypeOK, ProviderSet, ReadyMeansReady, S!PublishedWasReady
<1>6. QED
  BY <1>3, <1>4, <1>5

LEMMA StreamsStep == StreamsInv /\ [S!Next]_(S!vars) => StreamsInv'
<1> SUFFICES ASSUME StreamsInv, [S!Next]_(S!vars) PROVE StreamsInv'
  OBVIOUS
<1>1. CASE UNCHANGED S!vars
  BY <1>1 DEF S!vars, StreamsInv, S!StreamsTypeOK, FoundReady, Uploaded, Checked, S!Shows,
              ProviderSet, ReadyMeansReady, S!PublishedWasReady, S!Unready
<1>2. ASSUME NEW v \in Video, S!Advance(v) \/ S!InitStream(v) PROVE StreamsInv'
  BY <1>2, StreamMoves
<1>3. ASSUME NEW r \in Request, (\E v \in Video : S!AskFinalize(r, v)) \/ S!AskStatus(r) \/ S!Abort(r)
      PROVE  StreamsInv'
  BY <1>3, AskUploadStep
<1>4. ASSUME NEW r \in Request, NEW more \in BOOLEAN, S!Finalize(r, more) \/ S!RefreshStatus(r, more)
      PROVE  StreamsInv'
  BY <1>4, WriteUploadStep
<1>5. ASSUME NEW r \in Request,
             \/ \E video \in Video \cup {S!NoVideo}, publish \in BOOLEAN :
                   S!OpenUpdate(r, video, publish)
             \/ S!CheckUpdate(r) \/ S!CommitUpdate(r)
      PROVE  StreamsInv'
  BY <1>5, ReadUpdateStep, UpdateVideoStep
<1>6. CASE \/ S!HalfAnHour \/ S!ToggleLesson
           \/ \E provider \in S!Provider \ {"none"}, status \in S!Status :
                 S!EditProfile(provider, status)
  BY <1>6, OtherStreamSteps
<1>7. QED
  BY <1>1, <1>2, <1>3, <1>4, <1>5, <1>6 DEF S!Next

LEMMA StreamsHolds == S!Spec => []StreamsInv
BY StreamsInit, StreamsStep, PTL DEF S!Spec

\* A Stream video that students can see has been processed, through replaced
\* uploads, late answers of Stream and concurrent finalizations
\* (courses.py:165-171, media.py:184), unless the history excuses it.
THEOREM PublishedWasReadyHolds == S!Spec => []PublishedWasReady
<1>1. StreamsInv => PublishedWasReady
  BY DEF StreamsInv, PublishedWasReady
<1>2. QED
  BY <1>1, StreamsHolds, PTL

-----------------------------------------------------------------------------
(* Media *)

\* What a request has established about the file: a direct upload is discarded
\* only if it is bad, and inserted only if it is not; the server's own upload is
\* the only one of its document; and a request that is about to remove the
\* object has found no row, unless the history says so.
Established(r) ==
    /\ files[r] \in {"validate", "lock", "discard", "look"} => way = "browser"
    /\ files[r] = "discard" => ~M!Valid
    /\ files[r] = "lock" \/ (files[r] = "insert" /\ way = "browser") => M!Valid
    /\ files[r] = "insert" /\ way = "server" =>
          /\ ~asset /\ ticket # "none"
          /\ \A q \in Request \ {r} : files[q] # "insert"
    /\ files[r] = "cleanup" => ~asset \/ late

\* A row stands for a file that was accepted, and of a server for one upload.
RowWasAccepted ==
    asset => (way = "browser" => M!Valid) /\ (way = "server" => ticket # "none")

MediaInv ==
    /\ M!MediaTypeOK
    /\ ticket = "valid" => way = "browser"
    /\ way # "link" => RowWasAccepted /\ \A r \in Request : Established(r)
    /\ M!MissingObjectExplained

FileStep == {"idle", "validate", "lock", "insert", "look", "discard", "cleanup", "erase", "drop"}

LEMMA MediaTypes == M!MediaTypeOK =>
    /\ way \in {"browser", "server", "link"} /\ content \in M!Content
    /\ ticket \in {"none", "valid", "expired"} /\ object \in BOOLEAN /\ asset \in BOOLEAN
    /\ key \in Request \cup {Nobody} /\ erased \in BOOLEAN /\ late \in BOOLEAN
    /\ files \in [Request -> FileStep]
BY DEF M!MediaTypeOK, FileStep

LEMMA MediaInit == M!Init => MediaInv
BY DEF M!Init, MediaInv, M!MediaTypeOK, RowWasAccepted, Established, M!MissingObjectExplained,
       M!Dangling

\* A step of one request that neither adds the row nor removes the object.
LEMMA QuietMediaStep ==
    ASSUME MediaInv, NEW r \in Request, NEW to \in FileStep, M!Become(r, to),
           key' \in Request \cup {Nobody},
           UNCHANGED <<way, content, asset, erased, late>>,
           object' \in BOOLEAN, object => object',
           ticket' \in {"none", "valid", "expired"}, ticket' = "none" => ticket = "none",
           ticket' = "valid" => way = "browser",
           way # "link" => Established(r)'
    PROVE  MediaInv'
<1>1. files \in [Request -> FileStep] /\ files' = [files EXCEPT ![r] = to]
  BY MediaTypes DEF MediaInv, M!Become
<1>2. M!MediaTypeOK' /\ M!MissingObjectExplained'
  BY <1>1, MediaTypes
     DEF MediaInv, M!MediaTypeOK, FileStep, M!MissingObjectExplained, M!Dangling
<1>3. ASSUME way # "link" PROVE RowWasAccepted'
  BY <1>3 DEF MediaInv, RowWasAccepted, M!Valid, M!SignatureValid, M!StructureValid
<1>4. ASSUME way # "link", NEW q \in Request PROVE Established(q)'
  <2>1. CASE q = r
    BY <1>4, <2>1
  <2>2. CASE q # r
    <3>1. Established(q) /\ Established(r)' /\ files'[q] = files[q]
      BY <1>1, <1>4, <2>2 DEF MediaInv
    <3>2. files[q] = "insert" /\ way = "server" => files'[r] # "insert"
      BY <1>1, <2>2, <3>1 DEF Established
    <3>3. QED
      BY <1>1, <3>1, <3>2 DEF Established, M!Valid, M!SignatureValid, M!StructureValid
  <2>3. QED
    BY <2>1, <2>2
<1>5. QED
  BY <1>2, <1>3, <1>4 DEF MediaInv

\* The direct upload up to the lock, the server's upload, and a request that ends.
LEMMA FinalizeSteps ==
    ASSUME MediaInv, NEW r \in Request,
           \/ M!BeginFinalize(r) \/ M!Validate(r) \/ M!Lock(r) \/ M!Store(r)
           \/ M!LookAgain(r) \/ M!Delete(r) \/ M!Abort(r)
    PROVE  MediaInv'
<1> USE MediaTypes DEF MediaInv
<1>1. CASE M!BeginFinalize(r)
  <2>1. M!Become(r, "validate") /\ way = "browser"
        /\ UNCHANGED <<way, content, ticket, object, asset, key, erased, late>>
    BY <1>1 DEF M!BeginFinalize, M!file
  <2>2. Established(r)'
    BY <2>1 DEF Established, M!Become
  <2>3. QED
    BY <2>1, <2>2, QuietMediaStep DEF FileStep
<1>2. CASE M!Validate(r)
  <2>1. PICK to \in {"lock", "discard"} :
          M!Become(r, to) /\ files[r] = "validate" /\ (to = "lock" <=> M!Valid)
    BY <1>2 DEF M!Validate, M!At
  <2>2. UNCHANGED <<way, content, ticket, object, asset, key, erased, late>>
    BY <1>2 DEF M!Validate, M!file
  <2>3. ASSUME way # "link" PROVE Established(r)'
    <3>1. way = "browser"
      BY <2>1, <2>3 DEF Established
    <3>2. QED
      BY <2>1, <2>2, <3>1 DEF Established, M!Become, M!Valid, M!SignatureValid, M!StructureValid
  <2>4. QED
    BY <2>1, <2>2, <2>3, QuietMediaStep DEF FileStep
<1>3. CASE M!Lock(r)
  <2>1. PICK to \in {"idle", "insert"} : M!Become(r, to) /\ files[r] = "lock" /\ key' \in {key, r}
    BY <1>3 DEF M!Lock, M!At
  <2>2. UNCHANGED <<way, content, ticket, object, asset, erased, late>>
    BY <1>3 DEF M!Lock, M!file
  <2>3. ASSUME way # "link" PROVE Established(r)'
    <3>1. way = "browser" /\ M!Valid
      BY <2>1, <2>3 DEF Established
    <3>2. QED
      BY <2>1, <2>2, <3>1 DEF Established, M!Become, M!Valid, M!SignatureValid, M!StructureValid
  <2>4. key' \in Request \cup {Nobody}
    BY <2>1
  <2>5. QED
    BY <2>1, <2>2, <2>3, <2>4, QuietMediaStep DEF FileStep
<1>4. CASE M!Store(r)
  <2>1. /\ M!Become(r, "insert") /\ way = "server" /\ ticket = "none" /\ ticket' = "expired"
        /\ object' = TRUE /\ UNCHANGED <<way, content, asset, key, erased, late>>
    BY <1>4 DEF M!Store, M!SaveUpload, M!file
  <2>2. ~asset /\ \A q \in Request : files[q] # "insert"
    BY <2>1 DEF RowWasAccepted, Established
  <2>3. Established(r)'
    BY <2>1, <2>2 DEF Established, M!Become
  <2>4. QED
    BY <2>1, <2>3, QuietMediaStep DEF FileStep
<1>5. CASE M!LookAgain(r)
  <2>1. /\ M!Become(r, IF asset THEN "idle" ELSE "cleanup")
        /\ UNCHANGED <<way, content, ticket, object, asset, key, erased, late>>
    BY <1>5 DEF M!LookAgain, M!file
  <2>2. Established(r)'
    BY <2>1 DEF Established, M!Become
  <2>3. QED
    BY <2>1, <2>2, QuietMediaStep DEF FileStep
<1>6. CASE M!Delete(r) \/ M!Abort(r)
  <2>1. PICK to \in {"erase", "idle"} : M!Become(r, to)
    BY <1>6 DEF M!Delete, M!Abort
  <2>2. UNCHANGED <<way, content, ticket, object, asset, erased, late>>
        /\ key' \in {key, Nobody}
    BY <1>6 DEF M!Delete, M!Abort, M!Free, M!file
  <2>3. Established(r)'
    BY <2>1 DEF Established, M!Become
  <2>4. key' \in Request \cup {Nobody}
    BY <2>2
  <2>5. QED
    BY <2>1, <2>2, <2>3, <2>4, QuietMediaStep DEF FileStep
<1>7. QED
  BY <1>1, <1>2, <1>3, <1>4, <1>5, <1>6

\* The row is committed: it stands for a file that is there and that nobody is
\* about to remove, or the history says that it was too late.
LEMMA RowStep ==
    ASSUME MediaInv, NEW r \in Request,
           M!Insert(r) \/ \E done \in BOOLEAN : M!CommitFails(r, done)
    PROVE  MediaInv'
<1> USE MediaTypes DEF MediaInv
<1>1. PICK to \in {"idle", "look", "cleanup"} :
        /\ files' = [files EXCEPT ![r] = to]
        /\ to = "look" => way = "browser"
        /\ to = "cleanup" => way # "browser" /\ files'[r] = "cleanup"
  BY DEF M!Insert, M!CommitFails, M!Become
<1>2. /\ UNCHANGED <<way, content, ticket, object, erased>> /\ files[r] = "insert"
      /\ asset' \in BOOLEAN /\ late' \in BOOLEAN /\ (late => late')
      /\ \/ asset' = asset
         \/ ~asset /\ asset' /\ (M!TooLate(r) => late') /\ (to = "cleanup" /\ way = "server" => late')
  <2>1. CASE M!Insert(r)
    <3>1. ~asset /\ asset' = TRUE /\ late' = (late \/ M!TooLate(r)) /\ M!Become(r, "idle")
          /\ UNCHANGED <<way, content, ticket, object, erased>> /\ files[r] = "insert"
      BY <2>1 DEF M!Insert, M!file, M!At
    <3>2. late' \in BOOLEAN /\ asset' \in BOOLEAN
      BY <3>1
    <3>3. to = "idle"
      BY <1>1, <3>1 DEF M!Become
    <3>4. QED
      BY <3>1, <3>2, <3>3
  <2>2. ASSUME NEW done \in BOOLEAN, M!CommitFails(r, done)
        PROVE  /\ UNCHANGED <<way, content, ticket, object, erased>> /\ files[r] = "insert"
               /\ asset' \in BOOLEAN /\ late' \in BOOLEAN /\ (late => late')
               /\ \/ asset' = asset
                  \/ ~asset /\ asset' /\ (M!TooLate(r) => late') /\ (way = "server" => late')
    <3>1. (done => ~asset) /\ asset' = (asset \/ done)
          /\ late' = (late \/ (done /\ (M!TooLate(r) \/ way = "server")))
          /\ UNCHANGED <<way, content, ticket, object, erased>> /\ files[r] = "insert"
      BY <2>2 DEF M!CommitFails, M!file, M!At
    <3>2. late' \in BOOLEAN /\ asset' \in BOOLEAN
      BY <3>1
    <3>3. QED
      BY <3>1, <3>2
  <2>3. QED
    BY <2>1, <2>2
<1>3. key' \in Request \cup {Nobody}
  BY DEF M!Insert, M!CommitFails, M!Free
<1>4. M!MediaTypeOK'
  BY <1>1, <1>2, <1>3 DEF M!MediaTypeOK, FileStep
<1>5. M!MissingObjectExplained'
  BY <1>2 DEF M!MissingObjectExplained, M!Dangling, M!TooLate
<1>6. ASSUME way # "link" PROVE RowWasAccepted'
  <2>1. RowWasAccepted /\ Established(r)
    BY <1>6
  <2>2. QED
    BY <1>2, <2>1 DEF RowWasAccepted, Established, M!Valid, M!SignatureValid, M!StructureValid
<1>7. ASSUME way # "link", NEW q \in Request PROVE Established(q)'
  <2>1. Established(q) /\ Established(r)
    BY <1>7
  <2>2. CASE q = r
    <3>1. files'[q] = to
      BY <1>1, <2>2
    <3>2. to = "cleanup" => ~asset' \/ late'
      <4>1. to = "cleanup" => way = "server"
        BY <1>1, <1>7
      <4>2. QED
        BY <1>2, <2>1, <4>1 DEF Established
    <3>3. QED
      BY <1>1, <1>2, <3>1, <3>2 DEF Established
  <2>3. CASE q # r
    <3>1. files'[q] = files[q]
      BY <1>1, <2>3
    <3>2. files[q] = "insert" => way # "server"
      BY <1>2, <2>1, <2>3 DEF Established
    <3>3. files[q] = "cleanup" => ~asset' \/ late'
      <4>1. files[q] = "cleanup" => M!TooLate(r)
        BY <2>3 DEF M!TooLate, M!At
      <4>2. QED
        BY <1>2, <2>1, <4>1 DEF Established
    <3>4. QED
      BY <1>2, <2>1, <3>1, <3>2, <3>3
         DEF Established, M!Valid, M!SignatureValid, M!StructureValid
  <2>4. QED
    BY <2>2, <2>3
<1>8. QED
  BY <1>2, <1>4, <1>5, <1>6, <1>7

\* The object is removed: because the file is bad or could not be linked, and
\* then no row has it, or by a deletion.
LEMMA RemovalStep ==
    ASSUME MediaInv, NEW r \in Request, M!Discard(r) \/ M!Erase(r) \/ M!Drop(r)
    PROVE  MediaInv'
<1> USE MediaTypes DEF MediaInv
<1>1. PICK to \in {"idle", "drop"} : files' = [files EXCEPT ![r] = to]
  BY DEF M!Discard, M!Erase, M!Drop, M!Become
<1>2. UNCHANGED <<way, content, ticket, key, late>> /\ files'[r] \in {"idle", "drop"}
  BY <1>1 DEF M!Discard, M!Erase, M!Drop, M!file
<1>3. object' \in BOOLEAN /\ asset' \in BOOLEAN /\ erased' \in BOOLEAN /\ (asset' => asset)
  <2>1. CASE M!Drop(r)
    BY <2>1 DEF M!Drop
  <2>2. CASE M!Erase(r)
    <3>1. object' = FALSE /\ erased' = (erased \/ way # "link") /\ asset' = asset
      BY <2>2 DEF M!Erase
    <3>2. erased' \in BOOLEAN
      BY <3>1
    <3>3. QED
      BY <3>1, <3>2
  <2>3. CASE M!Discard(r)
    BY <2>3 DEF M!Discard
  <2>4. QED
    BY <2>1, <2>2, <2>3
<1>4. M!MediaTypeOK'
  BY <1>1, <1>2, <1>3 DEF M!MediaTypeOK, FileStep
<1>5. M!MissingObjectExplained'
  <2>1. CASE M!Drop(r)
    BY <2>1 DEF M!Drop, M!MissingObjectExplained, M!Dangling
  <2>2. CASE M!Erase(r)
    BY <1>2, <2>2 DEF M!Erase, M!MissingObjectExplained
  <2>3. CASE M!Discard(r)
    <3>1. ASSUME way # "link" PROVE ~asset \/ late
      <4>1. Established(r) /\ RowWasAccepted /\ files[r] \in {"discard", "cleanup"}
        BY <2>3, <3>1 DEF M!Discard, M!At
      <4>2. QED
        BY <4>1 DEF Established, RowWasAccepted
    <3>2. QED
      BY <1>2, <1>3, <3>1 DEF M!MissingObjectExplained, M!Dangling
  <2>4. QED
    BY <2>1, <2>2, <2>3
<1>6. ASSUME way # "link" PROVE RowWasAccepted'
  BY <1>2, <1>3, <1>6 DEF RowWasAccepted, M!Valid, M!SignatureValid, M!StructureValid
<1>7. ASSUME way # "link", NEW q \in Request PROVE Established(q)'
  <2>1. Established(q)
    BY <1>7
  <2>2. files'[q] = files[q] \/ files'[q] \in {"idle", "drop"}
    BY <1>1
  <2>3. \A a \in Request : files'[a] = "insert" => files[a] = "insert"
    BY <1>1
  <2>4. QED
    BY <1>2, <1>3, <2>1, <2>2, <2>3
       DEF Established, M!Valid, M!SignatureValid, M!StructureValid
<1>8. QED
  BY <1>2, <1>4, <1>5, <1>6, <1>7

\* The browser, time, and a link to a file elsewhere.
LEMMA FileSteps ==
    ASSUME MediaInv, M!InitDirect \/ M!Expire \/ M!Put \/ M!Link
    PROVE  MediaInv'
<1> USE MediaTypes DEF MediaInv
<1>1. /\ UNCHANGED <<way, content, key, erased, late, files>>
      /\ ticket' \in {"none", "valid", "expired"} /\ (ticket' = "none" => ticket = "none")
      /\ ticket' = "valid" => way = "browser"
      /\ object' \in BOOLEAN /\ (object => object')
      /\ asset' \in BOOLEAN /\ (asset' = asset \/ way = "link")
  <2>1. CASE M!InitDirect
    BY <2>1 DEF M!InitDirect, M!file
  <2>2. CASE M!Expire
    BY <2>2 DEF M!Expire, M!file
  <2>3. CASE M!Put
    BY <2>3 DEF M!Put, M!file
  <2>4. CASE M!Link
    BY <2>4 DEF M!Link, M!file
  <2>5. QED
    BY <2>1, <2>2, <2>3, <2>4
<1>2. M!MediaTypeOK' /\ M!MissingObjectExplained'
  BY <1>1 DEF M!MediaTypeOK, M!MissingObjectExplained, M!Dangling
<1>3. ASSUME way # "link" PROVE RowWasAccepted' /\ \A r \in Request : Established(r)'
  BY <1>1, <1>3 DEF RowWasAccepted, Established, M!Valid, M!SignatureValid, M!StructureValid
<1>4. QED
  BY <1>1, <1>2, <1>3

LEMMA MediaStep == MediaInv /\ [M!Next]_(M!vars) => MediaInv'
<1> SUFFICES ASSUME MediaInv, [M!Next]_(M!vars) PROVE MediaInv'
  OBVIOUS
<1>1. CASE UNCHANGED M!vars
  BY <1>1 DEF M!vars, MediaInv, M!MediaTypeOK, RowWasAccepted, Established, M!Valid,
              M!SignatureValid, M!StructureValid, M!MissingObjectExplained, M!Dangling
<1>2. CASE M!InitDirect \/ M!Expire \/ M!Put \/ M!Link
  BY <1>2, FileSteps
<1>3. ASSUME NEW r \in Request,
             \/ M!BeginFinalize(r) \/ M!Validate(r) \/ M!Lock(r) \/ M!Store(r)
             \/ M!LookAgain(r) \/ M!Delete(r) \/ M!Abort(r)
      PROVE  MediaInv'
  BY <1>3, FinalizeSteps
<1>4. ASSUME NEW r \in Request, M!Insert(r) \/ \E done \in BOOLEAN : M!CommitFails(r, done)
      PROVE  MediaInv'
  BY <1>4, RowStep
<1>5. ASSUME NEW r \in Request, M!Discard(r) \/ M!Erase(r) \/ M!Drop(r) PROVE MediaInv'
  BY <1>5, RemovalStep
<1>6. QED
  BY <1>1, <1>2, <1>3, <1>4, <1>5 DEF M!Next

LEMMA MediaHolds == M!Spec => []MediaInv
BY MediaInit, MediaStep, PTL DEF M!Spec

\* A document that students are offered has its file: retried, concurrent and
\* failing finalizations never delete an object that another request has linked
\* (media.py:284), apart from the cases the history names.
THEOREM MissingObjectExplainedHolds == M!Spec => []MissingObjectExplained
<1>1. MediaInv => MissingObjectExplained
  BY DEF MediaInv, MissingObjectExplained
<1>2. QED
  BY <1>1, MediaHolds, PTL

-----------------------------------------------------------------------------
(* Groups *)

\* What a request in flight has read is still true in what matters: rows are
\* never deleted.  A student who is moved to a group known to have the course, or
\* imported, is among those it serves.
StillThere(a) ==
    desk[a] # C!Idle =>
        /\ \A s \in Student : desk[a].saw[s] \in {"on", "off"} => access[s] # "none"
        /\ desk[a].pc = "import" \/ (desk[a].pc = "move" /\ desk[a].sawGiven) =>
              desk[a].saw[desk[a].student] # "-"

GroupsInv ==
    /\ C!GroupsTypeOK
    /\ DOMAIN desk = Request /\ desk = [a \in Request |-> desk[a]]
    /\ \A a \in Request : StillThere(a)
    /\ C!MembersEnrolled

LEMMA GroupsConstants == NoGroup \notin Group
BY PartsAssumption DEF C!GroupsAssumption

LEMMA GroupsInit == C!Init => GroupsInv
<1> SUFFICES ASSUME C!Init PROVE GroupsInv
  OBVIOUS
<1>1. C!GroupsTypeOK
  BY DEF C!Init, C!GroupsTypeOK, C!Rows
<1>2. DOMAIN desk = Request /\ desk = [a \in Request |-> desk[a]] /\ \A a \in Request : StillThere(a)
  BY DEF C!Init, StillThere
<1>3. C!MembersEnrolled
  BY DEF C!Init, C!MembersEnrolled
<1>4. QED
  BY <1>1, <1>2, <1>3 DEF GroupsInv

\* A request begins.
LEMMA HandStep ==
    ASSUME GroupsInv, NEW a \in Request, NEW kind \in {"move", "page", "import", "give"},
           NEW s \in Student, NEW g \in Group, NEW heirs,
           C!Hand(a, kind, s, g, heirs),
           kind = "import" \/ (kind = "move" /\ g \in given) => s \in heirs
    PROVE  GroupsInv'
<1> DEFINE saw == [x \in Student |-> IF x \in heirs THEN access[x] ELSE "-"]
           q   == [pc |-> kind, student |-> s, group |-> g, sawGiven |-> g \in given, saw |-> saw]
<1>1. /\ desk' = [desk EXCEPT ![a] = q]
      /\ UNCHANGED <<member, given, access, class, owner, attendance, slipped>>
  BY DEF C!Hand
<1>2. saw \in [Student -> C!Rows \cup {"-"}] /\ access \in [Student -> C!Rows]
  BY DEF GroupsInv, C!GroupsTypeOK
<1>3. \A x \in Student : saw[x] \in {"on", "off"} => access[x] # "none"
  OBVIOUS
<1>4. s \in heirs => saw[s] # "-"
  BY <1>2 DEF C!Rows
<1> HIDE DEF saw
<1>5. q \in C!Handing
  <2>1. (g \in given) \in BOOLEAN
    OBVIOUS
  <2>2. QED
    BY <1>2, <2>1 DEF C!Handing
<1>6. /\ desk'[a] = q /\ (\A b \in Request : b # a => desk'[b] = desk[b])
      /\ DOMAIN desk' = Request /\ desk' = [b \in Request |-> desk'[b]]
  BY <1>1 DEF GroupsInv
<1>7. StillThere(a)'
  BY <1>1, <1>3, <1>4, <1>6 DEF StillThere
<1>8. \A b \in Request : b # a => StillThere(b)'
  BY <1>1, <1>6 DEF GroupsInv, StillThere
<1>9. C!GroupsTypeOK'
  BY <1>1, <1>5, <1>6 DEF GroupsInv, C!GroupsTypeOK
<1>10. C!MembersEnrolled'
  BY <1>1 DEF GroupsInv, C!MembersEnrolled
<1>11. QED
  BY <1>6, <1>7, <1>8, <1>9, <1>10 DEF GroupsInv

LEMMA BeginStep ==
    ASSUME GroupsInv, NEW a \in Request, NEW s \in Student, NEW g \in Group,
           C!BeginMove(a, s, g) \/ C!BeginPage(a, s, g) \/ C!BeginImport(a, s, g) \/ C!BeginGive(a, s, g)
    PROVE  GroupsInv'
<1>1. CASE C!BeginMove(a, s, g)
  <2>1. g \in given => s \in C!Moved(s, g)
    BY DEF C!Moved
  <2>2. QED
    BY <1>1, <2>1, HandStep DEF C!BeginMove
<1>2. CASE C!BeginPage(a, s, g)
  BY <1>2, HandStep DEF C!BeginPage
<1>3. CASE C!BeginImport(a, s, g)
  BY <1>3, HandStep DEF C!BeginImport
<1>4. CASE C!BeginGive(a, s, g)
  BY <1>4, HandStep DEF C!BeginGive
<1>5. QED
  BY <1>1, <1>2, <1>3, <1>4

\* A request that ends leaves the others what they know, if no row goes.
LEMMA OthersKnow ==
    ASSUME GroupsInv, NEW a \in Request, desk' = [desk EXCEPT ![a] = C!Idle],
           \A s \in Student : access[s] # "none" => access'[s] # "none"
    PROVE  /\ DOMAIN desk' = Request /\ desk' = [b \in Request |-> desk'[b]]
           /\ \A b \in Request : /\ StillThere(b)'
                                 /\ desk'[b] = C!Idle \/ desk'[b] \in C!Handing
<1>1. /\ desk'[a] = C!Idle /\ (\A b \in Request : b # a => desk'[b] = desk[b])
      /\ DOMAIN desk' = Request /\ desk' = [b \in Request |-> desk'[b]]
  BY DEF GroupsInv
<1>2. QED
  BY <1>1 DEF GroupsInv, StillThere, C!GroupsTypeOK

\* The commit: whoever is in a group that has the course, and has no row, was
\* passed by just now or before.
LEMMA CommitStep ==
    ASSUME GroupsInv, NEW a \in Request, C!Commit(a)
    PROVE  GroupsInv'
<1> DEFINE q == desk[a]
           served == {s \in Student : q.saw[s] # "-"}
           passed == IF q.pc = "give" THEN C!Members(q.group)
                     ELSE {s \in {q.student} : q.pc = "page" \/ q.sawGiven # (q.group \in given)}
<1>1. /\ q # C!Idle
      /\ access' = [s \in Student |-> IF q.saw[s] \in {"none", "off"} THEN "on" ELSE access[s]]
      /\ member' = IF q.pc = "give" THEN member ELSE [member EXCEPT ![q.student] = q.group]
      /\ given' = IF q.pc = "give" /\ ~q.sawGiven THEN given \cup {q.group} ELSE given
      /\ slipped' = (slipped \cup passed) \ served
      /\ desk' = [desk EXCEPT ![a] = C!Idle]
      /\ UNCHANGED <<class, owner, attendance>>
  BY DEF C!Commit
<1>2. /\ q \in C!Handing /\ q.student \in Student /\ q.group \in Group
      /\ q.pc \in {"move", "page", "import", "give"} /\ q.sawGiven \in BOOLEAN
      /\ q.saw \in [Student -> C!Rows \cup {"-"}]
  BY <1>1 DEF GroupsInv, C!GroupsTypeOK, C!Handing
<1>3. /\ member \in [Student -> Group \cup {NoGroup}] /\ given \subseteq Group
      /\ access \in [Student -> C!Rows] /\ slipped \subseteq Student
  BY DEF GroupsInv, C!GroupsTypeOK
<1>4. passed \subseteq Student
  BY <1>2 DEF C!Members
<1>5. \A s \in Student : access'[s] = "none" => access[s] = "none" /\ s \notin served
  <2> SUFFICES ASSUME NEW s \in Student, access'[s] = "none"
               PROVE  access[s] = "none" /\ q.saw[s] = "-"
    OBVIOUS
  <2>1. q.saw[s] \notin {"none", "off"} /\ access[s] = "none"
    BY <1>1
  <2>2. q.saw[s] \notin {"on", "off"}
    BY <1>1, <2>1 DEF GroupsInv, StillThere
  <2>3. q.saw[s] \in {"none", "on", "off", "-"}
    BY <1>2 DEF C!Rows
  <2>4. QED
    BY <2>1, <2>2, <2>3
<1>6. C!MembersEnrolled'
  <2> SUFFICES ASSUME NEW s \in Student, member'[s] \in given', access'[s] = "none"
               PROVE  s \in slipped'
    BY DEF C!MembersEnrolled
  <2>1. access[s] = "none" /\ s \notin served
    BY <1>5
  <2>2. SUFFICES s \in slipped \/ s \in passed
    BY <1>1, <2>1
  <2>3. CASE member'[s] = member[s] /\ member[s] \in given
    BY <2>1, <2>3 DEF GroupsInv, C!MembersEnrolled
  <2>4. CASE q.pc = "give"
    <3>1. member'[s] = member[s]
      BY <1>1, <2>4
    <3>2. member[s] \in given \/ member[s] = q.group
      BY <1>1, <3>1
    <3>3. passed = C!Members(q.group)
      BY <2>4
    <3>4. QED
      BY <2>3, <3>1, <3>2, <3>3 DEF C!Members
  <2>5. CASE q.pc # "give"
    <3>1. /\ member'[s] = IF s = q.student THEN q.group ELSE member[s]
          /\ given' = given
      BY <1>1, <1>3, <2>5
    <3>2. CASE s # q.student
      BY <2>3, <3>1, <3>2
    <3>3. CASE s = q.student
      <4>1. q.group \in given
        BY <3>1, <3>3
      <4>2. ~(q.pc = "import" \/ (q.pc = "move" /\ q.sawGiven))
        BY <1>1, <2>1, <3>3 DEF GroupsInv, StillThere
      <4>3. q.pc = "page" \/ q.sawGiven # (q.group \in given)
        <5>1. q.pc = "page" \/ (q.pc = "move" /\ ~q.sawGiven)
          BY <1>2, <2>5, <4>2
        <5>2. QED
          BY <1>2, <4>1, <5>1
      <4>4. passed = {q.student}
        BY <2>5, <4>3
      <4>5. QED
        BY <3>3, <4>4
    <3>4. QED
      BY <3>2, <3>3
  <2>6. QED
    BY <2>4, <2>5
<1>7. /\ member' \in [Student -> Group \cup {NoGroup}] /\ given' \subseteq Group
      /\ access' \in [Student -> C!Rows] /\ slipped' \subseteq Student
  BY <1>1, <1>2, <1>3, <1>4 DEF C!Rows
<1>8. /\ DOMAIN desk' = Request /\ desk' = [b \in Request |-> desk'[b]]
      /\ \A b \in Request : /\ StillThere(b)'
                            /\ desk'[b] = C!Idle \/ desk'[b] \in C!Handing
  BY <1>1, <1>5, OthersKnow
<1>9. C!GroupsTypeOK'
  BY <1>1, <1>7, <1>8 DEF GroupsInv, C!GroupsTypeOK
<1>10. QED
  BY <1>6, <1>8, <1>9 DEF GroupsInv

LEMMA AbortHandStep ==
    ASSUME GroupsInv, NEW a \in Request, C!Abort(a)
    PROVE  GroupsInv'
<1>1. /\ desk' = [desk EXCEPT ![a] = C!Idle]
      /\ UNCHANGED <<member, given, access, class, owner, attendance, slipped>>
  BY DEF C!Abort
<1>2. /\ DOMAIN desk' = Request /\ desk' = [b \in Request |-> desk'[b]]
      /\ \A b \in Request : /\ StillThere(b)'
                            /\ desk'[b] = C!Idle \/ desk'[b] \in C!Handing
  BY <1>1, OthersKnow
<1>3. QED
  BY <1>1, <1>2 DEF GroupsInv, C!GroupsTypeOK, C!MembersEnrolled

\* One row at a time: membership ends, the course is taken back, and enrolments
\* come and go elsewhere.
LEMMA SimpleStep ==
    ASSUME GroupsInv, C!Simple
    PROVE  GroupsInv'
<1>1. UNCHANGED <<class, owner, attendance, slipped, desk>>
  BY DEF C!Simple, C!Remove, C!EnrolElsewhere, C!TakeBack
<1>2. /\ member \in [Student -> Group \cup {NoGroup}] /\ given \subseteq Group
      /\ access \in [Student -> C!Rows]
  BY DEF GroupsInv, C!GroupsTypeOK
<1>3. ASSUME NEW s \in Student, C!Remove(s) PROVE GroupsInv'
  <2>1. member' = [member EXCEPT ![s] = NoGroup] /\ UNCHANGED <<given, access>>
    BY <1>3 DEF C!Remove
  <2>2. C!MembersEnrolled'
    BY <1>1, <1>2, <2>1, GroupsConstants DEF GroupsInv, C!MembersEnrolled
  <2>3. QED
    BY <1>1, <1>2, <2>1, <2>2 DEF GroupsInv, C!GroupsTypeOK, StillThere
<1>4. ASSUME NEW s \in Student, C!EnrolElsewhere(s) PROVE GroupsInv'
  <2>1. /\ access' = [access EXCEPT ![s] = IF @ = "on" THEN "off" ELSE "on"]
        /\ UNCHANGED <<member, given>>
    BY <1>4 DEF C!EnrolElsewhere
  <2>2. access' \in [Student -> C!Rows] /\ \A x \in Student : access[x] # "none" => access'[x] # "none"
    BY <1>2, <2>1 DEF C!Rows
  <2>3. \A x \in Student : access'[x] = "none" => access[x] = "none"
    BY <1>2, <2>1
  <2>4. C!MembersEnrolled'
    BY <1>1, <2>1, <2>3 DEF GroupsInv, C!MembersEnrolled
  <2>5. QED
    BY <1>1, <2>1, <2>2, <2>4 DEF GroupsInv, C!GroupsTypeOK, StillThere
<1>5. ASSUME NEW g \in Group, C!TakeBack(g) PROVE GroupsInv'
  <2>1. given' = given \ {g} /\ UNCHANGED <<member, access>>
    BY <1>5 DEF C!TakeBack
  <2>2. QED
    BY <1>1, <2>1 DEF GroupsInv, C!GroupsTypeOK, C!MembersEnrolled, StillThere
<1>6. QED
  BY <1>3, <1>4, <1>5 DEF C!Simple

\* The class concerns no group's course.
LEMMA ClassSteps ==
    ASSUME GroupsInv, C!ClassStep
    PROVE  GroupsInv'
<1>1. UNCHANGED <<member, given, access, slipped, desk>>
  BY DEF C!ClassStep, C!CreateClass, C!SetStatus, C!Reserve, C!Join, C!Mark
<1>2. /\ class' \in {"none", "scheduled", "cancelled"} /\ owner' \in Group \cup {NoGroup}
      /\ (owner' # NoGroup => class' # "none")
      /\ attendance' \in [Student -> {"none", "present", "absent"}]
  <2>1. CASE \/ C!CreateClass
             \/ \E status \in {"scheduled", "cancelled"} : C!SetStatus(status)
    BY <2>1 DEF C!CreateClass, C!SetStatus, GroupsInv, C!GroupsTypeOK
  <2>2. ASSUME NEW g \in Group, NEW action, C!Reserve(g, action)
        PROVE  owner' \in {g, NoGroup, owner} /\ class # "none" /\ UNCHANGED <<class, attendance>>
    BY <2>2 DEF C!Reserve
  <2>3. CASE \E s \in Student : C!Join(s) \/ \E status \in {"present", "absent"} : C!Mark(s, status)
    BY <2>3 DEF C!Join, C!Mark, GroupsInv, C!GroupsTypeOK
  <2>4. QED
    BY <2>1, <2>2, <2>3 DEF C!ClassStep, GroupsInv, C!GroupsTypeOK
<1>3. QED
  BY <1>1, <1>2 DEF GroupsInv, C!GroupsTypeOK, C!MembersEnrolled, StillThere

LEMMA GroupsStep == GroupsInv /\ [C!Next]_(C!vars) => GroupsInv'
<1> SUFFICES ASSUME GroupsInv, [C!Next]_(C!vars) PROVE GroupsInv'
  OBVIOUS
<1>1. CASE UNCHANGED C!vars
  BY <1>1 DEF C!vars, GroupsInv, C!GroupsTypeOK, C!MembersEnrolled, StillThere
<1>2. ASSUME NEW a \in Request, NEW s \in Student, NEW g \in Group,
             \/ C!BeginMove(a, s, g) \/ C!BeginPage(a, s, g)
             \/ C!BeginImport(a, s, g) \/ C!BeginGive(a, s, g)
      PROVE  GroupsInv'
  BY <1>2, BeginStep
<1>3. ASSUME NEW a \in Request, C!Commit(a) \/ C!Abort(a) PROVE GroupsInv'
  BY <1>3, CommitStep, AbortHandStep
<1>4. C!HandOver => GroupsInv'
  BY <1>2, <1>3 DEF C!HandOver
<1>5. QED
  BY <1>1, <1>4, SimpleStep, ClassSteps DEF C!Next

LEMMA GroupsHolds == C!Spec => []GroupsInv
BY GroupsInit, GroupsStep, PTL DEF C!Spec

\* Every member of a group was enrolled in the group's course, whichever page
\* moved the student and whichever came first (services/community.py:45), apart
\* from those whom a request passed by, which the history names.
THEOREM MembersEnrolledHolds == C!Spec => []MembersEnrolled
<1>1. GroupsInv => MembersEnrolled
  BY DEF GroupsInv, MembersEnrolled
<1>2. QED
  BY <1>1, GroupsHolds, PTL

-----------------------------------------------------------------------------
(* Sums of points                                                          *)

\* Among subsets of a finite set there are some that contain no other one.
LEMMA SmallestOfSets ==
    ASSUME NEW all, IsFiniteSet(all), NEW some \in SUBSET (SUBSET all), some # {}
    PROVE  \E s \in some : \A t \in some : t \subseteq s => t = s
<1> DEFINE less  == {ss \in Nat \X Nat : ss[1] < ss[2]}
           sizes == {Cardinality(s) : s \in some}
<1>1. IsWellFoundedOn(less, Nat)
  BY NatLessThanWellFounded DEF OpToRel
<1>2. \A s \in some : IsFiniteSet(s) /\ Cardinality(s) \in Nat
  BY FS_Subset, FS_CardinalityType
<1>3. sizes \subseteq Nat /\ sizes # {}
  BY <1>2
<1>4. \A m, n \in Nat : m < n => <<m, n>> \in less
  OBVIOUS
<1> HIDE DEF less, sizes
<1>5. PICK n \in sizes : \A m \in sizes : <<m, n>> \notin less
  BY <1>1, <1>3, WFMin
<1>6. PICK s \in some : n = Cardinality(s)
  BY <1>5 DEF sizes
<1>7. ASSUME NEW t \in some, t \subseteq s, t # s PROVE FALSE
  <2>1. Cardinality(t) <= Cardinality(s) /\ Cardinality(t) # Cardinality(s)
    BY <1>2, <1>7, FS_Subset
  <2>2. Cardinality(t) < n /\ Cardinality(t) \in sizes
    BY <1>2, <1>6, <2>1 DEF sizes
  <2>3. QED
    BY <1>3, <1>4, <1>5, <2>2
<1>8. QED
  BY <1>7

\* MapThenSumSet takes some element out of the set, and some out of the rest.
First(some) == CHOOSE q \in some : TRUE

Adds(f, p, some) ==
    f = [s \in SUBSET some |-> IF s = {} THEN 0 ELSE p[First(s)] + f[s \ {First(s)}]]

AddsUp(p, s) == Q!Sum(p, s) = IF s = {} THEN 0 ELSE p[First(s)] + Q!Sum(p, s \ {First(s)})

LEMMA SumIs == ASSUME NEW p, NEW some
               PROVE  Q!Sum(p, some) = (CHOOSE f : Adds(f, p, some))[some]
BY DEF Q!Sum, Q!MapThenSumSet, Q!MapThenFoldSet, Adds, First

\* At most one function adds up the subsets of a finite set.
LEMMA OneAdds ==
    ASSUME NEW p, NEW some, IsFiniteSet(some), NEW f, Adds(f, p, some), NEW g, Adds(g, p, some)
    PROVE  \A s \in SUBSET some : f[s] = g[s]
<1> DEFINE differ == {s \in SUBSET some : f[s] # g[s]}
<1>1. SUFFICES ASSUME differ # {} PROVE FALSE
  OBVIOUS
<1>2. PICK s \in differ : \A t \in differ : t \subseteq s => t = s
  <2>1. differ \in SUBSET (SUBSET some)
    OBVIOUS
  <2> HIDE DEF differ
  <2>2. QED
    BY <1>1, <2>1, SmallestOfSets
<1>3. s \in SUBSET some /\ f[s] # g[s]
  BY <1>2
<1>4. /\ f[s] = IF s = {} THEN 0 ELSE p[First(s)] + f[s \ {First(s)}]
      /\ g[s] = IF s = {} THEN 0 ELSE p[First(s)] + g[s \ {First(s)}]
  BY <1>3 DEF Adds
<1>5. s # {} => First(s) \in s
  BY DEF First
<1>6. s # {} => s \ {First(s)} \notin differ
  BY <1>2, <1>5
<1>7. s # {} => f[s \ {First(s)}] = g[s \ {First(s)}]
  BY <1>3, <1>6
<1>8. QED
  BY <1>3, <1>4, <1>7

\* So the sum of a finite set is what it should be.
LEMMA SumAddsUp ==
    ASSUME NEW p, NEW all, IsFiniteSet(all)
    PROVE  AddsUp(p, all)
<1> DEFINE bad == {s \in SUBSET all : ~AddsUp(p, s)}
<1>1. SUFFICES ASSUME bad # {} PROVE FALSE
  OBVIOUS
<1>2. PICK s \in bad : \A t \in bad : t \subseteq s => t = s
  <2>1. bad \in SUBSET (SUBSET all)
    OBVIOUS
  <2> HIDE DEF bad
  <2>2. QED
    BY <1>1, <2>1, SmallestOfSets
<1>3. s \in SUBSET all /\ ~AddsUp(p, s) /\ IsFiniteSet(s)
  BY <1>2, FS_Subset
<1>4. \A t \in SUBSET s : t # s => AddsUp(p, t)
  BY <1>2, <1>3
<1> HIDE DEF bad
<1> DEFINE rest(t) == t \ {First(t)}
           value == IF s = {} THEN 0 ELSE p[First(s)] + Q!Sum(p, rest(s))
           f == [t \in SUBSET s |-> IF t = s THEN value ELSE Q!Sum(p, t)]
<1>5. \A t \in SUBSET s : t # {} => First(t) \in t /\ rest(t) \in SUBSET s /\ rest(t) # s
  BY DEF First
<1>6. ASSUME NEW t \in SUBSET s
      PROVE  f[t] = IF t = {} THEN 0 ELSE p[First(t)] + f[rest(t)]
  <2>1. t # {} => f[rest(t)] = Q!Sum(p, rest(t))
    BY <1>5
  <2>2. CASE t = s
    BY <2>1, <2>2
  <2>3. CASE t # s
    BY <1>4, <2>1, <2>3 DEF AddsUp
  <2>4. QED
    BY <2>2, <2>3
<1>7. Adds(f, p, s)
  <2>1. f = [t \in SUBSET s |-> f[t]]
    OBVIOUS
  <2> HIDE DEF f
  <2>2. QED
    BY <1>6, <2>1 DEF Adds
<1>8. f[s] = value
  OBVIOUS
<1> HIDE DEF f
<1>9. Adds(CHOOSE g : Adds(g, p, s), p, s)
  BY <1>7
<1>10. (CHOOSE g : Adds(g, p, s))[s] = f[s]
  BY <1>3, <1>7, <1>9, OneAdds
<1>11. Q!Sum(p, s) = value
  BY <1>8, <1>10, SumIs
<1>12. QED
  BY <1>3, <1>11 DEF AddsUp

\* The order does not matter, and sums of points are points.
LEMMA SumOfOthers ==
    ASSUME NEW p, NEW all, IsFiniteSet(all), \A q \in all : p[q] \in Nat
    PROVE  /\ Q!Sum(p, all) \in Nat
           /\ \A q \in all : Q!Sum(p, all) = p[q] + Q!Sum(p, all \ {q})
<1> DEFINE Right(s) == /\ Q!Sum(p, s) \in Nat
                       /\ \A q \in s : Q!Sum(p, s) = p[q] + Q!Sum(p, s \ {q})
           bad == {s \in SUBSET all : ~Right(s)}
<1>1. SUFFICES ASSUME bad # {} PROVE FALSE
  OBVIOUS
<1>2. PICK s \in bad : \A t \in bad : t \subseteq s => t = s
  <2>1. bad \in SUBSET (SUBSET all)
    OBVIOUS
  <2> HIDE DEF bad
  <2>2. QED
    BY <1>1, <2>1, SmallestOfSets
<1>3. s \in SUBSET all /\ ~Right(s) /\ AddsUp(p, s)
  BY <1>2, FS_Subset, SumAddsUp
<1>4. \A t \in SUBSET s : t # s => Right(t)
  BY <1>2, <1>3
<1> HIDE DEF bad
<1>5. CASE s = {}
  BY <1>3, <1>5 DEF AddsUp
<1>6. CASE s # {}
  <2>1. PICK x \in s : Q!Sum(p, s) = p[x] + Q!Sum(p, s \ {x})
    BY <1>3, <1>6 DEF AddsUp, First
  <2>2. p[x] \in Nat /\ Right(s \ {x}) /\ Q!Sum(p, s) \in Nat
    BY <1>3, <1>4, <2>1
  <2>3. ASSUME NEW q \in s, q # x PROVE Q!Sum(p, s) = p[q] + Q!Sum(p, s \ {q})
    <3>1. (s \ {x}) \ {q} = (s \ {q}) \ {x} /\ q \in s \ {x} /\ x \in s \ {q}
      BY <2>3
    <3>2. Right(s \ {q}) /\ p[q] \in Nat
      BY <1>3, <1>4, <2>3
    <3> DEFINE left == (s \ {x}) \ {q}
    <3>3. Right(left)
      BY <1>4, <3>1
    <3>4. Q!Sum(p, s \ {x}) = p[q] + Q!Sum(p, left) /\ Q!Sum(p, s \ {q}) = p[x] + Q!Sum(p, left)
      BY <2>2, <3>1, <3>2
    <3>5. Q!Sum(p, left) \in Nat
      BY <3>3
    <3> HIDE DEF left
    <3>6. QED
      BY <2>1, <2>2, <3>2, <3>4, <3>5
  <2>4. QED
    BY <1>3, <2>1, <2>2, <2>3
<1>7. QED
  BY <1>5, <1>6

\* Fewer questions bring no more points.
LEMMA SumOfFewer ==
    ASSUME NEW p, NEW all, IsFiniteSet(all), \A q \in all : p[q] \in Nat, NEW some \in SUBSET all
    PROVE  Q!Sum(p, some) \in Nat /\ Q!Sum(p, all) \in Nat /\ Q!Sum(p, some) <= Q!Sum(p, all)
<1> DEFINE bad == {s \in SUBSET all : some \subseteq s /\ ~(Q!Sum(p, some) <= Q!Sum(p, s))}
<1>1. \A s \in SUBSET all : Q!Sum(p, s) \in Nat
  BY FS_Subset, SumOfOthers
<1>2. SUFFICES ASSUME bad # {} PROVE FALSE
  BY <1>1
<1>3. PICK s \in bad : \A t \in bad : t \subseteq s => t = s
  <2>1. bad \in SUBSET (SUBSET all)
    OBVIOUS
  <2> HIDE DEF bad
  <2>2. QED
    BY <1>2, <2>1, SmallestOfSets
<1>4. s \in SUBSET all /\ some \subseteq s /\ ~(Q!Sum(p, some) <= Q!Sum(p, s)) /\ IsFiniteSet(s)
  BY <1>3, FS_Subset
<1>5. PICK x \in s : x \notin some
  BY <1>1, <1>4
<1>6. Q!Sum(p, some) <= Q!Sum(p, s \ {x})
  BY <1>3, <1>4, <1>5
<1>7. Q!Sum(p, s) = p[x] + Q!Sum(p, s \ {x}) /\ p[x] \in Nat
  BY <1>4, SumOfOthers
<1>8. Q!Sum(p, some) \in Nat /\ Q!Sum(p, s) \in Nat /\ Q!Sum(p, s \ {x}) \in Nat
  BY <1>1, <1>4
<1>9. QED
  BY <1>4, <1>6, <1>7, <1>8

-----------------------------------------------------------------------------
(* Questions *)

\* A change other than the flag was asked for while the quiz was off.
FoundOff(t) == edit[t] # Q!Idle /\ edit[t].pc # "toggle" => ~edit[t].sawOn

QuestionsInv ==
    /\ edit = [t \in Request |-> edit[t]] /\ \A t \in Request : FoundOff(t)
    /\ disturbed \in BOOLEAN
    /\ attempt.is \in {"none", "open", "grading", "graded"}
    /\ attempt = [is |-> attempt.is, right |-> attempt.right, full |-> attempt.full,
                  worth |-> attempt.worth, score |-> attempt.score, total |-> attempt.total]
    /\ attempt.is \in {"open", "grading"} /\ ~disturbed =>
          attempt.full = Q!TotalPoints /\ attempt.worth = Q!Score(attempt.right)
    /\ Q!GradedAsHandedOut

LEMMA QuestionsInit == Q!Init => QuestionsInv
<1> SUFFICES ASSUME Q!Init PROVE QuestionsInv
  OBVIOUS
<1>1. /\ edit = [t \in Request |-> Q!Idle] /\ disturbed = FALSE
      /\ attempt = [is |-> "none", right |-> {}, full |-> 0, worth |-> 0, score |-> 0, total |-> 0]
  BY DEF Q!Init, Q!NoAttempt
<1>2. QED
  BY <1>1 DEF QuestionsInv, FoundOff, Q!GradedAsHandedOut

LEMMA OthersAsked ==
    ASSUME QuestionsInv, NEW t \in Request, NEW q, edit' = [edit EXCEPT ![t] = q],
           q = Q!Idle \/ (q.pc # "toggle" => ~q.sawOn)
    PROVE  edit' = [u \in Request |-> edit'[u]] /\ \A u \in Request : FoundOff(u)'
<1>1. /\ edit'[t] = q /\ (\A u \in Request : u # t => edit'[u] = edit[u])
      /\ edit' = [u \in Request |-> edit'[u]]
  BY DEF QuestionsInv
<1>2. QED
  BY <1>1 DEF QuestionsInv, FoundOff, Q!Idle

LEMMA AskChangeStep ==
    ASSUME QuestionsInv, NEW t \in Request, NEW kind, NEW q, NEW points, Q!Ask(t, kind, q, points),
           kind # "toggle" => ~on
    PROVE  QuestionsInv'
<1> DEFINE e == [pc |-> kind, question |-> q, points |-> points, sawOn |-> on]
<1>1. edit' = [edit EXCEPT ![t] = e] /\ UNCHANGED <<on, paper, used, attempt, disturbed>>
  BY DEF Q!Ask
<1>2. e.pc # "toggle" => ~e.sawOn
  OBVIOUS
<1>3. edit' = [u \in Request |-> edit'[u]] /\ \A u \in Request : FoundOff(u)'
  <2> HIDE DEF e
  <2> QED
    BY <1>1, <1>2, OthersAsked
<1>4. Q!TotalPoints' = Q!TotalPoints /\ Q!Score(attempt.right)' = Q!Score(attempt.right)
  BY <1>1 DEF Q!TotalPoints, Q!Score, Q!Rows
<1>5. QED
  BY <1>1, <1>3, <1>4 DEF QuestionsInv, Q!GradedAsHandedOut

\* What is written after the attempt began leaves the points as they are, or
\* had found the quiz off.
LEMMA CommitChangeStep ==
    ASSUME QuestionsInv, NEW t \in Request, Q!Commit(t)
    PROVE  QuestionsInv'
<1>1. /\ edit[t] # Q!Idle /\ edit' = [edit EXCEPT ![t] = Q!Idle] /\ attempt' = attempt
      /\ edit[t].pc = "toggle" => paper' = paper
  BY DEF Q!Commit
<1>2. disturbed' = (\/ disturbed
                    \/ /\ attempt.is \in {"open", "grading"}
                       /\ ~on' \/ (edit[t].pc # "toggle" /\ ~edit[t].sawOn))
  BY DEF Q!Commit
<1>3. disturbed' \in BOOLEAN
  BY <1>2 DEF QuestionsInv
<1>4. edit' = [u \in Request |-> edit'[u]] /\ \A u \in Request : FoundOff(u)'
  BY <1>1, OthersAsked
<1>5. ~disturbed' => ~disturbed /\ (attempt.is \in {"open", "grading"} => paper' = paper)
  BY <1>1, <1>2 DEF QuestionsInv, FoundOff
<1>6. paper' = paper => /\ Q!TotalPoints' = Q!TotalPoints
                        /\ Q!Score(attempt.right)' = Q!Score(attempt.right)
  BY <1>1 DEF Q!TotalPoints, Q!Score, Q!Rows
<1>7. QED
  BY <1>1, <1>3, <1>4, <1>5, <1>6 DEF QuestionsInv, Q!GradedAsHandedOut

LEMMA StaffChangeStep ==
    ASSUME QuestionsInv, NEW t \in Request,
           \/ Q!AskAdd(t)
           \/ \E points \in Points : Q!AskUse(t, points) \/ \E q \in Question : Q!AskWeigh(t, q, points)
           \/ \E q \in Question : Q!AskDelete(t, q)
           \/ Q!AskToggle(t) \/ Q!Commit(t) \/ Q!Abort(t)
    PROVE  QuestionsInv'
<1>1. CASE Q!AskAdd(t)
  BY <1>1, AskChangeStep DEF Q!AskAdd
<1>2. ASSUME NEW points \in Points, Q!AskUse(t, points) PROVE QuestionsInv'
  BY <1>2, AskChangeStep DEF Q!AskUse
<1>3. ASSUME NEW points \in Points, NEW q \in Question, Q!AskWeigh(t, q, points) PROVE QuestionsInv'
  BY <1>3, AskChangeStep DEF Q!AskWeigh
<1>4. ASSUME NEW q \in Question, Q!AskDelete(t, q) PROVE QuestionsInv'
  BY <1>4, AskChangeStep DEF Q!AskDelete
<1>5. CASE Q!AskToggle(t)
  BY <1>5, AskChangeStep DEF Q!AskToggle
<1>6. CASE Q!Commit(t)
  BY <1>6, CommitChangeStep
<1>7. CASE Q!Abort(t)
  <2>1. /\ edit' = [edit EXCEPT ![t] = Q!Idle]
        /\ UNCHANGED <<on, paper, used, attempt, disturbed>>
    BY <1>7 DEF Q!Abort
  <2>2. edit' = [u \in Request |-> edit'[u]] /\ \A u \in Request : FoundOff(u)'
    BY <2>1, OthersAsked
  <2>3. Q!TotalPoints' = Q!TotalPoints /\ Q!Score(attempt.right)' = Q!Score(attempt.right)
    BY <2>1 DEF Q!TotalPoints, Q!Score, Q!Rows
  <2>4. QED
    BY <2>1, <2>2, <2>3 DEF QuestionsInv, Q!GradedAsHandedOut
<1>8. QED
  BY <1>1, <1>2, <1>3, <1>4, <1>5, <1>6, <1>7

LEMMA StudentStep ==
    ASSUME QuestionsInv,
           (\E right \in SUBSET Question : Q!Start(right)) \/ Q!Submit \/ Q!GradeAnswers
    PROVE  QuestionsInv'
<1>1. ASSUME NEW right \in SUBSET Question, Q!Start(right) PROVE QuestionsInv'
  <2>1. /\ attempt' = [Q!NoAttempt EXCEPT !.is = "open", !.right = right,
                              !.full = Q!TotalPoints, !.worth = Q!Score(right)]
        /\ disturbed' = FALSE /\ UNCHANGED <<on, paper, used, edit>>
    BY <1>1 DEF Q!Start
  <2>2. Q!TotalPoints' = Q!TotalPoints /\ Q!Score(right)' = Q!Score(right)
    BY <2>1 DEF Q!TotalPoints, Q!Score, Q!Rows
  <2> DEFINE total == Q!TotalPoints
             worth == Q!Score(right)
  <2>3. attempt' = [is |-> "open", right |-> right, full |-> total, worth |-> worth,
                    score |-> 0, total |-> 0]
    BY <2>1 DEF Q!NoAttempt
  <2>4. QED
    BY <2>1, <2>2, <2>3 DEF QuestionsInv, FoundOff, Q!GradedAsHandedOut
<1>2. CASE Q!Submit
  <2>1. /\ attempt.is = "open" /\ attempt' = [attempt EXCEPT !.is = "grading"]
        /\ UNCHANGED <<on, paper, used, disturbed, edit>>
    BY <1>2 DEF Q!Submit
  <2>2. Q!TotalPoints' = Q!TotalPoints /\ Q!Score(attempt.right)' = Q!Score(attempt'.right)
    BY <2>1 DEF Q!TotalPoints, Q!Score, Q!Rows
  <2>3. QED
    BY <2>1, <2>2 DEF QuestionsInv, FoundOff, Q!GradedAsHandedOut
<1>3. CASE Q!GradeAnswers
  <2>1. /\ attempt.is = "grading"
        /\ attempt' = [attempt EXCEPT !.is = "graded", !.score = Q!Score(attempt.right),
                                      !.total = Q!TotalPoints]
        /\ UNCHANGED <<on, paper, used, disturbed, edit>>
    BY <1>3 DEF Q!GradeAnswers
  <2>2. QED
    BY <2>1 DEF QuestionsInv, FoundOff, Q!GradedAsHandedOut
<1>4. QED
  BY <1>1, <1>2, <1>3

LEMMA QuestionsStep == QuestionsInv /\ [Q!Next]_(Q!vars) => QuestionsInv'
<1>1. QuestionsInv /\ UNCHANGED Q!vars => QuestionsInv'
  BY DEF Q!vars, QuestionsInv, FoundOff, Q!GradedAsHandedOut, Q!TotalPoints, Q!Score, Q!Rows
<1>2. QED
  BY <1>1, StaffChangeStep, StudentStep DEF Q!Next

LEMMA QuestionsHolds == Q!Spec => []QuestionsInv
BY QuestionsInit, QuestionsStep, PTL DEF Q!Spec

\* A student is graded by the paper that was handed out, question for question
\* and point for point, because every change refuses a published quiz
\* (assessments_admin.py:89), unless the quiz was taken off during the attempt or
\* a change that found it off was written after it went on.
THEOREM GradedAsHandedOutHolds == Q!Spec => []GradedAsHandedOut
<1>1. QuestionsInv => GradedAsHandedOut
  BY DEF QuestionsInv, GradedAsHandedOut
<1>2. QED
  BY <1>1, QuestionsHolds, PTL

\* A paper's points, and those of any answers, are numbers, the ones not above
\* the others.
LEMMA ScoreWithinTotal ==
    ASSUME Q!QuestionsTypeOK, NEW right
    PROVE  Q!Score(right) \in Nat /\ Q!TotalPoints \in Nat /\ Q!Score(right) <= Q!TotalPoints
<1>1. Q!Rows \subseteq Question /\ IsFiniteSet(Question) /\ Points \subseteq Nat
  BY PartsAssumption DEF Q!QuestionsAssumption, Q!Rows, Q!IsFiniteSet, IsFiniteSet
<1>2. IsFiniteSet(Q!Rows) /\ \A q \in Q!Rows : paper[q] \in Nat
  <2>1. IsFiniteSet(Q!Rows)
    BY <1>1, FS_Subset
  <2>2. \A q \in Question : paper[q] \in Points \cup {0}
    BY DEF Q!QuestionsTypeOK
  <2>3. Points \cup {0} \subseteq Nat
    BY PartsAssumption DEF Q!QuestionsAssumption
  <2>4. \A q \in Question : paper[q] \in Nat
    BY <2>2, <2>3
  <2>5. QED
    BY <1>1, <2>1, <2>4
<1> DEFINE asked    == Q!Rows
           answered == Q!Rows \cap right
<1>3. answered \in SUBSET asked
  OBVIOUS
<1> HIDE DEF asked, answered
<1>4. Q!Sum(paper, answered) \in Nat /\ Q!Sum(paper, asked) \in Nat
      /\ Q!Sum(paper, answered) <= Q!Sum(paper, asked)
  BY <1>2, <1>3, SumOfFewer DEF asked
<1>5. QED
  BY <1>4 DEF Q!Score, Q!TotalPoints, asked, answered

LEMMA QuestionsTypesInit == Q!Init => Q!QuestionsTypeOK
<1> SUFFICES ASSUME Q!Init PROVE Q!QuestionsTypeOK
  OBVIOUS
<1>1. paper \in [Question -> Points \cup {0}]
  BY DEF Q!Init, Q!MockPaper
<1>2. Q!Rows \subseteq Question
  BY DEF Q!Rows
<1>3. attempt = [is |-> "none", right |-> {}, full |-> 0, worth |-> 0, score |-> 0, total |-> 0]
  BY DEF Q!Init, Q!NoAttempt
<1>4. /\ attempt \in [is : {"none", "open", "grading", "graded"}, right : SUBSET Question,
                     full : Nat, worth : Nat, score : Nat, total : Nat]
      /\ attempt.score <= attempt.total
  BY <1>3
<1>5. on = FALSE /\ disturbed = FALSE /\ used = Q!Rows /\ edit = [t \in Request |-> Q!Idle]
  BY DEF Q!Init
<1>6. QED
  BY <1>1, <1>2, <1>4, <1>5 DEF Q!QuestionsTypeOK

LEMMA EditTypes ==
    ASSUME Q!QuestionsTypeOK, NEW t \in Request, NEW e, e = Q!Idle \/ e \in Q!Edits,
           edit' = [edit EXCEPT ![t] = e], UNCHANGED attempt, on' \in BOOLEAN, disturbed' \in BOOLEAN,
           paper' \in [Question -> Points \cup {0}], Q!Rows' \subseteq used', used' \subseteq Question
    PROVE  Q!QuestionsTypeOK'
<1>1. \A u \in Request : edit'[u] = e \/ edit'[u] = edit[u]
  OBVIOUS
<1>2. QED
  BY <1>1 DEF Q!QuestionsTypeOK

\* The rows that a commit writes
LEMMA CommitTypes ==
    ASSUME Q!QuestionsTypeOK, NEW t \in Request, Q!Commit(t)
    PROVE  Q!QuestionsTypeOK'
<1> DEFINE e == edit[t]
<1>1. /\ e \in Q!Edits /\ edit' = [edit EXCEPT ![t] = Q!Idle] /\ attempt' = attempt
      /\ disturbed' \in BOOLEAN
  BY DEF Q!Commit, Q!QuestionsTypeOK
<1>2. /\ e.pc \in {"add", "weigh", "delete", "toggle"} /\ e.points \in Points /\ e.sawOn \in BOOLEAN
  BY <1>1 DEF Q!Edits
<1>3. /\ paper \in [Question -> Points \cup {0}] /\ on \in BOOLEAN /\ used \subseteq Question
      /\ \A q \in Question : paper[q] > 0 => q \in used
  BY DEF Q!QuestionsTypeOK, Q!Rows
<1>4. /\ on' \in BOOLEAN /\ paper' \in [Question -> Points \cup {0}] /\ used' \subseteq Question
      /\ \A q \in Question : paper'[q] > 0 => q \in used'
  <2>1. CASE e.pc = "add"
    <3>1. PICK q \in Question \ used : /\ paper' = [paper EXCEPT ![q] = e.points]
                                       /\ used' = used \cup {q} /\ on' = on
      BY <2>1 DEF Q!Commit
    <3>2. QED
      BY <1>2, <1>3, <3>1
  <2>2. CASE e.pc = "weigh"
    <3>1. e.question \in Q!Rows /\ paper' = [paper EXCEPT ![e.question] = e.points]
          /\ UNCHANGED <<on, used>>
      BY <2>2 DEF Q!Commit
    <3>2. e.question \in Question /\ e.question \in used
      BY <3>1 DEF Q!Rows, Q!QuestionsTypeOK
    <3>3. QED
      BY <1>2, <1>3, <3>1, <3>2
  <2>3. CASE e.pc = "delete"
    <3>1. paper' = [paper EXCEPT ![e.question] = 0] /\ UNCHANGED <<on, used>>
      BY <2>3 DEF Q!Commit
    <3>2. paper' \in [Question -> Points \cup {0}]
      BY <1>3, <3>1
    <3>3. \A q \in Question : paper'[q] = 0 \/ paper'[q] = paper[q]
      BY <1>3, <3>1
    <3>4. QED
      BY <1>3, <3>1, <3>2, <3>3
  <2>4. CASE e.pc = "toggle"
    <3>1. on' = ~e.sawOn /\ UNCHANGED <<paper, used>>
      BY <2>4 DEF Q!Commit
    <3>2. on' \in BOOLEAN
      BY <1>2, <3>1
    <3>3. QED
      BY <1>3, <3>1, <3>2
  <2>5. QED
    BY <1>2, <2>1, <2>2, <2>3, <2>4
<1>5. Q!Rows' \subseteq used'
  BY <1>4 DEF Q!Rows
<1>6. QED
  BY <1>1, <1>4, <1>5, EditTypes

LEMMA StaffTypesStep ==
    ASSUME Q!QuestionsTypeOK, NEW t \in Request,
           \/ Q!AskAdd(t)
           \/ \E points \in Points : Q!AskUse(t, points) \/ \E q \in Question : Q!AskWeigh(t, q, points)
           \/ \E q \in Question : Q!AskDelete(t, q)
           \/ Q!AskToggle(t) \/ Q!Commit(t) \/ Q!Abort(t)
    PROVE  Q!QuestionsTypeOK'
<1>1. ASSUME NEW kind \in {"add", "weigh", "delete", "toggle"}, NEW q \in Question \cup {0},
             NEW points \in Points, Q!Ask(t, kind, q, points)
      PROVE  Q!QuestionsTypeOK'
  <2> DEFINE e == [pc |-> kind, question |-> q, points |-> points, sawOn |-> on]
  <2>1. edit' = [edit EXCEPT ![t] = e] /\ UNCHANGED <<on, paper, used, attempt, disturbed>>
    BY <1>1 DEF Q!Ask
  <2>2. e \in Q!Edits
    BY DEF Q!Edits, Q!QuestionsTypeOK
  <2>3. Q!Rows' = Q!Rows
    BY <2>1 DEF Q!Rows
  <2> HIDE DEF e
  <2>4. QED
    BY <2>1, <2>2, <2>3, EditTypes DEF Q!QuestionsTypeOK
<1>2. 1 \in Points
  BY PartsAssumption DEF Q!QuestionsAssumption
<1>3. CASE Q!AskAdd(t) \/ Q!AskToggle(t)
  BY <1>1, <1>2, <1>3 DEF Q!AskAdd, Q!AskToggle
<1>4. ASSUME NEW points \in Points, Q!AskUse(t, points) \/ \E q \in Question : Q!AskWeigh(t, q, points)
      PROVE  Q!QuestionsTypeOK'
  BY <1>1, <1>4 DEF Q!AskUse, Q!AskWeigh
<1>5. ASSUME NEW q \in Question, Q!AskDelete(t, q) PROVE Q!QuestionsTypeOK'
  BY <1>1, <1>2, <1>5 DEF Q!AskDelete
<1>6. CASE Q!Abort(t)
  <2>1. edit' = [edit EXCEPT ![t] = Q!Idle] /\ UNCHANGED <<on, paper, used, attempt, disturbed>>
    BY <1>6 DEF Q!Abort
  <2>2. Q!Rows' = Q!Rows
    BY <2>1 DEF Q!Rows
  <2>3. QED
    BY <2>1, <2>2, EditTypes DEF Q!QuestionsTypeOK
<1>7. QED
  BY <1>3, <1>4, <1>5, <1>6, CommitTypes

LEMMA QuestionsTypesStep == Q!QuestionsTypeOK /\ [Q!Next]_(Q!vars) => Q!QuestionsTypeOK'
<1> SUFFICES ASSUME Q!QuestionsTypeOK, [Q!Next]_(Q!vars) PROVE Q!QuestionsTypeOK'
  OBVIOUS
<1>1. CASE UNCHANGED Q!vars
  BY <1>1 DEF Q!vars, Q!QuestionsTypeOK, Q!Rows, Q!Edits
<1>2. ASSUME UNCHANGED <<on, paper, used, edit>>, disturbed' \in BOOLEAN,
             attempt' \in [is : {"none", "open", "grading", "graded"}, right : SUBSET Question,
                           full : Nat, worth : Nat, score : Nat, total : Nat],
             attempt'.score <= attempt'.total
      PROVE  Q!QuestionsTypeOK'
  BY <1>2 DEF Q!QuestionsTypeOK, Q!Rows, Q!Edits
<1>3. ASSUME NEW right \in SUBSET Question, Q!Start(right) PROVE Q!QuestionsTypeOK'
  <2> DEFINE total == Q!TotalPoints
             worth == Q!Score(right)
  <2>1. /\ attempt' = [Q!NoAttempt EXCEPT !.is = "open", !.right = right, !.full = total, !.worth = worth]
        /\ disturbed' = FALSE /\ UNCHANGED <<on, paper, used, edit>>
    BY <1>3 DEF Q!Start
  <2>2. total \in Nat /\ worth \in Nat
    BY ScoreWithinTotal
  <2> HIDE DEF total, worth
  <2>3. attempt' = [is |-> "open", right |-> right, full |-> total, worth |-> worth, score |-> 0, total |-> 0]
    BY <2>1 DEF Q!NoAttempt
  <2>4. /\ attempt' \in [is : {"none", "open", "grading", "graded"}, right : SUBSET Question,
                          full : Nat, worth : Nat, score : Nat, total : Nat]
        /\ attempt'.score <= attempt'.total
    BY <2>2, <2>3
  <2>5. disturbed' \in BOOLEAN
    BY <2>1
  <2>6. QED
    BY <1>2, <2>1, <2>4, <2>5
<1>4. CASE Q!Submit
  BY <1>2, <1>4 DEF Q!Submit, Q!QuestionsTypeOK
<1>5. CASE Q!GradeAnswers
  <2> DEFINE total == Q!TotalPoints
             score == Q!Score(attempt.right)
  <2>1. /\ attempt' = [attempt EXCEPT !.is = "graded", !.score = score, !.total = total]
        /\ UNCHANGED <<on, paper, used, disturbed, edit>>
    BY <1>5 DEF Q!GradeAnswers
  <2>2. total \in Nat /\ score \in Nat /\ score <= total
    BY ScoreWithinTotal
  <2> HIDE DEF total, score
  <2>3. /\ attempt \in [is : {"none", "open", "grading", "graded"}, right : SUBSET Question,
                        full : Nat, worth : Nat, score : Nat, total : Nat]
        /\ disturbed \in BOOLEAN
    BY DEF Q!QuestionsTypeOK
  <2>4. QED
    BY <1>2, <2>1, <2>2, <2>3
<1>6. QED
  BY <1>1, <1>3, <1>4, <1>5, StaffTypesStep DEF Q!Next

LEMMA QuestionsTypes == Q!Spec => []Q!QuestionsTypeOK
BY QuestionsTypesInit, QuestionsTypesStep, PTL DEF Q!Spec

=============================================================================
