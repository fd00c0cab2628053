----------------------------- MODULE CourseProofs -----------------------------
(***************************************************************************)
(* Proofs about a course and what a student hands in and is given in it:   *)
(* Coursework, Certificates, OfflineGrants and Lessons.  They hold for     *)
(* every number of requests, devices, lessons and units and every value of *)
(* the bounds, and they are about the specification of each component on   *)
(* its own (W!Spec, D!Spec, G!Spec and the Spec of Lessons), of which      *)
(* CampusMC explores one at a time.                                        *)
(***************************************************************************)
EXTENDS CampusMC, FiniteSetTheorems, WellFoundedInduction, TLAPS

-----------------------------------------------------------------------------
(* The parts and the whole                                                 *)

campus == <<part, vars, coursework, certificates, licences, streams, media,
            groups, questions, inbox, presence, streaks>>

\* What TLC explores as CampusMC is, of each component, a behaviour of its own
\* specification: whatever holds of a component alone holds there.
THEOREM PartsAreAlone ==
    MCSpec => /\ Spec /\ W!Spec /\ D!Spec /\ G!Spec /\ S!Spec /\ M!Spec
              /\ C!Spec /\ Q!Spec /\ N!Spec /\ A!Spec /\ K!Spec
<1>0. MCInit => /\ Init /\ W!Init /\ D!Init /\ G!Init /\ S!Init /\ M!Init
                /\ C!Init /\ Q!Init /\ N!Init /\ A!Init /\ K!Init
  BY DEF MCInit
<1>1. [MCNext]_campus => [Next]_(vars)
  BY DEF MCNext, campus, vars
<1>2. [MCNext]_campus => [W!Next]_(W!vars)
  BY DEF MCNext, campus, coursework, W!vars
<1>3. [MCNext]_campus => [D!Next]_(D!vars)
  BY DEF MCNext, campus, certificates, D!vars
<1>4. [MCNext]_campus => [G!Next]_(G!vars)
  BY DEF MCNext, campus, licences, G!vars
<1>5. [MCNext]_campus => [S!Next]_(S!vars)
  BY DEF MCNext, campus, streams, S!vars
<1>6. [MCNext]_campus => [M!Next]_(M!vars)
  BY DEF MCNext, campus, media, M!vars
<1>7. [MCNext]_campus => [C!Next]_(C!vars)
  BY DEF MCNext, campus, groups, C!vars, C!Next
<1>8. [MCNext]_campus => [Q!Next]_(Q!vars)
  BY DEF MCNext, campus, questions, Q!vars
<1>9. [MCNext]_campus => [N!Next]_(N!vars)
  BY DEF MCNext, campus, inbox, N!vars
<1>10. [MCNext]_campus => [A!Next]_(A!vars)
  BY DEF MCNext, campus, presence, A!vars
<1>11. [MCNext]_campus => [K!Next]_(K!vars)
  BY DEF MCNext, campus, streaks, K!vars
<1>12. QED
  BY <1>0, <1>1, <1>2, <1>3, <1>4, <1>5, <1>6, <1>7, <1>8, <1>9, <1>10, <1>11,
     PTL DEF MCSpec, campus, Spec, W!Spec, D!Spec, G!Spec, S!Spec, M!Spec, C!Spec, Q!Spec, N!Spec, A!Spec, K!Spec

-----------------------------------------------------------------------------
(* Coursework *)

\* The advisory lock of the work excludes.
LockHeld == \A r \in Request : W!At(r, "save") => lock = r

CourseworkInv ==
    /\ W!CourseworkTypeOK /\ LockHeld
    /\ W!LocksSuffice /\ W!GradeMatchesAnswer

SentType == [pc : {"idle", "wait", "save"}, rowlock : BOOLEAN, answer : 0..MaxAnswers,
             found : BOOLEAN, status : W!Status, done : BOOLEAN]

LEMMA AskedType ==
    ASSUME NEW x \in SentType, NEW locked \in BOOLEAN, NEW answer \in 0..MaxAnswers
    PROVE  LET to == [x EXCEPT !.pc = "wait", !.rowlock = locked, !.answer = answer]
           IN  to \in SentType /\ to.pc = "wait"
BY DEF SentType

LEMMA CourseworkInit == W!Init => CourseworkInv
<1> SUFFICES ASSUME W!Init PROVE CourseworkInv
  OBVIOUS
<1>1. MaxAnswers \in Nat /\ 0 \in 0..MaxAnswers
  BY PartsAssumption DEF W!CourseworkAssumption
<1>2. W!Idle \in SentType
  BY <1>1 DEF W!Idle, SentType, W!Status
<1>3. /\ sent = [r \in Request |-> W!Idle] /\ teacher = W!Away /\ sub = W!Blank /\ paid = 0
      /\ texts = 0 /\ work \in W!Work /\ offer = "none" /\ row = FALSE /\ ticked = FALSE
      /\ lock = Nobody
  BY DEF W!Init
<1>4. W!CourseworkTypeOK
  <2>1. /\ sub \in [answer : 0..MaxAnswers, status : W!Status, mark : 0..MaxAnswers,
                     overtaken : BOOLEAN]
        /\ teacher \in [pc : {"away", "looked", "posted"}, seen : 0..MaxAnswers, status : W!Status]
    BY <1>1, <1>3 DEF W!Blank, W!Away, W!Status
  <2>2. sent \in [Request -> SentType]
    BY <1>2, <1>3
  <2>3. paid \in 0..1 /\ texts \in 0..MaxAnswers
    BY <1>1, <1>3
  <2>4. QED
    BY <1>3, <2>1, <2>2, <2>3 DEF W!CourseworkTypeOK, SentType
<1>5. LockHeld /\ W!LocksSuffice
  BY <1>3 DEF LockHeld, W!LocksSuffice, W!At, W!Idle
<1>6. W!GradeMatchesAnswer
  BY <1>3 DEF W!GradeMatchesAnswer, W!Blank
<1>7. QED
  BY <1>4, <1>5, <1>6 DEF CourseworkInv

\* A request that becomes another one, and frees the lock or leaves it, disturbs
\* no other that holds it, as long as the row and the work stay.
LEMMA OneRequestMoves ==
    ASSUME CourseworkInv, NEW r \in Request, NEW to \in SentType, W!Become(r, to),
           lock' = lock \/ W!Free(r), to.pc # "save",
           UNCHANGED <<work, offer, row, ticked>>
    PROVE  LockHeld' /\ W!LocksSuffice' /\ sent' \in [Request -> SentType]
           /\ lock' \in Request \cup {Nobody}
<1>1. /\ sent \in [Request -> SentType] /\ lock \in Request \cup {Nobody}
      /\ sent' = [sent EXCEPT ![r] = to]
  BY DEF CourseworkInv, W!CourseworkTypeOK, SentType, W!Become
<1>2. \A q \in Request : W!At(q, "save")' => W!At(q, "save") /\ q # r /\ sent'[q] = sent[q]
  BY <1>1 DEF W!At
<1>3. LockHeld'
  BY <1>1, <1>2 DEF CourseworkInv, LockHeld, W!Free, W!At
<1>4. W!LocksSuffice'
  BY <1>1, <1>2 DEF CourseworkInv, W!LocksSuffice, W!Writable
<1>5. QED
  BY <1>1, <1>3, <1>4 DEF W!Free

LEMMA OpenStep ==
    ASSUME CourseworkInv, NEW r \in Request, NEW api \in BOOLEAN, NEW blank \in BOOLEAN,
           W!Open(r, api, blank)
    PROVE  CourseworkInv'
<1> DEFINE to == [W!Idle EXCEPT !.pc = "wait", !.rowlock = api \/ work = "task",
                                !.answer = IF blank THEN 0 ELSE texts']
<1>1. texts' \in 0..MaxAnswers
  BY PartsAssumption DEF W!CourseworkAssumption, CourseworkInv, W!CourseworkTypeOK, W!Open
<1>2. to \in SentType /\ to.pc = "wait"
  <2>1. W!Idle \in SentType
    BY PartsAssumption DEF W!CourseworkAssumption, W!Idle, SentType, W!Status
  <2>2. (IF blank THEN 0 ELSE texts') \in 0..MaxAnswers
    BY <1>1, PartsAssumption DEF W!CourseworkAssumption
  <2>3. (api \/ work = "task") \in BOOLEAN
    OBVIOUS
  <2>4. QED
    BY <2>1, <2>2, <2>3, AskedType
<1>3. W!Become(r, to) /\ UNCHANGED <<work, offer, row, sub, ticked, paid, lock, teacher>>
  BY DEF W!Open
<1>4. LockHeld' /\ W!LocksSuffice' /\ sent' \in [Request -> SentType]
  BY <1>2, <1>3, OneRequestMoves
<1>5. W!CourseworkTypeOK'
  BY <1>1, <1>3, <1>4 DEF CourseworkInv, W!CourseworkTypeOK, SentType, W!Status
<1>6. W!GradeMatchesAnswer'
  BY <1>3 DEF CourseworkInv, W!GradeMatchesAnswer
<1>7. QED
  BY <1>4, <1>5, <1>6 DEF CourseworkInv

\* The lock was free, so that nobody else holds it; what is read is current.
LEMMA TakeStep ==
    ASSUME CourseworkInv, NEW r \in Request, W!Take(r)
    PROVE  CourseworkInv'
<1> DEFINE to == [sent[r] EXCEPT !.pc = "save", !.found = row, !.status = sub.status,
                                 !.done = ticked]
<1>1. /\ lock = Nobody /\ lock' = r /\ sent' = [sent EXCEPT ![r] = to]
      /\ UNCHANGED <<work, offer, row, sub, ticked, paid, texts, teacher>>
  BY DEF W!Take, W!Read, W!Become
<1>2. /\ sent \in [Request -> SentType] /\ row \in BOOLEAN /\ ticked \in BOOLEAN
      /\ sub.status \in W!Status
  BY DEF CourseworkInv, W!CourseworkTypeOK, SentType
<1>3. to \in SentType /\ to.pc = "save" /\ to.found = row /\ to.done = ticked
  <2>1. sent[r] \in SentType
    BY <1>2
  <2>2. PICK found \in BOOLEAN, done \in BOOLEAN : found = row /\ done = ticked
    BY <1>2
  <2>3. to = [sent[r] EXCEPT !.pc = "save", !.found = found, !.status = sub.status, !.done = done]
    BY <2>2
  <2> HIDE DEF to
  <2>4. sub.status \in W!Status
    BY <1>2
  <2>5. to \in SentType /\ to.pc = "save" /\ to.found = found /\ to.done = done
    BY <2>1, <2>3, <2>4 DEF SentType
  <2>6. QED
    BY <2>2, <2>5
<1>4. sent'[r] = to
  BY <1>1, <1>2
<1>5. \A q \in Request : W!At(q, "save")' => q = r
  BY <1>1, <1>2, PartsAssumption DEF CourseworkInv, LockHeld, W!At, W!CourseworkAssumption
<1>6. LockHeld' /\ W!LocksSuffice'
  BY <1>1, <1>3, <1>4, <1>5 DEF LockHeld, W!LocksSuffice, W!Writable
<1>7. W!CourseworkTypeOK'
  BY <1>1, <1>2, <1>3 DEF CourseworkInv, W!CourseworkTypeOK, SentType
<1>8. W!GradeMatchesAnswer'
  BY <1>1 DEF CourseworkInv, W!GradeMatchesAnswer
<1>9. QED
  BY <1>6, <1>7, <1>8 DEF CourseworkInv

\* A commit: the one that holds the lock writes, and holds it no more.
LEMMA Committed ==
    ASSUME CourseworkInv, NEW r \in Request, W!At(r, "save"), W!Free(r), W!Become(r, W!Idle)
    PROVE  /\ lock' = Nobody /\ sent' \in [Request -> SentType]
           /\ \A q \in Request : ~W!At(q, "save")'
<1>1. sent \in [Request -> SentType] /\ W!Idle \in SentType /\ lock = r
  BY PartsAssumption
     DEF CourseworkInv, W!CourseworkTypeOK, SentType, LockHeld, W!Idle, W!Status,
         W!CourseworkAssumption
<1>2. QED
  BY <1>1 DEF CourseworkInv, LockHeld, W!Free, W!Become, W!At, W!Idle

LEMMA SaveStep ==
    ASSUME CourseworkInv, NEW r \in Request,
           W!SaveHomework(r) \/ W!SaveCheckpoint(r) \/ W!SaveTask(r)
    PROVE  CourseworkInv'
<1>1. W!At(r, "save") /\ W!Free(r) /\ W!Become(r, W!Idle) /\ UNCHANGED <<work, offer, texts, teacher>>
  BY DEF W!SaveHomework, W!SaveCheckpoint, W!SaveTask
<1>2. /\ lock' = Nobody /\ sent' \in [Request -> SentType]
      /\ \A q \in Request : ~W!At(q, "save")'
  BY <1>1, Committed
<1>3. LockHeld' /\ W!LocksSuffice'
  BY <1>2 DEF LockHeld, W!LocksSuffice
<1>4. /\ sub \in [answer : 0..MaxAnswers, status : W!Status, mark : 0..MaxAnswers,
                  overtaken : BOOLEAN]
      /\ sent[r] \in SentType
  BY DEF CourseworkInv, W!CourseworkTypeOK, SentType
<1>5. /\ sub' \in [answer : 0..MaxAnswers, status : W!Status, mark : 0..MaxAnswers,
                   overtaken : BOOLEAN]
      /\ W!GradeMatchesAnswer'
  <2>1. CASE UNCHANGED sub
    BY <1>4, <2>1 DEF CourseworkInv, W!GradeMatchesAnswer
  <2>2. CASE W!SaveHomework(r)
    <3> DEFINE kept == sent[r].found /\ sent[r].status = "submitted"
    <3>1. sub' = [answer    |-> sent[r].answer,
                  status    |-> IF kept THEN sub.status ELSE "submitted",
                  mark      |-> sub.mark,
                  overtaken |-> sub.overtaken \/ (sent[r].found /\ sent[r].status # sub.status)]
      BY <1>4, <2>2 DEF W!SaveHomework, W!Handed
    <3>2. sub' \in [answer : 0..MaxAnswers, status : W!Status, mark : 0..MaxAnswers,
                    overtaken : BOOLEAN]
      BY <1>4, <3>1 DEF SentType, W!Status
    <3>3. W!GradeMatchesAnswer'
      BY <3>1 DEF W!GradeMatchesAnswer
    <3>4. QED
      BY <3>2, <3>3
  <2>3. QED
    BY <2>1, <2>2 DEF W!SaveCheckpoint, W!SaveTask
<1>6. row' \in BOOLEAN /\ ticked' \in BOOLEAN /\ paid' \in 0..1
  <2>1. row' = TRUE
    BY DEF W!SaveHomework, W!SaveCheckpoint, W!SaveTask
  <2>2. ticked' \in BOOLEAN
    <3>1. ticked' = ticked \/ ticked' = (sent[r].found => ~sent[r].done)
      BY DEF W!SaveHomework, W!SaveCheckpoint, W!SaveTask
    <3>2. (sent[r].found => ~sent[r].done) \in BOOLEAN /\ ticked \in BOOLEAN
      BY DEF CourseworkInv, W!CourseworkTypeOK
    <3>3. QED
      BY <3>1, <3>2
  <2>3. paid' \in 0..1
    BY DEF CourseworkInv, W!CourseworkTypeOK, W!SaveHomework, W!SaveCheckpoint, W!SaveTask, W!Pay
  <2>4. QED
    BY <2>1, <2>2, <2>3
<1>7. W!CourseworkTypeOK'
  BY <1>1, <1>2, <1>5, <1>6 DEF CourseworkInv, W!CourseworkTypeOK, SentType
<1>8. QED
  BY <1>3, <1>5, <1>7 DEF CourseworkInv

LEMMA AbortStep ==
    ASSUME CourseworkInv, NEW r \in Request, W!Abort(r)
    PROVE  CourseworkInv'
<1>1. /\ W!Become(r, W!Idle) /\ W!Free(r)
      /\ UNCHANGED <<work, offer, row, sub, ticked, paid, texts, teacher>>
  BY DEF W!Abort
<1>2. W!Idle \in SentType /\ W!Idle.pc = "idle"
  BY PartsAssumption DEF W!CourseworkAssumption, W!Idle, SentType, W!Status
<1>3. LockHeld' /\ W!LocksSuffice' /\ sent' \in [Request -> SentType] /\ lock' \in Request \cup {Nobody}
  BY <1>1, <1>2, OneRequestMoves
<1>4. QED
  BY <1>1, <1>3 DEF CourseworkInv, W!CourseworkTypeOK, W!GradeMatchesAnswer, SentType

\* The staff offer, hide and withdraw the work.
LEMMA OfferStep ==
    ASSUME CourseworkInv,
           \/ W!CreateHomework \/ W!AddCheckpoint \/ W!CreateTask \/ W!Hide
           \/ W!WithdrawCheckpoint \/ W!WithdrawTask
    PROVE  CourseworkInv'
<1>1. /\ UNCHANGED <<work, sub, paid, texts, lock, sent, teacher>>
      /\ offer' \in {"open", "hidden", "deleted"}
      /\ \/ UNCHANGED <<row, ticked>> /\ offer # "deleted"
         \/ offer' = "deleted" /\ row' = FALSE /\ ticked' \in {FALSE, ticked}
  BY DEF W!CreateHomework, W!AddCheckpoint, W!CreateTask, W!Hide, W!WithdrawCheckpoint,
         W!WithdrawTask, W!Withdrawable
<1>2. W!CourseworkTypeOK'
  BY <1>1 DEF CourseworkInv, W!CourseworkTypeOK
<1>3. LockHeld' /\ W!GradeMatchesAnswer'
  BY <1>1 DEF CourseworkInv, LockHeld, W!GradeMatchesAnswer, W!At
<1>4. W!LocksSuffice'
  <2> SUFFICES ASSUME NEW r \in Request, W!At(r, "save"), offer' # "deleted"
               PROVE  /\ sent[r].found <=> row'
                      /\ work = "task" => sent[r].done = ticked'
    BY <1>1 DEF W!LocksSuffice, W!Writable, W!At
  <2>1. UNCHANGED <<row, ticked>> /\ offer # "deleted"
    BY <1>1
  <2>2. W!Writable(r) /\ (work = "task" => sent[r].done = ticked)
    BY <2>1 DEF CourseworkInv, W!LocksSuffice
  <2>3. QED
    BY <2>1, <2>2 DEF W!Writable
<1>5. QED
  BY <1>2, <1>3, <1>4 DEF CourseworkInv

\* The teacher looks, and what the form then says decides.
LEMMA TeacherStep ==
    ASSUME CourseworkInv, W!Look \/ W!Post \/ W!Grade \/ W!RequestRevision
    PROVE  CourseworkInv'
<1>1. UNCHANGED <<work, offer, row, ticked, paid, texts, lock, sent>>
  BY DEF W!Look, W!Post, W!Grade, W!RequestRevision
<1>2. LockHeld' /\ W!LocksSuffice'
  BY <1>1 DEF CourseworkInv, LockHeld, W!LocksSuffice, W!Writable, W!At
<1>3. /\ sub \in [answer : 0..MaxAnswers, status : W!Status, mark : 0..MaxAnswers,
                  overtaken : BOOLEAN]
      /\ teacher \in [pc : {"away", "looked", "posted"}, seen : 0..MaxAnswers, status : W!Status]
      /\ W!Away \in [pc : {"away", "looked", "posted"}, seen : 0..MaxAnswers, status : W!Status]
  BY PartsAssumption
     DEF CourseworkInv, W!CourseworkTypeOK, W!Away, W!Status, W!CourseworkAssumption
<1>4. /\ sub' \in [answer : 0..MaxAnswers, status : W!Status, mark : 0..MaxAnswers,
                   overtaken : BOOLEAN]
      /\ teacher' \in [pc : {"away", "looked", "posted"}, seen : 0..MaxAnswers, status : W!Status]
      /\ W!GradeMatchesAnswer'
  <2>1. CASE W!Look
    BY <1>3, <2>1 DEF W!Look, W!Away, CourseworkInv, W!GradeMatchesAnswer, W!Status
  <2>2. CASE W!Post
    <3>1. UNCHANGED sub /\ teacher' = [pc |-> "posted", seen |-> teacher.seen, status |-> sub.status]
      BY <1>3, <2>2 DEF W!Post
    <3>2. QED
      BY <1>3, <3>1 DEF CourseworkInv, W!GradeMatchesAnswer
  <2>3. CASE W!Grade
    <3>1. /\ sub' = [answer |-> sub.answer, status |-> W!Judged("graded"), mark |-> teacher.seen,
                     overtaken |-> sub.answer # teacher.seen]
          /\ teacher' = W!Away
      BY <1>3, <2>3 DEF W!Grade
    <3>2. QED
      BY <1>3, <3>1 DEF W!GradeMatchesAnswer, W!Judged, W!Status
  <2>4. CASE W!RequestRevision
    <3>1. /\ sub' = [answer |-> sub.answer, status |-> W!Judged("revision_requested"),
                     mark |-> sub.mark, overtaken |-> sub.overtaken]
          /\ teacher' = W!Away
      BY <1>3, <2>4 DEF W!RequestRevision
    <3>2. QED
      BY <1>3, <3>1 DEF CourseworkInv, W!GradeMatchesAnswer, W!Judged, W!Status
  <2>5. QED
    BY <2>1, <2>2, <2>3, <2>4
<1>5. W!CourseworkTypeOK'
  BY <1>1, <1>4 DEF CourseworkInv, W!CourseworkTypeOK
<1>6. QED
  BY <1>2, <1>4, <1>5 DEF CourseworkInv

LEMMA CourseworkStep == CourseworkInv /\ [W!Next]_(W!vars) => CourseworkInv'
<1> SUFFICES ASSUME CourseworkInv, [W!Next]_(W!vars) PROVE CourseworkInv'
  OBVIOUS
<1>1. CASE UNCHANGED W!vars
  BY <1>1 DEF W!vars, CourseworkInv, W!CourseworkTypeOK, LockHeld, W!LocksSuffice, W!Writable,
              W!GradeMatchesAnswer, W!At
<1>2. ASSUME NEW r \in Request, NEW api \in BOOLEAN, NEW blank \in BOOLEAN, W!Open(r, api, blank)
      PROVE  CourseworkInv'
  BY <1>2, OpenStep
<1>3. ASSUME NEW r \in Request,
             \/ W!Take(r) \/ W!SaveHomework(r) \/ W!SaveCheckpoint(r) \/ W!SaveTask(r)
             \/ W!Abort(r)
      PROVE  CourseworkInv'
  BY <1>3, TakeStep, SaveStep, AbortStep
<1>4. CASE \/ W!CreateHomework \/ W!AddCheckpoint \/ W!CreateTask
           \/ W!Hide \/ W!WithdrawCheckpoint \/ W!WithdrawTask
  BY <1>4, OfferStep
<1>5. CASE W!Look \/ W!Post \/ W!Grade \/ W!RequestRevision
  BY <1>5, TeacherStep
<1>6. QED
  BY <1>1, <1>2, <1>3, <1>4, <1>5 DEF W!Next

LEMMA CourseworkHolds == W!Spec => []CourseworkInv
BY CourseworkInit, CourseworkStep, PTL DEF W!Spec

\* Whatever the browser, the app and a double click send together, the request
\* that holds the advisory lock of a work inserts no second row and overwrites
\* no tick that it has not read (learning_runtime.py, api_v1_learning.py,
\* academic_content.py).
THEOREM LocksSufficeHolds == W!Spec => []LocksSuffice
<1>1. CourseworkInv => LocksSuffice
  BY DEF CourseworkInv, LocksSuffice
<1>2. QED
  BY <1>1, CourseworkHolds, PTL

\* A homework that counts as graded carries the mark of the text that is in it,
\* unless it was handed in while the teacher looked, or graded while it was
\* handed in.
THEOREM GradeMatchesAnswerHolds == W!Spec => []GradeMatchesAnswer
<1>1. CourseworkInv => GradeMatchesAnswer
  BY DEF CourseworkInv, GradeMatchesAnswer
<1>2. QED
  BY <1>1, CourseworkHolds, PTL

-----------------------------------------------------------------------------
(* Certificates *)

\* The only invariant that Certificates has is inductive: the insertion is by
\* leave of the unique constraint, and a revoked certificate keeps its row.
LEMMA CertificatesStep == D!CertificatesTypeOK /\ [D!Next]_(D!vars) => D!CertificatesTypeOK'
<1> DEFINE View == [pc : {"idle", "issue", "insert"}, policy : D!Policy]
<1> SUFFICES ASSUME D!CertificatesTypeOK, [D!Next]_(D!vars) PROVE D!CertificatesTypeOK'
  OBVIOUS
<1>1. D!NoPolicy \in D!Policy /\ D!Idle \in View
  BY DEF D!NoPolicy, D!Policy, D!Kind, D!Idle
<1>2. views \in [Request -> View] /\ policy \in D!Policy
  BY DEF D!CertificatesTypeOK
<1>3. ASSUME NEW r \in Request, NEW to \in View, D!Become(r, to) PROVE views' \in [Request -> View]
  BY <1>2, <1>3 DEF D!Become
<1>4. CASE UNCHANGED D!vars
  BY <1>4 DEF D!vars, D!CertificatesTypeOK
<1>5. ASSUME NEW r \in Request, D!ViewCourse(r) PROVE D!CertificatesTypeOK'
  <2>1. [pc |-> "issue", policy |-> policy] \in View
    BY <1>2
  <2>2. QED
    BY <1>3, <1>5, <2>1 DEF D!ViewCourse, D!CertificatesTypeOK
<1>6. ASSUME NEW r \in Request, D!Issue(r) PROVE D!CertificatesTypeOK'
  <2>1. [views[r] EXCEPT !.pc = "insert"] \in View
    BY <1>2
  <2>2. QED
    BY <1>3, <1>6, <2>1 DEF D!Issue, D!CertificatesTypeOK
<1>7. ASSUME NEW r \in Request, D!Decline(r) \/ D!Insert(r) \/ D!Abort(r)
      PROVE  D!CertificatesTypeOK'
  <2>1. views' \in [Request -> View] /\ UNCHANGED <<results, policy, revoked>>
    BY <1>1, <1>3, <1>7 DEF D!Decline, D!Insert, D!Abort
  <2>2. valid' = valid \/ (valid + revoked = 0 /\ valid' = valid + 1)
    BY <1>7 DEF D!Decline, D!Insert, D!Abort
  <2>3. QED
    BY <2>1, <2>2 DEF D!CertificatesTypeOK
<1>8. CASE D!Revoke
  BY <1>8 DEF D!Revoke, D!CertificatesTypeOK
<1>9. CASE \E p \in D!Policy : D!SetPolicy(p)
  BY <1>9 DEF D!SetPolicy, D!CertificatesTypeOK
<1>10. CASE \E k \in D!Kind : D!ChangeResults(k)
  BY <1>10 DEF D!ChangeResults, D!CertificatesTypeOK
<1>11. QED
  BY <1>4, <1>5, <1>6, <1>7, <1>8, <1>9, <1>10 DEF D!Next

\* A student gets at most one certificate for a course, and none after it was
\* revoked, whichever pages of the course are open at that time
\* (services/learning_runtime.py:64-77).
THEOREM OneCertificateHolds == D!Spec => []D!CertificatesTypeOK
<1>1. D!Init => D!CertificatesTypeOK
  BY DEF D!Init, D!CertificatesTypeOK, D!Policy, D!NoPolicy, D!Idle, D!Kind
<1>2. QED
  BY <1>1, CertificatesStep, PTL DEF D!Spec

-----------------------------------------------------------------------------
(* OfflineGrants *)

Asking == [pc : {"insert"}, device : Device, others : Nat, term : 1..30]

\* A request in flight has found room for its device, under a limit that was in force.
FoundRoom == \A r \in Request : asks[r] # G!NoRequest => asks[r] \in Asking /\ asks[r].others < peak

OfflineInv ==
    /\ G!OfflineTypeOK /\ IsFiniteSet(grants)
    /\ DOMAIN asks = Request /\ asks = [r \in Request |-> asks[r]] /\ FoundRoom
    /\ offline.limit <= peak
    /\ G!OfflineDevicesWithinLimit

LEMMA OfflineConstants ==
    /\ Limits \subseteq 1..3 /\ Terms \subseteq 1..30
    /\ MaxDay \in Nat /\ MaxGrants \in Nat
BY PartsAssumption DEF G!OfflineAssumption

\* There are no more devices than licences.
LEMMA DevicesOf ==
    ASSUME NEW some, IsFiniteSet(some)
    PROVE  LET devices == {h.device : h \in some}
           IN  /\ IsFiniteSet(devices)
               /\ Cardinality(devices) \in Nat /\ Cardinality(some) \in Nat
               /\ Cardinality(devices) <= Cardinality(some)
<1> DEFINE devices == {h.device : h \in some}
           f == [h \in some |-> h.device]
<1>1. f \in Surjection(some, devices)
  BY DEF Surjection
<1>2. IsFiniteSet(devices) /\ Cardinality(devices) <= Cardinality(some)
  BY <1>1, FS_Surjection
<1>3. QED
  BY <1>2, FS_CardinalityType

\* The instance counts as this module does.
LEMMA SameCount == \A some : G!Cardinality(some) = Cardinality(some)
BY DEF Cardinality, G!Cardinality

LEMMA LiveFinite ==
    ASSUME OfflineInv, NEW d \in Device
    PROVE  /\ IsFiniteSet(G!Live) /\ IsFiniteSet({h \in G!Live : h.device # d})
           /\ G!Others(d) \in Nat
<1>1. IsFiniteSet(G!Live) /\ IsFiniteSet({h \in G!Live : h.device # d})
  BY FS_Subset DEF OfflineInv, G!Live
<1>2. QED
  BY <1>1, FS_CardinalityType, SameCount DEF G!Others

LEMMA AskLicenceStep ==
    ASSUME OfflineInv, NEW r \in Request, NEW d \in Device, G!Ask(r, d)
    PROVE  OfflineInv'
<1> DEFINE q == [pc |-> "insert", device |-> d, others |-> G!Others(d), term |-> offline.term]
<1>1. /\ asks' = [asks EXCEPT ![r] = q] /\ G!Others(d) < offline.limit
      /\ UNCHANGED <<today, offline, grants, peak, crossed>>
  BY DEF G!Ask, G!Free
<1>2. /\ G!Others(d) \in Nat /\ offline.limit \in 1..3 /\ peak \in 1..3
      /\ offline.term \in 1..30 /\ offline.limit <= peak
  BY LiveFinite DEF OfflineInv, G!OfflineTypeOK
<1>3. q \in Asking /\ q.others < peak
  BY <1>1, <1>2 DEF Asking
<1>4. FoundRoom'
  BY <1>1, <1>3 DEF OfflineInv, FoundRoom
<1>5. DOMAIN asks' = Request /\ asks' = [a \in Request |-> asks'[a]]
  BY <1>1 DEF OfflineInv
<1>6. G!OfflineDevicesWithinLimit'
  BY <1>1 DEF OfflineInv, G!OfflineDevicesWithinLimit, G!Live
<1>7. G!OfflineTypeOK'
  BY <1>1 DEF OfflineInv, G!OfflineTypeOK
<1>8. QED
  BY <1>1, <1>4, <1>5, <1>6, <1>7 DEF OfflineInv

\* If nothing was inserted for other devices meanwhile, these are still fewer
\* than the limit, and the new licence makes them one more at most.
LEMMA InsertStep ==
    ASSUME OfflineInv, NEW r \in Request, G!Insert(r)
    PROVE  OfflineInv'
<1> DEFINE q   == asks[r]
           new == [id |-> Cardinality(grants) + 1, device |-> q.device, till |-> today + q.term]
           rest == {h \in G!Live : h.device # q.device}
<1>1. /\ asks[r] # G!NoRequest /\ Cardinality(grants) < MaxGrants
      /\ grants' = grants \cup {new} /\ crossed' = (crossed \/ G!Others(q.device) > q.others)
      /\ asks' = [asks EXCEPT ![r] = G!NoRequest]
      /\ UNCHANGED <<today, offline, peak>>
  BY SameCount DEF G!Insert
<1>2. q \in Asking /\ q.others < peak /\ q.device \in Device /\ q.term \in 1..30 /\ q.others \in Nat
  BY <1>1 DEF OfflineInv, FoundRoom, Asking
<1>3. /\ today \in 0..MaxDay /\ peak \in 1..3 /\ Cardinality(grants) \in Nat /\ MaxDay \in Nat
      /\ MaxGrants \in Nat
  BY OfflineConstants, FS_CardinalityType DEF OfflineInv, G!OfflineTypeOK
<1>4. new \in G!Grant /\ new.till > today
  BY <1>1, <1>2, <1>3 DEF G!Grant
<1>5. IsFiniteSet(grants') /\ grants' \subseteq G!Grant
  BY <1>1, <1>4, FS_AddElement DEF OfflineInv, G!OfflineTypeOK
<1>6. FoundRoom' /\ DOMAIN asks' = Request /\ asks' = [a \in Request |-> asks'[a]]
  BY <1>1 DEF OfflineInv, FoundRoom
<1>7. G!OfflineDevicesWithinLimit'
  <2> SUFFICES ASSUME ~crossed' PROVE Cardinality({h.device : h \in G!Live'}) <= peak
    BY <1>1, SameCount DEF G!OfflineDevicesWithinLimit
  <2>1. IsFiniteSet(rest) /\ G!Others(q.device) = Cardinality(rest) /\ Cardinality(rest) \in Nat
    BY <1>2, LiveFinite, FS_CardinalityType, SameCount DEF G!Others
  <2>2. Cardinality(rest) < peak
    <3>1. ~(G!Others(q.device) > q.others)
      BY <1>1
    <3>2. QED
      BY <1>2, <1>3, <2>1, <3>1
  <2> DEFINE others == {h.device : h \in rest}
  <2>3. {h.device : h \in G!Live'} \subseteq others \cup {q.device}
    <3>1. \A h \in G!Live' : h \in rest \/ h.device = q.device
      BY <1>1 DEF G!Live
    <3>2. QED
      BY <3>1
  <2>4. /\ IsFiniteSet(others) /\ Cardinality(others) \in Nat
        /\ Cardinality(others) <= Cardinality(rest)
    BY <2>1, DevicesOf
  <2> HIDE DEF others
  <2>5. /\ IsFiniteSet(others \cup {q.device})
        /\ Cardinality(others \cup {q.device}) <= Cardinality(others) + 1
        /\ Cardinality(others \cup {q.device}) \in Nat
    <3>1. /\ IsFiniteSet(others \cup {q.device})
          /\ \/ Cardinality(others \cup {q.device}) = Cardinality(others)
             \/ Cardinality(others \cup {q.device}) = Cardinality(others) + 1
      BY <2>4, FS_AddElement, Zenon
    <3>2. QED
      BY <2>4, <3>1
  <2>6. /\ Cardinality({h.device : h \in G!Live'}) <= Cardinality(others \cup {q.device})
        /\ Cardinality({h.device : h \in G!Live'}) \in Nat
    BY <2>3, <2>5, FS_Subset, FS_CardinalityType
  <2>7. QED
    BY <1>3, <2>1, <2>2, <2>4, <2>5, <2>6
<1>8. G!OfflineTypeOK'
  <2>1. crossed' \in BOOLEAN
    BY <1>1 DEF OfflineInv, G!OfflineTypeOK
  <2>2. QED
    BY <1>1, <1>5, <2>1 DEF OfflineInv, G!OfflineTypeOK
<1>9. QED
  BY <1>1, <1>5, <1>6, <1>7, <1>8 DEF OfflineInv

LEMMA PolicyStep ==
    ASSUME OfflineInv, NEW able \in BOOLEAN, NEW limit \in Limits, NEW term \in Terms,
           G!SetPolicy(able, limit, term)
    PROVE  OfflineInv'
<1>1. /\ offline' = [enabled |-> able, limit |-> limit, term |-> term]
      /\ peak' = IF limit > peak THEN limit ELSE peak
      /\ UNCHANGED <<today, grants, crossed, asks>>
  BY DEF G!SetPolicy
<1>2. limit \in 1..3 /\ term \in 1..30 /\ peak \in 1..3 /\ peak' \in 1..3 /\ peak <= peak'
  BY <1>1, OfflineConstants DEF OfflineInv, G!OfflineTypeOK
<1>3. G!OfflineTypeOK' /\ offline'.limit <= peak'
  BY <1>1, <1>2 DEF OfflineInv, G!OfflineTypeOK
<1>4. FoundRoom'
  BY <1>1, <1>2 DEF OfflineInv, FoundRoom, Asking
<1>5. G!OfflineDevicesWithinLimit'
  <2>1. LET n == Cardinality({h.device : h \in G!Live}) IN n \in Nat
    BY FS_Subset, DevicesOf DEF OfflineInv, G!Live
  <2>2. QED
    BY <1>1, <1>2, <2>1, SameCount DEF OfflineInv, G!OfflineDevicesWithinLimit, G!Live
<1>6. QED
  BY <1>1, <1>3, <1>4, <1>5 DEF OfflineInv

\* Licences run out.
LEMMA NextDayStep ==
    ASSUME OfflineInv, G!NextDay
    PROVE  OfflineInv'
<1>1. /\ today < MaxDay /\ today' = today + 1 /\ today \in 0..MaxDay /\ MaxDay \in Nat
      /\ UNCHANGED <<offline, grants, peak, crossed, asks>>
  BY OfflineConstants DEF G!NextDay, OfflineInv, G!OfflineTypeOK
<1>2. G!OfflineTypeOK' /\ FoundRoom'
  BY <1>1 DEF OfflineInv, G!OfflineTypeOK, FoundRoom
<1>3. {h.device : h \in G!Live'} \subseteq {h.device : h \in G!Live}
  <2>1. \A h \in grants : h.till \in Int
    BY DEF OfflineInv, G!OfflineTypeOK, G!Grant
  <2>2. QED
    BY <1>1, <2>1 DEF G!Live
<1>4. LET old == {h.device : h \in G!Live} IN IsFiniteSet(old) /\ Cardinality(old) \in Nat
  BY FS_Subset, DevicesOf DEF OfflineInv, G!Live
<1>5. /\ Cardinality({h.device : h \in G!Live'}) <= Cardinality({h.device : h \in G!Live})
      /\ Cardinality({h.device : h \in G!Live'}) \in Nat
  BY <1>3, <1>4, FS_Subset, FS_CardinalityType
<1>6. G!OfflineDevicesWithinLimit'
  BY <1>1, <1>4, <1>5, SameCount DEF OfflineInv, G!OfflineTypeOK, G!OfflineDevicesWithinLimit
<1>7. QED
  BY <1>1, <1>2, <1>6 DEF OfflineInv

LEMMA OfflineStep == OfflineInv /\ [G!Next]_(G!vars) => OfflineInv'
<1> SUFFICES ASSUME OfflineInv, [G!Next]_(G!vars) PROVE OfflineInv'
  OBVIOUS
<1>1. CASE UNCHANGED G!vars
  BY <1>1 DEF G!vars, OfflineInv, G!OfflineTypeOK, FoundRoom, G!OfflineDevicesWithinLimit, G!Live
<1>2. ASSUME NEW r \in Request, NEW d \in Device, G!Ask(r, d) PROVE OfflineInv'
  BY <1>2, AskLicenceStep
<1>3. ASSUME NEW r \in Request, G!Insert(r) PROVE OfflineInv'
  BY <1>3, InsertStep
<1>4. ASSUME NEW r \in Request, G!Abort(r) PROVE OfflineInv'
  BY <1>4 DEF G!Abort, OfflineInv, G!OfflineTypeOK, FoundRoom, G!OfflineDevicesWithinLimit, G!Live
<1>5. ASSUME NEW able \in BOOLEAN, NEW limit \in Limits, NEW term \in Terms,
             G!SetPolicy(able, limit, term)
      PROVE  OfflineInv'
  BY <1>5, PolicyStep
<1>6. CASE G!NextDay
  BY <1>6, NextDayStep
<1>7. QED
  BY <1>1, <1>2, <1>3, <1>4, <1>5, <1>6 DEF G!Next

LEMMA OfflineInit == G!Init => OfflineInv
<1> SUFFICES ASSUME G!Init PROVE OfflineInv
  OBVIOUS
<1>1. /\ today = 0 /\ offline = G!Off /\ grants = {} /\ peak = 1 /\ crossed = FALSE
      /\ asks = [r \in Request |-> G!NoRequest]
  BY DEF G!Init
<1>2. IsFiniteSet(grants) /\ {h.device : h \in G!Live} = {}
  BY <1>1, FS_EmptySet DEF G!Live
<1>3. G!OfflineDevicesWithinLimit
  BY <1>1, <1>2, FS_EmptySet, SameCount DEF G!OfflineDevicesWithinLimit
<1>4. G!OfflineTypeOK /\ offline.limit <= peak
  <2>1. today \in 0..MaxDay
    BY <1>1, OfflineConstants
  <2>2. offline \in [enabled : BOOLEAN, limit : 1..3, term : 1..30] /\ offline.limit = 1
    BY <1>1 DEF G!Off
  <2>3. QED
    <3>1. grants \subseteq G!Grant
      BY <1>1
    <3>2. peak \in 1..3
      BY <1>1
    <3>3. crossed \in BOOLEAN
      BY <1>1
    <3>4. QED
      BY <2>1, <2>2, <3>1, <3>2, <3>3 DEF G!OfflineTypeOK
<1>5. QED
  BY <1>1, <1>2, <1>3, <1>4 DEF OfflineInv, FoundRoom

LEMMA OfflineHolds == G!Spec => []OfflineInv
BY OfflineInit, OfflineStep, PTL DEF G!Spec

\* A student never keeps a lesson offline on more devices than the staff ever
\* allowed, unless two requests cross between the count and the insert
\* (learning_runtime.py:172-177).
THEOREM OfflineDevicesWithinLimitHolds == G!Spec => []OfflineDevicesWithinLimit
<1>1. OfflineInv => OfflineDevicesWithinLimit
  BY DEF OfflineInv, OfflineDevicesWithinLimit
<1>2. QED
  BY <1>1, OfflineHolds, PTL

-----------------------------------------------------------------------------
(* Lessons *)

\* A finite set in which some come after others has one that nothing comes after.
LEMMA LastOfSome ==
    ASSUME NEW some, IsFiniteSet(some), some # {}, NEW after,
           \A x \in some : <<x, x>> \notin after,
           \A x, y, z \in some : <<x, y>> \in after /\ <<y, z>> \in after => <<x, z>> \in after
    PROVE  \E x \in some : \A y \in some : <<y, x>> \notin after
<1> DEFINE Later(x) == {y \in some : <<y, x>> \in after}
           less == {ss \in Nat \X Nat : ss[1] < ss[2]}
           sizes == {Cardinality(Later(x)) : x \in some}
<1>1. \A x \in some : IsFiniteSet(Later(x)) /\ Cardinality(Later(x)) \in Nat
  BY FS_Subset, FS_CardinalityType
<1>2. sizes \subseteq Nat /\ sizes # {}
  <2> HIDE DEF Later
  <2>1. PICK x \in some : TRUE
    OBVIOUS
  <2>2. Cardinality(Later(x)) \in sizes
    OBVIOUS
  <2>3. QED
    BY <1>1, <2>2
<1>3. IsWellFoundedOn(less, Nat)
  BY NatLessThanWellFounded DEF OpToRel
<1>4. PICK least \in sizes : \A n \in sizes : ~(<<n, least>> \in less)
  <2> HIDE DEF sizes, less
  <2> QED
    BY <1>2, <1>3, WFMin
<1>5. PICK x \in some : least = Cardinality(Later(x))
  BY <1>4
<1>6. ASSUME NEW y \in some, <<y, x>> \in after PROVE FALSE
  <2>1. Later(y) \subseteq Later(x) /\ y \in Later(x) /\ y \notin Later(y)
    BY <1>6
  <2>2. Cardinality(Later(y)) <= Cardinality(Later(x)) /\ Cardinality(Later(y)) # Cardinality(Later(x))
    <3> HIDE DEF Later
    <3> QED
      BY <1>1, <2>1, FS_Subset
  <2>3. Cardinality(Later(y)) < Cardinality(Later(x))
    BY <1>1, <2>2
  <2> HIDE DEF Later
  <2>4. <<Cardinality(Later(y)), least>> \in less
    BY <1>1, <1>5, <2>3
  <2>5. Cardinality(Later(y)) \in sizes
    OBVIOUS
  <2>6. QED
    BY <1>4, <2>4, <2>5
<1>7. QED
  BY <1>6

\* The relation puts the members of a set in a row, and the place of a member.
InRow(some, after) ==
    /\ \A x \in some : <<x, x>> \notin after
    /\ \A x, y, z \in some : <<x, y>> \in after /\ <<y, z>> \in after => <<x, z>> \in after
    /\ \A x, y \in some : x = y \/ <<x, y>> \in after \/ <<y, x>> \in after
Place(x, some, after) == Cardinality({y \in some : <<x, y>> \in after})

\* Put in a row, they have the places from 0 up, each of them one.
LEMMA PlacesTaken ==
    ASSUME NEW some, IsFiniteSet(some), NEW after, InRow(some, after),
           NEW i \in Nat, i < Cardinality(some)
    PROVE  \E x \in some : Place(x, some, after) = i
<1> USE DEF InRow, Place
<1> DEFINE Earlier(x) == {y \in some : <<x, y>> \in after}
           n == Cardinality(some)
           f == [x \in some |-> Cardinality(Earlier(x))]
<1>1. n \in Nat /\ \A x \in some : IsFiniteSet(Earlier(x)) /\ Cardinality(Earlier(x)) \in Nat
  BY FS_Subset, FS_CardinalityType
<1>2. ASSUME NEW x \in some PROVE Cardinality(Earlier(x)) \in 0..(n - 1)
  <2>1. x \notin Earlier(x) /\ Earlier(x) \in SUBSET some
    OBVIOUS
  <2>2. Cardinality(Earlier(x)) <= n /\ Cardinality(Earlier(x)) # n
    <3> HIDE DEF Earlier
    <3> QED
      BY <2>1, FS_Subset
  <2> HIDE DEF n, Earlier
  <2>3. QED
    BY <1>1, <2>2
<1>3. ASSUME NEW x \in some, NEW y \in some, <<x, y>> \in after
      PROVE  Cardinality(Earlier(y)) < Cardinality(Earlier(x))
  <2>1. Earlier(y) \in SUBSET Earlier(x) /\ y \in Earlier(x) /\ y \notin Earlier(y)
    BY <1>3
  <2>2. Cardinality(Earlier(y)) <= Cardinality(Earlier(x)) /\ Cardinality(Earlier(y)) # Cardinality(Earlier(x))
    <3> HIDE DEF Earlier
    <3> QED
      BY <1>1, <2>1, FS_Subset
  <2>3. QED
    BY <1>1, <2>2
<1>4. \A x, y \in some : Cardinality(Earlier(x)) = Cardinality(Earlier(y)) => x = y
  <2> SUFFICES ASSUME NEW x \in some, NEW y \in some,
                      Cardinality(Earlier(x)) = Cardinality(Earlier(y)), x # y
               PROVE  FALSE
    OBVIOUS
  <2>1. /\ Cardinality(Earlier(x)) \in Nat /\ Cardinality(Earlier(y)) \in Nat
        /\ <<x, y>> \in after \/ <<y, x>> \in after
    BY <1>1
  <2> HIDE DEF Earlier
  <2>2. QED
    BY <1>3, <2>1
<1>5. f \in Injection(some, 0..(n - 1))
  <2> HIDE DEF n, Earlier
  <2>1. f \in [some -> 0..(n - 1)]
    BY <1>2
  <2>2. QED
    BY <1>4, <2>1 DEF Injection, IsInjective
<1>6. IsFiniteSet(0..(n - 1)) /\ Cardinality(0..(n - 1)) = n
  <2> HIDE DEF n
  <2> QED
    BY <1>1, FS_Interval
<1>7. f \in Surjection(some, 0..(n - 1))
  <2> HIDE DEF f
  <2> QED
    BY <1>5, <1>6, FS_Injection
<1>8. i \in 0..(n - 1)
  <2> HIDE DEF n
  <2>1. i < n
    BY DEF n
  <2> QED
    BY <1>1, <2>1
<1>9. PICK x \in some : f[x] = i
  <2> HIDE DEF n, f
  <2> QED
    BY <1>7, <1>8 DEF Surjection
<1>10. QED
  BY <1>9

\* A lesson that asks for the one before it
Asks(l) == lesson[l].rule.mode \in {"previous", "previous_and_days"} /\ lesson[l].override.action = "lock"

\* Progress is that of lessons the database came with, which still have their row.
Known ==
    /\ \A l \in Lesson : /\ progress[l] # "none" => l \in FirstLessons /\ Exists(l)
                         /\ l \in FirstLessons => lesson[l].is # "none"
    /\ report # 0 => lesson[report].is # "none"

\* As long as nothing was rearranged every lesson asks, the first lessons have a
\* place each, and what is finished, or is about to be, comes after finished ones.
Ordered ==
    /\ \A l \in Rows : Asks(l)
    /\ \A k, l \in FirstLessons \cap Rows : lesson[k].order = lesson[l].order => k = l
    /\ \A l \in Rows : Done(l) => \A k \in Before(l) : Done(k)
    /\ report # 0 /\ Exists(report) => \A k \in Before(report) : Done(k)

LessonsInv == LessonsTypeOK /\ Known /\ (~rearranged => Ordered)

LessonRow == [is : {"none", "draft", "published", "deleted"}, order : Nat \ {0},
              unit : Unit \cup {NoUnit}, rule : Rule, window : Window, override : Override]

LEMMA DraftType ==
    ASSUME NEW order \in Nat \ {0}
    PROVE  /\ Draft(order) = [is |-> "draft", order |-> order, unit |-> NoUnit, rule |-> NoRule,
                              window |-> Always, override |-> NoOverride]
           /\ NoRule \in Rule /\ Always \in Window /\ NoOverride \in Override
           /\ Draft(order) \in LessonRow
<1>1. Always \in Window
  BY LessonsAssumption DEF Always, Window, Never
<1>2. NoOverride \in Override /\ NoRule \in Rule
  BY LessonsAssumption DEF NoOverride, Override, Never, NoRule, Rule
<1>3. QED
  BY <1>1, <1>2 DEF Draft, LessonRow

LEMMA LessonsInit == Init => LessonsInv
<1> SUFFICES ASSUME Init PROVE LessonsInv
  OBVIOUS
<1> DEFINE place == [l \in Lesson |-> Cardinality({k \in FirstLessons : k <= l})]
<1>1. ASSUME NEW l \in FirstLessons PROVE place[l] \in Nat \ {0} /\ IsFiniteSet({k \in FirstLessons : k <= l})
  <2>1. IsFiniteSet({k \in FirstLessons : k <= l})
    BY LessonsAssumption, FS_Subset
  <2>2. l \in {k \in FirstLessons : k <= l} /\ l \in Lesson
    BY LessonsAssumption
  <2>3. QED
    BY <2>1, <2>2, FS_CardinalityType, FS_EmptySet
<1>2. ASSUME NEW k \in FirstLessons, NEW l \in FirstLessons, k < l PROVE place[k] # place[l]
  <2>0. FirstLessons \subseteq Nat /\ k \in Nat /\ l \in Nat
    BY LessonsAssumption
  <2>1. /\ {j \in FirstLessons : j <= k} \in SUBSET {j \in FirstLessons : j <= l}
        /\ l \in {j \in FirstLessons : j <= l} /\ l \notin {j \in FirstLessons : j <= k}
    <3>1. \A j \in FirstLessons : j <= k => j <= l
      BY <1>2, <2>0
    <3>2. l <= l /\ ~(l <= k)
      BY <1>2, <2>0
    <3>3. QED
      BY <3>1, <3>2
  <2>2. Cardinality({j \in FirstLessons : j <= k}) # Cardinality({j \in FirstLessons : j <= l})
    BY <1>1, <2>1, FS_Subset
  <2>3. QED
    BY <2>2, LessonsAssumption
<1> HIDE DEF place
<1>3. lesson = [l \in Lesson |-> IF l \in FirstLessons THEN [Draft(place[l]) EXCEPT !.is = "published"]
                                 ELSE [Draft(1) EXCEPT !.is = "none"]]
  BY DEF Init, place
<1>4. ASSUME NEW l \in Lesson
      PROVE  /\ lesson[l] = [is |-> IF l \in FirstLessons THEN "published" ELSE "none",
                             order |-> IF l \in FirstLessons THEN place[l] ELSE 1,
                             unit |-> NoUnit, rule |-> NoRule, window |-> Always, override |-> NoOverride]
             /\ lesson[l] \in LessonRow
             /\ lesson[l].rule = NoRule /\ lesson[l].override = NoOverride
             /\ lesson[l].is = (IF l \in FirstLessons THEN "published" ELSE "none")
             /\ l \in FirstLessons => lesson[l].order = place[l]
  <2>1. lesson[l] = [is |-> IF l \in FirstLessons THEN "published" ELSE "none",
                     order |-> IF l \in FirstLessons THEN place[l] ELSE 1,
                     unit |-> NoUnit, rule |-> NoRule, window |-> Always, override |-> NoOverride]
    BY <1>3 DEF Draft
  <2>2. (IF l \in FirstLessons THEN place[l] ELSE 1) \in Nat \ {0}
    <3>1. l \in FirstLessons => place[l] \in Nat \ {0}
      BY <1>1
    <3>2. QED
      BY <3>1
  <2>3. QED
    BY <2>1, <2>2, DraftType DEF LessonRow
<1>5. LessonsTypeOK
  <2>1. unit \in [Unit -> [is : {"none", "draft", "published"}, window : Window]]
    BY DraftType DEF Init
  <2>2. /\ day \in 0..MaxDay /\ enrolled \in BOOLEAN /\ progress \in [Lesson -> {"none", "open", "done"}]
        /\ rewarded \subseteq Lesson /\ edits \in 0..MaxEdits /\ rearranged \in BOOLEAN
        /\ report \in Lesson \cup {0}
    <3>1. 0 \in 0..MaxDay /\ 0 \in 0..MaxEdits
      BY LessonsAssumption
    <3>2. /\ day = 0 /\ enrolled = TRUE /\ progress \in [Lesson -> {"none", "open"}]
          /\ rewarded = {} /\ edits = 0 /\ rearranged = FALSE /\ report = 0
      BY DEF Init
    <3>3. progress \in [Lesson -> {"none", "open", "done"}]
      BY <3>2
    <3>4. QED
      BY <3>1, <3>2, <3>3
  <2>3. lesson \in [Lesson -> LessonRow]
    BY <1>3, <1>4
  <2>4. QED
    BY <2>1, <2>2, <2>3 DEF LessonsTypeOK, LessonRow
<1>6. Known
  BY <1>4, LessonsAssumption DEF Init, Known, Exists
<1>7. Ordered
  <2>1. \A l \in Lesson : Asks(l)
    <3>1. NoRule.mode = "previous" /\ NoOverride.action = "lock"
      BY DEF NoRule, NoOverride
    <3>2. \A l \in Lesson : lesson[l].rule = NoRule /\ lesson[l].override = NoOverride
      BY <1>4
    <3>3. QED
      BY <3>1, <3>2 DEF Asks
  <2>2. \A k, l \in FirstLessons \cap Rows : lesson[k].order = lesson[l].order => k = l
    <3> SUFFICES ASSUME NEW k \in FirstLessons, NEW l \in FirstLessons, lesson[k].order = lesson[l].order
                 PROVE  k = l
      OBVIOUS
    <3>1. k \in Nat /\ l \in Nat /\ k \in Lesson /\ l \in Lesson
      BY LessonsAssumption
    <3>2. lesson[k].order = place[k] /\ lesson[l].order = place[l]
      BY <1>4, <3>1
    <3>3. place[k] = place[l]
      BY <3>2
    <3>4. k < l \/ l < k \/ k = l
      BY <3>1
    <3>5. QED
      BY <1>2, <3>3, <3>4
  <2>3. \A l \in Lesson : ~Done(l)
    BY DEF Init, Done
  <2>4. QED
    BY <2>1, <2>2, <2>3 DEF Ordered, Init, Rows
<1>8. QED
  BY <1>5, <1>6, <1>7 DEF LessonsInv

\* Of the lessons before one, the one that is asked for is there, and nothing
\* stands between the two.
LEMMA PreviousFound ==
    ASSUME LessonsInv, NEW l \in Rows, NEW j \in Before(l)
    PROVE  \E k \in Previous(l) : TRUE
<1> DEFINE after == {ss \in Lesson \X Lesson : Follows(ss[1], ss[2])}
<1>1. Before(l) \subseteq Lesson /\ IsFiniteSet(Before(l)) /\ Before(l) # {}
  BY LessonsAssumption, FS_Subset DEF Before, Published
<1>2. \A k \in Lesson : k \in Nat /\ lesson[k].order \in Nat
  BY LessonsAssumption DEF LessonsInv, LessonsTypeOK
<1>3. \A k, i \in Lesson : <<k, i>> \in after <=> Follows(k, i)
  OBVIOUS
<1>4. \A k \in Lesson : ~Follows(k, k)
  BY <1>2 DEF Follows
<1>5. \A k, i, m \in Lesson : Follows(k, i) /\ Follows(i, m) => Follows(k, m)
  BY <1>2 DEF Follows
<1> HIDE DEF after
<1>6. \A k \in Before(l) : <<k, k>> \notin after
  BY <1>1, <1>3, <1>4
<1>7. \A k, i, m \in Before(l) : <<k, i>> \in after /\ <<i, m>> \in after => <<k, m>> \in after
  BY <1>1, <1>3, <1>5
<1>8. PICK k \in Before(l) : \A i \in Before(l) : <<i, k>> \notin after
  BY <1>1, <1>6, <1>7, LastOfSome
<1>9. \A i \in Before(l) : ~Follows(i, k)
  BY <1>1, <1>3, <1>8
<1>10. \A i \in Before(l) : \/ lesson[i].order < lesson[k].order
                            \/ lesson[i].order = lesson[k].order /\ i <= k
  BY <1>1, <1>2, <1>9 DEF Follows
<1>11. QED
  BY <1>10 DEF Previous

\* Each door asks for one lesson, and that one for all before it.
LEMMA UnlockedAfter ==
    ASSUME LessonsInv, ~rearranged, NEW l \in Rows, Unlocked(l)
    PROVE  \A k \in Before(l) : Done(k)
<1> SUFFICES ASSUME NEW j \in Before(l) PROVE Done(j)
  OBVIOUS
<1>1. Ordered /\ Asks(l)
  BY DEF LessonsInv, Ordered
<1>2. \A k \in Previous(l) : Done(k)
  BY <1>1 DEF Unlocked, Asks
<1>3. PICK k \in Previous(l) : TRUE
  BY PreviousFound
<1>4. /\ k \in Before(l) /\ Done(k) /\ k \in Rows /\ j \in Rows /\ k \in Lesson /\ j \in Lesson
      /\ j \in Published
      /\ lesson[j].order < lesson[k].order \/ (lesson[j].order = lesson[k].order /\ j <= k)
  BY <1>2, <1>3 DEF Previous, Before, Published, Rows, Exists
<1>5. CASE lesson[j].order < lesson[k].order
  BY <1>1, <1>4, <1>5 DEF Ordered, Before
<1>6. CASE lesson[j].order = lesson[k].order /\ j <= k
  <2>1. k \in FirstLessons
    BY <1>4 DEF LessonsInv, Known, Done
  <2>2. j \in Nat /\ k \in Nat
    BY <1>4, LessonsAssumption
  <2>3. j \in FirstLessons
    BY <1>4, <1>6, <2>1, <2>2, LessonsAssumption
  <2>4. j = k
    BY <1>1, <1>4, <1>6, <2>1, <2>3 DEF Ordered
  <2>5. QED
    BY <1>4, <2>4
<1>7. QED
  BY <1>4, <1>5, <1>6

\* A change that puts no lesson before another one: new lessons are drafts, the
\* others keep their places, and what is published now has nothing behind it.
LEMMA GentleChange ==
    ASSUME LessonsInv, LessonsTypeOK', report' = report,
           rearranged => rearranged',
           \A l \in Lesson : /\ lesson[l].is # "none" => lesson'[l].is # "none"
                             /\ \/ progress'[l] = progress[l] /\ (Exists(l) => Exists(l)')
                                \/ progress'[l] = progress[l] /\ progress[l] = "none"
                                \/ progress'[l] = "none" /\ ~Exists(l)',
           ~rearranged' =>
             \A l \in Lesson : /\ Exists(l)' /\ ~Exists(l) => lesson[l].is = "none" /\ lesson'[l].is = "draft"
                               /\ Exists(l)' /\ Exists(l) => lesson'[l].order = lesson[l].order
                               /\ Exists(l)' => Asks(l)'
                               /\ lesson'[l].is = "published" /\ l \notin Published =>
                                    \A k \in Lesson : Exists(k)' => lesson'[k].order <= lesson'[l].order
    PROVE  LessonsInv'
<1>1. Known'
  <2>1. \A l \in Lesson : /\ progress'[l] # "none" => l \in FirstLessons /\ Exists(l)'
                          /\ l \in FirstLessons => lesson'[l].is # "none"
    BY DEF LessonsInv, Known
  <2>2. report # 0 => report \in Lesson
    BY DEF LessonsInv, LessonsTypeOK
  <2>3. report' # 0 => lesson'[report'].is # "none"
    BY <2>2 DEF LessonsInv, Known
  <2>4. QED
    BY <2>1, <2>3 DEF Known
<1>2. ASSUME ~rearranged' PROVE Ordered'
  <2>1. Ordered
    BY <1>2 DEF LessonsInv
  <2>2. \A l \in Lesson : lesson'[l].order \in Nat /\ lesson[l].order \in Nat
    BY DEF LessonsInv, LessonsTypeOK
  <2>3. ASSUME NEW l \in Lesson, Exists(l)', Exists(l), NEW k \in Before(l)'
        PROVE  k \in Before(l) /\ k \in Lesson /\ Exists(k) /\ Exists(k)'
    <3>1. k \in Lesson /\ lesson'[k].is = "published" /\ lesson'[k].order < lesson'[l].order
      BY <2>3 DEF Before, Published
    <3>2. ~(lesson'[l].order <= lesson'[k].order)
      BY <2>2, <3>1
    <3>3. k \in Published
      BY <1>2, <2>3, <3>1, <3>2
    <3>4. Exists(k) /\ Exists(k)'
      BY <3>1, <3>3 DEF Published, Exists
    <3>5. lesson[k].order = lesson'[k].order /\ lesson[l].order = lesson'[l].order
      BY <1>2, <2>3, <3>1, <3>4
    <3>6. QED
      BY <3>1, <3>3, <3>4, <3>5 DEF Before
  <2>4. ASSUME NEW l \in Lesson, Exists(l)', Exists(l), \A k \in Before(l) : Done(k)
        PROVE  \A k \in Before(l)' : Done(k)'
    <3> SUFFICES ASSUME NEW k \in Before(l)' PROVE Done(k)'
      OBVIOUS
    <3>1. Done(k) /\ k \in Lesson /\ Exists(k)'
      BY <2>3, <2>4
    <3>2. QED
      BY <3>1 DEF Done
  <2>5. ASSUME NEW l \in Lesson, Exists(l)', Done(l)' PROVE Exists(l) /\ Done(l)
    BY <2>5 DEF Done, LessonsInv, Known
  <2>6. \A l \in Rows' : Done(l)' => \A k \in Before(l)' : Done(k)'
    BY <2>1, <2>4, <2>5 DEF Ordered, Rows
  <2>7. \A l \in Rows' : Asks(l)'
    BY <1>2 DEF Rows
  <2>8. \A k, l \in FirstLessons \cap Rows' : lesson'[k].order = lesson'[l].order => k = l
    <3>1. \A l \in FirstLessons \cap Rows' : l \in Rows /\ lesson'[l].order = lesson[l].order
      BY <1>2 DEF Rows, LessonsInv, Known
    <3>2. QED
      BY <2>1, <3>1 DEF Ordered
  <2>9. ASSUME report' # 0, Exists(report)' PROVE \A k \in Before(report)' : Done(k)'
    <3>1. report \in Lesson /\ lesson[report].is # "none"
      BY <2>9 DEF LessonsInv, LessonsTypeOK, Known
    <3>2. PICK l \in Lesson : l = report
      BY <3>1
    <3>3. lesson[l].is # "none" /\ Exists(l)'
      BY <2>9, <3>1, <3>2 DEF Exists
    <3>4. Exists(l)
      BY <1>2, <3>3
    <3>5. \A k \in Before(l) : Done(k)
      BY <2>1, <2>9, <3>2, <3>4 DEF Ordered
    <3>6. \A k \in Before(l)' : Done(k)'
      BY <2>4, <3>3, <3>4, <3>5
    <3>7. Before(report)' = Before(l)'
      BY <3>2 DEF Before, Published
    <3>8. QED
      BY <3>6, <3>7
  <2>10. QED
    BY <2>6, <2>7, <2>8, <2>9 DEF Ordered
<1>3. QED
  BY <1>1, <1>2 DEF LessonsInv

\* What the staff leave alone, and the bound of their changes
StaffFrame ==
    /\ UNCHANGED <<day, enrolled, rewarded, report>> /\ edits' \in 0..MaxEdits

LEMMA StaffTypes ==
    ASSUME LessonsInv, StaffFrame, lesson' \in [Lesson -> LessonRow],
           unit' \in [Unit -> [is : {"none", "draft", "published"}, window : Window]],
           progress' \in [Lesson -> {"none", "open", "done"}], rearranged' \in BOOLEAN
    PROVE  LessonsTypeOK'
BY DEF LessonsInv, LessonsTypeOK, LessonRow, StaffFrame

\* One row is written; it is not rearranging if the row keeps its place, asks, and
\* does not come before others as a published lesson.
LEMMA EditStep ==
    ASSUME LessonsInv, StaffFrame, NEW l \in Lesson, NEW r \in LessonRow, Edit(l, r), UNCHANGED unit,
           r.is # "none", lesson[l].is # "deleted", lesson[l].is = "none" => r.is = "draft",
           \/ r.is # "deleted" /\ UNCHANGED progress
           \/ r.is = "deleted" /\ progress' = [progress EXCEPT ![l] = "none"],
           rearranged' \in BOOLEAN, rearranged => rearranged',
           ~rearranged' /\ r.is # "deleted" =>
              /\ Exists(l) => r.order = lesson[l].order
              /\ r.rule.mode \in {"previous", "previous_and_days"} /\ r.override.action = "lock"
              /\ l \notin Published => ~Intrudes(l, r)
    PROVE  LessonsInv'
<1>1. /\ lesson' \in [Lesson -> LessonRow] /\ lesson'[l] = r
      /\ \A k \in Lesson : k # l => lesson'[k] = lesson[k]
      /\ \A k \in Lesson : lesson[k] \in LessonRow
  BY DEF LessonsInv, LessonsTypeOK, LessonRow, Edit
<1>2. /\ progress' \in [Lesson -> {"none", "open", "done"}]
      /\ \A k \in Lesson : k # l \/ r.is # "deleted" => progress'[k] = progress[k]
      /\ r.is = "deleted" => progress'[l] = "none"
  BY DEF LessonsInv, LessonsTypeOK
<1>3. LessonsTypeOK'
  BY <1>1, <1>2, StaffTypes DEF LessonsInv, LessonsTypeOK
<1>4. r.is \in {"draft", "published", "deleted"}
  BY DEF LessonRow
<1>5. ASSUME NEW k \in Lesson
      PROVE  /\ lesson[k].is # "none" => lesson'[k].is # "none"
             /\ \/ progress'[k] = progress[k] /\ (Exists(k) => Exists(k)')
                \/ progress'[k] = progress[k] /\ progress[k] = "none"
                \/ progress'[k] = "none" /\ ~Exists(k)'
  BY <1>1, <1>2, <1>4 DEF Exists
<1>6. ASSUME ~rearranged', NEW k \in Lesson
      PROVE  /\ Exists(k)' /\ ~Exists(k) => lesson[k].is = "none" /\ lesson'[k].is = "draft"
             /\ Exists(k)' /\ Exists(k) => lesson'[k].order = lesson[k].order
             /\ Exists(k)' => Asks(k)'
             /\ lesson'[k].is = "published" /\ k \notin Published =>
                  \A i \in Lesson : Exists(i)' => lesson'[i].order <= lesson'[k].order
  <2>1. Ordered
    BY <1>6 DEF LessonsInv
  <2>2. CASE k # l
    BY <1>1, <2>1, <2>2 DEF Exists, Ordered, Rows, Asks, Published
  <2>3. CASE k = l
    <3>1. Exists(l)' => r.is # "deleted"
      BY <1>1 DEF Exists
    <3>2. lesson[l].is \in {"none", "draft", "published"}
      BY <1>1 DEF LessonRow
    <3>3. Exists(k)' /\ ~Exists(k) => lesson[k].is = "none" /\ lesson'[k].is = "draft"
      BY <1>1, <2>3, <3>2 DEF Exists
    <3>4. Exists(k)' /\ Exists(k) => lesson'[k].order = lesson[k].order
      BY <1>1, <1>6, <2>3, <3>1
    <3>5. Exists(k)' => Asks(k)'
      BY <1>1, <1>6, <2>3, <3>1 DEF Asks
    <3>6. ASSUME lesson'[k].is = "published", k \notin Published, NEW i \in Lesson, Exists(i)'
          PROVE  lesson'[i].order <= lesson'[k].order
      <4>1. r.order \in Nat /\ lesson[i].order \in Nat
        BY <1>1 DEF LessonRow
      <4>2. CASE i = l
        BY <1>1, <2>3, <4>1, <4>2
      <4>3. CASE i # l
        <5>1. i \in Rows \ {l} /\ lesson'[i] = lesson[i]
          BY <1>1, <3>6, <4>3 DEF Rows, Exists
        <5>2. r.is = "published" /\ ~Intrudes(l, r)
          BY <1>1, <1>6, <2>3, <3>6
        <5>3. ~(lesson[i].order > r.order)
          BY <5>1, <5>2 DEF Intrudes
        <5>4. QED
          BY <1>1, <2>3, <4>1, <5>1, <5>3
      <4>4. QED
        BY <4>2, <4>3
    <3>7. QED
      BY <3>3, <3>4, <3>5, <3>6
  <2>4. QED
    BY <2>2, <2>3
<1>7. QED
  BY <1>3, <1>5, <1>6, GentleChange DEF StaffFrame

\* The fields of a row, one by one
LEMMA RowFields ==
    ASSUME LessonsInv, NEW l \in Lesson
    PROVE  /\ lesson[l] \in LessonRow
           /\ lesson[l] = [is |-> lesson[l].is, order |-> lesson[l].order, unit |-> lesson[l].unit,
                           rule |-> lesson[l].rule, window |-> lesson[l].window,
                           override |-> lesson[l].override]
           /\ ~rearranged /\ Exists(l) =>
                 /\ lesson[l].rule.mode \in {"previous", "previous_and_days"}
                 /\ lesson[l].override.action = "lock"
           /\ Exists(l) => lesson[l].is \notin {"none", "deleted"}
           /\ rearranged \in BOOLEAN
<1>1. lesson[l] \in LessonRow
  BY DEF LessonsInv, LessonsTypeOK, LessonRow
<1>2. lesson[l] = [is |-> lesson[l].is, order |-> lesson[l].order, unit |-> lesson[l].unit,
                   rule |-> lesson[l].rule, window |-> lesson[l].window,
                   override |-> lesson[l].override]
  BY <1>1 DEF LessonRow
<1>3. QED
  BY <1>1, <1>2 DEF LessonsInv, LessonsTypeOK, Ordered, Rows, Asks, Exists

LEMMA AddLessonStep ==
    ASSUME LessonsInv, StaffFrame, AddLesson
    PROVE  LessonsInv'
<1>1. PICK l \in Lesson : /\ lesson[l].is = "none" /\ Edit(l, Draft(Cardinality(Rows) + 1))
                          /\ UNCHANGED <<unit, progress, rearranged>>
  BY DEF AddLesson
<1>2. Cardinality(Rows) + 1 \in Nat \ {0}
  <2>1. IsFiniteSet(Rows)
    BY LessonsAssumption, FS_Subset DEF Rows
  <2>2. QED
    BY <2>1, FS_CardinalityType
<1>3. PICK r \in LessonRow : r = Draft(Cardinality(Rows) + 1)
  BY <1>2, DraftType
<1>4. /\ r.is = "draft" /\ r.rule.mode = "previous" /\ r.override.action = "lock"
  BY <1>3 DEF Draft, NoRule, NoOverride
<1>5. ~Exists(l) /\ ~Intrudes(l, r)
  BY <1>1, <1>4 DEF Exists, Intrudes
<1>6. rearranged \in BOOLEAN
  BY DEF LessonsInv, LessonsTypeOK
<1>7. QED
  BY <1>1, <1>3, <1>4, <1>5, <1>6, EditStep

LEMMA UpdateLessonStep ==
    ASSUME LessonsInv, StaffFrame, NEW l \in Lesson, NEW order \in 1..MaxOrder,
           NEW is \in {"draft", "published"}, UpdateLesson(l, order, is)
    PROVE  LessonsInv'
<1> DEFINE to == [lesson[l] EXCEPT !.order = order, !.is = is]
<1>1. /\ Exists(l) /\ Edit(l, to) /\ UNCHANGED <<unit, progress>>
      /\ rearranged' = (rearranged \/ order # lesson[l].order \/ (l \notin Published /\ Intrudes(l, to)))
  BY DEF UpdateLesson
<1>2. /\ to \in LessonRow /\ to.is = is /\ to.order = order
      /\ to.rule = lesson[l].rule /\ to.override = lesson[l].override
  <2>1. order \in Nat \ {0}
    BY LessonsAssumption
  <2>2. QED
    BY <2>1, RowFields DEF LessonRow
<1>3. rearranged' \in BOOLEAN
  BY <1>1
<1> HIDE DEF to
<1>4. to.is \notin {"none", "deleted"} /\ lesson[l].is \notin {"none", "deleted"}
  BY <1>1, <1>2, RowFields
<1>5. ~rearranged' => /\ to.order = lesson[l].order /\ (l \notin Published => ~Intrudes(l, to))
                      /\ to.rule.mode \in {"previous", "previous_and_days"} /\ to.override.action = "lock"
  BY <1>1, <1>2, RowFields
<1>6. rearranged => rearranged'
  BY <1>1
<1>7. QED
  BY <1>1, <1>2, <1>3, <1>4, <1>5, <1>6, EditStep

LEMMA ToggleLessonStep ==
    ASSUME LessonsInv, StaffFrame, NEW l \in Lesson, ToggleLesson(l)
    PROVE  LessonsInv'
<1> DEFINE to == [lesson[l] EXCEPT !.is = IF l \in Published THEN "draft" ELSE "published"]
<1>1. /\ Exists(l) /\ Edit(l, to) /\ UNCHANGED <<unit, progress>>
      /\ rearranged' = (rearranged \/ Intrudes(l, to))
  BY DEF ToggleLesson
<1>2. /\ to \in LessonRow /\ to.is \in {"draft", "published"} /\ to.order = lesson[l].order
      /\ to.rule = lesson[l].rule /\ to.override = lesson[l].override
  BY RowFields DEF LessonRow
<1>3. rearranged' \in BOOLEAN
  BY <1>1, RowFields DEF Intrudes
<1> HIDE DEF to
<1>4. to.is \notin {"none", "deleted"} /\ lesson[l].is \notin {"none", "deleted"}
  BY <1>1, <1>2, RowFields
<1>5. ~rearranged' => /\ to.order = lesson[l].order /\ ~Intrudes(l, to)
                      /\ to.rule.mode \in {"previous", "previous_and_days"} /\ to.override.action = "lock"
  BY <1>1, <1>2, RowFields
<1>6. rearranged => rearranged'
  BY <1>1
<1>7. QED
  BY <1>1, <1>2, <1>3, <1>4, <1>5, <1>6, EditStep

LEMMA DeleteLessonStep ==
    ASSUME LessonsInv, StaffFrame, NEW l \in Lesson, DeleteLesson(l)
    PROVE  LessonsInv'
<1> DEFINE to == [Draft(1) EXCEPT !.is = "deleted"]
<1>1. /\ Exists(l) /\ Edit(l, to) /\ progress' = [progress EXCEPT ![l] = "none"]
      /\ UNCHANGED <<unit, rearranged>>
  BY DEF DeleteLesson
<1>2. to \in LessonRow /\ to.is = "deleted"
  BY DraftType DEF LessonRow
<1> HIDE DEF to
<1>3. QED
  BY <1>1, <1>2, EditStep, RowFields

\* Place and publication stay.
LEMMA SettingStep ==
    ASSUME LessonsInv, StaffFrame, NEW l \in Lesson, NEW r \in LessonRow, Exists(l), Edit(l, r),
           UNCHANGED <<unit, progress>>, r.is = lesson[l].is, r.order = lesson[l].order,
           rearranged' \in BOOLEAN, rearranged => rearranged',
           ~rearranged' =>
              r.rule.mode \in {"previous", "previous_and_days"} /\ r.override.action = "lock"
    PROVE  LessonsInv'
<1>1. lesson[l].is \notin {"none", "deleted"}
  BY RowFields
<1>2. l \notin Published => ~Intrudes(l, r)
  BY DEF Intrudes, Published
<1>3. QED
  BY <1>1, <1>2, EditStep

LEMMA SettingSteps ==
    ASSUME LessonsInv, StaffFrame, NEW l \in Lesson,
           \/ \E rule \in Rule : SetRule(l, rule)
           \/ \E override \in Override : SetOverride(l, override)
           \/ \E u \in Unit \cup {NoUnit} : Assign(l, u)
           \/ \E window \in Window : ScheduleLesson(l, window)
    PROVE  LessonsInv'
<1>1. ASSUME NEW rule \in Rule, SetRule(l, rule) PROVE LessonsInv'
  <2> DEFINE to == [lesson[l] EXCEPT !.rule = rule]
  <2>1. /\ Exists(l) /\ Edit(l, to) /\ UNCHANGED <<unit, progress>>
        /\ rearranged' = (rearranged \/ rule.mode \in {"open", "days"})
    BY <1>1 DEF SetRule
  <2>2. /\ to \in LessonRow /\ to.is = lesson[l].is /\ to.order = lesson[l].order
        /\ to.rule = rule /\ to.override = lesson[l].override
    BY RowFields DEF LessonRow
  <2>3. rule.mode \in {"open", "days", "previous", "previous_and_days"}
    BY DEF Rule
  <2>4. rearranged' \in BOOLEAN /\ (rearranged => rearranged')
    BY <2>1
  <2> HIDE DEF to
  <2>5. ~rearranged' =>
           to.rule.mode \in {"previous", "previous_and_days"} /\ to.override.action = "lock"
    BY <2>1, <2>2, <2>3, RowFields
  <2>6. QED
    BY <2>1, <2>2, <2>4, <2>5, SettingStep
<1>2. ASSUME NEW override \in Override, SetOverride(l, override) PROVE LessonsInv'
  <2> DEFINE to == [lesson[l] EXCEPT !.override = override]
  <2>1. /\ Exists(l) /\ Edit(l, to) /\ UNCHANGED <<unit, progress>>
        /\ rearranged' = (rearranged \/ override.action = "unlock")
    BY <1>2 DEF SetOverride
  <2>2. /\ to \in LessonRow /\ to.is = lesson[l].is /\ to.order = lesson[l].order
        /\ to.rule = lesson[l].rule /\ to.override = override
    BY RowFields DEF LessonRow
  <2>3. override.action \in {"lock", "unlock"}
    BY DEF Override
  <2>4. rearranged' \in BOOLEAN /\ (rearranged => rearranged')
    BY <2>1
  <2> HIDE DEF to
  <2>5. ~rearranged' =>
           to.rule.mode \in {"previous", "previous_and_days"} /\ to.override.action = "lock"
    BY <2>1, <2>2, <2>3, RowFields
  <2>6. QED
    BY <2>1, <2>2, <2>4, <2>5, SettingStep
<1>3. ASSUME NEW u \in Unit \cup {NoUnit}, Assign(l, u) PROVE LessonsInv'
  <2> DEFINE to == [lesson[l] EXCEPT !.unit = u]
  <2>1. Exists(l) /\ Edit(l, to) /\ UNCHANGED <<unit, progress, rearranged>>
    BY <1>3 DEF Assign
  <2>2. /\ to \in LessonRow /\ to.is = lesson[l].is /\ to.order = lesson[l].order
        /\ to.rule = lesson[l].rule /\ to.override = lesson[l].override
    BY RowFields DEF LessonRow
  <2> HIDE DEF to
  <2>3. QED
    BY <2>1, <2>2, RowFields, SettingStep
<1>4. ASSUME NEW window \in Window, ScheduleLesson(l, window) PROVE LessonsInv'
  <2> DEFINE to == [lesson[l] EXCEPT !.window = window]
  <2>1. Exists(l) /\ Edit(l, to) /\ UNCHANGED <<unit, progress, rearranged>>
    BY <1>4 DEF ScheduleLesson
  <2>2. /\ to \in LessonRow /\ to.is = lesson[l].is /\ to.order = lesson[l].order
        /\ to.rule = lesson[l].rule /\ to.override = lesson[l].override
    BY RowFields DEF LessonRow
  <2> HIDE DEF to
  <2>3. QED
    BY <2>1, <2>2, RowFields, SettingStep
<1>5. QED
  BY <1>1, <1>2, <1>3, <1>4

\* Neighbours with the same number swap nothing; any others are rearranged.
LEMMA MoveLessonStep ==
    ASSUME LessonsInv, StaffFrame, NEW k \in Lesson, NEW l \in Lesson, MoveLesson(k, l)
    PROVE  LessonsInv'
<1>1. /\ lesson' = [lesson EXCEPT ![k].order = lesson[l].order, ![l].order = lesson[k].order]
      /\ rearranged' = (rearranged \/ lesson[k].order # lesson[l].order)
      /\ k # l /\ UNCHANGED <<unit, progress>>
  <2>1. Neighbours(k, l) /\ lesson[k].order \in Nat /\ k \in Nat
    BY RowFields, LessonsAssumption DEF MoveLesson, LessonRow
  <2>2. k # l
    BY <2>1 DEF Neighbours, Follows
  <2>3. QED
    BY <2>2 DEF MoveLesson
<1>2. \A i \in Lesson : lesson[i] \in LessonRow
  BY RowFields
<1>3. /\ lesson' \in [Lesson -> LessonRow]
      /\ \A i \in Lesson : /\ lesson'[i].is = lesson[i].is
                           /\ lesson'[i].rule = lesson[i].rule /\ lesson'[i].override = lesson[i].override
  <2>1. DOMAIN lesson' = Lesson /\ lesson' = [i \in Lesson |-> lesson'[i]]
    BY <1>1 DEF LessonsInv, LessonsTypeOK
  <2>2. ASSUME NEW i \in Lesson
        PROVE  \/ lesson'[i] = lesson[i] \/ lesson'[i] = [lesson[i] EXCEPT !.order = lesson[l].order]
               \/ lesson'[i] = [lesson[i] EXCEPT !.order = lesson[k].order]
    BY <1>1 DEF LessonsInv, LessonsTypeOK
  <2>3. ASSUME NEW i \in Lesson
        PROVE  /\ lesson'[i] \in LessonRow /\ lesson'[i].is = lesson[i].is
               /\ lesson'[i].rule = lesson[i].rule /\ lesson'[i].override = lesson[i].override
    <3>1. \E place \in Nat \ {0} : \/ lesson'[i] = lesson[i]
                                   \/ lesson'[i] = [lesson[i] EXCEPT !.order = place]
      <4>1. lesson[k].order \in Nat \ {0} /\ lesson[l].order \in Nat \ {0}
        BY <1>2 DEF LessonRow
      <4>2. QED
        BY <2>2, <4>1
    <3>2. PICK place \in Nat \ {0} : \/ lesson'[i] = lesson[i]
                                     \/ lesson'[i] = [lesson[i] EXCEPT !.order = place]
      BY <3>1
    <3>3. QED
      BY <1>2, <3>2 DEF LessonRow
  <2>4. QED
    BY <2>1, <2>3
<1>4. rearranged' \in BOOLEAN /\ (rearranged => rearranged')
  BY <1>1
<1>5. LessonsTypeOK'
  BY <1>1, <1>3, <1>4, StaffTypes DEF LessonsInv, LessonsTypeOK
<1>6. \A i \in Lesson : Exists(i)' <=> Exists(i)
  BY <1>3 DEF Exists
<1>7. ASSUME ~rearranged', NEW i \in Lesson
      PROVE  lesson'[i].order = lesson[i].order /\ (Exists(i)' => Asks(i)')
  <2>1. lesson[k].order = lesson[l].order /\ ~rearranged
    BY <1>1, <1>7
  <2>2. lesson'[i].order = lesson[i].order
    BY <1>1, <2>1 DEF LessonsInv, LessonsTypeOK
  <2>3. QED
    BY <1>3, <1>6, <2>1, <2>2, RowFields DEF Asks
<1>8. \A i \in Lesson : lesson'[i].is = "published" => i \in Published
  BY <1>3 DEF Published
<1>9. QED
  BY <1>1, <1>3, <1>4, <1>5, <1>6, <1>7, <1>8, GentleChange DEF StaffFrame

\* The copy of a lesson in another unit
CopyOf(l, v) == [Draft(lesson[l].order) EXCEPT !.unit = v, !.rule = lesson[l].rule]

\* A copy has an original, and with it a place and a rule.
LEMMA CopyFound ==
    ASSUME LessonsInv, NEW k \in Free, NEW u \in Unit, NEW v \in Unit,
           Rank(k) < Cardinality(Originals(u))
    PROVE  \E l \in Originals(u) : Copy(k, u, v) = CopyOf(l, v)
<1> DEFINE after == {ss \in Lesson \X Lesson : Follows(ss[1], ss[2])}
           some == Originals(u)
<1>1. some \subseteq Lesson /\ IsFiniteSet(some)
  BY LessonsAssumption, FS_Subset DEF Originals, Rows
<1>2. Rank(k) \in Nat
  <2>1. IsFiniteSet({j \in Free : j < k})
    BY LessonsAssumption, FS_Subset DEF Free
  <2>2. QED
    BY <2>1, FS_CardinalityType DEF Rank
<1>3. \A i \in Lesson : i \in Nat /\ lesson[i].order \in Nat
  BY LessonsAssumption DEF LessonsInv, LessonsTypeOK
<1>4. \A i, j \in Lesson : <<i, j>> \in after <=> Follows(i, j)
  OBVIOUS
<1>5. \A i \in Lesson : ~Follows(i, i)
  BY <1>3 DEF Follows
<1>6. \A i, j, m \in Lesson : Follows(i, j) /\ Follows(j, m) => Follows(i, m)
  BY <1>3 DEF Follows
<1>7. \A i, j \in Lesson : i = j \/ Follows(i, j) \/ Follows(j, i)
  BY <1>3 DEF Follows
<1> HIDE DEF after
<1>8. \E l \in some : Place(l, some, after) = Rank(k)
  <2> HIDE DEF some
  <2>1. InRow(some, after)
    BY <1>1, <1>4, <1>5, <1>6, <1>7 DEF InRow
  <2>2. Rank(k) < Cardinality(some)
    BY DEF some
  <2>3. QED
    BY <1>1, <1>2, <2>1, <2>2, PlacesTaken
<1>9. \A l \in some : {j \in some : <<l, j>> \in after} = {j \in some : Follows(l, j)}
  BY <1>1, <1>4
<1>10. \E l \in Originals(u) : Cardinality({j \in Originals(u) : Follows(l, j)}) = Rank(k)
  BY <1>8, <1>9 DEF Place
<1> DEFINE original == CHOOSE l \in Originals(u) : Cardinality({j \in Originals(u) : Follows(l, j)}) = Rank(k)
<1>11. original \in Originals(u)
  BY <1>10
<1>12. Copy(k, u, v) = CopyOf(original, v)
  BY DEF Copy, CopyOf
<1>13. QED
  BY <1>11, <1>12

LEMMA CloneUnitStep ==
    ASSUME LessonsInv, StaffFrame, NEW u \in Unit, NEW v \in Unit, CloneUnit(u, v)
    PROVE  LessonsInv'
<1>1. /\ unit' = [unit EXCEPT ![v].is = "draft"] /\ UNCHANGED <<progress, rearranged>>
      /\ lesson' = [k \in Lesson |-> IF k \in Free /\ Rank(k) < Cardinality(Originals(u))
                                     THEN Copy(k, u, v) ELSE lesson[k]]
  BY DEF CloneUnit
<1>2. unit' \in [Unit -> [is : {"none", "draft", "published"}, window : Window]]
  BY <1>1 DEF LessonsInv, LessonsTypeOK
<1>3. ASSUME NEW k \in Lesson, lesson'[k] # lesson[k]
      PROVE  /\ lesson[k].is = "none" /\ lesson'[k].is = "draft" /\ lesson'[k] \in LessonRow
             /\ ~rearranged => /\ lesson'[k].rule.mode \in {"previous", "previous_and_days"}
                               /\ lesson'[k].override.action = "lock"
  <2>1. k \in Free /\ Rank(k) < Cardinality(Originals(u)) /\ lesson'[k] = Copy(k, u, v)
    BY <1>1, <1>3
  <2>2. PICK l \in Originals(u) : lesson'[k] = CopyOf(l, v)
    BY <2>1, CopyFound
  <2>3. l \in Lesson /\ Exists(l)
    BY DEF Originals, Rows
  <2>4. lesson[l].order \in Nat \ {0} /\ lesson[l].rule \in Rule
    BY <2>3, RowFields DEF LessonRow
  <2>5. PICK place \in Nat \ {0} : place = lesson[l].order
    BY <2>4
  <2>6. PICK mode \in Rule : mode = lesson[l].rule
    BY <2>4
  <2>7. lesson'[k] = [is |-> "draft", order |-> place, unit |-> v, rule |-> mode,
                      window |-> Always, override |-> NoOverride]
    BY <2>2, <2>5, <2>6 DEF CopyOf, Draft
  <2>8. lesson'[k] \in LessonRow
    BY <2>7, DraftType DEF LessonRow
  <2>9. NoOverride.action = "lock"
    BY DEF NoOverride
  <2>10. ~rearranged => mode.mode \in {"previous", "previous_and_days"}
    BY <2>3, <2>6, RowFields
  <2>11. /\ lesson'[k].is = "draft" /\ lesson'[k].rule = mode /\ lesson'[k].override = NoOverride
    BY <2>7
  <2>12. QED
    BY <2>1, <2>8, <2>9, <2>10, <2>11 DEF Free
<1>4. lesson' \in [Lesson -> LessonRow]
  <2>1. \A k \in Lesson : lesson'[k] \in LessonRow
    BY <1>3, RowFields
  <2>2. lesson' = [k \in Lesson |-> lesson'[k]]
    BY <1>1
  <2>3. QED
    BY <2>1, <2>2
<1>5. LessonsTypeOK'
  BY <1>1, <1>2, <1>4, StaffTypes DEF LessonsInv, LessonsTypeOK
<1>6. ASSUME NEW k \in Lesson
      PROVE  /\ lesson[k].is # "none" => lesson'[k].is # "none"
             /\ progress'[k] = progress[k] /\ (Exists(k) => Exists(k)')
  BY <1>1, <1>3 DEF Exists
<1>7. ASSUME ~rearranged', NEW k \in Lesson
      PROVE  /\ Exists(k)' /\ ~Exists(k) => lesson[k].is = "none" /\ lesson'[k].is = "draft"
             /\ Exists(k)' /\ Exists(k) => lesson'[k].order = lesson[k].order
             /\ Exists(k)' => Asks(k)'
             /\ ~(lesson'[k].is = "published" /\ k \notin Published)
  <2>1. CASE lesson'[k] = lesson[k]
    BY <1>1, <1>7, <2>1, RowFields DEF Exists, Asks, Published
  <2>2. CASE lesson'[k] # lesson[k]
    BY <1>1, <1>3, <1>7, <2>2 DEF Exists, Asks
  <2>3. QED
    BY <2>1, <2>2
<1>8. QED
  BY <1>1, <1>5, <1>6, <1>7, GentleChange DEF StaffFrame

LEMMA UnitSteps ==
    ASSUME LessonsInv, StaffFrame, NEW u \in Unit,
           CreateUnit(u) \/ ToggleUnit(u) \/ \E window \in Window : ScheduleUnit(u, window)
    PROVE  LessonsInv'
<1>1. UNCHANGED <<lesson, progress, rearranged>>
  BY DEF CreateUnit, ToggleUnit, ScheduleUnit
<1>2. unit \in [Unit -> [is : {"none", "draft", "published"}, window : Window]]
  BY DEF LessonsInv, LessonsTypeOK
<1>3. unit' \in [Unit -> [is : {"none", "draft", "published"}, window : Window]]
  <2>1. CASE CreateUnit(u)
    BY <1>2, <2>1 DEF CreateUnit
  <2>2. CASE ToggleUnit(u)
    BY <1>2, <2>2 DEF ToggleUnit
  <2>3. CASE \E window \in Window : ScheduleUnit(u, window)
    BY <1>2, <2>3 DEF ScheduleUnit
  <2>4. QED
    BY <2>1, <2>2, <2>3
<1>4. LessonsTypeOK'
  BY <1>1, <1>3, StaffTypes DEF LessonsInv, LessonsTypeOK, LessonRow
<1>5. QED
  BY <1>1, <1>4 DEF LessonsInv, StaffFrame, Known, Ordered, Rows, Exists, Asks, Done, Before, Published

LEMMA StaffStep == LessonsInv /\ Staff => LessonsInv'
<1> SUFFICES ASSUME LessonsInv, Staff PROVE LessonsInv'
  OBVIOUS
<1>1. StaffFrame
  <2>1. edits \in 0..MaxEdits /\ edits < MaxEdits /\ edits' = edits + 1
    BY DEF LessonsInv, LessonsTypeOK, Staff
  <2>2. edits' \in 0..MaxEdits
    BY <2>1, LessonsAssumption
  <2>3. QED
    BY <2>2 DEF StaffFrame, Staff
<1>2. ASSUME NEW l \in Lesson,
             \/ ToggleLesson(l) \/ DeleteLesson(l)
             \/ \E order \in 1..MaxOrder, is \in {"draft", "published"} : UpdateLesson(l, order, is)
             \/ \E k \in Lesson : MoveLesson(k, l)
      PROVE  LessonsInv'
  BY <1>1, <1>2, ToggleLessonStep, DeleteLessonStep, UpdateLessonStep, MoveLessonStep
<1>3. ASSUME NEW l \in Lesson,
             \/ \E rule \in Rule : SetRule(l, rule)
             \/ \E override \in Override : SetOverride(l, override)
             \/ \E u \in Unit \cup {NoUnit} : Assign(l, u)
             \/ \E window \in Window : ScheduleLesson(l, window)
      PROVE  LessonsInv'
  BY <1>1, <1>3, SettingSteps
<1>4. ASSUME NEW u \in Unit,
             \/ CreateUnit(u) \/ ToggleUnit(u) \/ \E window \in Window : ScheduleUnit(u, window)
             \/ \E v \in Unit : CloneUnit(u, v)
      PROVE  LessonsInv'
  BY <1>1, <1>4, UnitSteps, CloneUnitStep
<1>5. QED
  BY <1>1, <1>2, <1>3, <1>4, AddLessonStep DEF Staff

\* A report is about a lesson that was open, and is saved later.
LEMMA StudentReports ==
    ASSUME LessonsInv, (\E l \in Lesson : OpenReport(l)) \/ SaveReport \/ FailReport
    PROVE  LessonsInv'
<1>1. CASE \E l \in Lesson : OpenReport(l)
  <2>1. PICK l \in Lesson : OpenReport(l)
    BY <1>1
  <2>2. /\ report = 0 /\ Exists(l) /\ Unlocked(l) /\ report' = l
        /\ UNCHANGED <<day, enrolled, lesson, unit, progress, rewarded, edits, rearranged>>
    BY <2>1 DEF OpenReport, Reachable
  <2>3. ~rearranged => \A k \in Before(l) : Done(k)
    BY <2>2, UnlockedAfter DEF Rows
  <2>4. LessonsTypeOK'
    BY <2>2 DEF LessonsInv, LessonsTypeOK
  <2>5. Known'
    BY <2>2 DEF LessonsInv, Known, Exists
  <2>6. ~rearranged' => Ordered'
    BY <2>2, <2>3 DEF LessonsInv, Ordered, Rows, Exists, Asks, Done, Before, Published
  <2>7. QED
    BY <2>4, <2>5, <2>6 DEF LessonsInv
<1>2. CASE SaveReport
  <2>1. /\ report # 0 /\ progress[report] # "none" /\ progress' = [progress EXCEPT ![report] = "done"]
        /\ report' = 0 /\ UNCHANGED <<day, enrolled, lesson, unit, edits, rearranged>>
        /\ rewarded' = IF Done(report) THEN rewarded ELSE rewarded \cup {report}
    BY <1>2 DEF SaveReport
  <2>2. report \in Lesson
    BY <2>1 DEF LessonsInv, LessonsTypeOK
  <2>3. /\ progress' \in [Lesson -> {"none", "open", "done"}] /\ progress'[report] = "done"
        /\ \A l \in Lesson : l # report => progress'[l] = progress[l]
    BY <2>1, <2>2 DEF LessonsInv, LessonsTypeOK
  <2>4. rewarded' \subseteq Lesson
    BY <2>1, <2>2 DEF LessonsInv, LessonsTypeOK
  <2>5. LessonsTypeOK'
    BY <2>1, <2>3, <2>4 DEF LessonsInv, LessonsTypeOK
  <2>6. Known'
    BY <2>1, <2>2, <2>3 DEF LessonsInv, Known, Exists
  <2>7. ASSUME ~rearranged' PROVE Ordered'
    <3>1. Ordered /\ Exists(report)
      BY <2>1, <2>2, <2>7 DEF LessonsInv, Known
    <3>2. \A l \in Lesson : Done(l) => Done(l)'
      BY <2>3 DEF Done
    <3>3. \A l \in Lesson : Done(l)' => Done(l) \/ l = report
      BY <2>3 DEF Done
    <3>4. ASSUME NEW l \in Rows, Done(l)', NEW k \in Before(l) PROVE Done(k)'
      <4>1. k \in Lesson /\ l \in Lesson
        BY DEF Before, Published, Rows
      <4>2. CASE Done(l)
        BY <3>1, <3>2, <4>1, <4>2 DEF Ordered
      <4>3. CASE l = report
        BY <2>1, <3>1, <3>2, <4>1, <4>3 DEF Ordered
      <4>4. QED
        BY <3>3, <3>4, <4>1, <4>2, <4>3
    <3>5. Rows' = Rows /\ \A l \in Lesson : Before(l)' = Before(l) /\ (Asks(l)' <=> Asks(l))
      BY <2>1 DEF Rows, Exists, Before, Published, Asks
    <3>6. \A l \in Rows' : Done(l)' => \A k \in Before(l)' : Done(k)'
      BY <3>4, <3>5 DEF Rows
    <3>7. QED
      BY <2>1, <3>1, <3>5, <3>6 DEF Ordered, Rows
  <2>8. QED
    BY <2>5, <2>6, <2>7 DEF LessonsInv
<1>3. CASE FailReport
  <2>1. report' = 0 /\ UNCHANGED <<day, enrolled, lesson, unit, progress, rewarded, edits, rearranged>>
    BY <1>3 DEF FailReport
  <2>2. LessonsTypeOK' /\ Known'
    BY <2>1 DEF LessonsInv, LessonsTypeOK, Known, Exists
  <2>3. ~rearranged' => Ordered'
    BY <2>1 DEF LessonsInv, Ordered, Rows, Exists, Asks, Done, Before, Published
  <2>4. QED
    BY <2>2, <2>3 DEF LessonsInv
<1>4. QED
  BY <1>1, <1>2, <1>3

LEMMA LessonsStep == LessonsInv /\ [Next]_vars => LessonsInv'
<1> SUFFICES ASSUME LessonsInv, [Next]_vars PROVE LessonsInv'
  OBVIOUS
<1>1. ASSUME UNCHANGED <<lesson, unit, progress, rewarded, edits, rearranged, report>>, day' \in 0..MaxDay,
             enrolled' \in BOOLEAN
      PROVE  LessonsInv'
  <2>1. LessonsTypeOK' /\ Known'
    BY <1>1 DEF LessonsInv, LessonsTypeOK, Known, Exists
  <2>2. ~rearranged' => Ordered'
    BY <1>1 DEF LessonsInv, Ordered, Rows, Exists, Asks, Done, Before, Published
  <2>3. QED
    BY <2>1, <2>2 DEF LessonsInv
<1>2. CASE UNCHANGED vars
  BY <1>1, <1>2 DEF vars, LessonsInv, LessonsTypeOK
<1>3. CASE ChangeEnrolment
  BY <1>1, <1>3 DEF ChangeEnrolment, LessonsInv, LessonsTypeOK
<1>4. CASE NextDay
  <2>1. day' \in 0..MaxDay
    BY <1>4, LessonsAssumption DEF NextDay, LessonsInv, LessonsTypeOK
  <2>2. QED
    BY <1>1, <1>4, <2>1 DEF NextDay, LessonsInv, LessonsTypeOK
<1>5. CASE Staff
  BY <1>5, StaffStep
<1>6. CASE (\E l \in Lesson : OpenReport(l)) \/ SaveReport \/ FailReport
  BY <1>6, StudentReports
<1>7. QED
  BY <1>2, <1>3, <1>4, <1>5, <1>6 DEF Next

LEMMA LessonsHolds == Spec => []LessonsInv
BY LessonsInit, LessonsStep, PTL DEF Spec

\* Unless the staff put a lesson before others or open one by hand, a student gets
\* a lesson by any door, and finishes it, only after all published lessons before
\* it, although each door asks for one of them (access.py:134).
THEOREM SeenInOrderHolds == Spec => []SeenInOrder
<1>1. LessonsInv => SeenInOrder
  <2> SUFFICES ASSUME LessonsInv, ~rearranged, NEW l \in Rows, Served(l) \/ Done(l)
               PROVE  \A k \in Before(l) : Done(k)
    BY DEF SeenInOrder
  <2>1. CASE Done(l)
    BY <2>1 DEF LessonsInv, Ordered
  <2>2. CASE Served(l)
    <3>1. Unlocked(l)
      BY <2>2 DEF Served, RenderLessonPage, LessonPage, LessonAssistant, ProtectedVideo, ProtectedMedia,
                  ProtectedLesson, Launchable, LessonDetails, Experience, Interaction, StudentLesson,
                  Reachable
    <3>2. QED
      BY <3>1, UnlockedAfter
  <2>3. QED
    BY <2>1, <2>2
<1>2. QED
  BY <1>1, LessonsHolds, PTL

=============================================================================
