----------------------------- MODULE Deliveries -----------------------------
(***************************************************************************)
(* External campaign messages: the delivery rows that an admin's request   *)
(* commits (src/app/routers/communications.py), the jobs it hands to the   *)
(* queue, the handler that posts one message to the provider's webhook     *)
(* and records the verdict (src/app/worker.py), and the recovery that each *)
(* web process runs once, when its embedded worker starts.                 *)
(*                                                                         *)
(* The queue is TaskStream; a worker process is also the web process that  *)
(* serves the admin's requests.  A step of the handler is one database     *)
(* transaction or the webhook call: the row is read without a lock, so any *)
(* step of another worker fits between two of them.                        *)
(***************************************************************************)
EXTENDS Integers, FiniteSets, Sequences, SequencesExt

CONSTANTS
    Worker, NoMsg, MaxAttempts, ReadCount, ClaimCount,
    MaxJobs, MaxRaises, MaxCrashes, MaxOutages,   \* as in TaskStream
    Rows,          \* how many delivery rows there can be; IDs are 1..Rows
    RecoverLimit   \* the limit of _recover_queued_deliveries (500)

Delivery == 1 .. Rows

\* Every start of a process and every campaign adds at most one job per row:
\* with this many jobs TaskStream's bound stops nobody.
ASSUME BoundsAssumption ==
    /\ Rows \in Nat /\ RecoverLimit \in Nat
    /\ MaxJobs >= Rows * (Cardinality(Worker) + MaxCrashes + 1)

VARIABLES
    stream, added, lastRead, pel, stale, dead, up, pc, cur, mail,
    jobs, failures, done, raises, crashes, outages,
    status,     \* CommunicationDelivery.status, "none" before the row exists
    verdict,    \* each handler: "idle", "loaded", or what the webhook call gave
    outbox,     \* each process: row IDs its admin request has yet to enqueue
    found,      \* each process: queued row IDs its starting worker has read
    booting,    \* each process: how far it is with starting
    abandoned,  \* history: rows whose job was buried, or that the last process
                \* to start left out of its recovery
    posts       \* history: the messages the provider accepted for a row

queueVars == <<stream, added, lastRead, pel, stale, dead, up, pc, cur, mail,
               jobs, failures, done, raises, crashes, outages>>
handlerVars == <<status, verdict, posts>>
processVars == <<outbox, found, booting, abandoned>>
vars == <<queueVars, handlerVars, processVars>>

Queue == INSTANCE TaskStream WITH Payload <- Delivery

ASSUME QueueAssumption == Queue!ConstantsAssumption

Init ==
    /\ Queue!Init
    /\ status = [d \in Delivery |-> "none"]
    /\ verdict = [w \in Worker |-> "idle"]
    /\ outbox = [w \in Worker |-> <<>>]
    /\ found = [w \in Worker |-> <<>>]
    /\ booting = [w \in Worker |-> "down"]
    /\ abandoned = {}
    /\ posts = [d \in Delivery |-> 0]

\* The IDs of some rows, ascending: the order of the inserts and of the query.
InOrder(rows) ==
    CHOOSE s \in [1 .. Cardinality(rows) -> rows] :
        \A i, j \in DOMAIN s : i < j => s[i] < s[j]

-----------------------------------------------------------------------------
(* The admin's request: commit the rows, then hand them to the queue. *)

\* The rows of a campaign get the next IDs; its recipients are active users,
\* who may be deactivated before a worker looks at the row (Skip).
\* Without a provider URL a row is final at once and no job is made for it.
CreateCampaign(w, last) ==
    LET rows == {d \in 1 .. last : status[d] = "none"} IN
    /\ booting[w] # "down"
    /\ outbox[w] = <<>>
    /\ rows # {}
    /\ \E configured \in BOOLEAN :
        /\ status' = [d \in Delivery |->
                        IF d \notin rows THEN status[d]
                        ELSE IF configured THEN "queued" ELSE "not_configured"]
        /\ outbox' = IF configured
                     THEN [outbox EXCEPT ![w] = InOrder(rows)]
                     ELSE outbox
    /\ UNCHANGED <<queueVars, verdict, posts, found, booting, abandoned>>

\* Mutant of EnqueueCampaign: forgets the jobs.
CommitOnly(w) ==
    /\ outbox[w] # <<>>
    /\ outbox' = [outbox EXCEPT ![w] = <<>>]
    /\ UNCHANGED <<queueVars, handlerVars, found, booting, abandoned>>

EnqueueCampaign(w) ==
    /\ outbox[w] # <<>>
    /\ Queue!Enqueue(outbox[w])
    /\ outbox' = [outbox EXCEPT ![w] = <<>>]
    /\ UNCHANGED <<pc, cur, mail, handlerVars, found, booting, abandoned>>

-----------------------------------------------------------------------------
(* start_background_worker and _run_embedded: recover once, then run_worker. *)

Queued == {d \in Delivery : status[d] = "queued"}

QueuedIds ==
    InOrder({d \in Queued :
                Cardinality({e \in Queued : e < d}) < RecoverLimit})

\* Mutant of LoadQueued: a restarted process recovers nothing.
LoadNothing(w) ==
    /\ booting[w] = "down"
    /\ booting' = [booting EXCEPT ![w] = "recovering"]
    /\ UNCHANGED <<queueVars, handlerVars, outbox, found, abandoned>>

LoadQueued(w) ==
    /\ booting[w] = "down"
    /\ booting' = [booting EXCEPT ![w] = "recovering"]
    /\ found' = [found EXCEPT ![w] = QueuedIds]
    /\ abandoned' = Queued \ Range(QueuedIds)
    /\ UNCHANGED <<queueVars, handlerVars, outbox>>

\* The query raises: _run_embedded passes over that, and the worker runs
\* without a recovery.
RecoveryFails(w) ==
    /\ booting[w] = "down"
    /\ booting' = [booting EXCEPT ![w] = "recovered"]
    /\ abandoned' = Queued
    /\ UNCHANGED <<queueVars, handlerVars, outbox, found>>

Recover(w) ==
    /\ booting[w] = "recovering"
    /\ Queue!Enqueue(found[w])
    /\ booting' = [booting EXCEPT ![w] = "recovered"]
    /\ found' = [found EXCEPT ![w] = <<>>]
    /\ UNCHANGED <<pc, cur, mail, handlerVars, outbox, abandoned>>

RunWorker(w) ==
    /\ booting[w] = "recovered"
    /\ Queue!Run(w)
    /\ booting' = [booting EXCEPT ![w] = "running"]
    /\ UNCHANGED <<handlerVars, outbox, found, abandoned>>

\* The process exits: its worker and its request end where they are.
Exit(w) ==
    /\ booting[w] # "down"
    /\ Queue!Exit(w)
    /\ booting' = [booting EXCEPT ![w] = "down"]
    /\ outbox' = [outbox EXCEPT ![w] = <<>>]
    /\ found' = [found EXCEPT ![w] = <<>>]
    /\ verdict' = [verdict EXCEPT ![w] = "idle"]
    /\ UNCHANGED <<status, posts, abandoned>>

-----------------------------------------------------------------------------
(* communication_delivery, called with the message that is being processed. *)

Row(w) == cur[w].payload

Return(w) ==
    /\ Queue!HandlerReturns(w)
    /\ verdict' = [verdict EXCEPT ![w] = "idle"]

\* Mutant of Load: no status check.
LoadAny(w) ==
    /\ pc[w] = "handle" /\ verdict[w] = "idle"
    /\ verdict' = [verdict EXCEPT ![w] = "loaded"]
    /\ UNCHANGED <<queueVars, status, posts, processVars>>

\* The status check: only a queued row is worked on.
Load(w) ==
    /\ pc[w] = "handle" /\ verdict[w] = "idle"
    /\ IF status[Row(w)] = "queued"
       THEN verdict' = [verdict EXCEPT ![w] = "loaded"] /\ UNCHANGED queueVars
       ELSE Return(w)
    /\ UNCHANGED <<status, posts, processVars>>

\* The recipient has been deactivated, or the campaign is gone.
Skip(w) ==
    /\ verdict[w] = "loaded"
    /\ status' = [status EXCEPT ![Row(w)] = "skipped"]
    /\ Return(w)
    /\ UNCHANGED <<posts, processVars>>

\* Mutant of PostWebhook: takes an error status of the provider for success.
PostUnchecked(w) ==
    /\ verdict[w] = "loaded"
    /\ \E accepted \in 0 .. 1 :
        posts' = [posts EXCEPT ![Row(w)] = @ + accepted]
    /\ verdict' = [verdict EXCEPT ![w] = "sent"]
    /\ UNCHANGED <<queueVars, status, processVars>>

\* send_message_webhook never raises.  "failed" also stands for a message
\* that the provider accepted when only its answer was lost or late;
\* "skipped" (no phone) and "not_configured" make no call.
PostWebhook(w) ==
    /\ verdict[w] = "loaded"
    /\ \E v \in {"sent", "failed", "skipped", "not_configured"},
          accepted \in 0 .. 1 :
        /\ v = "sent" => accepted = 1
        /\ v \in {"skipped", "not_configured"} => accepted = 0
        /\ verdict' = [verdict EXCEPT ![w] = v]
        /\ posts' = [posts EXCEPT ![Row(w)] = @ + accepted]
    /\ UNCHANGED <<queueVars, status, processVars>>

Decided(w) == verdict[w] \notin {"idle", "loaded"}

\* Mutants of CommitVerdict: records a status nobody knows; goes on without
\* the acknowledgement.
CommitUnknown(w) ==
    /\ Decided(w)
    /\ status' = [status EXCEPT ![Row(w)] = "retrying"]
    /\ Return(w)
    /\ UNCHANGED <<posts, processVars>>

CommitAndSkipAck(w) ==
    /\ Decided(w)
    /\ status' = [status EXCEPT ![Row(w)] = verdict[w]]
    /\ pc' = [pc EXCEPT ![w] = "idle"]
    /\ cur' = [cur EXCEPT ![w] = NoMsg]
    /\ verdict' = [verdict EXCEPT ![w] = "idle"]
    /\ UNCHANGED <<stream, added, lastRead, pel, stale, dead, up, mail, jobs,
                   failures, done, raises, crashes, outages,
                   posts, processVars>>

CommitVerdict(w) ==
    /\ Decided(w)
    /\ status' = [status EXCEPT ![Row(w)] = verdict[w]]
    /\ Return(w)
    /\ UNCHANGED <<posts, processVars>>

\* A database error rolls back and is raised; a commit whose answer was lost
\* is raised although it took effect.
DatabaseError(w) ==
    /\ Queue!HandlerRaises(w)
    /\ verdict' = [verdict EXCEPT ![w] = "idle"]
    /\ \/ UNCHANGED status
       \/ Decided(w) /\ status' = [status EXCEPT ![Row(w)] = verdict[w]]
    /\ UNCHANGED <<posts, processVars>>

Handle(w) ==
    \/ Load(w) \/ Skip(w) \/ PostWebhook(w) \/ CommitVerdict(w)
    \/ DatabaseError(w)

-----------------------------------------------------------------------------

QueueStep(w) ==
    /\ \/ Queue!Read(w) \/ Queue!Claim(w) \/ Queue!Take(w)
       \/ Queue!Ack(w) \/ Queue!Del(w)
       \/ Queue!FailedAck(w) \/ Queue!FailedDel(w) \/ Queue!Again(w)
    /\ abandoned' = IF dead' = dead THEN abandoned ELSE abandoned \cup {Row(w)}
    /\ UNCHANGED <<handlerVars, outbox, found, booting>>

RedisOrTime ==
    /\ \/ Queue!GoDown \/ Queue!ComeBack
       \/ \E i \in 1 .. added : Queue!GoStale(i)
    /\ UNCHANGED <<handlerVars, processVars>>

ProcessStep(w) ==
    \/ LoadQueued(w) \/ RecoveryFails(w) \/ Recover(w)
    \/ RunWorker(w) \/ EnqueueCampaign(w)

Next ==
    \/ \E w \in Worker :
        \/ \E last \in Delivery : CreateCampaign(w, last)
        \/ ProcessStep(w) \/ Exit(w)
        \/ Handle(w) \/ QueueStep(w)
    \/ RedisOrTime

Spec == Init /\ [][Next]_vars

\* Threads run, requests finish, an exited process is restarted
\* (restartPolicyType, railway.toml), outages end and time passes.
Fairness ==
    /\ \A w \in Worker : WF_vars(ProcessStep(w))
                       /\ WF_vars(Handle(w) \/ QueueStep(w))
    /\ WF_vars(RedisOrTime /\ ~Queue!GoDown)

FairSpec == Spec /\ Fairness

-----------------------------------------------------------------------------
(* Properties *)

Final == {"sent", "failed", "skipped", "not_configured"}

DeliveriesTypeOK ==
    /\ status \in [Delivery -> Final \cup {"none", "queued"}]
    /\ verdict \in [Worker -> Final \cup {"idle", "loaded"}]
    /\ outbox \in [Worker -> Seq(Delivery)]
    /\ found \in [Worker -> Seq(Delivery)]
    /\ booting \in [Worker -> {"down", "recovering", "recovered", "running"}]
    /\ abandoned \subseteq Delivery
    /\ posts \in [Delivery -> Nat]

\* The composition's queue is TaskStream, with the handler's steps as its
\* return or its exception and everything else of the program as stuttering.
ImplementsQueue == Queue!Spec

\* A row says "sent" only if the provider accepted its message, although
\* workers overwrite each other's verdicts (worker.communication_delivery).
SentWasAccepted == \A d \in Delivery : status[d] = "sent" => posts[d] > 0

\* Somebody will still look at the row: a job in the queue, a worker that is
\* processing it, or a process about to enqueue it.
HasWork(d) ==
    \/ \E m \in stream : m.payload = d /\ Queue!Deliverable(m)
    \/ \E w \in Worker : \/ cur[w] # NoMsg /\ Row(w) = d
                       \/ d \in Range(outbox[w]) \cup Range(found[w])

\* A queued row is stranded only by an exit, an outage or a job that was
\* buried after MAX_ATTEMPTS; a failed attempt alone keeps it in work.
QueuedRowHasWork ==
    \A d \in Delivery : status[d] = "queued" =>
        HasWork(d) \/ crashes > 0 \/ outages > 0 \/ dead # {}

\* With one worker, a recipient gets the message a second time only if the
\* process exited or the commit failed after the first call.
RepostsNeedFaults ==
    \A d \in Delivery : posts[d] <= 1 + crashes + raises

\* A queued row gets a verdict although processes exit, with the request
\* before its enqueue or the worker with a message in hand: stale entries
\* are claimed and a restarted process recovers the rows.  Left out are the
\* rows nobody will look at before the next start of a process: their job was
\* buried after MAX_ATTEMPTS errors, the recovery failed (_run_embedded
\* swallows that) or they were beyond its limit of rows.  An outage is not
\* left out: the comment in _create_campaign (communications.py:95) says that
\* a queued row is recovered after Redis returns.
QueuedRowsSettle ==
    \A d \in Delivery :
        (status[d] = "queued") ~> (status[d] \in Final \/ d \in abandoned)

\* The comment in main.py:97: consumer-group semantics prevent duplicate
\* workers from processing the same queued item.
OneWorkerPerItem ==
    \A v, w \in Worker :
        (v # w /\ Decided(v) /\ Decided(w)) => cur[v] # cur[w]
=============================================================================
