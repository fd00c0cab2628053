----------------------------- MODULE TaskStream -----------------------------
(***************************************************************************)
(* The background task queue of src/app/tasks.py: one Redis stream, one    *)
(* consumer group, and the worker loops (run_worker) that read, process,   *)
(* acknowledge, retry and bury its messages.                               *)
(*                                                                         *)
(* Redis keeps the stream and the group's pending list; a worker keeps the *)
(* messages it was handed in local variables and loses them when its       *)
(* process exits.  Every Redis command is one step, because another worker *)
(* or an outage can come between any two of them.  The handler is one of   *)
(* two steps here, it returns or it raises; module Deliveries gives it its *)
(* real steps.  Producers only add well-formed jobs, so the branch for an  *)
(* unparsable message is not modelled, nor is trimming at STREAM_MAXLEN.   *)
(***************************************************************************)
EXTENDS Integers, FiniteSets, Sequences

CONSTANTS
    Worker,       \* the worker processes
    Payload,      \* what a job may carry
    NoMsg,        \* the absence of a message
    MaxAttempts,  \* MAX_ATTEMPTS
    ReadCount,    \* XREADGROUP count (10 in the code)
    ClaimCount,   \* XAUTOCLAIM count (20 in the code)
    MaxJobs,      \* bound: jobs ever accepted by Redis
    MaxRaises,    \* bound: handler exceptions
    MaxCrashes,   \* bound: process exits
    MaxOutages    \* bound: times Redis becomes unreachable

ASSUME ConstantsAssumption ==
    /\ MaxAttempts \in Nat \ {0}
    /\ ReadCount \in Nat \ {0}
    /\ ClaimCount \in Nat \ {0}
    /\ MaxJobs \in Nat
    /\ MaxRaises \in Nat
    /\ MaxCrashes \in Nat
    /\ MaxOutages \in Nat
    /\ NoMsg \notin [mid : Nat, job : Nat, payload : Payload, attempts : Nat]

VARIABLES
    stream,    \* the entries of STREAM_KEY that have not been deleted
    added,     \* the last entry ID that XADD produced
    lastRead,  \* the group's last-delivered ID
    pel,       \* IDs in the group's pending entries list
    stale,     \* the pending IDs that have been idle for CLAIM_IDLE_MS
    dead,      \* the jobs in DEAD_STREAM_KEY
    up,        \* Redis answers
    pc,        \* where each worker is
    cur,       \* the message each worker is processing
    mail,      \* the rest of the batch each worker was handed
    jobs,      \* history: how many jobs Redis has accepted
    failures,  \* history: how often processing a job failed
    done,      \* history: the jobs whose handler has returned
    raises, crashes, outages   \* budgets spent

redis   == <<stream, added, lastRead, pel, stale, dead>>
local   == <<cur, mail>>
history == <<jobs, failures, done>>
budgets == <<raises, crashes>>
network == <<up, outages>>
vars == <<stream, added, lastRead, pel, stale, dead, up, pc, cur, mail,
          jobs, failures, done, raises, crashes, outages>>

Job     == 1 .. MaxJobs
Message == [mid : Nat, job : Job, payload : Payload, attempts : Nat]

Init ==
    /\ stream = {} /\ added = 0 /\ lastRead = 0
    /\ pel = {} /\ stale = {} /\ dead = {}
    /\ up = TRUE
    /\ pc = [w \in Worker |-> "off"]
    /\ cur = [w \in Worker |-> NoMsg]
    /\ mail = [w \in Worker |-> {}]
    /\ jobs = 0 /\ failures = [j \in Job |-> 0] /\ done = {}
    /\ raises = 0 /\ crashes = 0 /\ outages = 0

-----------------------------------------------------------------------------
(* One Redis command of worker w.  A command that Redis executed may still *)
(* raise, when the connection is lost before the reply.                    *)

Goto(w, l) == pc' = [pc EXCEPT ![w] = l]

Cut == /\ outages < MaxOutages
       /\ outages' = outages + 1
       /\ up' = FALSE

Answered(w, ok, broken) ==
    /\ up
    /\ \/ Goto(w, ok) /\ UNCHANGED network
       \/ Goto(w, broken) /\ Cut

Refused(w, broken) ==
    /\ ~up
    /\ Goto(w, broken)
    /\ UNCHANGED network

\* The k members of S that come first in the stream.
Earliest(S, k) ==
    {m \in S : Cardinality({n \in S : n.mid < m.mid}) < k}

-----------------------------------------------------------------------------
(* Producers: enqueue and enqueue_many.  The pipeline is not a transaction, *)
(* so an outage may keep a prefix.  While Redis is down the jobs are only   *)
(* logged as dropped.                                                       *)

Fresh(ps, k) ==
    {[mid |-> added + i, job |-> jobs + i, payload |-> ps[i], attempts |-> 0] :
        i \in 1 .. k}

Enqueue(ps) ==
    /\ jobs + Len(ps) <= MaxJobs
    /\ \/ \E k \in 0 .. Len(ps) :
            /\ up
            /\ stream' = stream \cup Fresh(ps, k)
            /\ added' = added + k
            /\ jobs' = jobs + k
            /\ \/ k = Len(ps) /\ UNCHANGED network
               \/ Cut
       \/ ~up /\ UNCHANGED <<stream, added, jobs, network>>
    /\ UNCHANGED <<lastRead, pel, stale, dead, failures, done, budgets>>

Submit(ps) == Enqueue(ps) /\ UNCHANGED <<pc, local>>

-----------------------------------------------------------------------------
(* The worker loop. *)

Idle(w) == pc[w] = "idle" /\ mail[w] = {}

\* Messages go to the caller's local batch; an exception loses the batch,
\* and its messages stay pending.
Handed(w, ms) ==
    /\ up
    /\ \/ mail' = [mail EXCEPT ![w] = ms] /\ UNCHANGED network
       \/ UNCHANGED mail /\ Cut
    /\ UNCHANGED <<stream, added, dead, pc, cur, history, budgets>>

Read(w) ==
    LET ms == Earliest({m \in stream : m.mid > lastRead}, ReadCount) IN
    /\ Idle(w)
    /\ ms # {}
    /\ lastRead' = CHOOSE i \in {m.mid : m \in ms} : \A m \in ms : m.mid <= i
    /\ pel' = pel \cup {m.mid : m \in ms}
    /\ Handed(w, ms)
    /\ UNCHANGED stale

\* Mutant of Claim: takes the wrong field of the reply, and no message.
ClaimNothing(w) ==
    LET ms == Earliest({m \in stream : m.mid \in stale}, ClaimCount) IN
    /\ Idle(w) /\ ms # {}
    /\ stale' = stale \ {m.mid : m \in ms}
    /\ Handed(w, {}) /\ UNCHANGED <<lastRead, pel>>

Claim(w) ==
    LET ms == Earliest({m \in stream : m.mid \in stale}, ClaimCount) IN
    /\ Idle(w)
    /\ ms # {}
    /\ stale' = stale \ {m.mid : m \in ms}
    /\ Handed(w, ms)
    /\ UNCHANGED <<lastRead, pel>>

\* Mutant of Take: acknowledges before the handler ran.
TakeAndAck(w) ==
    /\ pc[w] = "idle"
    /\ \E m \in Earliest(mail[w], 1) :
        /\ cur' = [cur EXCEPT ![w] = m]
        /\ mail' = [mail EXCEPT ![w] = @ \ {m}]
        /\ pel' = pel \ {m.mid} /\ stale' = stale \ {m.mid}
    /\ Goto(w, "handle")
    /\ UNCHANGED <<stream, added, lastRead, dead, network, history, budgets>>

Take(w) ==
    /\ pc[w] = "idle"
    /\ \E m \in Earliest(mail[w], 1) :
        /\ cur' = [cur EXCEPT ![w] = m]
        /\ mail' = [mail EXCEPT ![w] = @ \ {m}]
    /\ Goto(w, "handle")
    /\ UNCHANGED <<redis, network, history, budgets>>

-----------------------------------------------------------------------------
(* _process_message *)

HandlerReturns(w) ==
    /\ pc[w] = "handle"
    /\ Goto(w, "ack")
    /\ done' = done \cup {cur[w].job}
    /\ UNCHANGED <<redis, network, local, jobs, failures, budgets>>

Fails(w) == failures' = [failures EXCEPT ![cur[w].job] = @ + 1]

HandlerRaises(w) ==
    /\ pc[w] = "handle"
    /\ raises < MaxRaises
    /\ raises' = raises + 1
    /\ Goto(w, "failed_ack")
    /\ Fails(w)
    /\ UNCHANGED <<redis, network, local, jobs, done, crashes>>

\* Mutant of AckEffect: the entry keeps its idle mark.
AckKeepsStale(w) ==
    pel' = pel \ {cur[w].mid} /\ UNCHANGED <<stream, added, lastRead, dead, stale>>

AckEffect(w) ==
    /\ pel' = pel \ {cur[w].mid}
    /\ stale' = stale \ {cur[w].mid}
    /\ UNCHANGED <<stream, added, lastRead, dead>>

DelEffect(w) ==
    /\ stream' = {m \in stream : m.mid # cur[w].mid}
    /\ UNCHANGED <<added, lastRead, pel, stale, dead>>

\* XACK after the handler succeeded; an error here counts as a failed attempt.
Ack(w) ==
    /\ pc[w] = "ack"
    /\ \/ AckEffect(w) /\ Answered(w, "del", "failed_ack")
       \/ UNCHANGED redis /\ Refused(w, "failed_ack")
    /\ IF pc'[w] = "failed_ack" THEN Fails(w) ELSE UNCHANGED failures
    /\ UNCHANGED <<local, jobs, done, budgets>>

Del(w) ==
    /\ pc[w] = "del"
    /\ \/ DelEffect(w) /\ Answered(w, "idle", "failed_ack")
       \/ UNCHANGED redis /\ Refused(w, "failed_ack")
    /\ IF pc'[w] = "failed_ack"
       THEN Fails(w) /\ UNCHANGED cur
       ELSE cur' = [cur EXCEPT ![w] = NoMsg] /\ UNCHANGED failures
    /\ UNCHANGED <<mail, jobs, done, budgets>>

\* The except branch: XACK and XDEL, whose own errors are swallowed.
FailedAck(w) ==
    /\ pc[w] = "failed_ack"
    /\ \/ AckEffect(w) /\ Answered(w, "failed_del", "again")
       \/ UNCHANGED redis /\ Refused(w, "again")
    /\ UNCHANGED <<local, history, budgets>>

FailedDel(w) ==
    /\ pc[w] = "failed_del"
    /\ \/ DelEffect(w) /\ Answered(w, "again", "again")
       \/ UNCHANGED redis /\ Refused(w, "again")
    /\ UNCHANGED <<local, history, budgets>>

Retry(m) == [m EXCEPT !.mid = added + 1, !.attempts = @ + 1]

\* Mutants of AgainEffect: buries one attempt early; drops instead of burying.
BuryEarly(w) ==
    /\ IF cur[w].attempts + 2 < MaxAttempts
       THEN stream' = stream \cup {Retry(cur[w])} /\ added' = added + 1
            /\ UNCHANGED dead
       ELSE dead' = dead \cup {cur[w].job} /\ UNCHANGED <<stream, added>>
    /\ UNCHANGED <<lastRead, pel, stale>>

RetryOrDrop(w) ==
    /\ IF cur[w].attempts + 1 < MaxAttempts
       THEN stream' = stream \cup {Retry(cur[w])} /\ added' = added + 1
       ELSE UNCHANGED <<stream, added>>
    /\ UNCHANGED <<lastRead, pel, stale, dead>>

\* XADD of the retry copy, or of the dead letter once attempts run out.
AgainEffect(w) ==
    /\ IF cur[w].attempts + 1 < MaxAttempts
       THEN /\ stream' = stream \cup {Retry(cur[w])}
            /\ added' = added + 1
            /\ UNCHANGED dead
       ELSE /\ dead' = dead \cup {cur[w].job}
            /\ UNCHANGED <<stream, added>>
    /\ UNCHANGED <<lastRead, pel, stale>>

\* If it raises, the exception ends the batch: run_worker starts over.
Again(w) ==
    /\ pc[w] = "again"
    /\ \/ AgainEffect(w) /\ Answered(w, "idle", "idle")
       \/ UNCHANGED redis /\ Refused(w, "idle")
    /\ cur' = [cur EXCEPT ![w] = NoMsg]
    /\ mail' = IF up' THEN mail ELSE [mail EXCEPT ![w] = {}]
    /\ UNCHANGED <<history, budgets>>

-----------------------------------------------------------------------------
(* Processes, Redis and time. *)

\* The process starts (or restarts) and enters run_worker.
Start(w) ==
    /\ pc[w] = "off"
    /\ Goto(w, "idle")

Run(w) == Start(w) /\ UNCHANGED <<redis, network, local, history, budgets>>

\* A crash (before run_worker too), or the exit that stop_event asks for: the
\* local batch is gone.
Exit(w) ==
    /\ crashes < MaxCrashes
    /\ crashes' = crashes + 1
    /\ Goto(w, "off")
    /\ cur' = [cur EXCEPT ![w] = NoMsg]
    /\ mail' = [mail EXCEPT ![w] = {}]
    /\ UNCHANGED <<redis, network, history, raises>>

GoDown == up /\ Cut /\ UNCHANGED <<redis, pc, local, history, budgets>>

ComeBack ==
    /\ ~up
    /\ up' = TRUE
    /\ UNCHANGED <<redis, outages, pc, local, history, budgets>>

\* CLAIM_IDLE_MS pass since a message was last delivered.  That needs no
\* crash: a batch of slow webhook calls takes longer.
GoStale(i) ==
    /\ i \in pel \ stale
    /\ stale' = stale \cup {i}
    /\ UNCHANGED <<stream, added, lastRead, pel, dead,
                   network, pc, local, history, budgets>>

WorkerStep(w) ==
    \/ Read(w) \/ Claim(w) \/ Take(w)
    \/ HandlerReturns(w) \/ HandlerRaises(w)
    \/ Ack(w) \/ Del(w) \/ FailedAck(w) \/ FailedDel(w) \/ Again(w)

Next ==
    \/ \E n \in 1 .. MaxJobs : \E ps \in [1 .. n -> Payload] : Submit(ps)
    \/ \E w \in Worker : WorkerStep(w) \/ Run(w) \/ Exit(w)
    \/ GoDown \/ ComeBack
    \/ \E i \in 1 .. added : GoStale(i)

Spec == Init /\ [][Next]_vars

\* A live worker's loop keeps running, a process that exits is restarted
\* (restartPolicyType in railway.toml), an outage ends, and time passes.
Fairness ==
    /\ \A w \in Worker : WF_vars(WorkerStep(w)) /\ WF_vars(Run(w))
    /\ WF_vars(ComeBack)
    /\ WF_vars(\E i \in 1 .. added : GoStale(i))

FairSpec == Spec /\ Fairness

-----------------------------------------------------------------------------
(* Properties *)

TypeOK ==
    /\ stream \subseteq Message
    /\ added \in Nat /\ lastRead \in Nat
    /\ pel \subseteq Nat /\ stale \subseteq pel
    /\ dead \subseteq Job /\ done \subseteq Job
    /\ up \in BOOLEAN
    /\ pc \in [Worker -> {"off", "idle", "handle", "ack", "del",
                          "failed_ack", "failed_del", "again"}]
    /\ cur \in [Worker -> Message \cup {NoMsg}]
    /\ mail \in [Worker -> SUBSET Message]
    /\ jobs \in 0 .. MaxJobs
    /\ failures \in [Job -> Nat]
    /\ raises \in 0 .. MaxRaises
    /\ crashes \in 0 .. MaxCrashes
    /\ outages \in 0 .. MaxOutages

\* An entry that some worker will still be handed: not read yet, or pending.
Deliverable(m) == m \in stream /\ (m.mid > lastRead \/ m.mid \in pel)

\* A job whose processing never failed is not lost, whatever processes exit
\* and whatever replies of Redis get lost: _process_message acknowledges an
\* entry only once its handler returned, or as part of a failed attempt.
UnfailedJobsSurvive ==
    \A j \in 1 .. jobs :
        \/ j \in done
        \/ failures[j] > 0
        \/ \E m \in stream : m.job = j /\ Deliverable(m)

\* The attempts field never runs ahead of the failures that really happened,
\* so a job reaches the dead-letter stream only after MAX_ATTEMPTS of them,
\* however many workers hold a copy and however many retries are duplicates.
AttemptsAreEarned ==
    /\ \A m \in stream : m.attempts <= failures[m.job]
    /\ \A j \in dead : failures[j] >= MaxAttempts

\* Every accepted job is completed or has a failed attempt, although workers
\* exit with messages in hand and Redis loses replies: run_worker claims what
\* they left pending.
JobsAreAttempted ==
    \A j \in Job : (jobs >= j) ~> (j \in done \/ failures[j] > 0)

\* Every accepted job is completed or buried, or a process exited or Redis was
\* unreachable meanwhile: the retry chain of _process_message ends.
JobsSettle ==
    \A j \in Job :
        (jobs >= j) ~> (j \in done \cup dead \/ crashes > 0 \/ outages > 0)

\* The module docstring (tasks.py:3): a worker crash does not lose an
\* in-flight job.  A job must stay deliverable, or be in the hands of a
\* worker about to retry or bury it, or be finished.
InFlightJobsSurvive ==
    \A j \in 1 .. jobs :
        \/ j \in done \cup dead
        \/ \E m \in stream : m.job = j /\ Deliverable(m)
        \/ \E w \in Worker : cur[w] # NoMsg /\ cur[w].job = j
=============================================================================
