------------------------------ MODULE Notices ------------------------------
(***************************************************************************)
(* The notifications of one student: the rows, the number of unread ones    *)
(* that every page shows and Redis keeps (src/app/request_context.py,       *)
(* src/app/cache.py), and their way to the student's phone                  *)
(* (src/app/push.py).                                                       *)
(*                                                                          *)
(* The number is deleted from Redis before the rows are committed, and a    *)
(* page counts in one step and stores in another.  A push is handed to the  *)
(* executor by hooks of the database session, after the commit; FCM is       *)
(* configured here.                                                         *)
(***************************************************************************)
EXTENDS Integers, FiniteSets

CONSTANTS
    Notice,     \* Notification rows of the student
    Request,
    Life,       \* UNREAD_COUNT_CACHE_SECONDS, in ticks
    MaxPending, \* FCM_MAX_PENDING
    Workers     \* FCM_WORKERS

\* Asserted by the modules that instantiate this one.
NoticesAssumption ==
    /\ IsFiniteSet(Notice)
    /\ Life \in Nat \ {0} /\ Workers \in Nat \ {0} /\ MaxPending \in Nat /\ MaxPending >= Workers

VARIABLES
    rows,       \* Notification rows: committed, and read_at
    cache,      \* the number in Redis with its remaining life
    blurred,    \* history: the number may be wrong, see the actions that set it
    up,         \* Redis answers
    phone,      \* the PushDevice row of the student's phone
    pool,       \* the bounded executor: pushes that hold a slot
    pushed,     \* pushes that FCM has taken
    req         \* requests

vars == <<rows, cache, blurred, up, phone, pool, pushed, req>>

None == [count |-> 0, life |-> 0]
Idle == [pc |-> "idle"]

\* A page that has counted; a request that has written "notices" and not committed:
\* an announcement through the session, a campaign, or the reading of all.
\* "late": the number stored, or about to be, may not be the one at the commit.
Requests ==
    [pc : {"page"}, count : 0..Cardinality(Notice), late : BOOLEAN]
    \cup [pc : {"announce", "campaign", "read"}, notices : SUBSET Notice, late : BOOLEAN]

Unread == {n \in Notice : rows[n] = "unread"}
Kept   == cache.life > 0

Init ==
    /\ rows = [n \in Notice |-> "none"] /\ cache = None /\ blurred = FALSE /\ up = TRUE
    /\ phone = "off" /\ pool = [n \in Notice |-> "no"] /\ pushed = {}
    /\ req = [r \in Request |-> Idle]

-----------------------------------------------------------------------------
(* The number *)

\* The rows change now, by the requests "done": pages that have counted are late,
\* and the number kept may be wrong unless it was deleted for this change.
Change(done, new, deleted) ==
    /\ rows' = new
    /\ req' = [q \in Request |-> CASE q \in done -> Idle
                                   [] req[q].pc = "page" -> [req[q] EXCEPT !.late = TRUE]
                                   [] OTHER -> req[q]]
    /\ blurred' = (Kept /\ (blurred \/ ~deleted))

\* cache_delete and delete_many: nothing happens while Redis is away.
Delete == IF up THEN cache' = None /\ blurred' = FALSE ELSE UNCHANGED <<cache, blurred>>

\* _unread_notification_count: a kept number is shown as it is.
CountRows(r) ==
    /\ req[r] = Idle /\ ~(up /\ Kept)
    /\ req' = [req EXCEPT ![r] = [pc |-> "page", count |-> Cardinality(Unread), late |-> FALSE]]
    /\ UNCHANGED <<rows, cache, blurred, up, phone, pool, pushed>>

\* set_json.  A request that has deleted the number will commit after this.
StoreCount(r) ==
    /\ req[r].pc = "page"
    /\ IF up THEN /\ cache' = [count |-> req[r].count, life |-> Life]
                  /\ blurred' = req[r].late
             ELSE UNCHANGED <<cache, blurred>>
    /\ req' = [q \in Request |-> CASE q = r -> Idle
                                   [] up /\ req[q].pc \in {"campaign", "read"} -> [req[q] EXCEPT !.late = TRUE]
                                   [] OTHER -> req[q]]
    /\ UNCHANGED <<rows, up, phone, pool, pushed>>

Tick ==
    /\ Kept
    /\ cache' = IF cache.life = 1 THEN None ELSE [cache EXCEPT !.life = @ - 1]
    /\ blurred' = (blurred /\ cache.life > 1)
    /\ UNCHANGED <<rows, up, phone, pool, pushed, req>>

GoDown   == up  /\ up' = FALSE /\ UNCHANGED <<rows, cache, blurred, phone, pool, pushed, req>>
ComeBack == ~up /\ up' = TRUE  /\ UNCHANGED <<rows, cache, blurred, phone, pool, pushed, req>>

-----------------------------------------------------------------------------
(* Changes of the rows *)

\* db.add(Notification), in eleven places, and its flush: nothing is deleted.
\* _capture_notifications puts it into the session's batch.
Announce(r, n) ==
    /\ req[r] = Idle /\ rows[n] = "none"
    /\ \A q \in Request : req[q].pc \in {"announce", "campaign"} => n \notin req[q].notices
    /\ req' = [req EXCEPT ![r] = [pc |-> "announce", notices |-> {n}, late |-> FALSE]]
    /\ UNCHANGED <<rows, cache, blurred, up, phone, pool, pushed>>

\* Mutant of Campaign: the numbers are not deleted.
CampaignUndeleted(r, n) ==
    /\ req[r] = Idle /\ rows[n] = "none"
    /\ \A q \in Request : req[q].pc \in {"announce", "campaign"} => n \notin req[q].notices
    /\ req' = [req EXCEPT ![r] = [pc |-> "campaign", notices |-> {n}, late |-> ~up]]
    /\ UNCHANGED <<rows, cache, blurred, up, phone, pool, pushed>>

\* bulk_in_app_campaign inserts past the session: no hook sees its rows.
Campaign(r, n) ==
    /\ req[r] = Idle /\ rows[n] = "none"
    /\ \A q \in Request : req[q].pc \in {"announce", "campaign"} => n \notin req[q].notices
    /\ Delete
    /\ req' = [req EXCEPT ![r] = [pc |-> "campaign", notices |-> {n}, late |-> ~up]]
    /\ UNCHANGED <<rows, up, phone, pool, pushed>>

\* notifications_read_all of the browser, up to its commit
ReadAll(r) ==
    /\ req[r] = Idle
    /\ Delete
    /\ req' = [req EXCEPT ![r] = [pc |-> "read", notices |-> Unread, late |-> ~up]]
    /\ UNCHANGED <<rows, up, phone, pool, pushed>>

Written(q) == [n \in Notice |-> IF n \notin q.notices THEN rows[n]
                                ELSE IF q.pc = "read" THEN "read" ELSE "unread"]

Slots == MaxPending - Cardinality({n \in Notice : pool[n] # "no"})

\* _submit_push: no slot, no push.
Submitted(n) == IF Slots > 0 THEN [pool EXCEPT ![n] = "queued"] ELSE pool

\* The commit.  _dispatch_notifications hands the session's batch to the executor.
Commit(r) ==
    /\ req[r].pc \in {"announce", "campaign", "read"}
    /\ Change({r}, Written(req[r]), req[r].pc # "announce" /\ ~req[r].late)
    /\ pool' = IF req[r].pc = "announce" THEN Submitted(CHOOSE n \in req[r].notices : TRUE) ELSE pool
    /\ UNCHANGED <<cache, up, phone, pushed>>

\* _discard_notifications
Rollback(r) ==
    /\ req[r].pc \in {"announce", "campaign", "read"}
    /\ req' = [req EXCEPT ![r] = Idle]
    /\ UNCHANGED <<rows, cache, blurred, up, phone, pool, pushed>>

\* notifications_read_all of API v1: one update, committed; nothing is deleted.
ReadAllApi ==
    /\ Change({}, [n \in Notice |-> IF n \in Unread THEN "read" ELSE rows[n]], Unread = {})
    /\ UNCHANGED <<cache, up, phone, pool, pushed>>

-----------------------------------------------------------------------------
(* The phone *)

\* mobile_push_register; mobile_push_unregister and account_push_device_revoke
Register   == phone' = "on" /\ UNCHANGED <<rows, cache, blurred, up, pool, pushed, req>>
Unregister == phone = "on" /\ phone' = "off" /\ UNCHANGED <<rows, cache, blurred, up, pool, pushed, req>>

\* send_to_user on a thread of the executor: the active phones are read first.
Pick(n) ==
    /\ pool[n] = "queued" /\ Cardinality({k \in Notice : pool[k] = "sending"}) < Workers
    /\ pool' = [pool EXCEPT ![n] = IF phone = "on" THEN "sending" ELSE "no"]
    /\ UNCHANGED <<rows, cache, blurred, up, phone, pushed, req>>

\* FCM takes the push, fails, or says that the phone is not registered any more;
\* then the row goes off.  The slot comes back.
Send(n, answer) ==
    /\ pool[n] = "sending"
    /\ pool' = [pool EXCEPT ![n] = "no"]
    /\ pushed' = IF answer = "taken" THEN pushed \cup {n} ELSE pushed
    /\ phone' = IF answer = "unregistered" THEN "off" ELSE phone
    /\ UNCHANGED <<rows, cache, blurred, up, req>>

Next ==
    \/ \E r \in Request :
          \/ CountRows(r) \/ StoreCount(r) \/ ReadAll(r) \/ Commit(r) \/ Rollback(r)
          \/ \E n \in Notice : Announce(r, n) \/ Campaign(r, n)
    \/ ReadAllApi \/ Tick \/ GoDown \/ ComeBack \/ Register \/ Unregister
    \/ \E n \in Notice : Pick(n) \/ \E answer \in {"taken", "failed", "unregistered"} : Send(n, answer)

Spec == Init /\ [][Next]_vars

-----------------------------------------------------------------------------
(* Properties *)

\* Types.  Only committed notifications are pushed, and the executor holds no
\* more of them than it has slots (push.py:96).
NoticesTypeOK ==
    /\ rows \in [Notice -> {"none", "unread", "read"}]
    /\ cache \in [count : 0..Cardinality(Notice), life : 0..Life]
    /\ blurred \in BOOLEAN /\ up \in BOOLEAN /\ phone \in {"on", "off"}
    /\ pool \in [Notice -> {"no", "queued", "sending"}] /\ pushed \subseteq Notice
    /\ \A n \in Notice : pool[n] # "no" \/ n \in pushed => rows[n] # "none"
    /\ Slots >= 0
    /\ \A r \in Request : req[r] = Idle \/ req[r] \in Requests

\* The number kept in Redis is that of the unread rows ("invalidating them
\* prevents a user ... from seeing a stale count", services/communications.py:136)
\* unless a page counted or stored it while a change was being committed, Redis
\* was away when it should have been deleted, or the rows were changed by a
\* request that deletes nothing (an announcement, or API v1).
BadgeExplained == Kept /\ ~blurred => cache.count = Cardinality(Unread)
=============================================================================
