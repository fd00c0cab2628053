--------------------------- MODULE OfflineGrants ---------------------------
(***************************************************************************)
(* Licences to keep one lesson offline, of one student                      *)
(* (create_offline_grant in src/app/routers/learning_runtime.py,            *)
(* set_offline_policy in routers/courses.py).  A request counts the live    *)
(* licences of the other devices and then inserts one for its own, without  *)
(* a lock; each request adds a row, also for a device that has one.         *)
(***************************************************************************)
EXTENDS Integers, FiniteSets

CONSTANTS
    Request, Device,
    Limits,      \* bound: values of max_devices the staff choose, of 1..3
    Terms,       \* bound: values of max_offline_days
    MaxDay,      \* bound: days
    MaxGrants    \* bound: rows

OfflineAssumption ==
    /\ Limits \subseteq 1..3 /\ Terms \subseteq 1..30
    /\ MaxDay \in Nat /\ MaxGrants \in Nat

VARIABLES
    day,
    policy,     \* OfflineLessonPolicy row: enabled, max_devices, max_offline_days
    grants,     \* OfflineGrant rows
    peak,       \* history: the highest limit there has been
    crossed,    \* history: rows were inserted between a count and its insert
    req         \* requests in flight: device, and what they have read

vars == <<day, policy, grants, peak, crossed, req>>

Grant == [id : 1..MaxGrants, device : Device, till : 1..(MaxDay + 30)]
Off   == [enabled |-> FALSE, limit |-> 1, term |-> 7]
NoRequest == [pc |-> "idle"]

Init ==
    /\ day = 0 /\ policy = Off /\ grants = {}
    /\ peak = 1 /\ crossed = FALSE
    /\ req = [r \in Request |-> NoRequest]

Live      == {g \in grants : g.till > day}
Others(d) == Cardinality({g \in Live : g.device # d})

\* Mutant of Free: one too many.
FreeOneMore(n, limit) == n <= limit

\* active_count >= max_devices refuses
Free(n, limit) == n < limit

\* The checks of POST /api/mobile/offline/lesson/{id}/grant, and the count
Ask(r, d) ==
    /\ req[r] = NoRequest
    /\ policy.enabled /\ Free(Others(d), policy.limit)
    /\ req' = [req EXCEPT ![r] = [pc |-> "insert", device |-> d, others |-> Others(d),
                                  term |-> policy.term]]
    /\ UNCHANGED <<day, policy, grants, peak, crossed>>

Insert(r) ==
    /\ req[r] # NoRequest
    /\ Cardinality(grants) < MaxGrants
    /\ LET q == req[r] IN
          /\ grants' = grants \cup {[id |-> Cardinality(grants) + 1, device |-> q.device,
                                     till |-> day + q.term]}
          /\ crossed' = (crossed \/ Others(q.device) > q.others)
    /\ req' = [req EXCEPT ![r] = NoRequest]
    /\ UNCHANGED <<day, policy, peak>>

Abort(r) ==
    /\ req[r] # NoRequest
    /\ req' = [req EXCEPT ![r] = NoRequest]
    /\ UNCHANGED <<day, policy, grants, peak, crossed>>

\* POST /admin/lesson/{id}/offline-policy
SetPolicy(on, limit, term) ==
    /\ policy' = [enabled |-> on, limit |-> limit, term |-> term]
    /\ peak' = IF limit > peak THEN limit ELSE peak
    /\ UNCHANGED <<day, grants, crossed, req>>

NextDay ==
    /\ day < MaxDay /\ day' = day + 1
    /\ UNCHANGED <<policy, grants, peak, crossed, req>>

Next ==
    \/ \E r \in Request : (\E d \in Device : Ask(r, d)) \/ Insert(r) \/ Abort(r)
    \/ \E on \in BOOLEAN, limit \in Limits, term \in Terms : SetPolicy(on, limit, term)
    \/ NextDay

Spec == Init /\ [][Next]_vars

-----------------------------------------------------------------------------
(* Properties *)

\* Types.
OfflineTypeOK ==
    /\ day \in 0..MaxDay
    /\ policy \in [enabled : BOOLEAN, limit : 1..3, term : 1..30]
    /\ grants \subseteq Grant /\ peak \in 1..3 /\ crossed \in BOOLEAN

\* At no time does a student keep a lesson offline on more devices than the staff
\* ever allowed, renewals, expiries and changes of the policy included, unless two
\* requests cross between the count and the insert (learning_runtime.py:172-177).
OfflineDevicesWithinLimit ==
    ~crossed => Cardinality({g.device : g \in Live}) <= peak
=============================================================================
