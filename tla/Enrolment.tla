----------------------------- MODULE Enrolment -----------------------------
(***************************************************************************)
(* How a student gets into one course: checkout and the payment provider's *)
(* callback (src/app/routers/commerce.py, src/app/services/commerce.py), an *)
(* activation code (routers/activation_codes.py and its service), and the  *)
(* staff, who enrol, grant, and change subscriptions.                      *)
(*                                                                         *)
(* A request is a database transaction in READ COMMITTED: it locks rows    *)
(* (FOR UPDATE) and the advisory key 5503, reads, and writes everything at *)
(* its commit, which gives the locks back.  The enrolment row is read      *)
(* without a lock, and SQLAlchemy writes a column only if the value read   *)
(* was another one.  An insert that breaks a unique constraint fails the   *)
(* whole transaction: here, its commit is not enabled, and it can only     *)
(* abort.  Prices are left out: any checkout may come to nothing (free) or *)
(* not, since the staff set prices and discounts.  So is whether coupon    *)
(* and code are on and not expired: one that is off refuses the request,   *)
(* which then changes nothing.                                             *)
(***************************************************************************)
EXTENDS Integers, FiniteSets

CONSTANTS
    Student, Request,
    Tx,          \* payment transactions: as many as there can be
    Nobody,      \* no student, or no transaction
    MaxUses,     \* Coupon.max_uses, 0 for no limit
    CodeUses     \* ActivationCode.max_uses

ASSUME EnrolmentAssumption ==
    /\ Nobody \notin Student \cup Tx
    /\ MaxUses \in Nat /\ CodeUses \in Nat \ {0}

VARIABLES
    enrolled,       \* each student's Enrollment: "none", "active", "inactive"
    status,         \* PaymentTransaction.status, "none" before the row exists
    buyer,          \* PaymentTransaction.user_id
    discounted,     \* the transactions with a coupon_code
    free,           \* the transactions of amount 0
    subs,           \* the number of Subscription rows a transaction brought
    manual,         \* the students with a Subscription granted by the staff
    used,           \* Coupon.used_count
    redeemed,       \* CouponRedemption rows: their students
    codeUsed,       \* ActivationCode.used_count
    codeRedeemed,   \* ActivationRedemption rows: their students
    opened,         \* the transactions whose payment page reached the student
    held,           \* the locks each request holds
    pc, who, tid,   \* each request: where it is, its student, its transaction
    seen, count,    \* each request: the enrolment and the counter as read
    staffed         \* history: the students enrolled by the staff

payments == <<status, buyer, discounted, free, subs>>
coupon   == <<used, redeemed>>
code     == <<codeUsed, codeRedeemed>>
staff    == <<manual, staffed>>
request  == <<held, pc, who, tid, seen, count>>
vars == <<enrolled, status, buyer, discounted, free, subs, manual,
          used, redeemed, codeUsed, codeRedeemed, opened,
          held, pc, who, tid, seen, count, staffed>>

Init ==
    /\ enrolled = [s \in Student |-> "none"]
    /\ status = [t \in Tx |-> "none"] /\ buyer = [t \in Tx |-> Nobody]
    /\ discounted = {} /\ free = {} /\ subs = [t \in Tx |-> 0]
    /\ manual = {} /\ staffed = {}
    /\ used = 0 /\ redeemed = {}
    /\ codeUsed = 0 /\ codeRedeemed = {}
    /\ opened = {}
    /\ held = [r \in Request |-> {}]
    /\ pc = [r \in Request |-> "idle"]
    /\ who = [r \in Request |-> Nobody]
    /\ tid = [r \in Request |-> Nobody]
    /\ seen = [r \in Request |-> "none"]
    /\ count = [r \in Request |-> 0]

-----------------------------------------------------------------------------
(* A request and its locks. *)

CouponRow  == <<"coupon">>
CodeRow    == <<"code">>
TxRow(t)   == <<"tx", t>>
Advisory(s) == <<"5503", s>>

Unlocked(x) == \A r \in Request : x \notin held[r]

\* The request is over: commit, or rollback, and the locks are released.
End(r) ==
    /\ pc' = [pc EXCEPT ![r] = "idle"]
    /\ who' = [who EXCEPT ![r] = Nobody]
    /\ tid' = [tid EXCEPT ![r] = Nobody]
    /\ seen' = [seen EXCEPT ![r] = "none"]
    /\ count' = [count EXCEPT ![r] = 0]
    /\ held' = [held EXCEPT ![r] = {}]

Goto(r, l) == pc' = [pc EXCEPT ![r] = l]
Take(r, x) == held' = [held EXCEPT ![r] = @ \cup {x}]
Begin(r, l, s) == /\ pc[r] = "idle"
                  /\ Goto(r, l)
                  /\ who' = [who EXCEPT ![r] = s]
See(r, s) == seen' = [seen EXCEPT ![r] = enrolled[s]]

\* Insert the enrolment, or set it active, as the row was read.
Enrol(r) ==
    LET s == who[r] IN
    IF seen[r] = "active" THEN UNCHANGED enrolled
    ELSE /\ seen[r] = "none" => enrolled[s] = "none"
         /\ enrolled' = [enrolled EXCEPT ![s] = "active"]

NewTx(t, s, st, withCoupon) ==
    /\ status[t] = "none"
    /\ status' = [status EXCEPT ![t] = st]
    /\ buyer' = [buyer EXCEPT ![t] = s]
    /\ discounted' = IF withCoupon THEN discounted \cup {t} ELSE discounted

\* used_count + 1 as it was read, and the redemption row.
RedeemCoupon(r) ==
    /\ used' = count[r] + 1
    /\ redeemed' = redeemed \cup {who[r]}

-----------------------------------------------------------------------------
(* checkout_start *)

\* Mutant of ResolveCoupon: no FOR UPDATE.
ResolveUnlocked(s) == (MaxUses = 0 \/ used < MaxUses) /\ s \notin redeemed

\* resolve_coupon with lock=True.
ResolveCoupon(s) ==
    /\ Unlocked(CouponRow)
    /\ MaxUses = 0 \/ used < MaxUses
    /\ s \notin redeemed

HasCoupon(r) == CouponRow \in held[r]

StartFree(r, s, withCoupon) ==
    /\ Begin(r, "free", s)
    /\ IF withCoupon
       THEN /\ ResolveCoupon(s)
            /\ Take(r, CouponRow)
            /\ count' = [count EXCEPT ![r] = used]
       ELSE UNCHANGED <<held, count>>
    /\ See(r, s)
    /\ UNCHANGED <<enrolled, payments, coupon, code, opened, staff, tid>>

ActivateFree(r, t) ==
    /\ pc[r] = "free"
    /\ Enrol(r)
    /\ NewTx(t, who[r], "paid", HasCoupon(r))
    /\ free' = free \cup {t}
    /\ IF HasCoupon(r) THEN RedeemCoupon(r) ELSE UNCHANGED coupon
    /\ End(r)
    /\ UNCHANGED <<subs, code, opened, staff>>

\* The pending transaction is committed, which gives the coupon back before
\* the provider is called: from here on the request is its transaction, until
\* the provider answers (or never, if the process exits).
StartPayment(t, s, withCoupon) ==
    /\ withCoupon => ResolveCoupon(s)
    /\ NewTx(t, s, "pending", withCoupon)
    /\ UNCHANGED <<enrolled, free, subs, coupon, code, opened, staff, request>>

Waiting(t) == status[t] = "pending" /\ t \notin opened

\* create_intention answered, and the student is sent to the payment page.
IntentionMade(t) ==
    /\ Waiting(t)
    /\ opened' = opened \cup {t}
    /\ UNCHANGED <<enrolled, payments, coupon, code, staff, request>>

\* Mutant of IntentionFailed: a status that no list of payments counts.
IntentionFailedUnknown(t) ==
    /\ Waiting(t)
    /\ status' = [status EXCEPT ![t] = "failed"]
    /\ UNCHANGED <<enrolled, buyer, discounted, free, subs,
                   coupon, code, opened, staff, request>>

IntentionFailed(t) ==
    /\ Waiting(t)
    /\ status' = [status EXCEPT ![t] = "failed_to_initialize"]
    /\ UNCHANGED <<enrolled, buyer, discounted, free, subs,
                   coupon, code, opened, staff, request>>

-----------------------------------------------------------------------------
(* paymob_webhook.  On one payment page the student may fail and succeed;   *)
(* callbacks are repeated, delayed, reordered or lost: any may come at any  *)
(* time once the page was opened.                                           *)

\* Declined, still pending at the provider, or of another amount or currency.
Decline(t) ==
    /\ t \in opened
    /\ Unlocked(TxRow(t))
    /\ status[t] # "paid"
    /\ status' = [status EXCEPT ![t] = "declined"]
    /\ UNCHANGED <<enrolled, buyer, discounted, free, subs,
                   coupon, code, opened, staff, request>>

\* Mutant of Confirmation: the transaction is read without FOR UPDATE.
ConfirmationUnlocked(r, t) ==
    /\ t \in opened
    /\ status[t] # "paid"
    /\ Begin(r, "paying", buyer[t])
    /\ Take(r, TxRow(t))
    /\ tid' = [tid EXCEPT ![r] = t]
    /\ UNCHANGED <<enrolled, payments, coupon, code, opened, staff, seen, count>>

Confirmation(r, t) ==
    /\ t \in opened
    /\ Unlocked(TxRow(t))
    /\ status[t] # "paid"
    /\ Begin(r, "paying", buyer[t])
    /\ Take(r, TxRow(t))
    /\ tid' = [tid EXCEPT ![r] = t]
    /\ UNCHANGED <<enrolled, payments, coupon, code, opened, staff, seen, count>>

\* activate_paid_entitlement reads the enrolment under the advisory lock,
LockStudent(r) ==
    /\ pc[r] = "paying"
    /\ Unlocked(Advisory(who[r]))
    /\ Take(r, Advisory(who[r]))
    /\ See(r, who[r])
    /\ Goto(r, IF tid[r] \in discounted THEN "entitle" ELSE "confirm")
    /\ UNCHANGED <<enrolled, payments, coupon, code, opened, staff,
                   who, tid, count>>

\* then locks the coupon, if there is one, whether it is still on or not,
LockCoupon(r) ==
    /\ pc[r] = "entitle"
    /\ Unlocked(CouponRow)
    /\ Take(r, CouponRow)
    /\ count' = [count EXCEPT ![r] = used]
    /\ Goto(r, "confirm")
    /\ UNCHANGED <<enrolled, payments, coupon, code, opened, staff,
                   who, tid, seen>>

\* Mutants of Confirm: an inactive enrolment stays inactive; no enrolment is
\* made where none was read.
ConfirmInactive(r) ==
    /\ pc[r] = "confirm"
    /\ IF seen[r] = "inactive" THEN UNCHANGED enrolled ELSE Enrol(r)
    /\ status' = [status EXCEPT ![tid[r]] = "paid"]
    /\ subs' = [subs EXCEPT ![tid[r]] = @ + 1]
    /\ IF HasCoupon(r) /\ who[r] \notin redeemed
       THEN RedeemCoupon(r) ELSE UNCHANGED coupon
    /\ End(r)
    /\ UNCHANGED <<buyer, discounted, free, code, opened, staff>>

ConfirmUnenrolled(r) ==
    /\ pc[r] = "confirm"
    /\ IF seen[r] = "none" THEN UNCHANGED enrolled ELSE Enrol(r)
    /\ status' = [status EXCEPT ![tid[r]] = "paid"]
    /\ subs' = [subs EXCEPT ![tid[r]] = @ + 1]
    /\ IF HasCoupon(r) /\ who[r] \notin redeemed
       THEN RedeemCoupon(r) ELSE UNCHANGED coupon
    /\ End(r)
    /\ UNCHANGED <<buyer, discounted, free, code, opened, staff>>

\* and everything is written at the commit.
Confirm(r) ==
    /\ pc[r] = "confirm"
    /\ Enrol(r)
    /\ status' = [status EXCEPT ![tid[r]] = "paid"]
    /\ subs' = [subs EXCEPT ![tid[r]] = @ + 1]
    /\ IF HasCoupon(r) /\ who[r] \notin redeemed
       THEN RedeemCoupon(r)
       ELSE UNCHANGED coupon
    /\ End(r)
    /\ UNCHANGED <<buyer, discounted, free, code, opened, staff>>

-----------------------------------------------------------------------------
(* redeem_code *)

\* Mutant of OpenCode: no FOR UPDATE.
OpenCodeUnlocked(r, s) ==
    /\ Begin(r, "redeem", s)
    /\ codeUsed < CodeUses /\ s \notin codeRedeemed
    /\ Take(r, CodeRow)
    /\ count' = [count EXCEPT ![r] = codeUsed]
    /\ See(r, s)
    /\ UNCHANGED <<enrolled, payments, coupon, code, opened, staff, tid>>

OpenCode(r, s) ==
    /\ Begin(r, "redeem", s)
    /\ Unlocked(CodeRow)
    /\ codeUsed < CodeUses
    /\ s \notin codeRedeemed
    /\ Take(r, CodeRow)
    /\ count' = [count EXCEPT ![r] = codeUsed]
    /\ See(r, s)
    /\ UNCHANGED <<enrolled, payments, coupon, code, opened, staff, tid>>

Redeem(r) ==
    /\ pc[r] = "redeem"
    /\ Enrol(r)
    /\ codeUsed' = count[r] + 1
    /\ codeRedeemed' = codeRedeemed \cup {who[r]}
    /\ End(r)
    /\ UNCHANGED <<payments, coupon, opened, staff>>

-----------------------------------------------------------------------------
(* The staff. *)

HasSubscription(s) == s \in manual \/ \E t \in Tx : buyer[t] = s /\ subs[t] > 0

\* The student's enrolment is read: for an enrolment by hand, in bulk, by
\* import or through a group; for a grant; or because a subscription of the
\* student is extended or gets another status.
StaffOpen(r, s, op) ==
    /\ op = "status" => HasSubscription(s)
    /\ Begin(r, op, s)
    /\ See(r, s)
    /\ UNCHANGED <<enrolled, payments, coupon, code, opened, staff,
                   held, tid, count>>

StaffEnrol(r, grant) ==
    /\ pc[r] = "enrol"
    /\ Enrol(r)
    /\ staffed' = staffed \cup {who[r]}
    /\ manual' = IF grant THEN manual \cup {who[r]} ELSE manual
    /\ End(r)
    /\ UNCHANGED <<payments, coupon, code, opened>>

SetStatus(r, new) ==
    /\ pc[r] = "status"
    /\ enrolled' = IF seen[r] \in {new, "none"} THEN enrolled
                   ELSE [enrolled EXCEPT ![who[r]] = new]
    /\ End(r)
    /\ UNCHANGED <<payments, coupon, code, opened, staff>>

\* A constraint violation, a lost connection, or a crash.
Abort(r) ==
    /\ pc[r] # "idle"
    /\ End(r)
    /\ UNCHANGED <<enrolled, payments, coupon, code, opened, staff>>

Step(r) ==
    \/ \E t \in Tx : ActivateFree(r, t) \/ Confirmation(r, t)
    \/ LockStudent(r) \/ LockCoupon(r) \/ Confirm(r)
    \/ Redeem(r)
    \/ \E grant \in BOOLEAN : StaffEnrol(r, grant)
    \/ \E new \in {"active", "inactive"} : SetStatus(r, new)
    \/ Abort(r)

Next ==
    \/ \E r \in Request, s \in Student :
        \/ \E withCoupon \in BOOLEAN : StartFree(r, s, withCoupon)
        \/ OpenCode(r, s)
        \/ \E op \in {"enrol", "status"} : StaffOpen(r, s, op)
    \/ \E t \in Tx :
        \/ \E s \in Student, withCoupon \in BOOLEAN :
            StartPayment(t, s, withCoupon)
        \/ IntentionMade(t) \/ IntentionFailed(t) \/ Decline(t)
    \/ \E r \in Request : Step(r)

Spec == Init /\ [][Next]_vars

-----------------------------------------------------------------------------
(* Properties *)

TypeOK ==
    /\ enrolled \in [Student -> {"none", "active", "inactive"}]
    /\ status \in [Tx -> {"none", "pending", "paid", "declined",
                          "failed_to_initialize"}]
    /\ buyer \in [Tx -> Student \cup {Nobody}]
    /\ discounted \subseteq Tx /\ free \subseteq Tx
    /\ subs \in [Tx -> Nat]
    /\ manual \subseteq staffed /\ staffed \subseteq Student
    /\ used \in Nat
    /\ redeemed \subseteq Student
    /\ codeUsed \in Nat
    /\ codeRedeemed \subseteq Student
    /\ opened \subseteq Tx
    /\ held \in [Request -> SUBSET ({CouponRow, CodeRow}
                    \cup {TxRow(t) : t \in Tx} \cup {Advisory(s) : s \in Student})]
    /\ pc \in [Request -> {"idle", "free", "paying",
                           "entitle", "confirm", "redeem", "enrol", "status"}]
    /\ who \in [Request -> Student \cup {Nobody}]
    /\ tid \in [Request -> Tx \cup {Nobody}]
    /\ seen \in [Request -> {"none", "active", "inactive"}]
    /\ count \in [Request -> Nat]

\* However often and in whatever order the provider repeats its callbacks, a
\* confirmed payment brings exactly one subscription, and nothing else does.
OneSubscriptionPerPayment ==
    \A t \in Tx :
        subs[t] = IF status[t] = "paid" /\ t \notin free THEN 1 ELSE 0

\* Free checkouts and paid callbacks together neither lose a redemption of the
\* coupon nor count one student twice, and the free ones do not exceed its limit.
\* (Discounted payments may: the limit is checked before the student pays.)
CouponCounted ==
    /\ used = Cardinality(redeemed)
    /\ MaxUses > 0 => Cardinality(free \cap discounted) <= MaxUses

\* Concurrent redemptions never stretch an activation code.
CodeWithinLimit ==
    /\ codeUsed = Cardinality(codeRedeemed)
    /\ codeUsed <= CodeUses

Entitled(s) ==
    \/ \E t \in Tx : status[t] = "paid" /\ buyer[t] = s
    \/ s \in codeRedeemed \cup staffed

\* There is an enrolment exactly for those who paid, redeemed a code or were
\* enrolled by the staff, although it is checked for and inserted unlocked.
EnrolledIffEntitled ==
    \A s \in Student : (enrolled[s] # "none") = Entitled(s)

\* A student who has just paid is let in, unless the enrolment, read as
\* active, was cancelled before the commit: only then is the write left out.
PayingLetsIn ==
    [][\A r \in Request :
        pc[r] = "confirm" /\ status[tid[r]] # "paid" /\ status'[tid[r]] = "paid"
        => \/ enrolled'[who[r]] = "active"
           \/ seen[r] = "active" /\ enrolled[who[r]] = "inactive"]_vars
=============================================================================
