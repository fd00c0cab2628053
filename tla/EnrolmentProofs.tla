--------------------------- MODULE EnrolmentProofs ---------------------------
(***************************************************************************)
(* Proofs about Enrolment, for every set of students, requests and         *)
(* transactions and every limit of the coupon and of the code.             *)
(***************************************************************************)
EXTENDS Enrolment, FiniteSetTheorems, TLAPS

-----------------------------------------------------------------------------
(* The inductive invariant. *)

\* Row locks and advisory keys exclude.
Exclusive == \A r, q \in Request : held[r] \cap held[q] # {} => r = q

\* A request has a student, and has seen no enrolment where there is none
\* (no enrolment is ever deleted).
SeesEnrolment(r) ==
    /\ pc[r] = "idle" => held[r] = {} /\ seen[r] = "none"
    /\ pc[r] # "idle" => who[r] \in Student
    /\ seen[r] # "none" => enrolled[who[r]] # "none"

\* What a request read of the coupon under its lock stays true.
CouponKept(r) ==
    /\ CouponRow \in held[r] => pc[r] \in {"free", "confirm"} /\ count[r] = used
    /\ pc[r] = "free" /\ CouponRow \in held[r] =>
          who[r] \notin redeemed /\ (MaxUses = 0 \/ used < MaxUses)

CodeKept(r) ==
    pc[r] = "redeem" =>
        /\ CodeRow \in held[r] /\ count[r] = codeUsed
        /\ codeUsed < CodeUses /\ who[r] \notin codeRedeemed

\* A callback that confirms a payment holds its row, and nobody else makes it paid.
PaymentKept(r) ==
    pc[r] \in {"paying", "entitle", "confirm"} =>
        /\ tid[r] \in opened /\ TxRow(tid[r]) \in held[r]
        /\ status[tid[r]] # "paid" /\ who[r] = buyer[tid[r]]

Holds(r) == SeesEnrolment(r) /\ CouponKept(r) /\ CodeKept(r) /\ PaymentKept(r)

RequestsHold == \A r \in Request : Holds(r)

TxRows ==
    \A t \in Tx :
        /\ status[t] = "none" => t \notin discounted \cup free \cup opened
        /\ status[t] # "none" => buyer[t] \in Student
        /\ t \in free => status[t] = "paid"

\* Every free checkout with the coupon redeemed it.
FreeCounted ==
    /\ IsFiniteSet(redeemed) /\ IsFiniteSet(codeRedeemed)
    /\ IsFiniteSet(free \cap discounted)
    /\ Cardinality(free \cap discounted) <= used

IInv ==
    /\ TypeOK /\ Exclusive /\ RequestsHold /\ TxRows /\ FreeCounted
    /\ OneSubscriptionPerPayment /\ CouponCounted /\ CodeWithinLimit
    /\ EnrolledIffEntitled

-----------------------------------------------------------------------------
(* Types in two parts: the rows, and the requests. *)

Locks ==
    {CouponRow, CodeRow} \cup {TxRow(t) : t \in Tx} \cup {Advisory(s) : s \in Student}

RowsTypeOK ==
    /\ enrolled \in [Student -> {"none", "active", "inactive"}]
    /\ status \in [Tx -> {"none", "pending", "paid", "declined",
                          "failed_to_initialize"}]
    /\ buyer \in [Tx -> Student \cup {Nobody}]
    /\ discounted \subseteq Tx /\ free \subseteq Tx
    /\ subs \in [Tx -> Nat]
    /\ manual \subseteq staffed /\ staffed \subseteq Student
    /\ used \in Nat
    /\ redeemed \subseteq Student
    /\ codeUsed \in Nat
    /\ codeRedeemed \subseteq Student
    /\ opened \subseteq Tx

RequestsTypeOK ==
    /\ held \in [Request -> SUBSET Locks]
    /\ pc \in [Request -> {"idle", "free", "paying",
                           "entitle", "confirm", "redeem", "enrol", "status"}]
    /\ who \in [Request -> Student \cup {Nobody}]
    /\ tid \in [Request -> Tx \cup {Nobody}]
    /\ seen \in [Request -> {"none", "active", "inactive"}]
    /\ count \in [Request -> Nat]

LEMMA Types == TypeOK <=> RowsTypeOK /\ RequestsTypeOK
BY DEF TypeOK, RowsTypeOK, RequestsTypeOK, Locks

LEMMA TypesNext == RowsTypeOK' /\ RequestsTypeOK' => TypeOK'
BY DEF TypeOK, RowsTypeOK, RequestsTypeOK, Locks

\* The locks are different things.
LEMMA LocksDiffer ==
    /\ CouponRow # CodeRow
    /\ \A t \in Tx : TxRow(t) # CouponRow /\ TxRow(t) # CodeRow
    /\ \A s \in Student : Advisory(s) # CouponRow /\ Advisory(s) # CodeRow
    /\ \A t \in Tx, s \in Student : TxRow(t) # Advisory(s)
    /\ \A t, u \in Tx : TxRow(t) = TxRow(u) => t = u
    /\ CouponRow \in Locks /\ CodeRow \in Locks
    /\ \A t \in Tx : TxRow(t) \in Locks
    /\ \A s \in Student : Advisory(s) \in Locks
<1>1. \A t \in Tx : TxRow(t)[1] = "tx"
  BY DEF TxRow
<1>2. \A s \in Student : Advisory(s)[1] = "5503"
  BY DEF Advisory
<1>3. CouponRow[1] = "coupon" /\ CodeRow[1] = "code"
  BY DEF CouponRow, CodeRow
<1>4. \A t, u \in Tx : TxRow(t) = TxRow(u) => t = u
  BY DEF TxRow
<1>5. QED
  BY <1>1, <1>2, <1>3, <1>4 DEF Locks

LEMMA InitInv == Init => IInv
<1> SUFFICES ASSUME Init PROVE IInv
  OBVIOUS
<1> USE EnrolmentAssumption DEF Init
<1>1. RowsTypeOK /\ RequestsTypeOK
  BY DEF RowsTypeOK, RequestsTypeOK
<1>2. Exclusive /\ RequestsHold
  BY DEF Exclusive, RequestsHold, Holds, SeesEnrolment, CouponKept, CodeKept, PaymentKept
<1>3. TxRows /\ OneSubscriptionPerPayment /\ EnrolledIffEntitled
  BY DEF TxRows, OneSubscriptionPerPayment, EnrolledIffEntitled, Entitled
<1>4. FreeCounted /\ CouponCounted /\ CodeWithinLimit
  <2>1. free \cap discounted = {} /\ redeemed = {} /\ codeRedeemed = {}
    OBVIOUS
  <2>2. QED
    BY <2>1, FS_EmptySet DEF FreeCounted, CouponCounted, CodeWithinLimit
<1>5. QED
  BY <1>1, <1>2, <1>3, <1>4, Types DEF IInv

-----------------------------------------------------------------------------
(* What the invariant needs of a step. *)

\* The step does not concern the request.
Same(q) ==
    /\ held'[q] = held[q] /\ pc'[q] = pc[q] /\ who'[q] = who[q]
    /\ tid'[q] = tid[q] /\ seen'[q] = seen[q] /\ count'[q] = count[q]

\* Such a request keeps what it knows, if no enrolment is taken away and the
\* rows it has locked are left alone.
LEMMA OthersHold ==
    ASSUME NEW q \in Request, TypeOK, Holds(q), Same(q),
           \A s \in Student : enrolled[s] # "none" => enrolled'[s] # "none",
           CouponRow \in held[q] => UNCHANGED coupon,
           CodeRow \in held[q] => UNCHANGED code,
           opened \subseteq opened',
           \A t \in opened : /\ TxRow(t) \in held[q] => status'[t] = status[t]
                             /\ buyer'[t] = buyer[t]
    PROVE  Holds(q)'
<1> USE DEF Holds, Same
<1>1. SeesEnrolment(q)'
  BY DEF SeesEnrolment
<1>2. CouponKept(q)'
  BY DEF CouponKept, coupon
<1>3. CodeKept(q)'
  BY DEF CodeKept, code
<1>4. PaymentKept(q)'
  BY DEF PaymentKept
<1>5. QED
  BY <1>1, <1>2, <1>3, <1>4

\* A request that ends gives its locks back and knows nothing.
LEMMA Ended ==
    ASSUME IInv, NEW r \in Request, End(r)
    PROVE  /\ RequestsTypeOK' /\ Exclusive' /\ Holds(r)'
           /\ \A q \in Request \ {r} : Same(q)
<1> USE DEF End
<1>1. RequestsTypeOK
  BY Types DEF IInv
<1>2. RequestsTypeOK'
  BY <1>1 DEF RequestsTypeOK
<1>3. \A q \in Request \ {r} : Same(q)
  BY <1>1 DEF RequestsTypeOK, Same
<1>4. /\ held'[r] = {} /\ pc'[r] = "idle" /\ seen'[r] = "none"
  BY <1>1 DEF RequestsTypeOK
<1>5. Exclusive'
  BY <1>3, <1>4 DEF Exclusive, Same, IInv
<1>6. Holds(r)'
  BY <1>4 DEF Holds, SeesEnrolment, CouponKept, CodeKept, PaymentKept
<1>7. QED
  BY <1>2, <1>3, <1>5, <1>6

rows == <<enrolled, payments, coupon, code, opened, staff>>

\* A step that writes no row keeps the invariant, if the request that takes it
\* takes only locks that are free.
LEMMA QuietStep ==
    ASSUME IInv, NEW r \in Request, UNCHANGED rows, RequestsTypeOK',
           \A q \in Request \ {r} : Same(q),
           \A x \in held'[r] : x \in held[r] \/ Unlocked(x),
           Holds(r)'
    PROVE  IInv'
<1> USE DEF IInv, rows, payments, coupon, code, staff
<1>1. RowsTypeOK'
  BY Types DEF RowsTypeOK
<1>2. Exclusive'
  BY DEF Exclusive, Same, Unlocked
<1>3. RequestsHold'
  BY OthersHold DEF RequestsHold
<1>4. TxRows' /\ FreeCounted' /\ OneSubscriptionPerPayment' /\ CouponCounted'
      /\ CodeWithinLimit'
  BY DEF TxRows, FreeCounted, OneSubscriptionPerPayment, CouponCounted, CodeWithinLimit
<1>5. EnrolledIffEntitled'
  BY DEF EnrolledIffEntitled, Entitled
<1>6. QED
  BY <1>1, <1>2, <1>3, <1>4, <1>5, TypesNext

LEMMA AbortStep == ASSUME IInv, NEW r \in Request, Abort(r) PROVE IInv'
<1>1. UNCHANGED rows /\ End(r)
  BY DEF Abort, rows
<1>2. held'[r] = {}
  BY <1>1, Types DEF End, IInv, RequestsTypeOK
<1>3. QED
  BY <1>1, <1>2, Ended, QuietStep

-----------------------------------------------------------------------------
(* Steps in which a request reads and locks. *)

LEMMA IdleHolds ==
    ASSUME IInv, NEW r \in Request, pc[r] = "idle"
    PROVE  held[r] = {} /\ RequestsTypeOK /\ RowsTypeOK
BY Types DEF IInv, RequestsHold, Holds, SeesEnrolment

LEMMA StartFreeStep ==
    ASSUME IInv, NEW r \in Request, NEW s \in Student, NEW withCoupon \in BOOLEAN,
           StartFree(r, s, withCoupon)
    PROVE  IInv'
<1>1. /\ pc[r] = "idle" /\ pc' = [pc EXCEPT ![r] = "free"]
      /\ who' = [who EXCEPT ![r] = s] /\ tid' = tid
      /\ seen' = [seen EXCEPT ![r] = enrolled[s]] /\ UNCHANGED rows
  BY DEF StartFree, Begin, Goto, See, rows
<1>2. held[r] = {} /\ RequestsTypeOK /\ RowsTypeOK
  BY <1>1, IdleHolds
<1>3. held' = (IF withCoupon THEN [held EXCEPT ![r] = {CouponRow}] ELSE held)
      /\ count' = (IF withCoupon THEN [count EXCEPT ![r] = used] ELSE count)
      /\ (withCoupon => ResolveCoupon(s))
  BY <1>2 DEF StartFree, Take, RequestsTypeOK
<1>4. RequestsTypeOK'
  BY <1>1, <1>2, <1>3, LocksDiffer DEF RequestsTypeOK, RowsTypeOK
<1>5. \A q \in Request \ {r} : Same(q)
  BY <1>1, <1>2, <1>3 DEF Same, RequestsTypeOK
<1>6. /\ pc'[r] = "free" /\ who'[r] = s /\ seen'[r] = enrolled[s]
      /\ held'[r] = IF withCoupon THEN {CouponRow} ELSE {}
      /\ withCoupon => count'[r] = used
  BY <1>1, <1>2, <1>3 DEF RequestsTypeOK
<1>7. Holds(r)'
  BY <1>1, <1>3, <1>6
     DEF Holds, SeesEnrolment, CouponKept, CodeKept, PaymentKept, ResolveCoupon, rows, coupon
<1>8. \A x \in held'[r] : Unlocked(x)
  BY <1>3, <1>6 DEF ResolveCoupon
<1>9. QED
  BY <1>1, <1>4, <1>5, <1>7, <1>8, QuietStep

LEMMA ConfirmationStep ==
    ASSUME IInv, NEW r \in Request, NEW t \in Tx, Confirmation(r, t)
    PROVE  IInv'
<1>1. /\ pc[r] = "idle" /\ pc' = [pc EXCEPT ![r] = "paying"]
      /\ who' = [who EXCEPT ![r] = buyer[t]] /\ tid' = [tid EXCEPT ![r] = t]
      /\ held' = [held EXCEPT ![r] = @ \cup {TxRow(t)}]
      /\ UNCHANGED <<seen, count>> /\ UNCHANGED rows
      /\ t \in opened /\ Unlocked(TxRow(t)) /\ status[t] # "paid"
  BY DEF Confirmation, Begin, Goto, Take, rows
<1>2. held[r] = {} /\ RequestsTypeOK /\ RowsTypeOK /\ seen[r] = "none"
  BY <1>1, IdleHolds DEF IInv, RequestsHold, Holds, SeesEnrolment
<1>3. buyer[t] \in Student
  BY <1>1 DEF IInv, TxRows
<1>4. RequestsTypeOK'
  BY <1>1, <1>2, <1>3, LocksDiffer DEF RequestsTypeOK
<1>5. \A q \in Request \ {r} : Same(q)
  BY <1>1, <1>2 DEF Same, RequestsTypeOK
<1>6. /\ pc'[r] = "paying" /\ who'[r] = buyer[t] /\ seen'[r] = "none" /\ tid'[r] = t
      /\ held'[r] = {TxRow(t)}
  BY <1>1, <1>2 DEF RequestsTypeOK
<1>7. UNCHANGED <<opened, status, buyer>>
  BY <1>1 DEF rows, payments
<1>8. Holds(r)'
  BY <1>1, <1>3, <1>6, <1>7, LocksDiffer
     DEF Holds, SeesEnrolment, CouponKept, CodeKept, PaymentKept
<1>9. QED
  BY <1>1, <1>4, <1>5, <1>6, <1>8, QuietStep

LEMMA LockStudentStep == ASSUME IInv, NEW r \in Request, LockStudent(r) PROVE IInv'
<1> DEFINE s == who[r]
<1>1. /\ pc[r] = "paying" /\ UNCHANGED rows /\ UNCHANGED <<who, tid, count>>
      /\ Unlocked(Advisory(s)) /\ held' = [held EXCEPT ![r] = @ \cup {Advisory(s)}]
      /\ seen' = [seen EXCEPT ![r] = enrolled[s]]
      /\ pc' = [pc EXCEPT ![r] = IF tid[r] \in discounted THEN "entitle" ELSE "confirm"]
  BY DEF LockStudent, See, Goto, Take, rows
<1>2. Holds(r) /\ RequestsTypeOK /\ RowsTypeOK
  BY Types DEF IInv, RequestsHold
<1>3. s \in Student /\ CouponRow \notin held[r]
  BY <1>1, <1>2 DEF Holds, SeesEnrolment, CouponKept
<1>4. RequestsTypeOK'
  BY <1>1, <1>2, <1>3, LocksDiffer DEF RequestsTypeOK, RowsTypeOK
<1>5. \A q \in Request \ {r} : Same(q)
  BY <1>1, <1>2 DEF Same, RequestsTypeOK
<1>6. /\ pc'[r] \in {"entitle", "confirm"} /\ seen'[r] = enrolled[s] /\ who'[r] = s
      /\ tid'[r] = tid[r] /\ held'[r] = held[r] \cup {Advisory(s)}
  BY <1>1, <1>2 DEF RequestsTypeOK
<1>7. UNCHANGED <<opened, status, buyer, enrolled>>
  BY <1>1 DEF rows, payments
<1>8. Holds(r)'
  BY <1>1, <1>2, <1>3, <1>6, <1>7, LocksDiffer
     DEF Holds, SeesEnrolment, CouponKept, CodeKept, PaymentKept
<1>9. QED
  BY <1>1, <1>4, <1>5, <1>6, <1>8, QuietStep

LEMMA LockCouponStep == ASSUME IInv, NEW r \in Request, LockCoupon(r) PROVE IInv'
<1>1. /\ pc[r] = "entitle" /\ UNCHANGED rows /\ UNCHANGED <<who, tid, seen>>
      /\ Unlocked(CouponRow) /\ held' = [held EXCEPT ![r] = @ \cup {CouponRow}]
      /\ count' = [count EXCEPT ![r] = used]
      /\ pc' = [pc EXCEPT ![r] = "confirm"]
  BY DEF LockCoupon, Goto, Take, rows
<1>2. Holds(r) /\ RequestsTypeOK /\ RowsTypeOK
  BY Types DEF IInv, RequestsHold
<1>3. RequestsTypeOK'
  BY <1>1, <1>2, LocksDiffer DEF RequestsTypeOK, RowsTypeOK
<1>4. \A q \in Request \ {r} : Same(q)
  BY <1>1, <1>2 DEF Same, RequestsTypeOK
<1>5. /\ pc'[r] = "confirm" /\ count'[r] = used
      /\ seen'[r] = seen[r] /\ who'[r] = who[r] /\ tid'[r] = tid[r]
      /\ held'[r] = held[r] \cup {CouponRow}
  BY <1>1, <1>2 DEF RequestsTypeOK
<1>6. UNCHANGED <<opened, status, buyer, enrolled, used>>
  BY <1>1 DEF rows, payments, coupon
<1>7. Holds(r)'
  BY <1>1, <1>2, <1>5, <1>6
     DEF Holds, SeesEnrolment, CouponKept, CodeKept, PaymentKept
<1>8. QED
  BY <1>1, <1>3, <1>4, <1>5, <1>7, QuietStep

LEMMA OpenCodeStep ==
    ASSUME IInv, NEW r \in Request, NEW s \in Student, OpenCode(r, s)
    PROVE  IInv'
<1>1. /\ pc[r] = "idle" /\ pc' = [pc EXCEPT ![r] = "redeem"]
      /\ who' = [who EXCEPT ![r] = s] /\ tid' = tid
      /\ held' = [held EXCEPT ![r] = @ \cup {CodeRow}]
      /\ count' = [count EXCEPT ![r] = codeUsed]
      /\ seen' = [seen EXCEPT ![r] = enrolled[s]] /\ UNCHANGED rows
      /\ Unlocked(CodeRow) /\ codeUsed < CodeUses /\ s \notin codeRedeemed
  BY DEF OpenCode, Begin, Goto, See, Take, rows
<1>2. held[r] = {} /\ RequestsTypeOK /\ RowsTypeOK
  BY <1>1, IdleHolds
<1>3. RequestsTypeOK'
  BY <1>1, <1>2, LocksDiffer DEF RequestsTypeOK, RowsTypeOK
<1>4. \A q \in Request \ {r} : Same(q)
  BY <1>1, <1>2 DEF Same, RequestsTypeOK
<1>5. /\ pc'[r] = "redeem" /\ who'[r] = s /\ seen'[r] = enrolled[s]
      /\ held'[r] = {CodeRow} /\ count'[r] = codeUsed
  BY <1>1, <1>2 DEF RequestsTypeOK
<1>6. Holds(r)'
  BY <1>1, <1>5, LocksDiffer
     DEF Holds, SeesEnrolment, CouponKept, CodeKept, PaymentKept, rows, code
<1>7. QED
  BY <1>1, <1>3, <1>4, <1>5, <1>6, QuietStep

LEMMA StaffOpenStep ==
    ASSUME IInv, NEW r \in Request, NEW s \in Student, NEW op \in {"enrol", "status"},
           StaffOpen(r, s, op)
    PROVE  IInv'
<1>1. /\ pc[r] = "idle" /\ pc' = [pc EXCEPT ![r] = op]
      /\ who' = [who EXCEPT ![r] = s] /\ UNCHANGED <<held, tid, count>>
      /\ seen' = [seen EXCEPT ![r] = enrolled[s]] /\ UNCHANGED rows
  BY DEF StaffOpen, Begin, Goto, See, rows
<1>2. held[r] = {} /\ RequestsTypeOK /\ RowsTypeOK
  BY <1>1, IdleHolds
<1>3. RequestsTypeOK'
  BY <1>1, <1>2 DEF RequestsTypeOK, RowsTypeOK
<1>4. \A q \in Request \ {r} : Same(q)
  BY <1>1, <1>2 DEF Same, RequestsTypeOK
<1>5. pc'[r] = op /\ who'[r] = s /\ seen'[r] = enrolled[s] /\ held'[r] = {}
  BY <1>1, <1>2 DEF RequestsTypeOK
<1>6. Holds(r)'
  BY <1>1, <1>5 DEF Holds, SeesEnrolment, CouponKept, CodeKept, PaymentKept, rows
<1>7. QED
  BY <1>1, <1>3, <1>4, <1>5, <1>6, QuietStep

LEMMA EntitledIff ==
    /\ EnrolledIffEntitled <=> \A s \in Student : enrolled[s] # "none" <=> Entitled(s)
    /\ EnrolledIffEntitled' <=> \A s \in Student : enrolled'[s] # "none" <=> Entitled(s)'
<1>1. \A s \in Student : Entitled(s) \in BOOLEAN /\ Entitled(s)' \in BOOLEAN
  BY DEF Entitled
<1>2. QED
  BY <1>1 DEF EnrolledIffEntitled

-----------------------------------------------------------------------------
(* Steps of a transaction before it is paid. *)

\* Such a step makes none paid and unpaid, and leaves locked rows alone.
LEMMA UnpaidStep ==
    ASSUME IInv, UNCHANGED <<enrolled, free, subs, coupon, code, staff, request>>,
           status' \in [Tx -> {"none", "pending", "paid", "declined",
                               "failed_to_initialize"}],
           buyer' \in [Tx -> Student \cup {Nobody}],
           discounted' \subseteq Tx, opened' \subseteq Tx, opened \subseteq opened',
           \A t \in Tx : status'[t] = "paid" <=> status[t] = "paid",
           \A t \in Tx : status[t] # "none" => buyer'[t] = buyer[t],
           \A t \in opened : ~Unlocked(TxRow(t)) => status'[t] = status[t],
           free \cap discounted' = free \cap discounted,
           TxRows'
    PROVE  IInv'
<1> USE DEF IInv
<1>1. RowsTypeOK /\ RequestsTypeOK
  BY Types
<1>2. RowsTypeOK' /\ RequestsTypeOK'
  BY <1>1 DEF RowsTypeOK, RequestsTypeOK, request, coupon, code, staff
<1>3. Exclusive'
  BY DEF Exclusive, request
<1>4. RequestsHold'
  <2>1. SUFFICES ASSUME NEW q \in Request PROVE Holds(q)'
    BY DEF RequestsHold
  <2>2. Same(q)
    BY DEF Same, request
  <2>3. \A t \in opened : /\ TxRow(t) \in held[q] => status'[t] = status[t]
                          /\ buyer'[t] = buyer[t]
    BY <1>1 DEF Unlocked, TxRows, RowsTypeOK
  <2>4. QED
    BY <2>2, <2>3, OthersHold DEF RequestsHold
<1>5. OneSubscriptionPerPayment'
  BY DEF OneSubscriptionPerPayment
<1>6. FreeCounted' /\ CouponCounted' /\ CodeWithinLimit'
  BY DEF FreeCounted, CouponCounted, CodeWithinLimit, coupon, code
<1>7. EnrolledIffEntitled'
  <2>1. \A t \in Tx : status'[t] = "paid" => status[t] = "paid" /\ buyer'[t] = buyer[t]
    OBVIOUS
  <2>2. \A t \in Tx : status[t] = "paid" => status'[t] = "paid" /\ buyer'[t] = buyer[t]
    OBVIOUS
  <2>3. ASSUME NEW s \in Student PROVE Entitled(s)' <=> Entitled(s)
    BY <2>1, <2>2 DEF Entitled, code, staff
  <2>4. QED
    BY <2>3, EntitledIff
<1>8. QED
  BY <1>2, <1>3, <1>4, <1>5, <1>6, <1>7, TypesNext

LEMMA RowsTyped == IInv => RowsTypeOK /\ TxRows
BY Types DEF IInv

LEMMA StartPaymentStep ==
    ASSUME IInv, NEW t \in Tx, NEW s \in Student, NEW withCoupon \in BOOLEAN,
           StartPayment(t, s, withCoupon)
    PROVE  IInv'
<1>1. /\ status[t] = "none" /\ status' = [status EXCEPT ![t] = "pending"]
      /\ buyer' = [buyer EXCEPT ![t] = s]
      /\ discounted' = (IF withCoupon THEN discounted \cup {t} ELSE discounted)
      /\ UNCHANGED <<enrolled, free, subs, coupon, code, opened, staff, request>>
  BY DEF StartPayment, NewTx
<1>2. RowsTypeOK /\ TxRows /\ t \notin discounted \cup free \cup opened
  BY <1>1, RowsTyped DEF TxRows
<1>3. /\ status' \in [Tx -> {"none", "pending", "paid", "declined",
                               "failed_to_initialize"}]
      /\ buyer' \in [Tx -> Student \cup {Nobody}]
      /\ status'[t] = "pending" /\ buyer'[t] = s
      /\ \A u \in Tx \ {t} : status'[u] = status[u] /\ buyer'[u] = buyer[u]
      /\ discounted' \subseteq discounted \cup {t} /\ discounted' \subseteq Tx
      /\ free \cap discounted' = free \cap discounted
  BY <1>1, <1>2 DEF RowsTypeOK
<1>4. TxRows'
  BY <1>1, <1>2, <1>3 DEF TxRows
<1>5. QED
  BY <1>1, <1>2, <1>3, <1>4, UnpaidStep DEF RowsTypeOK

LEMMA AnswerStep ==
    ASSUME IInv, NEW t \in Tx, IntentionMade(t) \/ IntentionFailed(t) \/ Decline(t)
    PROVE  IInv'
<1>1. RowsTypeOK /\ TxRows
  BY RowsTyped
<1>2. CASE IntentionMade(t)
  <2>1. /\ status[t] = "pending" /\ opened' = opened \cup {t}
        /\ UNCHANGED <<enrolled, status, buyer, discounted, free, subs,
                       coupon, code, staff, request>>
    BY <1>2 DEF IntentionMade, Waiting, payments
  <2>2. TxRows'
    BY <1>1, <2>1 DEF TxRows
  <2>3. QED
    BY <1>1, <2>1, <2>2, UnpaidStep DEF RowsTypeOK
<1>3. CASE IntentionFailed(t) \/ Decline(t)
  <2>1. PICK new \in {"failed_to_initialize", "declined"} :
            status' = [status EXCEPT ![t] = new]
    BY <1>3 DEF IntentionFailed, Decline
  <2>2. /\ status[t] \notin {"none", "paid"}
        /\ t \in opened => Unlocked(TxRow(t))
        /\ UNCHANGED <<enrolled, buyer, discounted, free, subs,
                       coupon, code, opened, staff, request>>
    BY <1>1, <1>3 DEF IntentionFailed, Decline, Waiting, TxRows
  <2>3. /\ status' \in [Tx -> {"none", "pending", "paid", "declined",
                               "failed_to_initialize"}]
        /\ status'[t] = new /\ \A u \in Tx \ {t} : status'[u] = status[u]
    BY <1>1, <2>1 DEF RowsTypeOK
  <2>4. TxRows'
    BY <1>1, <2>1, <2>2, <2>3 DEF TxRows
  <2>5. QED
    BY <1>1, <2>1, <2>2, <2>3, <2>4, UnpaidStep DEF RowsTypeOK
<1>4. QED
  BY <1>2, <1>3

-----------------------------------------------------------------------------
(* Steps in which a request commits. *)

\* An enrolment is made, or was there already.
LEMMA Enrolled ==
    ASSUME IInv, NEW r \in Request, pc[r] # "idle", Enrol(r)
    PROVE  /\ who[r] \in Student
           /\ enrolled' \in [Student -> {"none", "active", "inactive"}]
           /\ enrolled'[who[r]] # "none"
           /\ \A s \in Student \ {who[r]} : enrolled'[s] = enrolled[s]
<1>1. RowsTypeOK /\ who[r] \in Student /\ (seen[r] = "active" => enrolled[who[r]] # "none")
  BY RowsTyped DEF IInv, RequestsHold, Holds, SeesEnrolment
<1>2. CASE seen[r] = "active"
  BY <1>1, <1>2 DEF Enrol, RowsTypeOK
<1>3. CASE seen[r] # "active"
  BY <1>1, <1>3 DEF Enrol, RowsTypeOK
<1>4. QED
  BY <1>2, <1>3

\* One more redemption.
LEMMA OneMore ==
    ASSUME NEW S, IsFiniteSet(S), NEW x, x \notin S
    PROVE  /\ IsFiniteSet(S \cup {x})
           /\ Cardinality(S \cup {x}) = Cardinality(S) + 1
BY FS_AddElement

LEMMA Counted ==
    ASSUME IInv
    PROVE  /\ used \in Nat /\ codeUsed \in Nat /\ MaxUses \in Nat /\ CodeUses \in Nat
           /\ Cardinality(free \cap discounted) \in Nat
           /\ used = Cardinality(redeemed) /\ codeUsed = Cardinality(codeRedeemed)
BY EnrolmentAssumption, FS_CardinalityType, RowsTyped
   DEF IInv, RowsTypeOK, FreeCounted, CouponCounted, CodeWithinLimit

\* What is common to the commits: the requests are as they should be, if what is
\* written is under the locks of the one that commits.
LEMMA CommitStep ==
    ASSUME IInv, NEW r \in Request, End(r), RowsTypeOK',
           \A s \in Student : enrolled[s] # "none" => enrolled'[s] # "none",
           CouponRow \in held[r] \/ UNCHANGED coupon,
           CodeRow \in held[r] \/ UNCHANGED code,
           UNCHANGED opened,
           \A t \in opened : /\ TxRow(t) \in held[r] \/ status'[t] = status[t]
                             /\ buyer'[t] = buyer[t],
           TxRows', FreeCounted', OneSubscriptionPerPayment', CouponCounted',
           CodeWithinLimit', EnrolledIffEntitled'
    PROVE  IInv'
<1>1. RequestsTypeOK' /\ Exclusive' /\ Holds(r)' /\ \A q \in Request \ {r} : Same(q)
  BY Ended
<1>2. ASSUME NEW q \in Request \ {r} PROVE Holds(q)'
  <2>1. \A x : x \in held[q] => x \notin held[r]
    BY DEF IInv, Exclusive
  <2>2. QED
    BY <1>1, <2>1, OthersHold DEF IInv, RequestsHold
<1>3. QED
  BY <1>1, <1>2, TypesNext DEF IInv, RequestsHold

\* Who was entitled stays so, if paid transactions stay paid to the same buyer.
LEMMA StaysEntitled ==
    ASSUME NEW s \in Student, Entitled(s),
           \A t \in Tx : status[t] = "paid" => status'[t] = "paid" /\ buyer'[t] = buyer[t],
           codeRedeemed \subseteq codeRedeemed', staffed \subseteq staffed'
    PROVE  Entitled(s)'
BY DEF Entitled

\* And one student more is entitled, whose enrolment is made.
LEMMA OneMoreEntitled ==
    ASSUME IInv, NEW r \in Request, pc[r] # "idle", Enrol(r),
           NEW w \in Student, w = who[r],
           \A t \in Tx : status[t] = "paid" => status'[t] = "paid" /\ buyer'[t] = buyer[t],
           codeRedeemed \subseteq codeRedeemed', staffed \subseteq staffed',
           Entitled(w)',
           \A s \in Student \ {w} : Entitled(s)' => Entitled(s)
    PROVE  /\ EnrolledIffEntitled'
           /\ \A s \in Student : enrolled[s] # "none" => enrolled'[s] # "none"
<1>1. /\ enrolled'[w] # "none"
      /\ \A s \in Student \ {w} : enrolled'[s] = enrolled[s]
  BY Enrolled
<1>2. \A s \in Student : enrolled[s] # "none" <=> Entitled(s)
  BY EntitledIff DEF IInv
<1>3. ASSUME NEW s \in Student PROVE enrolled'[s] # "none" <=> Entitled(s)'
  <2>1. CASE s = w
    BY <1>1, <2>1
  <2>2. CASE s # w
    BY <1>1, <1>2, <2>2, StaysEntitled
  <2>3. QED
    BY <2>1, <2>2
<1>4. QED
  BY <1>1, <1>3, EntitledIff

LEMMA ActivateFreeStep ==
    ASSUME IInv, NEW r \in Request, NEW t \in Tx, ActivateFree(r, t)
    PROVE  IInv'
<1> USE DEF IInv
<1>1. /\ pc[r] = "free" /\ Enrol(r) /\ End(r) /\ status[t] = "none"
      /\ status' = [status EXCEPT ![t] = "paid"] /\ buyer' = [buyer EXCEPT ![t] = who[r]]
      /\ discounted' = (IF HasCoupon(r) THEN discounted \cup {t} ELSE discounted)
      /\ free' = free \cup {t}
      /\ IF HasCoupon(r) THEN used' = count[r] + 1 /\ redeemed' = redeemed \cup {who[r]}
         ELSE UNCHANGED coupon
      /\ UNCHANGED <<subs, code, opened, staff>>
  BY DEF ActivateFree, NewTx, RedeemCoupon
<1>2. RowsTypeOK /\ TxRows /\ Holds(r) /\ t \notin discounted \cup free \cup opened
  BY <1>1, RowsTyped DEF TxRows, RequestsHold
<1>3. /\ who[r] \in Student
      /\ enrolled' \in [Student -> {"none", "active", "inactive"}]
  BY <1>1, Enrolled
<1>4. HasCoupon(r) => /\ CouponRow \in held[r] /\ count[r] = used
                      /\ who[r] \notin redeemed /\ (MaxUses = 0 \/ used < MaxUses)
  BY <1>1, <1>2 DEF HasCoupon, Holds, CouponKept
<1>5. /\ status' \in [Tx -> {"none", "pending", "paid", "declined",
                               "failed_to_initialize"}]
      /\ buyer' \in [Tx -> Student \cup {Nobody}]
      /\ status'[t] = "paid" /\ buyer'[t] = who[r]
      /\ \A u \in Tx \ {t} : status'[u] = status[u] /\ buyer'[u] = buyer[u]
  BY <1>1, <1>2, <1>3 DEF RowsTypeOK
<1>6. used' \in Nat /\ redeemed' \subseteq Student
  BY <1>1, <1>2, <1>3, <1>4 DEF RowsTypeOK, coupon
<1>7. RowsTypeOK'
  BY <1>1, <1>2, <1>3, <1>5, <1>6 DEF RowsTypeOK, code, staff
<1>8. TxRows'
  BY <1>1, <1>2, <1>3, <1>5 DEF TxRows
<1>9. OneSubscriptionPerPayment'
  BY <1>1, <1>2, <1>5 DEF OneSubscriptionPerPayment
<1>10. CodeWithinLimit'
  BY <1>1 DEF CodeWithinLimit, code
<1>11. /\ EnrolledIffEntitled'
       /\ \A s \in Student : enrolled[s] # "none" => enrolled'[s] # "none"
  <2>1. \A u \in Tx : status[u] = "paid" => status'[u] = "paid" /\ buyer'[u] = buyer[u]
    BY <1>1, <1>5
  <2>2. PICK w \in Student : w = who[r] /\ buyer'[t] = w /\ status'[t] = "paid"
    BY <1>3, <1>5
  <2>3. codeRedeemed' = codeRedeemed /\ staffed' = staffed
    BY <1>1 DEF code, staff
  <2>4. Entitled(w)' /\ \A s \in Student \ {w} : Entitled(s)' => Entitled(s)
    BY <1>5, <2>2, <2>3 DEF Entitled
  <2>5. QED
    BY <1>1, <2>1, <2>2, <2>3, <2>4, OneMoreEntitled
<1>12. FreeCounted' /\ CouponCounted'
  <2>1. /\ IsFiniteSet(redeemed) /\ IsFiniteSet(codeRedeemed)
        /\ IsFiniteSet(free \cap discounted)
        /\ Cardinality(free \cap discounted) <= used
        /\ MaxUses > 0 => Cardinality(free \cap discounted) <= MaxUses
    BY DEF FreeCounted, CouponCounted
  <2>2. CASE HasCoupon(r)
    <3>1. free' \cap discounted' = (free \cap discounted) \cup {t}
          /\ t \notin free \cap discounted
      BY <1>1, <1>2, <2>2
    <3>2. /\ IsFiniteSet(free' \cap discounted')
          /\ Cardinality(free' \cap discounted') = Cardinality(free \cap discounted) + 1
      BY <2>1, <3>1, OneMore
    <3>3. /\ IsFiniteSet(redeemed') /\ Cardinality(redeemed') = Cardinality(redeemed) + 1
      BY <1>1, <1>4, <2>1, <2>2, OneMore
    <3>4. used' = used + 1 /\ codeRedeemed' = codeRedeemed
      BY <1>1, <1>4, <2>2 DEF code
    <3>5. QED
      BY <1>4, <2>1, <2>2, <3>2, <3>3, <3>4, Counted DEF FreeCounted, CouponCounted
  <2>3. CASE ~HasCoupon(r)
    <3>1. free' \cap discounted' = free \cap discounted /\ UNCHANGED <<used, redeemed, codeRedeemed>>
      BY <1>1, <1>2, <2>3 DEF coupon, code
    <3>2. QED
      BY <3>1 DEF FreeCounted, CouponCounted
  <2>4. QED
    BY <2>2, <2>3
<1>13. CouponRow \in held[r] \/ UNCHANGED coupon
  BY <1>1, <1>4
<1>14. \A u \in opened : status'[u] = status[u] /\ buyer'[u] = buyer[u]
  BY <1>2, <1>5 DEF RowsTypeOK
<1>15. QED
  BY <1>1, <1>7, <1>8, <1>9, <1>10, <1>11, <1>12, <1>13, <1>14, CommitStep

LEMMA ConfirmStep == ASSUME IInv, NEW r \in Request, Confirm(r) PROVE IInv'
<1> DEFINE t == tid[r]
<1> USE DEF IInv
<1>1. /\ pc[r] = "confirm" /\ Enrol(r) /\ End(r)
      /\ status' = [status EXCEPT ![t] = "paid"] /\ subs' = [subs EXCEPT ![t] = @ + 1]
      /\ IF HasCoupon(r) /\ who[r] \notin redeemed
         THEN used' = count[r] + 1 /\ redeemed' = redeemed \cup {who[r]}
         ELSE UNCHANGED coupon
      /\ UNCHANGED <<buyer, discounted, free, code, opened, staff>>
  BY DEF Confirm, RedeemCoupon
<1>2. RowsTypeOK /\ TxRows /\ Holds(r)
  BY RowsTyped DEF RequestsHold
<1>3. /\ who[r] \in Student
      /\ enrolled' \in [Student -> {"none", "active", "inactive"}]
  BY <1>1, Enrolled
<1>4. /\ t \in opened /\ t \in Tx /\ TxRow(t) \in held[r] /\ status[t] # "paid"
      /\ who[r] = buyer[t] /\ t \notin free
  BY <1>1, <1>2 DEF Holds, PaymentKept, RowsTypeOK, TxRows
<1>5. HasCoupon(r) => CouponRow \in held[r] /\ count[r] = used
  BY <1>1, <1>2 DEF HasCoupon, Holds, CouponKept
<1>6. /\ status' \in [Tx -> {"none", "pending", "paid", "declined",
                               "failed_to_initialize"}]
      /\ subs' \in [Tx -> Nat]
      /\ status'[t] = "paid" /\ subs'[t] = subs[t] + 1
      /\ \A u \in Tx \ {t} : status'[u] = status[u] /\ subs'[u] = subs[u]
  BY <1>1, <1>2, <1>4 DEF RowsTypeOK
<1>7. used' \in Nat /\ redeemed' \subseteq Student
  BY <1>1, <1>2, <1>3, <1>5 DEF RowsTypeOK, coupon
<1>8. RowsTypeOK'
  BY <1>1, <1>2, <1>3, <1>6, <1>7 DEF RowsTypeOK, code, staff
<1>9. TxRows'
  BY <1>1, <1>2, <1>4, <1>6 DEF TxRows
<1>10. OneSubscriptionPerPayment'
  BY <1>1, <1>4, <1>6 DEF OneSubscriptionPerPayment
<1>11. CodeWithinLimit'
  BY <1>1 DEF CodeWithinLimit, code
<1>12. /\ EnrolledIffEntitled'
       /\ \A s \in Student : enrolled[s] # "none" => enrolled'[s] # "none"
  <2>1. \A u \in Tx : status[u] = "paid" => status'[u] = "paid" /\ buyer'[u] = buyer[u]
    BY <1>1, <1>6
  <2>2. PICK w \in Student : w = who[r] /\ buyer'[t] = w /\ status'[t] = "paid"
    BY <1>1, <1>3, <1>4, <1>6
  <2>3. codeRedeemed' = codeRedeemed /\ staffed' = staffed
    BY <1>1 DEF code, staff
  <2>4. Entitled(w)' /\ \A s \in Student \ {w} : Entitled(s)' => Entitled(s)
    <3>1. Entitled(w)'
      BY <1>4, <2>2 DEF Entitled
    <3>2. QED
      BY <1>1, <1>4, <1>6, <2>2, <2>3, <3>1 DEF Entitled
  <2>5. QED
    BY <1>1, <2>1, <2>2, <2>3, <2>4, OneMoreEntitled
<1>13. FreeCounted' /\ CouponCounted'
  <2>1. /\ IsFiniteSet(redeemed) /\ IsFiniteSet(codeRedeemed)
        /\ IsFiniteSet(free \cap discounted)
        /\ Cardinality(free \cap discounted) <= used
        /\ MaxUses > 0 => Cardinality(free \cap discounted) <= MaxUses
        /\ UNCHANGED <<free, discounted, codeRedeemed>>
    BY <1>1 DEF FreeCounted, CouponCounted, code
  <2>2. CASE HasCoupon(r) /\ who[r] \notin redeemed
    <3>1. /\ IsFiniteSet(redeemed') /\ Cardinality(redeemed') = Cardinality(redeemed) + 1
      BY <1>1, <2>1, <2>2, OneMore
    <3>2. used' = used + 1
      BY <1>1, <1>5, <2>2
    <3>3. QED
      BY <2>1, <3>1, <3>2, Counted DEF FreeCounted, CouponCounted
  <2>3. CASE ~(HasCoupon(r) /\ who[r] \notin redeemed)
    BY <1>1, <2>1, <2>3, Counted DEF FreeCounted, CouponCounted, coupon
  <2>4. QED
    BY <2>2, <2>3
<1>14. CouponRow \in held[r] \/ UNCHANGED coupon
  BY <1>1, <1>5
<1>15. \A u \in opened : /\ TxRow(u) \in held[r] \/ status'[u] = status[u]
                         /\ buyer'[u] = buyer[u]
  BY <1>1, <1>2, <1>4, <1>6 DEF RowsTypeOK
<1>16. QED
  BY <1>1, <1>8, <1>9, <1>10, <1>11, <1>12, <1>13, <1>14, <1>15, CommitStep

LEMMA RedeemStep == ASSUME IInv, NEW r \in Request, Redeem(r) PROVE IInv'
<1> USE DEF IInv
<1>1. /\ pc[r] = "redeem" /\ Enrol(r) /\ End(r)
      /\ codeUsed' = count[r] + 1 /\ codeRedeemed' = codeRedeemed \cup {who[r]}
      /\ UNCHANGED <<status, buyer, discounted, free, subs, used, redeemed, opened,
                     manual, staffed>>
  BY DEF Redeem, payments, coupon, staff
<1>2. RowsTypeOK /\ TxRows /\ Holds(r)
  BY RowsTyped DEF RequestsHold
<1>3. /\ who[r] \in Student
      /\ enrolled' \in [Student -> {"none", "active", "inactive"}]
  BY <1>1, Enrolled
<1>4. /\ CodeRow \in held[r] /\ count[r] = codeUsed /\ codeUsed < CodeUses
      /\ who[r] \notin codeRedeemed
  BY <1>1, <1>2 DEF Holds, CodeKept
<1>5. RowsTypeOK'
  BY <1>1, <1>2, <1>3, <1>4 DEF RowsTypeOK
<1>6. /\ TxRows' /\ OneSubscriptionPerPayment'
  BY <1>1 DEF TxRows, OneSubscriptionPerPayment
<1>7. /\ EnrolledIffEntitled'
      /\ \A s \in Student : enrolled[s] # "none" => enrolled'[s] # "none"
  <2>1. PICK w \in Student : w = who[r]
    BY <1>3
  <2>2. Entitled(w)' /\ \A s \in Student \ {w} : Entitled(s)' => Entitled(s)
    BY <1>1, <2>1 DEF Entitled
  <2>3. QED
    BY <1>1, <2>1, <2>2, OneMoreEntitled
<1>8. IsFiniteSet(codeRedeemed') /\ Cardinality(codeRedeemed') = Cardinality(codeRedeemed) + 1
  BY <1>1, <1>4, OneMore DEF FreeCounted
<1>9. FreeCounted' /\ CouponCounted' /\ CodeWithinLimit'
  BY <1>1, <1>4, <1>8, Counted DEF FreeCounted, CouponCounted, CodeWithinLimit
<1>10. QED
  BY <1>1, <1>4, <1>5, <1>6, <1>7, <1>9, CommitStep DEF coupon

LEMMA StaffEnrolStep ==
    ASSUME IInv, NEW r \in Request, NEW grant \in BOOLEAN, StaffEnrol(r, grant)
    PROVE  IInv'
<1> USE DEF IInv
<1>1. /\ pc[r] = "enrol" /\ Enrol(r) /\ End(r)
      /\ staffed' = staffed \cup {who[r]}
      /\ manual' = (IF grant THEN manual \cup {who[r]} ELSE manual)
      /\ UNCHANGED <<status, buyer, discounted, free, subs, used, redeemed, opened,
                     codeUsed, codeRedeemed>>
  BY DEF StaffEnrol, payments, coupon, code
<1>2. RowsTypeOK /\ TxRows
  BY RowsTyped
<1>3. /\ who[r] \in Student
      /\ enrolled' \in [Student -> {"none", "active", "inactive"}]
  BY <1>1, Enrolled
<1>4. RowsTypeOK'
  BY <1>1, <1>2, <1>3 DEF RowsTypeOK
<1>5. /\ TxRows' /\ OneSubscriptionPerPayment'
  BY <1>1 DEF TxRows, OneSubscriptionPerPayment
<1>6. /\ EnrolledIffEntitled'
      /\ \A s \in Student : enrolled[s] # "none" => enrolled'[s] # "none"
  <2>1. PICK w \in Student : w = who[r]
    BY <1>3
  <2>2. Entitled(w)' /\ \A s \in Student \ {w} : Entitled(s)' => Entitled(s)
    BY <1>1, <2>1 DEF Entitled
  <2>3. QED
    BY <1>1, <2>1, <2>2, OneMoreEntitled
<1>7. FreeCounted' /\ CouponCounted' /\ CodeWithinLimit'
  BY <1>1 DEF FreeCounted, CouponCounted, CodeWithinLimit
<1>8. QED
  BY <1>1, <1>4, <1>5, <1>6, <1>7, CommitStep DEF coupon, code

\* A subscription's new status: written over what was read, not where no
\* enrolment was.
LEMMA SetStatusStep ==
    ASSUME IInv, NEW r \in Request, NEW new \in {"active", "inactive"}, SetStatus(r, new)
    PROVE  IInv'
<1> USE DEF IInv
<1>1. /\ pc[r] = "status" /\ End(r)
      /\ enrolled' = (IF seen[r] \in {new, "none"} THEN enrolled
                      ELSE [enrolled EXCEPT ![who[r]] = new])
      /\ UNCHANGED <<payments, coupon, code, opened, staff>>
  BY DEF SetStatus
<1>2. RowsTypeOK /\ TxRows /\ Holds(r)
  BY RowsTyped DEF RequestsHold
<1>3. who[r] \in Student /\ (seen[r] # "none" => enrolled[who[r]] # "none")
  BY <1>1, <1>2 DEF Holds, SeesEnrolment
<1>4. /\ enrolled' \in [Student -> {"none", "active", "inactive"}]
      /\ \A s \in Student : enrolled'[s] # "none" <=> enrolled[s] # "none"
  BY <1>1, <1>2, <1>3 DEF RowsTypeOK
<1>5. RowsTypeOK'
  BY <1>1, <1>2, <1>4 DEF RowsTypeOK, payments, coupon, code, staff
<1>6. /\ TxRows' /\ OneSubscriptionPerPayment'
  BY <1>1 DEF TxRows, OneSubscriptionPerPayment, payments
<1>7. EnrolledIffEntitled'
  <2>1. \A s \in Student : Entitled(s)' <=> Entitled(s)
    BY <1>1 DEF Entitled, payments, code, staff
  <2>2. QED
    BY <1>4, <2>1, EntitledIff
<1>8. FreeCounted' /\ CouponCounted' /\ CodeWithinLimit'
  BY <1>1 DEF FreeCounted, CouponCounted, CodeWithinLimit, payments, coupon, code
<1>9. QED
  BY <1>1, <1>4, <1>5, <1>6, <1>7, <1>8, CommitStep DEF payments

LEMMA StutterStep == ASSUME IInv, UNCHANGED vars PROVE IInv'
<1> USE DEF vars, IInv
<1>1. RowsTypeOK' /\ RequestsTypeOK'
  BY Types DEF RowsTypeOK, RequestsTypeOK
<1>2. Exclusive' /\ RequestsHold'
  BY DEF Exclusive, RequestsHold, Holds, SeesEnrolment, CouponKept, CodeKept, PaymentKept
<1>3. TxRows' /\ FreeCounted' /\ OneSubscriptionPerPayment' /\ CouponCounted'
      /\ CodeWithinLimit'
  BY DEF TxRows, FreeCounted, OneSubscriptionPerPayment, CouponCounted, CodeWithinLimit
<1>4. EnrolledIffEntitled'
  BY DEF EnrolledIffEntitled, Entitled
<1>5. QED
  BY <1>1, <1>2, <1>3, <1>4, TypesNext

-----------------------------------------------------------------------------
(* The theorems. *)

LEMMA StepInv == IInv /\ [Next]_vars => IInv'
<1> SUFFICES ASSUME IInv, [Next]_vars PROVE IInv'
  OBVIOUS
<1>1. CASE UNCHANGED vars
  BY <1>1, StutterStep
<1>2. ASSUME NEW r \in Request, NEW s \in Student,
             \/ \E withCoupon \in BOOLEAN : StartFree(r, s, withCoupon)
             \/ OpenCode(r, s)
             \/ \E op \in {"enrol", "status"} : StaffOpen(r, s, op)
      PROVE  IInv'
  BY <1>2, StartFreeStep, OpenCodeStep, StaffOpenStep
<1>3. ASSUME NEW t \in Tx,
             \/ \E s \in Student, withCoupon \in BOOLEAN : StartPayment(t, s, withCoupon)
             \/ IntentionMade(t) \/ IntentionFailed(t) \/ Decline(t)
      PROVE  IInv'
  BY <1>3, StartPaymentStep, AnswerStep
<1>4. ASSUME NEW r \in Request, Step(r) PROVE IInv'
  BY <1>4, ActivateFreeStep, ConfirmationStep, LockStudentStep, LockCouponStep,
     ConfirmStep, RedeemStep, StaffEnrolStep, SetStatusStep, AbortStep DEF Step
<1>5. QED
  BY <1>1, <1>2, <1>3, <1>4 DEF Next

LEMMA EnrolmentInv == Spec => []IInv
BY InitInv, StepInv, PTL DEF Spec

\* Every row, and what every request holds of rows and locks, is of its type.
THEOREM TypeCorrect == Spec => []TypeOK
<1>1. IInv => TypeOK
  BY DEF IInv
<1>2. QED
  BY <1>1, EnrolmentInv, PTL

\* However often, late and in whatever order the provider calls back, a payment
\* that is confirmed brings exactly one subscription: the callback that confirms
\* it holds its row from the look at its status to the commit.
THEOREM OneSubscriptionHolds == Spec => []OneSubscriptionPerPayment
<1>1. IInv => OneSubscriptionPerPayment
  BY DEF IInv
<1>2. QED
  BY <1>1, EnrolmentInv, PTL

\* Free checkouts and callbacks together count each redemption of the coupon
\* once, and the free ones stay within its limit.
THEOREM CouponCountedHolds == Spec => []CouponCounted
<1>1. IInv => CouponCounted
  BY DEF IInv
<1>2. QED
  BY <1>1, EnrolmentInv, PTL

\* However many redeem an activation code at a time, it is not stretched.
THEOREM CodeWithinLimitHolds == Spec => []CodeWithinLimit
<1>1. IInv => CodeWithinLimit
  BY DEF IInv
<1>2. QED
  BY <1>1, EnrolmentInv, PTL

\* An enrolment exists for exactly those who paid, redeemed a code or were
\* enrolled by the staff, although its row is looked up and inserted unlocked.
THEOREM EnrolledIffEntitledHolds == Spec => []EnrolledIffEntitled
<1>1. IInv => EnrolledIffEntitled
  BY DEF IInv
<1>2. QED
  BY <1>1, EnrolmentInv, PTL

\* The commit that makes a payment paid lets the student in, unless the enrolment
\* it has read as active was cancelled since.
THEOREM PayingLetsInHolds == Spec => PayingLetsIn
<1> DEFINE Pays(r) == /\ pc[r] = "confirm" /\ status[tid[r]] # "paid"
                      /\ status'[tid[r]] = "paid"
           LetIn(r) == \/ enrolled'[who[r]] = "active"
                       \/ seen[r] = "active" /\ enrolled[who[r]] = "inactive"
<1>1. ASSUME IInv, Next, NEW r \in Request, Pays(r) PROVE LetIn(r)
  <2> DEFINE t == tid[r]
  <2>1. RowsTypeOK /\ RequestsTypeOK /\ TxRows /\ Exclusive /\ Holds(r)
    BY <1>1, Types DEF IInv, RequestsHold
  <2>2. /\ t \in opened /\ t \in Tx /\ TxRow(t) \in held[r] /\ status[t] # "none"
        /\ who[r] \in Student /\ (seen[r] = "active" => enrolled[who[r]] # "none")
    BY <1>1, <2>1 DEF Holds, PaymentKept, SeesEnrolment, RowsTypeOK, TxRows
  <2>3. PICK q \in Request : Confirm(q) /\ tid[q] = t
    <3>1. ASSUME NEW u \in Tx, NEW x, x # "paid", status' = [status EXCEPT ![u] = x]
          PROVE  FALSE
      BY <1>1, <2>1, <2>2, <3>1 DEF RowsTypeOK
    <3>2. status' # status
      BY <1>1
    <3>3. ASSUME NEW q \in Request, NEW u \in Tx, ActivateFree(q, u) PROVE FALSE
      BY <1>1, <2>1, <2>2, <3>3 DEF ActivateFree, NewTx, RowsTypeOK
    <3>4. ASSUME NEW u \in Tx,
                 \/ \E s \in Student, withCoupon \in BOOLEAN : StartPayment(u, s, withCoupon)
                 \/ IntentionMade(u) \/ IntentionFailed(u) \/ Decline(u)
          PROVE  FALSE
      BY <3>1, <3>2, <3>4 DEF StartPayment, NewTx, IntentionMade, IntentionFailed, Decline,
                              payments
    <3>5. ASSUME NEW q \in Request, NEW s \in Student,
                 \/ \E withCoupon \in BOOLEAN : StartFree(q, s, withCoupon)
                 \/ OpenCode(q, s)
                 \/ \E op \in {"enrol", "status"} : StaffOpen(q, s, op)
          PROVE  FALSE
      BY <3>2, <3>5 DEF StartFree, OpenCode, StaffOpen, payments
    <3>6. ASSUME NEW q \in Request,
                 \/ \E u \in Tx : Confirmation(q, u)
                 \/ LockStudent(q) \/ LockCoupon(q) \/ Redeem(q)
                 \/ \E grant \in BOOLEAN : StaffEnrol(q, grant)
                 \/ \E new \in {"active", "inactive"} : SetStatus(q, new)
                 \/ Abort(q)
          PROVE  FALSE
      BY <3>2, <3>6 DEF Confirmation, LockStudent, LockCoupon, Redeem, StaffEnrol, SetStatus,
                        Abort, payments
    <3>7. PICK q \in Request : Confirm(q)
      BY <1>1, <3>3, <3>4, <3>5, <3>6 DEF Next, Step
    <3>8. status' = [status EXCEPT ![tid[q]] = "paid"]
      BY <3>7 DEF Confirm
    <3>9. tid[q] = t
      BY <1>1, <2>1, <2>2, <3>8 DEF RowsTypeOK
    <3>10. QED
      BY <3>7, <3>9
  <2>4. q = r
    <3>1. Holds(q) /\ pc[q] = "confirm"
      BY <1>1, <2>3 DEF IInv, RequestsHold, Confirm
    <3>2. TxRow(t) \in held[q]
      BY <2>3, <3>1 DEF Holds, PaymentKept
    <3>3. QED
      BY <2>1, <2>2, <3>2 DEF Exclusive
  <2>5. Enrol(r)
    BY <2>3, <2>4 DEF Confirm
  <2>6. QED
    BY <2>1, <2>2, <2>5 DEF Enrol, RowsTypeOK
<1>2. IInv /\ [Next]_vars =>
        [\A r \in Request :
            pc[r] = "confirm" /\ status[tid[r]] # "paid" /\ status'[tid[r]] = "paid"
            => \/ enrolled'[who[r]] = "active"
               \/ seen[r] = "active" /\ enrolled[who[r]] = "inactive"]_vars
  BY <1>1
<1>3. QED
  BY <1>2, EnrolmentInv, PTL DEF Spec, PayingLetsIn
=============================================================================
