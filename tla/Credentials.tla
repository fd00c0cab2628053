----------------------------- MODULE Credentials -----------------------------
(***************************************************************************)
(* What an account accepts before a session is made: the password, with    *)
(* failed_login_count and locked_until (login in src/app/routers/auth.py), *)
(* and one purpose of one-time codes by SMS, "login" or "password_reset"   *)
(* (create_otp in src/app/services/auth.py and the verify handlers).       *)
(*                                                                         *)
(* Both are read, and written at a later commit, without any lock.         *)
(* SQLAlchemy writes a column only if the value read was another one.      *)
(***************************************************************************)
EXTENDS Integers, Sequences

CONSTANTS
    Request,
    MaxFails,      \* wrong passwords until the account is locked: 8
    MaxCode,       \* bound: challenges, numbered as their ids
    MaxAttempts    \* tries at one code: 5

CredentialsAssumption ==
    /\ MaxFails \in Nat \ {0, 1} /\ MaxCode \in Nat /\ MaxAttempts \in Nat \ {0}

VARIABLES
    fails, lock,   \* failed_login_count; locked_until, "over" once it is past
    codes,         \* OTPChallenge rows: unused or not, and their attempts
    crossed,       \* history: challenges made while another was being made
    req            \* the requests

vars == <<fails, lock, codes, crossed, req>>

Code == 1 .. MaxCode

Idle == [pc |-> "idle", fails |-> 0, lock |-> "none", code |-> 0,
         tries |-> 0, hit |-> {}]

Init ==
    /\ fails = 0 /\ lock = "none"
    /\ codes = <<>>
    /\ crossed = {}
    /\ req = [r \in Request |-> Idle]

Made   == DOMAIN codes
Unused == {c \in Made : ~codes[c].used}

At(r, l)     == req[r].pc = l
Become(r, x) == req' = [req EXCEPT ![r] = x]

-----------------------------------------------------------------------------
(* login *)

Password(r, right) ==
    /\ At(r, "idle") /\ lock # "set"
    /\ Become(r, [Idle EXCEPT !.pc = IF right THEN "right" ELSE "wrong",
                              !.fails = fails, !.lock = lock])
    /\ UNCHANGED <<fails, lock, codes, crossed>>

Wrong(r) ==
    /\ At(r, "wrong")
    /\ LET n == req[r].fails + 1 IN
       IF n >= MaxFails THEN lock' = "set" /\ fails' = 0
       ELSE fails' = n /\ UNCHANGED lock
    /\ Become(r, Idle)
    /\ UNCHANGED <<codes, crossed>>

\* Mutant of Right: the lock is cleared whatever was read.
RightAlways(r) ==
    /\ At(r, "right")
    /\ fails' = 0 /\ lock' = "none"
    /\ Become(r, Idle)
    /\ UNCHANGED <<codes, crossed>>

\* No failures, no lock, committed when a session or the second factor's cookie
\* is made, or the device is refused.
Right(r) ==
    /\ At(r, "right")
    /\ fails' = IF req[r].fails # 0 THEN 0 ELSE fails
    /\ lock' = IF req[r].lock # "none" THEN "none" ELSE lock
    /\ Become(r, Idle)
    /\ UNCHANGED <<codes, crossed>>

LockRunsOut ==
    /\ lock = "set"
    /\ lock' = "over"
    /\ UNCHANGED <<fails, codes, crossed, req>>

-----------------------------------------------------------------------------
(* create_otp, for otp_login_request and forgot_password_request *)

\* Mutant of Supersede: the older challenges stay unused.
SupersedeNothing(r) ==
    /\ At(r, "idle") /\ Len(codes) < MaxCode
    /\ Become(r, [Idle EXCEPT !.pc = "insert"])
    /\ UNCHANGED <<fails, lock, codes, crossed>>

\* The UPDATE of the unused challenges, not yet committed.
Supersede(r) ==
    /\ At(r, "idle") /\ Len(codes) < MaxCode
    /\ Become(r, [Idle EXCEPT !.pc = "insert", !.hit = Unused])
    /\ UNCHANGED <<fails, lock, codes, crossed>>

Spent(hit) == [c \in Made |-> [codes[c] EXCEPT !.used = @ \/ c \in hit]]

Insert(r) ==
    /\ At(r, "insert") /\ Len(codes) < MaxCode
    /\ codes' = Append(Spent(req[r].hit), [used |-> FALSE, tries |-> 0])
    /\ crossed' = IF \E q \in Request \ {r} : At(q, "insert")
                  THEN crossed \cup {Len(codes) + 1} ELSE crossed
    /\ Become(r, [Idle EXCEPT !.pc = "send", !.code = Len(codes) + 1])
    /\ UNCHANGED <<fails, lock>>

\* The SMS gateway answers; if it does not, the challenge is marked used.
Send(r, ok) ==
    /\ At(r, "send")
    /\ codes' = IF ok THEN codes ELSE Spent({req[r].code})
    /\ Become(r, Idle)
    /\ UNCHANGED <<fails, lock, crossed>>

-----------------------------------------------------------------------------
(* otp_login_verify, forgot_password_verify *)

\* Of the unused challenges the newest; expired or tried too often, the code is
\* refused (an expired one may also be unused for ever).
ReadCode(r, right) ==
    /\ At(r, "idle") /\ Unused # {}
    /\ LET c == CHOOSE n \in Unused : \A m \in Unused : m <= n IN
       /\ codes[c].tries < MaxAttempts
       /\ Become(r, [Idle EXCEPT !.pc = IF right THEN "accept" ELSE "mistaken",
                                 !.code = c, !.tries = codes[c].tries])
    /\ UNCHANGED <<fails, lock, codes, crossed>>

Verify(r) ==
    LET c == req[r].code IN
    /\ At(r, "accept") \/ At(r, "mistaken")
    /\ codes' = [codes EXCEPT ![c].tries = req[r].tries + 1,
                              ![c].used = @ \/ At(r, "accept")]
    /\ Become(r, Idle)
    /\ UNCHANGED <<fails, lock, crossed>>

\* A lost connection, or a crash.
Abort(r) ==
    /\ ~At(r, "idle")
    /\ Become(r, Idle)
    /\ UNCHANGED <<fails, lock, codes, crossed>>

Next ==
    \/ LockRunsOut
    \/ \E r \in Request :
        \/ \E yes \in BOOLEAN : Password(r, yes) \/ Send(r, yes) \/ ReadCode(r, yes)
        \/ Wrong(r) \/ Right(r)
        \/ Supersede(r) \/ Insert(r) \/ Verify(r) \/ Abort(r)

Spec == Init /\ [][Next]_vars

-----------------------------------------------------------------------------
(* Properties *)

\* Types.
CredentialsTypeOK ==
    /\ fails \in 0 .. MaxFails - 1
    /\ lock \in {"none", "set", "over"}
    /\ codes \in Seq([used : BOOLEAN, tries : 0 .. MaxAttempts])
    /\ Len(codes) <= MaxCode
    /\ crossed \subseteq Code
    /\ req \in [Request ->
        [pc : {"idle", "right", "wrong", "insert", "send", "accept", "mistaken"},
         fails : 0 .. MaxFails - 1, lock : {"none", "over"},
         code : 0 .. MaxCode, tries : 0 .. MaxAttempts, hit : SUBSET Code]]

\* A lock set by wrong passwords is taken away by time, or else by a login that
\* read an earlier lock, already over: never by one that read no lock.
LockStands ==
    [][lock = "set" /\ lock' = "none" =>
        \E r \in Request : req[r].lock = "over" /\ req'[r] # req[r]]_vars

\* Once a newer code was made, an older one is spent, however their requests,
\* failed deliveries and verifications overlap: unless it was made while
\* another was being made.
OlderCodesSpent ==
    \A c, d \in Made : c < d /\ c \in Unused => c \in crossed
=============================================================================
