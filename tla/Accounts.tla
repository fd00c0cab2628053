------------------------------ MODULE Accounts ------------------------------
(***************************************************************************)
(* One account, a student's or not: registration, login with password,     *)
(* second factor or a code by SMS, establish_session with its device limit *)
(* and single session (src/app/routers/auth.py, services/auth.py), what ends *)
(* a session (src/app/request_context.py, routers/admin_security.py), and   *)
(* what the staff do to the account (routers/admin_users.py).              *)
(*                                                                         *)
(* A request reads the account and writes at its commit.  establish_session *)
(* holds the advisory key 5501 of the user from its first read to its      *)
(* commit; nothing else takes that key.  A bulk revocation is an UPDATE of *)
(* the sessions that are live when it runs, which the commit makes visible *)
(* later; a session inserted in between escapes it.  A revocation writes   *)
(* the same whoever makes it, so row locks change nothing.  A browser is   *)
(* its fingerprint: one whose cookie or user agent changes is another one. *)
(* Passwords are numbered in the order they are set.  A login whose hash   *)
(* has outdated parameters hashes the password it checked once more, and   *)
(* writes that at its commit: if a change of password was committed in     *)
(* between, the old password is valid again.  Whether a password or a code *)
(* is right, and whether the account is locked, is left to Credentials:    *)
(* here any login may be let through.                                      *)
(***************************************************************************)
EXTENDS Integers, FiniteSets

CONSTANTS
    Request, Device, Session,   \* as many as there can be
    NoDevice,
    MaxDevices,                 \* MAX_DEVICES_PER_USER
    MaxPassword                 \* bound: password versions

ASSUME AccountsAssumption ==
    /\ NoDevice \notin Device
    /\ MaxDevices \in Nat /\ MaxPassword \in Nat \ {0}

VARIABLES
    student,    \* whether User.role is "student", from the start
    account,    \* "none" before the User row, then "active" or "inactive"
    password,   \* the password that password_hash is of, 0 before the row
    versions,   \* how many passwords have been set
    revived,    \* history: older passwords made valid since the last was set
    mfa,        \* mfa_enabled, with REQUIRE_STAFF_MFA on
    device,     \* Device rows: "none", "open", "blocked"
    session,    \* ActiveSession rows
    unblocks,   \* history: how often a device was unblocked
    req         \* the requests

hash == <<password, versions, revived>>
user == <<student, account, password, versions, revived, mfa>>
vars == <<student, account, password, versions, revived, mfa, device, session,
          unblocks, req>>

\* A session; once it is revoked the rest of its row matters no more.  History:
\* the password its login knew, whether the password was changed in it,
\* and whether it was committed during a change of password.
NoRow == [is |-> "none", dev |-> NoDevice, pw |-> 0, kept |-> FALSE, raced |-> FALSE]
Gone  == [NoRow EXCEPT !.is = "revoked"]

Idle == [pc |-> "idle", op |-> "none", dev |-> NoDevice,
         pw |-> 0, rehash |-> FALSE, hit |-> {}]

Init ==
    /\ student \in BOOLEAN
    /\ account = "none" /\ mfa = FALSE
    /\ password = 0 /\ versions = 0 /\ revived = {}
    /\ device = [d \in Device |-> "none"]
    /\ session = [s \in Session |-> NoRow]
    /\ unblocks = 0
    /\ req = [r \in Request |-> Idle]

Live == {s \in Session : session[s].is = "live"}
Open == {d \in Device : device[d] = "open"}

Free(r)     == req[r].pc = "idle"
At(r, l)    == req[r].pc = l
Become(r, x) == req' = [req EXCEPT ![r] = x]
End(r)      == Become(r, Idle)

Revoked(hit) == [s \in Session |-> IF s \in hit THEN Gone ELSE session[s]]

\* A session lets its user in: session_record and current_user find nothing
\* to object to.
Serves(s) == s \in Live /\ device[session[s].dev] = "open" /\ account = "active"

-----------------------------------------------------------------------------
(* Ways to log in *)

\* register_submit, then establish_session.  The unique e-mail and phone let
\* one of several registrations through.
Register(r, d) ==
    /\ Free(r) /\ account = "none" /\ student
    /\ account' = "active" /\ password' = 1 /\ versions' = 1
    /\ Become(r, [Idle EXCEPT !.pc = "enter", !.dev = d, !.pw = 1])
    /\ UNCHANGED <<student, revived, mfa, device, session, unblocks>>

\* admin_user_create, admin_students_import
CreateUser ==
    /\ account = "none"
    /\ account' = "active" /\ password' = 1 /\ versions' = 1
    /\ UNCHANGED <<student, revived, mfa, device, session, unblocks, req>>

\* The row of the user, with a new hash, is flushed together with a new device:
\* nobody else writes the hash until that login commits.
HashFree == ~\E q \in Request : /\ At(q, "commit") /\ req[q].rehash
                               /\ device[req[q].dev] = "none"

\* The commit of a request that hashed its password once more.
WriteBack(r) ==
    IF req[r].rehash
    THEN /\ password' = req[r].pw
         /\ revived' = IF req[r].pw # versions THEN revived \cup {req[r].pw} ELSE revived
    ELSE UNCHANGED <<password, revived>>

\* login, with the right password.  Whether the account is active is not
\* looked at.  A release may have raised the parameters of the hash since it was
\* made, so any hash may need a rehash.
Login(r, d, rehash) ==
    /\ Free(r) /\ account # "none"
    /\ Become(r, [Idle EXCEPT !.pc = IF mfa THEN "preauth" ELSE "enter",
                              !.dev = d, !.pw = password, !.rehash = rehash])
    /\ UNCHANGED <<user, device, session, unblocks>>

\* With a second factor login ends with a commit, and a signed cookie names the
\* user.
Preauthorize(r) ==
    /\ At(r, "preauth") /\ (req[r].rehash => HashFree)
    /\ WriteBack(r)
    /\ Become(r, [req[r] EXCEPT !.pc = "mfa", !.rehash = FALSE])
    /\ UNCHANGED <<student, account, versions, mfa, device, session, unblocks>>

MfaVerify(r) ==
    /\ At(r, "mfa") /\ mfa
    /\ Become(r, [req[r] EXCEPT !.pc = "enter"])
    /\ UNCHANGED <<user, device, session, unblocks>>

\* otp_login_verify has accepted a code (only students have a phone).
OtpLogin(r, d) ==
    /\ Free(r) /\ account # "none" /\ student
    /\ Become(r, [Idle EXCEPT !.pc = "enter", !.dev = d, !.pw = password])
    /\ UNCHANGED <<user, device, session, unblocks>>

-----------------------------------------------------------------------------
(* establish_session *)

KeyFree == \A r \in Request : ~At(r, "commit")

Admitted(d) ==
    \/ device[d] = "open"
    \/ device[d] = "none" /\ (student => Cardinality(Open) < MaxDevices)

\* STUDENT_SINGLE_SESSION
Replaced == IF student THEN Live ELSE {}

\* Mutants of Enter: the key 5501 is not taken; the limit is off by one.
EnterUnlocked(r) ==
    /\ At(r, "enter")
    /\ Admitted(req[r].dev)
    /\ Become(r, [req[r] EXCEPT !.pc = "commit", !.hit = Replaced])
    /\ UNCHANGED <<user, device, session, unblocks>>

EnterOneMore(r) ==
    /\ At(r, "enter") /\ KeyFree
    /\ device[req[r].dev] # "blocked" /\ (student => Cardinality(Open) <= MaxDevices)
    /\ Become(r, [req[r] EXCEPT !.pc = "commit", !.hit = Replaced])
    /\ UNCHANGED <<user, device, session, unblocks>>

\* The device and its limit, then the sessions to revoke, read under the key.
Enter(r) ==
    /\ At(r, "enter") /\ KeyFree
    /\ Admitted(req[r].dev)
    /\ Become(r, [req[r] EXCEPT !.pc = "commit", !.hit = Replaced])
    /\ UNCHANGED <<user, device, session, unblocks>>

\* A blocked device, or a new one over the limit, is turned away: the commit of
\* the audit entry commits the new hash too.
Refuse(r) ==
    /\ At(r, "enter") /\ KeyFree
    /\ ~Admitted(req[r].dev)
    /\ WriteBack(r)
    /\ End(r)
    /\ UNCHANGED <<student, account, versions, mfa, device, session, unblocks>>

\* Mutant of AddDevice: the new device is forgotten.
ForgetDevice(d) == UNCHANGED device

\* The Device row is inserted, unless it was found.
AddDevice(d) == device' = IF device[d] = "none" THEN [device EXCEPT ![d] = "open"]
                          ELSE device

ChangingPassword(q) == At(q, "swept") /\ req[q].op \in {"reset", "change"}

Establish(r, s) ==
    LET d == req[r].dev IN
    /\ At(r, "commit") /\ session[s] = NoRow
    /\ AddDevice(d)
    /\ WriteBack(r)
    /\ session' = [Revoked(req[r].hit) EXCEPT ![s] =
            [is |-> "live", dev |-> d, pw |-> req[r].pw, kept |-> FALSE,
             raced |-> \/ req[r].pw # password
                       \/ \E q \in Request : ChangingPassword(q)]]
    /\ End(r)
    /\ UNCHANGED <<student, account, versions, mfa, unblocks>>

-----------------------------------------------------------------------------
(* The end of a session *)

Revoke(s) ==
    /\ s \in Live
    /\ session' = Revoked({s})
    /\ UNCHANGED <<user, device, unblocks, req>>

\* A use after which session_record or current_user revokes it: expired (which is
\* a matter of time), its device blocked or its fingerprint another one, its user
\* inactive.
Lapse(s) == Revoke(s)

\* logout, in the browser or in API v1, from a session that lets its user in
Logout(s) == Serves(s) /\ Revoke(s)

\* revoke_session, by the staff
RevokeSession(s) == Revoke(s)

\* Mutant of Sweep: nothing is revoked when a password is changed.
SweepNothing(r, op, d, hit) ==
    Become(r, [Idle EXCEPT !.pc = "swept", !.op = op, !.dev = d,
                           !.hit = IF op = "reset" THEN {} ELSE hit])

\* The UPDATE that revokes the sessions in hit, not yet committed.
Sweep(r, op, d, hit) ==
    Become(r, [Idle EXCEPT !.pc = "swept", !.op = op, !.dev = d, !.hit = hit])

\* toggle_device
ToggleDevice(r, d) ==
    /\ Free(r) /\ device[d] # "none"
    /\ IF device[d] = "open"
       THEN Sweep(r, "block", d, {s \in Live : session[s].dev = d})
       ELSE Sweep(r, "unblock", d, {})
    /\ UNCHANGED <<user, device, session, unblocks>>

\* admin_user_reset_password, or forgot_password_complete after a code
ResetPassword(r) ==
    /\ Free(r) /\ account # "none" /\ versions < MaxPassword
    /\ Sweep(r, "reset", NoDevice, Live)
    /\ UNCHANGED <<user, device, session, unblocks>>

\* account_change_password, from a session that stays
ChangePassword(r, s) ==
    /\ Free(r) /\ Serves(s) /\ versions < MaxPassword
    /\ Sweep(r, "change", NoDevice, Live \ {s})
    /\ session' = [session EXCEPT ![s].kept = TRUE]
    /\ UNCHANGED <<user, device, unblocks>>

\* admin_user_reset_mfa
ResetMfa(r) ==
    /\ Free(r) /\ account # "none" /\ mfa
    /\ Sweep(r, "mfa", NoDevice, Live)
    /\ UNCHANGED <<user, device, session, unblocks>>

\* admin_toggle_student, and admin_students_bulk activating or deactivating
Switch(r) ==
    /\ Free(r) /\ account # "none" /\ student
    /\ IF account = "active" THEN Sweep(r, "off", NoDevice, Live)
       ELSE Sweep(r, "on", NoDevice, {})
    /\ UNCHANGED <<user, device, session, unblocks>>

CommitSweep(r) ==
    LET op == req[r].op IN
    /\ At(r, "swept")
    /\ session' = Revoked(req[r].hit)
    /\ IF op \in {"reset", "change"}
       THEN /\ HashFree
            /\ versions' = versions + 1 /\ password' = versions + 1 /\ revived' = {}
       ELSE UNCHANGED hash
    /\ mfa' = (mfa /\ op # "mfa")
    /\ UNCHANGED student
    /\ account' = CASE op = "off" -> "inactive" [] op = "on" -> "active"
                    [] OTHER -> account
    /\ device' = CASE op = "block"   -> [device EXCEPT ![req[r].dev] = "blocked"]
                   [] op = "unblock" -> [device EXCEPT ![req[r].dev] = "open"]
                   [] OTHER -> device
    /\ unblocks' = IF op = "unblock" THEN unblocks + 1 ELSE unblocks
    /\ End(r)

\* account_mfa_enable
EnableMfa(s) ==
    /\ Serves(s) /\ ~mfa
    /\ mfa' = TRUE
    /\ UNCHANGED <<student, account, hash, device, session, unblocks, req>>

\* A constraint violation, a lost connection, a crash; or a second factor that
\* never comes.
Abort(r) ==
    /\ ~Free(r)
    /\ End(r)
    /\ UNCHANGED <<user, device, session, unblocks>>

Next ==
    \/ CreateUser
    \/ \E s \in Session : Lapse(s) \/ Logout(s) \/ RevokeSession(s) \/ EnableMfa(s)
    \/ \E r \in Request :
        \/ \E d \in Device :
            \/ Register(r, d) \/ OtpLogin(r, d) \/ ToggleDevice(r, d)
            \/ \E rehash \in BOOLEAN : Login(r, d, rehash)
        \/ \E s \in Session : Establish(r, s) \/ ChangePassword(r, s)
        \/ Preauthorize(r) \/ MfaVerify(r) \/ Enter(r) \/ Refuse(r)
        \/ ResetPassword(r) \/ ResetMfa(r) \/ Switch(r)
        \/ CommitSweep(r) \/ Abort(r)

Spec == Init /\ [][Next]_vars

-----------------------------------------------------------------------------
(* Properties *)

\* Types.  A live session is one of a known browser.
TypeOK ==
    /\ student \in BOOLEAN
    /\ account \in {"none", "active", "inactive"}
    /\ password \in Nat /\ versions \in Nat /\ revived \subseteq Nat
    /\ mfa \in BOOLEAN
    /\ device \in [Device -> {"none", "open", "blocked"}]
    /\ session \in [Session ->
        [is : {"none", "live", "revoked"}, dev : Device \cup {NoDevice},
         pw : Nat, kept : BOOLEAN, raced : BOOLEAN]]
    /\ \A s \in Live : session[s].dev \in Device /\ device[session[s].dev] # "none"
    /\ unblocks \in Nat
    /\ req \in [Request ->
        [pc : {"idle", "preauth", "mfa", "enter", "commit", "swept"},
         op : {"none", "reset", "change", "mfa", "off", "on", "block", "unblock"},
         dev : Device \cup {NoDevice},
         pw : Nat,
         rehash : BOOLEAN,
         hit : SUBSET Session]]

\* However logins, of whatever kind, and revocations overlap, a student has at
\* most one session that is not revoked (STUDENT_SINGLE_SESSION).
OneLiveSession == student => Cardinality(Live) <= 1

\* Concurrent logins from new browsers do not pass the device limit together:
\* there are more open devices only as far as the staff unblocked some.
DevicesWithinLimit == student => Cardinality(Open) <= MaxDevices + unblocks

\* After a password was changed or reset, a session begun under another one is
\* live only if the change was made in it, if its login and the change
\* overlapped, or if some login that overlapped the last change had the older
\* password's hash written back (login, routers/auth.py:160), which makes that
\* password valid again until the next change.
OldPasswordGone ==
    \A s \in Live :
        session[s].pw # versions =>
            session[s].kept \/ session[s].raced \/ session[s].pw \in revived
=============================================================================
