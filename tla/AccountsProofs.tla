---------------------------- MODULE AccountsProofs ----------------------------
(***************************************************************************)
(* Proofs about Accounts and Credentials, for every set of requests,       *)
(* browsers and sessions and every value of the limits.  The theorems are  *)
(* about Spec and C!Spec, each component on its own; AccountsMC, which     *)
(* puts them side by side, implements both.                                *)
(***************************************************************************)
EXTENDS AccountsMC, FiniteSetTheorems, SequenceTheorems, WellFoundedInduction, TLAPS

-----------------------------------------------------------------------------
(* The inductive invariant of Accounts. *)

RequestState ==
    [pc : {"idle", "preauth", "mfa", "enter", "commit", "swept"},
     op : {"none", "reset", "change", "mfa", "off", "on", "block", "unblock"},
     dev : Device \cup {NoDevice},
     pw : Nat,
     rehash : BOOLEAN,
     hit : SUBSET Session]

\* The key 5501 excludes.
KeyExcludes == \A r, q \in Request : At(r, "commit") /\ At(q, "commit") => r = q

\* A request that logs in knows its browser, and there is an account.
FromBrowser(r) ==
    req[r].pc \in {"preauth", "mfa", "enter", "commit"} => req[r].dev \in Device /\ account # "none"

\* What establish_session read under the key stays true until it commits: no
\* session is live that it does not revoke, and a new device fits the limit.
Decided(r) ==
    At(r, "commit") /\ student =>
        /\ Live \subseteq req[r].hit
        /\ device[req[r].dev] = "none" => Cardinality(Open) < MaxDevices + unblocks

\* A change of password revokes every session that has no excuse.
Excused(s) == session[s].kept \/ session[s].raced

Covers(r) == ChangingPassword(r) => \A s \in Live : s \in req[r].hit \/ Excused(s)

Holds(r) == FromBrowser(r) /\ Decided(r) /\ Covers(r)

RequestsHold == \A r \in Request : Holds(r)

OneLive == student => \A s, t \in Live : s = t

OpenFinite == IsFiniteSet(Open)

NoneBeforeAccount == account = "none" => Live = {}

\* The password that is accepted is the newest, or one that was written back.
Accepted == password # versions => password \in revived

IInv ==
    /\ TypeOK /\ KeyExcludes /\ RequestsHold
    /\ OneLive /\ NoneBeforeAccount /\ Accepted /\ OldPasswordGone
    /\ OpenFinite /\ DevicesWithinLimit

-----------------------------------------------------------------------------
(* What the invariant needs of a step. *)

\* The rest of the types, apart from the requests.
RowsTypeOK ==
    /\ student \in BOOLEAN
    /\ account \in {"none", "active", "inactive"}
    /\ password \in Nat /\ versions \in Nat /\ revived \subseteq Nat
    /\ mfa \in BOOLEAN
    /\ device \in [Device -> {"none", "open", "blocked"}]
    /\ session \in [Session ->
        [is : {"none", "live", "revoked"}, dev : Device \cup {NoDevice},
         pw : Nat, kept : BOOLEAN, raced : BOOLEAN]]
    /\ \A s \in Live : session[s].dev \in Device /\ device[session[s].dev] # "none"
    /\ unblocks \in Nat

LEMMA Types == TypeOK <=> RowsTypeOK /\ req \in [Request -> RequestState]
BY DEF TypeOK, RowsTypeOK, RequestState

LEMMA InitInv == Init => IInv
<1> SUFFICES ASSUME Init PROVE IInv
  OBVIOUS
<1> USE AccountsAssumption DEF Init
<1>1. Live = {} /\ Open = {}
  BY DEF Live, Open, NoRow
<1>2. TypeOK
  BY <1>1 DEF TypeOK, Idle, NoRow
<1>3. KeyExcludes /\ RequestsHold
  BY DEF KeyExcludes, RequestsHold, Holds, FromBrowser, Decided, Covers, ChangingPassword,
         At, Idle
<1>4. OneLive /\ NoneBeforeAccount /\ Accepted /\ OldPasswordGone
  BY <1>1 DEF OneLive, NoneBeforeAccount, Accepted, OldPasswordGone
<1>5. OpenFinite /\ DevicesWithinLimit
  BY <1>1, FS_EmptySet DEF OpenFinite, DevicesWithinLimit
<1>6. QED
  BY <1>2, <1>3, <1>4, <1>5 DEF IInv

\* A request that a step does not concern keeps what it has found out, if the
\* step makes no session live, takes no excuse from one, and leaves as much
\* room for devices as there was.
LEMMA OthersHold ==
    ASSUME TypeOK, NEW r \in Request, Holds(r), req'[r] = req[r],
           UNCHANGED student, account # "none" => account' # "none",
           Live' \subseteq Live,
           \A s \in Live' : Excused(s) => Excused(s)',
           \A d \in Device : device'[d] = "none" => device[d] = "none",
           Cardinality(Open) \in Nat, Cardinality(Open') \in Nat, unblocks' \in Nat,
           Cardinality(Open') + unblocks <= Cardinality(Open) + unblocks'
    PROVE  Holds(r)'
<1>1. FromBrowser(r)'
  BY DEF Holds, FromBrowser
<1>2. Decided(r)'
  <2>1. SUFFICES ASSUME At(r, "commit"), student
                 PROVE  /\ Live' \subseteq req[r].hit
                        /\ device'[req[r].dev] = "none" =>
                              Cardinality(Open') < MaxDevices + unblocks'
    BY DEF Decided, At
  <2>2. /\ Live \subseteq req[r].hit
        /\ device[req[r].dev] = "none" => Cardinality(Open) < MaxDevices + unblocks
    BY <2>1 DEF Holds, Decided
  <2>3. req[r].dev \in Device
    BY <2>1 DEF Holds, FromBrowser, At
  <2>4. unblocks \in Nat /\ MaxDevices \in Nat
    BY AccountsAssumption DEF TypeOK
  <2>5. QED
    BY <2>2, <2>3, <2>4
<1>3. Covers(r)'
  BY DEF Holds, Covers, ChangingPassword, At
<1>4. QED
  BY <1>1, <1>2, <1>3 DEF Holds

\* How many devices are open is a number.
LEMMA OpenCounted == OpenFinite => Cardinality(Open) \in Nat
BY FS_CardinalityType DEF OpenFinite

\* What may happen to the password while the sessions stay.
HashMoves ==
    /\ password' \in Nat /\ versions' \in Nat /\ revived' \subseteq Nat
    /\ Accepted'
    /\ account = "none" \/ (versions' = versions /\ revived \subseteq revived')

LEMMA HashStays ==
    ASSUME IInv, UNCHANGED hash
    PROVE  HashMoves
BY DEF IInv, TypeOK, HashMoves, Accepted, hash

\* A login writes back the password it checked: the newest, or an older one.
LEMMA HashWritten ==
    ASSUME IInv, NEW r \in Request, WriteBack(r), UNCHANGED versions
    PROVE  HashMoves
<1>1. req[r].pw \in Nat
  BY Types DEF IInv, RequestState
<1>2. CASE req[r].rehash
  <2>1. versions \in Nat /\ revived \subseteq Nat
    BY DEF IInv, TypeOK
  <2>2. /\ password' = req[r].pw /\ versions' = versions
        /\ revived' = IF req[r].pw # versions THEN revived \cup {req[r].pw} ELSE revived
    BY <1>2 DEF WriteBack
  <2>3. revived' \subseteq Nat /\ revived \subseteq revived' /\ Accepted'
    BY ONLY <1>1, <2>1, <2>2 DEF Accepted
  <2>4. QED
    BY ONLY <1>1, <2>1, <2>2, <2>3 DEF HashMoves
<1>3. CASE ~req[r].rehash
  BY <1>3, HashStays DEF WriteBack, hash
<1>4. QED
  BY <1>2, <1>3

\* A step that leaves devices and sessions alone keeps the invariant, if the
\* requests may be in their new states.
LEMMA QuietStep ==
    ASSUME IInv, UNCHANGED <<student, device, session, unblocks>>,
           account' \in {"none", "active", "inactive"},
           account # "none" => account' # "none",
           HashMoves,
           mfa' \in BOOLEAN,
           req' \in [Request -> RequestState], KeyExcludes',
           \A q \in Request : req'[q] = req[q] \/ Holds(q)'
    PROVE  IInv'
<1> USE DEF IInv
<1>1. UNCHANGED <<Live, Open>>
  BY DEF Live, Open
<1>2. TypeOK'
  BY <1>1 DEF TypeOK, RequestState, HashMoves
<1>3. ASSUME NEW q \in Request PROVE Holds(q)'
  <2>1. CASE Holds(q)'
    BY <2>1
  <2>2. CASE req'[q] = req[q]
    <3>1. /\ Cardinality(Open) \in Nat /\ Cardinality(Open') \in Nat
          /\ unblocks \in Nat /\ unblocks' \in Nat
      BY <1>1, OpenCounted DEF TypeOK
    <3>2. Cardinality(Open') + unblocks <= Cardinality(Open) + unblocks'
      BY <1>1, <3>1
    <3>3. \A s \in Live' : Excused(s) => Excused(s)'
      BY DEF Excused
    <3>4. QED
      BY <1>1, <2>2, <3>1, <3>2, <3>3, OthersHold DEF RequestsHold
  <2>3. QED
    BY <2>1, <2>2
<1>4. RequestsHold'
  BY <1>3 DEF RequestsHold
<1>5. OneLive' /\ NoneBeforeAccount' /\ OpenFinite' /\ DevicesWithinLimit'
  BY <1>1 DEF OneLive, NoneBeforeAccount, OpenFinite, DevicesWithinLimit
<1>6. OldPasswordGone' /\ Accepted'
  BY <1>1 DEF OldPasswordGone, NoneBeforeAccount, HashMoves
<1>7. QED
  BY <1>2, <1>4, <1>5, <1>6

\* The same where only one request moves.
LEMMA RequestStep ==
    ASSUME IInv, NEW r \in Request, NEW x \in RequestState, Become(r, x),
           UNCHANGED <<user, device, session, unblocks>>,
           Holds(r)', x.pc = "commit" => KeyFree \/ At(r, "commit")
    PROVE  IInv'
<1> USE DEF IInv, user
<1>1. req' \in [Request -> RequestState] /\ req'[r] = x
      /\ \A q \in Request \ {r} : req'[q] = req[q]
  BY Types DEF Become
<1>2. KeyExcludes'
  BY <1>1 DEF KeyExcludes, KeyFree, At
<1>3. HashMoves
  BY HashStays DEF hash
<1>4. QED
  BY <1>1, <1>2, <1>3, QuietStep DEF TypeOK

\* The states a request comes to.
LEMMA States ==
    /\ Idle \in RequestState
    /\ \A d \in Device, n \in Nat :
          [Idle EXCEPT !.pc = "enter", !.dev = d, !.pw = n] \in RequestState
    /\ \A pc \in {"preauth", "enter"}, d \in Device, n \in Nat, b \in BOOLEAN :
          [Idle EXCEPT !.pc = pc, !.dev = d, !.pw = n, !.rehash = b] \in RequestState
    /\ \A op \in {"reset", "change", "mfa", "off", "on", "block", "unblock"},
          d \in Device \cup {NoDevice}, hit \in SUBSET Session :
          [Idle EXCEPT !.pc = "swept", !.op = op, !.dev = d, !.hit = hit] \in RequestState
BY DEF RequestState, Idle

LEMMA LiveTyped == Live \subseteq Session /\ Open \subseteq Device
BY DEF Live, Open

-----------------------------------------------------------------------------
(* Steps of logging in. *)

LEMMA LoginStep ==
    ASSUME IInv, NEW r \in Request, NEW d \in Device,
           OtpLogin(r, d) \/ \E rehash \in BOOLEAN : Login(r, d, rehash)
    PROVE  IInv'
<1>1. password \in Nat
  BY DEF IInv, TypeOK
<1>2. \E y \in RequestState : Become(r, y) /\ y.pc \in {"preauth", "enter"} /\ y.dev = d
  <2>1. CASE OtpLogin(r, d)
    <3> DEFINE y == [Idle EXCEPT !.pc = "enter", !.dev = d, !.pw = password]
    <3>1. Become(r, y)
      BY <2>1 DEF OtpLogin
    <3>2. y \in RequestState /\ y.pc = "enter" /\ y.dev = d
      BY <1>1, States DEF Idle
    <3>3. QED
      BY <3>1, <3>2
  <2>2. CASE \E rehash \in BOOLEAN : Login(r, d, rehash)
    <3> DEFINE Start(p, b) == [Idle EXCEPT !.pc = p, !.dev = d, !.pw = password, !.rehash = b]
    <3>1. PICK b \in BOOLEAN : Login(r, d, b)
      BY <2>2
    <3>2. PICK p \in {"preauth", "enter"} : Become(r, Start(p, b))
      <4>1. CASE mfa
        BY <3>1, <4>1 DEF Login
      <4>2. CASE ~mfa
        BY <3>1, <4>2 DEF Login
      <4>3. QED
        BY <4>1, <4>2
    <3>3. Start(p, b) \in RequestState /\ Start(p, b).pc = p /\ Start(p, b).dev = d
      BY <1>1, States DEF Idle
    <3>4. QED
      BY <3>2, <3>3
  <2>3. QED
    BY <2>1, <2>2
<1>3. UNCHANGED <<user, device, session, unblocks>> /\ account # "none"
  BY DEF Login, OtpLogin
<1>4. PICK y \in RequestState : Become(r, y) /\ y.pc \in {"preauth", "enter"} /\ y.dev = d
  BY <1>2
<1>5. req'[r] = y
  BY <1>4, Types DEF Become, IInv
<1>6. Holds(r)'
  BY <1>3, <1>4, <1>5 DEF Holds, FromBrowser, Decided, Covers, ChangingPassword, At, user
<1>7. QED
  BY <1>3, <1>4, <1>6, RequestStep

\* A commit that may write the hash back, and no session: a login with a second
\* factor to come, or one that is turned away.
LEMMA HashStep ==
    ASSUME IInv, NEW r \in Request, Preauthorize(r) \/ Refuse(r)
    PROVE  IInv'
<1> DEFINE cookie == [req[r] EXCEPT !.pc = "mfa", !.rehash = FALSE]
<1>1. /\ UNCHANGED <<student, account, versions, mfa, device, session, unblocks>>
      /\ WriteBack(r)
  BY DEF Preauthorize, Refuse
<1>2. req[r] \in RequestState /\ req[r].dev \in Device /\ account # "none"
  BY Types DEF IInv, RequestsHold, Holds, FromBrowser, Preauthorize, Refuse, At
<1>3. PICK x \in {cookie, Idle} : Become(r, x)
  BY DEF Preauthorize, Refuse, End
<1>4. x \in RequestState /\ x.pc \in {"mfa", "idle"} /\ (x.pc = "mfa" => x.dev \in Device)
  <2>1. cookie \in RequestState /\ cookie.pc = "mfa" /\ cookie.dev \in Device
    BY <1>2 DEF RequestState
  <2>2. Idle \in RequestState /\ Idle.pc = "idle"
    BY States DEF Idle
  <2>3. QED
    BY <1>3, <2>1, <2>2
<1>5. /\ req' \in [Request -> RequestState] /\ req'[r] = x
      /\ \A q \in Request \ {r} : req'[q] = req[q]
  BY <1>3, <1>4, Types DEF Become, IInv
<1>6. Holds(r)'
  BY <1>1, <1>2, <1>4, <1>5 DEF Holds, FromBrowser, Decided, Covers, ChangingPassword, At
<1>7. KeyExcludes'
  BY <1>4, <1>5 DEF IInv, KeyExcludes, At
<1>8. HashMoves
  BY <1>1, HashWritten
<1>9. QED
  BY <1>1, <1>5, <1>6, <1>7, <1>8, QuietStep DEF IInv, TypeOK

LEMMA MfaStep ==
    ASSUME IInv, NEW r \in Request, MfaVerify(r)
    PROVE  IInv'
<1> DEFINE x == [req[r] EXCEPT !.pc = "enter"]
<1>1. req[r] \in RequestState /\ req[r].dev \in Device /\ account # "none"
  BY Types DEF IInv, RequestsHold, Holds, FromBrowser, MfaVerify, At
<1>2. x \in RequestState /\ x.pc = "enter" /\ x.dev \in Device
  BY <1>1 DEF RequestState
<1>3. req'[r] = x /\ Become(r, x) /\ UNCHANGED <<user, device, session, unblocks>>
  BY Types DEF Become, IInv, MfaVerify
<1>4. Holds(r)'
  BY <1>1, <1>2, <1>3 DEF Holds, FromBrowser, Decided, Covers, ChangingPassword, At, user
<1>5. QED
  BY <1>2, <1>3, <1>4, RequestStep

\* establish_session reads under the key, and nobody else is between its read
\* and its commit.
LEMMA EnterStep ==
    ASSUME IInv, NEW r \in Request, Enter(r)
    PROVE  IInv'
<1> DEFINE x == [req[r] EXCEPT !.pc = "commit", !.hit = Replaced]
<1>1. req[r] \in RequestState /\ req[r].dev \in Device /\ account # "none"
  BY Types DEF IInv, RequestsHold, Holds, FromBrowser, Enter, At
<1>2. /\ x \in RequestState /\ x.pc = "commit" /\ x.dev = req[r].dev
      /\ x.hit = Replaced
  BY <1>1, LiveTyped DEF RequestState, Replaced
<1>3. req'[r] = x /\ Become(r, x) /\ KeyFree /\ Admitted(req[r].dev)
      /\ UNCHANGED <<user, device, session, unblocks>>
  BY Types DEF Become, IInv, Enter
<1>4. Live' = Live /\ Open' = Open
  BY <1>3 DEF Live, Open
<1>5. Decided(r)'
  <2>1. /\ unblocks \in Nat /\ MaxDevices \in Nat /\ Cardinality(Open) \in Nat
    BY OpenCounted, AccountsAssumption DEF IInv, TypeOK
  <2>2. SUFFICES ASSUME student
                 PROVE  /\ Live \subseteq Replaced
                        /\ device[req[r].dev] = "none" =>
                              Cardinality(Open) < MaxDevices + unblocks
    BY <1>2, <1>3, <1>4 DEF Decided, user
  <2>3. QED
    BY <1>3, <2>1, <2>2 DEF Replaced, Admitted
<1>6. FromBrowser(r)' /\ Covers(r)'
  BY <1>1, <1>2, <1>3 DEF FromBrowser, Covers, ChangingPassword, At, user
<1>7. QED
  BY <1>2, <1>3, <1>5, <1>6, RequestStep DEF Holds

LEMMA AbortStep ==
    ASSUME IInv, NEW r \in Request, Abort(r)
    PROVE  IInv'
<1>1. req'[r] = Idle /\ Become(r, Idle) /\ UNCHANGED <<user, device, session, unblocks>>
  BY Types DEF Become, IInv, Abort, End
<1>2. Holds(r)' /\ Idle.pc # "commit"
  BY <1>1 DEF Holds, FromBrowser, Decided, Covers, ChangingPassword, At, Idle
<1>3. QED
  BY <1>1, <1>2, States, RequestStep

LEMMA RegisterStep ==
    ASSUME IInv, NEW r \in Request, NEW d \in Device, Register(r, d)
    PROVE  IInv'
<1> DEFINE x == [Idle EXCEPT !.pc = "enter", !.dev = d, !.pw = 1]
<1>1. x \in RequestState /\ x.pc = "enter" /\ x.dev = d
  BY States DEF Idle
<1>2. /\ account = "none" /\ account' = "active" /\ password' = 1 /\ versions' = 1
      /\ Become(r, x) /\ UNCHANGED <<student, revived, mfa, device, session, unblocks>>
  BY DEF Register
<1>3. /\ req' \in [Request -> RequestState] /\ req'[r] = x
      /\ \A q \in Request \ {r} : req'[q] = req[q]
  BY <1>1, <1>2, Types DEF Become, IInv
<1>4. Holds(r)'
  BY <1>1, <1>2, <1>3 DEF Holds, FromBrowser, Decided, Covers, ChangingPassword, At
<1>5. KeyExcludes'
  BY <1>1, <1>3 DEF IInv, KeyExcludes, At
<1>6. HashMoves
  BY <1>2 DEF IInv, TypeOK, HashMoves, Accepted
<1>7. QED
  BY <1>2, <1>3, <1>4, <1>5, <1>6, QuietStep DEF IInv, TypeOK

LEMMA CreateUserStep == ASSUME IInv, CreateUser PROVE IInv'
<1>1. /\ account = "none" /\ account' = "active" /\ password' = 1 /\ versions' = 1
      /\ mfa' \in BOOLEAN
      /\ UNCHANGED <<student, revived, device, session, unblocks, req>>
  BY DEF CreateUser, IInv, TypeOK
<1>2. KeyExcludes' /\ req' \in [Request -> RequestState]
  BY <1>1, Types DEF IInv, KeyExcludes, At
<1>3. HashMoves
  BY <1>1 DEF IInv, TypeOK, HashMoves, Accepted
<1>4. QED
  BY <1>1, <1>2, <1>3, QuietStep

LEMMA EnableMfaStep == ASSUME IInv, NEW s \in Session, EnableMfa(s) PROVE IInv'
<1>1. /\ mfa' = TRUE
      /\ UNCHANGED <<student, account, hash, device, session, unblocks, req>>
  BY DEF EnableMfa
<1>2. KeyExcludes' /\ req' \in [Request -> RequestState]
  BY <1>1, Types DEF IInv, KeyExcludes, At
<1>3. HashMoves
  BY <1>1, HashStays
<1>4. QED
  BY <1>1, <1>2, <1>3, QuietStep DEF IInv, TypeOK

-----------------------------------------------------------------------------
(* Steps of what ends a session. *)

\* A revocation that begins, whose UPDATE covers whatever it must.
LEMMA SweepStep ==
    ASSUME IInv, NEW r \in Request, NEW d \in Device \cup {NoDevice},
           NEW op \in {"reset", "mfa", "off", "on", "block", "unblock"},
           NEW hit \in SUBSET Session, Sweep(r, op, d, hit),
           op = "reset" => hit = Live,
           UNCHANGED <<user, device, session, unblocks>>
    PROVE  IInv'
<1> DEFINE x == [Idle EXCEPT !.pc = "swept", !.op = op, !.dev = d, !.hit = hit]
<1>1. x \in RequestState /\ x.pc = "swept" /\ x.op = op /\ x.hit = hit
  BY States DEF Idle
<1>2. Become(r, x) /\ req'[r] = x
  BY Types DEF Sweep, Become, IInv
<1>3. Live' = Live
  BY DEF Live
<1>4. Holds(r)'
  BY <1>1, <1>2, <1>3 DEF Holds, FromBrowser, Decided, Covers, ChangingPassword, At
<1>5. QED
  BY <1>1, <1>2, <1>4, RequestStep

LEMMA RevocationStep ==
    ASSUME IInv, NEW r \in Request,
           \/ \E d \in Device : ToggleDevice(r, d)
           \/ ResetPassword(r) \/ ResetMfa(r) \/ Switch(r)
    PROVE  IInv'
<1>1. UNCHANGED <<user, device, session, unblocks>>
  BY DEF ToggleDevice, ResetPassword, ResetMfa, Switch
<1>2. PICK op \in {"reset", "mfa", "off", "on", "block", "unblock"},
           d \in Device \cup {NoDevice}, hit \in SUBSET Session :
          Sweep(r, op, d, hit) /\ (op = "reset" => hit = Live)
  <2>1. CASE \E d \in Device : ToggleDevice(r, d)
    <3>1. PICK d \in Device : ToggleDevice(r, d)
      BY <2>1
    <3>2. {s \in Live : session[s].dev = d} \in SUBSET Session
      BY LiveTyped
    <3>3. CASE device[d] = "open"
      BY <3>1, <3>2, <3>3 DEF ToggleDevice
    <3>4. CASE device[d] # "open"
      BY <3>1, <3>4 DEF ToggleDevice
    <3>5. QED
      BY <3>3, <3>4
  <2>2. CASE ResetPassword(r)
    BY <2>2, LiveTyped DEF ResetPassword
  <2>3. CASE ResetMfa(r)
    BY <2>3, LiveTyped DEF ResetMfa
  <2>4. CASE Switch(r)
    BY <2>4, LiveTyped DEF Switch
  <2>5. QED
    BY <2>1, <2>2, <2>3, <2>4
<1>3. QED
  BY <1>1, <1>2, SweepStep

\* A step after which the live sessions are some of those before, with the
\* excuses they had, and the devices are the same.
LEMMA FewerLive ==
    ASSUME IInv, UNCHANGED <<user, device, unblocks>>,
           session' \in [Session ->
               [is : {"none", "live", "revoked"}, dev : Device \cup {NoDevice},
                pw : Nat, kept : BOOLEAN, raced : BOOLEAN]],
           Live' \subseteq Live,
           \A s \in Live' : /\ session'[s].dev = session[s].dev
                            /\ session'[s].pw = session[s].pw
                            /\ Excused(s) => Excused(s)',
           req' \in [Request -> RequestState], KeyExcludes',
           \A q \in Request : req'[q] = req[q] \/ Holds(q)'
    PROVE  IInv'
<1> USE DEF IInv, user
<1>1. Open' = Open
  BY DEF Open
<1>2. TypeOK'
  BY DEF TypeOK, RequestState
<1>3. ASSUME NEW q \in Request, req'[q] = req[q] PROVE Holds(q)'
  <2>1. /\ Cardinality(Open) \in Nat /\ Cardinality(Open') \in Nat
        /\ unblocks \in Nat /\ unblocks' \in Nat
    BY <1>1, OpenCounted DEF TypeOK
  <2>2. Cardinality(Open') + unblocks <= Cardinality(Open) + unblocks'
    BY <1>1, <2>1
  <2>3. QED
    BY <1>3, <2>1, <2>2, OthersHold DEF RequestsHold
<1>4. RequestsHold'
  BY <1>3 DEF RequestsHold
<1>5. OneLive' /\ NoneBeforeAccount' /\ OpenFinite' /\ DevicesWithinLimit'
  BY <1>1 DEF OneLive, NoneBeforeAccount, OpenFinite, DevicesWithinLimit
<1>6. OldPasswordGone' /\ Accepted'
  BY DEF OldPasswordGone, Excused, Accepted
<1>7. QED
  BY <1>2, <1>4, <1>5, <1>6

\* Revoking sessions.
LEMMA RevokedRows ==
    ASSUME TypeOK, NEW hit \in SUBSET Session, session' = Revoked(hit)
    PROVE  /\ session' \in [Session ->
               [is : {"none", "live", "revoked"}, dev : Device \cup {NoDevice},
                pw : Nat, kept : BOOLEAN, raced : BOOLEAN]]
           /\ Live' = Live \ hit
           /\ \A s \in Live' : session'[s] = session[s]
<1>1. Gone.is = "revoked" /\ Gone \in
        [is : {"none", "live", "revoked"}, dev : Device \cup {NoDevice},
         pw : Nat, kept : BOOLEAN, raced : BOOLEAN]
  BY DEF Gone, NoRow
<1>2. \A s \in Session : session'[s] = IF s \in hit THEN Gone ELSE session[s]
  BY DEF Revoked
<1>3. session' \in [Session ->
               [is : {"none", "live", "revoked"}, dev : Device \cup {NoDevice},
                pw : Nat, kept : BOOLEAN, raced : BOOLEAN]]
  BY <1>1 DEF Revoked, TypeOK
<1>4. Live' = Live \ hit
  BY <1>1, <1>2 DEF Live
<1>5. QED
  BY <1>2, <1>3, <1>4, LiveTyped DEF Live

LEMMA RevokeStep == ASSUME IInv, NEW s \in Session, Revoke(s) PROVE IInv'
<1>1. session' = Revoked({s}) /\ UNCHANGED <<user, device, unblocks, req>>
  BY DEF Revoke
<1>2. /\ session' \in [Session ->
               [is : {"none", "live", "revoked"}, dev : Device \cup {NoDevice},
                pw : Nat, kept : BOOLEAN, raced : BOOLEAN]]
      /\ Live' \subseteq Live
      /\ \A t \in Live' : session'[t] = session[t]
  BY <1>1, RevokedRows DEF IInv
<1>3. KeyExcludes' /\ req' \in [Request -> RequestState]
  BY <1>1, Types DEF IInv, KeyExcludes, At
<1>4. QED
  BY <1>1, <1>2, <1>3, FewerLive DEF Excused

\* The session in which the password is changed is excused from now on.
LEMMA ChangePasswordStep ==
    ASSUME IInv, NEW r \in Request, NEW s \in Session, ChangePassword(r, s)
    PROVE  IInv'
<1> DEFINE hit == Live \ {s}
           x == [Idle EXCEPT !.pc = "swept", !.op = "change", !.dev = NoDevice, !.hit = hit]
<1>1. Become(r, x) /\ UNCHANGED <<user, device, unblocks>>
      /\ session' = [session EXCEPT ![s].kept = TRUE]
  BY DEF ChangePassword, Sweep
<1>2. x \in RequestState /\ x.pc = "swept" /\ x.op = "change" /\ x.hit = hit
  BY States, LiveTyped DEF Idle
<1>3. /\ req' \in [Request -> RequestState] /\ req'[r] = x
      /\ \A q \in Request \ {r} : req'[q] = req[q]
  BY <1>1, <1>2, Types DEF Become, IInv
<1>4. session' \in [Session ->
               [is : {"none", "live", "revoked"}, dev : Device \cup {NoDevice},
                pw : Nat, kept : BOOLEAN, raced : BOOLEAN]]
  <2>1. [session[s] EXCEPT !.kept = TRUE] \in
            [is : {"none", "live", "revoked"}, dev : Device \cup {NoDevice},
             pw : Nat, kept : BOOLEAN, raced : BOOLEAN]
    <3>1. session \in [Session ->
               [is : {"none", "live", "revoked"}, dev : Device \cup {NoDevice},
                pw : Nat, kept : BOOLEAN, raced : BOOLEAN]]
      BY DEF IInv, TypeOK
    <3>2. session[s] \in
            [is : {"none", "live", "revoked"}, dev : Device \cup {NoDevice},
             pw : Nat, kept : BOOLEAN, raced : BOOLEAN]
      BY ONLY <3>1, s \in Session
    <3>3. QED
      BY ONLY <3>2
  <2>2. QED
    BY <1>1, <2>1 DEF IInv, TypeOK
<1>5. /\ \A t \in Session \ {s} : session'[t] = session[t]
      /\ session'[s].kept /\ session'[s].is = session[s].is
      /\ session'[s].dev = session[s].dev /\ session'[s].pw = session[s].pw
      /\ session'[s].raced = session[s].raced
  BY <1>1 DEF IInv, TypeOK
<1>6. Live' = Live
  BY <1>5 DEF Live
<1>7. \A t \in Live' : /\ session'[t].dev = session[t].dev
                       /\ session'[t].pw = session[t].pw
                       /\ Excused(t) => Excused(t)'
  BY <1>5, LiveTyped, <1>6 DEF Excused
<1>8. Holds(r)'
  BY <1>2, <1>3, <1>5, <1>6
     DEF Holds, FromBrowser, Decided, Covers, ChangingPassword, At, Excused
<1>9. KeyExcludes'
  <2>1. ~At(r, "commit")' /\ \A q \in Request \ {r} : At(q, "commit")' => At(q, "commit")
    BY <1>2, <1>3 DEF At
  <2>2. QED
    BY <2>1 DEF IInv, KeyExcludes
<1>10. QED
  BY <1>1, <1>3, <1>4, <1>6, <1>7, <1>8, <1>9, FewerLive

\* One more device is open.
LEMMA OneMore ==
    ASSUME OpenFinite, NEW d \in Device, Open' \subseteq Open \cup {d}
    PROVE  /\ OpenFinite' /\ Cardinality(Open') \in Nat
           /\ Cardinality(Open') <= Cardinality(Open) + 1
<1>1. /\ IsFiniteSet(Open \cup {d})
      /\ Cardinality(Open \cup {d}) <= Cardinality(Open) + 1
      /\ Cardinality(Open) \in Nat /\ Cardinality(Open \cup {d}) \in Nat
  <2>1. IsFiniteSet(Open) /\ Cardinality(Open) \in Nat
    BY FS_CardinalityType DEF OpenFinite
  <2>2. /\ IsFiniteSet(Open \cup {d})
        /\ \/ Cardinality(Open \cup {d}) = Cardinality(Open)
           \/ Cardinality(Open \cup {d}) = Cardinality(Open) + 1
    BY <2>1, FS_AddElement
  <2>3. QED
    BY <2>1, <2>2
<1>2. /\ IsFiniteSet(Open') /\ Cardinality(Open') <= Cardinality(Open \cup {d})
  BY <1>1, FS_Subset
<1>3. Cardinality(Open') \in Nat
  BY <1>2, FS_CardinalityType
<1>4. QED
  BY <1>1, <1>2, <1>3 DEF OpenFinite

LEMMA NoMore ==
    ASSUME OpenFinite, Open' \subseteq Open
    PROVE  /\ OpenFinite' /\ Cardinality(Open') \in Nat
           /\ Cardinality(Open') <= Cardinality(Open)
BY FS_Subset, FS_CardinalityType DEF OpenFinite

\* A session is made: the student's others, which were seen under the key, go.
LEMMA EstablishStep ==
    ASSUME IInv, NEW r \in Request, NEW s \in Session, Establish(r, s)
    PROVE  IInv'
<1> DEFINE d == req[r].dev
           new == [is |-> "live", dev |-> d, pw |-> req[r].pw, kept |-> FALSE,
                   raced |-> \/ req[r].pw # password
                             \/ \E q \in Request : ChangingPassword(q)]
<1> USE DEF IInv
<1>1. /\ At(r, "commit") /\ AddDevice(d) /\ Become(r, Idle)
      /\ session' = [Revoked(req[r].hit) EXCEPT ![s] = new]
      /\ UNCHANGED <<student, account, versions, mfa, unblocks>>
      /\ session[s] = NoRow /\ WriteBack(r)
  BY DEF Establish, End
<1>2. /\ req[r] \in RequestState /\ req[r].pw \in Nat /\ req[r].hit \in SUBSET Session
      /\ Holds(r)
  BY Types DEF RequestsHold, RequestState
<1>3. d \in Device /\ account # "none"
  BY <1>1, <1>2 DEF Holds, FromBrowser, At
<1>4. /\ req' \in [Request -> RequestState] /\ req'[r] = Idle
      /\ \A q \in Request \ {r} : req'[q] = req[q]
  BY <1>1, States, Types DEF Become
<1>5. new \in [is : {"none", "live", "revoked"}, dev : Device \cup {NoDevice},
               pw : Nat, kept : BOOLEAN, raced : BOOLEAN]
  BY <1>2, <1>3 DEF ChangingPassword
<1>6. Gone.is = "revoked" /\ Gone \in
        [is : {"none", "live", "revoked"}, dev : Device \cup {NoDevice},
         pw : Nat, kept : BOOLEAN, raced : BOOLEAN]
  BY DEF Gone, NoRow
<1>7. /\ session'[s] = new
      /\ \A t \in Session \ {s} :
            session'[t] = IF t \in req[r].hit THEN Gone ELSE session[t]
  BY <1>1 DEF Revoked
<1>8. session' \in [Session ->
        [is : {"none", "live", "revoked"}, dev : Device \cup {NoDevice},
         pw : Nat, kept : BOOLEAN, raced : BOOLEAN]]
  BY <1>1, <1>5, <1>6 DEF Revoked, TypeOK
<1>9. /\ Live' = (Live \ req[r].hit) \cup {s}
      /\ \A t \in Live' \ {s} : t \in Live /\ session'[t] = session[t]
  BY <1>6, <1>7 DEF Live
<1>10. /\ device' \in [Device -> {"none", "open", "blocked"}]
       /\ device'[d] # "none"
       /\ \A e \in Device : device'[e] = "none" => device[e] = "none"
       /\ Open' = IF device[d] = "none" THEN Open \cup {d} ELSE Open
  BY <1>1, <1>3 DEF AddDevice, TypeOK, Open
<1>11. TypeOK' /\ HashMoves
  <2>1. \A t \in Live' : session'[t].dev \in Device /\ device'[session'[t].dev] # "none"
    BY <1>3, <1>7, <1>9, <1>10 DEF TypeOK
  <2>2. HashMoves
    BY <1>1, HashWritten
  <2>3. QED
    BY <1>1, <1>4, <1>8, <1>10, <2>1, <2>2 DEF TypeOK, RequestState, HashMoves
<1>12. KeyExcludes'
  BY <1>4 DEF KeyExcludes, At, Idle
<1>13. OpenFinite' /\ Cardinality(Open') \in Nat
  BY <1>3, <1>10, OneMore, NoMore
<1>14. DevicesWithinLimit'
  <2>1. SUFFICES ASSUME student PROVE Cardinality(Open') <= MaxDevices + unblocks
    BY <1>1 DEF DevicesWithinLimit
  <2>2. device[d] = "none" => Cardinality(Open) < MaxDevices + unblocks
    BY <1>1, <1>2, <2>1 DEF Holds, Decided
  <2>3. /\ MaxDevices \in Nat /\ unblocks \in Nat /\ Cardinality(Open) \in Nat
        /\ Cardinality(Open) <= MaxDevices + unblocks
    BY <2>1, AccountsAssumption, OpenCounted DEF TypeOK, DevicesWithinLimit
  <2>4. Cardinality(Open') <= IF device[d] = "none" THEN Cardinality(Open) + 1
                              ELSE Cardinality(Open)
    BY <1>3, <1>10, <2>3, OneMore, NoMore
  <2>5. QED
    BY <2>2, <2>3, <2>4, <1>13
<1>15. OneLive'
  BY <1>1, <1>2, <1>9 DEF OneLive, Holds, Decided
<1>16. NoneBeforeAccount'
  BY <1>1, <1>3 DEF NoneBeforeAccount
<1>17. OldPasswordGone'
  <2>1. \A t \in Live' \ {s} : t \in Live /\ session'[t] = session[t]
    BY <1>9
  <2>2. versions' = versions /\ revived \subseteq revived'
    BY <1>3, <1>11 DEF HashMoves
  <2>3. session'[s].pw # versions => session'[s].raced \/ session'[s].pw \in revived
    BY <1>7 DEF Accepted
  <2>4. QED
    BY <2>1, <2>2, <2>3 DEF OldPasswordGone
<1>18. Holds(r)'
  BY <1>4 DEF Holds, FromBrowser, Decided, Covers, ChangingPassword, At, Idle
<1>19. ASSUME NEW q \in Request \ {r} PROVE Holds(q)'
  <2>1. FromBrowser(q)'
    BY <1>1, <1>4 DEF RequestsHold, Holds, FromBrowser
  <2>2. Decided(q)'
    BY <1>1, <1>4 DEF KeyExcludes, Decided, At
  <2>3. Covers(q)'
    <3>1. SUFFICES ASSUME ChangingPassword(q), NEW t \in Live'
                   PROVE  t \in req[q].hit \/ Excused(t)'
      BY <1>4 DEF Covers, ChangingPassword, At
    <3>2. CASE t = s
      BY <1>7, <3>1, <3>2 DEF Excused
    <3>3. CASE t # s
      BY <1>9, <3>1, <3>3 DEF RequestsHold, Holds, Covers, Excused
    <3>4. QED
      BY <3>2, <3>3
  <2>4. QED
    BY <2>1, <2>2, <2>3 DEF Holds
<1>20. Accepted'
  BY <1>11 DEF HashMoves
<1>21. QED
  BY <1>11, <1>12, <1>13, <1>14, <1>15, <1>16, <1>17, <1>18, <1>19, <1>20 DEF RequestsHold

\* The commit of a revocation, with what came with it.
LEMMA CommitSweepStep ==
    ASSUME IInv, NEW r \in Request, CommitSweep(r)
    PROVE  IInv'
<1> DEFINE op == req[r].op
           d  == req[r].dev
<1> USE DEF IInv
<1>1. /\ At(r, "swept") /\ session' = Revoked(req[r].hit) /\ Become(r, Idle)
      /\ IF op \in {"reset", "change"}
         THEN versions' = versions + 1 /\ password' = versions + 1 /\ revived' = {}
         ELSE UNCHANGED hash
      /\ mfa' = (mfa /\ op # "mfa") /\ UNCHANGED student
      /\ account' = CASE op = "off" -> "inactive" [] op = "on" -> "active"
                      [] OTHER -> account
      /\ device' = CASE op = "block"   -> [device EXCEPT ![d] = "blocked"]
                     [] op = "unblock" -> [device EXCEPT ![d] = "open"]
                     [] OTHER -> device
      /\ unblocks' = IF op = "unblock" THEN unblocks + 1 ELSE unblocks
  BY DEF CommitSweep, End
<1>2. /\ req[r].hit \in SUBSET Session /\ Holds(r)
  BY Types DEF RequestsHold, RequestState
<1>3. /\ req' \in [Request -> RequestState] /\ req'[r] = Idle
      /\ \A q \in Request \ {r} : req'[q] = req[q]
  BY <1>1, States, Types DEF Become
<1>4. /\ session' \in [Session ->
               [is : {"none", "live", "revoked"}, dev : Device \cup {NoDevice},
                pw : Nat, kept : BOOLEAN, raced : BOOLEAN]]
      /\ Live' = Live \ req[r].hit
      /\ \A t \in Live' : session'[t] = session[t]
  BY <1>1, <1>2, RevokedRows
<1>5. /\ device' \in [Device -> {"none", "open", "blocked"}]
      /\ \A e \in Device : device'[e] = "none" => device[e] = "none"
      /\ unblocks \in Nat /\ unblocks' \in Nat
      /\ \/ Open' \subseteq Open /\ unblocks <= unblocks'
         \/ d \in Device /\ Open' \subseteq Open \cup {d} /\ unblocks' = unblocks + 1
  <2>1. unblocks \in Nat /\ device \in [Device -> {"none", "open", "blocked"}]
    BY DEF TypeOK
  <2>2. CASE op = "block"
    <3>1. device' = [device EXCEPT ![d] = "blocked"]
      BY <1>1, <2>2
    <3>2. /\ device' \in [Device -> {"none", "open", "blocked"}]
          /\ \A e \in Device : device'[e] = IF e = d THEN "blocked" ELSE device[e]
      BY <2>1, <3>1
    <3>3. unblocks' = unblocks
      BY <1>1, <2>2
    <3>4. QED
      BY <2>1, <3>2, <3>3 DEF Open
  <2>3. CASE op = "unblock"
    <3>1. device' = [device EXCEPT ![d] = "open"]
      BY <1>1, <2>3
    <3>2. /\ device' \in [Device -> {"none", "open", "blocked"}]
          /\ \A e \in Device : device'[e] = IF e = d THEN "open" ELSE device[e]
      BY <2>1, <3>1
    <3>3. unblocks' = unblocks + 1
      BY <1>1, <2>3
    <3>4. QED
      BY <2>1, <3>2, <3>3 DEF Open
  <2>4. CASE op \notin {"block", "unblock"}
    BY <1>1, <2>1, <2>4 DEF Open
  <2>5. QED
    BY <2>2, <2>3, <2>4
<1>6. account' \in {"none", "active", "inactive"} /\ (account # "none" => account' # "none")
  <2>1. CASE op = "off"
    BY <1>1, <2>1
  <2>2. CASE op = "on"
    BY <1>1, <2>2
  <2>3. CASE op \notin {"off", "on"}
    BY <1>1, <2>3 DEF TypeOK
  <2>4. QED
    BY <2>1, <2>2, <2>3
<1>7. TypeOK'
  <2>1. \A t \in Live' : session'[t].dev \in Device /\ device'[session'[t].dev] # "none"
    BY <1>4, <1>5 DEF TypeOK
  <2>2. /\ password' \in Nat /\ versions' \in Nat /\ revived' \subseteq Nat
        /\ mfa' \in BOOLEAN
    BY <1>1 DEF TypeOK, hash
  <2>3. QED
    BY <1>1, <1>3, <1>4, <1>5, <1>6, <2>1, <2>2 DEF TypeOK, RequestState
<1>8. KeyExcludes'
  BY <1>3 DEF KeyExcludes, At, Idle
<1>9. /\ OpenFinite' /\ Cardinality(Open) \in Nat /\ Cardinality(Open') \in Nat
      /\ Cardinality(Open') + unblocks <= Cardinality(Open) + unblocks'
  <2>1. Cardinality(Open) \in Nat
    BY OpenCounted
  <2>2. CASE Open' \subseteq Open /\ unblocks <= unblocks'
    BY <1>5, <2>1, <2>2, NoMore
  <2>3. CASE d \in Device /\ Open' \subseteq Open \cup {d} /\ unblocks' = unblocks + 1
    BY <1>5, <2>1, <2>3, OneMore
  <2>4. QED
    BY <1>5, <2>2, <2>3, <2>1
<1>10. DevicesWithinLimit'
  BY <1>1, <1>5, <1>9, AccountsAssumption DEF DevicesWithinLimit
<1>11. OneLive' /\ NoneBeforeAccount'
  BY <1>1, <1>4, <1>6 DEF OneLive, NoneBeforeAccount
<1>12. OldPasswordGone'
  <2>1. SUFFICES ASSUME NEW t \in Live', session'[t].pw # versions'
                 PROVE  Excused(t)' \/ session'[t].pw \in revived'
    BY DEF OldPasswordGone, Excused
  <2>2. t \in Live /\ t \notin req[r].hit /\ session'[t] = session[t]
    BY <1>4
  <2>3. CASE op \in {"reset", "change"}
    BY <1>1, <1>2, <2>2, <2>3 DEF Holds, Covers, ChangingPassword, Excused
  <2>4. CASE op \notin {"reset", "change"}
    BY <1>1, <2>1, <2>2, <2>4 DEF OldPasswordGone, Excused, hash
  <2>5. QED
    BY <2>3, <2>4
<1>13. Holds(r)'
  BY <1>3 DEF Holds, FromBrowser, Decided, Covers, ChangingPassword, At, Idle
<1>14. ASSUME NEW q \in Request \ {r} PROVE Holds(q)'
  <2>1. Live' \subseteq Live /\ \A t \in Live' : Excused(t) => Excused(t)'
    BY <1>4 DEF Excused
  <2>2. QED
    BY <1>1, <1>3, <1>5, <1>6, <1>9, <2>1, OthersHold DEF RequestsHold
<1>15. Accepted'
  BY <1>1 DEF Accepted, hash
<1>16. QED
  BY <1>7, <1>8, <1>9, <1>10, <1>11, <1>12, <1>13, <1>14, <1>15 DEF RequestsHold

-----------------------------------------------------------------------------
(* The theorems about Accounts. *)

LEMMA StepInv == IInv /\ [Next]_vars => IInv'
<1> SUFFICES ASSUME IInv, [Next]_vars PROVE IInv'
  OBVIOUS
<1>1. CASE UNCHANGED vars
  <2>1. KeyExcludes' /\ req' \in [Request -> RequestState]
    BY <1>1, Types DEF vars, IInv, KeyExcludes, At
  <2>2. HashMoves
    BY <1>1, HashStays DEF vars, hash
  <2>3. QED
    BY <1>1, <2>1, <2>2, QuietStep DEF vars, IInv, TypeOK
<1>2. CASE CreateUser
  BY <1>2, CreateUserStep
<1>3. ASSUME NEW s \in Session, Lapse(s) \/ Logout(s) \/ RevokeSession(s) \/ EnableMfa(s)
      PROVE  IInv'
  BY <1>3, RevokeStep, EnableMfaStep DEF Lapse, Logout, RevokeSession
<1>4. ASSUME NEW r \in Request, NEW d \in Device,
             \/ Register(r, d) \/ OtpLogin(r, d) \/ ToggleDevice(r, d)
             \/ \E rehash \in BOOLEAN : Login(r, d, rehash)
      PROVE  IInv'
  BY <1>4, RegisterStep, LoginStep, RevocationStep
<1>5. ASSUME NEW r \in Request, NEW s \in Session, Establish(r, s) \/ ChangePassword(r, s)
      PROVE  IInv'
  BY <1>5, EstablishStep, ChangePasswordStep
<1>6. ASSUME NEW r \in Request,
             \/ Preauthorize(r) \/ MfaVerify(r) \/ Enter(r) \/ Refuse(r)
             \/ ResetPassword(r) \/ ResetMfa(r) \/ Switch(r)
             \/ CommitSweep(r) \/ Abort(r)
      PROVE  IInv'
  BY <1>6, HashStep, MfaStep, EnterStep, RevocationStep, CommitSweepStep, AbortStep
<1>7. QED
  BY <1>1, <1>2, <1>3, <1>4, <1>5, <1>6 DEF Next

LEMMA AccountsInv == Spec => []IInv
BY InitInv, StepInv, PTL DEF Spec

\* However logins and revocations overlap, a student has at most one session
\* that is not revoked: what establish_session read under the key still covers
\* every live session when it commits.
THEOREM OneLiveSessionHolds == Spec => []OneLiveSession
<1>1. IInv => OneLiveSession
  <2> SUFFICES ASSUME IInv, student PROVE Cardinality(Live) <= 1
    BY DEF OneLiveSession
  <2>1. CASE Live = {}
    BY <2>1, FS_EmptySet
  <2>2. CASE Live # {}
    <3>1. PICK s \in Live : Live = {s}
      BY <2>2 DEF IInv, OneLive
    <3>2. QED
      BY <3>1, FS_Singleton
  <2>3. QED
    BY <2>1, <2>2
<1>2. QED
  BY <1>1, AccountsInv, PTL

\* Concurrent logins from new browsers do not pass the device limit together,
\* whatever the staff block and unblock meanwhile.
THEOREM DevicesWithinLimitHolds == Spec => []DevicesWithinLimit
<1>1. IInv => DevicesWithinLimit
  BY DEF IInv
<1>2. QED
  BY <1>1, AccountsInv, PTL

\* A change of password ends every session begun under an older one, but for
\* the one it was made in and those whose login overlapped it.
THEOREM OldPasswordGoneHolds == Spec => []OldPasswordGone
<1>1. IInv => OldPasswordGone
  BY DEF IInv
<1>2. QED
  BY <1>1, AccountsInv, PTL

-----------------------------------------------------------------------------
(* Credentials: the inductive invariant. *)

Challenge == [used : BOOLEAN, tries : 0 .. MaxAttempts]

AttemptState ==
    [pc : {"idle", "right", "wrong", "insert", "send", "accept", "mistaken"},
     fails : 0 .. MaxFails - 1, lock : {"none", "over"},
     code : 0 .. MaxCode, tries : 0 .. MaxAttempts, hit : SUBSET C!Code]

\* A request about to insert a code spends every unused one, but for those made
\* since its UPDATE ran.
Superseding(r) ==
    C!At(r, "insert") => \A c \in C!Unused : c \in attempt[r].hit \/ c \in crossed

\* A request that judges a code has read one that may still be tried.
Judging(r) ==
    C!At(r, "accept") \/ C!At(r, "mistaken") =>
        attempt[r].code \in C!Made /\ attempt[r].tries < MaxAttempts

CodesInv ==
    /\ C!CredentialsTypeOK /\ OlderCodesSpent
    /\ \A r \in Request : Superseding(r) /\ Judging(r)

\* A function on 1 .. n is a sequence of that length.
LEMMA FunctionIsSeq ==
    ASSUME NEW S, NEW n \in Nat, NEW f \in [1 .. n -> S]
    PROVE  f \in Seq(S) /\ Len(f) = n
<1>1. f \in Seq(S)
  BY SeqDef
<1>2. Len(f) \in Nat /\ 1 .. Len(f) = 1 .. n
  BY <1>1, LenProperties
<1>3. QED
  BY <1>1, <1>2

LEMMA CodesMade ==
    ASSUME C!CredentialsTypeOK
    PROVE  /\ codes \in Seq(Challenge) /\ Len(codes) \in 0 .. MaxCode
           /\ C!Made = 1 .. Len(codes)
           /\ \A c \in C!Made : codes[c] \in Challenge
           /\ C!Made \subseteq C!Code
<1>1. codes \in Seq(Challenge) /\ Len(codes) <= MaxCode
  BY DEF C!CredentialsTypeOK, Challenge
<1>2. Len(codes) \in Nat /\ C!Made = 1 .. Len(codes) /\ codes \in [1 .. Len(codes) -> Challenge]
  BY <1>1, LenProperties DEF C!Made
<1>3. MaxCode \in Nat
  BY CredentialsAssumed DEF C!CredentialsAssumption
<1>4. QED
  BY <1>1, <1>2, <1>3 DEF C!Code

LEMMA CodesInit == C!Init => CodesInv
<1> SUFFICES ASSUME C!Init PROVE CodesInv
  OBVIOUS
<1> USE CredentialsAssumed DEF C!Init, C!CredentialsAssumption
<1>1. codes = <<>> /\ codes \in Seq(Challenge) /\ Len(codes) = 0 /\ C!Made = {}
  BY EmptySeq DEF C!Made
<1>2. C!CredentialsTypeOK
  BY <1>1 DEF C!CredentialsTypeOK, C!Idle, Challenge
<1>3. OlderCodesSpent
  BY <1>1 DEF OlderCodesSpent, C!OlderCodesSpent
<1>4. \A r \in Request : Superseding(r) /\ Judging(r)
  BY DEF Superseding, Judging, C!At, C!Idle
<1>5. QED
  BY <1>2, <1>3, <1>4 DEF CodesInv

\* A step that makes no code, and turns no spent one back, keeps the invariant
\* if the requests may be in their new states.
LEMMA NoNewCode ==
    ASSUME CodesInv,
           codes' \in [C!Made -> Challenge],
           \A c \in C!Made : codes[c].used => codes'[c].used,
           crossed' = crossed,
           fails' \in 0 .. MaxFails - 1, lock' \in {"none", "set", "over"},
           attempt' \in [Request -> AttemptState],
           \A q \in Request : attempt'[q] = attempt[q] \/ (Superseding(q) /\ Judging(q))'
    PROVE  CodesInv'
<1> USE DEF CodesInv
<1>1. /\ Len(codes) \in 0 .. MaxCode /\ C!Made = 1 .. Len(codes)
      /\ codes \in Seq(Challenge)
  BY CodesMade
<1>2. codes' \in Seq(Challenge) /\ Len(codes') = Len(codes)
  BY <1>1, FunctionIsSeq
<1>3. C!Made' = C!Made
  BY DEF C!Made
<1>4. C!Unused' \subseteq C!Unused
  BY <1>3 DEF C!Unused, Challenge
<1>5. C!CredentialsTypeOK'
  BY <1>1, <1>2 DEF C!CredentialsTypeOK, Challenge, AttemptState, C!Code
<1>6. OlderCodesSpent'
  BY <1>3, <1>4 DEF OlderCodesSpent, C!OlderCodesSpent
<1>7. ASSUME NEW q \in Request PROVE (Superseding(q) /\ Judging(q))'
  BY <1>3, <1>4 DEF Superseding, Judging, C!At
<1>8. QED
  BY <1>5, <1>6, <1>7

\* The same where no code changes and one request moves.
LEMMA AttemptStep ==
    ASSUME CodesInv, NEW r \in Request, NEW x \in AttemptState, C!Become(r, x),
           UNCHANGED <<codes, crossed>>,
           fails' \in 0 .. MaxFails - 1, lock' \in {"none", "set", "over"},
           (Superseding(r) /\ Judging(r))'
    PROVE  CodesInv'
<1>1. codes' \in [C!Made -> Challenge]
  BY CodesMade, LenProperties DEF CodesInv
<1>2. attempt \in [Request -> AttemptState]
  BY DEF CodesInv, C!CredentialsTypeOK, AttemptState
<1>3. /\ attempt' \in [Request -> AttemptState]
      /\ \A q \in Request \ {r} : attempt'[q] = attempt[q]
  BY <1>2 DEF C!Become
<1>4. QED
  BY <1>1, <1>3, NoNewCode

LEMMA IdleAttempt ==
    /\ C!Idle \in AttemptState
    /\ \A r \in Request : CodesInv /\ C!Become(r, C!Idle) =>
          attempt'[r] = C!Idle /\ (Superseding(r) /\ Judging(r))'
<1>1. C!Idle \in AttemptState
  BY CredentialsAssumed DEF C!CredentialsAssumption, AttemptState, C!Idle
<1>2. ASSUME NEW r \in Request, CodesInv, C!Become(r, C!Idle)
      PROVE  attempt'[r] = C!Idle /\ (Superseding(r) /\ Judging(r))'
  <2>1. attempt'[r] = C!Idle
    BY <1>2 DEF CodesInv, C!CredentialsTypeOK, C!Become
  <2>2. QED
    BY <2>1 DEF Superseding, Judging, C!At, C!Idle
<1>3. QED
  BY <1>1, <1>2

-----------------------------------------------------------------------------
(* Credentials: the steps. *)

LEMMA TypedAttempt ==
    ASSUME CodesInv, NEW r \in Request
    PROVE  /\ fails \in 0 .. MaxFails - 1 /\ lock \in {"none", "set", "over"}
           /\ attempt[r] \in AttemptState /\ attempt \in [Request -> AttemptState]
           /\ MaxFails \in Nat \ {0, 1} /\ MaxCode \in Nat /\ MaxAttempts \in Nat \ {0}
BY CredentialsAssumed DEF C!CredentialsAssumption, CodesInv, C!CredentialsTypeOK, AttemptState

LEMMA PasswordStep ==
    ASSUME CodesInv, NEW r \in Request, NEW right \in BOOLEAN, C!Password(r, right)
    PROVE  CodesInv'
<1>1. PICK p \in {"right", "wrong"} :
        C!Become(r, [C!Idle EXCEPT !.pc = p, !.fails = fails, !.lock = lock])
  BY DEF C!Password
<1> DEFINE x == [C!Idle EXCEPT !.pc = p, !.fails = fails, !.lock = lock]
<1>2. x \in AttemptState /\ x.pc = p
  BY TypedAttempt, IdleAttempt DEF AttemptState, C!Idle, C!Password
<1>3. attempt'[r] = x
  BY <1>1, TypedAttempt DEF C!Become
<1>4. (Superseding(r) /\ Judging(r))'
  BY <1>2, <1>3 DEF Superseding, Judging, C!At
<1>5. QED
  BY <1>1, <1>2, <1>4, TypedAttempt, AttemptStep DEF C!Password

LEMMA EndedStep ==
    ASSUME CodesInv, NEW r \in Request, C!Wrong(r) \/ C!Right(r) \/ C!Abort(r)
    PROVE  CodesInv'
<1>1. C!Become(r, C!Idle) /\ UNCHANGED <<codes, crossed>>
  BY DEF C!Wrong, C!Right, C!Abort
<1>2. fails' \in 0 .. MaxFails - 1 /\ lock' \in {"none", "set", "over"}
  <2>1. CASE C!Wrong(r)
    <3>1. attempt[r].fails \in 0 .. MaxFails - 1
      BY TypedAttempt DEF AttemptState
    <3>2. QED
      BY <2>1, <3>1, TypedAttempt DEF C!Wrong
  <2>2. CASE C!Right(r)
    BY <2>2, TypedAttempt DEF C!Right
  <2>3. CASE C!Abort(r)
    BY <2>3, TypedAttempt DEF C!Abort
  <2>4. QED
    BY <2>1, <2>2, <2>3
<1>3. QED
  BY <1>1, <1>2, IdleAttempt, AttemptStep

LEMMA SupersedeStep ==
    ASSUME CodesInv, NEW r \in Request, C!Supersede(r)
    PROVE  CodesInv'
<1> DEFINE x == [C!Idle EXCEPT !.pc = "insert", !.hit = C!Unused]
<1>1. C!Become(r, x) /\ UNCHANGED <<fails, lock, codes, crossed>>
  BY DEF C!Supersede
<1>2. x \in AttemptState /\ x.pc = "insert" /\ x.hit = C!Unused
  BY IdleAttempt, CodesMade DEF AttemptState, C!Idle, C!Unused, CodesInv
<1>3. attempt'[r] = x
  BY <1>1, TypedAttempt DEF C!Become
<1>4. (Superseding(r) /\ Judging(r))'
  BY <1>1, <1>2, <1>3 DEF Superseding, Judging, C!At, C!Unused, C!Made
<1>5. QED
  BY <1>1, <1>2, <1>4, TypedAttempt, AttemptStep

\* Some numbers, all of them up to n, have a largest one.
LEMMA LargestOfSome ==
    ASSUME NEW n \in Nat, NEW S \in SUBSET (1 .. n), S # {}
    PROVE  \E x \in S : \A y \in S : y <= x
<1> DEFINE R == {ss \in Nat \X Nat : ss[1] < ss[2]}
           T == {n - x : x \in S}
<1>0. IsWellFoundedOn(R, Nat)
  BY NatLessThanWellFounded DEF OpToRel
<1>1. T \subseteq Nat /\ T # {}
  <2>1. \A x \in S : n - x \in Nat
    OBVIOUS
  <2>2. PICK x \in S : TRUE
    OBVIOUS
  <2>3. QED
    BY <2>1, <2>2
<1> HIDE DEF R
<1>2. PICK t \in T : \A u \in T : ~(<<u, t>> \in R)
  BY <1>0, <1>1, WFMin
<1>3. PICK x \in S : t = n - x
  BY <1>2
<1>4. ASSUME NEW y \in S PROVE y <= x
  <2>1. n - y \in T /\ <<n - y, t>> \notin R
    BY <1>2
  <2>2. n - y \in Nat /\ t \in Nat
    BY <1>1, <2>1
  <2>3. ~(n - y < t)
    BY <2>1, <2>2 DEF R
  <2>4. QED
    BY <1>3, <2>3
<1>5. QED
  BY <1>4

LEMMA SpentCodes ==
    ASSUME C!CredentialsTypeOK, NEW hit
    PROVE  /\ codes \in [C!Made -> Challenge]
           /\ C!Spent(hit) \in [C!Made -> Challenge]
           /\ \A c \in C!Made : C!Spent(hit)[c].used = (codes[c].used \/ c \in hit)
<1>1. codes \in [C!Made -> Challenge]
  BY CodesMade, LenProperties
<1>2. \A c \in C!Made : /\ C!Spent(hit)[c] \in Challenge
                        /\ C!Spent(hit)[c].used = (codes[c].used \/ c \in hit)
  BY <1>1 DEF C!Spent, Challenge
<1>3. QED
  BY <1>1, <1>2 DEF C!Spent

\* Of the unused codes there is a newest one.
LEMMA ReadCodeStep ==
    ASSUME CodesInv, NEW r \in Request, NEW right \in BOOLEAN, C!ReadCode(r, right)
    PROVE  CodesInv'
<1> DEFINE c == CHOOSE n \in C!Unused : \A m \in C!Unused : m <= n
<1>1. PICK p \in {"accept", "mistaken"} :
        C!Become(r, [C!Idle EXCEPT !.pc = p, !.code = c, !.tries = codes[c].tries])
  BY DEF C!ReadCode
<1> DEFINE x == [C!Idle EXCEPT !.pc = p, !.code = c, !.tries = codes[c].tries]
<1>2. /\ C!Unused # {} /\ codes[c].tries < MaxAttempts
      /\ UNCHANGED <<fails, lock, codes, crossed>>
  BY DEF C!ReadCode
<1>3. c \in C!Unused
  <2>1. C!Unused \subseteq 1 .. Len(codes) /\ Len(codes) \in Nat
    BY CodesMade DEF C!Unused, CodesInv
  <2>2. \E n \in C!Unused : \A m \in C!Unused : m <= n
    BY <1>2, <2>1, LargestOfSome
  <2>3. QED
    BY <2>2
<1>4. c \in C!Made /\ codes[c] \in Challenge /\ c \in 0 .. MaxCode
  BY <1>3, CodesMade DEF C!Unused, CodesInv, C!Code
<1>5. /\ x \in AttemptState /\ x.pc = p /\ x.code = c /\ x.tries = codes[c].tries
  BY <1>4, IdleAttempt DEF AttemptState, Challenge, C!Idle
<1>6. attempt'[r] = x
  BY <1>1, TypedAttempt DEF C!Become
<1>7. (Superseding(r) /\ Judging(r))'
  BY <1>2, <1>4, <1>5, <1>6 DEF Superseding, Judging, C!At, C!Made
<1>8. QED
  BY <1>1, <1>2, <1>5, <1>7, TypedAttempt, AttemptStep

LEMMA SendStep ==
    ASSUME CodesInv, NEW r \in Request, NEW ok \in BOOLEAN, C!Send(r, ok)
    PROVE  CodesInv'
<1>1. /\ codes' = codes \/ codes' = C!Spent({attempt[r].code})
      /\ C!Become(r, C!Idle) /\ UNCHANGED <<fails, lock, crossed>>
  BY DEF C!Send
<1>2. /\ codes \in [C!Made -> Challenge]
      /\ C!Spent({attempt[r].code}) \in [C!Made -> Challenge]
      /\ \A c \in C!Made : codes[c].used => C!Spent({attempt[r].code})[c].used
  BY SpentCodes DEF CodesInv
<1>3. attempt' \in [Request -> AttemptState]
      /\ \A q \in Request \ {r} : attempt'[q] = attempt[q]
  BY <1>1, TypedAttempt, IdleAttempt DEF C!Become
<1>4. QED
  BY <1>1, <1>2, <1>3, TypedAttempt, IdleAttempt, NoNewCode

LEMMA VerifyStep ==
    ASSUME CodesInv, NEW r \in Request, C!Verify(r)
    PROVE  CodesInv'
<1> DEFINE c == attempt[r].code
           spent == codes[c].used \/ C!At(r, "accept")
           new == [codes[c] EXCEPT !.tries = attempt[r].tries + 1, !.used = spent]
<1>1. /\ C!At(r, "accept") \/ C!At(r, "mistaken")
      /\ codes' = [codes EXCEPT ![c].tries = attempt[r].tries + 1,
                                ![c].used = @ \/ C!At(r, "accept")]
      /\ C!Become(r, C!Idle) /\ UNCHANGED <<fails, lock, crossed>>
  BY DEF C!Verify
<1>2. /\ c \in C!Made /\ attempt[r].tries < MaxAttempts
      /\ attempt[r].tries \in 0 .. MaxAttempts /\ MaxAttempts \in Nat
  BY <1>1, TypedAttempt DEF CodesInv, Judging, AttemptState
<1>3. codes \in [C!Made -> Challenge] /\ codes[c] \in Challenge
  BY <1>2, SpentCodes DEF CodesInv
<1>4. new \in Challenge /\ (codes[c].used => new.used)
  <2>1. attempt[r].tries + 1 \in 0 .. MaxAttempts
    BY <1>2
  <2>2. spent \in BOOLEAN /\ (codes[c].used => spent)
    OBVIOUS
  <2> HIDE DEF spent
  <2>3. QED
    BY <1>3, <2>1, <2>2 DEF Challenge
<1>5. codes' = [codes EXCEPT ![c] = new]
  BY <1>1, <1>2, <1>3
<1>6. codes' \in [C!Made -> Challenge]
      /\ \A d \in C!Made : codes[d].used => codes'[d].used
  BY <1>3, <1>4, <1>5
<1>7. attempt' \in [Request -> AttemptState]
      /\ \A q \in Request \ {r} : attempt'[q] = attempt[q]
  BY <1>1, TypedAttempt, IdleAttempt DEF C!Become
<1>8. QED
  BY <1>1, <1>6, <1>7, TypedAttempt, IdleAttempt, NoNewCode

\* A new code, and the end of those its request has seen unused: any other is
\* one made while this request was at it, and so is on record as crossed.
LEMMA InsertStep ==
    ASSUME CodesInv, NEW r \in Request, C!Insert(r)
    PROVE  CodesInv'
<1> DEFINE n    == Len(codes)
           old  == C!Spent(attempt[r].hit)
           new  == [used |-> FALSE, tries |-> 0]
           x    == [C!Idle EXCEPT !.pc = "send", !.code = n + 1]
<1> USE DEF CodesInv
<1>1. /\ C!At(r, "insert") /\ n < MaxCode /\ codes' = Append(old, new)
      /\ crossed' = IF \E q \in Request \ {r} : C!At(q, "insert")
                    THEN crossed \cup {n + 1} ELSE crossed
      /\ C!Become(r, x) /\ UNCHANGED <<fails, lock>>
  BY DEF C!Insert
<1>2. /\ n \in 0 .. MaxCode /\ C!Made = 1 .. n /\ MaxCode \in Nat
  BY CodesMade, TypedAttempt
<1>3. /\ old \in [1 .. n -> Challenge]
      /\ \A c \in 1 .. n : old[c].used = (codes[c].used \/ c \in attempt[r].hit)
  BY <1>2, SpentCodes
<1>4. old \in Seq(Challenge) /\ Len(old) = n
  BY <1>2, <1>3, FunctionIsSeq
<1>5. new \in Challenge
  BY TypedAttempt DEF Challenge
<1>6. /\ codes' \in Seq(Challenge) /\ Len(codes') = n + 1
      /\ \A c \in 1 .. n : codes'[c] = old[c]
      /\ codes'[n + 1] = new
  BY <1>1, <1>2, <1>4, <1>5, AppendProperties
<1>7. C!Made' = 1 .. n + 1
  BY <1>6, LenProperties DEF C!Made
<1>8. C!Unused' \subseteq C!Unused \cup {n + 1}
  <2>1. \A c \in 1 .. n + 1 : c # n + 1 => c \in 1 .. n
    BY <1>2
  <2>2. \A c \in 1 .. n : ~codes'[c].used => ~codes[c].used
    BY <1>3, <1>6
  <2>3. QED
    BY <1>2, <1>7, <2>1, <2>2 DEF C!Unused
<1>9. \A c \in C!Unused' : c = n + 1 \/ c \in crossed
  <2>1. SUFFICES ASSUME NEW c \in C!Unused', c # n + 1 PROVE c \in crossed
    OBVIOUS
  <2>2. c \in C!Unused /\ c \in 1 .. n
    BY <1>2, <1>8, <2>1 DEF C!Unused
  <2>3. c \notin attempt[r].hit
    BY <1>3, <1>6, <2>1, <2>2 DEF C!Unused
  <2>4. QED
    BY <1>1, <2>2, <2>3 DEF Superseding
<1>10. /\ x \in AttemptState /\ x.pc = "send"
  <2>1. n + 1 \in 0 .. MaxCode
    BY <1>1, <1>2
  <2>2. QED
    BY <2>1, IdleAttempt DEF AttemptState, C!Idle
<1>11. /\ attempt' \in [Request -> AttemptState] /\ attempt'[r] = x
       /\ \A q \in Request \ {r} : attempt'[q] = attempt[q]
  BY <1>1, <1>10, TypedAttempt DEF C!Become
<1>12. C!CredentialsTypeOK'
  <2>1. crossed' \subseteq C!Code /\ Len(codes') <= MaxCode
    BY <1>1, <1>2, <1>6 DEF C!CredentialsTypeOK, C!Code
  <2>2. QED
    BY <1>1, <1>6, <1>11, <2>1 DEF C!CredentialsTypeOK, Challenge, AttemptState, C!Code
<1>13. OlderCodesSpent'
  <2>1. SUFFICES ASSUME NEW c \in 1 .. n + 1, NEW d \in 1 .. n + 1, c < d, c \in C!Unused'
                 PROVE  c \in crossed'
    BY <1>7 DEF OlderCodesSpent, C!OlderCodesSpent
  <2>2. c # n + 1
    BY <1>2, <2>1
  <2>3. QED
    BY <1>1, <1>9, <2>1, <2>2
<1>14. ASSUME NEW q \in Request PROVE (Superseding(q) /\ Judging(q))'
  <2>1. CASE q = r
    BY <1>10, <1>11, <2>1 DEF Superseding, Judging, C!At
  <2>2. CASE q # r
    <3>1. Superseding(q)'
      BY <1>1, <1>9, <1>11, <2>2 DEF Superseding, C!At
    <3>2. Judging(q)'
      BY <1>2, <1>7, <1>11, <2>2 DEF Judging, C!At
    <3>3. QED
      BY <3>1, <3>2
  <2>3. QED
    BY <2>1, <2>2
<1>15. QED
  BY <1>12, <1>13, <1>14

LEMMA LockRunsOutStep == ASSUME CodesInv, C!LockRunsOut PROVE CodesInv'
<1>1. codes' \in [C!Made -> Challenge]
  BY SpentCodes DEF CodesInv, C!LockRunsOut
<1>2. attempt' \in [Request -> AttemptState] /\ attempt' = attempt
  BY DEF CodesInv, C!CredentialsTypeOK, AttemptState, C!LockRunsOut
<1>3. fails' \in 0 .. MaxFails - 1
  BY DEF CodesInv, C!CredentialsTypeOK, C!LockRunsOut
<1>4. QED
  BY <1>1, <1>2, <1>3, NoNewCode DEF C!LockRunsOut

LEMMA CodesStep == CodesInv /\ [C!Next]_(C!vars) => CodesInv'
<1> SUFFICES ASSUME CodesInv, [C!Next]_(C!vars) PROVE CodesInv'
  OBVIOUS
<1>1. CASE UNCHANGED C!vars
  <2>1. codes' \in [C!Made -> Challenge]
    BY <1>1, SpentCodes DEF CodesInv, C!vars
  <2>2. attempt' \in [Request -> AttemptState] /\ attempt' = attempt
    BY <1>1 DEF CodesInv, C!CredentialsTypeOK, AttemptState, C!vars
  <2>3. fails' \in 0 .. MaxFails - 1 /\ lock' \in {"none", "set", "over"}
    BY <1>1 DEF CodesInv, C!CredentialsTypeOK, C!vars
  <2>4. QED
    BY <1>1, <2>1, <2>2, <2>3, NoNewCode DEF C!vars
<1>2. CASE C!LockRunsOut
  BY <1>2, LockRunsOutStep
<1>3. ASSUME NEW r \in Request, NEW yes \in BOOLEAN,
             C!Password(r, yes) \/ C!Send(r, yes) \/ C!ReadCode(r, yes)
      PROVE  CodesInv'
  BY <1>3, PasswordStep, SendStep, ReadCodeStep
<1>4. ASSUME NEW r \in Request,
             \/ C!Wrong(r) \/ C!Right(r) \/ C!Abort(r)
             \/ C!Supersede(r) \/ C!Insert(r) \/ C!Verify(r)
      PROVE  CodesInv'
  BY <1>4, EndedStep, SupersedeStep, InsertStep, VerifyStep
<1>5. QED
  BY <1>1, <1>2, <1>3, <1>4 DEF C!Next

LEMMA CredentialsInv == C!Spec => []CodesInv
BY CodesInit, CodesStep, PTL DEF C!Spec

-----------------------------------------------------------------------------
(* The theorems about Credentials, and the types of both. *)

\* Once a newer code was made, an older one is spent, unless both were being
\* made at a time: however create_otp, failed deliveries and verifications
\* overlap, without any lock.
THEOREM OlderCodesSpentHolds == C!Spec => []OlderCodesSpent
<1>1. CodesInv => OlderCodesSpent
  BY DEF CodesInv
<1>2. QED
  BY <1>1, CredentialsInv, PTL

\* A standing lock of the account is taken away by time, or by a login that read
\* an earlier lock which was over, never by one that read no lock.
THEOREM LockStandsHolds == C!Spec => LockStands
<1> DEFINE Cleared == lock = "set" /\ lock' = "none"
           ByEarlier == \E r \in Request : attempt[r].lock = "over" /\ attempt'[r] # attempt[r]
<1>1. CodesInv /\ [C!Next]_(C!vars) => [Cleared => ByEarlier]_(C!vars)
  <2> SUFFICES ASSUME CodesInv, C!Next, lock = "set", lock' = "none" PROVE ByEarlier
    OBVIOUS
  <2>1. PICK r \in Request : C!Right(r)
    <3>1. ~C!LockRunsOut
      BY DEF C!LockRunsOut
    <3>2. ASSUME NEW r \in Request, NEW yes \in BOOLEAN,
                 C!Password(r, yes) \/ C!Send(r, yes) \/ C!ReadCode(r, yes)
          PROVE  FALSE
      BY <3>2 DEF C!Password, C!Send, C!ReadCode
    <3>3. ASSUME NEW r \in Request,
                 \/ C!Wrong(r) \/ C!Abort(r) \/ C!Supersede(r) \/ C!Insert(r) \/ C!Verify(r)
          PROVE  FALSE
      BY <3>3 DEF C!Wrong, C!Abort, C!Supersede, C!Insert, C!Verify
    <3>4. QED
      BY <3>1, <3>2, <3>3 DEF C!Next
  <2>2. attempt[r].lock \in {"none", "over"} /\ attempt[r].pc = "right"
    BY <2>1, TypedAttempt DEF AttemptState, C!Right, C!At
  <2>3. attempt[r].lock = "over"
    BY <2>1, <2>2 DEF C!Right
  <2>4. attempt'[r] = C!Idle
    BY <2>1, IdleAttempt DEF C!Right
  <2>5. attempt'[r] # attempt[r]
    BY <2>2, <2>4 DEF C!Idle
  <2>6. QED
    BY <2>3, <2>5
<1>2. QED
  BY <1>1, CredentialsInv, PTL DEF C!Spec, LockStands, C!LockStands

\* Side by side the two components still behave as each does on its own.
LEMMA SideBySide == MCSpec => Spec /\ C!Spec
<1>1. MCInit => Init /\ C!Init
  BY DEF MCInit
<1>2. [MCNext]_<<vars, credentials>> => [Next]_vars /\ [C!Next]_(C!vars)
  BY DEF MCNext, credentials, C!vars
<1>3. QED
  BY <1>1, <1>2, PTL DEF MCSpec, Spec, C!Spec

\* The types of both components, of every row and of every request; that a
\* counter of tries or failures stays within its limit rests on what a request
\* has read before.
THEOREM AccountsTypes == MCSpec => []AccountsTypeOK
<1>1. IInv /\ CodesInv => AccountsTypeOK
  BY DEF IInv, CodesInv, AccountsTypeOK
<1>2. QED
  BY <1>1, SideBySide, AccountsInv, CredentialsInv, PTL
=============================================================================
