----------------------------- MODULE AccountsMC -----------------------------
(***************************************************************************)
(* TLC instances of Accounts and Credentials: interchangeable requests,    *)
(* browsers and sessions (their IDs order nothing).  The two are checked   *)
(* side by side: one moves while the other is at its start, so that their  *)
(* states add up instead of multiplying.                                   *)
(***************************************************************************)
EXTENDS Accounts, TLC

CONSTANTS
    MaxUnblocks,   \* bound: how often the staff unblock a device
    MaxFails, MaxCode, MaxAttempts

VARIABLES fails, lock, codes, crossed, attempt

credentials == <<fails, lock, codes, crossed, attempt>>

C == INSTANCE Credentials WITH req <- attempt

ASSUME CredentialsAssumed == C!CredentialsAssumption

Symmetry == Permutations(Request) \cup Permutations(Device) \cup Permutations(Session)

Bounded == unblocks <= MaxUnblocks

MCInit == Init /\ C!Init

MCNext ==
    \/ C!Init /\ Next /\ UNCHANGED credentials
    \/ Init /\ C!Next /\ UNCHANGED vars

MCSpec == MCInit /\ [][MCNext]_<<vars, credentials>>

\* The type invariants of both modules.
AccountsTypeOK == TypeOK /\ C!CredentialsTypeOK

\* LockStands and OlderCodesSpent of Credentials.
LockStands      == C!LockStands
OlderCodesSpent == C!OlderCodesSpent
=============================================================================
