---------------------------- MODULE EnrolmentMC ----------------------------
(***************************************************************************)
(* TLC instances of Enrolment: interchangeable students, requests and      *)
(* transactions (their IDs order nothing).                                 *)
(***************************************************************************)
EXTENDS Enrolment, TLC

Symmetry == Permutations(Student) \cup Permutations(Request) \cup Permutations(Tx)
=============================================================================
