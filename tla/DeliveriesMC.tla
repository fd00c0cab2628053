---------------------------- MODULE DeliveriesMC ----------------------------
(***************************************************************************)
(* TLC instances of Deliveries: interchangeable workers.                   *)
(***************************************************************************)
EXTENDS Deliveries

WorkerSymmetry == Permutations(Worker)
=============================================================================
