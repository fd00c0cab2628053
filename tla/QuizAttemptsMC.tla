--------------------------- MODULE QuizAttemptsMC ---------------------------
(***************************************************************************)
(* TLC instances of QuizAttempts: interchangeable requests.                *)
(***************************************************************************)
EXTENDS QuizAttempts, TLC

RequestSymmetry == Permutations(Request)
=============================================================================
