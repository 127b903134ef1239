------------------------------- MODULE MCFraud -------------------------------
(***************************************************************************)
(* FraudRepository on small instances.                                     *)
(***************************************************************************)
EXTENDS FraudRepository, TLC

CallSymmetry == Permutations(Calls) \cup Permutations(Receivers) \cup Permutations(Keys)
=============================================================================
