--------------------------- MODULE MCRegistration ---------------------------
(***************************************************************************)
(* Registration on small instances.                                        *)
(***************************************************************************)
EXTENDS Registration, TLC

Symmetry == Permutations(Clients) \cup Permutations(Emails) \cup Permutations(Ids)
=============================================================================
