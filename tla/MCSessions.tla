------------------------------ MODULE MCSessions ------------------------------
(***************************************************************************)
(* Sessions on small instances: the sessions of one user are followed,     *)
(* whichever client it belongs to and whenever it is created and deleted.  *)
(***************************************************************************)
EXTENDS Sessions, TLC

Symmetry == Permutations(Clients) \cup Permutations(Emails) \cup Permutations(Ids \ Followed)
=============================================================================
