------------------------------- MODULE MCSaga -------------------------------
(***************************************************************************)
(* TransferSaga on small instances.                                        *)
(***************************************************************************)
EXTENDS TransferSaga, TLC

MCSeedBalance == [u \in Users |-> 1]

Symmetry == Permutations(Clients) \cup Permutations(Keys) \cup Permutations(Ids)
            \cup Permutations(Users)
=============================================================================
