------------------------------ MODULE MCLimiter ------------------------------
(***************************************************************************)
(* RateLimiter with the gateway's two policies: 2 requests in 3 ticks, and *)
(* 1 in 4 for transfers.                                                   *)
(***************************************************************************)
EXTENDS RateLimiter, TLC

MCRoutePolicies == [p \in {"/transfers"} |-> "transfers"]
MCRequests      == [n \in Policies |-> IF n = "default" THEN 2 ELSE 1]
MCWindow        == [n \in Policies |-> IF n = "default" THEN 3 ELSE 4]

Symmetry == Permutations(Slots)
=============================================================================
