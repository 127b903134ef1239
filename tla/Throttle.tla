------------------------------- MODULE Throttle -------------------------------
(***************************************************************************)
(* What a token bucket promises, with no buckets, no cleanup and no clock  *)
(* readings.  The requests admitted under a key run up a debt that is paid *)
(* off at a steady rate.  The limiter stays between two meters: it refuses *)
(* nobody whom a bucket refilled up to Late ticks ago would admit, and it  *)
(* admits nobody whom a bucket with a window shorter by Late would refuse. *)
(* With Late = 0 the two are one bucket, and every decision is its own.    *)
(***************************************************************************)
EXTENDS Integers, FiniteSetsExt

CONSTANTS
    Keys,   \* the keys that requests are counted under
    Burst,  \* the debt that may be run up under each key
    Cost,   \* what a request adds to it
    Rate,   \* what is paid off in a tick
    Late,   \* how late a reading of the clock may be
    None    \* no answer yet

VARIABLES
    debt,   \* under each key
    least,  \* under each key, with the shorter window
    answer  \* the decision just taken, None when it is on its way

tvars == <<debt, least, answer>>

Init ==
    /\ debt = [k \in Keys |-> 0]
    /\ least = [k \in Keys |-> 0]
    /\ answer = None

Admit(k) ==
    /\ least[k] + Cost[k] - Late <= Burst[k]
    /\ debt' = [debt EXCEPT ![k] = @ + Cost[k]]
    /\ least' = [least EXCEPT ![k] = @ + Cost[k] - Late]
    /\ answer' = [key |-> k, allowed |-> TRUE]

Refuse(k) ==
    /\ debt[k] + Cost[k] > Burst[k] - Late * Rate[k]
    /\ answer' = [key |-> k, allowed |-> FALSE]
    /\ UNCHANGED <<debt, least>>

\* A tick of the clock.
Tick ==
    /\ debt' = [k \in Keys |-> Max({0, debt[k] - Rate[k]})]
    /\ least' = [k \in Keys |-> Max({0, least[k] - Rate[k]})]
    /\ answer' = None

\* The answer is on its way.
Deliver ==
    /\ answer' = None
    /\ UNCHANGED <<debt, least>>

Next == Tick \/ Deliver \/ \E k \in Keys : Admit(k) \/ Refuse(k)

Spec == Init /\ [][Next]_tvars
=============================================================================
