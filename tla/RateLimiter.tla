------------------------------ MODULE RateLimiter ------------------------------
(***************************************************************************)
(* The gateway's rate limiter (internal/middleware/rate_limit.go): a token *)
(* bucket per policy and client, in a map under a mutex.  A request reads  *)
(* the clock first and takes the mutex later, so that requests may be      *)
(* decided in another order than that of their readings; every decision    *)
(* may begin with a cleanup of the whole map.  Tokens are counted in parts *)
(* of which a request costs Window and a tick brings Requests.             *)
(***************************************************************************)
EXTENDS Integers, FiniteSets, FiniteSetsExt

CONSTANTS
    Slots,            \* requests in flight at a time
    Clients,          \* client IPs
    Paths,            \* paths of the API
    ExemptPaths,      \* paths that are not limited
    RoutePolicies,    \* paths with a policy of their own, and its name
    Policies,         \* names of policies, "default" among them
    Requests,         \* requests of each policy ...
    Window,           \* ... in its window, in ticks
    CleanupInterval,  \* ticks between two cleanups
    MaxLag,           \* bound: ticks from reading the clock to the mutex
    MaxTime,          \* bound of the clock
    None              \* no bucket, no time, no request

ASSUME LimiterAssumption ==
    /\ ExemptPaths \subseteq Paths
    /\ "default" \in Policies /\ IsFiniteSet(Policies)
    /\ \A p \in DOMAIN RoutePolicies : RoutePolicies[p] \in Policies
    /\ MaxLag \in Nat /\ MaxTime \in Nat
    /\ \A n \in Policies : Requests[n] \in Nat \ {0} /\ Window[n] \in Nat /\ Window[n] > MaxLag
    /\ CleanupInterval \in Nat \ {0}
    /\ None \notin Nat \cup [tokens : Nat, last : Nat]

VARIABLES
    now,          \* the clock
    buckets,      \* the map of buckets, None for no entry
    lastCleanup,  \* None is the zero time
    request,      \* each slot's request, from its reading of the clock to the mutex
    answer,       \* the decision just taken, None when it is on its way
    debt, least,  \* history: the meters of Throttle
    retryAt       \* history: when the last client refused may come back

limiter == <<buckets, lastCleanup>>
meters  == <<debt, least>>
lvars   == <<now, buckets, lastCleanup, request, answer, debt, least, retryAt>>

Keys == [policy : Policies, client : Clients]

\* In parts of a token: the cost of a request, a tick's refill, a full bucket.
Cost  == [k \in Keys |-> Window[k.policy]]
Rate  == [k \in Keys |-> Requests[k.policy]]
Burst == [k \in Keys |-> Requests[k.policy] * Window[k.policy]]

PolicyForPath(p) ==
    IF p \in DOMAIN RoutePolicies THEN RoutePolicies[p] ELSE "default"

LimiterInit ==
    /\ now = 0
    /\ buckets = [k \in Keys |-> None]
    /\ lastCleanup = None
    /\ request = [s \in Slots |-> None]
    /\ answer = None
    /\ debt = [k \in Keys |-> 0]
    /\ least = [k \in Keys |-> 0]
    /\ retryAt = [k \in Keys |-> None]

-----------------------------------------------------------------------------
\* The cleanup of the map, at the time t that the request has read.

CleanupDue(t) == lastCleanup = None \/ t - lastCleanup >= CleanupInterval

\* Mutant of MaxWindow: the shortest of the windows.
MinWindow == Min({Window[n] : n \in Policies})

MaxWindow == Max({Window[n] : n \in Policies})

Idle(b, t) == b # None /\ t - b.last >= MaxWindow

Cleaned(t) ==
    [k \in Keys |-> IF CleanupDue(t) /\ Idle(buckets[k], t) THEN None ELSE buckets[k]]

-----------------------------------------------------------------------------
\* The bucket of a request.

\* A new entry is full.
Entry(b, k, t) == IF b = None THEN [tokens |-> Burst[k], last |-> t] ELSE b

\* refillBucket: a reading that is not later than the last refill adds nothing.
Refill(b, k, t) ==
    IF t <= b.last THEN b
    ELSE [tokens |-> Min({Burst[k], b.tokens + (t - b.last) * Rate[k]}), last |-> t]

\* Mutant of RetryAfter: rounded down.
RetryAfterFloor(b, k) == (Cost[k] - b.tokens) \div Rate[k]

\* timeToNextToken, rounded up.
RetryAfter(b, k) == (Cost[k] - b.tokens + Rate[k] - 1) \div Rate[k]

-----------------------------------------------------------------------------
\* The requests.

\* A request comes in and reads the clock; on an exempt path it goes through.
Arrive(s) ==
    /\ request[s] = None
    /\ \E p \in Paths \ ExemptPaths, c \in Clients :
          request' = [request EXCEPT ![s] =
              [key |-> [policy |-> PolicyForPath(p), client |-> c], at |-> now]]
    /\ answer' = None
    /\ UNCHANGED <<now, limiter, meters, retryAt>>

\* Decide, from the mutex on.
Decide(s) ==
    LET k == request[s].key
        t == request[s].at
        b == Refill(Entry(Cleaned(t)[k], k, t), k, t)
    IN  /\ request[s] # None
        /\ request' = [request EXCEPT ![s] = None]
        /\ lastCleanup' = IF CleanupDue(t) THEN t ELSE lastCleanup
        /\ \/ /\ b.tokens >= Cost[k]
              /\ buckets' = [Cleaned(t) EXCEPT ![k] = [b EXCEPT !.tokens = @ - Cost[k]]]
              /\ answer' = [key |-> k, allowed |-> TRUE]
              /\ debt' = [debt EXCEPT ![k] = @ + Cost[k]]
              /\ least' = [least EXCEPT ![k] = @ + Cost[k] - MaxLag]
              /\ retryAt' = [retryAt EXCEPT ![k] = None]
           \/ /\ b.tokens < Cost[k]
              /\ buckets' = [Cleaned(t) EXCEPT ![k] = b]
              /\ answer' = [key |-> k, allowed |-> FALSE]
              /\ retryAt' = [retryAt EXCEPT ![k] =
                                Min({now + RetryAfter(b, k)} \cup ({@} \ {None}))]
              /\ UNCHANGED meters
        /\ UNCHANGED now

\* A request that has read the clock gets the mutex within MaxLag.
Tick ==
    /\ now < MaxTime
    /\ \A s \in Slots : request[s] # None => now - request[s].at < MaxLag
    /\ now' = now + 1
    /\ debt' = [k \in Keys |-> Max({0, debt[k] - Rate[k]})]
    /\ least' = [k \in Keys |-> Max({0, least[k] - Rate[k]})]
    /\ answer' = None
    /\ UNCHANGED <<limiter, request, retryAt>>

LimiterNext == Tick \/ \E s \in Slots : Arrive(s) \/ Decide(s)

LimiterSpec == LimiterInit /\ [][LimiterNext]_lvars

-----------------------------------------------------------------------------
\* Properties.

(***************************************************************************)
(* The map, its cleanup and the late readings implement the throttle: a    *)
(* bucket that is deleted and made anew, or refilled out of order, gives   *)
(* away no more than the ticks by which a reading may be late, and a       *)
(* client within its rate is not refused.                                  *)
(***************************************************************************)
Promise == INSTANCE Throttle WITH
    Keys <- Keys, Burst <- Burst, Cost <- Cost, Rate <- Rate, Late <- MaxLag,
    None <- None, debt <- debt, least <- least, answer <- answer
ImplementsThrottle == Promise!Spec

(***************************************************************************)
(* Who was refused and comes back when Retry-After said is not refused     *)
(* again, unless somebody else of the same key was admitted meanwhile.     *)
(***************************************************************************)
RetryAfterIsEnough ==
    [][\A s \in Slots :
          (request[s] # None /\ request'[s] = None /\ ~answer'.allowed) =>
              LET k == request[s].key
              IN  retryAt[k] # None => request[s].at < retryAt[k]]_lvars
=============================================================================
