-------------------------- MODULE FraudRepository --------------------------
(***************************************************************************)
(* fraud-service: internal/repository/fraud_repository.go, its handler and *)
(* its janitor.  A handler reads the clock and then takes the mutex; what  *)
(* it does under the mutex is one step.  The janitor's ticker puts a time  *)
(* in a channel of one slot, and that time is used when the janitor gets   *)
(* to it.  Nothing survives a restart of the process.                      *)
(***************************************************************************)
EXTENDS FraudData

CONSTANTS
    MaxTime,      \* bound: the clock stops here
    MaxLag,       \* ticks that may pass between reading the clock and using it
    MaxRestarts   \* bound: restarts of the process

ASSUME BoundAssumption == MaxTime \in Nat /\ MaxLag \in Nat /\ MaxRestarts \in Nat

VARIABLES
    clock, restarts,
    request, now, decision,   \* of each call; now is what the handler read
    life,      \* history: the life of the process in which the rules decided a
               \* call, None for a call not decided, or by a stored decision
    tick,      \* the time in the ticker's channel, None when it is empty
    used,      \* history: the time that a call or the janitor used last in this
               \* life of the process, 0 before the first
    daily,     \* dailyBySenderAndDate; a missing entry reads as 0
    velocity,  \* velocityBySender: the approvals, each under its call
    cooldown,  \* cooldownByPair; None for a missing entry
    cache      \* idempotency; None for a missing entry

maps  == <<daily, velocity, cooldown, cache>>
calls == <<request, now, decision, life>>
vars  == <<clock, restarts, request, now, decision, life, tick, used,
           daily, velocity, cooldown, cache>>

Pairs == Senders \X Receivers
Days  == 0 .. Day(MaxTime)

EmptyMaps ==
    /\ daily' = [s \in Senders |-> [d \in Days |-> 0]]
    /\ velocity' = [s \in Senders |-> {}]
    /\ cooldown' = [p \in Pairs |-> None]
    /\ cache' = [k \in Keys |-> None]

Init ==
    /\ clock = 0
    /\ restarts = 0
    /\ request = [c \in Calls |-> None]
    /\ now = [c \in Calls |-> 0]
    /\ decision = [c \in Calls |-> None]
    /\ life = [c \in Calls |-> None]
    /\ tick = None
    /\ used = 0
    /\ daily = [s \in Senders |-> [d \in Days |-> 0]]
    /\ velocity = [s \in Senders |-> {}]
    /\ cooldown = [p \in Pairs |-> None]
    /\ cache = [k \in Keys |-> None]

InFlight(c) == request[c] # None /\ decision[c] = None

-----------------------------------------------------------------------------
\* cleanupLocked(t): what it leaves of each map.

KeptDaily(t) ==
    [s \in Senders |-> [d \in Days |-> IF d = Day(t) THEN daily[s][d] ELSE 0]]

\* Mutant of KeepRecent: an entry at the start of the window is dropped.
KeepRecentStrict(entries, t) == {e \in entries : e.at > t - VelocityWindow}

\* keepRecent: an entry at the start of the window is kept.
KeepRecent(entries, t) == {e \in entries : e.at >= t - VelocityWindow}

KeptVelocity(t) == [s \in Senders |-> KeepRecent(velocity[s], t)]

\* Mutant of KeptCooldown: a pair is released one tick early.
KeptCooldownEarly(t) ==
    [p \in Pairs |-> IF cooldown[p] # None /\ t - cooldown[p] + 1 >= PairCooldown
                     THEN None ELSE cooldown[p]]

KeptCooldown(t) ==
    [p \in Pairs |-> IF cooldown[p] # None /\ t - cooldown[p] >= PairCooldown
                     THEN None ELSE cooldown[p]]

\* Mutant of Expired: an entry as old as the time to live is dropped.
ExpiredEarly(entry, t) == t >= entry.at + TTL

Expired(entry, t) == t > entry.at + TTL

KeptCache(t) ==
    [k \in Keys |-> IF cache[k] # None /\ Expired(cache[k], t)
                    THEN None ELSE cache[k]]

-----------------------------------------------------------------------------
\* EvaluateTransfer: s.clock() is read before the mutex is taken.
Arrive(c) ==
    /\ request[c] = None
    /\ \E r \in Requests : request' = [request EXCEPT ![c] = r]
    /\ now' = [now EXCEPT ![c] = clock]
    /\ UNCHANGED <<clock, restarts, decision, life, tick, used, maps>>

\* The key has a stored decision: it is repeated, for the same payload.
Repeat(c) ==
    LET t == now[c]
        r == request[c]
        entry == KeptCache(t)[r.key]
    IN  /\ InFlight(c)
        /\ entry # None
        /\ decision' = [decision EXCEPT ![c] =
               IF SamePayload(entry.request, r) THEN entry.decision
                                                ELSE "IDEMPOTENCY_REUSED_MISMATCH"]
        /\ daily' = KeptDaily(t)
        /\ velocity' = KeptVelocity(t)
        /\ cooldown' = KeptCooldown(t)
        /\ cache' = KeptCache(t)
        /\ used' = t
        /\ UNCHANGED <<clock, restarts, request, now, life, tick>>

\* The rules, on the maps that the cleanup leaves.
Verdict(r, t) ==
    LET last == KeptCooldown(t)[<<r.sender, r.receiver>>]
    IN  RuleFor(r, KeptDaily(t)[r.sender][Day(t)],
                Cardinality(KeptVelocity(t)[r.sender]),
                last # None /\ t - last < PairCooldown)

\* The rules decide; a denial is stored under the key as an approval is.
Judge(c) ==
    LET t == now[c]
        r == request[c]
        verdict == Verdict(r, t)
        approved == verdict = "OK"
    IN  /\ InFlight(c)
        /\ KeptCache(t)[r.key] = None
        /\ decision' = [decision EXCEPT ![c] = verdict]
        /\ life' = [life EXCEPT ![c] = restarts]
        /\ cache' = [KeptCache(t) EXCEPT
               ![r.key] = [request |-> r, decision |-> verdict, at |-> t]]
        /\ daily' = IF approved
                    THEN [KeptDaily(t) EXCEPT ![r.sender][Day(t)] = @ + r.amount]
                    ELSE KeptDaily(t)
        /\ velocity' = IF approved
                       THEN [KeptVelocity(t) EXCEPT ![r.sender] =
                                @ \cup {[call |-> c, at |-> t]}]
                       ELSE KeptVelocity(t)
        /\ cooldown' = IF approved
                       THEN [KeptCooldown(t) EXCEPT ![<<r.sender, r.receiver>>] = t]
                       ELSE KeptCooldown(t)
        /\ used' = t
        /\ UNCHANGED <<clock, restarts, request, now, tick>>

-----------------------------------------------------------------------------
\* The ticker drops a time that finds the channel full.
Tick ==
    /\ tick = None
    /\ tick' = clock
    /\ UNCHANGED <<clock, restarts, calls, used, maps>>

\* StartJanitor: cleanupLocked with the time that was in the channel.
Clean ==
    /\ tick # None
    /\ daily' = KeptDaily(tick)
    /\ velocity' = KeptVelocity(tick)
    /\ cooldown' = KeptCooldown(tick)
    /\ cache' = KeptCache(tick)
    /\ used' = tick
    /\ tick' = None
    /\ UNCHANGED <<clock, restarts, calls>>

\* Time passes; a time that was read is used within MaxLag ticks.
Pass ==
    /\ clock < MaxTime
    /\ \A c \in Calls : InFlight(c) => clock - now[c] < MaxLag
    /\ tick # None => clock - tick < MaxLag
    /\ clock' = clock + 1
    /\ UNCHANGED <<restarts, calls, tick, used, maps>>

\* The process is replaced: its maps are gone, its calls are cut off.
Restart ==
    /\ restarts < MaxRestarts
    /\ restarts' = restarts + 1
    /\ decision' = [c \in Calls |-> IF InFlight(c) THEN "unavailable" ELSE decision[c]]
    /\ tick' = None
    /\ used' = 0
    /\ EmptyMaps
    /\ UNCHANGED <<clock, request, now, life>>

Next ==
    \/ \E c \in Calls : Arrive(c) \/ Repeat(c) \/ Judge(c)
    \/ Tick \/ Clean \/ Pass \/ Restart

Spec == Init /\ [][Next]_vars

(***************************************************************************)
(* The limits are promised of behaviours in which no time is used after a  *)
(* later one: the mutex does not see to it, since a time is read before    *)
(* the mutex is taken, however long that then takes.  For the limit of a   *)
(* day it is enough that the days are in order.                            *)
(***************************************************************************)
InOrder     == restarts' = restarts => used <= used'
DaysInOrder == restarts' = restarts => Day(used) <= Day(used')

OrderedSpec     == Init /\ [][Next /\ InOrder]_vars
DaysOrderedSpec == Init /\ [][Next /\ DaysInOrder]_vars

-----------------------------------------------------------------------------
\* Properties.

\* The transfers the rules have approved for a sender in one life of the process.
Approved(s, l) ==
    {d \in Calls : life[d] = l /\ request[d].sender = s /\ decision[d] = "OK"}

Lives == 0 .. restarts

\* Those of them on day d, and their sum.
ApprovedOn(s, l, d) == {c \in Approved(s, l) : Day(now[c]) = d}
Total(s, l, d) == SumFunction([c \in ApprovedOn(s, l, d) |-> request[c].amount])

(***************************************************************************)
(* The daily limit: what a sender has approved on one calendar day never   *)
(* exceeds FRAUD_DAILY_LIMIT, whatever the cleanup has deleted meanwhile.  *)
(* A restart forgets the total: the limit is that of one life.             *)
(***************************************************************************)
DailyLimitHolds ==
    \A s \in Senders, l \in Lives, d \in Days : Total(s, l, d) <= DailyLimit

(***************************************************************************)
(* The velocity limit: no window, its two ends included, holds more than   *)
(* FRAUD_VELOCITY_MAX_COUNT approvals of one sender in one life.           *)
(***************************************************************************)
VelocityLimitHolds ==
    \A s \in Senders, l \in Lives : \A c \in Approved(s, l) :
        Cardinality({d \in Approved(s, l) :
            now[d] <= now[c] /\ now[d] >= now[c] - VelocityWindow}) <= VelocityMax

\* The cooldown: two approvals of a pair in one life are FRAUD_PAIR_COOLDOWN apart.
CooldownHolds ==
    \A s \in Senders, l \in Lives : \A c, d \in Approved(s, l) :
        (c # d /\ request[c].receiver = request[d].receiver) =>
            (now[c] - now[d] >= PairCooldown \/ now[d] - now[c] >= PairCooldown)

(***************************************************************************)
(* A key is judged once in its time to live: two calls of one key that are *)
(* both judged by the rules in one life are more than                      *)
(* FRAUD_IDEMPOTENCY_TTL apart, so that a retry is never counted twice,    *)
(* nor approved after a denial.                                            *)
(***************************************************************************)
KeyIsJudgedOnce ==
    \A c, d \in Calls :
        (c # d /\ life[c] # None /\ life[c] = life[d] /\ request[c].key = request[d].key) =>
            (now[c] - now[d] > TTL \/ now[d] - now[c] > TTL)

(***************************************************************************)
(* The maps and their cleanup implement the rules over the whole history   *)
(* of the life of the process.                                             *)
(***************************************************************************)
Rules == INSTANCE FraudRules WITH
    request <- request, now <- now, decision <- decision, life <- life,
    restarts <- restarts
ImplementsRules == Rules!Spec
=============================================================================
