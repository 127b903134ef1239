----------------------------- MODULE FraudRules -----------------------------
(***************************************************************************)
(* The fraud rules as they are stated: each call is decided from the whole *)
(* history of the decisions before it in the same life of the process.  No *)
(* maps, no cleanup, no lock.                                              *)
(***************************************************************************)
EXTENDS FraudData

VARIABLES
    request,   \* the request of each call, None before it arrives
    now,       \* the time each call is judged at
    decision,  \* its decision, None until it is given
    life,      \* the life of the process in which the rules decided a call,
               \* None for a call not decided, or by a stored decision
    restarts   \* how often the process was replaced

rvars == <<request, now, decision, life, restarts>>

Init ==
    /\ request = [c \in Calls |-> None]
    /\ now = [c \in Calls |-> 0]
    /\ decision = [c \in Calls |-> None]
    /\ life = [c \in Calls |-> None]
    /\ restarts = 0

Judged == {d \in Calls : life[d] = restarts}

\* The transfers approved so far in this life, by sender.
Approved(s) == {d \in Judged : request[d].sender = s /\ decision[d] = "OK"}

\* What sender s has had approved on the day of time t.
UsedOn(s, t) ==
    SumFunction([d \in {d \in Approved(s) : Day(now[d]) = Day(t)} |-> request[d].amount])

Recent(s, t) == {d \in Approved(s) : now[d] >= t - VelocityWindow}

Cooling(r, t) ==
    \E d \in Approved(r.sender) :
        request[d].receiver = r.receiver /\ t - now[d] < PairCooldown

Verdict(r, t) ==
    RuleFor(r, UsedOn(r.sender, t), Cardinality(Recent(r.sender, t)), Cooling(r, t))

\* The decisions still remembered for key k at time t.
Remembered(k, t) == {d \in Judged : request[d].key = k /\ t <= now[d] + TTL}

\* A call arrives with some time, the one it will be judged at.
Arrive(c) ==
    /\ request[c] = None
    /\ \E r \in Requests : request' = [request EXCEPT ![c] = r]
    /\ now'[c] \in Nat
    /\ now' = [now EXCEPT ![c] = now'[c]]
    /\ UNCHANGED <<decision, life, restarts>>

Judge(c) ==
    /\ request[c] # None /\ decision[c] = None
    /\ Remembered(request[c].key, now[c]) = {}
    /\ decision' = [decision EXCEPT ![c] = Verdict(request[c], now[c])]
    /\ life' = [life EXCEPT ![c] = restarts]
    /\ UNCHANGED <<request, now, restarts>>

\* A key that was decided is answered as it was, for the same payload only.
Repeat(c) ==
    /\ request[c] # None /\ decision[c] = None
    /\ \E d \in Remembered(request[c].key, now[c]) :
          decision' = [decision EXCEPT ![c] =
              IF SamePayload(request[d], request[c]) THEN decision[d]
                                                     ELSE "IDEMPOTENCY_REUSED_MISMATCH"]
    /\ UNCHANGED <<request, now, life, restarts>>

\* Nothing survives a restart; the calls under way are cut off.
Restart ==
    /\ restarts' = restarts + 1
    /\ decision' = [c \in Calls |-> IF request[c] # None /\ decision[c] = None
                                    THEN "unavailable" ELSE decision[c]]
    /\ UNCHANGED <<request, now, life>>

Next == Restart \/ \E c \in Calls : Arrive(c) \/ Judge(c) \/ Repeat(c)

Spec == Init /\ [][Next]_rvars
=============================================================================
