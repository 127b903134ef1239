------------------------------ MODULE FraudData ------------------------------
(***************************************************************************)
(* The requests and decisions of the fraud service: the vocabulary that    *)
(* the rules (FraudRules) and the repository that keeps four maps and a    *)
(* janitor (FraudRepository) have in common.  Time counts ticks; a day is  *)
(* DayLength of them.                                                      *)
(***************************************************************************)
EXTENDS Integers, FiniteSetsExt, Functions

CONSTANTS
    Calls,           \* EvaluateTransfer calls, each served once
    Senders,         \* sender_id values
    Receivers,       \* receiver_id values
    Keys,            \* idempotency keys
    Amounts,         \* amounts in cents, as EvaluateTransfer validates them
    PerTxLimit,      \* FRAUD_PER_TX_LIMIT
    DailyLimit,      \* FRAUD_DAILY_LIMIT
    VelocityMax,     \* FRAUD_VELOCITY_MAX_COUNT
    VelocityWindow,  \* FRAUD_VELOCITY_WINDOW
    PairCooldown,    \* FRAUD_PAIR_COOLDOWN
    TTL,             \* FRAUD_IDEMPOTENCY_TTL
    DayLength,       \* a calendar day in FRAUD_TIMEZONE
    None             \* no request, no decision, no entry

ASSUME AmountsAssumption == Amounts \subseteq Nat \ {0}

\* Config.Validate.
ASSUME ConfigAssumption ==
    /\ PerTxLimit \in Nat \ {0}
    /\ DailyLimit \in Nat /\ DailyLimit >= PerTxLimit
    /\ VelocityMax \in Nat \ {0}
    /\ VelocityWindow \in Nat \ {0}
    /\ PairCooldown \in Nat \ {0}
    /\ TTL \in Nat \ {0}
    /\ DayLength \in Nat \ {0}

Requests ==
    {r \in [sender : Senders, receiver : Receivers, amount : Amounts, key : Keys] :
        r.sender # r.receiver}

SamePayload(q, r) ==
    q.sender = r.sender /\ q.receiver = r.receiver /\ q.amount = r.amount

\* The calendar day of a time.
Day(t) == t \div DayLength

RuleCodes ==
    {"OK", "LIMIT_PER_TX", "LIMIT_DAILY", "LIMIT_VELOCITY", "COOLDOWN_PAIR"}

\* What EvaluateTransfer may answer; "unavailable" is a call cut off.
Decisions == RuleCodes \cup {"IDEMPOTENCY_REUSED_MISMATCH", "unavailable"}

ASSUME NoneAssumption ==
    /\ None \notin Requests /\ None \notin Decisions /\ None \notin Nat
    /\ None \notin [request : Requests, decision : Decisions, at : Nat]

\* Mutant of RuleFor: only what was used before is compared with the limit.
RuleForPastTotal(r, dailyUsed, recentCount, cooling) ==
    IF      r.amount > PerTxLimit       THEN "LIMIT_PER_TX"
    ELSE IF dailyUsed >= DailyLimit     THEN "LIMIT_DAILY"
    ELSE IF recentCount >= VelocityMax  THEN "LIMIT_VELOCITY"
    ELSE IF cooling                     THEN "COOLDOWN_PAIR"
    ELSE "OK"

(***************************************************************************)
(* The rules in the order of Evaluate, given what the sender has used of   *)
(* the day, how many approvals it has in the window, and whether the pair  *)
(* is cooling down.                                                        *)
(***************************************************************************)
RuleFor(r, dailyUsed, recentCount, cooling) ==
    IF      r.amount > PerTxLimit             THEN "LIMIT_PER_TX"
    ELSE IF dailyUsed + r.amount > DailyLimit THEN "LIMIT_DAILY"
    ELSE IF recentCount >= VelocityMax        THEN "LIMIT_VELOCITY"
    ELSE IF cooling                           THEN "COOLDOWN_PAIR"
    ELSE "OK"
=============================================================================
