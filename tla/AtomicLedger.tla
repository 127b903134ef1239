---------------------------- MODULE AtomicLedger ----------------------------
(***************************************************************************)
(* What the wallet service promises its callers: every call is received,   *)
(* takes effect in one atomic step on the ledger or in none, and is        *)
(* answered once.  No locks, no snapshots, no transactions.                *)
(***************************************************************************)
EXTENDS WalletData

VARIABLES
    wallets,      \* user_ids with a row in table wallets
    balance,      \* column balance, 0 for a user without a wallet
    idempotency,  \* table idempotency_keys, by key
    topups,       \* table wallet_topups
    request,      \* the request of each call, NoRow before it is received
    reply         \* its answer, NoRow until it is given

tables == <<wallets, balance, idempotency, topups>>
avars  == <<wallets, balance, idempotency, topups, request, reply>>

Init ==
    /\ wallets = SeedWallets
    /\ balance = SeedBalance
    /\ idempotency = [k \in Keys |-> NoRow]
    /\ topups = {}
    /\ request = [c \in Calls |-> NoRow]
    /\ reply = [c \in Calls |-> NoRow]

Pending(c) == request[c] # NoRow /\ reply[c] = NoRow

\* The answer of a call; a call is answered once.
Answer(c, answer) ==
    /\ reply' = [reply EXCEPT ![c] = answer]
    /\ UNCHANGED request

Receive(c) ==
    /\ request[c] = NoRow
    /\ \E r \in Requests :
          /\ request' = [request EXCEPT ![c] = r]
          /\ reply' = IF Valid(r) THEN reply
                                 ELSE [reply EXCEPT ![c] = Refused("invalid")]
    /\ UNCHANGED tables

(***************************************************************************)
(* A movement of money, and the row that remembers it, in one step.  The   *)
(* answer may be lost after the effect: the caller then sees "internal".   *)
(***************************************************************************)
Move(c) ==
    LET r == request[c]
        record == [sender          |-> r.sender,
                   receiver        |-> r.receiver,
                   amount          |-> r.amount,
                   transaction     |-> c,
                   senderBalance   |-> balance[r.sender] - r.amount,
                   receiverBalance |-> balance[r.receiver] + r.amount]
    IN  /\ Pending(c)
        /\ r.op = "transfer"
        /\ Valid(r)
        /\ RowsOf(r) \subseteq wallets
        /\ r.amount <= balance[r.sender]
        /\ balance[r.receiver] + r.amount <= MaxBalance
        /\ idempotency[r.key] = NoRow
        /\ balance' = [balance EXCEPT ![r.sender] = @ - r.amount,
                                      ![r.receiver] = @ + r.amount]
        /\ idempotency' = [idempotency EXCEPT ![r.key] = record]
        /\ \E answer \in {ToResult(record), Refused("internal")} : Answer(c, answer)
        /\ UNCHANGED <<wallets, topups>>

\* A transfer whose key is stored is answered from the stored result.
Replay(c) ==
    /\ Pending(c)
    /\ request[c].op = "transfer"
    /\ idempotency[request[c].key] # NoRow
    /\ Answer(c, CachedReply(idempotency[request[c].key], request[c]))
    /\ UNCHANGED tables

TopUp(c) ==
    LET r == request[c]
        after == balance[r.user] + r.amount
    IN  /\ Pending(c)
        /\ r.op = "topup"
        /\ Valid(r)
        /\ r.user \in wallets
        /\ after <= MaxBalance
        /\ balance' = [balance EXCEPT ![r.user] = after]
        /\ topups' = topups \cup {[id |-> c, user |-> r.user,
                                   amount |-> r.amount, balanceAfter |-> after]}
        /\ \E answer \in {BalanceResult(after), Refused("internal")} : Answer(c, answer)
        /\ UNCHANGED <<wallets, idempotency>>

CreateWallet(c) ==
    /\ Pending(c)
    /\ request[c].op = "create"
    /\ wallets' = wallets \cup {request[c].user}
    /\ \E answer \in {BalanceResult(balance[request[c].user]), Refused("internal")} :
          Answer(c, answer)
    /\ UNCHANGED <<balance, idempotency, topups>>

(***************************************************************************)
(* A refusal leaves the ledger alone.  "insufficient" is only said of a    *)
(* balance that is too low at that moment; "not_found" may be stale (the   *)
(* wallet may have been created since the call looked for it).             *)
(***************************************************************************)
Refuse(c) ==
    /\ Pending(c)
    /\ \/ /\ request[c].op = "transfer"
          /\ balance[request[c].sender] < request[c].amount
          /\ Answer(c, Refused("insufficient"))
       \/ /\ request[c].op # "create"
          /\ Answer(c, Refused("not_found"))
       \/ Answer(c, Refused("internal"))
    /\ UNCHANGED tables

Next ==
    \E c \in Calls :
        \/ Receive(c) \/ Move(c) \/ Replay(c)
        \/ TopUp(c) \/ CreateWallet(c) \/ Refuse(c)

Spec == Init /\ [][Next]_avars
=============================================================================
