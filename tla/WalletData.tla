----------------------------- MODULE WalletData -----------------------------
(***************************************************************************)
(* The rows, requests and answers of the wallet service: the vocabulary    *)
(* that the abstract ledger (AtomicLedger) and the repository that runs on *)
(* PostgreSQL (WalletRepository) have in common.                           *)
(*                                                                         *)
(* A call is one gRPC request, served by one goroutine.  It draws at most  *)
(* one gen_random_uuid(), so the transaction id it generates is named by   *)
(* the call itself: that two uuids are never equal is the only assumption. *)
(***************************************************************************)
EXTENDS Integers

CONSTANTS
    Calls,       \* the gRPC calls, each served once
    Users,       \* user_id values: numbers, ordered as ORDER BY user_id
    Keys,        \* idempotency keys
    Amounts,     \* amounts in cents a client may ask for, valid or not
    MaxBalance,  \* largest value of NUMERIC(12, 2), in cents
    SeedWallets, \* the user_ids that have a wallet when the service starts
    SeedBalance, \* their balances, and 0 for every other user
    Nobody,      \* no call
    NoRow        \* no row, no request, no answer

ASSUME UsersAssumption   == Users \subseteq Nat
ASSUME AmountsAssumption == Amounts \subseteq Int
ASSUME MaxAssumption     == MaxBalance \in Nat
ASSUME NobodyAssumption  == Nobody \notin Calls
ASSUME SeedAssumption ==
    /\ SeedWallets \subseteq Users
    /\ SeedBalance \in [Users -> 0 .. MaxBalance]
    /\ \A u \in Users \ SeedWallets : SeedBalance[u] = 0

-----------------------------------------------------------------------------
\* The requests of the three RPCs that write.

TransferRequests ==
    [op : {"transfer"}, sender : Users, receiver : Users,
     amount : Amounts, key : Keys]
TopUpRequests  == [op : {"topup"},  user : Users, amount : Amounts]
CreateRequests == [op : {"create"}, user : Users]

Requests == TransferRequests \cup TopUpRequests \cup CreateRequests

\* validateTransferInput, and the first lines of TopUp and CreateWallet.
Valid(r) ==
    /\ r.op = "transfer" => r.sender # r.receiver /\ r.amount > 0
    /\ r.op = "topup"    => r.amount > 0

\* The rows of table wallets that the request locks.
RowsOf(r) == IF r.op = "transfer" THEN {r.sender, r.receiver} ELSE {r.user}

\* A stored result of idempotency_keys.
IdempotencyRecords ==
    [sender : Users, receiver : Users, amount : Amounts,
     transaction : Calls, senderBalance : Int, receiverBalance : Int]

\* A row of wallet_topups; its id, like a transaction id, names its call.
TopUpRows == [id : Calls, user : Users, amount : Amounts, balanceAfter : Int]

IsSamePayload(record, r) ==
    /\ record.sender = r.sender
    /\ record.receiver = r.receiver
    /\ record.amount = r.amount

-----------------------------------------------------------------------------
\* The answers: a result, or the status an error is mapped to.

Refusals == {"invalid", "mismatch", "insufficient", "not_found", "internal"}

Refused(status) == [status |-> status]

ToResult(record) ==
    [status          |-> "ok",
     transaction     |-> record.transaction,
     senderBalance   |-> record.senderBalance,
     receiverBalance |-> record.receiverBalance]

BalanceResult(cents) == [status |-> "ok", balance |-> cents]

Replies ==
    [status : Refusals]
    \cup [status : {"ok"}, transaction : Calls,
          senderBalance : Int, receiverBalance : Int]
    \cup [status : {"ok"}, balance : Int]

ASSUME NoRowAssumption ==
    NoRow \notin IdempotencyRecords \cup Requests \cup Replies

\* Mutant of CachedReply: the payload is not compared.
CachedReplyUnchecked(record, r) == ToResult(record)

\* What a transfer that finds the key stored is answered.
CachedReply(record, r) ==
    IF IsSamePayload(record, r) THEN ToResult(record) ELSE Refused("mismatch")
=============================================================================
