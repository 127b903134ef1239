-------------------------- MODULE WalletRepository --------------------------
(***************************************************************************)
(* wallet-service: internal/repository/wallet_repository.go as run by      *)
(* concurrent gRPC handlers against one PostgreSQL database in READ        *)
(* COMMITTED transactions.                                                 *)
(*                                                                         *)
(* What PostgreSQL does, and this model takes as given:                    *)
(*   - SELECT ... FOR UPDATE fixes the rows it returns when it starts,     *)
(*     locks them one by one in ORDER BY order, and returns for each the   *)
(*     version committed when its lock was obtained;                       *)
(*   - the writes of a transaction are seen by no other before COMMIT, and *)
(*     its locks are held until COMMIT or ROLLBACK;                        *)
(*   - an INSERT of a key that an open transaction has inserted waits for  *)
(*     that transaction; of a committed key it fails (23505), or does      *)
(*     nothing under ON CONFLICT DO NOTHING.                               *)
(*                                                                         *)
(* A crash of the service is a Fail of each call it was serving: nothing   *)
(* is kept in memory between calls.                                        *)
(***************************************************************************)
EXTENDS WalletData, Functions

VARIABLES
    wallets, balance, idempotency, topups,   \* the committed tables
    request, reply,                          \* what the callers see
    pc,       \* where each handler stands
    rowLock,  \* holder of the lock on a wallets row, or of its uncommitted row
    keyLock,  \* holder of the uncommitted idempotency_keys row
    visible,  \* rows the SELECT ... FOR UPDATE of the call returns
    read      \* the balances it has read under their locks

tables == <<wallets, balance, idempotency, topups>>
locks  == <<rowLock, keyLock>>
local  == <<visible, read>>
vars   == <<wallets, balance, idempotency, topups, request, reply,
            pc, rowLock, keyLock, visible, read>>

\* Handlers with an open transaction, and all handlers at work.
InTx    == {"begin", "insertWallet", "lock", "insertKey", "commit"}
Working == InTx \cup {"lookup", "reread"}

Zero == [u \in Users |-> 0]

Init ==
    /\ wallets = SeedWallets
    /\ balance = SeedBalance
    /\ idempotency = [k \in Keys |-> NoRow]
    /\ topups = {}
    /\ request = [c \in Calls |-> NoRow]
    /\ reply = [c \in Calls |-> NoRow]
    /\ pc = [c \in Calls |-> "idle"]
    /\ rowLock = [u \in Users |-> Nobody]
    /\ keyLock = [k \in Keys |-> Nobody]
    /\ visible = [c \in Calls |-> {}]
    /\ read = [c \in Calls |-> Zero]

Goto(c, label) == pc' = [pc EXCEPT ![c] = label]

\* Return from the handler.
Respond(c, answer) ==
    /\ reply' = [reply EXCEPT ![c] = answer]
    /\ Goto(c, "done")

\* Mutant of EndTx: the entry of the key outlives its transaction.
EndTxKeepsKey(c) ==
    /\ rowLock' = [u \in Users |-> IF rowLock[u] = c THEN Nobody ELSE rowLock[u]]
    /\ visible' = [visible EXCEPT ![c] = {}]
    /\ read' = [read EXCEPT ![c] = Zero]
    /\ UNCHANGED keyLock

\* COMMIT and ROLLBACK release every lock; the local variables die.
EndTx(c) ==
    /\ rowLock' = [u \in Users |-> IF rowLock[u] = c THEN Nobody ELSE rowLock[u]]
    /\ keyLock' = [k \in Keys |-> IF keyLock[k] = c THEN Nobody ELSE keyLock[k]]
    /\ visible' = [visible EXCEPT ![c] = {}]
    /\ read' = [read EXCEPT ![c] = Zero]

-----------------------------------------------------------------------------
\* Receiving a call, and the lookup of the key before the transaction.

FirstStep(r) ==
    CASE r.op = "transfer" -> "lookup"
      [] r.op = "topup"    -> "begin"
      [] r.op = "create"   -> "insertWallet"

Receive(c) ==
    /\ pc[c] = "idle"
    /\ \E r \in Requests :
          /\ request' = [request EXCEPT ![c] = r]
          /\ IF Valid(r)
             THEN Goto(c, FirstStep(r)) /\ UNCHANGED reply
             ELSE Respond(c, Refused("invalid"))
    /\ UNCHANGED <<tables, locks, local>>

LookupMiss(c) ==
    /\ pc[c] = "lookup"
    /\ idempotency[request[c].key] = NoRow
    /\ Goto(c, "begin")
    /\ UNCHANGED <<tables, locks, local, request, reply>>

LookupHit(c) ==
    /\ pc[c] = "lookup"
    /\ idempotency[request[c].key] # NoRow
    /\ Respond(c, CachedReply(idempotency[request[c].key], request[c]))
    /\ UNCHANGED <<tables, locks, local, request>>

-----------------------------------------------------------------------------
\* The transaction.

\* INSERT INTO wallets ... ON CONFLICT (user_id) DO NOTHING.
InsertWallet(c) ==
    LET u == request[c].user
    IN  /\ pc[c] = "insertWallet"
        /\ \/ u \in wallets /\ UNCHANGED rowLock
           \/ /\ u \notin wallets /\ rowLock[u] = Nobody
              /\ rowLock' = [rowLock EXCEPT ![u] = c]
        /\ Goto(c, "begin")
        /\ UNCHANGED <<tables, keyLock, local, request, reply>>

\* The SELECT ... FOR UPDATE starts: the rows committed by now, and its own.
Snapshot(c) ==
    /\ pc[c] = "begin"
    /\ visible' = [visible EXCEPT ![c] =
                      {u \in RowsOf(request[c]) : u \in wallets \/ rowLock[u] = c}]
    /\ Goto(c, "lock")
    /\ UNCHANGED <<tables, locks, read, request, reply>>

Unlocked(c) == {u \in visible[c] : rowLock[u] # c}

\* Mutant of NextRow: no ORDER BY.
NextRowUnordered(c, u) == u \in Unlocked(c)

\* ORDER BY user_id: the row that is locked next.
NextRow(c, u) == u \in Unlocked(c) /\ \A v \in Unlocked(c) : u <= v

\* FOR UPDATE: wait for the lock, then read what is committed.
RowIsFree(c, u) == rowLock[u] = Nobody

\* Mutant of LockRow: no FOR UPDATE; a row that is locked is read all the same,
\* and only the UPDATE waits for its lock.
LockRowReadsEarly(c) ==
    /\ pc[c] = "lock"
    /\ \E u \in Users :
          /\ NextRow(c, u)
          /\ IF RowIsFree(c, u)
             THEN rowLock' = [rowLock EXCEPT ![u] = c]
             ELSE read[c][u] = 0 /\ UNCHANGED rowLock
          /\ read' = [read EXCEPT ![c][u] = IF @ = 0 THEN balance[u] ELSE @]
    /\ UNCHANGED <<tables, keyLock, visible, request, reply, pc>>

LockRow(c) ==
    /\ pc[c] = "lock"
    /\ \E u \in Users :
          /\ NextRow(c, u)
          /\ RowIsFree(c, u)
          /\ rowLock' = [rowLock EXCEPT ![u] = c]
          /\ read' = [read EXCEPT ![c][u] = balance[u]]
    /\ UNCHANGED <<tables, keyLock, visible, request, reply, pc>>

AllLocked(c) == pc[c] = "lock" /\ Unlocked(c) = {}

\* getLockedBalance, or okSender && okReceiver.
Missing(c) == visible[c] # RowsOf(request[c])

\* Mutant of Overdrawn: the receiver's balance is compared.
OverdrawnReceiver(c) ==
    /\ request[c].op = "transfer"
    /\ read[c][request[c].receiver] < request[c].amount

Overdrawn(c) ==
    /\ request[c].op = "transfer"
    /\ read[c][request[c].sender] < request[c].amount

\* The balance the transaction leaves in row u, computed from what it read.
NewBalance(c, u) ==
    LET r == request[c]
    IN  IF r.op = "create"
        THEN read[c][u]
        ELSE IF r.op = "transfer" /\ u = r.sender
             THEN read[c][u] - r.amount
             ELSE read[c][u] + r.amount

\* numeric field overflow (22003) in UPDATE wallets.
Overflows(c) == \E u \in RowsOf(request[c]) : NewBalance(c, u) > MaxBalance

\* Mutant of Reject: the row of wallet_topups is inserted outside the transaction.
RejectKeepsTopUp(c) ==
    /\ AllLocked(c)
    /\ Missing(c)
    /\ Respond(c, Refused("not_found"))
    /\ topups' = IF request[c].op = "topup"
                 THEN topups \cup {[id |-> c, user |-> request[c].user,
                                    amount |-> request[c].amount, balanceAfter |-> 0]}
                 ELSE topups
    /\ EndTx(c)
    /\ UNCHANGED <<wallets, balance, idempotency, request>>

\* The early returns of executeTransferTx and TopUp; the deferred Rollback.
Reject(c) ==
    /\ AllLocked(c)
    /\ \/ Missing(c) /\ Respond(c, Refused("not_found"))
       \/ ~Missing(c) /\ Overdrawn(c) /\ Respond(c, Refused("insufficient"))
       \/ ~Missing(c) /\ ~Overdrawn(c) /\ Overflows(c) /\ Respond(c, Refused("internal"))
    /\ EndTx(c)
    /\ UNCHANGED <<tables, request>>

\* The UPDATEs of wallets and the INSERT INTO wallet_topups; seen at COMMIT.
Update(c) ==
    /\ AllLocked(c)
    /\ ~Missing(c) /\ ~Overdrawn(c) /\ ~Overflows(c)
    /\ Goto(c, IF request[c].op = "transfer" THEN "insertKey" ELSE "commit")
    /\ UNCHANGED <<tables, locks, local, request, reply>>

\* insertIdempotencyResult.
InsertKey(c) ==
    /\ pc[c] = "insertKey"
    /\ keyLock[request[c].key] = Nobody
    /\ idempotency[request[c].key] = NoRow
    /\ keyLock' = [keyLock EXCEPT ![request[c].key] = c]
    /\ Goto(c, "commit")
    /\ UNCHANGED <<tables, rowLock, local, request, reply>>

\* A unique violation: errIdempotencyKeyConflict, after the Rollback.
KeyConflict(c) ==
    /\ pc[c] = "insertKey"
    /\ keyLock[request[c].key] = Nobody
    /\ idempotency[request[c].key] # NoRow
    /\ Goto(c, "reread")
    /\ EndTx(c)
    /\ UNCHANGED <<tables, request, reply>>

\* The conflict is answered from the row that caused it.
Reread(c) ==
    /\ pc[c] = "reread"
    /\ Respond(c, IF idempotency[request[c].key] = NoRow
                  THEN Refused("internal")
                  ELSE CachedReply(idempotency[request[c].key], request[c]))
    /\ UNCHANGED <<tables, locks, local, request>>

RecordOf(c) ==
    LET r == request[c]
    IN  [sender          |-> r.sender,
         receiver        |-> r.receiver,
         amount          |-> r.amount,
         transaction     |-> c,
         senderBalance   |-> NewBalance(c, r.sender),
         receiverBalance |-> NewBalance(c, r.receiver)]

Result(c) ==
    IF request[c].op = "transfer" THEN ToResult(RecordOf(c))
                                  ELSE BalanceResult(NewBalance(c, request[c].user))

(***************************************************************************)
(* COMMIT makes the writes visible.  The answer of the database, or the    *)
(* context of the call, may be gone by then: the handler returns an error  *)
(* for a transaction that is in the tables.                                *)
(***************************************************************************)
Commit(c) ==
    LET r == request[c]
    IN  /\ pc[c] = "commit"
        /\ balance' = [u \in Users |-> IF u \in RowsOf(r) THEN NewBalance(c, u)
                                                          ELSE balance[u]]
        /\ wallets' = wallets \cup RowsOf(r)
        /\ idempotency' = IF r.op = "transfer"
                          THEN [idempotency EXCEPT ![r.key] = RecordOf(c)]
                          ELSE idempotency
        /\ topups' = IF r.op = "topup"
                     THEN topups \cup {[id |-> c, user |-> r.user, amount |-> r.amount,
                                        balanceAfter |-> NewBalance(c, r.user)]}
                     ELSE topups
        /\ \E answer \in {Result(c), Refused("internal")} : Respond(c, answer)
        /\ EndTx(c)
        /\ UNCHANGED request

\* A lost connection, a crash, or the end of the call's context.
Fail(c) ==
    /\ pc[c] \in Working
    /\ Respond(c, Refused("internal"))
    /\ EndTx(c)
    /\ UNCHANGED <<tables, request>>

-----------------------------------------------------------------------------
\* What a handler does when nothing fails.
Step(c) ==
    \/ LookupMiss(c) \/ LookupHit(c)
    \/ InsertWallet(c) \/ Snapshot(c) \/ LockRow(c) \/ Reject(c) \/ Update(c)
    \/ InsertKey(c) \/ KeyConflict(c) \/ Reread(c) \/ Commit(c)

Next == \E c \in Calls : Receive(c) \/ Step(c) \/ Fail(c)

Spec == Init /\ [][Next]_vars

\* A runnable goroutine runs, and a lock that stays free is granted.
FairSpec == Spec /\ \A c \in Calls : WF_vars(Step(c))

-----------------------------------------------------------------------------
\* Properties.

\* The type invariant of the tables, the locks and the handlers' variables.
TypeOK ==
    /\ wallets \subseteq Users
    /\ balance \in [Users -> Int]
    /\ idempotency \in [Keys -> IdempotencyRecords \cup {NoRow}]
    /\ topups \subseteq TopUpRows
    /\ request \in [Calls -> Requests \cup {NoRow}]
    /\ reply \in [Calls -> Replies \cup {NoRow}]
    /\ pc \in [Calls -> Working \cup {"idle", "done"}]
    /\ rowLock \in [Users -> Calls \cup {Nobody}]
    /\ keyLock \in [Keys -> Calls \cup {Nobody}]
    /\ visible \in [Calls -> SUBSET Users]
    /\ read \in [Calls -> [Users -> Int]]

(***************************************************************************)
(* No transfer or top-up is lost: what a transaction has read under its    *)
(* locks is what the table holds for as long as it may still commit, so    *)
(* that the balances it writes never overwrite somebody else's commit.     *)
(***************************************************************************)
ReadIsCurrent(c) ==
    pc[c] \in {"lock", "insertKey", "commit"} =>
        \A u \in visible[c] : rowLock[u] = c => read[c][u] = balance[u]

LockedReadIsCurrent == \A c \in Calls : ReadIsCurrent(c)

\* No interleaving of transfers spends the same money twice: a balance never
\* goes below zero, nor beyond what the column can hold.
BalancesInRange == \A u \in Users : balance[u] \in 0 .. MaxBalance

\* The rows that explain a balance, and their sums.
Sendings(u) == {k \in Keys : idempotency[k] # NoRow /\ idempotency[k].sender = u}
Receipts(u) == {k \in Keys : idempotency[k] # NoRow /\ idempotency[k].receiver = u}
TopUpsOf(u) == {t \in topups : t.user = u}

Sent(u)     == SumFunction([k \in Sendings(u) |-> idempotency[k].amount])
Received(u) == SumFunction([k \in Receipts(u) |-> idempotency[k].amount])
ToppedUp(u) == SumFunction([t \in TopUpsOf(u) |-> t.amount])

(***************************************************************************)
(* Money is conserved: every balance is the seed plus exactly the top-ups  *)
(* and transfers that have a row, each counted once.                       *)
(***************************************************************************)
BalancesExplained ==
    \A u \in Users :
        balance[u] = SeedBalance[u] + ToppedUp(u) + Received(u) - Sent(u)

(***************************************************************************)
(* Every transfer answered "ok" is answered with the one result stored     *)
(* under its key, which was stored for the same payload: duplicates, in    *)
(* flight or later, all see the same transaction id and balances.          *)
(***************************************************************************)
DuplicatesAgree ==
    \A c \in Calls :
        (/\ request[c] # NoRow /\ request[c].op = "transfer"
         /\ reply[c] # NoRow /\ reply[c].status = "ok") =>
            LET record == idempotency[request[c].key]
            IN  /\ record # NoRow
                /\ IsSamePayload(record, request[c])
                /\ reply[c] = ToResult(record)

(***************************************************************************)
(* A refusal is the truth: a call answered with anything but "ok" or       *)
(* "internal" has left no row behind, whoever else used its key or its     *)
(* wallets meanwhile.                                                      *)
(***************************************************************************)
Untouched(c) ==
    /\ \A k \in Keys : idempotency[k] # NoRow => idempotency[k].transaction # c
    /\ \A row \in topups : row.id # c

RefusalLeavesNoTrace ==
    \A c \in Calls :
        (reply[c] # NoRow /\ reply[c].status \in Refusals \ {"internal"}) => Untouched(c)

(***************************************************************************)
(* The inductive invariant behind the three properties above.              *)
(***************************************************************************)

\* What the place where a handler stands says of its request and answer.
CallsInOrder ==
    \A c \in Calls :
        /\ (pc[c] = "idle") <=> (request[c] = NoRow)
        /\ (pc[c] = "done") <=> (reply[c] # NoRow)
        /\ pc[c] \in Working => Valid(request[c])
        /\ pc[c] \in {"lookup", "insertKey", "reread"} => request[c].op = "transfer"
        /\ pc[c] = "insertWallet" => request[c].op = "create"

\* The variables of a transaction are those of its SELECT ... FOR UPDATE.
LocalsInOrder(c) ==
    IF pc[c] \in {"lock", "insertKey", "commit"}
    THEN /\ visible[c] \subseteq RowsOf(request[c])
         /\ \A u \in visible[c] :
               u \in wallets \/ (rowLock[u] = c /\ request[c].op = "create")
    ELSE visible[c] = {} /\ read[c] = Zero

\* A row is locked by a transaction that will use it, or has inserted it.
RowLocksInOrder(c) ==
    \A u \in Users : rowLock[u] = c =>
        /\ pc[c] \in {"begin", "lock", "insertKey", "commit"}
        /\ u \in RowsOf(request[c])
        /\ IF pc[c] = "begin"
           THEN request[c].op = "create" /\ u \notin wallets
           ELSE u \in visible[c]

\* A key is held by the one transaction about to commit it.
KeyLocksInOrder(c) ==
    \A k \in Keys : keyLock[k] = c =>
        /\ pc[c] = "commit"
        /\ request[c].op = "transfer"
        /\ request[c].key = k
        /\ idempotency[k] = NoRow

\* A transaction past its checks holds all it needs, and the checks stand.
ReadyToCommit(c) ==
    pc[c] \in {"insertKey", "commit"} =>
        /\ visible[c] = RowsOf(request[c])
        /\ \A u \in visible[c] : rowLock[u] = c
        /\ ~Overdrawn(c)
        /\ ~Overflows(c)
        /\ pc[c] = "commit" /\ request[c].op = "transfer" => keyLock[request[c].key] = c

LocksInOrder(c) ==
    /\ LocalsInOrder(c)
    /\ RowLocksInOrder(c)
    /\ KeyLocksInOrder(c)
    /\ ReadyToCommit(c)
    /\ ReadIsCurrent(c)

\* A call that creates a wallet finds it, its own row or somebody else's.
CreateFindsRow(c) ==
    (pc[c] \in {"begin", "lock"} /\ request[c].op = "create") =>
        IF pc[c] = "begin"
        THEN \A u \in RowsOf(request[c]) : u \in wallets \/ rowLock[u] = c
        ELSE ~Missing(c)

\* There is no money without a wallet.
NoMoneyOutsideWallets == \A u \in Users \ wallets : balance[u] = 0

\* A call that has left a row is answered, and not with a refusal.
TracesAreAnswered ==
    \A c \in Calls :
        \/ Untouched(c)
        \/ reply[c] # NoRow /\ reply[c].status \in {"ok", "internal"}

LockInv ==
    /\ CallsInOrder
    /\ NoMoneyOutsideWallets
    /\ \A c \in Calls : LocksInOrder(c) /\ CreateFindsRow(c)

(***************************************************************************)
(* The invariant that carries the proofs: a transaction holds what it will *)
(* write and nothing else, what it read there is current, and whoever has  *)
(* left, by whatever way, has left no lock behind.                         *)
(***************************************************************************)
Inv == TypeOK /\ LockInv

(***************************************************************************)
(* The repository implements the atomic ledger.                            *)
(***************************************************************************)
Atomic == INSTANCE AtomicLedger WITH
    wallets <- wallets, balance <- balance, idempotency <- idempotency,
    topups <- topups, request <- request, reply <- reply
ImplementsAtomicLedger == Atomic!Spec

\* Every call received is answered: no handler waits for a lock for ever.
EveryCallIsAnswered ==
    \A c \in Calls : request[c] # NoRow ~> reply[c] # NoRow

(***************************************************************************)
(* The same idempotency_key with the same payload returns the result of    *)
(* the first transfer (architecture.md): once a result is stored, a        *)
(* transfer of that key and payload is not refused for lack of funds.      *)
(***************************************************************************)
StoredResultIsReturned ==
    [][\A c \in Calls :
          (reply[c] = NoRow /\ reply'[c] = Refused("insufficient")) =>
          LET record == idempotency[request[c].key]
          IN  record = NoRow \/ ~IsSamePayload(record, request[c])]_vars
=============================================================================
