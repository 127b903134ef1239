----------------------- MODULE WalletRepositoryProofs -----------------------
(***************************************************************************)
(* Proofs about WalletRepository, for every set of calls, users, keys and  *)
(* amounts: its types, the discipline of its locks, that no update is lost *)
(* and no balance leaves its range, that it implements the atomic ledger,  *)
(* and that the balances are what the rows add up to.                      *)
(***************************************************************************)
EXTENDS WalletRepository, SumTheorems

\* What the fields of a request are, by operation.
LEMMA RequestFields ==
    ASSUME NEW r \in Requests
    PROVE  /\ r.op \in {"transfer", "topup", "create"}
           /\ r.op = "transfer" => /\ r.sender \in Users /\ r.receiver \in Users
                                   /\ r.amount \in Amounts /\ r.key \in Keys
           /\ r.op = "topup" => r.user \in Users /\ r.amount \in Amounts
           /\ r.op = "create" => r.user \in Users
           /\ RowsOf(r) \subseteq Users
           /\ r # NoRow
<1>1. CASE r \in TransferRequests
    BY <1>1, NoRowAssumption DEF TransferRequests, RowsOf, Requests
<1>2. CASE r \in TopUpRequests
    BY <1>2, NoRowAssumption DEF TopUpRequests, RowsOf, Requests
<1>3. CASE r \in CreateRequests
    BY <1>3, NoRowAssumption DEF CreateRequests, RowsOf, Requests
<1>4. QED
    BY <1>1, <1>2, <1>3 DEF Requests

\* Every answer a handler builds is an answer.
LEMMA AnswersAreReplies ==
    /\ \A status \in Refusals : Refused(status) \in Replies
    /\ \A record \in IdempotencyRecords : ToResult(record) \in Replies
    /\ \A cents \in Int : BalanceResult(cents) \in Replies
    /\ NoRow \notin Replies
    /\ NoRow \notin IdempotencyRecords
    /\ NoRow \notin Requests
<1>1. \A status \in Refusals : Refused(status) \in Replies
    BY DEF Refused, Replies
<1>2. \A record \in IdempotencyRecords : ToResult(record) \in Replies
    BY DEF ToResult, Replies, IdempotencyRecords
<1>3. \A cents \in Int : BalanceResult(cents) \in Replies
    BY DEF BalanceResult, Replies
<1>4. QED
    BY <1>1, <1>2, <1>3, NoRowAssumption

\* The answer from a stored result is an answer.
LEMMA CachedReplyIsReply ==
    ASSUME NEW record \in IdempotencyRecords, NEW r \in Requests
    PROVE  CachedReply(record, r) \in Replies
BY AnswersAreReplies DEF CachedReply, Refusals

\* A transaction computes integers, and a record of the type of the table.
LEMMA NewBalanceIsInt ==
    ASSUME TypeOK, NEW c \in Calls, request[c] \in Requests, NEW u \in Users
    PROVE  NewBalance(c, u) \in Int
<1>1. /\ read[c][u] \in Int
      /\ request[c].op \in {"transfer", "topup", "create"}
      /\ request[c].op # "create" => request[c].amount \in Int
    BY RequestFields, AmountsAssumption DEF TypeOK
<1>2. QED
    BY <1>1 DEF NewBalance

\* The result a transfer stores has the type of the table.
LEMMA RecordOfIsRecord ==
    ASSUME TypeOK, NEW c \in Calls, request[c] \in Requests,
           request[c].op = "transfer"
    PROVE  RecordOf(c) \in IdempotencyRecords
<1>1. /\ request[c].sender \in Users /\ request[c].receiver \in Users
      /\ request[c].amount \in Amounts
    BY RequestFields
<1>2. /\ NewBalance(c, request[c].sender) \in Int
      /\ NewBalance(c, request[c].receiver) \in Int
    BY <1>1, NewBalanceIsInt
<1>3. QED
    BY <1>1, <1>2 DEF RecordOf, IdempotencyRecords

-----------------------------------------------------------------------------
(***************************************************************************)
(* Types.  TypeOK alone is not inductive: a handler reads the fields that  *)
(* its request has only if it stands where its operation takes it.         *)
(***************************************************************************)
Typed == TypeOK /\ CallsInOrder

\* The types hold at the start.
LEMMA InitTyped == Init => Typed
BY SeedAssumption, NobodyAssumption
   DEF Init, Typed, TypeOK, CallsInOrder, Zero, Working, InTx

\* A handler at work has a request.
LEMMA WorkingHasRequest ==
    ASSUME Typed, NEW c \in Calls, pc[c] # "idle"
    PROVE  request[c] \in Requests
BY DEF Typed, TypeOK, CallsInOrder

\* The end of a transaction keeps the types of the locks and local variables.
LEMMA EndTxTypeOK ==
    ASSUME TypeOK, NEW c \in Calls, EndTx(c)
    PROVE  /\ rowLock' \in [Users -> Calls \cup {Nobody}]
           /\ keyLock' \in [Keys -> Calls \cup {Nobody}]
           /\ visible' \in [Calls -> SUBSET Users]
           /\ read' \in [Calls -> [Users -> Int]]
BY DEF EndTx, TypeOK, Zero

\* An answer keeps the types of the answers and of the program counters.
LEMMA RespondTypeOK ==
    ASSUME TypeOK, NEW c \in Calls, NEW answer \in Replies, Respond(c, answer)
    PROVE  /\ reply' \in [Calls -> Replies \cup {NoRow}]
           /\ pc' \in [Calls -> Working \cup {"idle", "done"}]
BY DEF Respond, Goto, TypeOK

\* A step that moves handler c, and keeps every request, keeps the handlers
\* in order if it leaves c in order.
LEMMA OthersInOrder ==
    ASSUME Typed, NEW c \in Calls, TypeOK',
           \A d \in Calls \ {c} : /\ pc'[d] = pc[d] /\ request'[d] = request[d]
                                  /\ reply'[d] = reply[d],
           (pc'[c] = "idle") <=> (request'[c] = NoRow),
           (pc'[c] = "done") <=> (reply'[c] # NoRow),
           pc'[c] \in Working => Valid(request'[c]),
           pc'[c] \in {"lookup", "insertKey", "reread"} => request'[c].op = "transfer",
           pc'[c] = "insertWallet" => request'[c].op = "create"
    PROVE  Typed'
BY DEF Typed, CallsInOrder, Valid, Working, InTx

\* A handler that answers is done, and its answer is not NoRow.
LEMMA RespondTyped ==
    ASSUME Typed, NEW c \in Calls, pc[c] # "idle", NEW answer \in Replies,
           Respond(c, answer), UNCHANGED request, TypeOK'
    PROVE  Typed'
<1>1. pc'[c] = "done" /\ reply'[c] = answer /\ answer # NoRow
    BY AnswersAreReplies DEF Respond, Goto, Typed, TypeOK
<1>2. \A d \in Calls \ {c} : /\ pc'[d] = pc[d] /\ request'[d] = request[d]
                              /\ reply'[d] = reply[d]
    BY DEF Respond, Goto, Typed, TypeOK
<1>3. request'[c] # NoRow
    BY DEF Typed, CallsInOrder
<1>4. QED
    BY <1>1, <1>2, <1>3, OthersInOrder DEF Working, InTx

\* A handler that goes on keeps its request.
LEMMA GotoTyped ==
    ASSUME Typed, NEW c \in Calls, pc[c] \in Working, NEW label \in Working,
           Goto(c, label), UNCHANGED <<request, reply>>, TypeOK',
           label \in {"lookup", "insertKey", "reread"} => request[c].op = "transfer",
           label = "insertWallet" => request[c].op = "create"
    PROVE  Typed'
<1>1. pc'[c] = label /\ request'[c] # NoRow /\ reply'[c] = NoRow /\ Valid(request'[c])
    BY DEF Goto, Typed, TypeOK, CallsInOrder, Working, InTx, Valid
<1>2. \A d \in Calls \ {c} : /\ pc'[d] = pc[d] /\ request'[d] = request[d]
                              /\ reply'[d] = reply[d]
    BY DEF Goto, Typed, TypeOK
<1>3. QED
    BY <1>1, <1>2, OthersInOrder DEF Working, InTx

\* No handler leaves the types.
LEMMA NextTyped == Typed /\ [Next]_vars => Typed'
<1> SUFFICES ASSUME Typed, [Next]_vars PROVE Typed'
    OBVIOUS
<1>0. TypeOK
    BY DEF Typed
<1> USE DEF tables, locks, local
<1>1. ASSUME NEW c \in Calls, Receive(c) PROVE Typed'
  <2>1. PICK r \in Requests : /\ request' = [request EXCEPT ![c] = r]
                              /\ IF Valid(r)
                                 THEN Goto(c, FirstStep(r)) /\ UNCHANGED reply
                                 ELSE Respond(c, Refused("invalid"))
    BY <1>1 DEF Receive
  <2>2. /\ FirstStep(r) \in {"lookup", "begin", "insertWallet"}
        /\ FirstStep(r) = "lookup" => r.op = "transfer"
        /\ FirstStep(r) = "insertWallet" => r.op = "create"
    BY RequestFields DEF FirstStep
  <2>3. request'[c] = r /\ r # NoRow /\ reply[c] = NoRow
    BY <1>0, <1>1, <2>1, RequestFields DEF TypeOK, Typed, CallsInOrder, Receive
  <2>4. \A d \in Calls \ {c} : /\ pc'[d] = pc[d] /\ request'[d] = request[d]
                                /\ reply'[d] = reply[d]
    BY <1>0, <2>1 DEF Goto, Respond, TypeOK
  <2>5. CASE Valid(r)
    <3>1. pc'[c] = FirstStep(r) /\ reply'[c] = NoRow
      BY <1>0, <2>1, <2>3, <2>5 DEF Goto, TypeOK
    <3>2. TypeOK'
      BY <1>0, <1>1, <2>1, <2>2, <2>5 DEF Receive, Goto, TypeOK, Working, InTx
    <3>3. QED
      BY <2>2, <2>3, <2>4, <2>5, <3>1, <3>2, OthersInOrder
  <2>6. CASE ~Valid(r)
    <3>1. Respond(c, Refused("invalid")) /\ Refused("invalid") \in Replies
      BY <2>1, <2>6, AnswersAreReplies DEF Refusals
    <3>2. TypeOK'
      BY <1>0, <1>1, <2>1, <3>1, RespondTypeOK DEF Receive, TypeOK
    <3>3. pc'[c] = "done" /\ reply'[c] # NoRow
      BY <1>0, <3>1, AnswersAreReplies DEF Respond, Goto, TypeOK
    <3>4. QED
      BY <2>3, <2>4, <3>2, <3>3, OthersInOrder DEF Working, InTx
  <2>7. QED
    BY <2>5, <2>6
<1>2. ASSUME NEW c \in Calls, LookupMiss(c) PROVE Typed'
  <2>1. TypeOK'
    BY <1>0, <1>2 DEF LookupMiss, Goto, TypeOK, Working, InTx
  <2>2. QED
    BY <1>2, <2>1, GotoTyped DEF LookupMiss, Working, InTx
<1>3. ASSUME NEW c \in Calls, LookupHit(c) PROVE Typed'
  <2>1. request[c] \in Requests /\ request[c].key \in Keys /\ pc[c] # "idle"
    BY <1>3, WorkingHasRequest, RequestFields DEF LookupHit, Typed, CallsInOrder
  <2>2. CachedReply(idempotency[request[c].key], request[c]) \in Replies
    BY <1>0, <1>3, <2>1, CachedReplyIsReply DEF LookupHit, TypeOK
  <2>3. TypeOK'
    BY <1>0, <1>3, <2>2, RespondTypeOK DEF LookupHit, TypeOK
  <2>4. QED
    BY <1>3, <2>1, <2>2, <2>3, RespondTyped DEF LookupHit
<1>4. ASSUME NEW c \in Calls, InsertWallet(c) PROVE Typed'
  <2>1. TypeOK'
    BY <1>0, <1>4 DEF InsertWallet, Goto, TypeOK, Working, InTx
  <2>2. QED
    BY <1>4, <2>1, GotoTyped DEF InsertWallet, Working, InTx
<1>5. ASSUME NEW c \in Calls, Snapshot(c) PROVE Typed'
  <2>1. RowsOf(request[c]) \subseteq Users
    BY <1>5, WorkingHasRequest, RequestFields DEF Snapshot
  <2>2. TypeOK'
    BY <1>0, <1>5, <2>1 DEF Snapshot, Goto, TypeOK, Working, InTx
  <2>3. QED
    BY <1>5, <2>2, GotoTyped DEF Snapshot, Working, InTx
<1>6. ASSUME NEW c \in Calls, LockRow(c) PROVE Typed'
  <2>1. TypeOK'
    BY <1>0, <1>6 DEF LockRow, TypeOK
  <2>2. QED
    BY <1>6, <2>1 DEF LockRow, Typed, CallsInOrder
<1>7. ASSUME NEW c \in Calls, Reject(c) PROVE Typed'
  <2>1. PICK status \in Refusals : Respond(c, Refused(status))
    BY <1>7 DEF Reject, Refusals
  <2>2. /\ EndTx(c) /\ UNCHANGED <<wallets, balance, idempotency, topups, request>>
        /\ pc[c] = "lock"
    BY <1>7 DEF Reject, AllLocked
  <2>3. Refused(status) \in Replies
    BY AnswersAreReplies
  <2>4. TypeOK'
    BY <1>0, <2>1, <2>2, <2>3, RespondTypeOK, EndTxTypeOK DEF TypeOK
  <2>5. QED
    BY <2>1, <2>2, <2>3, <2>4, RespondTyped
<1>8. ASSUME NEW c \in Calls, Update(c) PROVE Typed'
  <2>1. TypeOK'
    BY <1>0, <1>8 DEF Update, Goto, TypeOK, Working, InTx
  <2>2. QED
    BY <1>8, <2>1, GotoTyped DEF Update, AllLocked, Working, InTx
<1>9. ASSUME NEW c \in Calls, InsertKey(c) PROVE Typed'
  <2>1. TypeOK'
    BY <1>0, <1>9 DEF InsertKey, Goto, TypeOK, Working, InTx
  <2>2. QED
    BY <1>9, <2>1, GotoTyped DEF InsertKey, Working, InTx
<1>10. ASSUME NEW c \in Calls, KeyConflict(c) PROVE Typed'
  <2>1. pc' \in [Calls -> Working \cup {"idle", "done"}]
    BY <1>0, <1>10 DEF KeyConflict, Goto, TypeOK, Working, InTx
  <2>2. TypeOK'
    BY <1>0, <1>10, <2>1, EndTxTypeOK DEF KeyConflict, TypeOK
  <2>3. request[c].op = "transfer"
    BY <1>10 DEF KeyConflict, Typed, CallsInOrder
  <2>4. QED
    BY <1>10, <2>2, <2>3, GotoTyped DEF KeyConflict, Working, InTx
<1>11. ASSUME NEW c \in Calls, Reread(c) PROVE Typed'
  <2>1. request[c] \in Requests /\ request[c].key \in Keys /\ pc[c] # "idle"
    BY <1>11, WorkingHasRequest, RequestFields DEF Reread, Typed, CallsInOrder
  <2>2. PICK answer \in Replies : Respond(c, answer)
    BY <1>0, <1>11, <2>1, CachedReplyIsReply, AnswersAreReplies DEF Reread, TypeOK, Refusals
  <2>3. TypeOK'
    BY <1>0, <1>11, <2>2, RespondTypeOK DEF Reread, TypeOK
  <2>4. QED
    BY <1>11, <2>1, <2>2, <2>3, RespondTyped DEF Reread
<1>12. ASSUME NEW c \in Calls, Commit(c) PROVE Typed'
  <2> DEFINE r == request[c]
  <2>1. r \in Requests /\ pc[c] # "idle"
    BY <1>12, WorkingHasRequest DEF Commit
  <2>2. /\ RowsOf(r) \subseteq Users
        /\ r.op \in {"transfer", "topup", "create"}
        /\ r.op = "transfer" => r.key \in Keys
        /\ r.op # "transfer" => r.user \in Users
        /\ r.op = "topup" => r.amount \in Amounts
    BY <2>1, RequestFields
  <2>3. \A u \in Users : NewBalance(c, u) \in Int
    BY <1>0, <2>1, NewBalanceIsInt
  <2>4. r.op = "transfer" => RecordOf(c) \in IdempotencyRecords
    BY <1>0, <2>1, RecordOfIsRecord
  <2>5. Result(c) \in Replies
    BY <2>2, <2>3, <2>4, AnswersAreReplies DEF Result
  <2>6. PICK answer \in Replies : Respond(c, answer)
    BY <1>12, <2>5, AnswersAreReplies DEF Commit, Refusals
  <2>7. balance' \in [Users -> Int]
    BY <1>0, <1>12, <2>3 DEF Commit, TypeOK
  <2>8. wallets' \subseteq Users
    BY <1>0, <1>12, <2>2 DEF Commit, TypeOK
  <2>9. idempotency' \in [Keys -> IdempotencyRecords \cup {NoRow}]
    BY <1>0, <1>12, <2>2, <2>4 DEF Commit, TypeOK
  <2>10. topups' \subseteq TopUpRows
    BY <1>0, <1>12, <2>2, <2>3 DEF Commit, TypeOK, TopUpRows
  <2>11. TypeOK'
    BY <1>0, <1>12, <2>6, <2>7, <2>8, <2>9, <2>10, RespondTypeOK, EndTxTypeOK
       DEF Commit, TypeOK
  <2>12. QED
    BY <1>12, <2>1, <2>6, <2>11, RespondTyped DEF Commit
<1>13. ASSUME NEW c \in Calls, Fail(c) PROVE Typed'
  <2>1. Respond(c, Refused("internal")) /\ Refused("internal") \in Replies
    BY <1>13, AnswersAreReplies DEF Fail, Refusals
  <2>2. TypeOK'
    BY <1>0, <1>13, <2>1, RespondTypeOK, EndTxTypeOK DEF Fail, TypeOK
  <2>3. QED
    BY <1>13, <2>1, <2>2, RespondTyped DEF Fail, Working, InTx
<1>14. ASSUME UNCHANGED vars PROVE Typed'
  BY <1>14 DEF vars, Typed, TypeOK, CallsInOrder
<1>15. QED
  BY <1>1, <1>2, <1>3, <1>4, <1>5, <1>6, <1>7, <1>8, <1>9, <1>10, <1>11,
     <1>12, <1>13, <1>14 DEF Next, Step

(***************************************************************************)
(* Every table, lock and handler variable keeps its type: for any number   *)
(* of calls, users, keys and amounts.                                      *)
(***************************************************************************)
THEOREM TypeCorrect == Spec => []TypeOK
<1>1. Spec => []Typed
  BY InitTyped, NextTyped, PTL DEF Spec
<1>2. Typed => TypeOK
  BY DEF Typed
<1>3. QED
  BY <1>1, <1>2, PTL

-----------------------------------------------------------------------------
(***************************************************************************)
(* The locks.  A step is taken by one call; the invariant of every other   *)
(* call survives it, because the step takes only free locks and releases   *)
(* only its own, and because a COMMIT writes only what its call has locked.*)
(***************************************************************************)
Own(c) == Receive(c) \/ Step(c) \/ Fail(c)

\* A step of call c leaves the variables and the locks of call d alone.
Unmoved(d) ==
    /\ pc'[d] = pc[d] /\ request'[d] = request[d] /\ reply'[d] = reply[d]
    /\ visible'[d] = visible[d] /\ read'[d] = read[d]
    /\ \A u \in Users : rowLock'[u] = d <=> rowLock[u] = d
    /\ \A k \in Keys : keyLock'[k] = d <=> keyLock[k] = d

\* It also leaves the rows alone that call d has locked.
RowsUnmoved(d) ==
    /\ wallets \subseteq wallets'
    /\ \A u \in Users : rowLock[u] = d =>
          balance'[u] = balance[u] /\ (u \in wallets' <=> u \in wallets)
    /\ \A k \in Keys : keyLock[k] = d => idempotency'[k] = idempotency[k]

\* The end of a transaction touches no lock and no local variable of another call.
LEMMA EndTxFrame ==
    ASSUME TypeOK, NEW c \in Calls, EndTx(c)
    PROVE  /\ \A u \in Users : rowLock'[u] # c
           /\ \A k \in Keys : keyLock'[k] # c
           /\ visible'[c] = {} /\ read'[c] = Zero
           /\ \A d \in Calls \ {c} :
                 /\ visible'[d] = visible[d] /\ read'[d] = read[d]
                 /\ \A u \in Users : rowLock'[u] = d <=> rowLock[u] = d
                 /\ \A k \in Keys : keyLock'[k] = d <=> keyLock[k] = d
BY NobodyAssumption DEF EndTx, TypeOK

\* A step of one call leaves the request, answer and local variables of the others alone.
LEMMA StepFrame ==
    ASSUME TypeOK, NEW c \in Calls, Own(c), NEW d \in Calls \ {c}
    PROVE  Unmoved(d)
<1> USE DEF Unmoved, tables, locks, local, Goto, Respond
<1>1. CASE Receive(c)
  BY <1>1 DEF Receive, TypeOK
<1>2. CASE LookupMiss(c) \/ LookupHit(c) \/ Update(c) \/ Reread(c)
  BY <1>2 DEF LookupMiss, LookupHit, Update, Reread, TypeOK
<1>3. CASE InsertWallet(c)
  BY <1>3, NobodyAssumption DEF InsertWallet, TypeOK
<1>4. CASE Snapshot(c)
  BY <1>4 DEF Snapshot, TypeOK
<1>5. CASE LockRow(c)
  BY <1>5, NobodyAssumption DEF LockRow, RowIsFree, TypeOK
<1>6. CASE InsertKey(c)
  BY <1>6, NobodyAssumption DEF InsertKey, TypeOK
<1>7. CASE Reject(c) \/ KeyConflict(c) \/ Commit(c) \/ Fail(c)
  BY <1>7, EndTxFrame DEF Reject, KeyConflict, Commit, Fail, TypeOK
<1>8. QED
  BY <1>1, <1>2, <1>3, <1>4, <1>5, <1>6, <1>7 DEF Own, Step

\* Only COMMIT writes the tables.
LEMMA OnlyCommitWrites ==
    ASSUME NEW c \in Calls, Own(c), ~Commit(c)
    PROVE  UNCHANGED <<wallets, balance, idempotency, topups>>
BY DEF Own, Step, Receive, LookupMiss, LookupHit, InsertWallet, Snapshot, LockRow,
       Reject, Update, InsertKey, KeyConflict, Reread, Fail, tables

\* COMMIT changes no row but those that its call has locked.
LEMMA CommitFrame ==
    ASSUME Typed, NEW c \in Calls, LocksInOrder(c), Commit(c), NEW d \in Calls \ {c}
    PROVE  RowsUnmoved(d)
<1>1. \A u \in RowsOf(request[c]) : rowLock[u] = c
  BY DEF Commit, LocksInOrder, ReadyToCommit
<1>2. request[c].op = "transfer" => keyLock[request[c].key] = c
  BY DEF Commit, LocksInOrder, ReadyToCommit
<1>3. QED
  BY <1>1, <1>2 DEF Commit, RowsUnmoved, Typed, TypeOK

\* The step of a call keeps the locks of every other call in order.
LEMMA OthersKeepLocks ==
    ASSUME Typed, NEW d \in Calls, LocksInOrder(d), Unmoved(d), RowsUnmoved(d)
    PROVE  LocksInOrder(d)'
<1> USE DEF Unmoved
<1>0. visible[d] \subseteq Users
  BY DEF Typed, TypeOK
<1>1. LocalsInOrder(d)'
  BY <1>0 DEF LocksInOrder, LocalsInOrder, RowsUnmoved, RowsOf
<1>2. RowLocksInOrder(d)'
  BY DEF LocksInOrder, RowLocksInOrder, RowsUnmoved, RowsOf
<1>3. KeyLocksInOrder(d)'
  BY DEF LocksInOrder, KeyLocksInOrder, RowsUnmoved
<1>4. ReadyToCommit(d)'
  <2>1. (Overdrawn(d)' <=> Overdrawn(d)) /\ (Overflows(d)' <=> Overflows(d))
    BY DEF Overdrawn, Overflows, NewBalance, RowsOf
  <2>2. SUFFICES ASSUME pc[d] \in {"insertKey", "commit"}
                 PROVE  ReadyToCommit(d)'
    BY DEF ReadyToCommit
  <2>3. pc[d] = "commit" /\ request[d].op = "transfer" =>
           request[d].key \in Keys /\ keyLock[request[d].key] = d
    BY <2>2, WorkingHasRequest, RequestFields DEF LocksInOrder, ReadyToCommit
  <2>4. QED
    BY <1>0, <2>1, <2>2, <2>3 DEF LocksInOrder, ReadyToCommit, RowsOf
<1>5. ReadIsCurrent(d)'
  BY <1>0 DEF LocksInOrder, ReadIsCurrent, RowsUnmoved
<1>6. QED
  BY <1>1, <1>2, <1>3, <1>4, <1>5 DEF LocksInOrder

\* The step of a call keeps its own locks in order.
LEMMA OwnKeepsLocks ==
    ASSUME Typed, Typed', LockInv, NEW c \in Calls, Own(c)
    PROVE  LocksInOrder(c)'
<1> USE DEF tables, locks, local, Goto, Respond
<1>0. /\ LocksInOrder(c) /\ TypeOK /\ TypeOK'
      /\ \A u \in Users \ wallets : balance[u] = 0
  BY DEF LockInv, Typed, NoMoneyOutsideWallets
<1>1. ASSUME pc'[c] \notin {"begin", "lock", "insertKey", "commit"},
             visible'[c] = {}, read'[c] = Zero,
             \A u \in Users : rowLock'[u] # c, \A k \in Keys : keyLock'[k] # c
      PROVE  LocksInOrder(c)'
  BY <1>1 DEF LocksInOrder, LocalsInOrder, RowLocksInOrder, KeyLocksInOrder,
              ReadyToCommit, ReadIsCurrent, Zero
<1>2. CASE Receive(c)
  <2>1. pc[c] = "idle" /\ UNCHANGED <<rowLock, keyLock, visible, read>>
    BY <1>2 DEF Receive
  <2>2. PICK r \in Requests : \/ Goto(c, FirstStep(r)) \/ pc' = [pc EXCEPT ![c] = "done"]
    BY <1>2 DEF Receive
  <2>3. pc'[c] \in {"lookup", "begin", "insertWallet", "done"}
    BY <1>0, <2>2, RequestFields DEF FirstStep, TypeOK
  <2>4. QED
    BY <1>0, <2>1, <2>3 DEF LocksInOrder, LocalsInOrder, RowLocksInOrder,
       KeyLocksInOrder, ReadyToCommit, ReadIsCurrent, Zero
<1>3. CASE LookupMiss(c)
  BY <1>0, <1>3 DEF LookupMiss, LocksInOrder, LocalsInOrder, RowLocksInOrder,
     KeyLocksInOrder, ReadyToCommit, ReadIsCurrent, Zero, TypeOK
<1>4. CASE LookupHit(c) \/ Reread(c)
  <2>1. pc[c] \in {"lookup", "reread"} /\ pc'[c] = "done"
    BY <1>0, <1>4 DEF LookupHit, Reread, TypeOK
  <2>2. UNCHANGED <<rowLock, keyLock, visible, read>>
    BY <1>4 DEF LookupHit, Reread
  <2>3. QED
    BY <1>0, <1>1, <2>1, <2>2 DEF LocksInOrder, LocalsInOrder, RowLocksInOrder,
       KeyLocksInOrder
<1>5. CASE InsertWallet(c)
  <2>1. request[c].op = "create" /\ request[c].user \in Users
    BY <1>5, WorkingHasRequest, RequestFields DEF InsertWallet, LockInv, CallsInOrder
  <2>2. /\ pc[c] = "insertWallet" /\ pc'[c] = "begin"
        /\ UNCHANGED <<wallets, request, keyLock, visible, read>>
    BY <1>0, <1>5 DEF InsertWallet, TypeOK
  <2>3. \A u \in Users : rowLock'[u] = c => u = request[c].user /\ u \notin wallets
    BY <1>0, <1>5, <2>1, <2>2 DEF InsertWallet, TypeOK, LocksInOrder, RowLocksInOrder
  <2>4. \A k \in Keys : keyLock'[k] # c
    BY <1>0, <2>2 DEF LocksInOrder, KeyLocksInOrder
  <2>5. LocalsInOrder(c)' /\ ReadyToCommit(c)' /\ ReadIsCurrent(c)'
    BY <1>0, <2>2 DEF LocksInOrder, LocalsInOrder, ReadyToCommit, ReadIsCurrent, Zero
  <2>6. RowLocksInOrder(c)' /\ KeyLocksInOrder(c)'
    BY <2>1, <2>2, <2>3, <2>4 DEF RowLocksInOrder, KeyLocksInOrder, RowsOf
  <2>7. QED
    BY <2>5, <2>6 DEF LocksInOrder
<1>6. CASE Snapshot(c)
  <2>1. RowsOf(request[c]) \subseteq Users
    BY <1>6, WorkingHasRequest, RequestFields DEF Snapshot
  <2>2. /\ pc[c] = "begin" /\ pc'[c] = "lock"
        /\ visible'[c] = {u \in RowsOf(request[c]) : u \in wallets \/ rowLock[u] = c}
        /\ UNCHANGED <<wallets, balance, idempotency, request, rowLock, keyLock, read>>
    BY <1>0, <1>6 DEF Snapshot, TypeOK
  <2>3. LocalsInOrder(c)' /\ ReadyToCommit(c)'
    BY <1>0, <2>1, <2>2
       DEF LocksInOrder, LocalsInOrder, RowLocksInOrder, ReadyToCommit, RowsOf
  <2>4. RowLocksInOrder(c)' /\ KeyLocksInOrder(c)'
    BY <1>0, <2>2 DEF LocksInOrder, RowLocksInOrder, KeyLocksInOrder, RowsOf
  <2>5. ReadIsCurrent(c)'
    \* A row it holds already is one it has inserted: nothing is in it.
    BY <1>0, <2>1, <2>2 DEF LocksInOrder, LocalsInOrder, RowLocksInOrder, ReadIsCurrent, Zero
  <2>6. QED
    BY <2>3, <2>4, <2>5 DEF LocksInOrder
<1>7. CASE LockRow(c)
  <2>1. PICK u \in Users : /\ NextRow(c, u)
                           /\ rowLock' = [rowLock EXCEPT ![u] = c]
                           /\ read' = [read EXCEPT ![c][u] = balance[u]]
    BY <1>7 DEF LockRow
  <2>2. /\ pc[c] = "lock"
        /\ UNCHANGED <<wallets, balance, idempotency, request, keyLock, visible, pc>>
    BY <1>7 DEF LockRow
  <2>3. u \in visible[c] /\ visible[c] \subseteq RowsOf(request[c])
    BY <1>0, <2>1, <2>2 DEF NextRow, Unlocked, LocksInOrder, LocalsInOrder
  <2>4. LocalsInOrder(c)' /\ ReadyToCommit(c)'
    BY <1>0, <2>1, <2>2 DEF LocksInOrder, LocalsInOrder, ReadyToCommit, RowsOf, TypeOK
  <2>5. RowLocksInOrder(c)' /\ KeyLocksInOrder(c)'
    BY <1>0, <2>1, <2>2, <2>3
       DEF LocksInOrder, RowLocksInOrder, KeyLocksInOrder, RowsOf, TypeOK
  <2>6. ReadIsCurrent(c)'
    BY <1>0, <2>1, <2>2 DEF LocksInOrder, ReadIsCurrent, TypeOK
  <2>7. QED
    BY <2>4, <2>5, <2>6 DEF LocksInOrder
<1>8. CASE Update(c)
  <2>1. /\ pc[c] = "lock" /\ Unlocked(c) = {}
        /\ ~Missing(c) /\ ~Overdrawn(c) /\ ~Overflows(c)
        /\ UNCHANGED <<wallets, balance, idempotency, request, rowLock, keyLock,
                       visible, read>>
    BY <1>8 DEF Update, AllLocked
  <2>2. /\ pc'[c] \in {"insertKey", "commit"}
        /\ pc'[c] = "commit" => request[c].op # "transfer"
    BY <1>0, <1>8 DEF Update, TypeOK
  <2>3. ~Overdrawn(c)' /\ ~Overflows(c)'
    BY <2>1 DEF Overdrawn, Overflows, NewBalance, RowsOf
  <2>4. visible[c] = RowsOf(request[c]) /\ \A u \in visible[c] : rowLock[u] = c
    BY <2>1 DEF Missing, Unlocked
  <2>5. ReadyToCommit(c)'
    BY <2>1, <2>2, <2>3, <2>4 DEF ReadyToCommit, RowsOf
  <2>6. LocalsInOrder(c)' /\ RowLocksInOrder(c)' /\ KeyLocksInOrder(c)' /\ ReadIsCurrent(c)'
    BY <1>0, <2>1, <2>2 DEF LocksInOrder, LocalsInOrder, RowLocksInOrder,
       KeyLocksInOrder, ReadIsCurrent, RowsOf
  <2>7. QED
    BY <2>5, <2>6 DEF LocksInOrder
<1>9. CASE InsertKey(c)
  <2>1. request[c].op = "transfer" /\ request[c].key \in Keys
    BY <1>9, WorkingHasRequest, RequestFields DEF InsertKey, LockInv, CallsInOrder
  <2>2. /\ pc[c] = "insertKey" /\ pc'[c] = "commit"
        /\ idempotency[request[c].key] = NoRow
        /\ keyLock' = [keyLock EXCEPT ![request[c].key] = c]
        /\ UNCHANGED <<wallets, balance, idempotency, request, rowLock, visible, read>>
    BY <1>0, <1>9 DEF InsertKey, TypeOK
  <2>3. ~Overdrawn(c)' /\ ~Overflows(c)'
    BY <1>0, <2>2 DEF LocksInOrder, ReadyToCommit, Overdrawn, Overflows, NewBalance, RowsOf
  <2>4. ReadyToCommit(c)'
    BY <1>0, <2>1, <2>2, <2>3 DEF LocksInOrder, ReadyToCommit, RowsOf, TypeOK
  <2>5. KeyLocksInOrder(c)'
    BY <1>0, <2>1, <2>2 DEF LocksInOrder, KeyLocksInOrder, TypeOK
  <2>6. LocalsInOrder(c)' /\ RowLocksInOrder(c)' /\ ReadIsCurrent(c)'
    BY <1>0, <2>2 DEF LocksInOrder, LocalsInOrder, RowLocksInOrder, ReadIsCurrent, RowsOf
  <2>7. QED
    BY <2>4, <2>5, <2>6 DEF LocksInOrder
<1>10. CASE Reject(c) \/ KeyConflict(c) \/ Commit(c) \/ Fail(c)
  <2>1. pc'[c] \in {"done", "reread"}
    BY <1>0, <1>10 DEF Reject, KeyConflict, Commit, Fail, TypeOK
  <2>2. EndTx(c)
    BY <1>10 DEF Reject, KeyConflict, Commit, Fail
  <2>3. QED
    BY <1>0, <1>1, <2>1, <2>2, EndTxFrame
<1>11. QED
  BY <1>2, <1>3, <1>4, <1>5, <1>6, <1>7, <1>8, <1>9, <1>10 DEF Own, Step

\* Wallets are not deleted, and a call that creates one keeps its own row.
LEMMA OthersFindRow ==
    ASSUME Typed, NEW d \in Calls, CreateFindsRow(d), Unmoved(d), RowsUnmoved(d)
    PROVE  CreateFindsRow(d)'
<1>1. pc[d] = "begin" /\ request[d].op = "create" => RowsOf(request[d]) \subseteq Users
  BY WorkingHasRequest, RequestFields
<1>2. QED
  BY <1>1 DEF CreateFindsRow, Unmoved, RowsUnmoved, RowsOf, Missing

\* A call that creates a wallet finds its row, whatever its own next step.
LEMMA OwnFindsRow ==
    ASSUME Typed, Typed', LockInv, NEW c \in Calls, Own(c)
    PROVE  CreateFindsRow(c)'
<1> USE DEF tables, locks, local, Goto, Respond
<1>0. TypeOK /\ CreateFindsRow(c)
  BY DEF LockInv, Typed
<1>1. CASE Receive(c)
  <2>1. PICK r \in Requests : /\ request' = [request EXCEPT ![c] = r]
                              /\ \/ Goto(c, FirstStep(r))
                                 \/ pc' = [pc EXCEPT ![c] = "done"]
    BY <1>1 DEF Receive
  <2>2. r.op = "create" => pc'[c] \in {"insertWallet", "done"}
    BY <1>0, <2>1 DEF FirstStep, TypeOK
  <2>3. pc'[c] \in {"lookup", "begin", "insertWallet", "done"} /\ request'[c] = r
    BY <1>0, <2>1, RequestFields DEF FirstStep, TypeOK
  <2>4. QED
    BY <2>2, <2>3 DEF CreateFindsRow
<1>2. CASE InsertWallet(c)
  <2>1. request[c].op = "create" /\ request[c].user \in Users
    BY <1>2, WorkingHasRequest, RequestFields DEF InsertWallet, LockInv, CallsInOrder
  <2>2. QED
    BY <1>0, <1>2, <2>1 DEF InsertWallet, CreateFindsRow, RowsOf, TypeOK
<1>3. CASE Snapshot(c)
  <2>1. RowsOf(request[c]) \subseteq Users
    BY <1>3, WorkingHasRequest, RequestFields DEF Snapshot
  <2>2. QED
    BY <1>0, <1>3, <2>1 DEF Snapshot, CreateFindsRow, Missing, RowsOf, TypeOK
<1>4. CASE LockRow(c)
  BY <1>0, <1>4 DEF LockRow, CreateFindsRow, Missing, RowsOf
<1>5. CASE LookupMiss(c)
  BY <1>0, <1>5 DEF LookupMiss, CreateFindsRow, LockInv, CallsInOrder, TypeOK
<1>6. CASE LookupHit(c) \/ Reread(c) \/ Update(c) \/ InsertKey(c) \/ KeyConflict(c)
           \/ Reject(c) \/ Commit(c) \/ Fail(c)
  <2>1. pc'[c] \notin {"begin", "lock"}
    BY <1>0, <1>6 DEF LookupHit, Reread, Update, InsertKey, KeyConflict, Reject, Commit,
                      Fail, TypeOK
  <2>2. QED
    BY <2>1 DEF CreateFindsRow
<1>7. QED
  BY <1>1, <1>2, <1>3, <1>4, <1>5, <1>6 DEF Own, Step


\* COMMIT puts money only where there is a wallet.
LEMMA MoneyStaysInWallets ==
    ASSUME TypeOK, NoMoneyOutsideWallets, NEW c \in Calls, Own(c)
    PROVE  NoMoneyOutsideWallets'
<1>1. CASE Commit(c)
  BY <1>1 DEF Commit, NoMoneyOutsideWallets, TypeOK
<1>2. CASE ~Commit(c)
  BY <1>2, OnlyCommitWrites DEF NoMoneyOutsideWallets
<1>3. QED
  BY <1>1, <1>2

\* The inductive invariant holds at the start.
LEMMA InitLockInv == Init => LockInv
BY InitTyped, SeedAssumption, NobodyAssumption
   DEF Init, LockInv, Typed, NoMoneyOutsideWallets, LocksInOrder, LocalsInOrder,
       RowLocksInOrder, KeyLocksInOrder, ReadyToCommit, ReadIsCurrent, Zero,
       CreateFindsRow

\* Every step keeps the inductive invariant.
LEMMA NextLockInv == Typed /\ LockInv /\ [Next]_vars => LockInv'
<1> SUFFICES ASSUME Typed, LockInv, [Next]_vars PROVE LockInv'
    OBVIOUS
<1>1. Typed'
  BY NextTyped
<1>2. CASE UNCHANGED vars
  <2>1. \A d \in Calls : Unmoved(d) /\ RowsUnmoved(d)
    BY <1>2 DEF vars, Unmoved, RowsUnmoved
  <2>2. \A d \in Calls : LocksInOrder(d)' /\ CreateFindsRow(d)'
    BY <2>1, OthersKeepLocks, OthersFindRow DEF LockInv
  <2>3. NoMoneyOutsideWallets'
    BY <1>2 DEF vars, LockInv, NoMoneyOutsideWallets
  <2>4. QED
    BY <1>1, <2>2, <2>3 DEF LockInv, Typed
<1>3. ASSUME NEW c \in Calls, Own(c) PROVE LockInv'
  <2>1. LocksInOrder(c)' /\ CreateFindsRow(c)'
    BY <1>1, <1>3, OwnKeepsLocks, OwnFindsRow
  <2>2. ASSUME NEW d \in Calls \ {c} PROVE LocksInOrder(d)' /\ CreateFindsRow(d)'
    <3>1. Unmoved(d)
      BY <1>3, StepFrame DEF Typed
    <3>2. RowsUnmoved(d)
      <4>1. CASE Commit(c)
        BY <4>1, CommitFrame DEF LockInv
      <4>2. CASE ~Commit(c)
        BY <1>3, <4>2, OnlyCommitWrites DEF RowsUnmoved
      <4>3. QED
        BY <4>1, <4>2
    <3>3. QED
      BY <3>1, <3>2, OthersKeepLocks, OthersFindRow DEF LockInv
  <2>3. NoMoneyOutsideWallets'
    BY <1>3, MoneyStaysInWallets DEF Typed, LockInv
  <2>4. QED
    BY <1>1, <2>1, <2>2, <2>3 DEF LockInv, Typed
<1>4. QED
  BY <1>2, <1>3 DEF Next, Own

(***************************************************************************)
(* Rows, keys and the handlers' variables stay in order: a transaction     *)
(* holds what it will write, reads it once it holds it, and leaves no lock *)
(* behind, for any number of calls, users, keys and amounts.               *)
(***************************************************************************)
THEOREM LocksAreInOrder == Spec => []Inv
<1>1. Spec => [](Typed /\ LockInv)
  BY InitTyped, NextTyped, InitLockInv, NextLockInv, PTL DEF Spec
<1>2. Typed /\ LockInv => Inv
  BY DEF Typed, Inv
<1>3. QED
  BY <1>1, <1>2, PTL

(***************************************************************************)
(* No update is lost: what a transaction has read under its locks is what  *)
(* the table holds until it ends.                                          *)
(***************************************************************************)
THEOREM NoLostUpdate == Spec => []LockedReadIsCurrent
<1>1. Spec => [](Typed /\ LockInv)
  BY InitTyped, NextTyped, InitLockInv, NextLockInv, PTL DEF Spec
<1>2. LockInv => LockedReadIsCurrent
  BY DEF LockInv, LocksInOrder, LockedReadIsCurrent
<1>3. QED
  BY <1>1, <1>2, PTL

-----------------------------------------------------------------------------
(***************************************************************************)
(* The balances.                                                           *)
(***************************************************************************)
LEMMA NextBalancesInRange ==
    Typed /\ LockInv /\ BalancesInRange /\ [Next]_vars => BalancesInRange'
<1> SUFFICES ASSUME Typed, LockInv, BalancesInRange, [Next]_vars
             PROVE  BalancesInRange'
    OBVIOUS
<1>1. CASE UNCHANGED vars
  BY <1>1 DEF vars, BalancesInRange
<1>2. ASSUME NEW c \in Calls, Own(c), ~Commit(c) PROVE BalancesInRange'
  BY <1>2, OnlyCommitWrites DEF BalancesInRange
<1>3. ASSUME NEW c \in Calls, Commit(c) PROVE BalancesInRange'
  <2> DEFINE r == request[c]
  <2>1. r \in Requests /\ Valid(r) /\ RowsOf(r) \subseteq Users
    BY <1>3, WorkingHasRequest, RequestFields
       DEF Commit, LockInv, CallsInOrder, Working, InTx
  <2>2. \A u \in RowsOf(r) : read[c][u] = balance[u]
    BY <1>3 DEF Commit, LockInv, LocksInOrder, ReadyToCommit, ReadIsCurrent
  <2>3. /\ \A u \in RowsOf(r) : ~(NewBalance(c, u) > MaxBalance)
        /\ r.op = "transfer" => ~(read[c][r.sender] < r.amount)
    BY <1>3 DEF Commit, LockInv, LocksInOrder, ReadyToCommit, Overflows, Overdrawn
  <2>4. ASSUME NEW u \in RowsOf(r) PROVE NewBalance(c, u) \in 0 .. MaxBalance
    <3>1. /\ u \in Users /\ read[c][u] = balance[u]
          /\ balance[u] \in Nat /\ NewBalance(c, u) \in Int
      BY <2>1, <2>2, <2>4, NewBalanceIsInt, MaxAssumption DEF BalancesInRange, Typed
    <3>2. r.op # "create" => r.amount \in Int /\ r.amount > 0
      BY <2>1, RequestFields, AmountsAssumption DEF Valid
    <3>3. r.op = "transfer" => r.sender \in RowsOf(r)
      BY DEF RowsOf
    <3>4. NewBalance(c, u) >= 0
      BY <2>1, <2>2, <2>3, <3>1, <3>2, <3>3, RequestFields DEF NewBalance
    <3>5. QED
      BY <2>3, <3>1, <3>4, MaxAssumption
  <2>5. QED
    BY <1>3, <2>4 DEF Commit, BalancesInRange
<1>4. QED
  BY <1>1, <1>2, <1>3 DEF Next, Own

(***************************************************************************)
(* No interleaving spends the same money twice, or fills a wallet beyond   *)
(* its column: every balance stays between 0 and the largest NUMERIC.      *)
(***************************************************************************)
THEOREM NoOverdraft == Spec => []BalancesInRange
<1>1. Init => BalancesInRange
  BY SeedAssumption DEF Init, BalancesInRange
<1>2. QED
  BY <1>1, InitTyped, NextTyped, InitLockInv, NextLockInv, NextBalancesInRange, PTL
     DEF Spec

-----------------------------------------------------------------------------
(***************************************************************************)
(* The answers.                                                            *)
(***************************************************************************)
\* An answer, once given, stays; only the call that steps is answered.
LEMMA AnswersStay ==
    ASSUME Typed, NEW c \in Calls, Own(c), NEW d \in Calls, reply[d] # NoRow
    PROVE  reply'[d] = reply[d] /\ request'[d] = request[d] /\ d # c
<1>1. pc[d] = "done"
  BY DEF Typed, CallsInOrder
<1>2. pc[c] # "done"
  BY DEF Own, Step, Receive, LookupMiss, LookupHit, InsertWallet, Snapshot, LockRow,
         Reject, AllLocked, Update, InsertKey, KeyConflict, Reread, Commit, Fail,
         Working, InTx
<1>3. Unmoved(d)
  BY <1>1, <1>2, StepFrame DEF Typed
<1>4. QED
  BY <1>1, <1>2, <1>3 DEF Unmoved

\* A stored result stays, whatever commits.
LEMMA RecordsStay ==
    ASSUME Typed, LockInv, NEW c \in Calls, Own(c),
           NEW k \in Keys, idempotency[k] # NoRow
    PROVE  idempotency'[k] = idempotency[k]
<1>1. CASE Commit(c)
  <2>1. request[c].op = "transfer" =>
           request[c].key \in Keys /\ idempotency[request[c].key] = NoRow
    BY <1>1, WorkingHasRequest, RequestFields
       DEF Commit, LockInv, LocksInOrder, ReadyToCommit, KeyLocksInOrder
  <2>2. QED
    BY <1>1, <2>1 DEF Commit, Typed, TypeOK
<1>2. CASE ~Commit(c)
  BY <1>2, OnlyCommitWrites
<1>3. QED
  BY <1>1, <1>2

\* The answer a step gives is a cached one, that of its COMMIT, or a refusal.
LEMMA AnswerOfStep ==
    ASSUME Typed, LockInv, NEW c \in Calls, Own(c), reply'[c] # NoRow
    PROVE  \/ /\ request'[c] = request[c] /\ request[c].op = "transfer"
              /\ idempotency[request[c].key] # NoRow
              /\ reply'[c] = CachedReply(idempotency[request[c].key], request[c])
              /\ ~Commit(c)
           \/ Commit(c) /\ reply'[c] = Result(c)
           \/ \E status \in Refusals : /\ reply'[c] = Refused(status)
                                       /\ Commit(c) => status = "internal"
<1>0. TypeOK /\ reply[c] = NoRow
  BY AnswersStay DEF Typed
<1> USE DEF Respond, Refusals
<1>1. CASE Receive(c)
  <2>1. reply' = [reply EXCEPT ![c] = Refused("invalid")] /\ ~Commit(c)
    BY <1>0, <1>1 DEF Receive, Commit
  <2>2. QED
    BY <1>0, <2>1 DEF TypeOK
<1>2. CASE LookupHit(c) \/ Reread(c)
  <2>1. ~Commit(c) /\ request[c].op = "transfer"
    BY <1>2 DEF LookupHit, Reread, Commit, Typed, CallsInOrder
  <2>2. QED
    BY <1>0, <1>2, <2>1 DEF LookupHit, Reread, TypeOK
<1>3. CASE LookupMiss(c) \/ InsertWallet(c) \/ Snapshot(c) \/ LockRow(c) \/ Update(c)
           \/ InsertKey(c) \/ KeyConflict(c)
  BY <1>0, <1>3 DEF LookupMiss, InsertWallet, Snapshot, LockRow, Update, InsertKey, KeyConflict
<1>4. CASE Reject(c)
  <2>1. ~Commit(c)
    BY <1>4 DEF Reject, AllLocked, Commit
  <2>2. QED
    BY <1>0, <1>4, <2>1 DEF Reject, TypeOK
<1>5. CASE Commit(c)
  BY <1>0, <1>5 DEF Commit, TypeOK
<1>6. CASE Fail(c)
  BY <1>0, <1>6 DEF Fail, TypeOK
<1>7. QED
  BY <1>1, <1>2, <1>3, <1>4, <1>5, <1>6 DEF Own, Step

\* Every step keeps the answers of duplicates in agreement.
LEMMA NextDuplicatesAgree ==
    Typed /\ LockInv /\ DuplicatesAgree /\ [Next]_vars => DuplicatesAgree'
<1> SUFFICES ASSUME Typed, LockInv, DuplicatesAgree, [Next]_vars
             PROVE  DuplicatesAgree'
    OBVIOUS
<1>1. CASE UNCHANGED vars
  BY <1>1 DEF vars, DuplicatesAgree
<1>2. ASSUME NEW c \in Calls, Own(c), NEW d \in Calls,
             request'[d] # NoRow, request'[d].op = "transfer",
             reply'[d] # NoRow, reply'[d].status = "ok"
      PROVE  /\ idempotency'[request'[d].key] # NoRow
             /\ IsSamePayload(idempotency'[request'[d].key], request'[d])
             /\ reply'[d] = ToResult(idempotency'[request'[d].key])
  <2>1. request'[d].key \in Keys
    BY <1>2, NextTyped, RequestFields DEF Typed, TypeOK
  <2>2. CASE reply[d] # NoRow
    <3>1. reply'[d] = reply[d] /\ request'[d] = request[d]
      BY <1>2, <2>2, AnswersStay
    <3>2. /\ idempotency[request[d].key] # NoRow
          /\ IsSamePayload(idempotency[request[d].key], request[d])
          /\ reply[d] = ToResult(idempotency[request[d].key])
      BY <1>2, <2>2, <3>1 DEF DuplicatesAgree
    <3>3. idempotency'[request[d].key] = idempotency[request[d].key]
      BY <1>2, <2>1, <3>1, <3>2, RecordsStay
    <3>4. QED
      BY <3>1, <3>2, <3>3
  <2>3. CASE reply[d] = NoRow
    <3>1. d = c
      BY <1>2, <2>3, StepFrame DEF Typed, Unmoved
    <3>2. CASE /\ request'[c] = request[c] /\ idempotency[request[c].key] # NoRow
               /\ reply'[c] = CachedReply(idempotency[request[c].key], request[c])
      <4>1. idempotency'[request[c].key] = idempotency[request[c].key]
        BY <1>2, <2>1, <3>1, <3>2, RecordsStay
      <4>2. IsSamePayload(idempotency[request[c].key], request[c])
        BY <1>2, <3>1, <3>2 DEF CachedReply, Refused
      <4>3. QED
        BY <3>1, <3>2, <4>1, <4>2 DEF CachedReply
    <3>3. CASE Commit(c) /\ reply'[c] = Result(c)
      <4>1. request'[c] = request[c] /\ request[c].op = "transfer"
        BY <1>2, <3>1, <3>3 DEF Commit
      <4>2. RecordOf(c) \in IdempotencyRecords
        BY <3>3, <4>1, WorkingHasRequest, RecordOfIsRecord DEF Commit, Typed
      <4>3. idempotency'[request[c].key] = RecordOf(c)
        BY <2>1, <3>1, <3>3, <4>1 DEF Commit, Typed, TypeOK
      <4>4. IsSamePayload(RecordOf(c), request[c])
        BY DEF IsSamePayload, RecordOf
      <4>5. QED
        BY <3>1, <3>3, <4>1, <4>2, <4>3, <4>4, AnswersAreReplies DEF Result
    <3>4. CASE \E status \in Refusals : reply'[c] = Refused(status)
      BY <1>2, <3>1, <3>4 DEF Refused, Refusals
    <3>5. QED
      BY <1>2, <3>1, <3>2, <3>3, <3>4, AnswerOfStep
  <2>4. QED
    BY <2>2, <2>3
<1>3. QED
  BY <1>1, <1>2 DEF Next, Own, DuplicatesAgree

(***************************************************************************)
(* All the transfers answered "ok" under one key are answered alike, with  *)
(* the result that is stored for it.                                       *)
(***************************************************************************)
THEOREM DuplicatesAnsweredAlike == Spec => []DuplicatesAgree
<1>1. Init => DuplicatesAgree
  BY DEF Init, DuplicatesAgree
<1>2. QED
  BY <1>1, InitTyped, NextTyped, InitLockInv, NextLockInv, NextDuplicatesAgree, PTL
     DEF Spec

\* The rows that a step adds are those of the call that takes it.
LEMMA OthersUntouched ==
    ASSUME Typed, NEW c \in Calls, Own(c), NEW d \in Calls \ {c}, Untouched(d)
    PROVE  Untouched(d)'
<1>1. CASE Commit(c)
  <2>1. \A k \in Keys : idempotency'[k] \in {idempotency[k], RecordOf(c)}
    BY <1>1 DEF Commit, Typed, TypeOK
  <2>2. RecordOf(c).transaction = c
    BY DEF RecordOf
  <2>3. \A row \in topups' : row \in topups \/ row.id = c
    BY <1>1 DEF Commit
  <2>4. QED
    BY <2>1, <2>2, <2>3 DEF Untouched
<1>2. CASE ~Commit(c)
  BY <1>2, OnlyCommitWrites DEF Untouched
<1>3. QED
  BY <1>1, <1>2

\* Every step keeps this: a call that has left a row is answered, not refused.
LEMMA NextTracesAreAnswered ==
    Typed /\ LockInv /\ TracesAreAnswered /\ [Next]_vars => TracesAreAnswered'
<1> SUFFICES ASSUME Typed, LockInv, TracesAreAnswered, [Next]_vars
             PROVE  TracesAreAnswered'
    OBVIOUS
<1>1. CASE UNCHANGED vars
  BY <1>1 DEF vars, TracesAreAnswered, Untouched
<1>2. ASSUME NEW c \in Calls, Own(c), NEW d \in Calls, ~Untouched(d)'
      PROVE  reply'[d] # NoRow /\ reply'[d].status \in {"ok", "internal"}
  <2>1. CASE d # c
    <3>1. ~Untouched(d)
      BY <1>2, <2>1, OthersUntouched
    <3>2. reply[d] # NoRow /\ reply[d].status \in {"ok", "internal"}
      BY <3>1 DEF TracesAreAnswered
    <3>3. QED
      BY <1>2, <3>2, AnswersStay
  <2>2. CASE d = c
    <3>1. CASE ~Commit(c)
      <4>1. ~Untouched(c)
        BY <1>2, <2>2, <3>1, OnlyCommitWrites DEF Untouched
      <4>2. reply[c] # NoRow
        BY <4>1 DEF TracesAreAnswered
      <4>3. QED
        BY <1>2, <4>2, AnswersStay
    <3>2. CASE Commit(c)
      <4>1. reply'[c] \in {Result(c), Refused("internal")}
        BY <3>2 DEF Commit, Respond, Typed, TypeOK
      <4>2. Result(c).status = "ok" /\ Refused("internal").status = "internal"
        BY DEF Result, ToResult, BalanceResult, Refused
      <4>3. pc'[c] = "done"
        BY <3>2 DEF Commit, Respond, Goto, Typed, TypeOK
      <4>4. reply'[c] # NoRow
        BY <4>3, NextTyped DEF Typed, CallsInOrder
      <4>5. QED
        BY <2>2, <4>1, <4>2, <4>4
    <3>3. QED
      BY <3>1, <3>2
  <2>3. QED
    BY <2>1, <2>2
<1>3. ASSUME NEW c \in Calls, Own(c) PROVE TracesAreAnswered'
  BY <1>2, <1>3, Zenon DEF TracesAreAnswered
<1>4. QED
  BY <1>1, <1>3 DEF Next, Own

(***************************************************************************)
(* A call that is refused, other than with "internal", has left no row.    *)
(***************************************************************************)
THEOREM RefusalsAreTrue == Spec => []RefusalLeavesNoTrace
<1>1. Init => TracesAreAnswered
  <2>1. ASSUME Init, NEW c \in Calls PROVE Untouched(c)
    BY <2>1, Zenon DEF Init, Untouched
  <2>2. QED
    BY <2>1, Zenon DEF TracesAreAnswered
<1>2. TracesAreAnswered => RefusalLeavesNoTrace
  BY DEF TracesAreAnswered, RefusalLeavesNoTrace, Refusals
<1>3. QED
  BY <1>1, <1>2, InitTyped, NextTyped, InitLockInv, NextLockInv,
     NextTracesAreAnswered, PTL DEF Spec

-----------------------------------------------------------------------------
(***************************************************************************)
(* The repository implements AtomicLedger.  Every step of a handler is one *)
(* step of the ledger, or changes nothing that a caller can see: COMMIT    *)
(* moves the money, the lookups replay, the early returns refuse.          *)
(***************************************************************************)
LEMMA PendingWhileWorking ==
    ASSUME Typed, NEW c \in Calls, pc[c] \in Working
    PROVE  Atomic!Pending(c)
BY DEF Atomic!Pending, Typed, CallsInOrder, Working, InTx

\* An internal error is a refusal of the ledger.
LEMMA InternalIsRefuse ==
    ASSUME Typed, NEW c \in Calls, pc[c] \in Working,
           reply' = [reply EXCEPT ![c] = Refused("internal")],
           UNCHANGED <<wallets, balance, idempotency, topups, request>>
    PROVE  Atomic!Refuse(c)
BY PendingWhileWorking
   DEF Atomic!Refuse, Atomic!Answer, Atomic!tables, Refused, Atomic!Refused

\* An early return is a refusal of the ledger.
LEMMA RejectIsRefuse ==
    ASSUME Typed, LockInv, NEW c \in Calls, Reject(c)
    PROVE  Atomic!Refuse(c)
<1> USE DEF tables, Respond, Refused, Atomic!Refused, Atomic!Answer, Atomic!tables
<1>1. Atomic!Pending(c) /\ pc[c] = "lock" /\ request[c] \in Requests
  BY PendingWhileWorking, WorkingHasRequest DEF Reject, AllLocked, Working, InTx
<1>2. CASE Missing(c) /\ Respond(c, Refused("not_found"))
  <2>1. request[c].op # "create"
    BY <1>1, <1>2 DEF LockInv, CreateFindsRow
  <2>2. QED
    BY <1>1, <1>2, <2>1 DEF Reject, Atomic!Refuse
<1>3. CASE ~Missing(c) /\ Overdrawn(c) /\ Respond(c, Refused("insufficient"))
  <2>1. request[c].op = "transfer" /\ request[c].sender \in visible[c]
    BY <1>3 DEF Missing, Overdrawn, RowsOf
  <2>2. read[c][request[c].sender] = balance[request[c].sender]
    BY <1>1, <2>1 DEF Reject, AllLocked, Unlocked, LockInv, LocksInOrder, ReadIsCurrent
  <2>3. QED
    BY <1>1, <1>3, <2>1, <2>2 DEF Reject, Overdrawn, Atomic!Refuse
<1>4. CASE Respond(c, Refused("internal"))
  BY <1>1, <1>4, InternalIsRefuse DEF Reject, Working, InTx
<1>5. QED
  BY <1>2, <1>3, <1>4 DEF Reject

\* COMMIT is the one step in which a call takes effect in the ledger.
LEMMA CommitIsAtomic ==
    ASSUME Typed, LockInv, NEW c \in Calls, Commit(c)
    PROVE  Atomic!Move(c) \/ Atomic!TopUp(c) \/ Atomic!CreateWallet(c)
<1> DEFINE r == request[c]
<1> USE DEF Respond, Atomic!Answer
<1>1. /\ Atomic!Pending(c) /\ r \in Requests /\ Valid(r) /\ request' = request
      /\ pc[c] = "commit"
  BY PendingWhileWorking, WorkingHasRequest
     DEF Commit, LockInv, CallsInOrder, Working, InTx
<1>2. /\ RowsOf(r) \subseteq Users /\ wallets \subseteq Users
      /\ balance \in [Users -> Int]
      /\ \A u \in RowsOf(r) : read[c][u] = balance[u] /\ NewBalance(c, u) \in Int
  BY <1>1, RequestFields, NewBalanceIsInt
     DEF LockInv, LocksInOrder, ReadyToCommit, ReadIsCurrent, Typed, TypeOK
<1>3. /\ \A u \in RowsOf(r) : NewBalance(c, u) <= MaxBalance
      /\ ~Overdrawn(c)
  BY <1>1, <1>2, MaxAssumption DEF LockInv, LocksInOrder, ReadyToCommit, Overflows
<1>4. balance' = [u \in Users |-> IF u \in RowsOf(r) THEN NewBalance(c, u) ELSE balance[u]]
  BY DEF Commit
<1>5. \E answer \in {Result(c), Refused("internal")} :
          reply' = [reply EXCEPT ![c] = answer]
  BY DEF Commit
<1>6. CASE r.op = "transfer"
  <2> DEFINE record == [sender          |-> r.sender,
                        receiver        |-> r.receiver,
                        amount          |-> r.amount,
                        transaction     |-> c,
                        senderBalance   |-> balance[r.sender] - r.amount,
                        receiverBalance |-> balance[r.receiver] + r.amount]
  <2>1. /\ r.sender \in Users /\ r.receiver \in Users /\ r.key \in Keys
        /\ r.sender # r.receiver /\ r.amount \in Int /\ r.amount > 0
        /\ RowsOf(r) = {r.sender, r.receiver}
    BY <1>1, <1>6, RequestFields, AmountsAssumption DEF Valid, RowsOf
  <2>2. /\ NewBalance(c, r.sender) = balance[r.sender] - r.amount
        /\ NewBalance(c, r.receiver) = balance[r.receiver] + r.amount
    BY <1>2, <1>6, <2>1 DEF NewBalance
  <2>3. RecordOf(c) = record
    BY <2>2 DEF RecordOf
  <2>4. RowsOf(r) \subseteq wallets
    BY <1>1, <1>6 DEF LockInv, LocksInOrder, LocalsInOrder, ReadyToCommit
  <2>5. r.amount <= balance[r.sender]
    BY <1>2, <1>3, <1>6, <2>1 DEF Overdrawn
  <2>6. balance[r.receiver] + r.amount <= MaxBalance
    BY <1>3, <2>1, <2>2
  <2>7. idempotency[r.key] = NoRow
    BY <1>1, <1>6, <2>1 DEF LockInv, LocksInOrder, ReadyToCommit, KeyLocksInOrder
  <2>8. balance' = [balance EXCEPT ![r.sender] = @ - r.amount,
                                   ![r.receiver] = @ + r.amount]
    BY <1>2, <1>4, <2>1, <2>2
  <2>9. /\ idempotency' = [idempotency EXCEPT ![r.key] = record]
        /\ topups' = topups
    BY <1>6, <2>3 DEF Commit
  <2>10. wallets' = wallets
    BY <2>4 DEF Commit
  <2>11. \E answer \in {Atomic!ToResult(record), Atomic!Refused("internal")} :
            reply' = [reply EXCEPT ![c] = answer]
    BY <1>5, <1>6, <2>3 DEF Result, ToResult, Refused, Atomic!ToResult, Atomic!Refused
  <2>12. Atomic!Move(c)
    BY <1>1, <1>6, <2>4, <2>5, <2>6, <2>7, <2>8, <2>9, <2>10, <2>11
       DEF Atomic!Move, Valid, Atomic!Valid, RowsOf, Atomic!RowsOf
  <2>13. QED
    BY <2>12
<1>7. CASE r.op = "topup"
  <2> DEFINE after == balance[r.user] + r.amount
  <2>1. r.user \in Users /\ r.amount \in Int /\ RowsOf(r) = {r.user}
    BY <1>1, <1>7, RequestFields, AmountsAssumption DEF RowsOf
  <2>2. NewBalance(c, r.user) = after
    BY <1>2, <1>7, <2>1 DEF NewBalance
  <2>3. r.user \in wallets
    BY <1>1, <1>7, <2>1 DEF LockInv, LocksInOrder, LocalsInOrder, ReadyToCommit
  <2>4. after <= MaxBalance
    BY <1>3, <2>1, <2>2
  <2>5. balance' = [balance EXCEPT ![r.user] = after]
    BY <1>2, <1>4, <2>1, <2>2
  <2>6. /\ topups' = topups \cup {[id |-> c, user |-> r.user, amount |-> r.amount,
                                   balanceAfter |-> after]}
        /\ idempotency' = idempotency
        /\ wallets' = wallets
    BY <1>7, <2>1, <2>2, <2>3 DEF Commit
  <2>7. \E answer \in {Atomic!BalanceResult(after), Atomic!Refused("internal")} :
            reply' = [reply EXCEPT ![c] = answer]
    BY <1>5, <1>7, <2>2 DEF Result, BalanceResult, Refused, Atomic!BalanceResult,
                             Atomic!Refused
  <2>8. Atomic!TopUp(c)
    BY <1>1, <1>7, <2>3, <2>4, <2>5, <2>6, <2>7 DEF Atomic!TopUp, Valid, Atomic!Valid
  <2>9. QED
    BY <2>8
<1>8. CASE r.op = "create"
  <2>1. r.user \in Users /\ RowsOf(r) = {r.user}
    BY <1>1, <1>8, RequestFields DEF RowsOf
  <2>2. NewBalance(c, r.user) = balance[r.user]
    BY <1>2, <1>8, <2>1 DEF NewBalance
  <2>3. balance' = balance
    BY <1>2, <1>4, <2>1, <2>2
  <2>4. /\ wallets' = wallets \cup {r.user}
        /\ UNCHANGED <<idempotency, topups>>
    BY <1>8, <2>1 DEF Commit
  <2>5. \E answer \in {Atomic!BalanceResult(balance[r.user]), Atomic!Refused("internal")} :
            reply' = [reply EXCEPT ![c] = answer]
    BY <1>5, <1>8, <2>2 DEF Result, BalanceResult, Refused, Atomic!BalanceResult,
                             Atomic!Refused
  <2>6. QED
    BY <1>1, <1>8, <2>3, <2>4, <2>5 DEF Atomic!CreateWallet
<1>9. QED
  BY <1>1, <1>6, <1>7, <1>8, RequestFields

\* The lookups before and after the transaction replay what is stored.
LEMMA LookupIsReplay ==
    ASSUME Typed, NEW c \in Calls, LookupHit(c) \/ Reread(c)
    PROVE  Atomic!Replay(c) \/ Atomic!Refuse(c)
<1>1. /\ Atomic!Pending(c) /\ request[c].op = "transfer" /\ pc[c] \in Working
      /\ UNCHANGED <<wallets, balance, idempotency, topups, request>>
  BY PendingWhileWorking
     DEF LookupHit, Reread, Typed, CallsInOrder, Working, InTx, tables
<1>2. CASE /\ idempotency[request[c].key] # NoRow
           /\ Respond(c, CachedReply(idempotency[request[c].key], request[c]))
  BY <1>1, <1>2 DEF Respond, Atomic!Replay, Atomic!Answer, Atomic!tables,
     CachedReply, Atomic!CachedReply, IsSamePayload, Atomic!IsSamePayload,
     ToResult, Atomic!ToResult, Refused, Atomic!Refused
<1>3. CASE Respond(c, Refused("internal"))
  BY <1>1, <1>3, InternalIsRefuse DEF Respond
<1>4. QED
  BY <1>2, <1>3 DEF LookupHit, Reread

\* Receiving a call is receiving it in the ledger.
LEMMA ReceiveIsReceive ==
    ASSUME Typed, NEW c \in Calls, Receive(c)
    PROVE  Atomic!Receive(c)
<1>1. PICK r \in Requests : /\ request' = [request EXCEPT ![c] = r]
                            /\ IF Valid(r)
                               THEN Goto(c, FirstStep(r)) /\ UNCHANGED reply
                               ELSE Respond(c, Refused("invalid"))
  BY DEF Receive
<1>2. r \in Atomic!Requests
  BY DEF Requests, TransferRequests, TopUpRequests, CreateRequests, Atomic!Requests,
         Atomic!TransferRequests, Atomic!TopUpRequests, Atomic!CreateRequests
<1>3. Valid(r) <=> Atomic!Valid(r)
  BY DEF Valid, Atomic!Valid
<1>4. reply' = IF Atomic!Valid(r) THEN reply
                                  ELSE [reply EXCEPT ![c] = Atomic!Refused("invalid")]
  BY <1>1, <1>3 DEF Respond, Refused, Atomic!Refused
<1>5. request[c] = NoRow /\ UNCHANGED <<wallets, balance, idempotency, topups>>
  BY DEF Receive, Typed, CallsInOrder, tables
<1>6. QED
  BY <1>1, <1>2, <1>4, <1>5 DEF Atomic!Receive, Atomic!tables

\* Every other step is a step of the ledger or leaves its variables alone.
LEMMA StepIsAtomic ==
    Typed /\ LockInv /\ [Next]_vars => [Atomic!Next]_Atomic!avars
<1> SUFFICES ASSUME Typed, LockInv, [Next]_vars PROVE [Atomic!Next]_Atomic!avars
    OBVIOUS
<1>1. CASE UNCHANGED vars
  BY <1>1 DEF vars, Atomic!avars
<1>2. ASSUME NEW c \in Calls, Own(c) PROVE [Atomic!Next]_Atomic!avars
  <2>1. CASE Receive(c)
    BY <2>1, ReceiveIsReceive DEF Atomic!Next
  <2>2. CASE LookupHit(c) \/ Reread(c)
    BY <2>2, LookupIsReplay DEF Atomic!Next
  <2>3. CASE LookupMiss(c) \/ InsertWallet(c) \/ Snapshot(c) \/ LockRow(c)
             \/ Update(c) \/ InsertKey(c) \/ KeyConflict(c)
    BY <2>3 DEF LookupMiss, InsertWallet, Snapshot, LockRow, Update, InsertKey,
       KeyConflict, tables, Atomic!avars
  <2>4. CASE Reject(c)
    BY <2>4, RejectIsRefuse DEF Atomic!Next
  <2>5. CASE Commit(c)
    BY <2>5, CommitIsAtomic DEF Atomic!Next
  <2>6. CASE Fail(c)
    BY <2>6, InternalIsRefuse DEF Fail, Respond, tables, Atomic!Next
  <2>7. QED
    BY <1>2, <2>1, <2>2, <2>3, <2>4, <2>5, <2>6 DEF Own, Step
<1>3. QED
  BY <1>1, <1>2 DEF Next, Own

(***************************************************************************)
(* With its locks, lookups and retries, the repository is a ledger whose   *)
(* operations are atomic: each call takes effect in one step or in none.   *)
(***************************************************************************)
THEOREM RepositoryIsAtomic == Spec => ImplementsAtomicLedger
<1>1. Init => Atomic!Init
  BY DEF Init, Atomic!Init
<1>2. QED
  BY <1>1, InitTyped, NextTyped, InitLockInv, NextLockInv, StepIsAtomic, PTL
     DEF Spec, ImplementsAtomicLedger, Atomic!Spec

-----------------------------------------------------------------------------
(***************************************************************************)
(* The rows add up.  A step of the ledger leaves balances and rows alone,  *)
(* or adds one row that is new, and changes the balances by its amount.    *)
(***************************************************************************)
Stored == {k \in Keys : idempotency[k] # NoRow}

RowsAreFinite == IsFiniteSet(Stored) /\ IsFiniteSet(topups)

LEMMA RowsOfUserAreFinite ==
    ASSUME RowsAreFinite, NEW u
    PROVE  IsFiniteSet(Sendings(u)) /\ IsFiniteSet(Receipts(u)) /\ IsFiniteSet(TopUpsOf(u))
<1>1. Sendings(u) \in SUBSET Stored /\ Receipts(u) \in SUBSET Stored
  BY DEF Sendings, Receipts, Stored
<1>2. TopUpsOf(u) \in SUBSET topups
  BY DEF TopUpsOf
<1>3. QED
  BY <1>1, <1>2, FS_Subset DEF RowsAreFinite

LEMMA AmountsOfRows ==
    ASSUME TypeOK
    PROVE  /\ \A k \in Stored : idempotency[k].amount \in Int
           /\ \A t \in topups : t.amount \in Int
BY AmountsAssumption DEF TypeOK, Stored, IdempotencyRecords, TopUpRows

LEMMA SumsAreInt ==
    ASSUME TypeOK, RowsAreFinite, NEW u
    PROVE  Sent(u) \in Int /\ Received(u) \in Int /\ ToppedUp(u) \in Int
<1>1. IsFiniteSet(Sendings(u)) /\ IsFiniteSet(Receipts(u)) /\ IsFiniteSet(TopUpsOf(u))
  BY RowsOfUserAreFinite
<1>2. /\ \A k \in Sendings(u) : idempotency[k].amount \in Int
      /\ \A k \in Receipts(u) : idempotency[k].amount \in Int
      /\ \A t \in TopUpsOf(u) : t.amount \in Int
  BY AmountsOfRows DEF Sendings, Receipts, TopUpsOf, Stored
<1>3. Sent(u) \in Int
  BY <1>1, <1>2, SumFunctionType DEF Sent
<1>4. Received(u) \in Int
  BY <1>1, <1>2, SumFunctionType DEF Received
<1>5. ToppedUp(u) \in Int
  BY <1>1, <1>2, SumFunctionType DEF ToppedUp
<1>6. QED
  BY <1>3, <1>4, <1>5

\* A transfer's row is one more for its sender, and one more for its receiver.
LEMMA MoveAddsRow ==
    ASSUME TypeOK, RowsAreFinite, NEW k \in Keys, idempotency[k] = NoRow,
           NEW record, record # NoRow, record.amount \in Int,
           idempotency' = [idempotency EXCEPT ![k] = record], topups' = topups,
           NEW u
    PROVE  /\ RowsAreFinite'
           /\ Sent(u)' = Sent(u) + (IF record.sender = u THEN record.amount ELSE 0)
           /\ Received(u)' = Received(u) + (IF record.receiver = u THEN record.amount ELSE 0)
           /\ ToppedUp(u)' = ToppedUp(u)
<1>1. /\ idempotency'[k] = record
      /\ \A j \in Keys : j # k => idempotency'[j] = idempotency[j]
  BY DEF TypeOK
<1>2. RowsAreFinite'
  <2>1. Stored' = Stored \cup {k}
    BY <1>1 DEF Stored
  <2>2. QED
    BY <2>1, FS_AddElement DEF RowsAreFinite
<1>3. /\ IsFiniteSet(Sendings(u)) /\ IsFiniteSet(Receipts(u))
      /\ Sent(u) \in Int /\ Received(u) \in Int
      /\ k \notin Sendings(u) /\ k \notin Receipts(u)
  BY RowsOfUserAreFinite, SumsAreInt DEF Sendings, Receipts
<1>4. \A j \in Stored \cup {k} : idempotency'[j].amount \in Int
  BY <1>1, AmountsOfRows DEF Stored
<1>5. Sent(u)' = Sent(u) + (IF record.sender = u THEN record.amount ELSE 0)
  <2> DEFINE f == [j \in Sendings(u) |-> idempotency[j].amount]
             g == [j \in Sendings(u)' |-> idempotency'[j].amount]
  <2>1. Sent(u) = SumFunction(f) /\ Sent(u)' = SumFunction(g)
    BY DEF Sent
  <2>2. \A j \in Sendings(u) : idempotency'[j] = idempotency[j]
    BY <1>1, <1>3 DEF Sendings
  <2>3. CASE record.sender = u
    <3>1. Sendings(u)' = Sendings(u) \cup {k}
      BY <1>1, <2>3 DEF Sendings
    <3>2. /\ DOMAIN f = Sendings(u) /\ DOMAIN g = DOMAIN f \cup {k}
          /\ \A j \in DOMAIN f : g[j] = f[j]
          /\ g[k] = record.amount
      BY <1>1, <2>2, <3>1
    <3>3. \A j \in DOMAIN g : g[j] \in Int
      BY <1>4, <3>1 DEF Sendings, Stored
    <3> HIDE DEF f, g
    <3>4. SumFunction(g) = SumFunction(f) + g[k]
      BY <1>3, <3>2, <3>3, SumFunctionAdd
    <3>5. QED
      BY <2>1, <2>3, <3>2, <3>4
  <2>4. CASE record.sender # u
    <3>1. Sendings(u)' = Sendings(u)
      BY <1>1, <2>4 DEF Sendings
    <3>2. g = f
      BY <2>2, <3>1
    <3> HIDE DEF f, g
    <3>3. QED
      BY <1>3, <2>1, <2>4, <3>2
  <2>5. QED
    BY <2>3, <2>4
<1>6. Received(u)' = Received(u) + (IF record.receiver = u THEN record.amount ELSE 0)
  <2> DEFINE f == [j \in Receipts(u) |-> idempotency[j].amount]
             g == [j \in Receipts(u)' |-> idempotency'[j].amount]
  <2>1. Received(u) = SumFunction(f) /\ Received(u)' = SumFunction(g)
    BY DEF Received
  <2>2. \A j \in Receipts(u) : idempotency'[j] = idempotency[j]
    BY <1>1, <1>3 DEF Receipts
  <2>3. CASE record.receiver = u
    <3>1. Receipts(u)' = Receipts(u) \cup {k}
      BY <1>1, <2>3 DEF Receipts
    <3>2. /\ DOMAIN f = Receipts(u) /\ DOMAIN g = DOMAIN f \cup {k}
          /\ \A j \in DOMAIN f : g[j] = f[j]
          /\ g[k] = record.amount
      BY <1>1, <2>2, <3>1
    <3>3. \A j \in DOMAIN g : g[j] \in Int
      BY <1>4, <3>1 DEF Receipts, Stored
    <3> HIDE DEF f, g
    <3>4. SumFunction(g) = SumFunction(f) + g[k]
      BY <1>3, <3>2, <3>3, SumFunctionAdd
    <3>5. QED
      BY <2>1, <2>3, <3>2, <3>4
  <2>4. CASE record.receiver # u
    <3>1. Receipts(u)' = Receipts(u)
      BY <1>1, <2>4 DEF Receipts
    <3>2. g = f
      BY <2>2, <3>1
    <3> HIDE DEF f, g
    <3>3. QED
      BY <1>3, <2>1, <2>4, <3>2
  <2>5. QED
    BY <2>3, <2>4
<1>7. ToppedUp(u)' = ToppedUp(u)
  BY DEF ToppedUp, TopUpsOf
<1>8. QED
  BY <1>2, <1>5, <1>6, <1>7

\* A top-up's row is one more for its user.
LEMMA TopUpAddsRow ==
    ASSUME TypeOK, RowsAreFinite, NEW row, row \notin topups, row.amount \in Int,
           topups' = topups \cup {row}, idempotency' = idempotency, NEW u
    PROVE  /\ RowsAreFinite'
           /\ Sent(u)' = Sent(u) /\ Received(u)' = Received(u)
           /\ ToppedUp(u)' = ToppedUp(u) + (IF row.user = u THEN row.amount ELSE 0)
<1> DEFINE f == [t \in TopUpsOf(u) |-> t.amount]
           g == [t \in TopUpsOf(u)' |-> t.amount]
<1>1. RowsAreFinite'
  <2>1. Stored' = Stored
    BY DEF Stored
  <2>2. QED
    BY <2>1, FS_AddElement DEF RowsAreFinite
<1>2. Sent(u)' = Sent(u) /\ Received(u)' = Received(u)
  BY DEF Sent, Received, Sendings, Receipts
<1>3. ToppedUp(u) = SumFunction(f) /\ ToppedUp(u)' = SumFunction(g)
  BY DEF ToppedUp
<1>4. IsFiniteSet(TopUpsOf(u)) /\ ToppedUp(u) \in Int
  BY RowsOfUserAreFinite, SumsAreInt
<1>5. CASE row.user = u
  <2>1. TopUpsOf(u)' = TopUpsOf(u) \cup {row} /\ row \notin TopUpsOf(u)
    BY <1>5 DEF TopUpsOf
  <2>2. /\ DOMAIN f = TopUpsOf(u) /\ DOMAIN g = DOMAIN f \cup {row}
        /\ \A t \in DOMAIN f : g[t] = f[t]
        /\ g[row] = row.amount
    BY <2>1
  <2>3. \A t \in DOMAIN g : g[t] \in Int
    BY <2>1, AmountsOfRows DEF TopUpsOf
  <2> HIDE DEF f, g
  <2>4. SumFunction(g) = SumFunction(f) + g[row]
    BY <1>4, <2>1, <2>2, <2>3, SumFunctionAdd
  <2>5. QED
    BY <1>1, <1>2, <1>3, <1>5, <2>2, <2>4
<1>6. CASE row.user # u
  <2>1. TopUpsOf(u)' = TopUpsOf(u)
    BY <1>6 DEF TopUpsOf
  <2>2. g = f
    BY <2>1
  <2> HIDE DEF f, g
  <2>3. QED
    BY <1>1, <1>2, <1>3, <1>4, <1>6, <2>2
<1>7. QED
  BY <1>5, <1>6

Explained == RowsAreFinite /\ BalancesExplained

LEMMA NextExplained ==
    Explained /\ Typed /\ LockInv /\ TracesAreAnswered /\ [Next]_vars => Explained'
<1> SUFFICES ASSUME Explained, Typed, LockInv, TracesAreAnswered, [Next]_vars
             PROVE  Explained'
  OBVIOUS
<1>1. TypeOK /\ RowsAreFinite /\ BalancesExplained /\ balance \in [Users -> Int]
  BY DEF Typed, TypeOK, Explained
<1>2. /\ \A u \in Users : SeedBalance[u] \in Int
      /\ \A u \in Users : Sent(u) \in Int /\ Received(u) \in Int /\ ToppedUp(u) \in Int
  BY <1>1, SumsAreInt, SeedAssumption, MaxAssumption
<1>3. ASSUME NEW c \in Calls, Atomic!Move(c) PROVE Explained'
  <2> DEFINE r == request[c]
             record == [sender          |-> r.sender,
                        receiver        |-> r.receiver,
                        amount          |-> r.amount,
                        transaction     |-> c,
                        senderBalance   |-> balance[r.sender] - r.amount,
                        receiverBalance |-> balance[r.receiver] + r.amount]
  <2>1. /\ r.op = "transfer" /\ r # NoRow /\ idempotency[r.key] = NoRow
        /\ balance' = [balance EXCEPT ![r.sender] = @ - r.amount,
                                      ![r.receiver] = @ + r.amount]
        /\ idempotency' = [idempotency EXCEPT ![r.key] = record]
        /\ topups' = topups
    BY <1>3 DEF Atomic!Move, Atomic!Pending
  <2>2. r \in Requests /\ Valid(r)
    BY <1>3, <2>1 DEF Atomic!Move, Atomic!Valid, Valid, Typed, TypeOK
  <2>3. /\ r.sender \in Users /\ r.receiver \in Users /\ r.key \in Keys
        /\ r.sender # r.receiver /\ r.amount \in Amounts /\ r.amount \in Int
    BY <2>1, <2>2, RequestFields, AmountsAssumption DEF Valid
  <2>4. record \in IdempotencyRecords
    BY <1>1, <1>3, <2>3 DEF IdempotencyRecords
  <2>5. record # NoRow
    BY <2>4, NoRowAssumption
  <2>6. record.sender = r.sender /\ record.receiver = r.receiver /\ record.amount = r.amount
    OBVIOUS
  <2> HIDE DEF record, r
  <2>7. \A u : /\ RowsAreFinite'
               /\ Sent(u)' = Sent(u) + (IF r.sender = u THEN r.amount ELSE 0)
               /\ Received(u)' = Received(u) + (IF r.receiver = u THEN r.amount ELSE 0)
               /\ ToppedUp(u)' = ToppedUp(u)
    <3> SUFFICES ASSUME NEW u
                 PROVE  /\ RowsAreFinite'
                        /\ Sent(u)' = Sent(u) + (IF r.sender = u THEN r.amount ELSE 0)
                        /\ Received(u)' = Received(u) + (IF r.receiver = u THEN r.amount ELSE 0)
                        /\ ToppedUp(u)' = ToppedUp(u)
      OBVIOUS
    <3>1. /\ record.amount \in Int /\ r.key \in Keys /\ record # NoRow
          /\ idempotency[r.key] = NoRow /\ topups' = topups
          /\ idempotency' = [idempotency EXCEPT ![r.key] = record]
      BY <2>1, <2>3, <2>5, <2>6
    <3>2. /\ RowsAreFinite'
          /\ Sent(u)' = Sent(u) + (IF record.sender = u THEN record.amount ELSE 0)
          /\ Received(u)' = Received(u) + (IF record.receiver = u THEN record.amount ELSE 0)
          /\ ToppedUp(u)' = ToppedUp(u)
      BY <1>1, <3>1, MoveAddsRow
    <3>3. QED
      BY <2>6, <3>2
  <2>8. \A u \in Users : balance'[u] = IF u = r.sender THEN balance[u] - r.amount
                                       ELSE IF u = r.receiver THEN balance[u] + r.amount
                                       ELSE balance[u]
    BY <1>1, <2>1, <2>3
  <2>9. ASSUME NEW u \in Users
        PROVE  balance'[u] = SeedBalance[u] + ToppedUp(u)' + Received(u)' - Sent(u)'
    <3>1. balance[u] = SeedBalance[u] + ToppedUp(u) + Received(u) - Sent(u)
      BY <1>1 DEF BalancesExplained
    <3>2. QED
      BY <1>2, <2>3, <2>7, <2>8, <3>1
  <2>10. QED
    BY <2>7, <2>9 DEF Explained, BalancesExplained
<1>4. ASSUME NEW c \in Calls, Atomic!TopUp(c) PROVE Explained'
  <2> DEFINE r == request[c]
             row == [id |-> c, user |-> r.user, amount |-> r.amount,
                     balanceAfter |-> balance[r.user] + r.amount]
  <2>1. /\ r.op = "topup" /\ r # NoRow /\ reply[c] = NoRow
        /\ balance' = [balance EXCEPT ![r.user] = balance[r.user] + r.amount]
        /\ topups' = topups \cup {row}
        /\ idempotency' = idempotency
    BY <1>4 DEF Atomic!TopUp, Atomic!Pending
  <2>2. r.user \in Users /\ r.amount \in Int
    BY <2>1, RequestFields, AmountsAssumption DEF Typed, TypeOK
  <2>3. row \notin topups
    BY <2>1 DEF TracesAreAnswered, Untouched
  <2>4. row.user = r.user /\ row.amount = r.amount
    OBVIOUS
  <2> HIDE DEF row, r
  <2>5. \A u : /\ RowsAreFinite'
               /\ Sent(u)' = Sent(u) /\ Received(u)' = Received(u)
               /\ ToppedUp(u)' = ToppedUp(u) + (IF r.user = u THEN r.amount ELSE 0)
    BY <1>1, <2>1, <2>2, <2>3, <2>4, TopUpAddsRow
  <2>6. ASSUME NEW u \in Users
        PROVE  balance'[u] = SeedBalance[u] + ToppedUp(u)' + Received(u)' - Sent(u)'
    <3>1. balance[u] = SeedBalance[u] + ToppedUp(u) + Received(u) - Sent(u)
      BY <1>1 DEF BalancesExplained
    <3>2. balance'[u] = IF u = r.user THEN balance[u] + r.amount ELSE balance[u]
      BY <1>1, <2>1, <2>2
    <3>3. QED
      BY <1>2, <2>2, <2>5, <3>1, <3>2
  <2>7. QED
    BY <2>5, <2>6 DEF Explained, BalancesExplained
<1>5. ASSUME UNCHANGED <<balance, idempotency, topups>> PROVE Explained'
  BY <1>1, <1>5 DEF Explained, BalancesExplained, RowsAreFinite, Stored, Sent, Received,
                    ToppedUp, Sendings, Receipts, TopUpsOf
<1>6. [Atomic!Next]_Atomic!avars
  BY StepIsAtomic
<1>7. ASSUME NEW c \in Calls,
             \/ Atomic!Receive(c) \/ Atomic!Replay(c)
             \/ Atomic!CreateWallet(c) \/ Atomic!Refuse(c)
      PROVE  UNCHANGED <<balance, idempotency, topups>>
  BY <1>7 DEF Atomic!Receive, Atomic!Replay, Atomic!CreateWallet, Atomic!Refuse, Atomic!tables
<1>8. QED
  BY <1>3, <1>4, <1>5, <1>6, <1>7 DEF Atomic!Next, Atomic!avars

(***************************************************************************)
(* Money is conserved, whatever interleaves, is lost or fails: the balance *)
(* of every user is the seed and the sum of the user's rows.               *)
(***************************************************************************)
THEOREM MoneyIsConserved == Spec => []BalancesExplained
<1>1. Init => Explained
  <2> SUFFICES ASSUME Init PROVE Explained
    OBVIOUS
  <2>1. Stored = {} /\ topups = {}
    BY DEF Init, Stored
  <2>2. \A u : Sendings(u) = {} /\ Receipts(u) = {} /\ TopUpsOf(u) = {}
    BY <2>1 DEF Sendings, Receipts, TopUpsOf, Stored
  <2>3. \A u : Sent(u) = 0 /\ Received(u) = 0 /\ ToppedUp(u) = 0
    BY <2>2, SumFunctionEmpty DEF Sent, Received, ToppedUp
  <2>4. \A u \in Users : SeedBalance[u] \in Int
    BY SeedAssumption, MaxAssumption
  <2>5. QED
    BY <2>1, <2>3, <2>4, FS_EmptySet DEF Init, Explained, RowsAreFinite, BalancesExplained
<1>2. Explained => BalancesExplained
  BY DEF Explained
<1>3. Init => TracesAreAnswered
  <2>1. ASSUME Init, NEW c \in Calls PROVE Untouched(c)
    BY <2>1, Zenon DEF Init, Untouched
  <2>2. QED
    BY <2>1, Zenon DEF TracesAreAnswered
<1>4. QED
  BY <1>1, <1>2, <1>3, InitTyped, NextTyped, InitLockInv, NextLockInv,
     NextTracesAreAnswered, NextExplained, PTL DEF Spec
=============================================================================
