---------------------------- MODULE TransferSaga ----------------------------
(***************************************************************************)
(* POST /transfers: the gateway (cmd/api/handlers.go, CreateTransfer) calls*)
(* user-, fraud-, wallet- and transaction-service in turn, each with a     *)
(* timeout, and nothing undoes a step that has succeeded.  Clients retry   *)
(* with the same idempotency key.                                          *)
(*                                                                         *)
(* The services appear as what they promise: the wallet as AtomicLedger    *)
(* (a lookup of the key, then a transaction), the audit as a table with    *)
(* one row per key, fraud as decisions remembered by key.  Which decision  *)
(* fraud takes, and which users exist, is left open.  A call whose gateway *)
(* has given up is an orphan: it may still take effect, or never.          *)
(***************************************************************************)
EXTENDS Integers

CONSTANTS
    Clients,     \* a client sends one transfer, and retries it
    Users, Keys, Amounts,
    Ids,         \* the transaction ids gen_random_uuid() may return
    SeedBalance, \* balances at the start; every user has a wallet
    MaxForgets,  \* bound: decisions that fraud forgets (restart, TTL)
    None         \* nothing

Payloads ==
    {p \in [sender : Users, receiver : Users, amount : Amounts, key : Keys] :
        p.sender # p.receiver}

ASSUME SagaAssumption ==
    /\ Amounts \subseteq Nat \ {0}
    /\ SeedBalance \in [Users -> Nat]
    /\ MaxForgets \in Nat
    /\ None \notin Payloads

\* What is stored under a key, by the wallet and by the audit.
Results == [payload : Payloads, id : Ids, senderBalance : Int, receiverBalance : Int]
Verdicts == [payload : Payloads, allowed : BOOLEAN]
Statuses == {200, 400, 403, 404, 409, 500, 502, 503, 504}

ASSUME NoneAssumption ==
    None \notin Results /\ None \notin Verdicts /\ None \notin Statuses

VARIABLES
    balance, ledger,      \* wallet-service: wallets, and results by key
    audit,                \* transaction-service: rows by key
    verdicts, forgets,    \* fraud-service: decisions by key
    payload, pc, status,  \* each client's transfer, its handler, its HTTP status
    call,                 \* the handler's outstanding call
    result,               \* the wallet's answer that the handler holds
    orphans,              \* calls whose handler has given up
    approved              \* history: the payloads that fraud has allowed

wallet == <<balance, ledger>>
fraud  == <<verdicts, forgets, approved>>
vars   == <<balance, ledger, audit, verdicts, forgets, payload, pc, status, call,
            result, orphans, approved>>

Waiting == {"users", "fraud", "wallet", "record"}

Init ==
    /\ balance = SeedBalance
    /\ ledger = [k \in Keys |-> None]
    /\ audit = [k \in Keys |-> None]
    /\ verdicts = [k \in Keys |-> None]
    /\ forgets = 0
    /\ payload = [c \in Clients |-> None]
    /\ pc = [c \in Clients |-> "idle"]
    /\ status = [c \in Clients |-> None]
    /\ call = [c \in Clients |-> "none"]
    /\ result = [c \in Clients |-> None]
    /\ orphans = {}
    /\ approved = {}

\* The handler goes on to its next call.
Send(c, stage) ==
    /\ pc' = [pc EXCEPT ![c] = stage]
    /\ call' = [call EXCEPT ![c] = "sent"]
    /\ UNCHANGED status

\* The handler answers its client.
Respond(c, code) ==
    /\ pc' = [pc EXCEPT ![c] = "done"]
    /\ status' = [status EXCEPT ![c] = code]
    /\ call' = [call EXCEPT ![c] = "none"]

\* The service has done its part, but its answer does not arrive.
Lose(c) ==
    /\ call' = [call EXCEPT ![c] = "lost"]
    /\ UNCHANGED <<pc, status>>

-----------------------------------------------------------------------------
\* A client's first request, and its retries: same payload, same key.
Submit(c) ==
    /\ pc[c] = "idle"
    /\ \E p \in Payloads : payload' = [payload EXCEPT ![c] = p]
    /\ Send(c, "users")
    /\ UNCHANGED <<wallet, audit, fraud, result, orphans>>

Retry(c) ==
    /\ pc[c] = "done" /\ status[c] # 200
    /\ pc' = [pc EXCEPT ![c] = "users"]
    /\ status' = [status EXCEPT ![c] = None]
    /\ call' = [call EXCEPT ![c] = "sent"]
    /\ result' = [result EXCEPT ![c] = None]
    /\ UNCHANGED <<wallet, audit, fraud, payload, orphans>>

\* ensureUserExists, of sender and receiver: read-only, and free to fail.
UsersKnown(c) ==
    /\ pc[c] = "users"
    /\ Send(c, "fraud")
    /\ UNCHANGED <<wallet, audit, fraud, payload, result, orphans>>

UsersUnknown(c) ==
    /\ pc[c] = "users"
    /\ \E code \in {404, 502, 503, 504} : Respond(c, code)
    /\ UNCHANGED <<wallet, audit, fraud, payload, result, orphans>>

-----------------------------------------------------------------------------
\* Mutant of Evaluate: the decision is not stored under its key.
EvaluateForgets(p, allowed) ==
    /\ approved' = IF allowed THEN approved \cup {p} ELSE approved
    /\ UNCHANGED <<verdicts, forgets>>

\* EvaluateTransfer: a remembered decision for the same payload, a denial for
\* another payload, or the rules' decision, which is remembered.
Evaluate(p, allowed) ==
    /\ \/ /\ verdicts[p.key] = None
          /\ verdicts' = [verdicts EXCEPT ![p.key] = [payload |-> p, allowed |-> allowed]]
       \/ /\ verdicts[p.key] # None
          /\ allowed = (verdicts[p.key].payload = p /\ verdicts[p.key].allowed)
          /\ UNCHANGED verdicts
    /\ approved' = IF allowed THEN approved \cup {p} ELSE approved
    /\ UNCHANGED forgets

Allow(c) ==
    /\ pc[c] = "fraud" /\ call[c] = "sent"
    /\ Evaluate(payload[c], TRUE)
    /\ Send(c, "wallet") \/ Lose(c)
    /\ UNCHANGED <<wallet, audit, payload, result, orphans>>

Deny(c) ==
    /\ pc[c] = "fraud" /\ call[c] = "sent"
    /\ Evaluate(payload[c], FALSE)
    /\ Respond(c, 403) \/ Lose(c)
    /\ UNCHANGED <<wallet, audit, payload, result, orphans>>

\* A decision is lost with the process, or at the end of its time to live.
Forget(k) ==
    /\ forgets < MaxForgets
    /\ verdicts[k] # None
    /\ verdicts' = [verdicts EXCEPT ![k] = None]
    /\ forgets' = forgets + 1
    /\ UNCHANGED <<wallet, audit, approved, payload, pc, status, call, result, orphans>>

-----------------------------------------------------------------------------
\* Transfer of wallet-service.

UsedIds == {ledger[k].id : k \in {j \in Keys : ledger[j] # None}}

\* The transaction of a payload whose key is not stored.
Move(p) ==
    /\ ledger[p.key] = None
    /\ balance[p.sender] >= p.amount
    /\ \E i \in Ids \ UsedIds :
          ledger' = [ledger EXCEPT ![p.key] =
              [payload         |-> p,
               id              |-> i,
               senderBalance   |-> balance[p.sender] - p.amount,
               receiverBalance |-> balance[p.receiver] + p.amount]]
    /\ balance' = [balance EXCEPT ![p.sender] = @ - p.amount,
                                  ![p.receiver] = @ + p.amount]

\* The handler gets the wallet's answer, and sends the row to the audit.
Accept(c, answer) ==
    /\ result' = [result EXCEPT ![c] = answer]
    /\ Send(c, "record")

\* Mutant of Stored: a stored key is refused as a conflict, retry or not.
StoredConflicts(c) ==
    /\ ledger[payload[c].key] # None
    /\ Respond(c, 409)
    /\ UNCHANGED <<wallet, result>>

\* Mutant of Stored: the parties' balances are read anew, not taken from the row.
StoredWithNewBalances(c) ==
    LET stored == ledger[payload[c].key]
    IN  /\ stored # None
        /\ \/ /\ stored.payload = payload[c]
              /\ Accept(c, [stored EXCEPT !.senderBalance = balance[stored.payload.sender]])
           \/ Lose(c) /\ UNCHANGED result
        /\ UNCHANGED wallet

\* Mutant of Stored: the payload is not compared with the stored one.
StoredUnchecked(c) ==
    /\ ledger[payload[c].key] # None
    /\ \/ Accept(c, ledger[payload[c].key])
       \/ Lose(c) /\ UNCHANGED result
    /\ UNCHANGED wallet

\* The stored result is returned, or the payload does not match it.
Stored(c) ==
    /\ ledger[payload[c].key] # None
    /\ \/ /\ ledger[payload[c].key].payload = payload[c]
          /\ Accept(c, ledger[payload[c].key])
       \/ /\ ledger[payload[c].key].payload # payload[c]
          /\ Respond(c, 400) /\ UNCHANGED result
       \/ Lose(c) /\ UNCHANGED result
    /\ UNCHANGED wallet

WalletLookup(c) ==
    /\ pc[c] = "wallet" /\ call[c] = "sent"
    /\ \/ Stored(c)
       \/ /\ ledger[payload[c].key] = None
          /\ call' = [call EXCEPT ![c] = "tx"]
          /\ UNCHANGED <<wallet, pc, status, result>>
    /\ UNCHANGED <<audit, fraud, payload, orphans>>

\* The transaction: funds first, then the key.
WalletTx(c) ==
    /\ pc[c] = "wallet" /\ call[c] = "tx"
    /\ \/ /\ Move(payload[c])
          /\ \/ Accept(c, ledger'[payload[c].key])
             \/ Lose(c) /\ UNCHANGED result
       \/ /\ balance[payload[c].sender] < payload[c].amount
          /\ Respond(c, 409)
          /\ UNCHANGED <<wallet, result>>
       \/ /\ balance[payload[c].sender] >= payload[c].amount
          /\ Stored(c)
    /\ UNCHANGED <<audit, fraud, payload, orphans>>

-----------------------------------------------------------------------------
\* Record of transaction-service: the first row of a key stays.
RecordRow(row) ==
    audit' = IF audit[row.payload.key] = None
             THEN [audit EXCEPT ![row.payload.key] = row]
             ELSE audit

Record(c) ==
    /\ pc[c] = "record" /\ call[c] = "sent"
    /\ RecordRow(result[c])
    /\ \/ Respond(c, IF audit'[payload[c].key] = result[c] THEN 200 ELSE 500)
       \/ Lose(c)
    /\ UNCHANGED <<wallet, fraud, payload, result, orphans>>

-----------------------------------------------------------------------------
\* Mutant of ErrorStatus: the retryable 500 for every stage.
ErrorStatusRetryable(stage) == {500}

\* The status of a call that fails or times out: recordTransaction turns any
\* error into a retryable 500.
ErrorStatus(stage) == IF stage = "record" THEN {500} ELSE {502, 503}

\* What an outstanding call may still do when its handler is gone.
Orphan(c) ==
    IF call[c] \in {"sent", "tx"} /\ pc[c] # "users"
    THEN {[stage   |-> pc[c],
           payload |-> payload[c],
           row     |-> IF pc[c] = "record" THEN result[c] ELSE None]}
    ELSE {}

\* Mutant of GiveUp: without an answer of fraud the transfer goes ahead.
GiveUpOpen(c) ==
    /\ pc[c] \in Waiting \ {"users"}
    /\ IF pc[c] = "fraud"
       THEN Send(c, "wallet")
       ELSE \E code \in ErrorStatus(pc[c]) : Respond(c, code)
    /\ orphans' = orphans \cup Orphan(c)
    /\ UNCHANGED <<wallet, audit, fraud, payload, result>>

\* The call's timeout fires, or it fails; its answer is no longer awaited.
GiveUp(c) ==
    /\ pc[c] \in Waiting \ {"users"}
    /\ \E code \in ErrorStatus(pc[c]) : Respond(c, code)
    /\ orphans' = orphans \cup Orphan(c)
    /\ UNCHANGED <<wallet, audit, fraud, payload, result>>

\* The gateway stops: nobody is answered.
Crash(c) ==
    /\ pc[c] \in Waiting
    /\ Respond(c, None)
    /\ orphans' = orphans \cup Orphan(c)
    /\ UNCHANGED <<wallet, audit, fraud, payload, result>>

\* An orphan takes effect late, or never does.
LateEvaluate(o) ==
    /\ o.stage = "fraud"
    /\ \E allowed \in BOOLEAN : Evaluate(o.payload, allowed)
    /\ UNCHANGED <<wallet, audit>>

LateMove(o) ==
    /\ o.stage = "wallet"
    /\ Move(o.payload)
    /\ UNCHANGED <<audit, fraud>>

LateRecord(o) ==
    /\ o.stage = "record"
    /\ RecordRow(o.row)
    /\ UNCHANGED <<wallet, fraud>>

Late(o) ==
    /\ \/ LateEvaluate(o) \/ LateMove(o) \/ LateRecord(o)
       \/ UNCHANGED <<wallet, audit, fraud>>
    /\ orphans' = orphans \ {o}
    /\ UNCHANGED <<payload, pc, status, call, result>>

-----------------------------------------------------------------------------
Next ==
    \/ \E c \in Clients :
          \/ Submit(c) \/ Retry(c) \/ UsersKnown(c) \/ UsersUnknown(c)
          \/ Allow(c) \/ Deny(c) \/ WalletLookup(c) \/ WalletTx(c) \/ Record(c)
          \/ GiveUp(c) \/ Crash(c)
    \/ \E k \in Keys : Forget(k)
    \/ \E o \in orphans : Late(o)

Spec == Init /\ [][Next]_vars

(***************************************************************************)
(* A client that was not told 200 retries, every handler moves on, and a   *)
(* call that is made again and again is answered at last: no service is    *)
(* down for ever.                                                          *)
(***************************************************************************)
Answered(c) == call'[c] # "lost"

FairSpec ==
    /\ Spec
    /\ \A c \in Clients :
          /\ WF_vars(Retry(c))
          /\ WF_vars(GiveUp(c))
          /\ SF_vars(UsersKnown(c))
          /\ SF_vars(Allow(c) /\ Answered(c))
          /\ SF_vars(WalletLookup(c) /\ Answered(c))
          /\ SF_vars(WalletTx(c) /\ Answered(c))
          /\ SF_vars(Record(c) /\ Answered(c))

-----------------------------------------------------------------------------
\* Properties.

\* The type invariant of the services' tables and of the handlers.
TypeOK ==
    /\ balance \in [Users -> Int]
    /\ ledger \in [Keys -> Results \cup {None}]
    /\ audit \in [Keys -> Results \cup {None}]
    /\ verdicts \in [Keys -> Verdicts \cup {None}]
    /\ forgets \in 0 .. MaxForgets
    /\ payload \in [Clients -> Payloads \cup {None}]
    /\ pc \in [Clients -> Waiting \cup {"idle", "done"}]
    /\ status \in [Clients -> Statuses \cup {None}]
    /\ call \in [Clients -> {"none", "sent", "tx", "lost"}]
    /\ result \in [Clients -> Results \cup {None}]
    /\ orphans \subseteq [stage : Waiting, payload : Payloads, row : Results \cup {None}]

(***************************************************************************)
(* No money moves that fraud has not allowed, for this very payload, key   *)
(* included, however calls are repeated, late or lost.                     *)
(***************************************************************************)
PaidOnlyIfApproved ==
    \A k \in Keys : ledger[k] # None => ledger[k].payload \in approved

(***************************************************************************)
(* The audit never tells a story of its own: each row is the wallet's      *)
(* result of that key, parties, id and balances.                           *)
(***************************************************************************)
AuditMatchesLedger ==
    \A k \in Keys : audit[k] # None => audit[k] = ledger[k]

(***************************************************************************)
(* 200 means moved and recorded; a retryable 500 means moved, so that the  *)
(* retry it asks for cannot move the money again.                          *)
(***************************************************************************)
StatusTellsTheTruth ==
    \A c \in Clients :
        /\ status[c] = 200 => /\ ledger[payload[c].key] # None
                              /\ ledger[payload[c].key].payload = payload[c]
                              /\ audit[payload[c].key] = ledger[payload[c].key]
        /\ status[c] = 500 => /\ ledger[payload[c].key] # None
                              /\ ledger[payload[c].key].payload = payload[c]

\* A result is stored if the wallet still has it, as it is, under its key.
IsStored(row) == row \in Results /\ ledger[row.payload.key] = row

\* Results are stored under their own key, for payloads that fraud has allowed.
LedgerInOrder ==
    \A k \in Keys : ledger[k] # None =>
        ledger[k].payload.key = k /\ ledger[k].payload \in approved

\* What the place of a handler says of the transfer it is making.
HandlerInOrder(c) ==
    /\ pc[c] = "idle" => status[c] = None
    /\ pc[c] # "idle" => payload[c] \in Payloads
    /\ pc[c] = "wallet" => payload[c] \in approved
    /\ pc[c] = "record" => IsStored(result[c]) /\ result[c].payload = payload[c]

OrphanInOrder(o) ==
    /\ o.stage = "wallet" => o.payload \in approved
    /\ o.stage = "record" => IsStored(o.row)

(***************************************************************************)
(* The invariant that carries the proofs: whoever is about to move money,  *)
(* handler or orphan, has fraud's approval for it, and whoever is about to *)
(* record a row holds what the wallet has stored, for the payload at hand. *)
(***************************************************************************)
Inv ==
    /\ TypeOK
    /\ LedgerInOrder
    /\ AuditMatchesLedger
    /\ StatusTellsTheTruth
    /\ \A c \in Clients : HandlerInOrder(c)
    /\ \A o \in orphans : OrphanInOrder(o)

(***************************************************************************)
(* A retry after the money has moved is not blocked by fraud: the retry    *)
(* that the retryable 500 asks for (handlers.go, "retryable": true) gets   *)
(* past the rules.                                                         *)
(***************************************************************************)
MovedIsNotDenied ==
    [][\A c \in Clients :
          (status[c] # 403 /\ status'[c] = 403) =>
          LET stored == ledger[payload[c].key]
          IN  stored = None \/ stored.payload # payload[c]]_vars

(***************************************************************************)
(* Money that has moved is recorded in the end, if its client retries      *)
(* until it is told 200 (architecture.md: the client must retry with the   *)
(* same idempotency_key).                                                  *)
(***************************************************************************)
MovedIsRecorded ==
    \A k \in Keys : ledger[k] # None ~> audit[k] # None
=============================================================================
