---------------------------- MODULE PlatformProofs ----------------------------
(***************************************************************************)
(* Proofs about transfers, the migrator and the platform they run on, for  *)
(* any tasks, releases, databases, programs, clients and faults: that      *)
(* transfers and migrator keep their promises, alone and on the platform,  *)
(* and that nothing serves without its tables.                             *)
(***************************************************************************)
EXTENDS Platform, FiniteSetTheorems, TLAPS

(***************************************************************************)
(* Transfers, for any clients, users, keys and amounts, and any calls      *)
(* lost, late or repeated: that no money moves unapproved, that the audit  *)
(* is the wallet's own story, and that 200 and the retryable 500 are true. *)
(***************************************************************************)

\* What the services store only ever grows: results and approvals stay.
Grows ==
    /\ \A k \in Keys : ledger[k] # None => ledger'[k] = ledger[k]
    /\ \A k \in Keys : audit[k] # None => audit'[k] = audit[k]
    /\ approved \subseteq approved'

\* The parts of the invariant that are about the services alone.
TablesInOrder ==
    /\ balance \in [Users -> Int]
    /\ ledger \in [Keys -> Results \cup {None}]
    /\ audit \in [Keys -> Results \cup {None}]
    /\ verdicts \in [Keys -> Verdicts \cup {None}]
    /\ forgets \in 0 .. MaxForgets
    /\ LedgerInOrder
    /\ AuditMatchesLedger

\* A step of the services.
ServicesStep == TablesInOrder' /\ Grows

\* The facts about one handler.
HandlerTyped(c) ==
    /\ payload[c] \in Payloads \cup {None}
    /\ pc[c] \in Waiting \cup {"idle", "done"}
    /\ status[c] \in Statuses \cup {None}
    /\ call[c] \in {"none", "sent", "tx", "lost"}
    /\ result[c] \in Results \cup {None}

\* What the status that a client was given says is so.
StatusIsTrue(c) ==
    /\ status[c] = 200 => /\ ledger[payload[c].key] # None
                          /\ ledger[payload[c].key].payload = payload[c]
                          /\ audit[payload[c].key] = ledger[payload[c].key]
    /\ status[c] = 500 => /\ ledger[payload[c].key] # None
                          /\ ledger[payload[c].key].payload = payload[c]

HandlerInv(c) == HandlerTyped(c) /\ HandlerInOrder(c) /\ StatusIsTrue(c)

OrphanInv(o) ==
    /\ o \in [stage : Waiting, payload : Payloads, row : Results \cup {None}]
    /\ OrphanInOrder(o)

Functions ==
    /\ payload \in [Clients -> Payloads \cup {None}]
    /\ pc \in [Clients -> Waiting \cup {"idle", "done"}]
    /\ status \in [Clients -> Statuses \cup {None}]
    /\ call \in [Clients -> {"none", "sent", "tx", "lost"}]
    /\ result \in [Clients -> Results \cup {None}]

\* Fields of payloads and results.
LEMMA Fields ==
    /\ None \notin Payloads
    /\ \A p \in Payloads : p.key \in Keys /\ p.sender \in Users /\ p.receiver \in Users
                           /\ p.amount \in Nat
    /\ \A r \in Results : r # None /\ r.payload \in Payloads /\ r.payload.key \in Keys
    /\ \A v \in Verdicts : v # None
    /\ 200 # None /\ 500 # None
<1>1. \A p \in Payloads : /\ p.key \in Keys /\ p.sender \in Users /\ p.receiver \in Users
                          /\ p.amount \in Nat
  BY SagaAssumption DEF Payloads
<1>2. \A r \in Results : r # None /\ r.payload \in Payloads
  BY NoneAssumption DEF Results
<1>3. 200 # None /\ 500 # None
  BY NoneAssumption DEF Statuses
<1>4. QED
  BY <1>1, <1>2, <1>3, SagaAssumption, NoneAssumption

\* The invariant is made of these parts.
LEMMA Parts ==
    Inv <=> /\ TablesInOrder
            /\ Functions
            /\ \A c \in Clients : HandlerInv(c)
            /\ \A o \in orphans : OrphanInv(o)
BY DEF Inv, TypeOK, TablesInOrder, Functions, HandlerInv, HandlerTyped, OrphanInv,
       StatusTellsTheTruth, StatusIsTrue

\* The invariant holds at the start.
LEMMA InitSaga == Init => Inv
<1> SUFFICES ASSUME Init PROVE Inv
  OBVIOUS
<1> USE DEF Init
<1>1. TypeOK
  BY SagaAssumption DEF TypeOK
<1>2. StatusTellsTheTruth
  BY Fields DEF StatusTellsTheTruth
<1>3. \A c \in Clients : HandlerInOrder(c)
  BY DEF HandlerInOrder
<1>4. QED
  BY <1>1, <1>2, <1>3 DEF Inv, LedgerInOrder, AuditMatchesLedger

-----------------------------------------------------------------------------
(***************************************************************************)
(* The services.                                                           *)
(***************************************************************************)
\* Fraud decides: nothing that the others have stored is touched.
LEMMA EvaluateStep ==
    ASSUME Inv, NEW p \in Payloads, NEW allowed \in BOOLEAN, Evaluate(p, allowed),
           UNCHANGED <<wallet, audit>>
    PROVE  ServicesStep /\ (allowed => p \in approved')
<1>1. p.key \in Keys /\ [payload |-> p, allowed |-> allowed] \in Verdicts
  BY Fields DEF Verdicts
<1>2. verdicts' \in [Keys -> Verdicts \cup {None}]
  BY <1>1 DEF Inv, TypeOK, Evaluate
<1>3. approved \subseteq approved' /\ (allowed => p \in approved')
  BY DEF Evaluate
<1>4. QED
  BY <1>2, <1>3 DEF Inv, TypeOK, Evaluate, wallet, ServicesStep, TablesInOrder, Grows,
                    LedgerInOrder, AuditMatchesLedger

\* The wallet moves money: one result is added, of a payload that is allowed.
LEMMA MoveStep ==
    ASSUME Inv, NEW p \in Payloads, p \in approved, Move(p), UNCHANGED <<audit, fraud>>
    PROVE  /\ ServicesStep
           /\ ledger'[p.key] \in Results
           /\ ledger'[p.key].payload = p
<1>1. p.key \in Keys /\ p.sender \in Users /\ p.receiver \in Users /\ p.amount \in Nat
  BY Fields
<1>2. PICK i \in Ids : ledger' = [ledger EXCEPT ![p.key] =
              [payload         |-> p,
               id              |-> i,
               senderBalance   |-> balance[p.sender] - p.amount,
               receiverBalance |-> balance[p.receiver] + p.amount]]
  BY DEF Move
<1> DEFINE row == [payload         |-> p,
                   id              |-> i,
                   senderBalance   |-> balance[p.sender] - p.amount,
                   receiverBalance |-> balance[p.receiver] + p.amount]
<1>3. row \in Results /\ row.payload = p
  BY <1>1 DEF Inv, TypeOK, Results
<1> HIDE DEF row
<1>4. ledger' = [ledger EXCEPT ![p.key] = row]
  BY <1>2 DEF row
<1>5. ledger[p.key] = None
  BY DEF Move
<1>6. balance' \in [Users -> Int]
  BY <1>1 DEF Inv, TypeOK, Move
<1>7. ledger'[p.key] = row /\ \A k \in Keys : k # p.key => ledger'[k] = ledger[k]
  BY <1>1, <1>4 DEF Inv, TypeOK
<1>8. ledger' \in [Keys -> Results \cup {None}]
  BY <1>3, <1>4, <1>1 DEF Inv, TypeOK
<1>9. LedgerInOrder'
  BY <1>3, <1>7 DEF Inv, LedgerInOrder, fraud
<1>10. AuditMatchesLedger'
  BY <1>5, <1>7, Fields DEF Inv, AuditMatchesLedger
<1>11. Grows
  BY <1>5, <1>7 DEF Grows, fraud
<1>12. QED
  BY <1>3, <1>6, <1>7, <1>8, <1>9, <1>10, <1>11
     DEF Inv, TypeOK, ServicesStep, TablesInOrder, fraud

\* The audit records a row that the wallet has stored, or has it already.
LEMMA RecordStep ==
    ASSUME Inv, NEW row, IsStored(row), RecordRow(row), UNCHANGED <<wallet, fraud>>
    PROVE  ServicesStep /\ audit'[row.payload.key] = row
<1>1. row \in Results /\ row.payload.key \in Keys /\ row # None
  BY Fields DEF IsStored
<1>2. audit'[row.payload.key] = row
  BY <1>1 DEF Inv, TypeOK, AuditMatchesLedger, IsStored, RecordRow
<1>3. \A k \in Keys : k # row.payload.key \/ audit[k] # None => audit'[k] = audit[k]
  BY <1>1 DEF Inv, TypeOK, RecordRow
<1>4. audit' \in [Keys -> Results \cup {None}]
  BY <1>1 DEF Inv, TypeOK, RecordRow
<1>5. AuditMatchesLedger'
  BY <1>2, <1>3 DEF Inv, AuditMatchesLedger, IsStored, wallet
<1>6. QED
  BY <1>2, <1>3, <1>4, <1>5
     DEF Inv, TypeOK, ServicesStep, TablesInOrder, Grows, LedgerInOrder, wallet, fraud

\* Fraud forgets a decision, not that it was taken.
LEMMA ForgetStep ==
    ASSUME Inv, NEW k \in Keys, Forget(k)
    PROVE  ServicesStep
<1>1. verdicts' \in [Keys -> Verdicts \cup {None}] /\ forgets' \in 0 .. MaxForgets
  BY SagaAssumption DEF Inv, TypeOK, Forget
<1>2. QED
  BY <1>1 DEF Inv, TypeOK, Forget, wallet, ServicesStep, TablesInOrder, Grows,
              LedgerInOrder, AuditMatchesLedger

\* Nothing happens at the services.
LEMMA QuietStep ==
    ASSUME Inv, UNCHANGED <<wallet, audit, fraud>>
    PROVE  ServicesStep
BY DEF Inv, TypeOK, wallet, fraud, ServicesStep, TablesInOrder, Grows, LedgerInOrder,
       AuditMatchesLedger

-----------------------------------------------------------------------------
(***************************************************************************)
(* The handlers and the orphans: what the services have stored stays, and  *)
(* with it whatever a handler, an orphan or a client rests on.             *)
(***************************************************************************)
LEMMA StoredStays ==
    ASSUME Grows, NEW row, IsStored(row)
    PROVE  IsStored(row)'
BY Fields DEF Grows, IsStored

\* A status that was true stays true.
LEMMA StatusStays ==
    ASSUME Inv, Grows, NEW c \in Clients, UNCHANGED <<payload[c], status[c]>>
    PROVE  StatusIsTrue(c)'
<1>1. StatusIsTrue(c)
  BY Parts DEF HandlerInv
<1>2. CASE status[c] \in {200, 500}
  <2>1. payload[c] \in Payloads
    BY <1>2, Fields, Parts DEF HandlerInv, HandlerInOrder, Functions
  <2>2. payload[c].key \in Keys
    BY <2>1, Fields
  <2>3. QED
    BY <1>1, <1>2, <2>2 DEF Grows, StatusIsTrue
<1>3. CASE status[c] \notin {200, 500}
  BY <1>3 DEF StatusIsTrue
<1>4. QED
  BY <1>2, <1>3

\* A handler that stays where it is.
LEMMA HandlerStays ==
    ASSUME Inv, Grows, NEW c \in Clients,
           UNCHANGED <<payload[c], pc[c], status[c], call[c], result[c]>>
    PROVE  HandlerInv(c)'
<1>1. HandlerInv(c)
  BY Parts
<1>2. HandlerTyped(c)'
  BY <1>1 DEF HandlerInv, HandlerTyped
<1>3. pc[c] = "record" => IsStored(result[c])'
  BY <1>1, StoredStays DEF HandlerInv, HandlerInOrder
<1>4. HandlerInOrder(c)'
  BY <1>1, <1>3 DEF HandlerInv, HandlerInOrder, Grows, IsStored
<1>5. QED
  BY <1>2, <1>4, StatusStays DEF HandlerInv

\* An orphan that stays.
LEMMA OrphanStays ==
    ASSUME Inv, Grows, NEW o \in orphans
    PROVE  OrphanInv(o)'
<1>1. OrphanInv(o)
  BY Parts
<1>2. o.stage = "record" => IsStored(o.row)'
  BY <1>1, StoredStays DEF OrphanInv, OrphanInOrder
<1>3. QED
  BY <1>1, <1>2 DEF OrphanInv, OrphanInOrder, Grows, IsStored

(***************************************************************************)
(* One client's step: the services have grown, the handler is in order     *)
(* where it is now, and an orphan that it leaves is in order too.          *)
(***************************************************************************)
OthersStay(c) ==
    \A d \in Clients \ {c} :
        UNCHANGED <<payload[d], pc[d], status[d], call[d], result[d]>>

LEMMA OneMoves ==
    ASSUME Inv, NEW c \in Clients, ServicesStep, Functions', OthersStay(c),
           HandlerInv(c)', \A o \in orphans' : o \in orphans \/ OrphanInv(o)'
    PROVE  Inv'
<1>1. \A d \in Clients : HandlerInv(d)'
  BY HandlerStays DEF ServicesStep, OthersStay
<1>2. \A o \in orphans' : OrphanInv(o)'
  BY OrphanStays DEF ServicesStep
<1>3. QED
  BY <1>1, <1>2
     DEF ServicesStep, Inv, TypeOK, TablesInOrder, Functions, HandlerInv, HandlerTyped,
         OrphanInv, StatusTellsTheTruth, StatusIsTrue

\* A handler goes on to a stage for which all is in place.
LEMMA SendInv ==
    ASSUME Inv, NEW c \in Clients, NEW stage \in Waiting, Send(c, stage), ServicesStep,
           UNCHANGED orphans, payload' \in [Clients -> Payloads \cup {None}],
           result' \in [Clients -> Results \cup {None}],
           \A d \in Clients \ {c} : UNCHANGED <<payload[d], result[d]>>,
           payload'[c] \in Payloads,
           status[c] \in {200, 500} => payload'[c] = payload[c],
           stage = "wallet" => payload'[c] \in approved',
           stage = "record" => IsStored(result[c])' /\ result'[c].payload = payload'[c]
    PROVE  Inv'
<1>1. Functions' /\ OthersStay(c)
  BY DEF Inv, TypeOK, Functions, OthersStay, Send
<1>2. pc'[c] = stage /\ status'[c] = status[c]
  BY DEF Inv, TypeOK, Send
<1>3. StatusIsTrue(c)'
  BY <1>2, StatusStays DEF ServicesStep, StatusIsTrue
<1>4. HandlerTyped(c)'
  BY <1>1 DEF Functions, HandlerTyped
<1>5. HandlerInOrder(c)'
  BY <1>2 DEF HandlerInOrder, Waiting
<1>6. QED
  BY <1>1, <1>3, <1>4, <1>5, OneMoves DEF HandlerInv

\* A handler ends with a status that is true, or says nothing of the transfer.
LEMMA RespondInv ==
    ASSUME Inv, NEW c \in Clients, pc[c] # "idle", NEW code \in Statuses \cup {None},
           Respond(c, code), ServicesStep, UNCHANGED <<payload, result>>,
           \A o \in orphans' : o \in orphans \/ OrphanInv(o)',
           code = 200 => audit'[payload[c].key] = ledger'[payload[c].key],
           code \in {200, 500} => /\ ledger'[payload[c].key] # None
                                  /\ ledger'[payload[c].key].payload = payload[c]
    PROVE  Inv'
<1>1. Functions' /\ OthersStay(c)
  BY DEF Inv, TypeOK, Functions, OthersStay, Respond
<1>2. pc'[c] = "done" /\ status'[c] = code /\ payload'[c] \in Payloads
  BY DEF Inv, TypeOK, Respond, HandlerInOrder
<1>3. HandlerTyped(c)'
  BY <1>1 DEF Functions, HandlerTyped
<1>4. HandlerInOrder(c)'
  BY <1>2 DEF HandlerInOrder
<1>5. StatusIsTrue(c)'
  BY <1>2 DEF StatusIsTrue
<1>6. QED
  BY <1>1, <1>3, <1>4, <1>5, OneMoves DEF HandlerInv

\* A handler waits for an answer that will not come, or for another step.
LEMMA WaitInv ==
    ASSUME Inv, NEW c \in Clients, NEW new \in {"none", "sent", "tx", "lost"},
           call' = [call EXCEPT ![c] = new], ServicesStep,
           UNCHANGED <<payload, pc, status, result, orphans>>
    PROVE  Inv'
<1>1. Functions' /\ OthersStay(c)
  BY DEF Inv, TypeOK, Functions, OthersStay
<1>2. HandlerInv(c)
  BY Parts
<1>3. HandlerTyped(c)'
  BY <1>1 DEF Functions, HandlerTyped
<1>4. pc[c] = "record" => IsStored(result[c])'
  BY <1>2, StoredStays DEF HandlerInv, HandlerInOrder, ServicesStep
<1>5. HandlerInOrder(c)'
  BY <1>2, <1>4 DEF HandlerInv, HandlerInOrder, Grows, IsStored, ServicesStep
<1>6. StatusIsTrue(c)'
  BY StatusStays DEF ServicesStep
<1>7. QED
  BY <1>1, <1>3, <1>5, <1>6, OneMoves DEF HandlerInv

-----------------------------------------------------------------------------
(***************************************************************************)
(* The actions.                                                            *)
(***************************************************************************)
LEMMA SubmitInv ==
    ASSUME Inv, NEW c \in Clients, Submit(c)
    PROVE  Inv'
<1>1. PICK p \in Payloads : payload' = [payload EXCEPT ![c] = p]
  BY DEF Submit
<1>2. ServicesStep
  BY QuietStep DEF Submit
<1>3. status[c] = None
  BY DEF Submit, Inv, HandlerInOrder
<1>4. payload' \in [Clients -> Payloads \cup {None}] /\ payload'[c] = p
  BY <1>1 DEF Inv, TypeOK
<1>5. \A d \in Clients \ {c} : UNCHANGED <<payload[d], result[d]>>
  BY <1>1 DEF Inv, TypeOK, Submit
<1>6. QED
  BY <1>2, <1>3, <1>4, <1>5, SendInv, Fields DEF Submit, Waiting, Inv, TypeOK

LEMMA RetryInv ==
    ASSUME Inv, NEW c \in Clients, Retry(c)
    PROVE  Inv'
<1>1. ServicesStep
  BY QuietStep DEF Retry
<1>2. Functions' /\ OthersStay(c) /\ HandlerTyped(c)'
  BY DEF Inv, TypeOK, Functions, OthersStay, Retry, HandlerTyped, Waiting
<1>3. pc'[c] = "users" /\ status'[c] = None /\ payload'[c] \in Payloads
  BY DEF Inv, TypeOK, Retry, HandlerInOrder
<1>4. HandlerInOrder(c)' /\ StatusIsTrue(c)'
  BY <1>3, Fields DEF HandlerInOrder, StatusIsTrue
<1>5. QED
  BY <1>1, <1>2, <1>4, OneMoves DEF HandlerInv, Retry

LEMMA UsersInv ==
    ASSUME Inv, NEW c \in Clients, UsersKnown(c) \/ UsersUnknown(c)
    PROVE  Inv'
<1>1. ServicesStep
  BY QuietStep DEF UsersKnown, UsersUnknown
<1>2. pc[c] # "idle" /\ payload[c] \in Payloads
  BY DEF UsersKnown, UsersUnknown, Inv, HandlerInOrder
<1>3. CASE UsersKnown(c)
  BY <1>1, <1>2, <1>3, SendInv DEF UsersKnown, Waiting, Inv, TypeOK
<1>4. CASE UsersUnknown(c)
  <2>1. PICK code \in {404, 502, 503, 504} : Respond(c, code)
    BY <1>4 DEF UsersUnknown
  <2>2. QED
    BY <1>1, <1>2, <1>4, <2>1, RespondInv DEF UsersUnknown, Statuses
<1>5. QED
  BY <1>3, <1>4

\* Fraud's decision, and the handler that gets it, or does not.
LEMMA FraudInv ==
    ASSUME Inv, NEW c \in Clients, Allow(c) \/ Deny(c)
    PROVE  Inv'
<1>1. pc[c] = "fraud" /\ payload[c] \in Payloads /\ status[c] \in Statuses \cup {None}
  BY DEF Allow, Deny, Inv, TypeOK, HandlerInOrder
<1>2. UNCHANGED <<wallet, audit, payload, result, orphans>>
  BY DEF Allow, Deny
<1>3. CASE Allow(c)
  <2>1. Evaluate(payload[c], TRUE)
    BY <1>3 DEF Allow
  <2>2. ServicesStep /\ payload[c] \in approved'
    BY <1>1, <1>2, <2>1, EvaluateStep
  <2>3. CASE Send(c, "wallet")
    BY <1>1, <1>2, <2>2, <2>3, SendInv DEF Waiting, Inv, TypeOK
  <2>4. CASE Lose(c)
    BY <1>2, <2>2, <2>4, WaitInv DEF Lose
  <2>5. QED
    BY <1>3, <2>3, <2>4 DEF Allow
<1>4. CASE Deny(c)
  <2>1. Evaluate(payload[c], FALSE)
    BY <1>4 DEF Deny
  <2>2. ServicesStep
    BY <1>1, <1>2, <2>1, EvaluateStep
  <2>3. CASE Respond(c, 403)
    BY <1>1, <1>2, <2>2, <2>3, RespondInv, Fields DEF Statuses
  <2>4. CASE Lose(c)
    BY <1>2, <2>2, <2>4, WaitInv DEF Lose
  <2>5. QED
    BY <1>4, <2>3, <2>4 DEF Deny
<1>5. QED
  BY <1>3, <1>4

\* A wallet's answer that a handler accepts goes into its row for the audit.
LEMMA AcceptInv ==
    ASSUME Inv, NEW c \in Clients, pc[c] = "wallet", NEW answer, Accept(c, answer),
           ServicesStep, UNCHANGED <<payload, orphans>>,
           IsStored(answer)', answer.payload = payload[c]
    PROVE  Inv'
<1>1. payload[c] \in Payloads /\ answer \in Results
  BY DEF Inv, HandlerInOrder, IsStored
<1>2. result' \in [Clients -> Results \cup {None}] /\ result'[c] = answer
  BY <1>1 DEF Inv, TypeOK, Accept
<1>3. \A d \in Clients \ {c} : UNCHANGED <<payload[d], result[d]>>
  BY DEF Accept, Inv, TypeOK
<1>4. IsStored(result[c])'
  BY <1>2 DEF IsStored
<1>5. QED
  BY <1>1, <1>2, <1>3, <1>4, SendInv DEF Accept, Waiting, Inv, TypeOK

\* The stored result, another payload's key, or an answer that is lost.
LEMMA StoredInv ==
    ASSUME Inv, NEW c \in Clients, pc[c] = "wallet", Stored(c),
           UNCHANGED <<audit, fraud, payload, orphans>>
    PROVE  Inv'
<1>1. ServicesStep
  BY QuietStep DEF Stored
<1>2. payload[c] \in Payloads /\ payload[c].key \in Keys
  BY Fields DEF Inv, HandlerInOrder
<1>3. CASE ledger[payload[c].key].payload = payload[c] /\ Accept(c, ledger[payload[c].key])
  <2>1. ledger[payload[c].key] \in Results
    BY <1>2 DEF Stored, Inv, TypeOK
  <2>2. IsStored(ledger[payload[c].key])
    BY <1>3, <2>1 DEF IsStored
  <2>3. (ledger[payload[c].key])' = ledger[payload[c].key]
    BY DEF Stored, wallet
  <2>4. QED
    <3> DEFINE answer == ledger[payload[c].key]
    <3>1. IsStored(answer)
      BY <2>2
    <3>2. ledger' = ledger
      BY DEF Stored, wallet
    <3> HIDE DEF answer
    <3>3. PICK row : row = answer
      OBVIOUS
    <3>4. IsStored(row)'
      BY <3>1, <3>2, <3>3 DEF IsStored
    <3>5. Accept(c, row) /\ row.payload = payload[c]
      BY <1>3, <3>3 DEF answer
    <3>6. QED
      BY <1>1, <3>4, <3>5, AcceptInv
<1>4. CASE Respond(c, 400) /\ UNCHANGED result
  BY <1>1, <1>4, RespondInv, Fields DEF Statuses
<1>5. CASE Lose(c) /\ UNCHANGED result
  BY <1>1, <1>5, WaitInv DEF Lose
<1>6. QED
  BY <1>3, <1>4, <1>5 DEF Stored

LEMMA WalletLookupInv ==
    ASSUME Inv, NEW c \in Clients, WalletLookup(c)
    PROVE  Inv'
<1>1. CASE Stored(c)
  BY <1>1, StoredInv DEF WalletLookup
<1>2. CASE call' = [call EXCEPT ![c] = "tx"] /\ UNCHANGED <<wallet, pc, status, result>>
  <2>1. ServicesStep
    BY <1>2, QuietStep DEF WalletLookup
  <2>2. QED
    BY <1>2, <2>1, WaitInv DEF WalletLookup
<1>3. QED
  BY <1>1, <1>2 DEF WalletLookup

LEMMA WalletTxInv ==
    ASSUME Inv, NEW c \in Clients, WalletTx(c)
    PROVE  Inv'
<1>1. pc[c] = "wallet" /\ UNCHANGED <<audit, fraud, payload, orphans>>
  BY DEF WalletTx
<1>2. payload[c] \in Payloads /\ payload[c] \in approved /\ payload[c].key \in Keys
  BY <1>1, Fields DEF Inv, HandlerInOrder
<1>3. CASE Move(payload[c])
  <2>1. PICK row : row = ledger'[payload[c].key]
    OBVIOUS
  <2>2. ServicesStep /\ row \in Results /\ row.payload = payload[c]
    BY <1>1, <1>2, <1>3, <2>1, MoveStep
  <2>3. IsStored(row)'
    BY <2>1, <2>2 DEF IsStored
  <2>4. CASE Accept(c, row)
    BY <1>1, <2>2, <2>3, <2>4, AcceptInv
  <2>5. CASE Lose(c) /\ UNCHANGED result
    BY <1>1, <2>2, <2>5, WaitInv DEF Lose
  <2>6. CASE Respond(c, 409) /\ UNCHANGED <<wallet, result>>
    BY <1>1, <1>2, <2>2, <2>6, RespondInv, Fields DEF Statuses
  <2>7. CASE Stored(c)
    BY <1>1, <2>7, StoredInv
  <2>8. QED
    BY <2>1, <2>4, <2>5, <2>6, <2>7 DEF WalletTx
<1>4. CASE Respond(c, 409) /\ UNCHANGED <<wallet, result>>
  <2>1. ServicesStep
    BY <1>1, <1>4, QuietStep
  <2>2. QED
    BY <1>1, <1>4, <2>1, RespondInv, Fields DEF Statuses
<1>5. CASE Stored(c)
  BY <1>1, <1>5, StoredInv
<1>6. QED
  BY <1>3, <1>4, <1>5 DEF WalletTx

\* The row that is recorded is the wallet's, so that 200 is true.
LEMMA RecordInv ==
    ASSUME Inv, NEW c \in Clients, Record(c)
    PROVE  Inv'
<1>1. pc[c] = "record" /\ RecordRow(result[c])
      /\ UNCHANGED <<wallet, fraud, payload, result, orphans>>
  BY DEF Record
<1>2. IsStored(result[c]) /\ result[c].payload = payload[c]
  BY <1>1 DEF Inv, HandlerInOrder
<1>3. ServicesStep /\ audit'[payload[c].key] = result[c]
  BY <1>1, <1>2, RecordStep
<1>4. /\ ledger'[payload[c].key] = result[c] /\ result[c] # None
      /\ ledger'[payload[c].key].payload = payload[c]
  BY <1>1, <1>2, Fields DEF IsStored, wallet
<1>5. CASE Respond(c, 200)
  BY <1>1, <1>3, <1>4, <1>5, RespondInv DEF Statuses
<1>6. CASE Lose(c)
  BY <1>1, <1>3, <1>6, WaitInv DEF Lose
<1>7. QED
  BY <1>3, <1>5, <1>6 DEF Record

\* A handler that gives up, or is stopped, leaves its call behind.
LEMMA LeftBehind ==
    ASSUME Inv, NEW c \in Clients, pc[c] \in Waiting, ServicesStep, NEW o \in Orphan(c)
    PROVE  OrphanInv(o)'
<1>1. HandlerInv(c)
  BY Parts
<1>2. o = [stage   |-> pc[c],
           payload |-> payload[c],
           row     |-> IF pc[c] = "record" THEN result[c] ELSE None]
  BY DEF Orphan
<1>3. payload[c] \in Payloads /\ result[c] \in Results \cup {None}
  BY <1>1 DEF HandlerInv, HandlerTyped, HandlerInOrder, Waiting
<1>4. o \in [stage : Waiting, payload : Payloads, row : Results \cup {None}]
  BY <1>2, <1>3
<1>5. o.stage = "wallet" => o.payload \in approved'
  BY <1>1, <1>2 DEF HandlerInv, HandlerInOrder, ServicesStep, Grows
<1>6. o.stage = "record" => IsStored(o.row)'
  BY <1>1, <1>2, StoredStays DEF HandlerInv, HandlerInOrder, ServicesStep
<1>7. QED
  BY <1>4, <1>5, <1>6 DEF OrphanInv, OrphanInOrder

LEMMA GiveUpInv ==
    ASSUME Inv, NEW c \in Clients, GiveUp(c) \/ Crash(c)
    PROVE  Inv'
<1>1. pc[c] \in Waiting /\ orphans' = orphans \cup Orphan(c)
      /\ UNCHANGED <<wallet, audit, fraud, payload, result>>
  BY DEF GiveUp, Crash
<1>2. ServicesStep
  BY <1>1, QuietStep
<1>3. \A o \in orphans' : o \in orphans \/ OrphanInv(o)'
  BY <1>1, <1>2, LeftBehind
<1>4. pc[c] # "idle" /\ payload[c] \in Payloads
  BY <1>1 DEF Waiting, Inv, HandlerInOrder
<1>5. CASE pc[c] = "record" /\ GiveUp(c)
  <2>1. IsStored(result[c]) /\ result[c].payload = payload[c]
    BY <1>5 DEF Inv, HandlerInOrder
  <2>2. ledger'[payload[c].key] # None /\ ledger'[payload[c].key].payload = payload[c]
    BY <1>1, <2>1, Fields DEF IsStored, wallet
  <2>3. Respond(c, 500)
    BY <1>5 DEF GiveUp, ErrorStatus
  <2>4. QED
    BY <1>1, <1>2, <1>3, <1>4, <2>2, <2>3, RespondInv DEF Statuses
<1>6. CASE pc[c] # "record" /\ GiveUp(c)
  <2>1. PICK code \in {502, 503} : Respond(c, code)
    BY <1>6 DEF GiveUp, ErrorStatus
  <2>2. QED
    BY <1>1, <1>2, <1>3, <1>4, <2>1, RespondInv DEF Statuses
<1>7. CASE Crash(c)
  BY <1>1, <1>2, <1>3, <1>4, <1>7, RespondInv, Fields DEF Crash
<1>8. QED
  BY <1>5, <1>6, <1>7

\* A step of the services that no handler takes.
LEMMA BehindTheHandlers ==
    ASSUME Inv, ServicesStep, orphans' \subseteq orphans,
           UNCHANGED <<payload, pc, status, call, result>>
    PROVE  Inv'
<1>1. \A d \in Clients : HandlerInv(d)'
  BY HandlerStays DEF ServicesStep
<1>2. \A o \in orphans' : OrphanInv(o)'
  BY OrphanStays DEF ServicesStep
<1>3. QED
  BY <1>1, <1>2
     DEF ServicesStep, Inv, TypeOK, TablesInOrder, Functions, HandlerInv, HandlerTyped,
         OrphanInv, StatusTellsTheTruth, StatusIsTrue

\* An orphan takes effect late: it has its approval, or its stored row.
LEMMA LateInv ==
    ASSUME Inv, NEW o \in orphans, Late(o)
    PROVE  Inv'
<1>1. o.payload \in Payloads /\ OrphanInOrder(o)
  BY DEF Inv, TypeOK
<1>2. CASE LateEvaluate(o)
  <2>1. PICK allowed \in BOOLEAN : Evaluate(o.payload, allowed)
    BY <1>2 DEF LateEvaluate
  <2>2. ServicesStep
    BY <1>1, <1>2, <2>1, EvaluateStep DEF LateEvaluate
  <2>3. QED
    BY <2>2, BehindTheHandlers DEF Late
<1>3. CASE LateMove(o)
  <2>1. ServicesStep
    BY <1>1, <1>3, MoveStep DEF LateMove, OrphanInOrder
  <2>2. QED
    BY <2>1, BehindTheHandlers DEF Late
<1>4. CASE LateRecord(o)
  <2>1. ServicesStep
    BY <1>1, <1>4, RecordStep DEF LateRecord, OrphanInOrder
  <2>2. QED
    BY <2>1, BehindTheHandlers DEF Late
<1>5. CASE UNCHANGED <<wallet, audit, fraud>>
  BY <1>5, QuietStep, BehindTheHandlers DEF Late
<1>6. QED
  BY <1>2, <1>3, <1>4, <1>5 DEF Late

LEMMA NextSaga == Inv /\ [Next]_vars => Inv'
<1> SUFFICES ASSUME Inv, [Next]_vars PROVE Inv'
  OBVIOUS
<1>1. ASSUME NEW c \in Clients,
             \/ Submit(c) \/ Retry(c) \/ UsersKnown(c) \/ UsersUnknown(c)
             \/ Allow(c) \/ Deny(c) \/ WalletLookup(c) \/ WalletTx(c) \/ Record(c)
             \/ GiveUp(c) \/ Crash(c)
      PROVE  Inv'
  BY <1>1, SubmitInv, RetryInv, UsersInv, FraudInv, WalletLookupInv, WalletTxInv,
     RecordInv, GiveUpInv
<1>2. ASSUME NEW k \in Keys, Forget(k) PROVE Inv'
  BY <1>2, ForgetStep, BehindTheHandlers DEF Forget
<1>3. CASE UNCHANGED vars
  BY <1>3, QuietStep, BehindTheHandlers DEF vars, wallet, fraud
<1>4. QED
  BY <1>1, <1>2, <1>3, LateInv DEF Next

-----------------------------------------------------------------------------
(***************************************************************************)
(* Whoever is about to move money has its approval, and whoever is about   *)
(* to record a row has the wallet's: for any clients, keys and faults.     *)
(***************************************************************************)
THEOREM SagaIsInOrder == Spec => []Inv
BY InitSaga, NextSaga, PTL DEF Spec

(***************************************************************************)
(* No money moves that fraud has not allowed, whatever is lost or late.    *)
(***************************************************************************)
THEOREM PaymentsAreApproved == Spec => []PaidOnlyIfApproved
<1>1. Inv => PaidOnlyIfApproved
  BY DEF Inv, LedgerInOrder, PaidOnlyIfApproved
<1>2. QED
  BY <1>1, SagaIsInOrder, PTL

(***************************************************************************)
(* Each row of the audit is the wallet's own result of that key.           *)
(***************************************************************************)
THEOREM AuditIsTheLedgers == Spec => []AuditMatchesLedger
<1>1. Inv => AuditMatchesLedger
  BY DEF Inv
<1>2. QED
  BY <1>1, SagaIsInOrder, PTL

(***************************************************************************)
(* 200 means moved and recorded, and the retryable 500 means moved.        *)
(***************************************************************************)
THEOREM StatusesAreTrue == Spec => []StatusTellsTheTruth
<1>1. Inv => StatusTellsTheTruth
  BY DEF Inv
<1>2. QED
  BY <1>1, SagaIsInOrder, PTL

-----------------------------------------------------------------------------

(***************************************************************************)
(* The migrator, with tasks of any releases.                               *)
(***************************************************************************)
LEMMA NoneIsNoRelease == NoRelease \notin Releases
BY MigrationAssumption

\* What the files of a release are, and that their versions differ.
LEMMA FilesType ==
    ASSUME NEW r \in Releases, NEW d \in Databases
    PROVE  /\ Files[r][d] \in Seq(AllFiles)
           /\ DOMAIN Files[r][d] = 1 .. Len(Files[r][d])
           /\ Len(Files[r][d]) \in Nat
           /\ \A i \in DOMAIN Files[r][d] : Files[r][d][i] \in AllFiles
           /\ \A i, j \in DOMAIN Files[r][d] :
                 Files[r][d][i].version = Files[r][d][j].version => i = j
BY MigrationAssumption

\* A task at a file is at a file of its release.
LEMMA FileType ==
    ASSUME MigrationInv, NEW t \in Tasks, mpc[t] \in {"exec", "record", "commit"}
    PROVE  /\ image[t] \in Releases /\ target[t] \in Databases
           /\ file[t] \in DOMAIN FilesOf(t)
           /\ FileOf(t) \in AllFiles
<1>1. /\ image[t] \in Releases /\ target[t] \in Databases
      /\ file[t] \in DOMAIN FilesOf(t)
  BY DEF MigrationInv, BehindIsIn, MigrationTypeOK, Working
<1>2. FileOf(t) \in AllFiles
  BY <1>1, FilesType DEF FilesOf, FileOf
<1> QED BY <1>1, <1>2

\* The first states.
LEMMA InitInv == MigrationInit => MigrationInv
<1> SUFFICES ASSUME MigrationInit PROVE MigrationInv
  OBVIOUS
<1> USE DEF MigrationInit
<1>1. schema \in [Databases -> Seq(AllFiles)]
      /\ \A d \in Databases : \A i, j \in DOMAIN schema[d] :
            schema[d][i].version = schema[d][j].version => i = j
  <2>1. CASE schema = [d \in Databases |-> <<>>]
    BY <2>1
  <2>2. CASE \E r \in FirstReleases : schema = [d \in Databases |-> Files[r][d]]
    <3>1. PICK r \in FirstReleases : schema = [d \in Databases |-> Files[r][d]]
      BY <2>2
    <3>2. r \in Releases
      BY MigrationAssumption
    <3> QED BY <3>1, <3>2, FilesType
  <2> QED BY <2>1, <2>2 DEF FirstSchema
<1>2. MigrationTypeOK
  <2>1. \A d \in Databases : {schema[d][i] : i \in DOMAIN schema[d]} \subseteq AllFiles
    BY <1>1
  <2>2. applied \in [Databases -> SUBSET AllFiles]
    BY <2>1
  <2>3. exists \subseteq Databases /\ entered \subseteq [database : Databases, file : AllFiles, task : Tasks]
    OBVIOUS
  <2>4. /\ mpc \in [Tasks -> Working \cup {"off", "succeeded", "failed"}]
        /\ image \in [Tasks -> Releases \cup {NoRelease}]
        /\ file \in [Tasks -> Nat \ {0}]
    OBVIOUS
  <2>5. 1 \in Databases
    BY MigrationAssumption DEF Databases
  <2>6. target \in [Tasks -> Databases]
    BY <2>5
  <2> QED BY <1>1, <2>2, <2>3, <2>4, <2>6 DEF MigrationTypeOK
<1>3. AppliedOnce
  BY <1>1 DEF AppliedOnce
<1>4. \A t \in Tasks : mpc[t] = "off"
  OBVIOUS
<1>5. SuccessMeansMigrated /\ BehindIsIn /\ EnteredIsAlone
  BY <1>4 DEF SuccessMeansMigrated, BehindIsIn, EnteredIsAlone, Working
<1> QED BY <1>2, <1>3, <1>5 DEF MigrationInv

-----------------------------------------------------------------------------
(***************************************************************************)
(* The two shapes of a step that commits nothing: the task ends, or it     *)
(* goes on, at the same file or at another one it may go on to.            *)
(***************************************************************************)

\* A task that ends takes its open row with it.
LEMMA ExitInv ==
    ASSUME MigrationInv, NEW t \in Tasks, NEW how, Exit(t, how),
           how = "failed" \/ (how = "succeeded" /\ Migrated(image[t]))
    PROVE  MigrationInv'
<1> USE DEF Exit, Goto
<1>1. 1 \in Databases
  BY MigrationAssumption DEF Databases
<1>2. MigrationTypeOK'
  BY <1>1 DEF MigrationInv, MigrationTypeOK
<1>3. AppliedOnce'
  BY DEF MigrationInv, AppliedOnce
<1>4. \A u \in Tasks : u # t => /\ mpc'[u] = mpc[u] /\ image'[u] = image[u]
                                /\ target'[u] = target[u] /\ file'[u] = file[u]
  BY DEF MigrationInv, MigrationTypeOK
<1>5. mpc'[t] = how /\ image'[t] = image[t] /\ how \notin Working /\ how # "commit"
  BY DEF MigrationInv, MigrationTypeOK, Working
<1>6. SuccessMeansMigrated'
  BY <1>4, <1>5 DEF MigrationInv, SuccessMeansMigrated, Migrated
<1>7. BehindIsIn'
  <2> SUFFICES ASSUME NEW u \in Tasks
               PROVE /\ mpc'[u] \in Working => image'[u] \in Releases
                     /\ mpc'[u] \in Working =>
                           \A d \in Databases : d < target'[u] => FilesIn(image[u], d)'
                     /\ mpc'[u] \in Working => \A i \in DOMAIN FilesOf(u)' :
                           i < file'[u] => FilesOf(u)'[i] \in applied'[target'[u]]
                     /\ mpc'[u] \in {"exec", "record", "commit"} => file'[u] \in DOMAIN FilesOf(u)'
    BY DEF BehindIsIn
  <2>1. CASE u = t
    BY <2>1, <1>5 DEF Working
  <2>2. CASE u # t
    BY <2>2, <1>4 DEF MigrationInv, BehindIsIn, FilesIn, FilesOf
  <2> QED BY <2>1, <2>2
<1>8. EnteredIsAlone'
  <2>1. \A e \in entered' : e \in entered /\ e.task \in Tasks /\ e.task # t
    BY DEF MigrationInv, MigrationTypeOK
  <2>2. ASSUME NEW e \in entered'
        PROVE /\ mpc'[e.task] = "commit"
              /\ e.database = target'[e.task]
              /\ e.file = FileOf(e.task)'
              /\ \A f \in applied'[e.database] : f.version # e.file.version
    BY <2>1, <1>4 DEF MigrationInv, EnteredIsAlone, FileOf, FilesOf
  <2>3. \A e, g \in entered' :
            (e.database = g.database /\ e.file.version = g.file.version) => e = g
    BY <2>1 DEF MigrationInv, EnteredIsAlone
  <2>4. \A u \in Tasks : mpc'[u] = "commit" => \E e \in entered' : e.task = u
    BY <1>4, <1>5 DEF MigrationInv, EnteredIsAlone
  <2> QED BY <2>2, <2>3, <2>4 DEF EnteredIsAlone
<1> QED BY <1>2, <1>3, <1>6, <1>7, <1>8 DEF MigrationInv

\* A task that holds no open row goes on.
LEMMA GoOnInv ==
    ASSUME MigrationInv, NEW t \in Tasks, NEW step \in Working,
           mpc[t] # "commit", mpc[t] # "succeeded", step # "commit",
           Goto(t, step), UNCHANGED <<applied, schema, entered>>,
           exists' \subseteq Databases,
           NEW r \in Releases, image' = [image EXCEPT ![t] = r],
           NEW d \in Databases, target' = [target EXCEPT ![t] = d],
           NEW n \in Nat \ {0}, file' = [file EXCEPT ![t] = n],
           \A e \in Databases : e < d => FilesIn(r, e),
           \A i \in DOMAIN Files[r][d] : i < n => Files[r][d][i] \in applied[d],
           step \in {"exec", "record"} => n \in DOMAIN Files[r][d]
    PROVE  MigrationInv'
<1> USE DEF Goto
<1>1. MigrationTypeOK'
  BY DEF MigrationInv, MigrationTypeOK
<1>2. AppliedOnce'
  BY DEF MigrationInv, AppliedOnce
<1>3. \A u \in Tasks : u # t => /\ mpc'[u] = mpc[u] /\ image'[u] = image[u]
                                /\ target'[u] = target[u] /\ file'[u] = file[u]
  BY DEF MigrationInv, MigrationTypeOK
<1>4. /\ mpc'[t] = step /\ image'[t] = r /\ target'[t] = d /\ file'[t] = n
      /\ step # "succeeded"
  BY DEF MigrationInv, MigrationTypeOK, Working
<1>5. SuccessMeansMigrated'
  BY <1>3, <1>4 DEF MigrationInv, SuccessMeansMigrated, Migrated
<1>6. BehindIsIn'
  <2> SUFFICES ASSUME NEW u \in Tasks
               PROVE /\ mpc'[u] \in Working => image'[u] \in Releases
                     /\ mpc'[u] \in Working =>
                           \A e \in Databases : e < target'[u] => FilesIn(image[u], e)'
                     /\ mpc'[u] \in Working => \A i \in DOMAIN FilesOf(u)' :
                           i < file'[u] => FilesOf(u)'[i] \in applied'[target'[u]]
                     /\ mpc'[u] \in {"exec", "record", "commit"} => file'[u] \in DOMAIN FilesOf(u)'
    BY DEF BehindIsIn
  <2>1. CASE u = t
    BY <2>1, <1>4 DEF FilesIn, FilesOf
  <2>2. CASE u # t
    BY <2>2, <1>3 DEF MigrationInv, BehindIsIn, FilesIn, FilesOf
  <2> QED BY <2>1, <2>2
<1>7. EnteredIsAlone'
  <2>1. \A e \in entered : e.task \in Tasks /\ e.task # t
    BY DEF MigrationInv, MigrationTypeOK, EnteredIsAlone
  <2>2. ASSUME NEW e \in entered'
        PROVE /\ mpc'[e.task] = "commit"
              /\ e.database = target'[e.task]
              /\ e.file = FileOf(e.task)'
              /\ \A f \in applied'[e.database] : f.version # e.file.version
    BY <2>1, <1>3 DEF MigrationInv, EnteredIsAlone, FileOf, FilesOf
  <2>3. \A e, g \in entered' :
            (e.database = g.database /\ e.file.version = g.file.version) => e = g
    BY DEF MigrationInv, EnteredIsAlone
  <2>4. \A u \in Tasks : mpc'[u] = "commit" => \E e \in entered' : e.task = u
    BY <1>3, <1>4 DEF MigrationInv, EnteredIsAlone
  <2> QED BY <2>2, <2>3, <2>4 DEF EnteredIsAlone
<1> QED BY <1>1, <1>2, <1>5, <1>6, <1>7 DEF MigrationInv

-----------------------------------------------------------------------------
\* The two steps of a file's transaction that others can see.

LEMMA EnterInv ==
    ASSUME MigrationInv, NEW t \in Tasks, mpc[t] = "record", Rivals(t) = {}, Enter(t),
           \A f \in applied[target[t]] : f.version # FileOf(t).version
    PROVE  MigrationInv'
<1> USE DEF Enter, Goto
<1> DEFINE mine == [database |-> target[t], file |-> FileOf(t), task |-> t]
<1>0. /\ image[t] \in Releases /\ target[t] \in Databases
      /\ file[t] \in DOMAIN FilesOf(t) /\ FileOf(t) \in AllFiles
  BY FileType
<1>1. MigrationTypeOK'
  <2>1. mine \in [database : Databases, file : AllFiles, task : Tasks]
    BY <1>0
  <2>2. entered' \subseteq [database : Databases, file : AllFiles, task : Tasks]
    BY <2>1 DEF MigrationInv, MigrationTypeOK
  <2> QED BY <2>2 DEF MigrationInv, MigrationTypeOK, Working
<1>2. AppliedOnce'
  BY DEF MigrationInv, AppliedOnce
<1>3. /\ mpc'[t] = "commit"
      /\ \A u \in Tasks : u # t => mpc'[u] = mpc[u]
  BY DEF MigrationInv, MigrationTypeOK
<1>4. SuccessMeansMigrated'
  BY <1>3 DEF MigrationInv, SuccessMeansMigrated, Migrated
<1>5. BehindIsIn'
  <2>1. \A u \in Tasks : mpc'[u] \in Working => mpc[u] \in Working
    BY <1>3 DEF Working
  <2>2. \A u \in Tasks : mpc'[u] \in {"exec", "record", "commit"}
                            => mpc[u] \in {"exec", "record", "commit"}
    BY <1>3
  <2> QED BY <2>1, <2>2 DEF MigrationInv, BehindIsIn, FilesIn, FilesOf
<1>6. EnteredIsAlone'
  <2>1. \A e \in entered : e.task \in Tasks /\ mpc[e.task] = "commit"
    BY DEF MigrationInv, MigrationTypeOK, EnteredIsAlone
  <2>2. \A e \in entered' : e \in entered \/ e = mine
    OBVIOUS
  <2>3. ASSUME NEW e \in entered'
        PROVE /\ mpc'[e.task] = "commit"
              /\ e.database = target'[e.task]
              /\ e.file = FileOf(e.task)'
              /\ \A f \in applied'[e.database] : f.version # e.file.version
    <3>1. CASE e = mine
      BY <3>1, <1>3 DEF FileOf, FilesOf
    <3>2. CASE e \in entered
      BY <3>2, <2>1, <1>3 DEF MigrationInv, EnteredIsAlone, FileOf, FilesOf
    <3> QED BY <2>2, <3>1, <3>2
  <2>4. \A e \in entered :
            ~ (e.database = mine.database /\ e.file.version = mine.file.version)
    BY DEF Rivals
  <2>5. \A e, g \in entered' :
            (e.database = g.database /\ e.file.version = g.file.version) => e = g
    BY <2>2, <2>4 DEF MigrationInv, EnteredIsAlone
  <2>6. \A u \in Tasks : mpc'[u] = "commit" => \E e \in entered' : e.task = u
    <3>1. mine \in entered' /\ mine.task = t
      OBVIOUS
    <3> QED BY <3>1, <1>3 DEF MigrationInv, EnteredIsAlone
  <2> QED BY <2>3, <2>5, <2>6 DEF EnteredIsAlone
<1> QED BY <1>1, <1>2, <1>4, <1>5, <1>6 DEF MigrationInv

\* A committing task's file is new, and nobody else is about to commit its version.
LEMMA CommitIsNew ==
    ASSUME MigrationInv, NEW t \in Tasks, mpc[t] = "commit"
    PROVE  /\ \A f \in applied[target[t]] : f.version # FileOf(t).version
           /\ \A e \in entered : (e.database = target[t] /\ e.file.version = FileOf(t).version)
                                    => e.task = t
<1>1. PICK e \in entered : e.task = t
  BY DEF MigrationInv, EnteredIsAlone
<1>2. e.database = target[t] /\ e.file = FileOf(t)
  BY <1>1 DEF MigrationInv, EnteredIsAlone
<1> QED BY <1>1, <1>2 DEF MigrationInv, EnteredIsAlone

\* A sequence of files with a new one at its end.
LEMMA AppendedFile ==
    ASSUME NEW s \in Seq(AllFiles), NEW f \in AllFiles, NEW q, q = Append(s, f),
           \A i, j \in DOMAIN s : s[i].version = s[j].version => i = j,
           \A i \in DOMAIN s : s[i].version # f.version
    PROVE  /\ \A i \in DOMAIN q : q[i] = f \/ \E j \in DOMAIN s : q[i] = s[j]
           /\ \E i \in DOMAIN q : q[i] = f
           /\ \A i \in DOMAIN s : i \in DOMAIN q /\ q[i] = s[i]
           /\ \A i, j \in DOMAIN q : q[i].version = q[j].version => i = j
<1>1. /\ Len(s) \in Nat /\ DOMAIN s = 1 .. Len(s) /\ DOMAIN q = 1 .. Len(s) + 1
      /\ q[Len(s) + 1] = f
      /\ \A i \in 1 .. Len(s) : q[i] = s[i]
  OBVIOUS
<1>2. /\ \A i \in DOMAIN q : i \in DOMAIN s \/ i = Len(s) + 1
      /\ DOMAIN s \subseteq DOMAIN q /\ Len(s) + 1 \in DOMAIN q
  BY <1>1
<1>3. \A i \in DOMAIN s : q[i] = s[i]
  BY <1>1
<1>5. \A i, j \in DOMAIN q : q[i].version = q[j].version => i = j
  BY <1>1, <1>2, <1>3
<1> QED BY <1>1, <1>2, <1>3, <1>5

LEMMA CommitInv ==
    ASSUME MigrationInv, NEW t \in Tasks, CommitFile(t)
    PROVE  MigrationInv'
<1> DEFINE d == target[t]
           f == FileOf(t)
<1>0. /\ image[t] \in Releases /\ d \in Databases
      /\ file[t] \in DOMAIN FilesOf(t) /\ f \in AllFiles
      /\ DOMAIN FilesOf(t) = 1 .. Len(FilesOf(t)) /\ Len(FilesOf(t)) \in Nat
  BY FileType, FilesType DEF FilesOf, CommitFile
<1>1. 1 \in Databases
  BY MigrationAssumption DEF Databases
<1>2. /\ applied' = [applied EXCEPT ![d] = @ \cup {f}]
      /\ schema' = [schema EXCEPT ![d] = Append(@, f)]
      /\ entered' = {e \in entered : e.task # t}
      /\ UNCHANGED <<exists, image>>
      /\ mpc[t] = "commit"
  BY DEF CommitFile
<1>3. /\ applied \in [Databases -> SUBSET AllFiles] /\ schema \in [Databases -> Seq(AllFiles)]
      /\ entered \subseteq [database : Databases, file : AllFiles, task : Tasks]
  BY DEF MigrationInv, MigrationTypeOK
<1>4. \A e \in Databases : \A g \in applied[e] : g \in applied'[e]
  BY <1>2, <1>3
<1>5. /\ mpc'[t] \in {"check", "failed"}
      /\ \A u \in Tasks : u # t => /\ mpc'[u] = mpc[u] /\ image'[u] = image[u]
                                   /\ target'[u] = target[u] /\ file'[u] = file[u]
      /\ mpc'[t] = "check" => target'[t] = d /\ file'[t] = file[t] + 1
  BY DEF MigrationInv, MigrationTypeOK, CommitFile, Goto
<1>6. MigrationTypeOK'
  <2>1. file' \in [Tasks -> Nat \ {0}] /\ target' \in [Tasks -> Databases]
    <3>1. /\ file \in [Tasks -> Nat \ {0}] /\ target \in [Tasks -> Databases]
          /\ file[t] + 1 \in Nat \ {0}
      BY DEF MigrationInv, MigrationTypeOK
    <3>2. CASE file' = [file EXCEPT ![t] = @ + 1] /\ UNCHANGED target
      BY <3>1, <3>2
    <3>3. CASE target' = [target EXCEPT ![t] = 1] /\ file' = [file EXCEPT ![t] = 1]
      BY <3>1, <3>3, <1>1
    <3> QED BY <3>2, <3>3 DEF CommitFile
  <2>2. mpc' \in [Tasks -> Working \cup {"off", "succeeded", "failed"}]
    BY DEF MigrationInv, MigrationTypeOK, Working, CommitFile, Goto
  <2>3. applied' \in [Databases -> SUBSET AllFiles]
    BY <1>0, <1>2, <1>3
  <2>4. schema' \in [Databases -> Seq(AllFiles)]
    BY <1>0, <1>2, <1>3
  <2> QED BY <2>1, <2>2, <2>3, <2>4, <1>2, <1>3 DEF MigrationInv, MigrationTypeOK
<1>7. AppliedOnce'
  <2> SUFFICES ASSUME NEW e \in Databases
               PROVE /\ \A g \in applied'[e] : \E i \in DOMAIN schema'[e] : schema'[e][i] = g
                     /\ \A i \in DOMAIN schema'[e] : schema'[e][i] \in applied'[e]
                     /\ \A i, j \in DOMAIN schema'[e] :
                           schema'[e][i].version = schema'[e][j].version => i = j
    BY DEF AppliedOnce
  <2>1. CASE e # d
    BY <2>1, <1>0, <1>2, <1>3 DEF MigrationInv, AppliedOnce
  <2>2. CASE e = d
    <3>1. /\ schema[d] \in Seq(AllFiles)
          /\ schema'[d] = Append(schema[d], f) /\ applied'[d] = applied[d] \cup {f}
      BY <1>0, <1>2, <1>3
    <3>2. /\ \A g \in applied[d] : \E i \in DOMAIN schema[d] : schema[d][i] = g
          /\ \A i \in DOMAIN schema[d] : schema[d][i] \in applied[d]
          /\ \A i, j \in DOMAIN schema[d] :
                schema[d][i].version = schema[d][j].version => i = j
      BY <1>0 DEF MigrationInv, AppliedOnce
    <3>3. \A i \in DOMAIN schema[d] : schema[d][i].version # f.version
      BY <3>2, <1>2, CommitIsNew
    <3>4. PICK s, q : s = schema[d] /\ q = schema'[d]
      OBVIOUS
    <3>5. s \in Seq(AllFiles) /\ q = Append(s, f)
      BY <3>1, <3>4
    <3>6. /\ \A i, j \in DOMAIN s : s[i].version = s[j].version => i = j
          /\ \A i \in DOMAIN s : s[i].version # f.version
      BY <3>2, <3>3, <3>4
    <3>7. /\ \A i \in DOMAIN q : q[i] = f \/ \E j \in DOMAIN s : q[i] = s[j]
          /\ \E i \in DOMAIN q : q[i] = f
          /\ \A i \in DOMAIN s : i \in DOMAIN q /\ q[i] = s[i]
          /\ \A i, j \in DOMAIN q : q[i].version = q[j].version => i = j
      BY <3>5, <3>6, <1>0, AppendedFile
    <3>8. /\ \A g \in applied'[d] : \E i \in DOMAIN q : q[i] = g
          /\ \A i \in DOMAIN q : q[i] \in applied'[d]
      BY <3>1, <3>2, <3>4, <3>7
    <3> QED BY <2>2, <3>4, <3>7, <3>8
  <2> QED BY <2>1, <2>2
<1>8. SuccessMeansMigrated'
  <2> SUFFICES ASSUME NEW u \in Tasks, mpc'[u] = "succeeded",
                      NEW e \in Databases, NEW i \in DOMAIN Files[image'[u]][e]
               PROVE  Files[image'[u]][e][i] \in applied'[e]
    BY <1>2 DEF SuccessMeansMigrated, Migrated
  <2>1. u # t /\ mpc[u] = "succeeded" /\ image'[u] = image[u]
    BY <1>5
  <2> QED BY <2>1, <1>4 DEF MigrationInv, SuccessMeansMigrated, Migrated
<1>9. BehindIsIn'
  <2> SUFFICES ASSUME NEW u \in Tasks, mpc'[u] \in Working
               PROVE /\ image'[u] \in Releases
                     /\ \A e \in Databases : e < target'[u] =>
                           \A i \in DOMAIN Files[image'[u]][e] : Files[image'[u]][e][i] \in applied'[e]
                     /\ \A i \in DOMAIN Files[image'[u]][target'[u]] :
                           i < file'[u] => Files[image'[u]][target'[u]][i] \in applied'[target'[u]]
                     /\ mpc'[u] \in {"exec", "record", "commit"} =>
                           file'[u] \in DOMAIN Files[image'[u]][target'[u]]
    BY DEF BehindIsIn, FilesIn, FilesOf, Working
  <2>1. CASE u = t
    <3>1. mpc'[t] = "check" /\ target'[t] = d /\ file'[t] = file[t] + 1 /\ image'[t] = image[t]
      BY <2>1, <1>2, <1>5 DEF Working
    <3>2. /\ \A e \in Databases : e < d => FilesIn(image[t], e)
          /\ \A i \in DOMAIN FilesOf(t) : i < file[t] => FilesOf(t)[i] \in applied[d]
      BY <1>2 DEF MigrationInv, BehindIsIn, Working
    <3>3. \A i \in DOMAIN FilesOf(t) : i < file[t] + 1 => i < file[t] \/ i = file[t]
      <4>1. file[t] \in Nat /\ DOMAIN FilesOf(t) \subseteq Nat
        BY <1>0
      <4> QED BY <4>1
    <3>4. FilesOf(t)[file[t]] \in applied'[d]
      BY <1>0, <1>2, <1>3 DEF FileOf
    <3>5. \A i \in DOMAIN FilesOf(t) : i < file[t] + 1 => FilesOf(t)[i] \in applied'[d]
      BY <3>2, <3>3, <3>4, <1>0, <1>4
    <3> QED BY <2>1, <3>1, <3>2, <3>5, <1>0, <1>4 DEF FilesIn, FilesOf
  <2>2. CASE u # t
    <3>1. mpc[u] \in Working /\ target[u] \in Databases
      BY <2>2, <1>5 DEF MigrationInv, MigrationTypeOK
    <3> QED BY <2>2, <3>1, <1>4, <1>5 DEF MigrationInv, BehindIsIn, FilesIn, FilesOf
  <2> QED BY <2>1, <2>2
<1>10. EnteredIsAlone'
  <2>1. \A e \in entered' : e \in entered /\ e.task \in Tasks /\ e.task # t
                            /\ e.database \in Databases
    BY <1>2, <1>3
  <2>2. ASSUME NEW e \in entered'
        PROVE /\ mpc'[e.task] = "commit"
              /\ e.database = target'[e.task]
              /\ e.file = FileOf(e.task)'
              /\ \A g \in applied'[e.database] : g.version # e.file.version
    <3>1. /\ mpc'[e.task] = "commit"
          /\ e.database = target'[e.task]
          /\ e.file = FileOf(e.task)'
      BY <2>1, <1>5 DEF MigrationInv, EnteredIsAlone, FileOf, FilesOf
    <3>2. \A g \in applied[e.database] : g.version # e.file.version
      BY <2>1 DEF MigrationInv, EnteredIsAlone
    <3>3. e.database = d => f.version # e.file.version
      BY <2>1, <1>2, CommitIsNew
    <3>4. \A g \in applied'[e.database] :
              g \in applied[e.database] \/ (e.database = d /\ g = f)
      BY <2>1, <1>0, <1>2, <1>3
    <3> QED BY <3>1, <3>2, <3>3, <3>4
  <2>3. \A e, g \in entered' :
            (e.database = g.database /\ e.file.version = g.file.version) => e = g
    BY <2>1 DEF MigrationInv, EnteredIsAlone
  <2>4. \A u \in Tasks : mpc'[u] = "commit" => \E e \in entered' : e.task = u
    BY <1>2, <1>5 DEF MigrationInv, EnteredIsAlone
  <2> QED BY <2>2, <2>3, <2>4 DEF EnteredIsAlone
<1> QED BY <1>6, <1>7, <1>8, <1>9, <1>10 DEF MigrationInv

-----------------------------------------------------------------------------
\* Every step keeps the invariant.

\* What a working task knows.
LEMMA WorkingFacts ==
    ASSUME MigrationInv, NEW t \in Tasks, mpc[t] \in Working
    PROVE  /\ image[t] \in Releases /\ target[t] \in Databases /\ file[t] \in Nat \ {0}
           /\ \A d \in Databases : d < target[t] => FilesIn(image[t], d)
           /\ \A i \in DOMAIN Files[image[t]][target[t]] :
                 i < file[t] => Files[image[t]][target[t]][i] \in applied[target[t]]
           /\ image = [image EXCEPT ![t] = image[t]]
           /\ target = [target EXCEPT ![t] = target[t]]
           /\ file = [file EXCEPT ![t] = file[t]]
<1>1. /\ image \in [Tasks -> Releases \cup {NoRelease}] /\ target \in [Tasks -> Databases]
      /\ file \in [Tasks -> Nat \ {0}]
  BY DEF MigrationInv, MigrationTypeOK
<1> QED BY <1>1 DEF MigrationInv, BehindIsIn, FilesOf

\* A step of a working task that only changes where it is.
LEMMA SameFileInv ==
    ASSUME MigrationInv, NEW t \in Tasks, mpc[t] \in Working, mpc[t] # "commit",
           NEW step \in Working, step # "commit", Goto(t, step),
           UNCHANGED <<applied, schema, entered, image, target, file>>,
           exists' \subseteq Databases,
           step \in {"exec", "record"} => file[t] \in DOMAIN FilesOf(t)
    PROVE  MigrationInv'
<1>1. mpc[t] # "succeeded"
  BY DEF Working
<1> QED BY <1>1, WorkingFacts, GoOnInv DEF FilesOf

LEMMA StartInv ==
    ASSUME MigrationInv, NEW t \in Tasks, Start(t)
    PROVE  MigrationInv'
<1>1. PICK r \in Releases : image' = [image EXCEPT ![t] = r]
  BY DEF Start
<1>2. /\ mpc[t] = "off" /\ Goto(t, "ping")
      /\ target' = [target EXCEPT ![t] = 1] /\ file' = [file EXCEPT ![t] = 1]
      /\ UNCHANGED <<exists, applied, schema, entered>>
  BY DEF Start, databases
<1>4. 1 \in Databases /\ \A e \in Databases : ~ e < 1
  BY MigrationAssumption DEF Databases
<1>6. \A i \in DOMAIN Files[r][1] : ~ i < 1
  BY <1>4, FilesType
<1>7. "ping" \in Working /\ exists' \subseteq Databases
  BY <1>2 DEF Working, MigrationInv, MigrationTypeOK
<1>8. 1 \in Nat \ {0} /\ "ping" # "commit" /\ "ping" \notin {"exec", "record"}
      /\ mpc[t] # "commit" /\ mpc[t] # "succeeded"
  BY <1>2
<1> QED BY <1>1, <1>2, <1>4, <1>6, <1>7, <1>8, GoOnInv

LEMMA CheckFileInv ==
    ASSUME MigrationInv, NEW t \in Tasks, CheckFile(t)
    PROVE  MigrationInv'
<1> DEFINE r == image[t]
           d == target[t]
<1>1. /\ mpc[t] = "check" /\ mpc[t] \in Working /\ file[t] \in DOMAIN FilesOf(t)
      /\ "check" \in Working /\ "exec" \in Working
  BY DEF CheckFile, Working
<1>2. exists \subseteq Databases /\ mpc \in [Tasks -> Working \cup {"off", "succeeded", "failed"}]
  BY DEF MigrationInv, MigrationTypeOK
<1>3. CASE /\ FileOf(t) \in applied[d]
           /\ file' = [file EXCEPT ![t] = @ + 1]
           /\ UNCHANGED <<databases, mpc, image, target>>
  <2>1. /\ r \in Releases /\ d \in Databases /\ file[t] \in Nat /\ file[t] + 1 \in Nat \ {0}
        /\ \A e \in Databases : e < d => FilesIn(r, e)
        /\ \A i \in DOMAIN Files[r][d] : i < file[t] => Files[r][d][i] \in applied[d]
        /\ image = [image EXCEPT ![t] = r] /\ target = [target EXCEPT ![t] = d]
    BY <1>1, WorkingFacts
  <2>2. \A i \in DOMAIN Files[r][d] : i < file[t] + 1 => i < file[t] \/ i = file[t]
    <3>1. DOMAIN Files[r][d] \subseteq Nat
      BY <2>1, FilesType
    <3> QED BY <2>1, <3>1
  <2>3. Files[r][d][file[t]] \in applied[d]
    BY <1>3 DEF FileOf, FilesOf
  <2>4. \A i \in DOMAIN Files[r][d] : i < file[t] + 1 => Files[r][d][i] \in applied[d]
    BY <2>1, <2>2, <2>3
  <2>5. Goto(t, "check")
    BY <1>1, <1>2, <1>3 DEF Goto
  <2>6. /\ UNCHANGED <<applied, schema, entered>> /\ exists' \subseteq Databases
        /\ image' = [image EXCEPT ![t] = r] /\ target' = [target EXCEPT ![t] = d]
        /\ file' = [file EXCEPT ![t] = file[t] + 1]
    BY <1>2, <1>3, <2>1 DEF databases
  <2>7. mpc[t] # "commit" /\ mpc[t] # "succeeded"
    BY <1>1
  <2>8. PICK n \in Nat \ {0} : n = file[t] + 1
    BY <2>1
  <2>9. /\ file' = [file EXCEPT ![t] = n] /\ "check" # "commit"
        /\ \A i \in DOMAIN Files[r][d] : i < n => Files[r][d][i] \in applied[d]
        /\ "check" \in {"exec", "record"} => n \in DOMAIN Files[r][d]
    BY <2>4, <2>6, <2>8
  <2> HIDE DEF r, d
  <2> QED BY <1>1, <2>1, <2>5, <2>6, <2>7, <2>9, GoOnInv
<1>4. CASE Exit(t, "failed")
  BY <1>4, ExitInv
<1>5. CASE /\ Goto(t, "exec")
           /\ UNCHANGED <<databases, image, target, file>>
  BY <1>1, <1>2, <1>5, SameFileInv DEF databases
<1> QED BY <1>3, <1>4, <1>5 DEF CheckFile

LEMMA NextDatabaseInv ==
    ASSUME MigrationInv, NEW t \in Tasks, NextDatabase(t)
    PROVE  MigrationInv' /\ (mpc'[t] = "succeeded" => Migrated(image[t]))
<1> DEFINE r == image[t]
           d == target[t]
<1>1. /\ mpc[t] = "check" /\ mpc[t] \in Working /\ file[t] \notin DOMAIN FilesOf(t)
      /\ "find" \in Working
  BY DEF NextDatabase, Working
<1>2. /\ r \in Releases /\ d \in Databases /\ file[t] \in Nat
      /\ \A e \in Databases : e < d => FilesIn(r, e)
      /\ \A i \in DOMAIN Files[r][d] : i < file[t] => Files[r][d][i] \in applied[d]
      /\ image = [image EXCEPT ![t] = r]
  BY <1>1, WorkingFacts
\* The task has gone past the last file of its database.
<1>3. FilesIn(r, d)
  <2>1. /\ DOMAIN Files[r][d] = 1 .. Len(Files[r][d]) /\ Len(Files[r][d]) \in Nat
    BY <1>2, FilesType
  <2>2. file[t] \notin 1 .. Len(Files[r][d])
    BY <1>1, <2>1 DEF FilesOf
  <2>3. file[t] # 0
    BY DEF MigrationInv, MigrationTypeOK
  <2>4. file[t] > Len(Files[r][d])
    BY <2>1, <2>2, <2>3, <1>2
  <2>5. \A i \in 1 .. Len(Files[r][d]) : i < file[t]
    BY <2>1, <2>4, <1>2
  <2> QED BY <1>2, <2>1, <2>5 DEF FilesIn
<1>4. CASE /\ d < NumDatabases
           /\ Goto(t, "find")
           /\ target' = [target EXCEPT ![t] = @ + 1]
           /\ file' = [file EXCEPT ![t] = 1]
           /\ UNCHANGED <<databases, image>>
  <2>1. d + 1 \in Databases /\ \A e \in Databases : e < d + 1 => e < d \/ e = d
    BY <1>2, <1>4, MigrationAssumption DEF Databases
  <2>2. \A e \in Databases : e < d + 1 => FilesIn(r, e)
    BY <1>2, <1>3, <2>1
  <2>3. \A i \in DOMAIN Files[r][d + 1] : ~ i < 1
    BY <1>2, <2>1, FilesType
  <2>4. /\ UNCHANGED <<applied, schema, entered>> /\ exists' \subseteq Databases
        /\ image' = [image EXCEPT ![t] = r] /\ target' = [target EXCEPT ![t] = d + 1]
    BY <1>2, <1>4 DEF databases, MigrationInv, MigrationTypeOK
  <2>5. mpc[t] # "commit" /\ mpc[t] # "succeeded" /\ 1 \in Nat \ {0}
    BY <1>1
  <2>6. MigrationInv'
    BY <1>1, <1>2, <1>4, <2>1, <2>2, <2>3, <2>4, <2>5, GoOnInv
  <2>7. mpc'[t] = "find"
    BY <1>4 DEF Goto, MigrationInv, MigrationTypeOK
  <2> QED BY <2>6, <2>7
<1>5. CASE d = NumDatabases /\ Exit(t, "succeeded")
  <2>1. \A e \in Databases : e < d \/ e = d
    BY <1>2, <1>5, MigrationAssumption DEF Databases
  <2>2. Migrated(r)
    BY <1>2, <1>3, <2>1 DEF Migrated, FilesIn
  <2> QED BY <1>5, <2>2, ExitInv
<1> QED BY <1>4, <1>5 DEF NextDatabase

LEMMA StepInv ==
    ASSUME MigrationInv, [MigrationNext]_mvars
    PROVE  MigrationInv'
<1>1. CASE UNCHANGED mvars
  BY <1>1 DEF mvars, MigrationInv, MigrationTypeOK, AppliedOnce, SuccessMeansMigrated, Migrated,
              BehindIsIn, FilesIn, EnteredIsAlone, FileOf, FilesOf
<1>2. CASE MigrationNext
  <2>1. PICK t \in Tasks : Start(t) \/ Advance(t) \/ Fail(t)
    BY <1>2 DEF MigrationNext
  <2>2. exists \subseteq Databases /\ target \in [Tasks -> Databases]
    BY DEF MigrationInv, MigrationTypeOK
  <2>3. CASE Start(t)
    BY <2>3, StartInv
  <2>4. CASE Ping(t)
    <3>1. /\ mpc[t] \in Working /\ mpc[t] # "commit" /\ "find" \in Working
          /\ Goto(t, "find") /\ UNCHANGED <<exists, applied, schema, entered, image, target, file>>
      BY <2>4 DEF Ping, Working, databases
    <3> QED BY <3>1, <2>2, SameFileInv
  <2>5. CASE FindDatabase(t)
    <3>1. /\ mpc[t] \in Working /\ mpc[t] # "commit"
          /\ UNCHANGED <<exists, applied, schema, entered, image, target, file>>
      BY <2>5 DEF FindDatabase, Working, databases
    <3>2. "open" \in Working /\ "create" \in Working
      BY DEF Working
    <3>3. Goto(t, "open") \/ Goto(t, "create")
      BY <2>5 DEF FindDatabase
    <3> QED BY <3>1, <3>2, <3>3, <2>2, SameFileInv
  <2>6. CASE CreateDatabase(t)
    <3>1. CASE Exit(t, "failed")
      BY <3>1, ExitInv
    <3>2. CASE /\ exists' = exists \cup {target[t]} /\ Goto(t, "open")
               /\ UNCHANGED <<applied, schema, entered, image, target, file>>
      <4>1. exists' \subseteq Databases
        BY <3>2, <2>2
      <4>2. mpc[t] \in Working /\ mpc[t] # "commit" /\ "open" \in Working
        BY <2>6 DEF CreateDatabase, Working
      <4> QED BY <3>2, <4>1, <4>2, SameFileInv
    <3> QED BY <2>6, <3>1, <3>2 DEF CreateDatabase
  <2>7. CASE OpenDatabase(t)
    <3>1. /\ mpc[t] \in Working /\ mpc[t] # "commit" /\ "check" \in Working
          /\ Goto(t, "check") /\ UNCHANGED <<exists, applied, schema, entered, image, target, file>>
      BY <2>7 DEF OpenDatabase, Working, databases
    <3> QED BY <3>1, <2>2, SameFileInv
  <2>8. CASE CheckFile(t)
    BY <2>8, CheckFileInv
  <2>9. CASE NextDatabase(t)
    BY <2>9, NextDatabaseInv
  <2>10. CASE ExecFile(t)
    <3>1. /\ mpc[t] \in Working /\ mpc[t] # "commit" /\ "record" \in Working
          /\ Goto(t, "record") /\ UNCHANGED <<exists, applied, schema, entered, image, target, file>>
      BY <2>10 DEF ExecFile, Working, databases
    <3>2. file[t] \in DOMAIN FilesOf(t)
      BY <2>10, FileType DEF ExecFile
    <3> QED BY <3>1, <3>2, <2>2, SameFileInv
  <2>11. CASE RecordFile(t)
    <3>1. mpc[t] = "record" /\ Rivals(t) = {}
      BY <2>11 DEF RecordFile
    <3>2. CASE /\ ~ \E f \in applied[target[t]] : f.version = FileOf(t).version
               /\ Enter(t)
      BY <3>1, <3>2, EnterInv
    <3>3. CASE Exit(t, "failed")
      BY <3>3, ExitInv
    <3> QED BY <2>11, <3>2, <3>3 DEF RecordFile
  <2>12. CASE CommitFile(t)
    BY <2>12, CommitInv
  <2>13. CASE Fail(t)
    BY <2>13, ExitInv DEF Fail
  <2> QED BY <2>1, <2>3, <2>4, <2>5, <2>6, <2>7, <2>8, <2>9, <2>10, <2>11, <2>12, <2>13 DEF Advance
<1> QED BY <1>1, <1>2

(***************************************************************************)
(* The invariant holds of every behaviour, whatever tasks run at once.     *)
(***************************************************************************)
THEOREM MigrationIsInvariant == MigrationSpec => []MigrationInv
<1>1. MigrationInit => MigrationInv
  BY InitInv
<1>2. MigrationInv /\ [MigrationNext]_mvars => MigrationInv'
  BY StepInv
<1> QED BY <1>1, <1>2, PTL DEF MigrationSpec

(***************************************************************************)
(* Type correctness.                                                       *)
(***************************************************************************)
THEOREM MigrationIsTyped == MigrationSpec => []MigrationTypeOK
<1>1. MigrationInv => MigrationTypeOK
  BY DEF MigrationInv
<1> QED BY <1>1, MigrationIsInvariant, PTL

(***************************************************************************)
(* The rows are the files that have taken effect, each version once.       *)
(***************************************************************************)
THEOREM FilesAreAppliedOnce == MigrationSpec => []AppliedOnce
<1>1. MigrationInv => AppliedOnce
  BY DEF MigrationInv
<1> QED BY <1>1, MigrationIsInvariant, PTL

(***************************************************************************)
(* Exit code 0 means that the release of the task is in place.             *)
(***************************************************************************)
THEOREM ExitZeroMeansMigrated == MigrationSpec => []SuccessMeansMigrated
<1>1. MigrationInv => SuccessMeansMigrated
  BY DEF MigrationInv
<1> QED BY <1>1, MigrationIsInvariant, PTL

-----------------------------------------------------------------------------
\* Migration implements SchemaHistory.

\* What the history sees of a task.
InstalledBy(t) == IF mpc[t] = "succeeded" THEN image[t] ELSE NoRelease

LEMMA SeenAlike ==
    ASSUME \A t \in Tasks : InstalledBy(t)' = InstalledBy(t), UNCHANGED schema
    PROVE  UNCHANGED History!hvars
<1> DEFINE old == [t \in Tasks |-> IF mpc[t] = "succeeded" THEN image[t] ELSE NoRelease]
           new == [t \in Tasks |-> IF mpc'[t] = "succeeded" THEN image'[t] ELSE NoRelease]
<1>1. new = old
  BY DEF InstalledBy
<1> QED BY <1>1 DEF History!hvars

\* Steps that neither commit nor succeed are not seen.
LEMMA StepIsHidden ==
    ASSUME MigrationInv, NEW t \in Tasks, NEW step, step # "succeeded", mpc[t] # "succeeded",
           Goto(t, step), UNCHANGED schema,
           \A u \in Tasks : u # t => image'[u] = image[u]
    PROVE  UNCHANGED History!hvars
<1>1. mpc \in [Tasks -> Working \cup {"off", "succeeded", "failed"}]
  BY DEF MigrationInv, MigrationTypeOK
<1>2. mpc'[t] = step /\ \A u \in Tasks : u # t => mpc'[u] = mpc[u]
  BY <1>1 DEF Goto
<1>3. InstalledBy(t)' = InstalledBy(t)
  BY <1>2 DEF InstalledBy
<1>4. \A u \in Tasks : u # t => InstalledBy(u)' = InstalledBy(u)
  BY <1>2 DEF InstalledBy
<1> QED BY <1>3, <1>4, SeenAlike

LEMMA ExitIsHidden ==
    ASSUME MigrationInv, NEW t \in Tasks, mpc[t] \in Working, Exit(t, "failed")
    PROVE  UNCHANGED History!hvars
<1>1. /\ mpc[t] # "succeeded" /\ Goto(t, "failed") /\ UNCHANGED <<schema, image>>
  BY DEF Exit, Working
<1> QED BY <1>1, StepIsHidden

\* A row names a file that has taken effect.
LEMMA RowIsIn ==
    ASSUME MigrationInv, NEW d \in Databases, NEW f \in applied[d]
    PROVE  History!IsIn(f, d)
BY DEF MigrationInv, AppliedOnce, History!IsIn

\* COMMIT is the file's taking effect.
LEMMA CommitApplies ==
    ASSUME MigrationInv, NEW t \in Tasks, CommitFile(t)
    PROVE  History!Next
<1> DEFINE r == image[t]
           d == target[t]
           n == file[t]
<1>1. mpc[t] = "commit"
  BY DEF CommitFile
<1>2. /\ r \in Releases /\ d \in Databases /\ n \in DOMAIN Files[r][d]
      /\ FileOf(t) = Files[r][d][n]
  BY <1>1, FileType DEF FilesOf, FileOf
<1>3. \A i \in DOMAIN schema[d] : schema[d][i].version # Files[r][d][n].version
  BY <1>1, <1>2, CommitIsNew DEF MigrationInv, AppliedOnce
<1>4. History!IsNew(Files[r][d][n], d)
  BY <1>3 DEF History!IsNew
<1>5. /\ \A e \in Databases : e < d => FilesIn(r, e)
      /\ \A i \in DOMAIN Files[r][d] : i < n => Files[r][d][i] \in applied[d]
  BY <1>1, WorkingFacts DEF Working
<1>6. History!EarlierAreIn(r, d, n)
  <2>1. \A e \in Databases : e < d =>
            \A i \in DOMAIN Files[r][e] : History!IsIn(Files[r][e][i], e)
    BY <1>5, RowIsIn DEF FilesIn
  <2>2. \A i \in DOMAIN Files[r][d] : i < n => History!IsIn(Files[r][d][i], d)
    BY <1>2, <1>5, RowIsIn
  <2> QED BY <2>1, <2>2 DEF History!EarlierAreIn
<1>7. schema' = [schema EXCEPT ![d] = Append(@, Files[r][d][n])]
  BY <1>2 DEF CommitFile
<1>8. \A u \in Tasks : InstalledBy(u)' = InstalledBy(u)
  <2>1. /\ mpc \in [Tasks -> Working \cup {"off", "succeeded", "failed"}]
        /\ mpc'[t] \in {"check", "failed"} /\ \A u \in Tasks : u # t => mpc'[u] = mpc[u]
        /\ image' = image
    BY DEF MigrationInv, MigrationTypeOK, CommitFile, Goto
  <2> QED BY <1>1, <2>1 DEF InstalledBy
<1> DEFINE old == [u \in Tasks |-> IF mpc[u] = "succeeded" THEN image[u] ELSE NoRelease]
           new == [u \in Tasks |-> IF mpc'[u] = "succeeded" THEN image'[u] ELSE NoRelease]
<1>9. new = old
  BY <1>8 DEF InstalledBy
<1>10. History!Apply(r, d, n)
  <2> HIDE DEF r, d, n
  <2> QED BY <1>4, <1>6, <1>7, <1>9 DEF History!Apply
<1> QED BY <1>2, <1>10 DEF History!Next

\* Exit code 0 is the end of a release's installation.
LEMMA SuccessInstalls ==
    ASSUME MigrationInv, NEW t \in Tasks, mpc[t] \in Working, Exit(t, "succeeded"),
           Migrated(image[t])
    PROVE  History!Next
<1> DEFINE old == [u \in Tasks |-> IF mpc[u] = "succeeded" THEN image[u] ELSE NoRelease]
           new == [u \in Tasks |-> IF mpc'[u] = "succeeded" THEN image'[u] ELSE NoRelease]
<1>1. PICK r \in Releases : r = image[t]
  BY WorkingFacts
<1>2. History!AllAreIn(r)
  BY <1>1, RowIsIn DEF Migrated, History!AllAreIn
<1>3. /\ mpc' = [mpc EXCEPT ![t] = "succeeded"] /\ image' = image /\ schema' = schema
      /\ mpc \in [Tasks -> Working \cup {"off", "succeeded", "failed"}]
  BY DEF Exit, Goto, MigrationInv, MigrationTypeOK
<1>4. new = [old EXCEPT ![t] = r]
  BY <1>1, <1>3
<1>5. History!Succeed(t, r)
  BY <1>2, <1>3, <1>4 DEF History!Succeed
<1>6. \E u \in Tasks, q \in Releases : History!Succeed(u, q)
  BY <1>5
<1> QED BY <1>6 DEF History!Next

LEMMA StepRefines ==
    ASSUME MigrationInv, [MigrationNext]_mvars
    PROVE  History!Next \/ UNCHANGED History!hvars
<1>1. CASE UNCHANGED mvars
  BY <1>1, SeenAlike DEF mvars, InstalledBy
<1>2. CASE MigrationNext
  <2>1. PICK t \in Tasks : Start(t) \/ Advance(t) \/ Fail(t)
    BY <1>2 DEF MigrationNext
  <2>2. image \in [Tasks -> Releases \cup {NoRelease}]
    BY DEF MigrationInv, MigrationTypeOK
  <2>3. CASE Start(t)
    <3>1. /\ mpc[t] # "succeeded" /\ Goto(t, "ping") /\ UNCHANGED schema
          /\ \A u \in Tasks : u # t => image'[u] = image[u]
      BY <2>2, <2>3 DEF Start, databases
    <3> QED BY <3>1, StepIsHidden
  <2>4. CASE Ping(t) \/ FindDatabase(t) \/ OpenDatabase(t) \/ ExecFile(t)
    <3>1. /\ mpc[t] # "succeeded" /\ UNCHANGED <<schema, image>>
          /\ \/ Goto(t, "find") \/ Goto(t, "open") \/ Goto(t, "create")
             \/ Goto(t, "check") \/ Goto(t, "record")
      BY <2>4 DEF Ping, FindDatabase, OpenDatabase, ExecFile, databases
    <3> QED BY <3>1, StepIsHidden
  <2>5. CASE CreateDatabase(t)
    <3>1. mpc[t] \in Working /\ mpc[t] # "succeeded"
      BY <2>5 DEF CreateDatabase, Working
    <3>2. CASE Goto(t, "open") /\ UNCHANGED <<schema, image>>
      BY <3>1, <3>2, StepIsHidden
    <3>3. CASE Exit(t, "failed")
      BY <3>1, <3>3, ExitIsHidden
    <3> QED BY <2>5, <3>2, <3>3 DEF CreateDatabase
  <2>6. CASE CheckFile(t)
    <3>1. mpc[t] \in Working /\ mpc[t] # "succeeded"
      BY <2>6 DEF CheckFile, Working
    <3>2. CASE UNCHANGED <<databases, mpc, image, target>>
      BY <3>2, SeenAlike DEF databases, InstalledBy
    <3>3. CASE Goto(t, "exec") /\ UNCHANGED <<databases, image, target, file>>
      BY <3>1, <3>3, StepIsHidden DEF databases
    <3>4. CASE Exit(t, "failed")
      BY <3>1, <3>4, ExitIsHidden
    <3> QED BY <2>6, <3>2, <3>3, <3>4 DEF CheckFile
  <2>7. CASE NextDatabase(t)
    <3>1. mpc[t] \in Working /\ mpc[t] # "succeeded"
      BY <2>7 DEF NextDatabase, Working
    <3>2. CASE Goto(t, "find") /\ UNCHANGED <<databases, image>>
      BY <3>1, <3>2, StepIsHidden DEF databases
    <3>3. CASE Exit(t, "succeeded")
      <4>1. mpc'[t] = "succeeded"
        BY <3>3 DEF Exit, Goto, MigrationInv, MigrationTypeOK
      <4> QED BY <2>7, <3>1, <3>3, <4>1, NextDatabaseInv, SuccessInstalls
    <3> QED BY <2>7, <3>2, <3>3 DEF NextDatabase
  <2>8. CASE RecordFile(t)
    <3>1. mpc[t] \in Working /\ mpc[t] # "succeeded"
      BY <2>8 DEF RecordFile, Working
    <3>2. CASE Enter(t)
      BY <3>1, <3>2, StepIsHidden DEF Enter
    <3>3. CASE Exit(t, "failed")
      BY <3>1, <3>3, ExitIsHidden
    <3> QED BY <2>8, <3>2, <3>3 DEF RecordFile
  <2>9. CASE CommitFile(t)
    BY <2>9, CommitApplies
  <2>10. CASE Fail(t)
    BY <2>10, ExitIsHidden DEF Fail
  <2> QED BY <2>1, <2>3, <2>4, <2>5, <2>6, <2>7, <2>8, <2>9, <2>10 DEF Advance
<1> QED BY <1>1, <1>2

(***************************************************************************)
(* Tasks that check names and versions, and then act, implement a history  *)
(* in which each file takes effect once and after those before it.         *)
(***************************************************************************)
THEOREM MigrationImplementsHistory == MigrationSpec => ImplementsSchemaHistory
<1>1. MigrationInit => History!Init
  <2> SUFFICES ASSUME MigrationInit PROVE History!Init
    OBVIOUS
  <2>1. \A t \in Tasks : mpc[t] = "off"
    BY DEF MigrationInit
  <2>2. [t \in Tasks |-> IF mpc[t] = "succeeded" THEN image[t] ELSE NoRelease] = [t \in Tasks |-> NoRelease]
    BY <2>1
  <2>3. schema \in FirstSchema
    BY DEF MigrationInit
  <2> QED BY <2>2, <2>3 DEF History!Init
<1>2. MigrationInv /\ [MigrationNext]_mvars => [History!Next]_(History!hvars)
  BY StepRefines
<1> QED BY <1>1, <1>2, MigrationIsInvariant, PTL DEF MigrationSpec, ImplementsSchemaHistory, History!Spec

-----------------------------------------------------------------------------
(***************************************************************************)
(* The platform, the migrator's tasks among its parts.                     *)
(***************************************************************************)
\* The platform's steps are steps of the rollout, or leave it alone.
LEMMA PlatformIsDeployment == [PlatformNext]_pvars => [DeploymentNext]_dvars
<1> SUFFICES ASSUME [PlatformNext]_pvars PROVE [DeploymentNext]_dvars
  OBVIOUS
<1>1. "gateway" \in Programs
  BY DEF Programs
<1>2. CASE Before(DeploymentNext)
  BY <1>2 DEF Before
<1>3. CASE During(Run("gateway")) \/ During(Tell("gateway")) \/ During(Dies("gateway"))
           \/ During(HandlersEnd)
  BY <1>1, <1>3 DEF During, HandlersEnd, DeploymentNext, ProgramNext
<1>4. CASE \E c \in Clients :
          \/ Ask(Submit(c) /\ (Traffic \/ Steady)) \/ Ask(Retry(c))
          \/ Handle(UsersKnown(c)) \/ Handle(UsersUnknown(c))
          \/ Handle(Allow(c)) \/ Handle(Deny(c))
          \/ Handle(WalletLookup(c)) \/ Handle(WalletTx(c))
          \/ Handle(Record(c)) \/ Handle(GiveUp(c))
  BY <1>4 DEF Ask, Handle
<1>5. CASE \E o \in orphans : Late(o) /\ UNCHANGED dvars
  BY <1>5
<1>6. CASE UNCHANGED pvars
  BY <1>6 DEF pvars
<1>7. QED
  BY <1>2, <1>3, <1>4, <1>5, <1>6 DEF PlatformNext

\* What a program does leaves tasks and script alone, and nothing but an
\* orchestrator that may start it brings it up.
LEMMA ProgramLeaves ==
    ASSUME NEW p \in Programs, ProgramNext(p)
    PROVE  /\ UNCHANGED <<mvars, script, awaited, dbUp>>
           /\ at' = at \/ \E step : at' = [at EXCEPT ![p] = step]
           /\ \/ at[p] # "down" \/ at' = at \/ at' = [at EXCEPT ![p] = "down"]
              \/ p \notin Awaits \/ script = "ok"
<1> USE DEF others
<1>1. CASE Load(p) \/ OddLoad(p)
  <2>1. PICK env : LoadFrom(p, env)
    BY <1>1 DEF Load, OddLoad
  <2>2. \E step : at' = [at EXCEPT ![p] = step]
    BY <2>1 DEF LoadFrom, Stop
  <2>3. UNCHANGED <<mvars, script, awaited, dbUp>>
    BY <2>1 DEF LoadFrom
  <2>4. p \notin Awaits \/ script = "ok"
    BY <2>1 DEF LoadFrom
  <2>5. QED
    BY <2>2, <2>3, <2>4
<1>2. CASE Build(p) \/ Broken(p) \/ Listen(p) \/ Drain(p) \/ StopAtTimeout(p)
           \/ StopGracefully(p) \/ Dies(p)
  BY <1>2 DEF Build, Broken, Listen, Drain, StopAtTimeout, StopGracefully, Dies, Stop, Proceed
<1>3. CASE p = "gateway" /\ (Dial \/ DialAgain)
  BY <1>3 DEF Dial, DialAgain, Stop, Proceed
<1>4. CASE p \in Services /\ (Connect(p) \/ WaitOver(p))
  BY <1>4 DEF Connect, WaitOver, Stop, Proceed
<1>5. CASE Tell(p)
  BY <1>5 DEF Tell
<1>6. QED
  BY <1>1, <1>2, <1>3, <1>4, <1>5 DEF ProgramNext, Run

-----------------------------------------------------------------------------
\* A rollout takes the migrator's steps and no others with its tables.
LEMMA DeploymentIsMigration == [DeploymentNext]_dvars => [MigrationNext]_mvars
<1> SUFFICES ASSUME [DeploymentNext]_dvars PROVE [MigrationNext]_mvars
  OBVIOUS
<1>1. CASE Apply
  BY <1>1 DEF Apply, MigrationNext
<1>2. CASE WaitEnds \/ WaitTimesOut \/ Outage \/ Recover
  BY <1>2 DEF WaitEnds, WaitTimesOut, Outage, Recover
<1>3. ASSUME NEW t \in Tasks, TaskSteps(t) \/ TaskFails(t) PROVE MigrationNext
  BY <1>3 DEF TaskSteps, TaskFails, MigrationNext
<1>4. ASSUME NEW p \in Programs, ProgramNext(p) PROVE UNCHANGED mvars
  BY <1>4, ProgramLeaves
<1>5. CASE UNCHANGED dvars
  BY <1>5 DEF dvars
<1>6. QED
  BY <1>1, <1>2, <1>3, <1>4, <1>5 DEF DeploymentNext

\* A task that has ended is not heard of again.
LEMMA EndedStays ==
    ASSUME MigrationInv, NEW t \in Tasks, Advance(t) \/ Fail(t), NEW u \in Tasks,
           mpc[u] = "succeeded"
    PROVE  mpc'[u] = "succeeded"
<1>1. mpc[t] \in Working
  BY DEF Advance, Fail, Ping, FindDatabase, CreateDatabase, OpenDatabase, CheckFile,
         NextDatabase, ExecFile, RecordFile, CommitFile, Working
<1>2. u # t
  BY <1>1 DEF Working
<1>3. \A step : Goto(t, step) => mpc'[u] = mpc[u]
  BY <1>2 DEF Goto, MigrationInv, MigrationTypeOK
<1>4. QED
  BY <1>2, <1>3
     DEF Advance, Fail, Ping, FindDatabase, CreateDatabase, OpenDatabase, CheckFile,
         NextDatabase, ExecFile, RecordFile, CommitFile, Enter, Exit

-----------------------------------------------------------------------------
LEMMA InitRollout == DeploymentInit => RolloutInv
<1> SUFFICES ASSUME DeploymentInit PROVE RolloutInv
  OBVIOUS
<1>1. MigrationInv
  BY InitInv DEF DeploymentInit
<1>2. awaited \in Tasks
  BY TasksAssumption DEF DeploymentInit
<1>3. \A s \in DOMAIN DatabaseOf : s \in Programs
  BY DeploymentAssumption
<1>4. QED
  BY <1>1, <1>2, <1>3 DEF DeploymentInit, RolloutInv

LEMMA NextRollout == RolloutInv /\ [DeploymentNext]_dvars => RolloutInv'
<1> SUFFICES ASSUME RolloutInv, [DeploymentNext]_dvars PROVE RolloutInv'
  OBVIOUS
<1>1. MigrationInv'
  BY DeploymentIsMigration, StepInv DEF RolloutInv
<1>2. CASE Apply
  <2>1. PICK t \in Tasks : Start(t) /\ awaited' = t
    BY <1>2 DEF Apply
  <2>2. script # "ok" /\ script' = "waiting" /\ at' = at
    BY <1>2 DEF Apply, platform, programs
  <2>3. QED
    BY <1>1, <2>1, <2>2 DEF RolloutInv
<1>3. CASE WaitEnds \/ WaitTimesOut
  <2>1. UNCHANGED <<mvars, awaited, at>> /\ script # "ok"
    BY <1>3 DEF WaitEnds, WaitTimesOut, platform, programs
  <2>2. script' = "ok" => mpc[awaited] = "succeeded"
    BY <1>3 DEF WaitEnds, WaitTimesOut
  <2>3. QED
    BY <1>1, <2>1, <2>2 DEF RolloutInv, mvars
<1>4. ASSUME NEW t \in Tasks, TaskSteps(t) \/ TaskFails(t) PROVE RolloutInv'
  <2>1. UNCHANGED <<script, awaited, at>> /\ (Advance(t) \/ Fail(t))
    BY <1>4 DEF TaskSteps, TaskFails, platform, programs
  <2>2. QED
    BY <1>1, <2>1, EndedStays DEF RolloutInv
<1>5. ASSUME NEW p \in Programs, ProgramNext(p) PROVE RolloutInv'
  <2>1. UNCHANGED <<mvars, script, awaited>>
    BY <1>5, ProgramLeaves
  <2>2. at' = at \/ \E step : at' = [at EXCEPT ![p] = step]
    BY <1>5, ProgramLeaves
  <2>3. at' = [q \in Programs |-> at'[q]]
    BY <2>2 DEF RolloutInv
  <2>4. ASSUME NEW s \in DOMAIN DatabaseOf, at'[s] # "down" PROVE script = "ok"
    <3>1. s \in Programs /\ s \in Awaits
      BY DeploymentAssumption
    <3>2. CASE at[s] # "down"
      BY <3>2 DEF RolloutInv
    <3>3. CASE at[s] = "down"
      <4>1. at'[s] # at[s] /\ s = p
        BY <2>2, <2>4, <3>1, <3>3 DEF RolloutInv
      <4>2. at' # at /\ at' # [at EXCEPT ![p] = "down"]
        BY <2>4, <3>1, <4>1 DEF RolloutInv
      <4>3. QED
        BY <1>5, <3>1, <3>3, <4>1, <4>2, ProgramLeaves
    <3>4. QED
      BY <3>2, <3>3
  <2>5. QED
    BY <1>1, <2>1, <2>3, <2>4 DEF RolloutInv, mvars
<1>6. CASE Outage \/ Recover \/ UNCHANGED dvars
  <2>1. UNCHANGED <<mvars, script, awaited, at>>
    BY <1>6 DEF Outage, Recover, dvars, programs
  <2>2. QED
    BY <1>1, <2>1 DEF RolloutInv, mvars
<1>7. QED
  BY <1>2, <1>3, <1>4, <1>5, <1>6 DEF DeploymentNext

-----------------------------------------------------------------------------
(***************************************************************************)
(* The script says ok only of a task that has succeeded, nothing with a    *)
(* database starts before, and no task is started after that.              *)
(***************************************************************************)
THEOREM RolloutIsInOrder == DeploymentSpec => []RolloutInv
BY InitRollout, NextRollout, PTL DEF DeploymentSpec

\* Transfers, and the gateway that is stopped under them, disturb no rollout.
LEMMA PlatformDeploys == PlatformSpec => DeploymentSpec
<1>1. PlatformInit => DeploymentInit
  BY DEF PlatformInit
<1>2. PlatformSpec => PlatformInit /\ [][PlatformNext]_pvars
  BY PTL DEF PlatformSpec
<1>3. QED
  BY <1>1, <1>2, PlatformIsDeployment, PTL DEF DeploymentSpec

(***************************************************************************)
(* A service that serves finds its tables, in any interleaving of tasks    *)
(* that fail, waits that are given up, crashes, outages and restarts.      *)
(***************************************************************************)
THEOREM ServicesFindTheirTables == PlatformSpec => []ServingHasSchema
<1>1. RolloutInv => ServingHasSchema
  <2> SUFFICES ASSUME RolloutInv, NEW s \in DOMAIN DatabaseOf,
                      at[s] \in {"serving", "draining"}
               PROVE  FilesIn(image[awaited], DatabaseOf[s])
    BY DEF ServingHasSchema
  <2>1. mpc[awaited] = "succeeded"
    BY DEF RolloutInv
  <2>2. Migrated(image[awaited])
    BY <2>1 DEF RolloutInv, MigrationInv, SuccessMeansMigrated
  <2>3. DatabaseOf[s] \in Databases
    BY DeploymentAssumption
  <2>4. QED
    BY <2>2, <2>3 DEF Migrated, FilesIn
<1>2. QED
  BY <1>1, RolloutIsInOrder, PlatformDeploys, PTL

(***************************************************************************)
(* On the platform, too, the migrator's tasks implement the history of the *)
(* schema, however often the script runs them.                             *)
(***************************************************************************)
THEOREM PlatformImplementsHistory == PlatformSpec => ImplementsSchemaHistory
<1>1. DeploymentInit => MigrationInit
  BY DEF DeploymentInit
<1>2. DeploymentSpec => MigrationSpec
  BY <1>1, DeploymentIsMigration, PTL DEF DeploymentSpec, MigrationSpec
<1>3. QED
  BY <1>2, PlatformDeploys, MigrationImplementsHistory, PTL

-----------------------------------------------------------------------------
(***************************************************************************)
(* The programs.  Their invariant, ProgramsInOrder, is kept program by     *)
(* program: a step of one leaves what the others rest on alone.            *)
(***************************************************************************)
\* 2 ^ n, which the provers do not compute, is the number of subsets of 1 .. n.
LEMMA PowerIsPositive ==
    ASSUME NEW n \in Nat
    PROVE  2 ^ n \in Nat \ {0}
<1>1. IsFiniteSet(1 .. n) /\ Cardinality(1 .. n) = n
  BY FS_Interval
<1>2. IsFiniteSet(SUBSET (1 .. n)) /\ Cardinality(SUBSET (1 .. n)) = 2 ^ n
  BY <1>1, FS_SUBSET
<1>3. Cardinality(SUBSET (1 .. n)) \in Nat /\ Cardinality(SUBSET (1 .. n)) # 0
  BY <1>2, FS_CardinalityType, FS_EmptySet
<1>4. QED
  BY <1>2, <1>3

LEMMA BackoffIsBounded ==
    ASSUME NEW n \in Nat, NEW initial \in Nat \ {0}, NEW max \in Nat, initial <= max
    PROVE  Backoff(n, initial, max) \in initial .. max
<1>1. PICK power \in Nat \ {0} : power = 2 ^ n
  BY PowerIsPositive
<1>2. initial * power \in Nat /\ initial <= initial * power
  BY <1>1
<1>3. QED
  BY <1>1, <1>2 DEF Backoff

-----------------------------------------------------------------------------
\* Environments, and what Load makes of them.

Environments(p) == [DOMAIN Defaults[p] -> Int \cup {Unset, Garbage}]

LEMMA SettingsAreNumbers ==
    ASSUME NEW defaults, NEW env, NEW s \in DOMAIN defaults, defaults[s] \in Int,
           DOMAIN env = DOMAIN defaults, env[s] \in Int \cup {Unset, Garbage}, Parses(env)
    PROVE  Overridden(defaults, env)[s] \in Int
BY DEF Overridden, Parses

LEMMA PlainIsOne ==
    ASSUME NEW p \in Programs
    PROVE  PlainEnvironment(p) \in Environments(p)
BY DEF PlainEnvironment, Environments

LEMMA OddIsOne ==
    ASSUME NEW p \in Programs, NEW s \in DOMAIN PlainEnvironment(p), NEW v \in OddValues
    PROVE  [PlainEnvironment(p) EXCEPT ![s] = v] \in Environments(p)
<1>1. v \in Int \cup {Garbage}
  BY DeploymentAssumption
<1>2. QED
  BY <1>1 DEF PlainEnvironment, Environments

LEMMA DefaultsOf ==
    /\ Defaults["user"] = UserDefaults /\ Defaults["wallet"] = WalletDefaults
    /\ Defaults["transaction"] = WalletDefaults
    /\ Defaults["fraud"] = FraudDefaults /\ Defaults["gateway"] = GatewayDefaults
BY DEF Defaults, TransactionDefaults

DatabaseSettings == {"DBConnectMaxRetries", "DBConnectInitialBackoff", "DBConnectMaxBackoff"}

LEMMA DatabaseDefaults ==
    ASSUME NEW s \in DatabaseSettings
    PROVE  /\ s \in DOMAIN UserDefaults /\ UserDefaults[s] \in Int
           /\ s \in DOMAIN WalletDefaults /\ WalletDefaults[s] \in Int
<1>1. s \in DOMAIN UserDefaults /\ UserDefaults[s] \in Int
  BY ConfigurationAssumption DEF UserDefaults, DatabaseSettings
<1>2. s \notin {"PasswordHashIterations", "PasswordMinLength"}
  BY DEF DatabaseSettings
<1>3. QED
  BY <1>1, <1>2 DEF WalletDefaults

\* What connects to a database has bounds to do it in, and can be built.
ConnectorIsReady(n) ==
    /\ n.retries \in Nat /\ n.initial \in Nat \ {0} /\ n.max \in Nat /\ n.initial <= n.max
    /\ n.builds

LEMMA ConnectorLoads ==
    ASSUME NEW p \in {"user", "wallet", "transaction"}, NEW env \in Environments(p),
           LoadOf(p, env) # Refused
    PROVE  ConnectorIsReady(Needs(p, LoadOf(p, env)))
<1> DEFINE c == Overridden(Defaults[p], env)
<1>1. /\ LoadOf(p, env) = c /\ Parses(env) /\ DatabaseAccepted(c)
      /\ p = "user" => UserBuilds(c)
  BY DefaultsOf DEF LoadOf, UserLoad, WalletLoad, TransactionLoad, TransactionDefaults,
     UserAccepted, WalletAccepted, TransactionAccepted, UserBuilds
<1>2. \A s \in DatabaseSettings : c[s] \in Int
  BY <1>1, DefaultsOf, DatabaseDefaults, SettingsAreNumbers DEF Environments
<1> HIDE DEF c
<1>3. /\ c.DBConnectMaxRetries \in Nat
      /\ c.DBConnectInitialBackoff \in Nat \ {0} /\ c.DBConnectMaxBackoff \in Nat
      /\ c.DBConnectInitialBackoff <= c.DBConnectMaxBackoff
  BY <1>1, <1>2 DEF DatabaseAccepted, Positive, DatabaseSettings
<1>4. QED
  BY <1>1, <1>3 DEF Needs, ConnectorIsReady

LEMMA FraudLoads ==
    ASSUME NEW env, LoadOf("fraud", env) # Refused
    PROVE  Needs("fraud", LoadOf("fraud", env)).builds
<1>1. FraudBuilds(LoadOf("fraud", env))
  BY DEF LoadOf, FraudLoad, FraudBuilds
<1>2. QED
  BY <1>1 DEF Needs

LEMMA GatewayLoads ==
    ASSUME NEW env \in Environments("gateway"), LoadOf("gateway", env) # Refused
    PROVE  /\ Needs("gateway", LoadOf("gateway", env)).attempts \in Nat \ {0}
           /\ Needs("gateway", LoadOf("gateway", env)).builds
<1> DEFINE c == Overridden(GatewayDefaults, env)
<1>1. LoadOf("gateway", env) = c /\ Parses(env) /\ GatewayAccepted(c)
  BY DEF LoadOf, GatewayLoad
<1>2. c.GRPCMaxAttempts \in Int
  <2>1. "GRPCMaxAttempts" \in DOMAIN GatewayDefaults /\ GatewayDefaults["GRPCMaxAttempts"] \in Int
    BY ConfigurationAssumption DEF GatewayDefaults
  <2>2. QED
    BY <1>1, <2>1, DefaultsOf, SettingsAreNumbers DEF Environments
<1> HIDE DEF c
<1>3. c.GRPCMaxAttempts \in Nat \ {0} /\ ManagersBuild(c)
  BY <1>1, <1>2 DEF GatewayAccepted, ManagersBuild, Positive
<1>4. QED
  BY <1>1, <1>3 DEF Needs

-----------------------------------------------------------------------------
\* One program and its invariant.

Stages == {"down", "connect", "dial", "wait", "build", "listen", "serving", "draining", "broken"}

Connectors == Services \ {"fraud"}

ProgramInOrder(p) ==
    /\ p \in Connectors => ConnectorInOrder(p)
    /\ p = "fraud" => FraudInOrder
    /\ p = "gateway" => GatewayInOrder

Shaped ==
    /\ at \in [Programs -> Stages]
    /\ conf = [p \in Programs |-> conf[p]]
    /\ attempt \in [Programs -> Nat]
    /\ dialed \subseteq Services
    /\ told \subseteq Programs
    /\ faults \in 0 .. MaxFaults

LEMMA OneKind ==
    ASSUME NEW p \in Programs
    PROVE  /\ p \in Connectors \/ p = "fraud" \/ p = "gateway"
           /\ p \in Connectors => p \in {"user", "wallet", "transaction"} /\ p # "fraud" /\ p # "gateway"
BY DeploymentAssumption DEF Programs, Connectors

LEMMA EveryProgram == ProgramsInOrder <=> \A p \in Programs : ProgramInOrder(p)
<1>1. DOMAIN DatabaseOf = Connectors
  BY DeploymentAssumption DEF Connectors
<1>2. "gateway" \notin Connectors /\ "fraud" \notin Connectors /\ Connectors \subseteq Programs
  BY DeploymentAssumption DEF Connectors, Programs
<1>3. "gateway" \in Programs /\ ("fraud" \in Programs <=> "fraud" \in Services)
  BY DEF Programs
<1>4. QED
  BY <1>1, <1>2, <1>3 DEF ProgramsInOrder, ProgramInOrder

\* The step after each of those that a program goes through.
LEMMA ProceedGoesOn ==
    ASSUME Shaped, NEW p \in Programs, ProgramInOrder(p), Proceed(p),
           at[p] \in {"connect", "dial", "build", "listen"}
    PROVE  /\ at'[p] \in {"build", "listen", "serving"}
           /\ at'[p] # "serving" => conf'[p] = conf[p]
           /\ attempt'[p] = 0
<1> DEFINE steps == Steps[p]
           i     == CHOOSE j \in DOMAIN steps : steps[j] = at[p]
<1>1. at'[p] = steps[i + 1] /\ attempt'[p] = 0
  BY DEF Shaped, Proceed
<1>2. steps[i + 1] \in {"build", "listen", "serving"}
  <2>1. CASE p = "gateway"
    <3>1. steps = <<"dial", "build", "listen", "serving">> /\ at[p] # "connect"
      BY <2>1 DEF ProgramInOrder, GatewayInOrder, Steps, GatewaySteps
    <3>2. QED
      BY <3>1
  <2>2. CASE p = "fraud"
    <3>1. steps = <<"build", "listen", "serving">> /\ at[p] \notin {"connect", "dial"}
      BY <2>2 DEF ProgramInOrder, FraudInOrder, Steps, FraudSteps
    <3>2. QED
      BY <3>1
  <2>3. CASE p \in Connectors
    <3>1. /\ steps \in {<<"connect", "listen", "build", "serving">>,
                        <<"connect", "build", "listen", "serving">>}
          /\ at[p] # "dial"
      BY <2>3, OneKind
         DEF ProgramInOrder, ConnectorInOrder, Steps, UserSteps, WalletSteps, TransactionSteps
    <3>2. QED
      BY <3>1
  <2>4. QED
    BY <2>1, <2>2, <2>3, OneKind
<1>3. steps[i + 1] # "serving" => conf' = conf
  BY DEF Proceed
<1>4. QED
  BY <1>1, <1>2, <1>3

LEMMA OtherProgramsStay ==
    ASSUME Shaped, NEW p \in Programs, ProgramNext(p)
    PROVE  /\ \A q \in Programs \ {p} :
                 at'[q] = at[q] /\ conf'[q] = conf[q] /\ attempt'[q] = attempt[q]
           /\ p # "gateway" => dialed' = dialed
<1> USE DEF Shaped
<1>1. CASE Load(p) \/ OddLoad(p)
  <2>1. PICK env : LoadFrom(p, env)
    BY <1>1 DEF Load, OddLoad
  <2>2. QED
    BY <2>1 DEF LoadFrom, Stop
<1>2. CASE Broken(p) \/ StopAtTimeout(p) \/ StopGracefully(p) \/ Dies(p)
  BY <1>2 DEF Broken, StopAtTimeout, StopGracefully, Dies, Stop
<1>3. CASE Build(p) \/ Listen(p) \/ Drain(p)
  BY <1>3 DEF Build, Listen, Drain, Proceed
<1>4. CASE p = "gateway" /\ (Dial \/ DialAgain)
  BY <1>4 DEF Dial, DialAgain, Stop, Proceed
<1>5. CASE p \in Services /\ (Connect(p) \/ WaitOver(p))
  BY <1>5 DEF Connect, WaitOver, Stop, Proceed
<1>6. CASE Tell(p)
  BY <1>6 DEF Tell
<1>7. QED
  BY <1>1, <1>2, <1>3, <1>4, <1>5, <1>6 DEF ProgramNext, Run

LEMMA OthersInOrder ==
    ASSUME Shaped, NEW p \in Programs, ProgramNext(p), NEW q \in Programs, q # p,
           ProgramInOrder(q)
    PROVE  ProgramInOrder(q)'
<1>1. /\ at'[q] = at[q] /\ conf'[q] = conf[q] /\ attempt'[q] = attempt[q]
      /\ q = "gateway" => dialed' = dialed
  BY OtherProgramsStay
<1>2. Connectors' = Connectors
  BY DEF Connectors
<1>3. QED
  BY <1>1, <1>2 DEF ProgramInOrder, ConnectorInOrder, FraudInOrder, GatewayInOrder

\* A process that has ended, or serves, needs nothing of its configuration.
LEMMA StopInOrder ==
    ASSUME Shaped, NEW p \in Programs, Stop(p)
    PROVE  /\ ProgramInOrder(p)'
           /\ faults' \in 0 .. MaxFaults => Shaped'
BY DEF Stop, Shaped, Stages, ProgramInOrder, ConnectorInOrder, FraudInOrder, GatewayInOrder

\* One fault more is within the bound, and none at all too.
LEMMA FaultsAreBounded ==
    ASSUME Shaped, Fault \/ UNCHANGED faults
    PROVE  faults' \in 0 .. MaxFaults
BY DeploymentAssumption DEF Shaped, Fault

LEMMA LoadInOrder ==
    ASSUME Shaped, NEW p \in Programs, ProgramInOrder(p), Load(p) \/ OddLoad(p)
    PROVE  Shaped' /\ ProgramInOrder(p)'
<1>1. faults' \in 0 .. MaxFaults
  BY FaultsAreBounded DEF Load, OddLoad
<1>2. PICK env \in Environments(p) : LoadFrom(p, env)
  BY PlainIsOne, OddIsOne DEF Load, OddLoad
<1>3. CASE Stop(p)
  BY <1>1, <1>3, StopInOrder
<1>4. CASE ~ Stop(p)
  <2> DEFINE n == Needs(p, LoadOf(p, env))
  <2>1. /\ LoadOf(p, env) # Refused
        /\ at[p] = "down" /\ at' = [at EXCEPT ![p] = Steps[p][1]]
        /\ conf' = [conf EXCEPT ![p] = n]
        /\ attempt' = [attempt EXCEPT ![p] = IF p = "gateway" THEN 1 ELSE 0]
        /\ UNCHANGED <<dialed, told>>
    BY <1>2, <1>4 DEF LoadFrom
  <2>2. Steps[p][1] = IF p = "gateway" THEN "dial" ELSE IF p = "fraud" THEN "build" ELSE "connect"
    BY OneKind DEF Steps, UserSteps, WalletSteps, TransactionSteps, FraudSteps, GatewaySteps
  <2>3. p \in Connectors => ConnectorIsReady(n)
    BY <2>1, OneKind, ConnectorLoads
  <2>4. p = "fraud" => n.builds
    BY <2>1, FraudLoads
  <2>5. p = "gateway" => n.attempts \in Nat \ {0} /\ n.builds
    BY <2>1, GatewayLoads
  <2> HIDE DEF n
  <2>6. /\ at'[p] = Steps[p][1] /\ conf'[p] = n
        /\ attempt'[p] = IF p = "gateway" THEN 1 ELSE 0
    BY <2>1 DEF Shaped
  <2>7. Shaped'
    BY <1>1, <2>1, <2>2 DEF Shaped, Stages
  <2>8. p \in Connectors => ConnectorInOrder(p)'
    BY <2>2, <2>3, <2>6, OneKind DEF ConnectorInOrder, ConnectorIsReady
  <2>9. p = "fraud" => FraudInOrder'
    BY <2>2, <2>4, <2>6 DEF FraudInOrder
  <2>10. p = "gateway" => GatewayInOrder'
    BY <2>1, <2>2, <2>5, <2>6, DeploymentAssumption DEF GatewayInOrder, ProgramInOrder
  <2>11. QED
    BY <2>7, <2>8, <2>9, <2>10 DEF ProgramInOrder, Connectors
<1>5. QED
  BY <1>3, <1>4

\* What Proceed leaves of a program is in order at the step that it comes to.
LEMMA ProceedInOrder ==
    ASSUME Shaped, NEW p \in Programs, ProgramInOrder(p), Proceed(p),
           at[p] \in {"connect", "dial", "build", "listen"},
           dialed' \subseteq Services, UNCHANGED <<told, faults>>
    PROVE  Shaped' /\ ProgramInOrder(p)'
<1>1. /\ at'[p] \in {"build", "listen", "serving"}
      /\ at'[p] # "serving" => conf'[p] = conf[p]
      /\ attempt'[p] = 0
  BY ProceedGoesOn
<1>2. Shaped'
  <2>1. /\ \E step : at' = [at EXCEPT ![p] = step]
        /\ conf' = conf \/ conf' = [conf EXCEPT ![p] = NoConf]
        /\ attempt' = [attempt EXCEPT ![p] = 0]
    BY DEF Proceed
  <2>2. at' \in [Programs -> Stages]
    BY <1>1, <2>1 DEF Shaped, Stages
  <2>3. conf' = [q \in Programs |-> conf'[q]]
    BY <2>1 DEF Shaped
  <2>4. attempt' \in [Programs -> Nat]
    BY <2>1 DEF Shaped
  <2>5. QED
    BY <2>2, <2>3, <2>4 DEF Shaped
<1>3. p \in Connectors => ConnectorInOrder(p)'
  BY <1>1 DEF ProgramInOrder, ConnectorInOrder
<1>4. p = "fraud" => FraudInOrder'
  BY <1>1 DEF ProgramInOrder, FraudInOrder
<1>5. p = "gateway" => GatewayInOrder'
  BY <1>1 DEF ProgramInOrder, GatewayInOrder
<1>6. QED
  BY <1>2, <1>3, <1>4, <1>5 DEF ProgramInOrder, Connectors

LEMMA ConnectInOrder ==
    ASSUME Shaped, NEW s \in Services, ProgramInOrder(s), Connect(s) \/ WaitOver(s)
    PROVE  Shaped' /\ ProgramInOrder(s)'
<1>1. s \in Programs /\ s # "gateway"
  BY DeploymentAssumption DEF Programs
<1>2. s \in Connectors /\ s # "fraud" /\ ConnectorInOrder(s)
  BY <1>1 DEF Connectors, Connect, WaitOver, ProgramInOrder, FraudInOrder
<1>3. Connectors' = Connectors /\ faults' = faults /\ faults \in 0 .. MaxFaults
  BY DEF Connectors, Connect, WaitOver, Shaped
<1>4. CASE Stop(s)
  BY <1>1, <1>3, <1>4, StopInOrder
<1>5. CASE at[s] = "connect" /\ Proceed(s) /\ UNCHANGED <<dialed, told>>
  BY <1>1, <1>3, <1>5, ProceedInOrder DEF Shaped
<1>6. CASE /\ at[s] = "connect" /\ attempt[s] < conf[s].retries
           /\ at' = [at EXCEPT ![s] = "wait"]
           /\ UNCHANGED <<conf, attempt, dialed, told>>
  BY <1>1, <1>2, <1>3, <1>6 DEF Shaped, Stages, ProgramInOrder, ConnectorInOrder
<1>7. CASE /\ at[s] = "wait"
           /\ at' = [at EXCEPT ![s] = "connect"]
           /\ attempt' = [attempt EXCEPT ![s] = @ + 1]
           /\ UNCHANGED <<conf, dialed, told>>
  <2>1. at'[s] = "connect" /\ attempt'[s] = attempt[s] + 1 /\ conf'[s] = conf[s]
    BY <1>1, <1>7 DEF Shaped
  <2>2. Shaped'
    BY <1>1, <1>3, <1>7 DEF Shaped, Stages
  <2>3. ConnectorInOrder(s)'
    BY <1>2, <1>7, <2>1 DEF ConnectorInOrder
  <2>4. QED
    BY <1>1, <1>2, <2>2, <2>3 DEF ProgramInOrder
<1>8. QED
  BY <1>4, <1>5, <1>6, <1>7 DEF Connect, WaitOver

\* There is a next service to dial as long as one is missing.
LEMMA NextIsMissing ==
    ASSUME dialed \subseteq Services, dialed # Services
    PROVE  NextDialed \in Services \ dialed
<1> DEFINE M == Services \ dialed
<1>1. M # {} /\ M \subseteq {"user", "fraud", "wallet", "transaction"}
  BY DeploymentAssumption
<1> HIDE DEF M
<1>2. \E s \in M : \A r \in M : DialOrder[s] <= DialOrder[r]
  <2>1. /\ DialOrder["user"] = 1 /\ DialOrder["fraud"] = 2
        /\ DialOrder["wallet"] = 3 /\ DialOrder["transaction"] = 4
    BY DEF DialOrder
  <2>2. CASE "user" \in M
    BY <1>1, <2>1, <2>2
  <2>3. CASE "user" \notin M /\ "fraud" \in M
    BY <1>1, <2>1, <2>3
  <2>4. CASE "user" \notin M /\ "fraud" \notin M /\ "wallet" \in M
    BY <1>1, <2>1, <2>4
  <2>5. CASE M = {"transaction"}
    BY <2>5, <2>1
  <2>6. QED
    BY <1>1, <2>2, <2>3, <2>4, <2>5
<1>3. QED
  BY <1>2 DEF NextDialed, M

LEMMA DialInOrder ==
    ASSUME Shaped, GatewayInOrder, Dial \/ DialAgain
    PROVE  Shaped' /\ ProgramInOrder("gateway")'
<1>1. /\ "gateway" \in Programs /\ "gateway" \notin Connectors /\ ProgramInOrder("gateway")
      /\ (GatewayInOrder' => ProgramInOrder("gateway")')
  BY DeploymentAssumption DEF Programs, Connectors, ProgramInOrder
<1>2. faults' = faults /\ faults \in 0 .. MaxFaults
  BY DEF Dial, DialAgain, Shaped
<1>3. CASE DialAgain
  <2>1. /\ at'["gateway"] = "dial" /\ attempt'["gateway"] = attempt["gateway"] + 1
        /\ UNCHANGED <<conf, dialed, told>>
    BY <1>1, <1>3 DEF DialAgain, Shaped
  <2>2. GatewayInOrder'
    BY <1>3, <2>1 DEF DialAgain, GatewayInOrder
  <2>3. Shaped'
    BY <1>1, <1>2, <1>3 DEF DialAgain, Shaped, Stages
  <2>4. QED
    BY <1>1, <2>2, <2>3
<1>4. CASE Dial
  <2>1. /\ at["gateway"] = "dial" /\ dialed \subseteq Services /\ dialed # Services
        /\ conf["gateway"].attempts \in Nat \ {0}
        /\ attempt["gateway"] \in 1 .. conf["gateway"].attempts
    BY <1>4 DEF Dial, Shaped, GatewayInOrder
  <2>2. NextDialed \in Services \ dialed
    BY <2>1, NextIsMissing
  <2>3. CASE /\ ~DialsLast
             /\ attempt' = [attempt EXCEPT !["gateway"] = 1]
             /\ dialed' = dialed \cup {NextDialed}
             /\ UNCHANGED <<at, conf, told>>
    <3>1. dialed' \subseteq Services /\ dialed' # Services
      BY <2>1, <2>2, <2>3 DEF DialsLast
    <3>2. attempt'["gateway"] = 1
      BY <1>1, <2>3 DEF Shaped
    <3>3. GatewayInOrder'
      BY <2>1, <2>3, <3>1, <3>2 DEF GatewayInOrder
    <3>4. Shaped'
      BY <1>1, <1>2, <2>3, <3>1 DEF Shaped
    <3>5. QED
      BY <1>1, <3>3, <3>4
  <2>4. CASE /\ Proceed("gateway")
             /\ dialed' = dialed \cup {NextDialed}
             /\ UNCHANGED told
    BY <1>1, <1>2, <2>1, <2>2, <2>4, ProceedInOrder
  <2>5. CASE /\ attempt["gateway"] < conf["gateway"].attempts
             /\ at' = [at EXCEPT !["gateway"] = "wait"]
             /\ UNCHANGED <<conf, attempt, dialed, told>>
    <3>1. at'["gateway"] = "wait"
      BY <1>1, <2>5 DEF Shaped
    <3>2. GatewayInOrder'
      BY <2>1, <2>5, <3>1 DEF GatewayInOrder
    <3>3. Shaped'
      BY <1>1, <1>2, <2>5 DEF Shaped, Stages
    <3>4. QED
      BY <1>1, <3>2, <3>3
  <2>6. CASE Stop("gateway")
    BY <1>1, <1>2, <2>6, StopInOrder
  <2>7. QED
    BY <1>4, <2>1, <2>3, <2>4, <2>5, <2>6 DEF Dial
<1>5. QED
  BY <1>3, <1>4

LEMMA BuildInOrder ==
    ASSUME Shaped, NEW p \in Programs, ProgramInOrder(p), Build(p)
    PROVE  Shaped' /\ ProgramInOrder(p)'
<1>1. at[p] = "build" /\ UNCHANGED <<dialed, told, faults>> /\ dialed \subseteq Services
  BY DEF Build, Shaped
<1>2. CASE Proceed(p)
  BY <1>1, <1>2, ProceedInOrder
<1>3. CASE ~Builds(p) /\ at' = [at EXCEPT ![p] = "broken"] /\ UNCHANGED <<conf, attempt>>
  <2>1. p = "gateway" /\ GatewayInOrder
    BY <1>1, <1>3, OneKind
       DEF Builds, ProgramInOrder, ConnectorInOrder, FraudInOrder
  <2>2. conf["gateway"].builds /\ ~ conf["gateway"].routes
    BY <1>1, <1>3, <2>1 DEF Builds, GatewayInOrder
  <2>3. at'["gateway"] = "broken"
    BY <1>3, <2>1 DEF Shaped
  <2>4. GatewayInOrder'
    BY <1>1, <1>3, <2>1, <2>2, <2>3 DEF GatewayInOrder
  <2>5. Shaped'
    BY <1>1, <1>3 DEF Shaped, Stages
  <2>6. QED
    BY <2>1, <2>4, <2>5, DeploymentAssumption DEF ProgramInOrder, Connectors
<1>4. QED
  BY <1>2, <1>3 DEF Build

LEMMA OwnInOrder ==
    ASSUME Shaped, NEW p \in Programs, ProgramInOrder(p), ProgramNext(p)
    PROVE  Shaped' /\ ProgramInOrder(p)'
<1>1. CASE Load(p) \/ OddLoad(p)
  BY <1>1, LoadInOrder
<1>2. CASE Broken(p) \/ StopAtTimeout(p) \/ StopGracefully(p) \/ Dies(p)
  BY <1>2, StopInOrder, FaultsAreBounded DEF Broken, StopAtTimeout, StopGracefully, Dies
<1>3. CASE Build(p)
  BY <1>3, BuildInOrder
<1>4. CASE Listen(p)
  BY <1>4, ProceedInOrder DEF Listen, Shaped
<1>5. CASE Drain(p)
  <2>1. at'[p] = "draining" /\ UNCHANGED <<conf, attempt, dialed, told, faults>>
    BY <1>5 DEF Drain, Shaped
  <2>2. Shaped'
    BY <1>5, <2>1 DEF Drain, Shaped, Stages
  <2>3. QED
    BY <2>1, <2>2 DEF ProgramInOrder, ConnectorInOrder, FraudInOrder, GatewayInOrder
<1>6. CASE p = "gateway" /\ (Dial \/ DialAgain)
  BY <1>6, DialInOrder DEF ProgramInOrder
<1>7. CASE p \in Services /\ (Connect(p) \/ WaitOver(p))
  BY <1>7, ConnectInOrder
<1>8. CASE Tell(p)
  <2>1. UNCHANGED <<at, conf, attempt, dialed>> /\ told' \subseteq Programs
    BY <1>8 DEF Tell, Shaped
  <2>2. faults' \in 0 .. MaxFaults
    BY <1>8, FaultsAreBounded DEF Tell
  <2>3. QED
    BY <2>1, <2>2
       DEF Shaped, ProgramInOrder, ConnectorInOrder, FraudInOrder, GatewayInOrder, Connectors
<1>9. QED
  BY <1>1, <1>2, <1>3, <1>4, <1>5, <1>6, <1>7, <1>8 DEF ProgramNext, Run

-----------------------------------------------------------------------------
LEMMA WaitsAreBounded ==
    ASSUME NEW s, ConnectorInOrder(s), at[s] = "wait"
    PROVE  /\ attempt[s] < conf[s].retries
           /\ Backoff(attempt[s], conf[s].initial, conf[s].max) \in conf[s].initial .. conf[s].max
<1>1. /\ attempt[s] \in Nat /\ attempt[s] < conf[s].retries
      /\ conf[s].initial \in Nat \ {0} /\ conf[s].max \in Nat
      /\ conf[s].initial <= conf[s].max
  BY DEF ConnectorInOrder
<1>2. QED
  BY <1>1, BackoffIsBounded

\* The parts of the invariant, and the whole.
LEMMA PartsOfInv ==
    /\ DeploymentInv => Shaped /\ dbUp \in BOOLEAN
    /\ RolloutInv /\ Shaped /\ ProgramsInOrder /\ dbUp \in BOOLEAN
          /\ script \in {"idle", "waiting", "ok", "failed"} => DeploymentInv
<1>1. \A s \in DOMAIN DatabaseOf : ProgramsInOrder => ConnectorInOrder(s)
  BY DEF ProgramsInOrder
<1>2. QED
  BY <1>1, WaitsAreBounded
     DEF DeploymentInv, DeploymentTypeOK, RolloutInv, MigrationInv, Shaped, Stages

\* What is no step of a program's leaves all programs alone.
LEMMA OtherSteps ==
    ASSUME Shaped, [DeploymentNext]_dvars, ~ \E p \in Programs : ProgramNext(p)
    PROVE  UNCHANGED programs /\ faults' \in 0 .. MaxFaults
<1>1. CASE Apply \/ WaitEnds \/ Recover
  BY <1>1, FaultsAreBounded DEF Apply, WaitEnds, Recover, platform
<1>2. CASE WaitTimesOut \/ Outage
  BY <1>2, FaultsAreBounded DEF WaitTimesOut, Outage, platform
<1>3. ASSUME NEW t \in Tasks, TaskSteps(t) \/ TaskFails(t)
      PROVE  UNCHANGED programs /\ faults' \in 0 .. MaxFaults
  BY <1>3, FaultsAreBounded DEF TaskSteps, TaskFails, platform
<1>4. CASE UNCHANGED dvars
  BY <1>4, FaultsAreBounded DEF dvars
<1>5. QED
  BY <1>1, <1>2, <1>3, <1>4 DEF DeploymentNext

LEMMA ScriptAndDatabase ==
    ASSUME DeploymentInv, [DeploymentNext]_dvars
    PROVE  dbUp' \in BOOLEAN /\ script' \in {"idle", "waiting", "ok", "failed"}
<1>1. dbUp \in BOOLEAN /\ script \in {"idle", "waiting", "ok", "failed"}
  BY DEF DeploymentInv, DeploymentTypeOK
<1>2. CASE Apply \/ WaitEnds \/ WaitTimesOut \/ Outage \/ Recover \/ UNCHANGED dvars
  BY <1>1, <1>2 DEF Apply, WaitEnds, WaitTimesOut, Outage, Recover, platform, dvars
<1>3. ASSUME NEW t \in Tasks, TaskSteps(t) \/ TaskFails(t)
      PROVE  UNCHANGED <<dbUp, script>>
  BY <1>3 DEF TaskSteps, TaskFails, platform
<1>4. ASSUME NEW p \in Programs, ProgramNext(p) PROVE UNCHANGED <<dbUp, script>>
  BY <1>4, ProgramLeaves DEF others
<1>5. QED
  BY <1>1, <1>2, <1>3, <1>4 DEF DeploymentNext

LEMMA InitDeployment == DeploymentInit => DeploymentInv
<1> SUFFICES ASSUME DeploymentInit PROVE DeploymentInv
  OBVIOUS
<1>1. Shaped
  BY DeploymentAssumption DEF DeploymentInit, Shaped, Stages
<1>2. ProgramsInOrder
  <2>1. \A p \in Programs : at[p] = "down"
    BY DEF DeploymentInit
  <2>2. \A p \in Programs : ProgramInOrder(p)
    BY <2>1 DEF DeploymentInit, ProgramInOrder, ConnectorInOrder, FraudInOrder, GatewayInOrder,
                Connectors, Programs
  <2>3. QED
    BY <2>2, EveryProgram
<1>3. QED
  BY <1>1, <1>2, InitRollout, PartsOfInv DEF DeploymentInit

LEMMA NextDeployment == DeploymentInv /\ [DeploymentNext]_dvars => DeploymentInv'
<1> SUFFICES ASSUME DeploymentInv, [DeploymentNext]_dvars PROVE DeploymentInv'
  OBVIOUS
<1>1. Shaped /\ RolloutInv /\ \A p \in Programs : ProgramInOrder(p)
  BY PartsOfInv, EveryProgram DEF DeploymentInv
<1>2. RolloutInv'
  BY <1>1, NextRollout
<1>3. Shaped' /\ \A p \in Programs : ProgramInOrder(p)'
  <2>1. CASE \E p \in Programs : ProgramNext(p)
    <3>1. PICK p \in Programs : ProgramNext(p)
      BY <2>1
    <3>2. Shaped' /\ ProgramInOrder(p)'
      BY <1>1, <3>1, OwnInOrder
    <3>3. \A q \in Programs : q # p => ProgramInOrder(q)'
      BY <1>1, <3>1, OthersInOrder
    <3>4. QED
      BY <3>2, <3>3
  <2>2. CASE ~ \E p \in Programs : ProgramNext(p)
    <3>1. UNCHANGED programs /\ faults' \in 0 .. MaxFaults
      BY <1>1, <2>2, OtherSteps
    <3>2. QED
      BY <1>1, <3>1
         DEF programs, Shaped, ProgramInOrder, ConnectorInOrder, FraudInOrder, GatewayInOrder,
             Connectors
  <2>3. QED
    BY <2>1, <2>2
<1>4. (\A p \in Programs : ProgramInOrder(p))'
  BY <1>3
<1>5. ProgramsInOrder'
  BY <1>4, EveryProgram, PTL
<1>6. /\ (dbUp \in BOOLEAN)'
      /\ (script \in {"idle", "waiting", "ok", "failed"})'
  BY ScriptAndDatabase
<1>7. Shaped'
  BY <1>3
<1>8. QED
  BY <1>2, <1>5, <1>6, <1>7, PartsOfInv, PTL

(***************************************************************************)
(* The whole invariant of the rollout, on the platform with transfers:     *)
(* types, bounds of the retry loops and of the waits within them, what     *)
(* each program has left of its configuration, and the order of things.    *)
(***************************************************************************)
THEOREM PlatformIsInOrder == PlatformSpec => []DeploymentInv
<1>1. DeploymentSpec => []DeploymentInv
  BY InitDeployment, NextDeployment, PTL DEF DeploymentSpec
<1>2. QED
  BY <1>1, PlatformDeploys, PTL

(***************************************************************************)
(* A configuration that Load has accepted is refused by no constructor,    *)
(* whatever the environment, and the gateway never panics for want of an   *)
(* attempt; what remains is the router and its metrics path.               *)
(***************************************************************************)
THEOREM AcceptedIsBuilt == PlatformSpec => []AcceptedConfigurationBuilds
<1>1. DeploymentInv => AcceptedConfigurationBuilds
  <2> SUFFICES ASSUME DeploymentInv, NEW p \in Programs, at[p] = "broken"
               PROVE  /\ p = "gateway" /\ conf[p].attempts > 0
                      /\ conf[p].builds /\ ~conf[p].routes
    BY DEF AcceptedConfigurationBuilds
  <2>1. ProgramInOrder(p)
    BY EveryProgram DEF DeploymentInv
  <2>2. p = "gateway"
    BY <2>1, OneKind DEF ProgramInOrder, ConnectorInOrder, FraudInOrder
  <2>3. GatewayInOrder
    BY <2>1, <2>2 DEF ProgramInOrder
  <2>4. QED
    BY <2>2, <2>3 DEF GatewayInOrder
<1>2. QED
  BY <1>1, PlatformIsInOrder, PTL

-----------------------------------------------------------------------------
(***************************************************************************)
(* The transfers.                                                          *)
(***************************************************************************)
\* The end of the gateway's process leaves every handler's call behind at once.
LEMMA CutOffInv ==
    ASSUME Inv, CutOff
    PROVE  Inv'
<1>1. ServicesStep
  BY QuietStep DEF CutOff
<1>2. Functions'
  BY DEF CutOff, Inv, TypeOK, Functions
<1>3. \A c \in Clients : HandlerInv(c)'
  <2> SUFFICES ASSUME NEW c \in Clients PROVE HandlerInv(c)'
    OBVIOUS
  <2>1. CASE pc[c] \notin Waiting
    <3>1. UNCHANGED <<payload[c], pc[c], status[c], call[c], result[c]>>
      BY <2>1 DEF CutOff
    <3>2. QED
      BY <1>1, <3>1, HandlerStays DEF ServicesStep
  <2>2. CASE pc[c] \in Waiting
    <3>1. pc'[c] = "done" /\ UNCHANGED <<payload[c], status[c]>>
      BY <2>2 DEF CutOff
    <3>2. payload[c] \in Payloads
      BY <2>2 DEF Inv, HandlerInOrder, Waiting
    <3>3. HandlerInOrder(c)'
      BY <3>1, <3>2 DEF HandlerInOrder
    <3>4. HandlerTyped(c)'
      BY <1>2 DEF Functions, HandlerTyped
    <3>5. QED
      BY <1>1, <3>1, <3>3, <3>4, StatusStays DEF HandlerInv, ServicesStep
  <2>3. QED
    BY <2>1, <2>2
<1>4. \A o \in orphans' : OrphanInv(o)'
  BY <1>1, OrphanStays, LeftBehind DEF CutOff, ServicesStep
<1>5. QED
  BY <1>1, <1>2, <1>3, <1>4
     DEF ServicesStep, Inv, TypeOK, TablesInOrder, Functions, HandlerInv, HandlerTyped,
         OrphanInv, StatusTellsTheTruth, StatusIsTrue

LEMMA NextPlatform == Inv /\ [PlatformNext]_pvars => Inv'
<1> SUFFICES ASSUME Inv, [PlatformNext]_pvars PROVE Inv'
  OBVIOUS
<1>1. CASE Before(DeploymentNext)
  BY <1>1, NextSaga DEF Before
<1>2. CASE During(Run("gateway")) \/ During(Tell("gateway")) \/ During(Dies("gateway"))
           \/ During(HandlersEnd)
  <2>1. UNCHANGED vars \/ CutOff
    BY <1>2 DEF During
  <2>2. QED
    BY <2>1, NextSaga, CutOffInv
<1>3. CASE \E c \in Clients :
          \/ Ask(Submit(c) /\ (Traffic \/ Steady)) \/ Ask(Retry(c))
          \/ Handle(UsersKnown(c)) \/ Handle(UsersUnknown(c))
          \/ Handle(Allow(c)) \/ Handle(Deny(c))
          \/ Handle(WalletLookup(c)) \/ Handle(WalletTx(c))
          \/ Handle(Record(c)) \/ Handle(GiveUp(c))
  <2>1. Next
    BY <1>3 DEF Ask, Handle, Next
  <2>2. QED
    BY <2>1, NextSaga
<1>4. CASE \E o \in orphans : Late(o) /\ UNCHANGED dvars
  BY <1>4, LateInv
<1>5. CASE UNCHANGED pvars
  BY <1>5, NextSaga DEF pvars
<1>6. QED
  BY <1>1, <1>2, <1>3, <1>4, <1>5 DEF PlatformNext

(***************************************************************************)
(* Transfers keep their promises through a gateway that is stopped, killed *)
(* and started again at any moment: no money moves unapproved, the audit   *)
(* is the wallet's, and 200 and 500 are true.                              *)
(***************************************************************************)
THEOREM TransfersSurviveTheGateway ==
    PlatformSpec => [](PaidOnlyIfApproved /\ AuditMatchesLedger /\ StatusTellsTheTruth)
<1>1. PlatformInit => Inv
  BY InitSaga DEF PlatformInit
<1>2. PlatformSpec => PlatformInit /\ [][PlatformNext]_pvars
  BY PTL DEF PlatformSpec
<1>3. Inv => PaidOnlyIfApproved /\ AuditMatchesLedger /\ StatusTellsTheTruth
  BY DEF Inv, LedgerInOrder, PaidOnlyIfApproved
<1>4. QED
  BY <1>1, <1>2, <1>3, NextPlatform, PTL

-----------------------------------------------------------------------------
(***************************************************************************)
(* Without forgetting, no retry is denied whose first attempt has moved    *)
(* the money.                                                              *)
(***************************************************************************)
\* What fraud-service has allowed, it still says that it has.
ApprovalsAreKept ==
    \A p \in approved :
        p \in Payloads /\ verdicts[p.key] = [payload |-> p, allowed |-> TRUE]

LEMMA EvaluateKeeps ==
    ASSUME Inv, ApprovalsAreKept, NEW p \in Payloads, NEW allowed \in BOOLEAN,
           Evaluate(p, allowed)
    PROVE  ApprovalsAreKept' /\ (p \in approved => allowed)
<1> DEFINE given == [payload |-> p, allowed |-> allowed]
<1>1. p.key \in Keys /\ given \in Verdicts /\ given # None
  BY Fields DEF Verdicts
<1>2. \A q \in approved : q.key \in Keys /\ verdicts[q.key] # None
  <2> SUFFICES ASSUME NEW q \in approved PROVE q.key \in Keys /\ verdicts[q.key] # None
    OBVIOUS
  <2>1. q \in Payloads /\ verdicts[q.key] = [payload |-> q, allowed |-> TRUE]
    BY DEF ApprovalsAreKept
  <2>2. [payload |-> q, allowed |-> TRUE] \in Verdicts
    BY <2>1 DEF Verdicts
  <2>3. QED
    BY <2>1, <2>2, Fields
<1>3. CASE verdicts[p.key] = None
  <2>1. verdicts' = [verdicts EXCEPT ![p.key] = given]
    BY <1>3 DEF Evaluate
  <2>2. \A q \in approved : q.key # p.key /\ verdicts'[q.key] = verdicts[q.key]
    BY <1>2, <1>3, <2>1 DEF Inv, TypeOK
  <2>3. verdicts'[p.key] = given
    BY <1>1, <2>1 DEF Inv, TypeOK
  <2>4. p \notin approved
    BY <2>2
  <2>5. allowed => verdicts'[p.key] = [payload |-> p, allowed |-> TRUE]
    BY <2>3
  <2>6. approved' = IF allowed THEN approved \cup {p} ELSE approved
    BY DEF Evaluate
  <2>7. ApprovalsAreKept'
    BY <2>2, <2>5, <2>6 DEF ApprovalsAreKept
  <2>8. QED
    BY <2>4, <2>7
<1>4. CASE verdicts[p.key] # None
  <2>1. /\ allowed = (verdicts[p.key].payload = p /\ verdicts[p.key].allowed)
        /\ verdicts' = verdicts
        /\ approved' = IF allowed THEN approved \cup {p} ELSE approved
    BY <1>4 DEF Evaluate
  <2>2. verdicts[p.key] \in Verdicts
    BY <1>1, <1>4 DEF Inv, TypeOK
  <2>3. allowed => verdicts[p.key] = [payload |-> p, allowed |-> TRUE]
    BY <2>1, <2>2 DEF Verdicts
  <2>4. p \in approved => allowed
    <3> SUFFICES ASSUME p \in approved PROVE allowed
      OBVIOUS
    <3>1. verdicts[p.key] = [payload |-> p, allowed |-> TRUE]
      BY DEF ApprovalsAreKept
    <3>2. verdicts[p.key].payload = p /\ verdicts[p.key].allowed
      BY <3>1
    <3>3. QED
      BY <2>1, <3>2
  <2>5. ApprovalsAreKept'
    BY <2>1, <2>3 DEF ApprovalsAreKept
  <2>6. QED
    BY <2>4, <2>5
<1>5. QED
  BY <1>3, <1>4

LEMMA NextKeepsApprovals ==
    ASSUME MaxForgets = 0, Inv, ApprovalsAreKept, [Next]_vars
    PROVE  ApprovalsAreKept'
<1>1. CASE UNCHANGED <<verdicts, approved>>
  BY <1>1 DEF ApprovalsAreKept
<1>2. CASE \E p \in Payloads, allowed \in BOOLEAN : Evaluate(p, allowed)
  BY <1>2, EvaluateKeeps
<1>3. ASSUME NEW k \in Keys, Forget(k) PROVE FALSE
  BY <1>3 DEF Forget, Inv, TypeOK
<1>4. ASSUME NEW c \in Clients, Allow(c) \/ Deny(c)
      PROVE  \E p \in Payloads, allowed \in BOOLEAN : Evaluate(p, allowed)
  <2>1. payload[c] \in Payloads
    BY <1>4 DEF Allow, Deny, Inv, HandlerInOrder
  <2>2. QED
    BY <1>4, <2>1 DEF Allow, Deny
<1>5. ASSUME NEW o \in orphans, Late(o)
      PROVE  \/ UNCHANGED <<verdicts, approved>>
             \/ \E p \in Payloads, allowed \in BOOLEAN : Evaluate(p, allowed)
  <2>1. o.payload \in Payloads
    BY DEF Inv, TypeOK
  <2>2. QED
    BY <1>5, <2>1 DEF Late, LateEvaluate, LateMove, LateRecord, fraud
<1>6. ASSUME NEW c \in Clients,
             \/ Submit(c) \/ Retry(c) \/ UsersKnown(c) \/ UsersUnknown(c)
             \/ WalletLookup(c) \/ WalletTx(c) \/ Record(c) \/ GiveUp(c) \/ Crash(c)
      PROVE  UNCHANGED <<verdicts, approved>>
  BY <1>6 DEF Submit, Retry, UsersKnown, UsersUnknown, WalletLookup, WalletTx, Record,
     GiveUp, Crash, fraud
<1>7. QED
  BY <1>1, <1>2, <1>3, <1>4, <1>5, <1>6 DEF Next, vars

\* One step of a transfer.
NotDenied ==
    \A c \in Clients :
        (status[c] # 403 /\ status'[c] = 403) =>
        LET stored == ledger[payload[c].key]
        IN  stored = None \/ stored.payload # payload[c]

\* 403 is fraud's answer, and nobody else's.
LEMMA OnlyFraudDenies ==
    ASSUME Inv, [Next]_vars, NEW c \in Clients, status[c] # 403, status'[c] = 403
    PROVE  Deny(c)
<1>1. 403 # None
  BY NoneAssumption DEF Statuses
<1>2. ASSUME NEW d \in Clients, NEW code, Respond(d, code), code # 403
      PROVE  FALSE
  BY <1>2 DEF Respond, Inv, TypeOK
<1>3. status' # status
  OBVIOUS
<1>4. PICK d \in Clients :
          \/ Submit(d) \/ Retry(d) \/ UsersKnown(d) \/ UsersUnknown(d)
          \/ Allow(d) \/ Deny(d) \/ WalletLookup(d) \/ WalletTx(d) \/ Record(d)
          \/ GiveUp(d) \/ Crash(d)
  BY <1>3 DEF Next, vars, Forget, Late
<1>5. CASE Submit(d) \/ UsersKnown(d) \/ Allow(d)
  BY <1>3, <1>5 DEF Submit, UsersKnown, Allow, Send, Lose
<1>6. CASE Retry(d)
  BY <1>1, <1>6 DEF Retry, Inv, TypeOK
<1>7. CASE UsersUnknown(d) \/ GiveUp(d) \/ Crash(d)
  BY <1>1, <1>2, <1>7 DEF UsersUnknown, GiveUp, Crash, ErrorStatus
<1>8. CASE WalletLookup(d) \/ WalletTx(d)
  BY <1>2, <1>3, <1>8 DEF WalletLookup, WalletTx, Stored, Accept, Send, Lose
<1>9. CASE Record(d)
  BY <1>2, <1>3, <1>9 DEF Record, Lose
<1>10. CASE Deny(d)
  <2>1. d = c
    BY <1>3, <1>10 DEF Deny, Respond, Lose, Inv, TypeOK
  <2>2. QED
    BY <1>10, <2>1
<1>11. QED
  BY <1>4, <1>5, <1>6, <1>7, <1>8, <1>9, <1>10

LEMMA NextIsNotDenied ==
    ASSUME Inv, ApprovalsAreKept, [Next]_vars
    PROVE  NotDenied
<1> SUFFICES ASSUME NEW c \in Clients, status[c] # 403, status'[c] = 403,
                    ledger[payload[c].key] # None,
                    ledger[payload[c].key].payload = payload[c]
             PROVE  FALSE
  BY DEF NotDenied
<1>1. pc[c] = "fraud" /\ Evaluate(payload[c], FALSE)
  BY OnlyFraudDenies DEF Deny
<1>2. payload[c] \in Payloads
  BY <1>1 DEF Inv, HandlerInOrder
<1>3. payload[c].key \in Keys
  BY <1>2, Fields
<1>4. payload[c] \in approved
  BY <1>3 DEF Inv, LedgerInOrder
<1>5. QED
  BY <1>1, <1>2, <1>4, EvaluateKeeps

\* The same of a step of the platform.
LEMMA PlatformIsSaga ==
    [PlatformNext]_pvars => [Next]_vars \/ UNCHANGED <<verdicts, approved, status>>
<1> SUFFICES ASSUME [PlatformNext]_pvars, ~ UNCHANGED <<verdicts, approved, status>>
             PROVE  [Next]_vars
  OBVIOUS
<1>1. ~ UNCHANGED vars /\ ~ CutOff
  BY DEF vars, CutOff, fraud
<1>2. QED
  BY <1>1 DEF PlatformNext, pvars, Before, During, Ask, Handle, Next

(***************************************************************************)
(* As long as fraud-service forgets no decision, the retry that a 500 asks *)
(* for is not denied: for any clients that share keys, and any calls lost, *)
(* late or repeated, through a gateway that is stopped and started again.  *)
(***************************************************************************)
THEOREM RemembersItsApprovals == ASSUME MaxForgets = 0 PROVE PlatformSpec => MovedIsNotDenied
<1>1. PlatformInit => Inv /\ ApprovalsAreKept
  BY InitSaga DEF PlatformInit, Init, ApprovalsAreKept
<1>2. Inv /\ ApprovalsAreKept /\ [PlatformNext]_pvars => ApprovalsAreKept'
  <2> SUFFICES ASSUME Inv, ApprovalsAreKept, [PlatformNext]_pvars PROVE ApprovalsAreKept'
    OBVIOUS
  <2>1. CASE [Next]_vars
    BY <2>1, NextKeepsApprovals
  <2>2. CASE UNCHANGED <<verdicts, approved, status>>
    BY <2>2 DEF ApprovalsAreKept
  <2>3. QED
    BY <2>1, <2>2, PlatformIsSaga
<1>3. Inv /\ ApprovalsAreKept /\ [PlatformNext]_pvars => [NotDenied]_vars
  BY PlatformIsSaga, NextIsNotDenied DEF NotDenied
<1>4. PlatformSpec => PlatformInit /\ [][PlatformNext]_pvars
  BY PTL DEF PlatformSpec
<1>5. QED
  BY <1>1, <1>2, <1>3, <1>4, NextPlatform, PTL DEF MovedIsNotDenied, NotDenied
=============================================================================
