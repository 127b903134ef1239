----------------------- MODULE TransactionRepository -----------------------
(***************************************************************************)
(* transaction-service: Record of internal/repository/repository.go as run *)
(* by concurrent gRPC handlers.  Table transactions has two unique         *)
(* indexes, on id and on idempotency_key; an INSERT enters them in that    *)
(* order and waits, at each, for an open transaction that has entered the  *)
(* same value.                                                             *)
(***************************************************************************)
EXTENDS Naturals

CONSTANTS
    Calls,    \* Record calls, each served once
    Ids,      \* transaction_id values
    Keys,     \* idempotency keys
    Bodies,   \* the other columns: parties, amount, status, balances after
    Invalid,  \* the bodies that normalizeRecordInput rejects
    None      \* no request, no answer, no holder

ASSUME BodiesAssumption == Invalid \subseteq Bodies
ASSUME NoneAssumption   == None \notin Calls

Rows    == [id : Ids, key : Keys, body : Bodies]
Replies == {"ok", "invalid", "mismatch", "id_conflict", "internal"}

ASSUME NoRowAssumption == None \notin Rows \cup Replies

VARIABLES
    transactions,  \* the committed rows
    request,       \* the row each call asks for, None before it is received
    reply,         \* its answer, None until it is given
    pc,            \* where its handler stands
    idEntry,       \* holder of the uncommitted index entry of an id
    keyEntry       \* holder of the uncommitted index entry of a key

entries == <<idEntry, keyEntry>>
vars    == <<transactions, request, reply, pc, idEntry, keyEntry>>

Working == {"lookup", "insertId", "insertKey", "commit", "rereadId", "rereadKey"}

Init ==
    /\ transactions = {}
    /\ request = [c \in Calls |-> None]
    /\ reply = [c \in Calls |-> None]
    /\ pc = [c \in Calls |-> "idle"]
    /\ idEntry = [i \in Ids |-> None]
    /\ keyEntry = [k \in Keys |-> None]

ByKey(k) == {row \in transactions : row.key = k}
ById(i)  == {row \in transactions : row.id = i}

Goto(c, label) == pc' = [pc EXCEPT ![c] = label]

Respond(c, answer) ==
    /\ reply' = [reply EXCEPT ![c] = answer]
    /\ Goto(c, "done")

\* Mutant of EndTx: the entry of the key outlives its transaction.
EndTxKeepsKey(c) ==
    /\ idEntry' = [i \in Ids |-> IF idEntry[i] = c THEN None ELSE idEntry[i]]
    /\ UNCHANGED keyEntry

EndTx(c) ==
    /\ idEntry' = [i \in Ids |-> IF idEntry[i] = c THEN None ELSE idEntry[i]]
    /\ keyEntry' = [k \in Keys |-> IF keyEntry[k] = c THEN None ELSE keyEntry[k]]

-----------------------------------------------------------------------------
\* normalizeRecordInput, before anything is read.
Receive(c) ==
    /\ pc[c] = "idle"
    /\ \E row \in Rows :
          /\ request' = [request EXCEPT ![c] = row]
          /\ IF row.body \in Invalid
             THEN Respond(c, "invalid")
             ELSE Goto(c, "lookup") /\ UNCHANGED reply
    /\ UNCHANGED <<transactions, entries>>

\* Mutant of Compare: a row of that key is taken for the same row.
CompareKeyOnly(c) == IF ByKey(request[c].key) # {} THEN "ok" ELSE "mismatch"

\* sameStoredRecordAndInput: every column of the row of that key is compared.
Compare(c) == IF request[c] \in ByKey(request[c].key) THEN "ok" ELSE "mismatch"

\* getByIdempotencyKey, outside the transaction.
LookupMiss(c) ==
    /\ pc[c] = "lookup"
    /\ ByKey(request[c].key) = {}
    /\ Goto(c, "insertId")
    /\ UNCHANGED <<transactions, entries, request, reply>>

LookupHit(c) ==
    /\ pc[c] = "lookup"
    /\ ByKey(request[c].key) # {}
    /\ Respond(c, Compare(c))
    /\ UNCHANGED <<transactions, entries, request>>

\* The INSERT enters transactions_pkey.
InsertId(c) ==
    /\ pc[c] = "insertId"
    /\ idEntry[request[c].id] = None
    /\ ById(request[c].id) = {}
    /\ idEntry' = [idEntry EXCEPT ![request[c].id] = c]
    /\ Goto(c, "insertKey")
    /\ UNCHANGED <<transactions, keyEntry, request, reply>>

\* ErrTransactionIDConflict, after the Rollback.
IdConflict(c) ==
    /\ pc[c] = "insertId"
    /\ idEntry[request[c].id] = None
    /\ ById(request[c].id) # {}
    /\ Goto(c, "rereadId")
    /\ EndTx(c)
    /\ UNCHANGED <<transactions, request, reply>>

\* The INSERT enters transactions_idempotency_key_key.
InsertKey(c) ==
    /\ pc[c] = "insertKey"
    /\ keyEntry[request[c].key] = None
    /\ ByKey(request[c].key) = {}
    /\ keyEntry' = [keyEntry EXCEPT ![request[c].key] = c]
    /\ Goto(c, "commit")
    /\ UNCHANGED <<transactions, idEntry, request, reply>>

\* errIdempotencyKeyConflict, after the Rollback.
KeyConflict(c) ==
    /\ pc[c] = "insertKey"
    /\ keyEntry[request[c].key] = None
    /\ ByKey(request[c].key) # {}
    /\ Goto(c, "rereadKey")
    /\ EndTx(c)
    /\ UNCHANGED <<transactions, request, reply>>

\* Mutant of RereadId: an id conflict is reported without a look at the row.
RereadIdRefuses(c) ==
    /\ pc[c] = "rereadId"
    /\ Respond(c, "id_conflict")
    /\ UNCHANGED <<transactions, entries, request>>

\* The row that caused the conflict, found by the same value, decides.
RereadId(c) ==
    /\ pc[c] = "rereadId"
    /\ Respond(c, IF request[c] \in ById(request[c].id) THEN "ok" ELSE "id_conflict")
    /\ UNCHANGED <<transactions, entries, request>>

RereadKey(c) ==
    /\ pc[c] = "rereadKey"
    /\ Respond(c, IF ByKey(request[c].key) = {} THEN "internal"
                  ELSE Compare(c))
    /\ UNCHANGED <<transactions, entries, request>>

\* The answer of the database may be lost after the row is in the table.
Commit(c) ==
    /\ pc[c] = "commit"
    /\ transactions' = transactions \cup {request[c]}
    /\ \E answer \in {"ok", "internal"} : Respond(c, answer)
    /\ EndTx(c)
    /\ UNCHANGED request

\* A lost connection, a crash, or the end of the call's context.
Fail(c) ==
    /\ pc[c] \in Working
    /\ Respond(c, "internal")
    /\ EndTx(c)
    /\ UNCHANGED <<transactions, request>>

Step(c) ==
    \/ LookupMiss(c) \/ LookupHit(c) \/ InsertId(c) \/ IdConflict(c)
    \/ InsertKey(c) \/ KeyConflict(c) \/ RereadId(c) \/ RereadKey(c) \/ Commit(c)

Next == \E c \in Calls : Receive(c) \/ Step(c) \/ Fail(c)

Spec == Init /\ [][Next]_vars

\* A runnable goroutine runs, and an index entry that stays free is granted.
FairSpec == Spec /\ \A c \in Calls : WF_vars(Step(c))

-----------------------------------------------------------------------------
\* Properties.

\* The type invariant of the table, its indexes and the handlers.
TypeOK ==
    /\ transactions \subseteq Rows
    /\ request \in [Calls -> Rows \cup {None}]
    /\ reply \in [Calls -> Replies \cup {None}]
    /\ pc \in [Calls -> Working \cup {"idle", "done"}]
    /\ idEntry \in [Ids -> Calls \cup {None}]
    /\ keyEntry \in [Keys -> Calls \cup {None}]

(***************************************************************************)
(* Strict idempotency: an answer "ok" means that the very row is in the    *)
(* table, and it is the only one with its id or its key; duplicates in     *)
(* flight never leave two rows.                                            *)
(***************************************************************************)
AcceptedIsRecorded ==
    \A c \in Calls : reply[c] = "ok" =>
        ById(request[c].id) \cup ByKey(request[c].key) = {request[c]}

(***************************************************************************)
(* A conflict is real: "mismatch" and "id_conflict" are only answered      *)
(* while a different row holds the key, or the id; so a retry of the same  *)
(* row, after whatever failure, is never refused.                          *)
(***************************************************************************)
ConflictIsReal ==
    \A c \in Calls :
        /\ reply[c] = "mismatch" =>
              \E row \in transactions : row.key = request[c].key /\ row # request[c]
        /\ reply[c] = "id_conflict" =>
              \E row \in transactions : row.id = request[c].id /\ row # request[c]

\* What the place of a handler says of its request and its answer.
CallsInOrder ==
    \A c \in Calls : /\ pc[c] = "idle" <=> request[c] = None
                     /\ pc[c] = "done" <=> reply[c] # None

\* A call has entered the values of its row while it is in its transaction.
EntriesAreHeld(c) ==
    /\ \A i \in Ids : idEntry[i] = c <=>
          pc[c] \in {"insertKey", "commit"} /\ request[c].id = i
    /\ \A k \in Keys : keyEntry[k] = c <=>
          pc[c] = "commit" /\ request[c].key = k

\* What a handler has found in the table is still so.
ValuesAreFree(c) ==
    /\ pc[c] \in {"insertKey", "commit"} => ById(request[c].id) = {}
    /\ pc[c] = "commit" => ByKey(request[c].key) = {}
    /\ pc[c] = "rereadId" => ById(request[c].id) # {}

RowsAreUnique ==
    \A r, s \in transactions : r.id = s.id \/ r.key = s.key => r = s

(***************************************************************************)
(* The indexes hold: a value is entered by one transaction at a time, for  *)
(* as long as that lasts, nobody else's row with it appears meanwhile, and *)
(* so the rows of the table differ in their ids and in their keys.         *)
(***************************************************************************)
IndexInv ==
    /\ CallsInOrder
    /\ RowsAreUnique
    /\ \A c \in Calls : EntriesAreHeld(c) /\ ValuesAreFree(c)

\* The invariant that carries the proofs: types, and the two unique indexes, which
\* hold whatever calls overlap and whichever of them fail.
Inv == TypeOK /\ IndexInv

\* Every Record is answered: no handler waits at an index for ever.
EveryCallIsAnswered ==
    \A c \in Calls : request[c] # None ~> reply[c] # None
=============================================================================
