--------------------- MODULE TransactionRepositoryProofs ---------------------
(***************************************************************************)
(* Proofs about TransactionRepository, for every set of calls, ids, keys   *)
(* and bodies: its types, the discipline of its two unique indexes, that   *)
(* "ok" means recorded and that a conflict is real.                        *)
(***************************************************************************)
EXTENDS TransactionRepository, TLAPS

\* Rows, answers and the marks of their absence are different things.
LEMMA NothingIsNone ==
    /\ None \notin Rows /\ None \notin Replies /\ None \notin Calls
    /\ \A row \in Rows : row.id \in Ids /\ row.key \in Keys /\ row.body \in Bodies
BY NoRowAssumption, NoneAssumption DEF Rows

\* The comparison with a row of the same key yields an answer.
LEMMA CompareIsReply ==
    ASSUME NEW c \in Calls
    PROVE  /\ Compare(c) \in {"ok", "mismatch"}
           /\ Compare(c) = "ok" <=> request[c] \in ByKey(request[c].key)
BY DEF Compare

-----------------------------------------------------------------------------
(***************************************************************************)
(* Types, with what the place of a handler says of its request and answer. *)
(***************************************************************************)
Typed == TypeOK /\ CallsInOrder

\* The types hold at the start.
LEMMA InitTyped == Init => Typed
BY NothingIsNone DEF Init, Typed, TypeOK, CallsInOrder, Working

\* A handler at work has the row that it was asked to record.
LEMMA WorkingHasRow ==
    ASSUME Typed, NEW c \in Calls, pc[c] # "idle"
    PROVE  /\ request[c] \in Rows
           /\ request[c].id \in Ids
           /\ request[c].key \in Keys
BY NothingIsNone DEF Typed, TypeOK, CallsInOrder

\* Other handlers are left where they are, by an answer as by a step on.
LEMMA RespondFrame ==
    ASSUME Typed, NEW c \in Calls, NEW answer \in Replies, Respond(c, answer)
    PROVE  /\ pc' \in [Calls -> Working \cup {"idle", "done"}]
           /\ reply' \in [Calls -> Replies \cup {None}]
           /\ pc'[c] = "done" /\ reply'[c] = answer /\ reply'[c] # None
           /\ \A d \in Calls \ {c} : pc'[d] = pc[d] /\ reply'[d] = reply[d]
BY NothingIsNone DEF Respond, Goto, Typed, TypeOK

\* The same of a step on.
LEMMA GotoFrame ==
    ASSUME Typed, NEW c \in Calls, NEW label \in Working, Goto(c, label)
    PROVE  /\ pc' \in [Calls -> Working \cup {"idle", "done"}]
           /\ pc'[c] = label
           /\ \A d \in Calls \ {c} : pc'[d] = pc[d]
BY DEF Goto, Typed, TypeOK

\* The end of a transaction removes its own entries and no others.
LEMMA EndTxFrame ==
    ASSUME Typed, NEW c \in Calls, EndTx(c)
    PROVE  /\ idEntry' \in [Ids -> Calls \cup {None}]
           /\ keyEntry' \in [Keys -> Calls \cup {None}]
           /\ \A i \in Ids : idEntry'[i] = IF idEntry[i] = c THEN None ELSE idEntry[i]
           /\ \A k \in Keys : keyEntry'[k] = IF keyEntry[k] = c THEN None ELSE keyEntry[k]
BY DEF EndTx, Typed, TypeOK

\* An answer to a call leaves the types, whatever becomes of the entries.
LEMMA RespondTyped ==
    ASSUME Typed, NEW c \in Calls, pc[c] # "idle", NEW answer \in Replies,
           Respond(c, answer), UNCHANGED request,
           transactions' \subseteq Rows,
           idEntry' \in [Ids -> Calls \cup {None}],
           keyEntry' \in [Keys -> Calls \cup {None}]
    PROVE  Typed'
<1>1. TypeOK'
    BY RespondFrame DEF Typed, TypeOK
<1>2. CallsInOrder'
    BY RespondFrame DEF Typed, TypeOK, CallsInOrder
<1>3. QED
    BY <1>1, <1>2 DEF Typed

\* A step on leaves the types too.
LEMMA GotoTyped ==
    ASSUME Typed, NEW c \in Calls, pc[c] \in Working, NEW label \in Working,
           Goto(c, label), UNCHANGED <<transactions, request, reply>>,
           idEntry' \in [Ids -> Calls \cup {None}],
           keyEntry' \in [Keys -> Calls \cup {None}]
    PROVE  Typed'
<1>1. TypeOK'
    BY GotoFrame DEF Typed, TypeOK
<1>2. CallsInOrder'
    BY GotoFrame DEF Typed, CallsInOrder, Working
<1>3. QED
    BY <1>1, <1>2 DEF Typed

\* No handler leaves the types.
LEMMA NextTyped == Typed /\ [Next]_vars => Typed'
<1> SUFFICES ASSUME Typed, [Next]_vars PROVE Typed'
    OBVIOUS
<1>0. TypeOK
    BY DEF Typed
<1> USE DEF entries
<1>1. ASSUME NEW c \in Calls, Receive(c) PROVE Typed'
  <2>1. PICK row \in Rows : /\ request' = [request EXCEPT ![c] = row]
                            /\ IF row.body \in Invalid
                               THEN Respond(c, "invalid")
                               ELSE Goto(c, "lookup") /\ UNCHANGED reply
    BY <1>1 DEF Receive
  <2>2. /\ pc[c] = "idle" /\ reply[c] = None
        /\ UNCHANGED <<transactions, idEntry, keyEntry>>
    BY <1>1 DEF Receive, Typed, CallsInOrder
  <2>3. /\ request' \in [Calls -> Rows \cup {None}]
        /\ request'[c] = row /\ row # None
        /\ \A d \in Calls \ {c} : request'[d] = request[d]
    BY <1>0, <2>1, NothingIsNone DEF TypeOK
  <2>4. CASE row.body \in Invalid
    <3>1. Respond(c, "invalid") /\ "invalid" \in Replies
      BY <2>1, <2>4 DEF Replies
    <3>2. TypeOK'
      BY <1>0, <2>2, <2>3, <3>1, RespondFrame DEF TypeOK
    <3>3. CallsInOrder'
      BY <2>3, <3>1, RespondFrame DEF Typed, CallsInOrder
    <3>4. QED
      BY <3>2, <3>3 DEF Typed
  <2>5. CASE row.body \notin Invalid
    <3>1. Goto(c, "lookup") /\ UNCHANGED reply /\ "lookup" \in Working
      BY <2>1, <2>5 DEF Working
    <3>2. TypeOK'
      BY <1>0, <2>2, <2>3, <3>1, GotoFrame DEF TypeOK
    <3>3. CallsInOrder'
      BY <2>2, <2>3, <3>1, GotoFrame DEF Typed, CallsInOrder
    <3>4. QED
      BY <3>2, <3>3 DEF Typed
  <2>6. QED
    BY <2>4, <2>5
<1>2. ASSUME NEW c \in Calls, LookupMiss(c) PROVE Typed'
  BY <1>0, <1>2, GotoTyped DEF LookupMiss, Working, TypeOK
<1>3. ASSUME NEW c \in Calls, LookupHit(c) PROVE Typed'
  <2>1. Compare(c) \in Replies
    BY CompareIsReply DEF Replies
  <2>2. QED
    BY <1>0, <1>3, <2>1, RespondTyped DEF LookupHit, TypeOK
<1>4. ASSUME NEW c \in Calls, InsertId(c) PROVE Typed'
  <2>1. idEntry' \in [Ids -> Calls \cup {None}]
    BY <1>0, <1>4 DEF InsertId, TypeOK
  <2>2. QED
    BY <1>0, <1>4, <2>1, GotoTyped DEF InsertId, Working, TypeOK
<1>5. ASSUME NEW c \in Calls, IdConflict(c) PROVE Typed'
  BY <1>5, EndTxFrame, GotoTyped DEF IdConflict, Working
<1>6. ASSUME NEW c \in Calls, InsertKey(c) PROVE Typed'
  <2>1. keyEntry' \in [Keys -> Calls \cup {None}]
    BY <1>0, <1>6 DEF InsertKey, TypeOK
  <2>2. QED
    BY <1>0, <1>6, <2>1, GotoTyped DEF InsertKey, Working, TypeOK
<1>7. ASSUME NEW c \in Calls, KeyConflict(c) PROVE Typed'
  BY <1>7, EndTxFrame, GotoTyped DEF KeyConflict, Working
<1>8. ASSUME NEW c \in Calls, RereadId(c) PROVE Typed'
  <2>1. PICK answer \in Replies : Respond(c, answer)
    BY <1>8 DEF RereadId, Replies
  <2>2. QED
    BY <1>0, <1>8, <2>1, RespondTyped DEF RereadId, TypeOK
<1>9. ASSUME NEW c \in Calls, RereadKey(c) PROVE Typed'
  <2>1. PICK answer \in Replies : Respond(c, answer)
    BY <1>9, CompareIsReply DEF RereadKey, Replies
  <2>2. QED
    BY <1>0, <1>9, <2>1, RespondTyped DEF RereadKey, TypeOK
<1>10. ASSUME NEW c \in Calls, Commit(c) PROVE Typed'
  <2>1. PICK answer \in Replies : Respond(c, answer)
    BY <1>10 DEF Commit, Replies
  <2>2. transactions' \subseteq Rows
    BY <1>0, <1>10, WorkingHasRow DEF Commit, TypeOK
  <2>3. QED
    BY <1>10, <2>1, <2>2, EndTxFrame, RespondTyped DEF Commit
<1>11. ASSUME NEW c \in Calls, Fail(c) PROVE Typed'
  <2>1. Respond(c, "internal") /\ "internal" \in Replies
    BY <1>11 DEF Fail, Replies
  <2>2. QED
    BY <1>0, <1>11, <2>1, EndTxFrame, RespondTyped DEF Fail, Working, TypeOK
<1>12. ASSUME UNCHANGED vars PROVE Typed'
  BY <1>12 DEF vars, Typed, TypeOK, CallsInOrder
<1>13. QED
  BY <1>1, <1>2, <1>3, <1>4, <1>5, <1>6, <1>7, <1>8, <1>9, <1>10, <1>11, <1>12
     DEF Next, Step

(***************************************************************************)
(* The table, its index entries and the handlers keep their types, for any *)
(* calls and rows.                                                         *)
(***************************************************************************)
THEOREM TypeCorrect == Spec => []TypeOK
<1>1. Spec => []Typed
  BY InitTyped, NextTyped, PTL DEF Spec
<1>2. Typed => TypeOK
  BY DEF Typed
<1>3. QED
  BY <1>1, <1>2, PTL

-----------------------------------------------------------------------------
(***************************************************************************)
(* The indexes.  A step is taken by one call; it takes only entries that   *)
(* are free and removes only its own, so that the facts which the others   *)
(* rest on their entries stand.                                            *)
(***************************************************************************)

\* Only free entries and those of c change, and they become free or c's.
Touches(c) ==
    /\ \A i \in Ids : \/ idEntry'[i] = idEntry[i]
                       \/ {idEntry[i], idEntry'[i]} \subseteq {c, None}
    /\ \A k \in Keys : \/ keyEntry'[k] = keyEntry[k]
                        \/ {keyEntry[k], keyEntry'[k]} \subseteq {c, None}

\* No other call moves.
Moves(c) ==
    \A d \in Calls \ {c} : /\ pc'[d] = pc[d] /\ request'[d] = request[d]
                           /\ reply'[d] = reply[d]

\* No entries and no rows: the indexes hold at the start.
LEMMA InitIndexed == Init => IndexInv
<1> SUFFICES ASSUME Init PROVE IndexInv
    OBVIOUS
<1>1. CallsInOrder
    BY InitTyped DEF Typed
<1>2. \A c \in Calls : EntriesAreHeld(c) /\ ValuesAreFree(c)
    BY NothingIsNone DEF Init, EntriesAreHeld, ValuesAreFree
<1>3. QED
    BY <1>1, <1>2 DEF Init, IndexInv, RowsAreUnique

\* The step of one call leaves the entries of another.
LEMMA OthersAreHeld ==
    ASSUME IndexInv, NEW c \in Calls, NEW d \in Calls \ {c}, Touches(c), Moves(c)
    PROVE  EntriesAreHeld(d)'
BY NothingIsNone DEF IndexInv, EntriesAreHeld, Touches, Moves

\* A step of call c that adds no row keeps the indexes if it leaves c in order.
LEMMA QuietStep ==
    ASSUME IndexInv, Typed', NEW c \in Calls, Touches(c), Moves(c),
           UNCHANGED transactions, EntriesAreHeld(c)', ValuesAreFree(c)'
    PROVE  IndexInv'
<1>1. ASSUME NEW d \in Calls \ {c} PROVE EntriesAreHeld(d)' /\ ValuesAreFree(d)'
  <2>1. EntriesAreHeld(d)'
    BY OthersAreHeld
  <2>2. ValuesAreFree(d)'
    BY DEF IndexInv, ValuesAreFree, Moves, ById, ByKey
  <2>3. QED
    BY <2>1, <2>2
<1>2. RowsAreUnique'
    BY DEF IndexInv, RowsAreUnique
<1>3. QED
    BY <1>1, <1>2 DEF Typed, IndexInv

\* Every step of a call is Moves and Touches.
LEMMA StepFrame ==
    ASSUME Typed, NEW c \in Calls, Receive(c) \/ Step(c) \/ Fail(c)
    PROVE  Moves(c) /\ Touches(c)
<1> USE DEF entries
<1>1. CASE Receive(c)
  BY <1>1 DEF Receive, Respond, Goto, Moves, Touches, Typed, TypeOK
<1>2. CASE LookupMiss(c) \/ LookupHit(c) \/ RereadId(c) \/ RereadKey(c)
  BY <1>2 DEF LookupMiss, LookupHit, RereadId, RereadKey, Respond, Goto, Moves, Touches,
     Typed, TypeOK
<1>3. CASE InsertId(c) \/ InsertKey(c)
  BY <1>3 DEF InsertId, InsertKey, Goto, Moves, Touches, Typed, TypeOK
<1>4. CASE IdConflict(c) \/ KeyConflict(c) \/ Commit(c) \/ Fail(c)
  <2>1. EndTx(c) /\ UNCHANGED request
    BY <1>4 DEF IdConflict, KeyConflict, Commit, Fail
  <2>2. Touches(c)
    BY <2>1, EndTxFrame DEF Touches
  <2>3. Moves(c)
    BY <1>4, <2>1 DEF IdConflict, KeyConflict, Commit, Fail, Respond, Goto, Moves,
       Typed, TypeOK
  <2>4. QED
    BY <2>2, <2>3
<1>5. QED
  BY <1>1, <1>2, <1>3, <1>4 DEF Step

\* A call outside of its transaction holds nothing.
LEMMA HoldsNothing ==
    ASSUME Typed, NEW c \in Calls, EndTx(c)
    PROVE  /\ \A i \in Ids : idEntry'[i] # c
           /\ \A k \in Keys : keyEntry'[k] # c
BY EndTxFrame, NothingIsNone

\* The COMMIT adds a row whose id and key nobody has, and which the others in
\* their transactions do not want.
LEMMA CommitIndexed ==
    ASSUME Typed, Typed', IndexInv, NEW c \in Calls, Commit(c)
    PROVE  IndexInv'
<1> DEFINE row == request[c]
<1>1. /\ pc[c] = "commit" /\ transactions' = transactions \cup {row}
      /\ EndTx(c) /\ UNCHANGED request /\ pc'[c] = "done"
    BY DEF Commit, Respond, Goto, Typed, TypeOK
<1>2. /\ row \in Rows /\ row.id \in Ids /\ row.key \in Keys
      /\ ById(row.id) = {} /\ ByKey(row.key) = {}
      /\ idEntry[row.id] = c /\ keyEntry[row.key] = c
    BY <1>1, WorkingHasRow DEF IndexInv, EntriesAreHeld, ValuesAreFree
<1>3. Moves(c) /\ Touches(c)
    BY StepFrame DEF Step
<1>4. RowsAreUnique'
    BY <1>1, <1>2 DEF IndexInv, RowsAreUnique, ById, ByKey
<1>5. EntriesAreHeld(c)' /\ ValuesAreFree(c)'
    BY <1>1, HoldsNothing DEF EntriesAreHeld, ValuesAreFree
<1>6. ASSUME NEW d \in Calls \ {c} PROVE EntriesAreHeld(d)' /\ ValuesAreFree(d)'
  <2>1. EntriesAreHeld(d)'
    BY <1>3, OthersAreHeld
  <2>2. pc'[d] = pc[d] /\ request'[d] = request[d]
    BY <1>3 DEF Moves
  <2>3. pc[d] \in {"insertKey", "commit"} => request[d].id # row.id /\ request[d].id \in Ids
    BY <1>2, WorkingHasRow DEF IndexInv, EntriesAreHeld
  <2>4. pc[d] = "commit" => request[d].key # row.key /\ request[d].key \in Keys
    BY <1>2, WorkingHasRow DEF IndexInv, EntriesAreHeld
  <2>5. ValuesAreFree(d)'
    BY <1>1, <2>2, <2>3, <2>4 DEF IndexInv, ValuesAreFree, ById, ByKey
  <2>6. QED
    BY <2>1, <2>5
<1>7. QED
    BY <1>4, <1>5, <1>6 DEF Typed, IndexInv

\* Every step keeps the indexes.
LEMMA NextIndexed == Typed /\ IndexInv /\ [Next]_vars => IndexInv'
<1> SUFFICES ASSUME Typed, IndexInv, [Next]_vars PROVE IndexInv'
    OBVIOUS
<1>0. Typed'
    BY NextTyped
<1> USE DEF entries
<1>1. ASSUME NEW c \in Calls, Receive(c) \/ Step(c) \/ Fail(c) PROVE IndexInv'
  <2>1. Moves(c) /\ Touches(c)
    BY <1>1, StepFrame
  <2>2. CASE Receive(c)
    <3>1. pc[c] = "idle" /\ pc'[c] \in {"lookup", "done"}
      BY <2>2 DEF Receive, Respond, Goto, Typed, TypeOK
    <3>2. EntriesAreHeld(c)' /\ ValuesAreFree(c)'
      BY <2>2, <3>1 DEF Receive, IndexInv, EntriesAreHeld, ValuesAreFree
    <3>3. QED
      BY <1>0, <2>1, <2>2, <3>2, QuietStep DEF Receive
  <2>3. CASE LookupMiss(c) \/ LookupHit(c) \/ RereadId(c) \/ RereadKey(c)
    <3>1. /\ pc[c] \in {"lookup", "rereadId", "rereadKey"} /\ pc'[c] \in {"insertId", "done"}
          /\ UNCHANGED <<transactions, entries, request>>
      BY <2>3 DEF LookupMiss, LookupHit, RereadId, RereadKey, Respond, Goto, Typed, TypeOK
    <3>2. EntriesAreHeld(c)' /\ ValuesAreFree(c)'
      BY <3>1 DEF IndexInv, EntriesAreHeld, ValuesAreFree
    <3>3. QED
      BY <1>0, <2>1, <3>1, <3>2, QuietStep
  <2>4. CASE InsertId(c)
    <3>1. /\ pc[c] = "insertId" /\ pc'[c] = "insertKey"
          /\ UNCHANGED <<transactions, keyEntry, request>>
          /\ ById(request[c].id) = {}
          /\ \A i \in Ids : idEntry'[i] = IF i = request[c].id THEN c ELSE idEntry[i]
      BY <2>4 DEF InsertId, Goto, Typed, TypeOK
    <3>2. EntriesAreHeld(c)' /\ ValuesAreFree(c)'
      BY <3>1 DEF IndexInv, EntriesAreHeld, ValuesAreFree, ById
    <3>3. QED
      BY <1>0, <2>1, <3>1, <3>2, QuietStep
  <2>5. CASE InsertKey(c)
    <3>1. /\ pc[c] = "insertKey" /\ pc'[c] = "commit"
          /\ UNCHANGED <<transactions, idEntry, request>>
          /\ ByKey(request[c].key) = {}
          /\ \A k \in Keys : keyEntry'[k] = IF k = request[c].key THEN c ELSE keyEntry[k]
      BY <2>5 DEF InsertKey, Goto, Typed, TypeOK
    <3>2. EntriesAreHeld(c)' /\ ValuesAreFree(c)'
      BY <3>1 DEF IndexInv, EntriesAreHeld, ValuesAreFree, ById, ByKey
    <3>3. QED
      BY <1>0, <2>1, <3>1, <3>2, QuietStep
  <2>6. CASE IdConflict(c) \/ KeyConflict(c) \/ Fail(c)
    <3>1. /\ pc'[c] \in {"rereadId", "rereadKey", "done"} /\ EndTx(c)
          /\ pc'[c] = "rereadId" => ById(request[c].id) # {}
          /\ UNCHANGED <<transactions, request>>
      BY <2>6 DEF IdConflict, KeyConflict, Fail, Respond, Goto, Typed, TypeOK
    <3>2. EntriesAreHeld(c)' /\ ValuesAreFree(c)'
      BY <3>1, HoldsNothing DEF EntriesAreHeld, ValuesAreFree, ById
    <3>3. QED
      BY <1>0, <2>1, <3>1, <3>2, QuietStep
  <2>7. CASE Commit(c)
    BY <1>0, <2>7, CommitIndexed
  <2>8. QED
    BY <1>1, <2>2, <2>3, <2>4, <2>5, <2>6, <2>7 DEF Step
<1>2. ASSUME UNCHANGED vars PROVE IndexInv'
  BY <1>2 DEF vars, IndexInv, CallsInOrder, RowsAreUnique, EntriesAreHeld, ValuesAreFree,
     ById, ByKey
<1>3. QED
  BY <1>1, <1>2 DEF Next

(***************************************************************************)
(* The two unique indexes hold: no two rows share an id or a key, and who  *)
(* has entered a value keeps it until its transaction ends.                *)
(***************************************************************************)
THEOREM IndexesHold == Spec => []Inv
<1>1. Spec => [](Typed /\ IndexInv)
  BY InitTyped, InitIndexed, NextTyped, NextIndexed, PTL DEF Spec
<1>2. Typed /\ IndexInv => Inv
  BY DEF Typed, Inv
<1>3. QED
  BY <1>1, <1>2, PTL

-----------------------------------------------------------------------------
(***************************************************************************)
(* The answers.  Rows are never removed and a request never changes, so    *)
(* that what was true of an answer when it was given stays true of it.     *)
(***************************************************************************)
\* An answer "ok" has its row.
OkIsRecorded == \A c \in Calls : reply[c] = "ok" => request[c] \in transactions

\* What an answer says stays true as long as its call is left alone.
LEMMA AnswersStay ==
    ASSUME OkIsRecorded, ConflictIsReal, NEW c \in Calls, Moves(c),
           transactions \subseteq transactions'
    PROVE  \A d \in Calls \ {c} :
              /\ reply'[d] = "ok" => request'[d] \in transactions'
              /\ reply'[d] = "mismatch" =>
                    \E row \in transactions' : row.key = request'[d].key /\ row # request'[d]
              /\ reply'[d] = "id_conflict" =>
                    \E row \in transactions' : row.id = request'[d].id /\ row # request'[d]
BY DEF OkIsRecorded, ConflictIsReal, Moves

\* An answer given tells the truth.
LEMMA AnswerIsTrue ==
    ASSUME Typed, IndexInv, NEW c \in Calls, Receive(c) \/ Step(c) \/ Fail(c)
    PROVE  /\ transactions \subseteq transactions'
           /\ reply'[c] = "ok" => request'[c] \in transactions'
           /\ reply'[c] = "mismatch" =>
                 \E row \in transactions' : row.key = request'[c].key /\ row # request'[c]
           /\ reply'[c] = "id_conflict" =>
                 \E row \in transactions' : row.id = request'[c].id /\ row # request'[c]
<1> USE DEF entries
<1>0. pc[c] # "done" => reply[c] = None
    BY DEF IndexInv, CallsInOrder
<1>1. CASE Receive(c)
  <2>1. reply'[c] \in {"invalid", None} /\ UNCHANGED transactions
    BY <1>0, <1>1 DEF Receive, Respond, Typed, TypeOK
  <2>2. QED
    BY <2>1, NothingIsNone DEF Replies
<1>2. CASE LookupMiss(c) \/ InsertId(c) \/ IdConflict(c) \/ InsertKey(c) \/ KeyConflict(c)
  <2>1. reply'[c] = None /\ UNCHANGED transactions
    BY <1>0, <1>2 DEF LookupMiss, InsertId, IdConflict, InsertKey, KeyConflict
  <2>2. QED
    BY <2>1, NothingIsNone DEF Replies
<1>3. CASE LookupHit(c) \/ RereadKey(c)
  <2>1. /\ reply'[c] # "internal" => reply'[c] = Compare(c) /\ ByKey(request[c].key) # {}
        /\ UNCHANGED <<transactions, request>>
    BY <1>3 DEF LookupHit, RereadKey, Respond, Typed, TypeOK
  <2>2. QED
    BY <2>1, CompareIsReply DEF ByKey
<1>4. CASE RereadId(c)
  <2>1. /\ reply'[c] = IF request[c] \in ById(request[c].id) THEN "ok" ELSE "id_conflict"
        /\ UNCHANGED <<transactions, request>> /\ pc[c] = "rereadId"
    BY <1>4 DEF RereadId, Respond, Typed, TypeOK
  <2>2. ById(request[c].id) # {}
    BY <2>1 DEF IndexInv, ValuesAreFree
  <2>3. QED
    BY <2>1, <2>2 DEF ById
<1>5. CASE Commit(c) \/ Fail(c)
  <2>1. /\ reply'[c] \in {"ok", "internal"} /\ UNCHANGED request
        /\ transactions \subseteq transactions'
        /\ reply'[c] = "ok" => request[c] \in transactions'
    BY <1>5 DEF Commit, Fail, Respond, Typed, TypeOK
  <2>2. QED
    BY <2>1
<1>6. QED
  BY <1>1, <1>2, <1>3, <1>4, <1>5 DEF Step

\* What answers say is kept by every step.
LEMMA NextAnswers ==
    Typed /\ IndexInv /\ OkIsRecorded /\ ConflictIsReal /\ [Next]_vars
        => OkIsRecorded' /\ ConflictIsReal'
<1> SUFFICES ASSUME Typed, IndexInv, OkIsRecorded, ConflictIsReal, [Next]_vars
             PROVE  OkIsRecorded' /\ ConflictIsReal'
    OBVIOUS
<1>1. ASSUME NEW c \in Calls, Receive(c) \/ Step(c) \/ Fail(c)
      PROVE  OkIsRecorded' /\ ConflictIsReal'
  <2>1. Moves(c)
    BY <1>1, StepFrame
  <2>2. QED
    BY <1>1, <2>1, AnswersStay, AnswerIsTrue DEF OkIsRecorded, ConflictIsReal
<1>2. ASSUME UNCHANGED vars PROVE OkIsRecorded' /\ ConflictIsReal'
  BY <1>2 DEF vars, OkIsRecorded, ConflictIsReal
<1>3. QED
  BY <1>1, <1>2 DEF Next

\* Nothing is answered at the start.
LEMMA InitAnswers == Init => OkIsRecorded /\ ConflictIsReal
BY NothingIsNone DEF Init, OkIsRecorded, ConflictIsReal, Replies

\* A row in the table is the only one with its id or its key.
LEMMA RecordedIsAlone ==
    RowsAreUnique /\ OkIsRecorded => AcceptedIsRecorded
BY DEF RowsAreUnique, OkIsRecorded, AcceptedIsRecorded, ById, ByKey

(***************************************************************************)
(* Strict idempotency: whatever calls overlap, "ok" means that the row is  *)
(* in the table, and that it is the only one with its id or its key.       *)
(***************************************************************************)
THEOREM AcceptedRowsAreRecorded == Spec => []AcceptedIsRecorded
<1>1. Spec => [](Typed /\ IndexInv /\ OkIsRecorded /\ ConflictIsReal)
  BY InitTyped, InitIndexed, InitAnswers, NextTyped, NextIndexed, NextAnswers, PTL DEF Spec
<1>2. IndexInv /\ OkIsRecorded => AcceptedIsRecorded
  BY RecordedIsAlone DEF IndexInv
<1>3. QED
  BY <1>1, <1>2, PTL

(***************************************************************************)
(* A conflict is only ever reported when a different row holds the key, or *)
(* the id: no retry of a recorded row is refused.                          *)
(***************************************************************************)
THEOREM ConflictsAreReal == Spec => []ConflictIsReal
<1>1. Spec => [](Typed /\ IndexInv /\ OkIsRecorded /\ ConflictIsReal)
  BY InitTyped, InitIndexed, InitAnswers, NextTyped, NextIndexed, NextAnswers, PTL DEF Spec
<1>2. QED
  BY <1>1, PTL
=============================================================================
