---------------------------- MODULE SessionsProofs ----------------------------
(***************************************************************************)
(* Proofs about Registration and the Sessions that extend it, for every    *)
(* set of clients, emails and ids, every life of the tokens and every      *)
(* timeout: who may delete a user; that an account whose owner was told    *)
(* 201 is there for good; that the sessions keep all that; and that a      *)
(* deleted user is locked out.                                             *)
(***************************************************************************)
EXTENDS Sessions, TLAPS

\* What one client's handler does.
Act(c) ==
    \/ Submit(c) \/ RegisterUser(c) \/ EmailConflict(c)
    \/ CreateWallet(c) \/ DeleteUser(c) \/ GiveUp(c) \/ Abandon(c)

\* Nothing is not a status.
LEMMA NoneIsNoStatus == None \notin Statuses /\ 201 \in Statuses
BY NoneAssumption DEF Statuses

\* The types and the accounts are in order at the start.
LEMMA InitInv == Init => Inv
<1> SUFFICES ASSUME Init PROVE Inv
    OBVIOUS
<1>1. TypeOK
    BY DEF Init, TypeOK
<1>2. AccountInv
    BY NoneIsNoStatus DEF Init, AccountInv, IdsAreOwn, HandlerInOrder, Calling
<1>3. QED
    BY <1>1, <1>2 DEF Inv

\* A handler that has an id has one that was issued.
LEMMA HeldIsIssued ==
    ASSUME Inv, NEW c \in Clients, user[c] # None
    PROVE  user[c] \in issued /\ user[c] \in Ids
BY DEF Inv, TypeOK, AccountInv, IdsAreOwn

\* What is left behind by a handler: its outstanding call at most.
LEMMA OrphanFields ==
    ASSUME Inv, NEW c \in Clients, pc[c] \in Calling, NEW o \in Orphan(c)
    PROVE  /\ o \in [stage : Calling, user : Ids \cup {None}, email : Emails]
           /\ o.stage = pc[c] /\ o.user = user[c]
BY DEF Orphan, Inv, TypeOK, AccountInv, HandlerInOrder

-----------------------------------------------------------------------------
\* An INSERT into users keeps the types of the tables.
LEMMA InsertTypes ==
    ASSUME Inv, NEW i \in Ids, NEW e \in Emails, InsertUser(i, e)
    PROVE  /\ users' \in [Ids -> Emails \cup {None}]
           /\ issued' \subseteq Ids /\ wallets' \subseteq Ids
BY DEF InsertUser, Inv, TypeOK

\* An answer keeps the types of the handler's variables.
LEMMA RespondTypes ==
    ASSUME Inv, NEW c \in Clients, NEW code \in Statuses \cup {None}, NEW undone \in BOOLEAN,
           Respond(c, code, undone)
    PROVE  /\ pc' \in [Clients -> Calling \cup {"idle", "done"}]
           /\ call' \in [Clients -> {"none", "sent", "lost"}]
           /\ status' \in [Clients -> Statuses \cup {None}]
           /\ rolledBack' \in [Clients -> BOOLEAN]
BY DEF Respond, Inv, TypeOK

\* So do the next call of a handler and the loss of an answer.
LEMMA SendTypes ==
    ASSUME Inv, NEW c \in Clients, Lose(c) \/ \E stage \in Calling : Send(c, stage)
    PROVE  /\ pc' \in [Clients -> Calling \cup {"idle", "done"}]
           /\ call' \in [Clients -> {"none", "sent", "lost"}]
           /\ status' \in [Clients -> Statuses \cup {None}]
           /\ rolledBack' \in [Clients -> BOOLEAN]
BY DEF Lose, Send, Inv, TypeOK

\* No step leaves the types.
LEMMA NextTypes == Inv /\ [Next]_vars => TypeOK'
<1> SUFFICES ASSUME Inv, [Next]_vars PROVE TypeOK'
    OBVIOUS
<1>0. TypeOK
    BY DEF Inv
<1> USE DEF tables
<1>1. ASSUME NEW c \in Clients, Submit(c) PROVE TypeOK'
  <2>1. email' \in [Clients -> Emails \cup {None}]
    BY <1>0, <1>1 DEF Submit, TypeOK
  <2>2. QED
    BY <1>0, <1>1, <2>1 DEF Submit, TypeOK, Calling
<1>2. ASSUME NEW c \in Clients, RegisterUser(c) PROVE TypeOK'
  <2>1. PICK i \in Ids : /\ InsertUser(i, email[c])
                         /\ \/ Send(c, "createWallet") /\ user' = [user EXCEPT ![c] = i]
                            \/ Lose(c) /\ UNCHANGED user
    BY <1>2 DEF RegisterUser
  <2>2. email[c] \in Emails /\ "createWallet" \in Calling
    BY <1>2 DEF RegisterUser, Awaits, Inv, AccountInv, HandlerInOrder, Calling
  <2>3. user' \in [Clients -> Ids \cup {None}]
    BY <1>0, <2>1 DEF TypeOK
  <2>4. QED
    BY <1>0, <1>2, <2>1, <2>2, <2>3, InsertTypes, SendTypes DEF RegisterUser, TypeOK
<1>3. ASSUME NEW c \in Clients, EmailConflict(c) PROVE TypeOK'
  <2>1. Respond(c, 409, FALSE) \/ Lose(c)
    BY <1>3 DEF EmailConflict
  <2>2. 409 \in Statuses
    BY DEF Statuses
  <2>3. QED
    BY <1>0, <1>3, <2>1, <2>2, RespondTypes, SendTypes DEF EmailConflict, TypeOK
<1>4. ASSUME NEW c \in Clients, CreateWallet(c) PROVE TypeOK'
  <2>1. (\E code \in Statuses : Respond(c, code, FALSE)) \/ Lose(c)
    BY <1>4 DEF CreateWallet, Statuses, Respond, Lose
  <2>2. user[c] \in Ids
    BY <1>4, HeldIsIssued DEF CreateWallet, Awaits, Inv, AccountInv, HandlerInOrder
  <2>3. QED
    BY <1>0, <1>4, <2>1, <2>2, RespondTypes, SendTypes DEF CreateWallet, TypeOK
<1>5. ASSUME NEW c \in Clients, DeleteUser(c) PROVE TypeOK'
  <2>1. (\E code \in Statuses : Respond(c, code, TRUE)) \/ Lose(c)
    BY <1>5 DEF DeleteUser, RespondRolledBack, Statuses, Respond, Lose
  <2>2. users' \in [Ids -> Emails \cup {None}]
    BY <1>0, <1>5 DEF DeleteUser, TypeOK
  <2>3. QED
    BY <1>0, <1>5, <2>1, <2>2, RespondTypes, SendTypes DEF DeleteUser, TypeOK
<1>6. ASSUME NEW c \in Clients, GiveUp(c) \/ Abandon(c) PROVE TypeOK'
  <2>1. pc[c] \in Calling /\ orphans' = orphans \cup Orphan(c)
        /\ UNCHANGED <<users, issued, wallets, email, user>>
    BY <1>6 DEF GiveUp, Abandon, Calling
  <2>2. orphans' \subseteq [stage : Calling, user : Ids \cup {None}, email : Emails]
    BY <1>0, <2>1, OrphanFields DEF TypeOK
  <2>3. ASSUME NEW code \in Statuses \cup {None}, NEW undone \in BOOLEAN,
               Respond(c, code, undone)
        PROVE  TypeOK'
    BY <1>0, <2>1, <2>2, <2>3, RespondTypes DEF TypeOK
  <2>4. CASE Send(c, "deleteUser")
    BY <1>0, <2>1, <2>2, <2>4, SendTypes DEF TypeOK, Calling
  <2>5. QED
    <3>1. CASE \E code \in {502, 503, 504} : Respond(c, code, FALSE)
      <4>1. PICK code \in {502, 503, 504} : Respond(c, code, FALSE)
        BY <3>1
      <4>2. code \in Statuses
        BY <4>1 DEF Statuses
      <4>3. QED
        BY <2>3, <4>1, <4>2
    <3>2. CASE RespondRolledBack(c)
      <4>1. PICK code \in {502, 503, 504} : Respond(c, code, TRUE)
        BY <3>2 DEF RespondRolledBack
      <4>2. code \in Statuses
        BY <4>1 DEF Statuses
      <4>3. QED
        BY <2>3, <4>1, <4>2
    <3>3. CASE Respond(c, None, FALSE)
      BY <2>3, <3>3
    <3>4. QED
      BY <1>6, <2>4, <3>1, <3>2, <3>3 DEF GiveUp, Abandon
<1>7. ASSUME NEW o \in orphans, Late(o) PROVE TypeOK'
  <2>1. /\ o.email \in Emails
        /\ o.stage = "createWallet" => o.user \in Ids
    BY <1>0 DEF TypeOK, Inv, AccountInv, IdsAreOwn
  <2>2. /\ users' \in [Ids -> Emails \cup {None}]
        /\ issued' \subseteq Ids /\ wallets' \subseteq Ids
    <3>1. CASE \E i \in Ids : InsertUser(i, o.email)
      BY <2>1, <3>1, InsertTypes
    <3>2. CASE o.stage = "createWallet" /\ wallets' = wallets \cup {o.user}
               /\ UNCHANGED <<users, issued>>
      BY <1>0, <2>1, <3>2 DEF TypeOK
    <3>3. CASE users' = [users EXCEPT ![o.user] = None] /\ UNCHANGED <<issued, wallets>>
      BY <1>0, <3>3 DEF TypeOK
    <3>4. CASE UNCHANGED <<users, issued, wallets>>
      BY <1>0, <3>4 DEF TypeOK
    <3>5. QED
      BY <1>7, <3>1, <3>2, <3>3, <3>4 DEF Late
  <2>3. QED
    BY <1>0, <1>7, <2>2 DEF Late, TypeOK
<1>8. ASSUME UNCHANGED vars PROVE TypeOK'
  BY <1>0, <1>8 DEF vars, TypeOK
<1>9. QED
  BY <1>1, <1>2, <1>3, <1>4, <1>5, <1>6, <1>7, <1>8 DEF Next

-----------------------------------------------------------------------------
(***************************************************************************)
(* The accounts.  A step of one handler leaves the others where they are,  *)
(* and touches no user but its own.                                        *)
(***************************************************************************)
Spares(c) ==
    /\ \A d \in Clients \ {c} : /\ pc'[d] = pc[d] /\ email'[d] = email[d]
                                /\ user'[d] = user[d] /\ status'[d] = status[d]
    /\ \A i \in issued : i # user[c] => users'[i] = users[i]
    /\ wallets \subseteq wallets'
    /\ issued \subseteq issued'
    /\ \A o \in orphans' \ orphans :
          o.stage # "register" => user[c] # None /\ o.user = user[c]

\* Every action of a handler is such a step.
LEMMA ActSpares ==
    ASSUME Inv, NEW c \in Clients, Act(c)
    PROVE  Spares(c)
<1> USE DEF Spares, tables, Inv, TypeOK
<1>1. CASE Submit(c)
  BY <1>1 DEF Submit
<1>2. CASE RegisterUser(c)
  <2>1. PICK i \in Ids : /\ InsertUser(i, email[c])
                         /\ \/ Send(c, "createWallet") /\ user' = [user EXCEPT ![c] = i]
                            \/ Lose(c) /\ UNCHANGED user
    BY <1>2 DEF RegisterUser
  <2>2. QED
    BY <1>2, <2>1 DEF RegisterUser, InsertUser, Send, Lose
<1>3. CASE EmailConflict(c)
  BY <1>3 DEF EmailConflict, Respond, Lose
<1>4. CASE CreateWallet(c)
  BY <1>4 DEF CreateWallet, Respond, Lose
<1>5. CASE DeleteUser(c)
  BY <1>5 DEF DeleteUser, RespondRolledBack, Respond, Lose
<1>6. CASE GiveUp(c) \/ Abandon(c)
  <2>1. pc[c] \in Calling /\ orphans' = orphans \cup Orphan(c)
        /\ UNCHANGED <<users, issued, wallets, email, user>>
    BY <1>6 DEF GiveUp, Abandon, Calling
  <2>2. \A d \in Clients \ {c} : pc'[d] = pc[d] /\ status'[d] = status[d]
    BY <1>6 DEF GiveUp, Abandon, RespondRolledBack, Respond, Send, Calling
  <2>3. \A o \in Orphan(c) : o.stage # "register" => user[c] # None /\ o.user = user[c]
    BY <2>1, OrphanFields DEF AccountInv, HandlerInOrder, Calling
  <2>4. QED
    BY <2>1, <2>2, <2>3
<1>7. QED
  BY <1>1, <1>2, <1>3, <1>4, <1>5, <1>6 DEF Act

\* What AccountInv says of one client.
Account(c) ==
    /\ HandlerInOrder(c)
    /\ pc[c] = "createWallet" \/ status[c] = 201 => UserIsKept(c)
    /\ status[c] = 201 => user[c] \in wallets

\* A step of client c leaves the accounts of the others.
LEMMA OthersKeepAccounts ==
    ASSUME Inv, NEW c \in Clients, Spares(c), NEW d \in Clients \ {c}
    PROVE  Account(d)'
<1>1. HandlerInOrder(d)'
    BY DEF Inv, AccountInv, HandlerInOrder, Spares
<1>2. ASSUME pc'[d] = "createWallet" \/ status'[d] = 201 PROVE UserIsKept(d)'
  <2>1. UserIsKept(d) /\ user'[d] = user[d] /\ email'[d] = email[d]
    BY <1>2 DEF Inv, AccountInv, Spares
  <2>2. user[d] \in issued /\ user[d] # user[c]
    BY <2>1, HeldIsIssued DEF UserIsKept, Inv, AccountInv, IdsAreOwn
  <2>3. users'[user[d]] = users[user[d]]
    BY <2>2 DEF Spares
  <2>4. \A o \in orphans' : o.stage = "deleteUser" => o.user # user[d]
    BY <2>1, <2>2 DEF UserIsKept, Spares
  <2>5. QED
    BY <2>1, <2>3, <2>4 DEF UserIsKept
<1>3. status'[d] = 201 => user'[d] \in wallets'
    BY DEF Inv, AccountInv, Spares
<1>4. QED
    BY <1>1, <1>2, <1>3 DEF Account

\* An id that the handler keeps stays its own.
LEMMA IdsStayOwn ==
    ASSUME Inv, NEW c \in Clients, Spares(c), user'[c] \in {user[c], None}
    PROVE  IdsAreOwn'
<1>1. \A d \in Clients : user'[d] \in {user[d], None}
    BY DEF Spares
<1>2. \A o \in orphans' : o.stage # "register" => o.user \in issued'
    BY HeldIsIssued DEF Inv, AccountInv, IdsAreOwn, Spares
<1>3. QED
    BY <1>1, <1>2 DEF Inv, AccountInv, IdsAreOwn, Spares

\* No action of a handler breaks an account.
LEMMA ActKeepsAccounts ==
    ASSUME Inv, NEW c \in Clients, Act(c)
    PROVE  AccountInv'
<1>0. Spares(c) /\ TypeOK
    BY ActSpares DEF Inv
<1> USE DEF tables
<1>1. SUFFICES Account(c)' /\ IdsAreOwn'
    BY <1>0, OthersKeepAccounts DEF AccountInv, Account
<1>2. CASE Submit(c)
  <2>1. /\ pc'[c] = "register" /\ status'[c] = None /\ user'[c] = None
        /\ email'[c] \in Emails
    BY <1>0, <1>2 DEF Submit, TypeOK
  <2>2. Account(c)'
    BY <2>1, NoneIsNoStatus DEF Account, HandlerInOrder
  <2>3. QED
    BY <1>0, <2>1, <2>2, IdsStayOwn
<1>3. CASE RegisterUser(c)
  <2>1. PICK i \in Ids : /\ InsertUser(i, email[c])
                         /\ \/ Send(c, "createWallet") /\ user' = [user EXCEPT ![c] = i]
                            \/ Lose(c) /\ UNCHANGED user
    BY <1>3 DEF RegisterUser
  <2>2. /\ pc[c] = "register" /\ user[c] = None /\ status[c] = None /\ email[c] \in Emails
        /\ UNCHANGED <<email, orphans>>
    BY <1>3 DEF RegisterUser, Awaits, Inv, AccountInv, HandlerInOrder, Calling
  <2>3. /\ i \notin issued /\ issued' = issued \cup {i} /\ users'[i] = email[c]
        /\ i # None
    BY <1>0, <2>1, NoneAssumption DEF InsertUser, TypeOK
  <2>4. CASE Send(c, "createWallet") /\ user' = [user EXCEPT ![c] = i]
    <3>1. pc'[c] = "createWallet" /\ user'[c] = i /\ status'[c] = None
      BY <1>0, <2>2, <2>4 DEF Send, TypeOK
    <3>2. \A o \in orphans' : o.stage = "deleteUser" => o.user # i
      BY <2>2, <2>3 DEF Inv, AccountInv, IdsAreOwn
    <3>3. Account(c)'
      BY <2>2, <2>3, <3>1, <3>2, NoneIsNoStatus DEF Account, HandlerInOrder, UserIsKept
    <3>4. IdsAreOwn'
      BY <1>0, <2>2, <2>3, <3>1 DEF Spares, Inv, AccountInv, IdsAreOwn
    <3>5. QED
      BY <3>3, <3>4
  <2>5. CASE Lose(c) /\ UNCHANGED user
    <3>1. IdsAreOwn'
      BY <1>0, <2>5, IdsStayOwn
    <3>2. Account(c)'
      BY <2>2, <2>5, NoneIsNoStatus DEF Lose, Account, HandlerInOrder
    <3>3. QED
      BY <3>1, <3>2
  <2>6. QED
    BY <2>1, <2>4, <2>5
<1>4. CASE EmailConflict(c)
  <2>1. /\ pc[c] = "register" /\ status[c] = None /\ UNCHANGED <<email, user>>
        /\ user[c] = None /\ email[c] \in Emails
    BY <1>4 DEF EmailConflict, Awaits, Inv, AccountInv, HandlerInOrder, Calling
  <2>2. \/ pc'[c] = "done" /\ status'[c] = 409
        \/ pc'[c] = "register" /\ status'[c] = None
    BY <1>0, <1>4, <2>1 DEF EmailConflict, Respond, Lose, TypeOK
  <2>3. Account(c)'
    BY <2>1, <2>2, NoneIsNoStatus DEF Account, HandlerInOrder, Calling
  <2>4. QED
    BY <1>0, <2>1, <2>3, IdsStayOwn
<1>5. CASE CreateWallet(c)
  <2>1. /\ pc[c] = "createWallet" /\ status[c] = None
        /\ UNCHANGED <<users, email, user, orphans>>
        /\ UserIsKept(c) /\ email[c] \in Emails /\ user[c] # None
    BY <1>5 DEF CreateWallet, Awaits, Inv, AccountInv, HandlerInOrder, Calling
  <2>2. \/ pc'[c] = "done"
        \/ pc'[c] = "createWallet" /\ status'[c] = None
    BY <1>0, <1>5, <2>1 DEF CreateWallet, Respond, Lose, TypeOK
  <2>3. UserIsKept(c)' /\ user'[c] \in wallets'
    BY <1>5, <2>1 DEF CreateWallet, UserIsKept
  <2>4. Account(c)'
    BY <2>1, <2>2, <2>3, NoneIsNoStatus DEF Account, HandlerInOrder, Calling
  <2>5. QED
    BY <1>0, <2>1, <2>4, IdsStayOwn
<1>6. CASE DeleteUser(c)
  <2>1. /\ pc[c] = "deleteUser" /\ status[c] = None /\ UNCHANGED <<email, user>>
        /\ email[c] \in Emails /\ user[c] # None
    BY <1>6 DEF DeleteUser, Awaits, Inv, AccountInv, HandlerInOrder, Calling
  <2>2. \/ pc'[c] = "done" /\ status'[c] \in {502, 503, 504}
        \/ pc'[c] = "deleteUser" /\ status'[c] = None
    BY <1>0, <1>6, <2>1 DEF DeleteUser, RespondRolledBack, Respond, Lose, TypeOK
  <2>3. Account(c)'
    BY <2>1, <2>2, NoneIsNoStatus DEF Account, HandlerInOrder, Calling
  <2>4. QED
    BY <1>0, <2>1, <2>3, IdsStayOwn
<1>7. CASE GiveUp(c) \/ Abandon(c)
  <2>1. /\ pc[c] \in Calling /\ status[c] = None /\ UNCHANGED <<email, user>>
        /\ email[c] \in Emails
        /\ pc[c] # "register" => user[c] # None
    BY <1>7 DEF GiveUp, Abandon, Inv, AccountInv, HandlerInOrder, Calling
  <2>2. \/ pc'[c] = "done" /\ status'[c] # 201
        \/ pc[c] = "createWallet" /\ pc'[c] = "deleteUser" /\ status'[c] = None
    BY <1>0, <1>7, <2>1, NoneIsNoStatus
       DEF GiveUp, Abandon, RespondRolledBack, Respond, Send, TypeOK, Calling
  <2>3. Account(c)'
    BY <2>1, <2>2, NoneIsNoStatus DEF Account, HandlerInOrder, Calling
  <2>4. QED
    BY <1>0, <2>1, <2>3, IdsStayOwn
<1>8. QED
  BY <1>2, <1>3, <1>4, <1>5, <1>6, <1>7 DEF Act

\* An orphan deletes nobody whose account is to be kept, and a late Register
\* draws an id that nobody has.
LEMMA LateKeepsAccounts ==
    ASSUME Inv, NEW o \in orphans, Late(o)
    PROVE  AccountInv'
<1> USE DEF tables
<1>0. /\ TypeOK /\ AccountInv
      /\ orphans' = orphans \ {o}
      /\ UNCHANGED <<email, pc, status, user>>
    BY DEF Late, Inv
<1>1. wallets \subseteq wallets' /\ issued \subseteq issued'
    BY DEF Late, InsertUser
<1>2. ASSUME NEW i \in issued, o.stage = "deleteUser" => o.user # i
      PROVE  users'[i] = users[i]
    BY <1>0, <1>2 DEF Late, InsertUser, TypeOK
<1>3. IdsAreOwn'
    BY <1>0, <1>1 DEF AccountInv, IdsAreOwn
<1>4. ASSUME NEW c \in Clients PROVE Account(c)'
  <2>1. HandlerInOrder(c)'
    BY <1>0 DEF AccountInv, HandlerInOrder
  <2>2. UserIsKept(c) => UserIsKept(c)'
    BY <1>0, <1>2, HeldIsIssued DEF UserIsKept
  <2>3. QED
    BY <1>0, <1>1, <2>1, <2>2 DEF AccountInv, Account
<1>5. QED
  BY <1>3, <1>4 DEF AccountInv, Account

\* Every step keeps the types and the accounts.
LEMMA NextInv == Inv /\ [Next]_vars => Inv'
<1> SUFFICES ASSUME Inv, [Next]_vars PROVE Inv'
    OBVIOUS
<1>1. TypeOK'
    BY NextTypes
<1>2. ASSUME NEW c \in Clients, Act(c) PROVE AccountInv'
    BY <1>2, ActKeepsAccounts
<1>3. ASSUME NEW o \in orphans, Late(o) PROVE AccountInv'
    BY <1>3, LateKeepsAccounts
<1>4. ASSUME UNCHANGED vars PROVE AccountInv'
    BY <1>4 DEF vars, tables, Inv, AccountInv, IdsAreOwn, HandlerInOrder, UserIsKept
<1>5. AccountInv'
    BY <1>2, <1>3, <1>4 DEF Next, Act
<1>6. QED
    BY <1>1, <1>5 DEF Inv

(***************************************************************************)
(* The tables, the handlers and the orphaned calls keep their types.       *)
(***************************************************************************)
THEOREM TypeCorrect == Spec => []TypeOK
<1>1. Spec => []Inv
  BY InitInv, NextInv, PTL DEF Spec
<1>2. Inv => TypeOK
  BY DEF Inv
<1>3. QED
  BY <1>1, <1>2, PTL

(***************************************************************************)
(* A user whose wallet is being made, or whose owner was told 201, is not  *)
(* deleted by any call under way.                                          *)
(***************************************************************************)
THEOREM DeletionsAreOwn == Spec => []AccountInv
<1>1. Spec => []Inv
  BY InitInv, NextInv, PTL DEF Spec
<1>2. Inv => AccountInv
  BY DEF Inv
<1>3. QED
  BY <1>1, <1>2, PTL

(***************************************************************************)
(* Who was told 201 has a user and a wallet for good, whatever late calls  *)
(* of this or other registrations do.                                      *)
(***************************************************************************)
THEOREM RegisteredForGood == Spec => []RegisteredIsComplete
<1>1. AccountInv => RegisteredIsComplete
  BY DEF AccountInv, UserIsKept, RegisteredIsComplete
<1>2. QED
  BY <1>1, DeletionsAreOwn, PTL

-----------------------------------------------------------------------------
\* The sessions.

\* A step about the sessions of one user.
SessionStep(i) == Login(i) \/ Refresh(i) \/ SignIn(i) \/ SignInFails(i)

\* Registration does not notice the sessions.
LEMMA SessionsKeepRegistration == [SessionsNext]_allVars => [Next]_vars
BY DEF SessionsNext, allVars, RegistrationStep, Login, Refresh, SignIn, SignInFails, Tick

-----------------------------------------------------------------------------
\* A row is inserted under an id that was not issued, and rows come in no other
\* way.
LEMMA RowsAreNew ==
    ASSUME Inv, Next
    PROVE  /\ issued \subseteq issued'
           /\ \A i \in Ids : /\ i \in issued /\ users[i] = None => users'[i] = None
                             /\ users[i] = None /\ users'[i] # None => i \in issued'
<1> USE DEF tables, Inv, TypeOK
<1>1. ASSUME NEW j \in Ids, NEW e \in Emails, InsertUser(j, e) PROVE
         /\ issued \subseteq issued'
         /\ \A i \in Ids : /\ i \in issued /\ users[i] = None => users'[i] = None
                           /\ users[i] = None /\ users'[i] # None => i \in issued'
  BY <1>1 DEF InsertUser
<1>2. ASSUME NEW c \in Clients, RegisterUser(c) PROVE
         \E j \in Ids, e \in Emails : InsertUser(j, e)
  BY <1>2 DEF RegisterUser, AccountInv, HandlerInOrder, Calling, Awaits
<1>3. ASSUME NEW c \in Clients, DeleteUser(c) PROVE
         issued' = issued /\ \E j \in Ids \cup {None} : users' = [users EXCEPT ![j] = None]
  BY <1>3 DEF DeleteUser
<1>4. ASSUME NEW c \in Clients, Submit(c) \/ EmailConflict(c) \/ CreateWallet(c)
                                  \/ GiveUp(c) \/ Abandon(c)
      PROVE  UNCHANGED <<users, issued>>
  BY <1>4 DEF Submit, EmailConflict, CreateWallet, GiveUp, Abandon
<1>5. ASSUME NEW o \in orphans, Late(o) PROVE
         \/ \E j \in Ids, e \in Emails : InsertUser(j, e)
         \/ issued' = issued /\ \E j \in Ids \cup {None} : users' = [users EXCEPT ![j] = None]
         \/ UNCHANGED <<users, issued>>
  BY <1>5 DEF Late
<1>6. ASSUME issued' = issued, NEW j \in Ids \cup {None}, users' = [users EXCEPT ![j] = None]
      PROVE  \A i \in Ids : users[i] = None => users'[i] = None
  BY <1>6
<1>7. QED
  BY <1>1, <1>2, <1>3, <1>4, <1>5, <1>6 DEF Next

\* Who is told 201 has a user at that moment.
LEMMA RegisteredHasUser ==
    ASSUME Inv, Next, NEW c \in Clients, Registers(c)
    PROVE  user[c] \in Ids /\ users[user[c]] # None
<1>1. pc[c] = "createWallet"
  <2> USE DEF Registers, Inv, TypeOK
  <2>1. ASSUME NEW d \in Clients, Act(d) PROVE d = c /\ CreateWallet(c)
    <3>1. d = c
      BY <2>1, ActSpares DEF Spares
    <3>2. ~Submit(c)
      BY NoneIsNoStatus DEF Submit
    <3>3. ~RegisterUser(c)
      BY DEF RegisterUser, Send, Lose
    <3>4. ~EmailConflict(c)
      BY DEF EmailConflict, Respond, Lose
    <3>5. ~DeleteUser(c)
      BY DEF DeleteUser, RespondRolledBack, Respond, Lose
    <3>6. ~GiveUp(c)
      BY DEF GiveUp, RespondRolledBack, Respond, Send
    <3>7. ~Abandon(c)
      BY NoneIsNoStatus DEF Abandon, Respond
    <3>8. QED
      BY <2>1, <3>1, <3>2, <3>3, <3>4, <3>5, <3>6, <3>7 DEF Act
  <2>2. ASSUME NEW o \in orphans, Late(o) PROVE FALSE
    BY <2>2 DEF Late
  <2>3. PICK d \in Clients : Act(d)
    BY <2>2 DEF Next, Act
  <2>4. CreateWallet(c)
    BY <2>1, <2>3
  <2>5. QED
    BY <2>4 DEF CreateWallet, Awaits
<1>2. UserIsKept(c) /\ user[c] # None /\ email[c] \in Emails
  BY <1>1 DEF Inv, AccountInv, HandlerInOrder, Calling
<1>3. QED
  BY <1>2, NoneAssumption DEF UserIsKept, Inv, TypeOK

-----------------------------------------------------------------------------
\* No session and no user at the start.
LEMMA InitSessions == SessionsInit => SessionsInv
BY SessionsAssumption
   DEF SessionsInit, Init, SessionsInv, SessionsTypeOK, LockoutInv, NoTokens, Horizon

\* A step of Registration.
LEMMA RegistrationKeepsSessions ==
    ASSUME Inv, SessionsInv, RegistrationStep
    PROVE  SessionsInv'
<1> USE SessionsAssumption DEF SessionsInv
<1>1. /\ Next
      /\ life' \in [Followed -> [access : 0 .. AccessTTL, refresh : 0 .. RefreshTTL]]
      /\ read' = read
      /\ gone' \in [Followed -> (0 .. Horizon) \cup {None}]
  BY DEF RegistrationStep, SessionsTypeOK, TokenPair, Horizon
<1>2. \A i \in Ids : users'[i] # None => i \in issued'
  BY <1>1, RowsAreNew DEF LockoutInv
<1>3. ASSUME NEW i \in Followed, gone'[i] # None
      PROVE  /\ users'[i] = None /\ i \in issued'
             /\ read'[i] # None => gone'[i] <= read'[i]
             /\ life'[i].access + gone'[i] <= Horizon
  <2>0. /\ life'[i] \in [access : 0 .. AccessTTL, refresh : 0 .. RefreshTTL]
        /\ read[i] \in (0 .. Lag) \cup {None} /\ read'[i] = read[i]
    BY <1>1 DEF SessionsTypeOK
  <2>1. CASE users[i] # None /\ users'[i] = None
    <3>1. gone'[i] = 0
      BY <2>1 DEF RegistrationStep
    <3>2. i \in issued'
      BY <1>1, <2>1, RowsAreNew DEF LockoutInv
    <3>3. QED
      BY <2>0, <2>1, <3>1, <3>2 DEF Horizon
  <2>2. CASE ~(users[i] # None /\ users'[i] = None)
    <3>1. gone'[i] = gone[i]
      BY <2>2 DEF RegistrationStep
    <3>2. users[i] = None /\ i \in issued
      BY <1>3, <3>1 DEF LockoutInv
    <3>3. users'[i] = None /\ i \in issued'
      BY <1>1, <3>2, RowsAreNew
    <3>4. life'[i] = life[i]
      BY <1>1, <3>2, RegisteredHasUser DEF RegistrationStep
    <3>5. QED
      BY <1>3, <2>0, <3>1, <3>3, <3>4 DEF LockoutInv
  <2>3. QED
    BY <2>1, <2>2
<1>4. QED
  BY <1>1, <1>2, <1>3 DEF SessionsTypeOK, LockoutInv

\* A handler signs a user in or reads its row.
LEMMA SessionStepKeepsSessions ==
    ASSUME SessionsInv, NEW i \in Followed, SessionStep(i)
    PROVE  SessionsInv'
<1> USE SessionsAssumption DEF SessionsInv, vars
<1>0. /\ TokenPair \in [access : 0 .. AccessTTL, refresh : 0 .. RefreshTTL]
      /\ 0 \in 0 .. Lag
  BY DEF TokenPair
<1>1. SessionsTypeOK'
  <2>1. gone' = gone /\ gone \in [Followed -> (0 .. Horizon) \cup {None}]
    BY DEF SessionStep, Login, Refresh, SignIn, SignInFails, SessionsTypeOK
  <2>2. read' \in [Followed -> (0 .. Lag) \cup {None}]
    BY <1>0 DEF SessionStep, Login, Refresh, SignIn, SignInFails, SessionsTypeOK
  <2>3. life' \in [Followed -> [access : 0 .. AccessTTL, refresh : 0 .. RefreshTTL]]
    <3>1. life' = life \/ life' = [life EXCEPT ![i] = TokenPair]
      BY DEF SessionStep, Login, Refresh, SignIn, SignInFails
    <3>2. QED
      BY <1>0, <3>1 DEF SessionsTypeOK
  <2>4. QED
    BY <2>1, <2>2, <2>3 DEF SessionsTypeOK, Horizon
<1>2. /\ UNCHANGED <<users, issued, gone>>
      /\ \A j \in Followed \ {i} : read'[j] = read[j] /\ life'[j] = life[j]
  BY DEF SessionStep, Login, Refresh, SignIn, SignInFails, SessionsTypeOK
<1>3. ASSUME gone[i] # None
      PROVE  /\ read'[i] # None => gone[i] <= read'[i]
             /\ life'[i].access + gone[i] <= Horizon
  <2>1. /\ users[i] = None
        /\ read[i] # None => gone[i] <= read[i]
        /\ life[i].access + gone[i] <= Horizon
    BY <1>3 DEF LockoutInv
  <2>2. CASE SignIn(i)
    <3>1. read[i] \in 0 .. Lag /\ gone[i] \in Nat /\ gone[i] <= read[i]
      BY <1>3, <2>1, <2>2 DEF SignIn, SessionsTypeOK
    <3>2. life'[i].access = AccessTTL /\ read'[i] = None
      BY <2>2 DEF SignIn, SessionsTypeOK, TokenPair
    <3>3. QED
      BY <3>1, <3>2 DEF Horizon
  <2>3. CASE SignInFails(i)
    BY <2>1, <2>3 DEF SignInFails, SessionsTypeOK
  <2>4. ~Login(i) /\ ~Refresh(i)
    BY <2>1, NoneAssumption DEF Login, Refresh, GetByEmail, GetByID
  <2>5. QED
    BY <2>2, <2>3, <2>4 DEF SessionStep
<1>4. QED
  BY <1>1, <1>2, <1>3 DEF LockoutInv

\* Time passes.
LEMMA TickKeepsSessions ==
    ASSUME SessionsInv, Tick
    PROVE  SessionsInv'
<1> USE SessionsAssumption DEF SessionsInv, vars
<1>1. SessionsTypeOK'
  <2>1. ASSUME NEW n \in Nat, NEW k \in 0 .. n PROVE Aged(k) \in 0 .. n
    BY DEF Aged
  <2>2. life' \in [Followed -> [access : 0 .. AccessTTL, refresh : 0 .. RefreshTTL]]
    BY <2>1 DEF Tick, SessionsTypeOK
  <2>3. read' \in [Followed -> (0 .. Lag) \cup {None}]
    BY DEF Tick, SessionsTypeOK
  <2>4. Horizon \in Nat
    BY DEF Horizon
  <2>5. gone' \in [Followed -> (0 .. Horizon) \cup {None}]
    <3>1. ASSUME NEW i \in Followed
          PROVE  (IF gone[i] \in {None, Horizon} THEN gone[i] ELSE gone[i] + 1)
                     \in (0 .. Horizon) \cup {None}
      <4>1. gone[i] = None \/ gone[i] \in 0 .. Horizon
        BY DEF SessionsTypeOK
      <4>2. QED
        BY <2>4, <4>1
    <3>2. QED
      BY <3>1 DEF Tick
  <2>6. QED
    BY <2>2, <2>3, <2>5 DEF SessionsTypeOK, Horizon
<1>2. ASSUME NEW i \in Followed, gone'[i] # None
      PROVE  /\ read'[i] # None => gone'[i] <= read'[i]
             /\ life'[i].access + gone'[i] <= Horizon
  <2>1. /\ gone[i] \in 0 .. Horizon
        /\ gone'[i] = IF gone[i] = Horizon THEN Horizon ELSE gone[i] + 1
    BY <1>2 DEF Tick, SessionsTypeOK, Horizon
  <2>2. /\ read[i] # None => gone[i] <= read[i]
        /\ life[i].access + gone[i] <= Horizon
    BY <2>1 DEF LockoutInv, Horizon
  <2>3. /\ read[i] \in (0 .. Lag) \cup {None}
        /\ read[i] # None => read[i] < Lag
        /\ read'[i] = IF read[i] = None THEN None ELSE read[i] + 1
        /\ life[i].access \in Nat
        /\ life'[i].access = IF life[i].access > 0 THEN life[i].access - 1 ELSE 0
    BY DEF Tick, SessionsTypeOK, Aged
  <2>4. QED
    BY <2>1, <2>2, <2>3 DEF Horizon
<1>3. /\ UNCHANGED <<users, issued>>
      /\ \A i \in Followed : gone'[i] # None => gone[i] # None
  BY DEF Tick, SessionsTypeOK
<1>4. QED
  BY <1>1, <1>2, <1>3 DEF LockoutInv

\* Every step keeps the sessions in order.
LEMMA NextSessions == Inv /\ SessionsInv /\ [SessionsNext]_allVars => SessionsInv'
<1> SUFFICES ASSUME Inv, SessionsInv, [SessionsNext]_allVars PROVE SessionsInv'
    OBVIOUS
<1>1. CASE RegistrationStep
  BY <1>1, RegistrationKeepsSessions
<1>2. ASSUME NEW i \in Followed, SessionStep(i) PROVE SessionsInv'
  BY <1>2, SessionStepKeepsSessions
<1>3. CASE Tick
  BY <1>3, TickKeepsSessions
<1>4. CASE UNCHANGED allVars
  BY <1>4 DEF allVars, vars, tables, sessions, SessionsInv, SessionsTypeOK, LockoutInv
<1>5. QED
  BY <1>1, <1>2, <1>3, <1>4 DEF SessionsNext, SessionStep

-----------------------------------------------------------------------------
(***************************************************************************)
(* Whatever logs in, refreshes and expires, the registrations are those of *)
(* Registration: its theorems hold of this specification too.              *)
(***************************************************************************)
THEOREM SessionsImplementRegistration == SessionsSpec => Spec
<1>1. SessionsInit => Init
  BY DEF SessionsInit
<1>2. QED
  BY <1>1, SessionsKeepRegistration, PTL DEF SessionsSpec, Spec

(***************************************************************************)
(* Accounts and sessions are in order: the types, no deletion of a user    *)
(* who is being given a wallet or has one for good, and no token that      *)
(* outlives its user by more than it may.                                  *)
(***************************************************************************)
THEOREM SessionsAreInOrder == SessionsSpec => []AllInOrder
<1>1. SessionsInit => AllInOrder
  BY InitInv, InitSessions DEF SessionsInit, AllInOrder
<1>2. AllInOrder /\ [SessionsNext]_allVars => AllInOrder'
  <2>1. Inv /\ [SessionsNext]_allVars => Inv'
    BY NextInv, SessionsKeepRegistration
  <2>2. Inv /\ SessionsInv /\ [SessionsNext]_allVars => SessionsInv'
    BY NextSessions
  <2>3. QED
    BY <2>1, <2>2 DEF AllInOrder
<1>3. QED
  BY <1>1, <1>2, PTL DEF SessionsSpec

(***************************************************************************)
(* A deleted user is locked out, whatever the lives of the tokens and the  *)
(* timeout of the handlers.                                                *)
(***************************************************************************)
THEOREM DeletedUsersAreLockedOut == SessionsSpec => []DeletedUserIsLockedOut
<1>1. AllInOrder => DeletedUserIsLockedOut
  <2> SUFFICES ASSUME SessionsTypeOK, LockoutInv, NEW i \in Followed, gone[i] = Horizon
               PROVE  ~Authenticated(i)
      BY DEF DeletedUserIsLockedOut, AllInOrder, SessionsInv
  <2>1. Horizon \in Nat /\ gone[i] # None /\ life[i].access \in Nat
    BY SessionsAssumption DEF Horizon, SessionsTypeOK
  <2>2. life[i].access + gone[i] <= Horizon
    BY <2>1 DEF LockoutInv
  <2>3. life[i].access = 0
    BY <2>1, <2>2
  <2>4. QED
    BY <2>3 DEF Parse, Authenticated
<1>2. QED
  BY <1>1, SessionsAreInOrder, PTL
=============================================================================
