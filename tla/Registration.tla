----------------------------- MODULE Registration -----------------------------
(***************************************************************************)
(* POST /auth/register: the gateway (cmd/api/handlers.go, Register) has    *)
(* user-service create the user and wallet-service its wallet, and has the *)
(* user deleted again when the wallet fails.  Each call has a timeout and  *)
(* runs under the context of the HTTP request.  A call that the gateway no *)
(* longer waits for is an orphan: it may still take effect, or never.      *)
(***************************************************************************)
EXTENDS Naturals

CONSTANTS
    Clients,  \* a client registers one email, and may try again
    Emails,   \* normalized emails
    Ids,      \* the user ids that user-service may generate
    None      \* nothing

VARIABLES
    users,       \* table users: the email of each id, None for no row
    issued,      \* the ids generated so far: no uuid is generated twice
    wallets,     \* wallet-service: the ids with a wallet
    email, pc,   \* each client's email, and its handler
    status,      \* the HTTP status it was given
    rolledBack,  \* "rolled_back" in the body it was given
    user,        \* the user id that the handler holds
    call,        \* the handler's outstanding call
    orphans      \* calls nobody waits for

tables == <<users, issued, wallets>>
vars   == <<users, issued, wallets, email, pc, status, rolledBack, user, call, orphans>>

Calling  == {"register", "createWallet", "deleteUser"}
Statuses == {201, 409, 500, 502, 503, 504}

ASSUME NoneAssumption == None \notin Ids \cup Emails \cup Statuses

Init ==
    /\ users = [i \in Ids |-> None]
    /\ issued = {}
    /\ wallets = {}
    /\ email = [c \in Clients |-> None]
    /\ pc = [c \in Clients |-> "idle"]
    /\ status = [c \in Clients |-> None]
    /\ rolledBack = [c \in Clients |-> FALSE]
    /\ user = [c \in Clients |-> None]
    /\ call = [c \in Clients |-> "none"]
    /\ orphans = {}

\* The handler makes its next call.
Send(c, stage) ==
    /\ pc' = [pc EXCEPT ![c] = stage]
    /\ call' = [call EXCEPT ![c] = "sent"]
    /\ UNCHANGED <<status, rolledBack>>

\* The handler answers its client.
Respond(c, code, undone) ==
    /\ pc' = [pc EXCEPT ![c] = "done"]
    /\ call' = [call EXCEPT ![c] = "none"]
    /\ status' = [status EXCEPT ![c] = code]
    /\ rolledBack' = [rolledBack EXCEPT ![c] = undone]

\* The service has done its part, but its answer does not arrive.
Lose(c) ==
    /\ call' = [call EXCEPT ![c] = "lost"]
    /\ UNCHANGED <<pc, status, rolledBack>>

Awaits(c, stage) == pc[c] = stage /\ call[c] = "sent"

\* A client's request, and its retries after an answer other than 201.
Submit(c) ==
    /\ pc[c] = "idle" \/ (pc[c] = "done" /\ status[c] # 201)
    /\ IF email[c] = None
       THEN \E e \in Emails : email' = [email EXCEPT ![c] = e]
       ELSE UNCHANGED email
    /\ pc' = [pc EXCEPT ![c] = "register"]
    /\ call' = [call EXCEPT ![c] = "sent"]
    /\ status' = [status EXCEPT ![c] = None]
    /\ rolledBack' = [rolledBack EXCEPT ![c] = FALSE]
    /\ user' = [user EXCEPT ![c] = None]
    /\ UNCHANGED <<tables, orphans>>

-----------------------------------------------------------------------------
\* Register of user-service: INSERT INTO users, with UNIQUE (email).

EmailTaken(e) == \E i \in Ids : users[i] = e

InsertUser(i, e) ==
    /\ i \notin issued
    /\ ~EmailTaken(e)
    /\ users' = [users EXCEPT ![i] = e]
    /\ issued' = issued \cup {i}
    /\ UNCHANGED wallets

RegisterUser(c) ==
    /\ Awaits(c, "register")
    /\ \E i \in Ids :
          /\ InsertUser(i, email[c])
          /\ \/ Send(c, "createWallet") /\ user' = [user EXCEPT ![c] = i]
             \/ Lose(c) /\ UNCHANGED user
    /\ UNCHANGED <<email, orphans>>

EmailConflict(c) ==
    /\ Awaits(c, "register")
    /\ EmailTaken(email[c])
    /\ Respond(c, 409, FALSE) \/ Lose(c)
    /\ UNCHANGED <<tables, email, user, orphans>>

\* createWalletForUser, then the token pair, which may fail to be signed.
CreateWallet(c) ==
    /\ Awaits(c, "createWallet")
    /\ wallets' = wallets \cup {user[c]}
    /\ \/ \E code \in {201, 500} : Respond(c, code, FALSE)
       \/ Lose(c)
    /\ UNCHANGED <<users, issued, email, user, orphans>>

\* The status of the wallet's failure, with "rolled_back": true.
RespondRolledBack(c) == \E code \in {502, 503, 504} : Respond(c, code, TRUE)

\* deleteUserAfterWalletFailure.
DeleteUser(c) ==
    /\ Awaits(c, "deleteUser")
    /\ users' = [users EXCEPT ![user[c]] = None]
    /\ RespondRolledBack(c) \/ Lose(c)
    /\ UNCHANGED <<issued, wallets, email, user, orphans>>

-----------------------------------------------------------------------------
\* What the outstanding call of a handler may still do without it.
Orphan(c) ==
    IF call[c] = "sent"
    THEN {[stage |-> pc[c], user |-> user[c], email |-> email[c]]}
    ELSE {}

\* Mutant of GiveUp: a wallet that did not answer is not looked into.
GiveUpIgnoresWallet(c) ==
    /\ \/ pc[c] = "register" /\ \E code \in {502, 503, 504} : Respond(c, code, FALSE)
       \/ pc[c] = "createWallet" /\ Respond(c, 201, FALSE)
       \/ pc[c] = "deleteUser" /\ RespondRolledBack(c)
    /\ orphans' = orphans \cup Orphan(c)
    /\ UNCHANGED <<tables, email, user>>

\* The outstanding call fails or times out.  The failure of the deletion is
\* logged, and the client is told that it was done.
GiveUp(c) ==
    /\ \/ pc[c] = "register" /\ \E code \in {502, 503, 504} : Respond(c, code, FALSE)
       \/ pc[c] = "createWallet" /\ Send(c, "deleteUser")
       \/ pc[c] = "deleteUser" /\ RespondRolledBack(c)
    /\ orphans' = orphans \cup Orphan(c)
    /\ UNCHANGED <<tables, email, user>>

\* The gateway stops, or the client closes its connection: the context is
\* cancelled, and the calls that would follow, the deletion too, are not sent.
Abandon(c) ==
    /\ pc[c] \in Calling
    /\ Respond(c, None, FALSE)
    /\ orphans' = orphans \cup Orphan(c)
    /\ UNCHANGED <<tables, email, user>>

\* An orphan takes effect late, or never does.
Late(o) ==
    /\ \/ o.stage = "register" /\ \E i \in Ids : InsertUser(i, o.email)
       \/ /\ o.stage = "createWallet"
          /\ wallets' = wallets \cup {o.user}
          /\ UNCHANGED <<users, issued>>
       \/ /\ o.stage = "deleteUser"
          /\ users' = [users EXCEPT ![o.user] = None]
          /\ UNCHANGED <<issued, wallets>>
       \/ UNCHANGED tables
    /\ orphans' = orphans \ {o}
    /\ UNCHANGED <<email, pc, status, rolledBack, user, call>>

Next ==
    \/ \E c \in Clients :
          \/ Submit(c) \/ RegisterUser(c) \/ EmailConflict(c)
          \/ CreateWallet(c) \/ DeleteUser(c) \/ GiveUp(c) \/ Abandon(c)
    \/ \E o \in orphans : Late(o)

Spec == Init /\ [][Next]_vars

-----------------------------------------------------------------------------
\* Properties.

\* The type invariant of the tables, the handlers and the orphans.
TypeOK ==
    /\ users \in [Ids -> Emails \cup {None}]
    /\ issued \subseteq Ids
    /\ wallets \subseteq Ids
    /\ email \in [Clients -> Emails \cup {None}]
    /\ pc \in [Clients -> Calling \cup {"idle", "done"}]
    /\ status \in [Clients -> Statuses \cup {None}]
    /\ rolledBack \in [Clients -> BOOLEAN]
    /\ user \in [Clients -> Ids \cup {None}]
    /\ call \in [Clients -> {"none", "sent", "lost"}]
    /\ orphans \subseteq [stage : Calling, user : Ids \cup {None}, email : Emails]

(***************************************************************************)
(* Who was told 201 has an account for good: user and wallet, whatever is  *)
(* created or deleted late on behalf of other registrations, of the same   *)
(* email too.                                                              *)
(***************************************************************************)
RegisteredIsComplete ==
    \A c \in Clients : status[c] = 201 =>
        users[user[c]] = email[c] /\ user[c] \in wallets

\* What the place of a handler says of its email, its user and its status.
HandlerInOrder(c) ==
    /\ pc[c] \in Calling => email[c] \in Emails
    /\ pc[c] = "register" => user[c] = None
    /\ pc[c] \in {"createWallet", "deleteUser"} => user[c] # None
    /\ status[c] # None => pc[c] = "done"

\* An id is issued once, and held by one handler.
IdsAreOwn ==
    /\ \A c \in Clients : user[c] # None => user[c] \in issued
    /\ \A c, d \in Clients : user[c] # None /\ user[c] = user[d] => c = d
    /\ \A o \in orphans : o.stage # "register" => o.user \in issued

\* The user is there, and nothing that is under way will delete it.
UserIsKept(c) ==
    /\ user[c] # None
    /\ users[user[c]] = email[c]
    /\ \A o \in orphans : o.stage = "deleteUser" => o.user # user[c]

(***************************************************************************)
(* Only the handler that holds an id sends its deletion, and only when it  *)
(* has given up on the wallet: until then, and for ever after a 201, no    *)
(* deletion of that user is under way.                                     *)
(***************************************************************************)
AccountInv ==
    /\ IdsAreOwn
    /\ \A c \in Clients :
          /\ HandlerInOrder(c)
          /\ pc[c] = "createWallet" \/ status[c] = 201 => UserIsKept(c)
          /\ status[c] = 201 => user[c] \in wallets

\* The invariant that carries the proofs.
Inv == TypeOK /\ AccountInv

(***************************************************************************)
(* Who is told "rolled_back": true has no user left.                       *)
(***************************************************************************)
RolledBackIsGone ==
    \A c \in Clients : rolledBack[c] => users[user[c]] = None
=============================================================================
