------------------------------- MODULE Sessions -------------------------------
(***************************************************************************)
(* POST /auth/login, /auth/refresh and the check of every /me request: the *)
(* token pairs that the gateway signs (internal/security/jwt.go) for users *)
(* whom Registration creates, and deletes when a wallet fails.  Nothing    *)
(* revokes a token: an access token is believed until it expires, and a    *)
(* refresh token is exchanged as long as user-service finds the user, for  *)
(* a pair that is signed some time after the user was read.                *)
(***************************************************************************)
EXTENDS Registration

CONSTANTS
    Followed,    \* the users whose sessions are followed
    AccessTTL,   \* JWT_TTL in ticks
    RefreshTTL,  \* REFRESH_TOKEN_TTL
    Lag          \* the ticks from reading a user to signing a pair: the timeout

ASSUME SessionsAssumption ==
    /\ Followed \subseteq Ids
    /\ None \notin Nat
    /\ AccessTTL \in Nat \ {0} /\ RefreshTTL \in Nat \ {0} /\ Lag \in Nat

VARIABLES
    life,  \* the ticks that a user's newest token of each type has left
    read,  \* the ticks since a handler read the user's row, None for no handler
    gone   \* history: the ticks since the user was deleted, None if it was not

sessions == <<life, read, gone>>
allVars  == <<vars, sessions>>

\* The ticks after which no token of a deleted user is good.
Horizon == Lag + AccessTTL

NoTokens == [access |-> 0, refresh |-> 0]

SessionsInit ==
    /\ Init
    /\ life = [i \in Followed |-> NoTokens]
    /\ read = [i \in Followed |-> None]
    /\ gone = [i \in Followed |-> None]

\* Mutant of Parse: the type of the token is not compared.
ParseAnyType(i, type) == \E t \in DOMAIN life[i] : life[i][t] > 0

\* Parse of a token that the gateway signed: of this type, and exp > now.
Parse(i, type) == life[i][type] > 0

\* issueTokenPair.
TokenPair == [access |-> AccessTTL, refresh |-> RefreshTTL]

Registers(c) == status'[c] = 201 /\ status[c] # 201

\* A step of Registration: it ends with a token pair when it ends with 201.
RegistrationStep ==
    /\ Next
    /\ life' = [i \in Followed |->
                   IF \E c \in Clients : Registers(c) /\ user[c] = i
                   THEN TokenPair ELSE life[i]]
    /\ gone' = [i \in Followed |->
                   IF users[i] # None /\ users'[i] = None THEN 0 ELSE gone[i]]
    /\ UNCHANGED read

\* authMiddleware: the claims are believed, user-service is not asked.
Authenticated(i) == Parse(i, "access")

GetByEmail(i, e) == users[i] = e
GetByID(i)       == users[i] # None

\* Login of user-service: the user with that email, and the right password.
Login(i) ==
    /\ read[i] = None
    /\ \E e \in Emails : GetByEmail(i, e)
    /\ read' = [read EXCEPT ![i] = 0]
    /\ UNCHANGED <<vars, life, gone>>

\* Mutant of Refresh: the claims of the token are believed.
RefreshByClaims(i) ==
    /\ read[i] = None
    /\ Parse(i, "refresh")
    /\ read' = [read EXCEPT ![i] = 0]
    /\ UNCHANGED <<vars, life, gone>>

\* RefreshToken: the token, then GetUser of its subject; 404 without a user.
Refresh(i) ==
    /\ read[i] = None
    /\ Parse(i, "refresh")
    /\ GetByID(i)
    /\ read' = [read EXCEPT ![i] = 0]
    /\ UNCHANGED <<vars, life, gone>>

\* The answer of user-service arrives, and the handler signs a pair.
SignIn(i) ==
    /\ read[i] # None
    /\ life' = [life EXCEPT ![i] = TokenPair]
    /\ read' = [read EXCEPT ![i] = None]
    /\ UNCHANGED <<vars, gone>>

\* It does not arrive in time.
SignInFails(i) ==
    /\ read[i] # None
    /\ read' = [read EXCEPT ![i] = None]
    /\ UNCHANGED <<vars, life, gone>>

Aged(ticks) == IF ticks > 0 THEN ticks - 1 ELSE 0

\* A tick; the timeout of a handler that waits is not over before it.
Tick ==
    /\ \A i \in Followed : read[i] # None => read[i] < Lag
    /\ life' = [i \in Followed |-> [access  |-> Aged(life[i].access),
                                    refresh |-> Aged(life[i].refresh)]]
    /\ read' = [i \in Followed |-> IF read[i] = None THEN None ELSE read[i] + 1]
    /\ gone' = [i \in Followed |->
                   IF gone[i] \in {None, Horizon} THEN gone[i] ELSE gone[i] + 1]
    /\ UNCHANGED vars

SessionsNext ==
    \/ RegistrationStep
    \/ \E i \in Followed : Login(i) \/ Refresh(i) \/ SignIn(i) \/ SignInFails(i)
    \/ Tick

SessionsSpec == SessionsInit /\ [][SessionsNext]_allVars

-----------------------------------------------------------------------------
\* Properties.

\* The type invariant of the sessions.
SessionsTypeOK ==
    /\ life \in [Followed -> [access : 0 .. AccessTTL, refresh : 0 .. RefreshTTL]]
    /\ read \in [Followed -> (0 .. Lag) \cup {None}]
    /\ gone \in [Followed -> (0 .. Horizon) \cup {None}]

(***************************************************************************)
(* A deleted user is locked out: once a timeout and the life of an access  *)
(* token have passed since the deletion, authMiddleware believes no token  *)
(* of the user, however long a refresh token lives and however often it    *)
(* was exchanged before, during and after the deletion.                    *)
(***************************************************************************)
DeletedUserIsLockedOut ==
    \A i \in Followed : gone[i] = Horizon => ~Authenticated(i)

(***************************************************************************)
(* Why: no user comes back under its id, a handler that signs later read   *)
(* the row before the deletion, and the newest access token is as much     *)
(* shorter as the deletion is past.                                        *)
(***************************************************************************)
LockoutInv ==
    /\ \A i \in Ids : users[i] # None => i \in issued
    /\ \A i \in Followed : gone[i] # None =>
          /\ users[i] = None /\ i \in issued
          /\ read[i] # None => gone[i] <= read[i]
          /\ life[i].access + gone[i] <= Horizon

SessionsInv == SessionsTypeOK /\ LockoutInv

(***************************************************************************)
(* Accounts and sessions are in order, each for what the other does: no    *)
(* deletion under way is of a user whose wallet is being made or whose     *)
(* owner was told 201, and no exchange of tokens, however late, outlives   *)
(* by more than it may the user it is for.                                 *)
(***************************************************************************)
AllInOrder == Inv /\ SessionsInv
=============================================================================
