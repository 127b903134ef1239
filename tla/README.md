# Formal model of Peer Ledger

Peer Ledger moves money between users: a Go gateway in front of four gRPC
services, three of which keep their state in PostgreSQL and one in memory. This
directory holds TLA+ modules translated from that code, the TLC configurations
that check them on small instances, and TLAPS proofs, for every instance, about the
wallet service, the audit trail, the rules on transfers, the transfer, the registration
and its sessions, the rate limiter, the feed and the dashboards, the migrator and the
rollout of the whole.

Paths below are relative to the repository (`src/`). `PROJECT.json` names, for
every definition that models code, the file and the lines it stands for.

## 1. The system

| component | state it keeps | operations that change it | called by |
|---|---|---|---|
| wallet-service (`services/wallet-service`) | tables `wallets`, `idempotency_keys`, `wallet_topups` | `CreateWallet`, `TopUp`, `Transfer` | gateway |
| transaction-service (`services/transaction-service`) | table `transactions`: the audit trail | `Record` | gateway |
| fraud-service (`services/fraud-service`) | four maps in memory, under one mutex: daily totals, recent approvals, cooldowns, decisions by idempotency key | `EvaluateTransfer`, a janitor, a restart | gateway |
| user-service (`services/user-service`) | table `users` | `Register`, `DeleteUser` | gateway |
| gateway (`services/gateway`) | nothing durable; buckets of the rate limiter | `POST /transfers`, `POST /auth/register`, `/auth/login` and `/auth/refresh`, `POST /topups`, reads under `/me` | HTTP clients |
| db-migrator (`cmd/db-migrator`) | table `schema_migrations` of each database | creates databases, applies files | `infra/scripts/run-db-migrator.sh`, at deployment |
| start-up (`main.go` of each program) | where each program is in its `run()` | loads its configuration, connects with retries, serves, stops at SIGTERM | the orchestrator, which restarts what exits |

There is no message queue and no distributed transaction. The gateway calls one
service after the other, each with a timeout, and nothing but an idempotency key
ties the steps of one transfer together:

    client --POST /transfers--> gateway
        1. UserExists(sender), UserExists(receiver)   user-service
        2. EvaluateTransfer                           fraud-service
        3. Transfer                                   wallet-service
        4. Record                                     transaction-service

When step 4 fails after step 3 the money has moved and the gateway answers 500
with `"retryable": true`: the client is to send the same request again, and every
service is to recognise the key. Registration runs `Register` (user-service) and
`CreateWallet` (wallet-service), and is the one place with a compensation: when
the wallet fails, the user is deleted.

### What is hard, and what makes each part correct

* **wallet-service.** Handlers run concurrently; each transfer takes two row
  locks and an index entry in a READ COMMITTED transaction, after a lookup of the
  key outside of it. Correct when no update is lost, no balance is overdrawn, money
  is conserved, duplicates of a key are all answered with its one result, a refusal
  leaves nothing behind, and no set of handlers waits in a circle. In one sentence:
  when it is the atomic ledger that its callers imagine.
* **transaction-service.** Two unique indexes, one on the id and one on the key, in
  either of which a duplicate may fail. Correct when `ok` means that this very row
  is there and alone, and a conflict is only reported when there is one.
* **fraud-service.** The rules read maps from which a cleanup has just deleted
  what is out of date, at times read before the mutex was taken. Correct when the
  decisions are those of the rules applied to the whole history; the code gives that up
  when a time is used after a later one (finding 2).
* **POST /transfers.** Any call may be lost, answered too late, or take effect
  after the gateway has given up; the gateway may stop; the fraud service may
  forget. Correct when no money moves without approval, the audit never disagrees
  with the wallet, each HTTP status means what it says, and a client that retries
  gets its movement recorded.
* **POST /auth/register.** A creation that timed out may take effect after the
  compensation, and the compensation may fail. Correct when 201 means an account
  for good and "rolled back" means that nothing is left.
* **GET /me/activity.** A page is cut out of two lists that two services read at
  different moments, each up to a limit, while rows are committed whose
  `created_at` is older than their commit. Correct when each page is that of the
  whole feed and a client that follows `has_next` misses nothing that was there.
* **The other reads.** A dashboard is six reads of three services, between which
  money moves and midnight passes; a transfer is in the balance before it is in the
  audit. Correct when each read covers the ones before it, when a dashboard during
  which nothing happened adds up, and when totals never shrink.
* **Sessions.** Nothing revokes a token, and the roll-back of a registration deletes a
  user who may have logged in, or whose refresh is under way. Correct when a deleted
  user is locked out after a time that can be named.
* **Rate limiter.** The clock is read before the mutex is taken, so that a bucket may
  be refilled, deleted as idle and made anew in another order than that of time.
  Correct when it stays between two ideal buckets that differ by that lateness only,
  and when who waits as long as `Retry-After` says is let in.
* **db-migrator.** The waiter of the script may give up on a task that goes on, and the
  next rollout then starts a second one: both check for a database or a version and
  then create or apply it. Correct when no version takes effect twice, in the order of
  the files, and when exit code 0 is said of what is there.
* **Start-up and stop.** Programs start in any order, give up, are restarted, and are
  told to stop in the middle of a retry loop or of a transfer. Correct when nothing
  serves before its tables are there, when the platform comes up, when what is told to
  stop stops, and when a transfer survives the gateway that was making it.

The hazards behind these, each at its line and with the properties that would
catch it, are the list `hazards` of `PROJECT.json`.

## 2. The modules

| module | what it is | code |
|---|---|---|
| `WalletData` | requests, rows and answers of the wallet service, and the assumptions on the constants | `wallet_repository.go` (types, validation, payload comparison), `server.go` (statuses) |
| `AtomicLedger` | what the service promises: each call takes effect in one step or in none | the three writing handlers of `server.go` as their callers see them |
| `WalletRepository` | the repository statement by statement, and what PostgreSQL does with them | `wallet_repository.go` |
| `FraudData` | requests, decisions and `RuleFor`, the order of the rules | `fraud_repository.go`, `Validate` of `config.go` |
| `FraudRules` | the rules over the whole history: no maps, no cleanup | abstract |
| `FraudRepository` | the four maps, the cleanup, the janitor, restarts | `fraud_repository.go`, `server.go`, `main.go` |
| `TransactionRepository` | `Record` with its two unique indexes | `repository.go` |
| `TransferSaga` | `CreateTransfer` of the gateway over the four services | `handlers.go` |
| `Registration` | `Register` of the gateway, `Register` and `DeleteUser` of user-service, `CreateWallet` | `handlers.go`, `user_repository.go` |
| `ActivityFeed` | the paging of `GET /me/activity` and `/me/topups` over the two services' lists | `me_handlers.go`, `ListTopUps`, `ListTransfers` |
| `Dashboard` | `GET /me/dashboard`, `/me/wallet` and `/history/{userID}` beside the pages of `ActivityFeed` | `me_handlers.go`, `handlers.go`, the summaries of the two repositories |
| `Sessions` | login, refresh and the check of a token, over the users of `Registration` | `handlers.go`, `auth.go`, `jwt.go`, `Login` of user-service |
| `Throttle` | what a token bucket promises, without buckets | abstract |
| `RateLimiter` | the map of buckets, its cleanup, clock readings that are used late | `rate_limit.go` |
| `SchemaHistory` | what the migrator promises: a history of versions | abstract |
| `Migration` | tasks of the migrator, statement by statement | `migrator.go` |
| `Configuration` | what each program makes of its environment, and what it can be built from | `config.go` of the five programs |
| `Deployment` | the script, its tasks, the orchestrator, and the five programs from start to stop | `main.go` of each, `db.go` of three services, `run-db-migrator.sh` |
| `Platform` | `TransferSaga` in the gateway's process of `Deployment` | `main.go` and `handlers.go` of the gateway |
| `WalletRepositoryProofs`, `TransactionRepositoryProofs`, `FraudRepositoryProofs`, `SessionsProofs`, `RateLimiterProofs`, `DashboardProofs`, `PlatformProofs` | the proofs, see section 5 | |
| `SumTheorems` | facts about sums over finite sets that three of them rest on | |
| `MCWallet`, `MCFraud`, `MCSaga`, `MCRegistration`, `MCSessions`, `MCLimiter`, `MCPlatform` | values of constants, and symmetry | |

`AtomicLedger`, `FraudRules`, `Throttle` and `SchemaHistory` are abstract
specifications, and the modules with the code's steps refine them
(`ImplementsAtomicLedger`, `ImplementsRules`, `ImplementsThrottle`,
`ImplementsSchemaHistory`), the first three by the identity on the variables they
share, the last with what a task has installed read off its exit code. `TransferSaga`
composes the services at the level of those promises: its wallet is the ledger of
`AtomicLedger` split in the lookup of the key and the transaction, its audit is one row
per key as `TransactionRepository` shows, its fraud-service is a decision remembered by
key. `Sessions` extends `Registration`, `Dashboard` extends `ActivityFeed`, and
`Platform` puts `TransferSaga`, `Deployment` and `Migration` together.

### Correspondence

**WalletRepository.** `pc[c]` is the statement a handler is about to run. A
transfer goes `lookup` (`getIdempotencyResult`) - `begin` (`Snapshot`: the
`SELECT ... FOR UPDATE` fixes which rows it returns) - `lock` (`LockRow`, row by row
in `ORDER BY user_id`, each read when its lock is obtained) - `Reject` or `Update` -
`insertKey` (`InsertKey`, or `KeyConflict` and `Reread`) - `Commit`. A top-up skips
the key, a creation starts with `INSERT ... ON CONFLICT DO NOTHING`. `rowLock` and
`keyLock` are PostgreSQL's; `EndTx` releases them. Writes become visible at
`Commit`, which may be answered `internal` although it took effect: the connection
or the context may be gone by then. `Fail` is every other error, and a crash of the
service too, which keeps nothing in memory between calls.

**FraudRepository.** What runs under the mutex is one step: `Repeat` and `Judge` are
`Evaluate` with its cleanup, `Clean` is the janitor's. The time is not read under
the mutex: `Arrive` reads the clock, and `Tick` puts a time in the ticker's
channel; both are used later. `Restart` empties the maps and cuts off the calls.
`life[c]` and `used` are history variables: the life of the process in which the rules
decided call `c`, and the time that a call or the janitor used last in this life. The
code does not see to it that `used` never goes back. `Spec` lets it; `OrderedSpec` are
the behaviours in which no time is used after a later one, `DaysOrderedSpec` those in
which no time of a day is used after one of a later day.

**TransactionRepository.** As the wallet: a lookup, an INSERT that enters the two
indexes one after the other and waits at each, a rollback and a second look after a
conflict, a commit whose answer may be lost.

**TransferSaga.** `pc[c]` is the call that the handler of client `c` waits for and
`call[c]` what has become of it: sent, in its transaction (`tx`), or done with its
answer lost. `GiveUp` is the timeout or an error, `Crash` the end of the gateway;
both leave the call as an orphan in `orphans`, which `Late` lets take effect at any
later time or never. `Retry` sends the same payload with the same key after any
answer but 200. `Forget` is fraud-service losing a decision, by a restart or at the
end of its time to live.

**Registration.** The same, with `deleteUser` as the compensation, and `Abandon` for
a gateway that stops or a client that goes away and takes the request's context
with it.

**ActivityFeed.** Rows are what the order and the filters look at: an id, a time, a
kind, of one user. `AddRow` commits any row that is not there yet. `Ask` is the
handler up to its first call (`FirstPage`, `NextPage` and `SamePage` are the client's
reasons for it), `FetchTopUps` and `FetchTransfers` are the two reads, each of the
table as it is then, and the last one of a request answers with `SlicePage`. `seen`,
`shown` and `atStart` are history variables: what was in the tables at the two reads,
what the client has been shown, what was there when it began.

**Dashboard.** The tables of `ActivityFeed`, with the transfers that wallet-service has
made (`moved`) and those of them that transaction-service has recorded (`transfers`).
`todo` is the list of calls that a handler has still to make, in the order of its code
(`DashboardReads` and its like), and each call reads the tables as they are then. A
user begins without rows, but not without money: `SeedBalance` is what
`wallets/001_init.sql:16-21` gives the users it seeds, for which neither
`wallet_topups` nor the audit has a row, and what was topped up before
`002_wallet_topups.sql` made its table. So a dashboard's sums account for its balance
only together with `SeedBalance`. A
behaviour is of the pages or of these handlers (`reading`): they share nothing but
tables, and nobody reads both.

**Sessions.** A token is its type and the ticks it has left; `life` keeps the longest
of each type that a user has. `Login` and `Refresh` read the user's row, `SignIn`
answers up to `Lag` ticks later. `gone` is a history variable, the time since the
deletion.

**RateLimiter.** `Arrive` reads the clock, `Decide` is everything under the mutex: the
cleanup, if it is due at the time that was read, the refill and the decision. A token
is counted in parts, of which a request costs `Window` and a tick brings `Requests`,
so that no fraction is rounded. `debt` and `least` are the meters of `Throttle`, and
`retryAt` is a history variable.

**Migration.** `mpc[t]` is the statement that task `t` is about to run, over
`find` - `create` (`ensureDatabase`) - `open` - `check` - `exec` - `record` - `commit`
(`applyMigrationFile`) for each file of each database. `entered` are the rows of open
transactions, which a second task meets at the primary key of `schema_migrations`.
`CommitFile` may take effect and be answered with an error.

**Deployment.** `at[p]` is the step that program `p` is at, in the order of its `main.go`
(`UserSteps` and its like differ: user-service listens before it builds its server).
`Load` is the orchestrator starting it and `Load()` of its configuration; `Connect` and
`WaitOver` are `ConnectWithRetry`, `Dial` and `DialAgain` the gateway's own loop over
the services in `DialOrder` (`dialed` are those it is connected to), which SIGTERM does
not interrupt and which panics without an attempt; `Drain`,
`StopGracefully` and `StopAtTimeout` are the end. `script` is `run-db-migrator.sh`:
its wait may be over before the task it waits for.

**Platform.** Handlers take steps while the gateway's process serves or drains
(`Handle`), and end with it (`CutOff`): what they have sent goes on as an orphan.

### Abstractions

* Money is an integer number of cents. The code parses `NUMERIC(12,2)` to cents and
  the API carries float64; every value in range is exact in both, and the codec is
  not modelled. The limit of the column is (`MaxBalance`, `Overflows`).
* A generated uuid is new. In the wallet it is named by the call that draws it; in
  the saga and the registration it is any unused member of `Ids`, and a step that
  needs another one is not taken when they are used up.
* Times are ticks; a day is `DayLength` of them, without a change of offset.
* Users of a transfer exist and have wallets in `TransferSaga`; step 1 of the saga is
  a free choice. That a wallet is missing is covered by `WalletRepository`.
* In the saga the wallet's transaction is one step after its lookup: that is what
  `AtomicLedger` promises and what is proved of `WalletRepository`.
* In `Dashboard` each row's amount is its id, so that a sum tells which rows are in
  it; names and emails of users are left out.
* In `Sessions` a signature is unforgeable, and the newest token of a type stands for
  all of them, which is sound for what is asked: whether any is still good.
* In `Configuration` a setting is a number or `Garbage`; one setting at a time is odd.
  The two bounds on retries have smaller defaults than the code's. The number of
  outages, crashes, signals, failed statements of the migrator and waits given up in a
  behaviour is bounded by `MaxFaults`; that a ping or a handshake fails is not bounded,
  it follows from what is down. The calls of a transfer fail as often as they may.
* Tasks that have not been started are alike, and `Apply` starts a given one of them.
* `Deployment` is one rollout: after the script has said ok no task is started, and
  no program of an older rollout runs beside the new ones.
* In `Platform` the first transfer waits until all is up, and from then on only the
  gateway stops and starts: other services that fail are calls that `GiveUp` ends.
* In `ActivityFeed` a page number grows by following `has_next`, so that
  `page * page_size` is small; that the product wraps at 64 bits for page numbers of
  nineteen digits before it is compared with the window is not modelled.
* Rolling back, row locks, index entries and COMMIT are PostgreSQL's as its
  documentation has them; the comment at the head of `WalletRepository` lists what
  is taken as given. That an INSERT enters `transactions_pkey` before
  `transactions_idempotency_key_key` is the order in which those indexes are made.

## 3. What TLC checks

| run | instance | shows |
|---|---|---|
| `wallet_safety` | 3 calls of any kind, 2 users of whom one has a wallet, 2 keys, one amount that empties the wallet and fills another to the limit | the invariant of the proofs, `Inv`; `BalancesInRange`, `BalancesExplained`, `DuplicatesAgree`, `RefusalLeavesNoTrace`; `ImplementsAtomicLedger`; under fairness, `EveryCallIsAnswered` |
| `wallet_stored_result` | 2 calls, 2 wallets, 1 key | violates `StoredResultIsReturned` (finding 1) |
| `fraud_limits` | 3 calls with 2 keys over two days of two ticks, a restart, amounts below, at and beyond the limit per transfer, times used up to a tick late, none after a later one | `DailyLimitHolds`, `VelocityLimitHolds`, `CooldownHolds`, `KeyIsJudgedOnce`, each of the whole history of a life; and `ImplementsRules`, every decision |
| `fraud_midnight` | times may be used up to a tick late, in any order | violates `DailyLimitHolds` (finding 2) |
| `audit` | 3 calls, 2 ids, 2 keys, 2 valid bodies and an invalid one | the invariant of the proofs, `Inv`; `AcceptedIsRecorded`, `ConflictIsReal`; under fairness, `EveryCallIsAnswered` |
| `activity` | 3 rows of any kind at two times on either side of midnight, bounds within a second, pages of one and two rows, a window of 4 rows, recent lists of 2, a wallet that is seeded | of the pages, `PageIsRight`, `NothingIsSkipped`, `NothingIsRepeated`; of the dashboards, `LaterReadsCover`, `QuietDashboardAddsUp`, `TotalsNeverShrink` |
| `saga_safety` | 2 clients, 2 users, 2 keys, a decision may be forgotten | the invariant of the proofs, `Inv`; `PaidOnlyIfApproved`, `AuditMatchesLedger`, `StatusTellsTheTruth` |
| `saga_forget` | 1 client that retries, one decision forgotten | violates `MovedIsNotDenied` (finding 3) |
| `register_safety` | 2 clients, 2 emails, 2 ids, the sessions of one user, lifetimes of one and two ticks, a timeout of one | the invariant of the proofs, `AllInOrder`; `RegisteredIsComplete`, `DeletedUserIsLockedOut` |
| `register_rolled_back` | 1 client | violates `RolledBackIsGone` (finding 4) |
| `limiter` | 2 requests in flight of 1 client, 2 policies (2 requests in 3 ticks, 1 in 4), a lag of a tick, a cleanup every 2 of 6 ticks | `ImplementsThrottle`, `RetryAfterIsEnough` |
| `platform` | 1 client that retries, nothing forgotten; 2 tasks, 2 databases, a release of two files and one with an edited file; user-service, fraud-service and the gateway, with 1 retry and 2 attempts; one fault: an outage, a crash, a SIGTERM, a failed statement, a wait that is given up, or one setting that does not parse or is 0 | the invariant of the proofs, `DeploymentInv`; `ServingHasSchema`, `AcceptedConfigurationBuilds`, `ImplementsSchemaHistory`, `MovedIsNotDenied`; under fairness, `StopsWhenTold`, `ComesUp`, `MovedIsRecorded` |

Each passing run but those of fraud-service and `limiter`, whose invariants and abstract
specifications speak of every decision, also checks the type invariant of its module, alone or as
a part of the invariant of the proofs.

Why these bounds. The wallet's conflicts are between two calls that share a wallet,
a key, both or nothing; the third call is the one that commits between two steps of
the others, or creates the wallet that another is looking for. One amount is enough
for safety because a wallet holds exactly that amount: one transfer empties it and two
top-ups overflow it. The fraud instance is chosen so that each limit can be the one
that refuses: the velocity limit is two, two transfers fill a day and two of the larger
amount would pass its limit, a cooldown spans midnight, and the time to live is shorter
than the window, so that two keys are enough for three approvals in one. A lag of one tick is enough to use a time of one
day after midnight, and after a later time. A call
is served once, so that the number of calls bounds every history; `MaxTime`, `MaxLag`,
`MaxRestarts`, `MaxForgets` and `MaxFaults` bound the rest. Symmetry is used in runs of
safety only: calls, keys, ids, and where nothing orders them, clients, receivers,
emails, users. In `activity` three rows are enough for two sources, a page, and a row
committed between two requests or two reads; the window of four lets a client of pages
of one row see them all and refuses the second page of two. In `limiter` six ticks are
enough for a bucket to be emptied, to fall idle for the longest window, to be deleted,
and to be made anew from a reading that is late; the two policies share one map and its
cleanup, and two clients would not meet anywhere else. In `platform` two tasks are what
a wait that is given up leads to, two databases are what makes half a migration
possible, and a single fault is what each retry loop is to survive; the second release
is the one whose edited file must be refused. (Users are numbers in the wallet:
`ORDER BY user_id` tells them apart.) Deadlock is not checked, since every instance may
end when all its calls are answered; that nothing ends earlier is what
`EveryCallIsAnswered`, `MovedIsRecorded` and `ComesUp` say.

Fairness. `WalletRepository` and `TransactionRepository` have weak fairness of each
handler's next step: the Go scheduler runs what can run, and PostgreSQL queues the
waiters of a lock, so that a lock which stays free is granted. Nothing fair is asked
of failures. `TransferSaga` has weak fairness of the client's retry, which is what
`architecture.md` asks of clients, and of the timeouts, which the gateway sets on
every call; and strong fairness of each call being answered, which says that no
service is down for ever: without it a retry could time out each time and nothing
would be owed to anyone. `PlatformSpec` has the same for the transfers, and weak
fairness of what each process does by itself, which includes the orchestrator starting
it again (`Run`), of the running tasks, of the end of the script's wait, and of
PostgreSQL coming back. It does not ask that the script is run again after a failure,
nor that a graceful stop ends otherwise than by its timeout. Faults are never fair.

Every property of a passing run is paired, in `PROJECT.json`, with a mutant: the
definition of a step changed in the way of a plausible bug (the definitions whose
comment begins with "Mutant of"), under which TLC finds the property violated.

## 4. Findings

1. **A duplicate may be refused for lack of the funds that its original has spent.**
   `executeTransferTx` compares the balance before it inserts the key. A duplicate
   that looked the key up before the first transfer committed waits for its row
   locks, reads the balance it has left, and is answered "insufficient funds"
   instead of the stored result that `architecture.md:451-453` promises. No money is
   wrong (`DuplicatesAgree` holds of every `ok`), and a later retry is answered well.
2. **Around midnight the daily limit may be exceeded.** `cleanupLocked` deletes the
   totals of every date but that of the time at hand, and that time may be older or
   newer than the totals' (`server.go:74`, the ticker's channel). One call or tick
   that crosses midnight wipes a total that is still counted on. That takes
   a time of one day used after a time of the next: however late the times are, the
   daily limit holds as long as their days are in order (`DaysHold`, section 5), and all
   limits hold as long as the times are (`fraud_limits`, and section 5).
3. **The retry that a 500 asks for may be denied.** Fraud-service judges it again when
   its decision is gone (restart, end of the time to live), the first attempt counting
   against it, or the rules simply deciding otherwise: 403, with the money moved and
   the audit row missing. As long as the decision is remembered this cannot happen
   (`platform`).
4. **"rolled_back": true is answered even if the deletion failed.** The error of
   `deleteUserAfterWalletFailure` is logged only; the user stays, without a wallet,
   and the email is taken for the next attempt (409).

## 5. What is proved

`WalletRepositoryProofs` proves, with TLAPS, for any sets of calls, users, keys and
amounts that satisfy the assumptions of `WalletData`:

| theorem | says |
|---|---|
| `TypeCorrect` | `Spec => []TypeOK` |
| `LocksAreInOrder` | `Spec => []Inv` |
| `NoLostUpdate` | `Spec => []LockedReadIsCurrent` |
| `NoOverdraft` | `Spec => []BalancesInRange` |
| `DuplicatesAnsweredAlike` | `Spec => []DuplicatesAgree` |
| `RefusalsAreTrue` | `Spec => []RefusalLeavesNoTrace` |
| `RepositoryIsAtomic` | `Spec => ImplementsAtomicLedger` |
| `MoneyIsConserved` | `Spec => []BalancesExplained` |

The assumptions are that users are numbers, amounts are integers (valid or not), the
limit is a number, the seed is in range and no money lies outside of a wallet, and
that the two marks `Nobody` and `NoRow` are nothing else. TLC evaluates all of them.

The argument. None of the invariants is inductive as it stands: that a balance stays
in range needs to know that the check made three steps ago still holds, and that is a
fact about locks. `LockInv` says it, in parts: what the place of a handler says of its
request (`CallsInOrder`), whose locks are held where and over which rows
(`LocalsInOrder`, `RowLocksInOrder`, `KeyLocksInOrder`), that what was read under a
lock is what the table holds (`ReadIsCurrent`), and that past the checks a
transaction holds all it needs and the checks stand (`ReadyToCommit`). Only `Commit`
writes the tables (`OnlyCommitWrites`), and only to rows whose locks it holds
(`CommitFrame`), so that the step of one handler leaves the facts of the others alone
(`OthersKeepLocks`) and each step establishes its own (`OwnKeepsLocks`). With
`LockInv`, `NewBalance` computed from what was read is the new balance of the table,
and `Commit` is `Move`, `TopUp` or `CreateWallet` of `AtomicLedger`
(`CommitIsAtomic`); the steps before it are stutters, and the answers are `Replay` or
`Refuse`. `NoOverdraft`, `DuplicatesAnsweredAlike` and `RefusalsAreTrue` are
inductive relative to `LockInv`; the last needs `TracesAreAnswered`, that a call
which has left a row has been answered. `LockInv`, with the types, is the `Inv` that
`wallet_safety` checks.

That the balances add up (`MoneyIsConserved`) rests on the same step: with `LockInv` a
`Commit` adds one row and changes the balances by its amount. That the row is a new
one, and so no term of any sum yet, is `LockInv` for a key and `TracesAreAnswered` for a
top-up, whose row is named by its call. The rows are finitely many (`RowsAreFinite`),
and a sum over a finite set with one element more is the sum and that element's value
(`SumTheorems`). `SumFunctionOnSet` is defined by recursion, and the provers have no
induction over finite sets; `SumTheorems` therefore looks at a least subset for which a
fact about a sum fails (`MinimalSet`, from the well-foundedness of strict inclusion) and
finds a smaller one.

`TransactionRepositoryProofs` proves of `TransactionRepository`, for any calls, ids,
keys and bodies:

| theorem | says |
|---|---|
| `TypeCorrect` | `Spec => []TypeOK` |
| `IndexesHold` | `Spec => []Inv` |
| `AcceptedRowsAreRecorded` | `Spec => []AcceptedIsRecorded` |
| `ConflictsAreReal` | `Spec => []ConflictIsReal` |

The assumption is that `None` is no call, row or answer. The invariant `IndexInv`: a
call has entered the values of its row exactly while it is in its transaction, and
what it has found free in the table is still free, because a step takes only free
entries and removes only its own (`StepFrame`, `OthersAreHeld`). So the row that
`Commit` adds is new in both indexes (`CommitIndexed`) and rows are unique; an answer
is true when given (`AnswerIsTrue`) and stays true, since rows are never removed
(`AnswersStay`).

`FraudRepositoryProofs` proves of `FraudRepository`, for any calls, limits, windows,
lag (`MaxLag`) and number of restarts:

| theorem | says |
|---|---|
| `MapsTellHistory` | `Spec => []MapsInv` |
| `MapsCoverHistory` | `OrderedSpec => []Covered` |
| `KeysAreJudgedOnce` | `OrderedSpec => []KeyIsJudgedOnce` |
| `PairsCoolDown` | `OrderedSpec => []CooldownHolds` |
| `WindowsHold` | `OrderedSpec => []VelocityLimitHolds` |
| `TotalsAreSums` | `DaysOrderedSpec => []TotalsInv` |
| `DaysHold` | `DaysOrderedSpec => []DailyLimitHolds` |
| `MapsImplementRules` | `OrderedSpec => ImplementsRules` |
| `CurrentTimesAreInOrder` | `MaxLag = 0 => (Spec => OrderedSpec)` |

The assumptions are `ConfigAssumption`, which is what `Config.Validate` accepts, and that
`None` is no request, decision, time or entry. That times are used in order is no
assumption of the code's: it reads them before it takes the mutex, and finding 2 shows
what becomes of the daily limit when one of yesterday is used after one of today. The
theorems say what is promised as long as that does not happen: it cannot when no call and
no tick waits for the mutex (`CurrentTimesAreInOrder`), and it need not when they do.

The properties speak of histories and the code of four maps that `cleanupLocked` prunes,
so the invariant relates the two, by the time that was used last: `MapsCover` says of
every call judged in this life of the process that its key, its pair and its place in the
window are in the maps for as long as a rule could ask for them at `used` or later. A
cleanup at a time that is not before `used` leaves that as it is (`CleanupKeeps`), and
every step that touches the maps is such a cleanup, with what `Judge` adds
(`CleanedOrNot`, `CleaningCovers`, `JudgeCovers`). For the window, the approvals within
it are among the calls of the entries left, so that they are no more than the entries
that the rule has counted (`PassedWindowHasRoom`).

To cover the history is enough for limits that may only be too strict; for the decisions
to be those of the rules, the maps must hold nothing else either. Two invariants add
that. `MapsAreHistory`, which no order of times is needed for, says that every entry is of
a call which was judged in this life of the process; `TotalsAreKept`, that the total of a
sender and a day, from the day of `used` on, is the sum of what was approved. Of days
before nothing is asked, and this is where days must be in order: a cleanup by the time
of an earlier day would drop a total that still counts. `DaysHold` follows, because a call
passes the rule only if its amount fits beside the total (`EveryTotalHolds`), and so does
`MapsImplementRules`, rule by rule.

`SessionsProofs` proves of `Registration`, for any clients, emails and ids:

| theorem | says |
|---|---|
| `TypeCorrect` | `Spec => []TypeOK` |
| `DeletionsAreOwn` | `Spec => []AccountInv` |
| `RegisteredForGood` | `Spec => []RegisteredIsComplete` |

The assumption is that `None` is no id, email or status. `RegisteredIsComplete` needs
to know that no orphaned deletion is of the user in question: an id is issued once and
held by one handler (`IdsAreOwn`), which sends the deletion only after it has given up
on the wallet, and then never answers 201 (`ActKeepsAccounts`, `LateKeepsAccounts`).

It proves of `Sessions`, for any lifetimes of tokens and any timeout:

| theorem | says |
|---|---|
| `SessionsImplementRegistration` | `SessionsSpec => Spec` of `Registration` |
| `SessionsAreInOrder` | `SessionsSpec => []AllInOrder` |
| `DeletedUsersAreLockedOut` | `SessionsSpec => []DeletedUserIsLockedOut` |

Every step of a session leaves the registration alone, so that its theorems carry over.
That a deleted user is locked out needs `LockoutInv`: no user comes back under its id
(`issued`), a handler that will still sign read the row before the deletion, and the
newest access token has at most `Horizon` less the time since the deletion left. The
last is what a tick and a late `SignIn` keep between them.

`RateLimiterProofs` proves of `RateLimiter`, for any policies, paths, clients and lag:

| theorem | says |
|---|---|
| `BucketsFollowTheMeters` | `LimiterSpec => []LimiterInv` |
| `BucketsImplementThrottle` | `LimiterSpec => ImplementsThrottle` |
| `RetryAfterSuffices` | `LimiterSpec => RetryAfterIsEnough` |

The assumptions are that there are finitely many policies, that each lets in at least
one request, and that its window is longer than a reading of the clock may be late:
windows are minutes, the lag is the wait for a mutex. `LimiterInv` relates each bucket
(`BucketInOrder`) to the two meters of `Throttle`. What a bucket lacks is no more than
the meter `debt` has charged. The other direction is not so simple, because a bucket
that is deleted or refilled by a late reading forgets, and then remembers, different
amounts of time: `KeptDown` says, for every number of admissions that one might look
at, in which of three ways the meter `least` is kept down by what the bucket lacks and
by how long it has been idle. This is the strengthening that is inductive; `IdleIsPaid`
uses it to show that a bucket that the cleanup deletes has left no debt in `least`. That
who waits is let in needs no meter, only the time at which the bucket will have a token.

`DashboardProofs` proves of `Dashboard`, and so of the pages of `ActivityFeed` within it,
for any rows, times, filters, page sizes, limits and seed:

| theorem | says |
|---|---|
| `FeedIsTyped` | `DashboardSpec => []TypeOK` |
| `PagesAreRight` | `DashboardSpec => []PageIsRight` |
| `NoRowIsSkipped` | `DashboardSpec => []NothingIsSkipped` |
| `NoRowIsRepeated` | `DashboardSpec => NothingIsRepeated` |
| `ReadsCover` | `DashboardSpec => []LaterReadsCover` |
| `QuietAddsUp` | `DashboardSpec => []QuietDashboardAddsUp` |
| `TotalsGrow` | `DashboardSpec => TotalsNeverShrink` |

Pages are about ranks: the rank of a row in a set is one more than the number of newer
rows there, the `n` newest rows are those of rank `n` at most, and a set of `n` rows has
one of each rank (`EveryRank`). Merging lists that were cut leaves the rank
of a row what it was, up to the limit (`MergeKeepsRank`), which makes the page of two cut lists the
page of the whole (`MergedPage`, `CutPage`, `PageItems`). Between requests only one thing
happens to a rank: rows that are committed push it back (`RankGrows`). So `FeedInv` says
that every row that was there at the start is shown or still to come
(`NothingLeftBehind`), and that while no row has been added those shown are the
first (`ShownComesFirst`).

For the dashboard, `ReadsInOrder` says that what is still to be read is the end of the
handler's list, so that having read one thing means having read those before it;
`ViewHolds` then bounds each read by the later ones, or by the tables as long as those
are not read, which only grow; `QuietHolds` says that while nothing has changed each
read is what the tables give. `QuietAddsUp` is then a sum: with every movement recorded,
the seed apart, the sums over transfers and over the wallet's movements are the same, term by term,
under the ids that they share (`RecordedSums`, `SumRenamed`). The assumptions are those
of the code on sizes and limits, that ids, times and the seed are numbers, and that `None` is
neither a number nor the name of a handler.

`PlatformProofs` proves of `TransferSaga`, for any clients, users, keys, amounts and
number of decisions forgotten:

| theorem | says |
|---|---|
| `SagaIsInOrder` | `Spec => []Inv` |
| `PaymentsAreApproved` | `Spec => []PaidOnlyIfApproved` |
| `AuditIsTheLedgers` | `Spec => []AuditMatchesLedger` |
| `StatusesAreTrue` | `Spec => []StatusTellsTheTruth` |

None of the three properties is inductive: a row that a `Record` writes comes out of a
handler's variable, or out of a call that its handler has long given up on. `Inv` says
of each of them, handler (`HandlerInOrder`) and orphan (`OrphanInOrder`), that the row
it carries is the wallet's stored result (`IsStored`), and that whoever is about to
move money has its approval. What makes it inductive is that results are written once:
a step either leaves the ledger as it is or fills the entry of one key that was empty,
so that what was stored stays stored, and `approved` only grows. The assumption is that
`None` is no payload, result, verdict or status.

It proves of `Migration`, for any tasks, databases, releases and files
that are named uniquely within a release and a database:

| theorem | says |
|---|---|
| `MigrationIsInvariant` | `MigrationSpec => []MigrationInv` |
| `MigrationIsTyped` | `MigrationSpec => []MigrationTypeOK` |
| `FilesAreAppliedOnce` | `MigrationSpec => []AppliedOnce` |
| `ExitZeroMeansMigrated` | `MigrationSpec => []SuccessMeansMigrated` |
| `MigrationImplementsHistory` | `MigrationSpec => ImplementsSchemaHistory` |

`BehindIsIn` says that what a task has gone past is in, and `EnteredIsAlone` that a row
in an open transaction keeps its version to itself: the second is what two tasks that
both found no row rest on, the first what an exit code does.

And of the whole, for any tasks, databases, releases, services,
clients and faults:

| theorem | says |
|---|---|
| `RolloutIsInOrder` | `DeploymentSpec => []RolloutInv` |
| `PlatformIsInOrder` | `PlatformSpec => []DeploymentInv` |
| `AcceptedIsBuilt` | `PlatformSpec => []AcceptedConfigurationBuilds` |
| `ServicesFindTheirTables` | `PlatformSpec => []ServingHasSchema` |
| `PlatformImplementsHistory` | `PlatformSpec => ImplementsSchemaHistory` |
| `TransfersSurviveTheGateway` | `PlatformSpec => [](PaidOnlyIfApproved /\ AuditMatchesLedger /\ StatusTellsTheTruth)` |
| `RemembersItsApprovals` | `MaxForgets = 0 => (PlatformSpec => MovedIsNotDenied)` |

Every step of `Platform` is a step of `Deployment` or leaves it alone
(`PlatformIsDeployment`), and every step of `Deployment` is one of `Migration` or leaves
it alone (`DeploymentIsMigration`), so that invariants and refinement carry over.
`ServingHasSchema` rests on `RolloutInv`: the script says ok only of a task that has
succeeded, nothing starts a task after that, and no program with a database has been
started before; then `MigrationInv` says what that success means. For the transfers the
one step that is not the saga's is `CutOff`: it ends all handlers at once and turns
their calls into orphans, which `Inv` of the saga survives because an orphan carries
what its handler was in order to carry. `RemembersItsApprovals` is the other side of
finding 3: while no decision is lost, fraud-service still says that it has allowed what
it once allowed (`ApprovalsAreKept`), what has moved was allowed (`Inv`), and nobody else
answers 403 (`OnlyFraudDenies`).

`DeploymentInv` is proved program by program (`ProgramInOrder`): which step it may be at,
that its retry loop has attempts left and waits between its first and its longest backoff
(`BackoffIsBounded`, from two to the n being the number of subsets of n things), and that
what it holds is what its `Load` has accepted. `AcceptedIsBuilt` goes from there through
what each constructor refuses: the only way to `broken` is the gateway's router, over a
metrics path that `Load` does not look at. The environment may have any integer, or
something that does not parse, in the place of any one setting; the assumptions are that
there is a service, that every program with a database waits for PostgreSQL, and
that the settings which parse are integers.

Only model-checked: everything under fairness (`EveryCallIsAnswered` of both
repositories, `StopsWhenTold`, `ComesUp`, `MovedIsRecorded`), since leads-to under
fairness and ENABLED are out of the provers' reach here. Every invariant, action property
and refinement that a passing run checks is a theorem. The violations of section 4 are
counterexamples on instances and need no proof. Three assumptions limit what is proved:
times used in order for the limits (finding 2), `MaxForgets = 0` for the retry that is not denied
(finding 3), and a lag shorter than each window for the limiter.

## 6. Not modelled

* Generated gRPC code and the gateway's generated API documentation
  (`gen/`, `services/gateway/docs`): well over a third of the Go lines.
* Metrics and log lines: no decision depends on them. Cryptography: signatures of
  tokens and password hashes are taken to do what they are for.
* `GET /users/{id}` and its `exists`, which pass one read through. `POST /topups` is one
  call of `TopUp`, which `WalletRepository` models with its lost answers; it has no
  idempotency key, and no line of the repository promises one.
* The money codec: the text of `NUMERIC(12,2)`, cents and float64. Every amount in
  range is exact in all three.
* The configuration of db-migrator itself (a statement timeout of less than a
  millisecond becomes none, among others), the rewriting of DSNs, settings that are any
  string, and the choice of a client's address from the headers.
* The product `page * page_size` of the window check at 64 bits: TLC's integers are
  narrower, and no page that a client reaches by following `has_next` comes near.
* A rolling update, in which old programs run beside new ones, and the rest of the
  infrastructure, which is declarative.

## 7. Running it

    tlasany WalletRepository.tla
    tlc -workers 2 -config wallet_safety.cfg MCWallet.tla
    tlapm WalletRepositoryProofs.tla
    tlapm PlatformProofs.tla

`PROJECT.json` names the module of each configuration. The longest run takes about
four minutes.
