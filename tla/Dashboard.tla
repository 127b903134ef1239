------------------------------- MODULE Dashboard -------------------------------
(***************************************************************************)
(* GET /me/dashboard, /me/wallet and /history/{userID}: answers that the   *)
(* gateway puts together from reads of user-, wallet- and transaction-     *)
(* service made one after another, while money goes on moving: a top-up is *)
(* in the balance and in wallet_topups at once, a transfer is in the       *)
(* balance before transaction-service has its record.  Tables and reads    *)
(* are those of one user, as in ActivityFeed, whose handlers share nothing *)
(* with these but the tables: a behaviour is of the pages or of these.     *)
(***************************************************************************)
EXTENDS ActivityFeed, FiniteSetsExt, Functions, Sequences

CONSTANTS
    Day,         \* ticks of a day in dashboardTimezone
    Recent,      \* rows in a recent list
    SeedBalance  \* what the user's wallet holds that no row accounts for:
                 \* a seed of the migrations, or top-ups older than their table

ASSUME DashboardAssumption ==
    /\ Day \in Nat \ {0} /\ Recent \in Nat \ {0} /\ SeedBalance \in Nat
    /\ None \notin {"dashboard", "wallet", "history"}

VARIABLES
    reading,  \* what the behaviour is of: the pages, or these handlers
    moved,    \* the transfers that wallet-service has made
    now,      \* the clock of the databases
    asked,    \* what the client asked for
    todo,     \* the reads that the handler has still to make
    view,     \* what it has read, and in the end its answer
    quiet,    \* history: nothing has changed since the handler began
    told      \* history: the numbers of rows that the client was last told

feed      == <<pc, query, page, fetched, answer, seen, shown, atStart>>
dashboard == <<reading, moved, now, asked, todo, view, quiet, told>>
allVars   == <<vars, dashboard>>

Moves == [id : Ids, kind : {"transfer_sent", "transfer_received"}]

NoView == [balance |-> None, topUps |-> None, transfers |-> None,
           recentTransfers |-> None, recentTopUps |-> None, history |-> None]

\* Each row's amount is its own: the id stands for it.
Amount(r) == r.id
Total(S)  == SumFunction([r \in S |-> Amount(r)])

Sent(S)     == {r \in S : r.kind = "transfer_sent"}
Received(S) == {r \in S : r.kind = "transfer_received"}

\* The wallet is there with its opening balance, and the user has no rows yet.
DashboardInit ==
    /\ Init
    /\ reading \in {"pages", "dashboard"}
    /\ moved = {}
    /\ now = Min(Times)
    /\ asked = None
    /\ todo = <<>>
    /\ view = NoView
    /\ quiet = FALSE
    /\ told = [topUps |-> 0, transfers |-> 0]

IsAnswered == asked # None /\ todo = <<>>

-----------------------------------------------------------------------------
\* What goes on in the tables.

\* The user's balance in wallets.
Balance ==
    SeedBalance + Total(topups) + Total(Received(moved)) - Total(Sent(moved))

\* Changes after an answer are those before the next request.
Happens == ~IsAnswered /\ quiet' = FALSE

TopUp ==
    /\ Happens
    /\ \E r \in TopUps :
          /\ r.at <= now
          /\ \A s \in topups \cup moved : s.id # r.id
          /\ topups' = topups \cup {r}
    /\ UNCHANGED <<transfers, moved, now>>

MoveMoney ==
    /\ Happens
    /\ \E m \in Moves :
          /\ \A s \in topups \cup moved : s.id # m.id
          /\ m.kind = "transfer_sent" => Balance >= Amount(m)
          /\ moved' = moved \cup {m}
    /\ UNCHANGED <<tables, now>>

IsRecorded(m) == \E r \in transfers : r.id = m.id

RecordTransfer ==
    /\ Happens
    /\ \E m \in moved, t \in Times :
          /\ ~IsRecorded(m) /\ t <= now
          /\ transfers' = transfers \cup {[id |-> m.id, at |-> t, kind |-> m.kind]}
    /\ UNCHANGED <<topups, moved, now>>

TimePasses ==
    /\ Happens
    /\ now' \in {t \in Times : t > now}
    /\ UNCHANGED <<tables, moved>>

-----------------------------------------------------------------------------
\* The queries.

IsToday(r) == r.at \div Day = now \div Day

\* Mutant of Summary: the totals are those of the day.
SummaryOfToday(S) ==
    LET T == {r \in S : IsToday(r)}
    IN  [count |-> Cardinality(T), amount |-> Total(T),
         today |-> Cardinality(T), amountToday |-> Total(T)]

\* GetTopUpSummary, and either direction of GetTransferSummary.
Summary(S) ==
    LET T == {r \in S : IsToday(r)}
    IN  [count |-> Cardinality(S), amount |-> Total(S),
         today |-> Cardinality(T), amountToday |-> Total(T)]

TransferSummary == [sent |-> Summary(Sent(transfers)),
                    received |-> Summary(Received(transfers))]

\* GetHistory: ORDER BY created_at DESC, id DESC, without a limit.
History == [i \in 1 .. Cardinality(transfers) |-> RowAt(transfers, i)]

-----------------------------------------------------------------------------
\* The handlers.

\* The calls of each handler, in their order.

\* Mutant of DashboardReads: the recent rows are read before the summaries.
DashboardRecentFirst  == <<"user", "recentTransfers", "recentTopUps",
                           "balance", "topUps", "transfers">>

DashboardReads == <<"user", "balance", "topUps", "transfers",
                    "recentTransfers", "recentTopUps">>
WalletReads    == <<"balance", "topUps">>
HistoryReads   == <<"history">>

Reads(what) ==
    CASE what = "dashboard" -> DashboardReads
      [] what = "wallet"    -> WalletReads
      [] what = "history"   -> HistoryReads

Open ==
    /\ asked = None
    /\ asked' \in {"dashboard", "wallet", "history"}
    /\ todo' = Reads(asked')
    /\ quiet' = (\A m \in moved : IsRecorded(m))
    /\ UNCHANGED <<moved, now, view, told>>

\* The handler makes its next call.
Call(read) ==
    /\ todo # <<>> /\ Head(todo) = read
    /\ todo' = Tail(todo)
    /\ UNCHANGED <<moved, now, asked, quiet>>

Read(read, value) == Call(read) /\ view' = [view EXCEPT ![read] = value]

\* fetchAuthenticatedUser: the name and the email are left out.
ReadUser == Call("user") /\ UNCHANGED <<view, told>>

ReadBalance == Read("balance", Balance) /\ UNCHANGED told

ReadTopUpSummary ==
    /\ Read("topUps", Summary(topups))
    /\ told' = [told EXCEPT !.topUps = view'.topUps.count]

ReadTransferSummary ==
    /\ Read("transfers", TransferSummary)
    /\ told' = [told EXCEPT !.transfers =
                    view'.transfers.sent.count + view'.transfers.received.count]

ReadRecentTransfers ==
    Read("recentTransfers", Newest(transfers, Recent)) /\ UNCHANGED told

ReadRecentTopUps ==
    Read("recentTopUps", Newest(topups, Recent)) /\ UNCHANGED told

ReadHistory ==
    /\ Read("history", History)
    /\ told' = [told EXCEPT !.transfers = Len(view'.history)]

\* A call fails, or the three seconds are over; or the client has its answer.
Close ==
    /\ asked # None
    /\ asked' = None
    /\ todo' = <<>>
    /\ view' = NoView
    /\ quiet' = FALSE
    /\ UNCHANGED <<moved, now, told>>

HandlerStep ==
    \/ Open \/ ReadUser \/ ReadBalance \/ ReadTopUpSummary \/ ReadTransferSummary
    \/ ReadRecentTransfers \/ ReadRecentTopUps \/ ReadHistory
    \/ Close

TableStep == TopUp \/ MoveMoney \/ RecordTransfer \/ TimePasses

DashboardNext ==
    \/ reading = "pages" /\ Next /\ UNCHANGED dashboard
    \/ reading = "dashboard" /\ HandlerStep /\ UNCHANGED <<tables, feed, reading>>
    \/ reading = "dashboard" /\ TableStep
       /\ UNCHANGED <<feed, reading, asked, todo, view, told>>

DashboardSpec == DashboardInit /\ [][DashboardNext]_allVars

-----------------------------------------------------------------------------
\* Properties.

Shown(what) == asked = what /\ IsAnswered

\* Beyond what the wallet began with, the balance that is shown holds no top-up
\* that the summary beside it lacks.
BalanceIsCovered ==
    Shown("wallet") \/ Shown("dashboard") =>
        view.balance <= SeedBalance + view.topUps.amount + Total(Received(moved))

\* What the summaries count is listed, up to the limit of the lists.
CountedIsListed ==
    Shown("dashboard") =>
        LET t == view.transfers IN
        /\ Cardinality(view.recentTopUps) >= Min({Recent, view.topUps.count})
        /\ Cardinality(view.recentTransfers)
              >= Min({Recent, t.sent.count + t.received.count})

(***************************************************************************)
(* Each read of a dashboard, or of a wallet, covers the ones before it:    *)
(* the sums account for the balance, but for what the wallet began with,   *)
(* and the lists for the sums, whatever is committed between the reads.    *)
(***************************************************************************)
LaterReadsCover == BalanceIsCovered /\ CountedIsListed

(***************************************************************************)
(* A dashboard during which nothing changed adds up: the balance is what   *)
(* the wallet began with and the sums, and the counts of the day and the   *)
(* lists are those of the rows they are made from.                         *)
(***************************************************************************)
QuietDashboardAddsUp ==
    Shown("dashboard") /\ quiet =>
        LET t == view.transfers
            u == view.topUps
        IN  /\ view.balance
                  = SeedBalance + u.amount + t.received.amount - t.sent.amount
            /\ u.today + t.sent.today + t.received.today
                  = Cardinality({r \in topups \cup transfers : IsToday(r)})
            /\ Cardinality(view.recentTransfers)
                  = Min({Recent, t.sent.count + t.received.count})

(***************************************************************************)
(* What a user has been told of once is in every later answer: the totals  *)
(* and the history never shrink, over midnight either.                     *)
(***************************************************************************)
TotalsNeverShrink ==
    [][told'.topUps >= told.topUps /\ told'.transfers >= told.transfers]_allVars
=============================================================================
