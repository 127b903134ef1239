----------------------------- MODULE ActivityFeed -----------------------------
(***************************************************************************)
(* GET /me/activity and /me/topups: the gateway (cmd/api/me_handlers.go)   *)
(* asks wallet-service for top-ups and transaction-service for transfers,  *)
(* each cut to what the page needs, merges them and slices the page out.   *)
(* The two lists are read at different moments, and rows are committed all *)
(* the while: created_at is the time at which the row's transaction began, *)
(* so that a new row need not be the newest.  Tables and queries are those *)
(* of one user; a client asks for the pages of a query one after another.  *)
(***************************************************************************)
EXTENDS Integers, FiniteSets

CONSTANTS
    Ids,        \* ids of rows: numbers, ordered as ORDER BY id
    Times,      \* created_at values, in ticks
    Second,     \* ticks of a second
    Bounds,     \* from and to, as clients write them
    PageSizes,  \* page_size values
    MaxFetch,   \* maxBackendFetchSize, which is the services' own limit too
    None        \* no bound, no answer

ASSUME FeedAssumption ==
    /\ Ids \subseteq Nat /\ Times \subseteq Nat /\ Bounds \subseteq Nat
    /\ Second \in Nat \ {0}
    /\ PageSizes \subseteq Nat \ {0}
    /\ MaxFetch \in Nat \ {0}
    /\ None \notin Nat

TopUps    == [id : Ids, at : Times, kind : {"topup"}]
Transfers == [id : Ids, at : Times, kind : {"transfer_sent", "transfer_received"}]
Rows      == TopUps \cup Transfers

Kinds   == {"all", "topup", "transfer", "transfer_sent", "transfer_received"}
Queries == [kind : Kinds, from : Bounds \cup {None}, to : Bounds \cup {None},
            size : PageSizes]

-----------------------------------------------------------------------------
\* ORDER BY created_at DESC, id DESC, which is the order of the merge too.

Newer(r, s) == r.at > s.at \/ (r.at = s.at /\ r.id > s.id)

Rank(r, S) == Cardinality({s \in S : Newer(s, r)}) + 1

RowAt(S, i) == CHOOSE r \in S : Rank(r, S) = i

\* ... LIMIT n: the n newest rows.
Newest(S, n) == {r \in S : Rank(r, S) <= n}

-----------------------------------------------------------------------------
\* What a query asks for.

\* formatFilterTime: a bound loses its fraction of a second on its way.
WholeSecond(t) == t - (t % Second)

InRange(q, r) ==
    /\ q.from # None => WholeSecond(q.from) <= r.at
    /\ q.to # None => r.at <= WholeSecond(q.to)

\* The kinds of rows in the answer; for transfers, the direction in the SELECT.
OfKind(q, r) ==
    \/ q.kind = "all"
    \/ q.kind = r.kind
    \/ q.kind = "transfer" /\ r.kind # "topup"

Wanted(q, r) == InRange(q, r) /\ OfKind(q, r)

\* parseTimeFilters compares the bounds as they were written.
FiltersAreValid(q) == q.from = None \/ q.to = None \/ q.from <= q.to

\* Mutants of FetchLimit: no row is fetched beyond the page, and the pages
\* before it are forgotten.
FetchLimitOfPage(q, p) == p * q.size
FetchLimitOfSize(q, p) == q.size + 1

\* parsePaginationRequest: everything up to the page, and one row more.
FetchLimit(q, p) == p * q.size + 1

\* Mutant of WindowFits: the row more is not counted.
WindowFitsShort(q, p) == p * q.size <= MaxFetch

WindowFits(q, p) == FetchLimit(q, p) <= MaxFetch

Offset(q, p) == (p - 1) * q.size

\* Mutant of SlicePage: the row that tells of a next page is left in this one.
SlicePageKeepsNext(S, q, p) ==
    LET offset == Offset(q, p)
        n == Cardinality(S)
    IN  [status  |-> 200,
         items   |-> [i \in {j \in 1 .. q.size + 1 : offset + j <= n} |->
                         RowAt(S, offset + i)],
         hasNext |-> n > offset + q.size]

\* slicePage of the rows S in their order.
SlicePage(S, q, p) ==
    LET offset == Offset(q, p)
        n == Cardinality(S)
    IN  [status  |-> 200,
         items   |-> [i \in {j \in 1 .. q.size : offset + j <= n} |->
                         RowAt(S, offset + i)],
         hasNext |-> n > offset + q.size]

Refused(code) == [status |-> code, items |-> <<>>, hasNext |-> FALSE]

ItemsOf(a) == {a.items[i] : i \in DOMAIN a.items}

-----------------------------------------------------------------------------
VARIABLES
    topups, transfers,  \* the user's rows in wallet_topups and transactions
    pc,                 \* the call that the handler is about to make
    query, page,        \* what the client asks for
    fetched,            \* the top-ups that the handler holds
    answer,             \* its answer, None before it is given
    seen,               \* history: the rows there when each list was read
    shown,              \* history: the rows shown since the first page
    atStart             \* history: the rows there when the client began

tables  == <<topups, transfers>>
history == <<seen, shown, atStart>>
vars    == <<topups, transfers, pc, query, page, fetched, answer, seen, shown, atStart>>

Working == {"topups", "transfers"}

Init ==
    /\ topups = {}
    /\ transfers = {}
    /\ pc = "idle"
    /\ query = None
    /\ page = 1
    /\ fetched = {}
    /\ answer = None
    /\ seen = {}
    /\ shown = {}
    /\ atStart = {}

\* A top-up, or the record of a transfer, is committed.
AddRow ==
    /\ \E r \in Rows :
          /\ \A s \in topups \cup transfers : s.id # r.id
          /\ IF r.kind = "topup"
             THEN topups' = topups \cup {r} /\ UNCHANGED transfers
             ELSE transfers' = transfers \cup {r} /\ UNCHANGED topups
    /\ UNCHANGED <<pc, query, page, fetched, answer, history>>

\* The request for page p of query q is parsed; it may be refused at once.
Ask(q, p) ==
    /\ query' = q
    /\ page' = p
    /\ IF FiltersAreValid(q) /\ WindowFits(q, p)
       THEN /\ pc' = IF q.kind \in {"all", "topup"} THEN "topups" ELSE "transfers"
            /\ answer' = None
       ELSE /\ pc' = "done"
            /\ answer' = Refused(400)
    /\ fetched' = {}
    /\ seen' = {}
    /\ UNCHANGED tables

\* The client begins with the first page of a query.
FirstPage ==
    /\ pc \notin Working
    /\ \E q \in Queries : Ask(q, 1)
    /\ shown' = {}
    /\ atStart' = topups \cup transfers

\* It goes on when it is told that there is more.
NextPage ==
    /\ pc = "done" /\ answer.hasNext
    /\ Ask(query, page + 1)
    /\ UNCHANGED <<shown, atStart>>

\* It asks again for a page that it did not get.
SamePage ==
    /\ pc = "done" /\ answer.status = 503
    /\ Ask(query, page)
    /\ UNCHANGED <<shown, atStart>>

\* The handler answers with its page of the rows S.
Respond(S) ==
    /\ pc' = "done"
    /\ answer' = SlicePage(S, query, page)
    /\ shown' = shown \cup ItemsOf(answer')

\* fetchTopUpActivity, ListTopUps.
FetchTopUps ==
    LET rows == Newest({r \in topups : Wanted(query, r)}, FetchLimit(query, page))
    IN  /\ pc = "topups"
        /\ seen' = seen \cup topups
        /\ \/ /\ query.kind = "topup"
              /\ Respond(rows)
              /\ UNCHANGED fetched
           \/ /\ query.kind = "all"
              /\ pc' = "transfers"
              /\ fetched' = rows
              /\ UNCHANGED <<answer, shown>>
        /\ UNCHANGED <<tables, query, page, atStart>>

\* fetchTransferActivity, ListTransfers, and the merge.
FetchTransfers ==
    LET rows == Newest({r \in transfers : Wanted(query, r)}, FetchLimit(query, page))
    IN  /\ pc = "transfers"
        /\ seen' = seen \cup transfers
        /\ Respond(fetched \cup rows)
        /\ UNCHANGED <<tables, query, page, fetched, atStart>>

\* One source fails or the three seconds are over: there is no page.
SourceFails ==
    /\ pc \in Working
    /\ pc' = "done"
    /\ answer' = Refused(503)
    /\ UNCHANGED <<tables, query, page, fetched, history>>

Next ==
    \/ AddRow \/ FirstPage \/ NextPage \/ SamePage
    \/ FetchTopUps \/ FetchTransfers \/ SourceFails

Spec == Init /\ [][Next]_vars

-----------------------------------------------------------------------------
\* Properties.

\* The type invariant: of the tables, whose ids are unique, of the handler, and
\* of the limit, which the services accept.
TypeOK ==
    /\ topups \subseteq TopUps /\ transfers \subseteq Transfers
    /\ \A r, s \in topups \cup transfers : r.id = s.id => r = s
    /\ pc \in Working \cup {"idle", "done"}
    /\ pc # "idle" => query \in Queries
    /\ page \in Nat \ {0}
    /\ pc \in Working => FetchLimit(query, page) \in 1 .. MaxFetch
    /\ fetched \subseteq TopUps
    /\ pc = "done" => /\ answer.status \in {200, 400, 503}
                      /\ answer.hasNext \in BOOLEAN
                      /\ ItemsOf(answer) \subseteq Rows
    /\ seen \subseteq topups \cup transfers
    /\ shown \subseteq topups \cup transfers
    /\ atStart \subseteq topups \cup transfers

Answered == pc = "done" /\ answer.status = 200

(***************************************************************************)
(* The page put together from two lists that were cut and merged is the    *)
(* page of the whole feed, and hasNext is that of the whole feed.          *)
(***************************************************************************)
PageIsRight ==
    Answered => answer = SlicePage({r \in seen : Wanted(query, r)}, query, page)

(***************************************************************************)
(* Nothing is skipped: a client that follows hasNext to the last page has  *)
(* been shown every row that was there when it began, whatever has been    *)
(* committed between its requests and between the two reads of each.       *)
(***************************************************************************)
NothingIsSkipped ==
    (Answered /\ ~answer.hasNext) =>
        \A r \in atStart : Wanted(query, r) => r \in shown

(***************************************************************************)
(* A row is shown on two pages only if another one was committed after the *)
(* client began.                                                           *)
(***************************************************************************)
NothingIsRepeated ==
    [][(pc \in Working /\ pc' = "done" /\ topups \cup transfers = atStart) =>
          shown \cap ItemsOf(answer') = {}]_vars
=============================================================================
