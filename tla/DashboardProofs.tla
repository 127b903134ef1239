---------------------------- MODULE DashboardProofs ----------------------------
(***************************************************************************)
(* Proofs about ActivityFeed and Dashboard, for any rows, times, filters,  *)
(* pages and limits: that following the pages shows each row once, and     *)
(* that the reads of a dashboard cover one another.                        *)
(***************************************************************************)
EXTENDS Dashboard, SumTheorems

(***************************************************************************)
(* A table's rows in their order.                                          *)
(***************************************************************************)
Table(S) ==
    /\ S \subseteq Rows
    /\ IsFiniteSet(S)
    /\ \A r, s \in S : r.id = s.id => r = s

LEMMA RowType ==
    ASSUME NEW r \in Rows
    PROVE  r.id \in Nat /\ r.at \in Nat
BY FeedAssumption DEF Rows, TopUps, Transfers

LEMMA PartIsTable ==
    ASSUME NEW T, Table(T), NEW S \in SUBSET T
    PROVE  Table(S)
BY FS_Subset DEF Table

\* The order is strict, and total on a table.
LEMMA NewerOrders ==
    ASSUME NEW S, Table(S)
    PROVE  /\ \A r \in S : ~ Newer(r, r)
           /\ \A r, s, t \in S : Newer(r, s) /\ Newer(s, t) => Newer(r, t)
           /\ \A r, s \in S : r = s \/ Newer(r, s) \/ Newer(s, r)
<1>1. \A r \in S : r.id \in Nat /\ r.at \in Nat
  BY RowType DEF Table
<1>2. \A r, s \in S : r.id = s.id => r = s
  BY DEF Table
<1>3. QED
  BY <1>1, <1>2 DEF Newer

NewerIn(r, S) == {s \in S : Newer(s, r)}

LEMMA RankIsCount ==
    ASSUME NEW S, Table(S), NEW r
    PROVE  /\ IsFiniteSet(NewerIn(r, S)) /\ Cardinality(NewerIn(r, S)) \in Nat
           /\ Rank(r, S) = Cardinality(NewerIn(r, S)) + 1
           /\ Rank(r, S) \in Nat \ {0}
<1>1. IsFiniteSet(NewerIn(r, S))
  BY FS_Subset DEF Table, NewerIn
<1>2. Cardinality(NewerIn(r, S)) \in Nat
  BY <1>1, FS_CardinalityType
<1>3. QED
  BY <1>1, <1>2 DEF Rank, NewerIn

LEMMA TableSize ==
    ASSUME NEW S, Table(S)
    PROVE  IsFiniteSet(S) /\ Cardinality(S) \in Nat
BY FS_CardinalityType DEF Table

\* A newer row comes first.
LEMMA NewerIsBefore ==
    ASSUME NEW S, Table(S), NEW r \in S, NEW s \in S, Newer(r, s)
    PROVE  Rank(r, S) < Rank(s, S)
<1>1. r \notin NewerIn(r, S) /\ NewerIn(r, S) \cup {r} \subseteq NewerIn(s, S)
  BY NewerOrders DEF NewerIn
<1>2. Cardinality(NewerIn(r, S) \cup {r}) = Cardinality(NewerIn(r, S)) + 1
  BY <1>1, RankIsCount, FS_AddElement
<1>3. Cardinality(NewerIn(r, S) \cup {r}) <= Cardinality(NewerIn(s, S))
  BY <1>1, RankIsCount, FS_Subset
<1>4. QED
  BY <1>2, <1>3, RankIsCount

LEMMA RankIsIn ==
    ASSUME NEW S, Table(S), NEW r \in S
    PROVE  Rank(r, S) \in 1 .. Cardinality(S)
<1>1. r \notin NewerIn(r, S) /\ NewerIn(r, S) \cup {r} \subseteq S
  BY NewerOrders DEF NewerIn
<1>2. Cardinality(NewerIn(r, S) \cup {r}) = Cardinality(NewerIn(r, S)) + 1
  BY <1>1, RankIsCount, FS_AddElement
<1>3. Cardinality(NewerIn(r, S) \cup {r}) <= Cardinality(S)
  BY <1>1, TableSize, FS_Subset
<1>4. QED
  BY <1>2, <1>3, RankIsCount, TableSize

LEMMA RankIsOwn ==
    ASSUME NEW S, Table(S), NEW r \in S, NEW s \in S, Rank(r, S) = Rank(s, S)
    PROVE  r = s
<1>1. ~ (Rank(r, S) < Rank(s, S)) /\ ~ (Rank(s, S) < Rank(r, S))
  BY RankIsCount
<1>2. QED
  BY <1>1, NewerOrders, NewerIsBefore

\* Each place of the list is one row's.
LEMMA EveryRank ==
    ASSUME NEW S, Table(S), NEW i \in 1 .. Cardinality(S)
    PROVE  \E r \in S : Rank(r, S) = i
<1> DEFINE n == Cardinality(S)
           f == [r \in S |-> Rank(r, S)]
<1>1. n \in Nat
  BY TableSize
<1> HIDE DEF n
<1>2. f \in [S -> 1 .. n]
  BY RankIsIn DEF n
<1>3. \A r, s \in S : f[r] = f[s] => r = s
  BY RankIsOwn
<1>4. f \in Injection(S, 1 .. n)
  BY <1>2, <1>3 DEF Injection, IsInjective
<1>5. IsFiniteSet(1 .. n) /\ Cardinality(1 .. n) = n
  BY <1>1, FS_Interval
<1> HIDE DEF f
<1>6. f \in Surjection(S, 1 .. n)
  BY <1>4, <1>5, FS_Injection DEF n
<1>7. \E r \in S : f[r] = i
  BY <1>6 DEF Surjection, n
<1>8. QED
  BY <1>7 DEF f

LEMMA RowAtRank ==
    ASSUME NEW S, Table(S)
    PROVE  /\ \A i \in 1 .. Cardinality(S) : RowAt(S, i) \in S /\ Rank(RowAt(S, i), S) = i
           /\ \A r \in S : RowAt(S, Rank(r, S)) = r
<1>1. ASSUME NEW i \in 1 .. Cardinality(S)
      PROVE  RowAt(S, i) \in S /\ Rank(RowAt(S, i), S) = i
  BY EveryRank DEF RowAt
<1>2. ASSUME NEW r \in S
      PROVE  RowAt(S, Rank(r, S)) = r
  BY <1>1, RankIsIn, RankIsOwn
<1>3. QED
  BY <1>1, <1>2

\* Rows that are added push a row back, if anything.
LEMMA RankGrows ==
    ASSUME NEW T, Table(T), NEW S \in SUBSET T, NEW r
    PROVE  Rank(r, S) <= Rank(r, T)
<1>1. NewerIn(r, S) \subseteq NewerIn(r, T) /\ Table(S)
  BY PartIsTable DEF NewerIn
<1>2. Cardinality(NewerIn(r, S)) <= Cardinality(NewerIn(r, T))
  BY <1>1, RankIsCount, FS_Subset
<1>3. QED
  BY <1>1, <1>2, RankIsCount

\* LIMIT n gives n rows, or as many as there are.
LEMMA NewestCount ==
    ASSUME NEW S, Table(S), NEW n \in Nat
    PROVE  /\ Newest(S, n) \subseteq S /\ IsFiniteSet(Newest(S, n))
           /\ Cardinality(S) <= n => Newest(S, n) = S
           /\ Cardinality(S) > n => Cardinality(Newest(S, n)) = n
<1>1. Newest(S, n) \subseteq S
  BY DEF Newest
<1>2. IsFiniteSet(Newest(S, n))
  BY <1>1, TableSize, FS_Subset
<1>3. ASSUME Cardinality(S) <= n
      PROVE  Newest(S, n) = S
  <2>1. \A r \in S : Rank(r, S) <= n
    BY <1>3, RankIsIn, TableSize
  <2>2. QED
    BY <2>1 DEF Newest
<1>4. ASSUME Cardinality(S) > n
      PROVE  Cardinality(Newest(S, n)) = n
  <2> DEFINE f == [r \in Newest(S, n) |-> Rank(r, S)]
  <2>1. f \in [Newest(S, n) -> 1 .. n]
    BY RankIsIn, TableSize DEF Newest
  <2>2. \A r, s \in Newest(S, n) : f[r] = f[s] => r = s
    BY <1>1, RankIsOwn
  <2>3. f \in Injection(Newest(S, n), 1 .. n)
    BY <2>1, <2>2 DEF Injection, IsInjective
  <2>4. \A i \in 1 .. n : \E r \in Newest(S, n) : f[r] = i
    <3> SUFFICES ASSUME NEW i \in 1 .. n
                 PROVE  \E r \in Newest(S, n) : f[r] = i
      OBVIOUS
    <3>1. i \in 1 .. Cardinality(S)
      BY <1>4, TableSize
    <3>2. PICK r \in S : Rank(r, S) = i
      BY <3>1, EveryRank
    <3>3. r \in Newest(S, n)
      BY <3>2 DEF Newest
    <3>4. QED
      BY <3>2, <3>3
  <2>5. f \in Surjection(Newest(S, n), 1 .. n)
    BY <2>1, <2>4 DEF Surjection
  <2>6. IsFiniteSet(1 .. n) /\ Cardinality(1 .. n) = n
    BY FS_Interval
  <2> HIDE DEF f
  <2>7. QED
    BY <2>3, <2>5, <2>6, FS_Injection
<1>5. QED
  BY <1>1, <1>2, <1>3, <1>4

-----------------------------------------------------------------------------
(***************************************************************************)
(* Two lists, each cut to the newest n rows and merged, have the first n   *)
(* rows of the whole.                                                      *)
(***************************************************************************)
Merged(A, B, n) == Newest(A, n) \cup Newest(B, n)

LEMMA MergeKeepsRank ==
    ASSUME NEW A, NEW B, Table(A \cup B), NEW n \in Nat,
           NEW r \in A \cup B, Rank(r, A \cup B) <= n
    PROVE  r \in Merged(A, B, n) /\ Rank(r, Merged(A, B, n)) = Rank(r, A \cup B)
<1> DEFINE S == A \cup B
           M == Merged(A, B, n)
<1>1. ASSUME NEW s \in S, Rank(s, S) <= n
      PROVE  s \in M
  <2>1. Rank(s, A) <= Rank(s, S) /\ Rank(s, B) <= Rank(s, S)
    BY RankGrows
  <2>2. Rank(s, A) \in Nat /\ Rank(s, B) \in Nat /\ Rank(s, S) \in Nat
    BY PartIsTable, RankIsCount
  <2>3. Rank(s, A) <= n /\ Rank(s, B) <= n
    BY <1>1, <2>1, <2>2
  <2>4. QED
    BY <2>3 DEF Merged, Newest
<1>2. M \subseteq S
  BY DEF Merged, Newest
<1>3. ASSUME NEW s \in NewerIn(r, S)
      PROVE  s \in M
  <2>1. s \in S /\ Newer(s, r)
    BY DEF NewerIn
  <2>2. Rank(s, S) < Rank(r, S)
    BY <2>1, NewerIsBefore
  <2>3. Rank(s, S) \in Nat /\ Rank(r, S) \in Nat
    BY RankIsCount
  <2>4. QED
    BY <1>1, <2>1, <2>2, <2>3
<1>4. NewerIn(r, M) = NewerIn(r, S)
  BY <1>2, <1>3 DEF NewerIn
<1>5. Table(M)
  BY <1>2, PartIsTable
<1>6. QED
  BY <1>1, <1>4, <1>5, RankIsCount

LEMMA MergeCount ==
    ASSUME NEW A, NEW B, Table(A \cup B), NEW n \in Nat
    PROVE  /\ Table(Merged(A, B, n)) /\ Merged(A, B, n) \subseteq A \cup B
           /\ Cardinality(A \cup B) <= n => Merged(A, B, n) = A \cup B
           /\ Cardinality(A \cup B) > n => Cardinality(Merged(A, B, n)) >= n
<1> DEFINE S == A \cup B
           M == Merged(A, B, n)
<1>1. M \subseteq S
  BY DEF Merged, Newest
<1>2. Table(M)
  BY <1>1, PartIsTable
<1>3. Newest(S, n) \subseteq M
  BY MergeKeepsRank DEF Newest
<1>4. Cardinality(Newest(S, n)) <= Cardinality(M)
  BY <1>2, <1>3, TableSize, FS_Subset
<1>5. QED
  BY <1>1, <1>2, <1>3, <1>4, NewestCount

LEMMA PageNumbers ==
    ASSUME NEW p \in Nat \ {0}, NEW size \in Nat \ {0}
    PROVE  /\ p * size \in Nat /\ (p - 1) * size \in Nat
           /\ (p - 1) * size + size = p * size
           /\ ((p + 1) - 1) * size = p * size
<1>1. \A a, b \in Nat : a * b \in Nat
  OBVIOUS
<1>2. p - 1 \in Nat
  OBVIOUS
<1>3. (p - 1) * size + size = p * size
  OBVIOUS
<1>4. QED
  BY <1>1, <1>2, <1>3

\* The page of the merged lists is the page of the whole.
LEMMA MergedPage ==
    ASSUME NEW A, NEW B, Table(A \cup B), NEW q, q.size \in Nat \ {0}, NEW p \in Nat \ {0}
    PROVE  SlicePage(Merged(A, B, FetchLimit(q, p)), q, p) = SlicePage(A \cup B, q, p)
<1> DEFINE S == A \cup B
           n == FetchLimit(q, p)
           M == Merged(A, B, n)
           o == Offset(q, p)
<1>1. PICK m \in Nat : m = p * q.size /\ o \in Nat /\ o + q.size = m /\ n = m + 1
  BY PageNumbers DEF FetchLimit, Offset
<1>2. /\ Cardinality(S) \in Nat /\ Cardinality(M) \in Nat /\ n \in Nat
      /\ Table(M) /\ M \subseteq S
      /\ Cardinality(S) <= n => M = S
      /\ Cardinality(S) > n => Cardinality(M) >= n
  <2> HIDE DEF n, M
  <2>1. n \in Nat
    BY <1>1
  <2>2. QED
    BY <2>1, MergeCount, TableSize DEF M
<1> HIDE DEF S, n, M, o
<1>3. \A j \in 1 .. q.size : o + j <= Cardinality(M) <=> o + j <= Cardinality(S)
  BY <1>1, <1>2
<1>4. Cardinality(M) > o + q.size <=> Cardinality(S) > o + q.size
  BY <1>1, <1>2
<1>5. ASSUME NEW i \in 1 .. q.size, o + i <= Cardinality(S)
      PROVE  RowAt(M, o + i) = RowAt(S, o + i)
  <2>1. o + i \in 1 .. Cardinality(S) /\ o + i <= n
    BY <1>1, <1>2, <1>5
  <2> DEFINE r == RowAt(S, o + i)
  <2>2. r \in S /\ Rank(r, S) = o + i
    BY <2>1, RowAtRank DEF S
  <2> HIDE DEF r
  <2>3. r \in M /\ Rank(r, M) = o + i
    BY <1>2, <2>1, <2>2, MergeKeepsRank DEF S, M
  <2>4. RowAt(M, o + i) = r
    BY <1>2, <2>3, RowAtRank
  <2>5. QED
    BY <2>4 DEF r
<1> DEFINE dom == {j \in 1 .. q.size : o + j <= Cardinality(S)}
<1>6. {j \in 1 .. q.size : o + j <= Cardinality(M)} = dom
  BY <1>3
<1>7. [i \in dom |-> RowAt(M, o + i)] = [i \in dom |-> RowAt(S, o + i)]
  BY <1>5
<1> DEFINE thePage(T) == [status  |-> 200,
                         items   |-> [i \in {j \in 1 .. q.size : o + j <= Cardinality(T)} |->
                                         RowAt(T, o + i)],
                         hasNext |-> Cardinality(T) > o + q.size]
<1>8. SlicePage(M, q, p) = thePage(M) /\ SlicePage(S, q, p) = thePage(S)
  BY DEF SlicePage, o
<1>9. thePage(M) = thePage(S)
  <2>1. (Cardinality(M) > o + q.size) = (Cardinality(S) > o + q.size)
    BY <1>4
  <2>2. [i \in {j \in 1 .. q.size : o + j <= Cardinality(M)} |-> RowAt(M, o + i)]
          = [i \in dom |-> RowAt(S, o + i)]
    BY <1>6, <1>7
  <2>3. QED
    BY <2>1, <2>2
<1>10. QED
  BY <1>8, <1>9 DEF S, M, n

\* The page of one list that was cut.
LEMMA CutPage ==
    ASSUME NEW A, Table(A), NEW q, q.size \in Nat \ {0}, NEW p \in Nat \ {0}
    PROVE  SlicePage(Newest(A, FetchLimit(q, p)), q, p) = SlicePage(A, q, p)
<1>1. A \cup {} = A /\ Merged(A, {}, FetchLimit(q, p)) = Newest(A, FetchLimit(q, p))
  BY DEF Merged, Newest
<1>2. Table(A \cup {})
  BY <1>1
<1>3. SlicePage(Merged(A, {}, FetchLimit(q, p)), q, p) = SlicePage(A \cup {}, q, p)
  BY <1>2, MergedPage
<1>4. QED
  BY <1>1, <1>3

\* A page shows the rows of its ranks.
LEMMA PageItems ==
    ASSUME NEW S, Table(S), NEW q, q.size \in Nat \ {0}, NEW p \in Nat \ {0}
    PROVE  LET a == SlicePage(S, q, p)
           IN  /\ ItemsOf(a) = {r \in S : Rank(r, S) > Offset(q, p) /\ Rank(r, S) <= p * q.size}
               /\ a.status = 200 /\ a.hasNext \in BOOLEAN
               /\ ~ a.hasNext => \A r \in S : Rank(r, S) <= p * q.size
<1> DEFINE a == SlicePage(S, q, p)
           o == Offset(q, p)
           dom == {j \in 1 .. q.size : o + j <= Cardinality(S)}
<1>1. PICK m \in Nat : m = p * q.size /\ o \in Nat /\ o + q.size = m
  BY PageNumbers DEF Offset
<1>2. Cardinality(S) \in Nat
  BY TableSize
<1>3. /\ DOMAIN a.items = dom
      /\ \A i \in dom : a.items[i] = RowAt(S, o + i)
      /\ a.status = 200 /\ a.hasNext = (Cardinality(S) > o + q.size)
  BY DEF SlicePage
<1> HIDE DEF a, o
<1>4. ASSUME NEW i \in dom
      PROVE  a.items[i] \in S /\ Rank(a.items[i], S) > o /\ Rank(a.items[i], S) <= m
  <2>1. o + i \in 1 .. Cardinality(S)
    BY <1>1, <1>2
  <2>2. a.items[i] \in S /\ Rank(a.items[i], S) = o + i
    BY <1>3, <2>1, RowAtRank
  <2>3. QED
    BY <1>1, <2>2
<1>5. ASSUME NEW r \in S, Rank(r, S) > o, Rank(r, S) <= m
      PROVE  \E i \in dom : a.items[i] = r
  <2>1. Rank(r, S) \in 1 .. Cardinality(S)
    BY RankIsIn
  <2>2. PICK i \in Nat : Rank(r, S) = o + i /\ i \in dom
    <3>1. Rank(r, S) - o \in dom /\ Rank(r, S) - o \in Nat
      BY <1>1, <1>2, <1>5, <2>1
    <3>2. Rank(r, S) = o + (Rank(r, S) - o)
      BY <1>1, <2>1
    <3>3. QED
      BY <3>1, <3>2
  <2>3. QED
    BY <1>3, <2>2, RowAtRank
<1>6. ItemsOf(a) = {r \in S : Rank(r, S) > o /\ Rank(r, S) <= m}
  BY <1>3, <1>4, <1>5 DEF ItemsOf
<1>7. ASSUME ~ a.hasNext, NEW r \in S
      PROVE  Rank(r, S) <= m
  <2>1. Rank(r, S) \in 1 .. Cardinality(S)
    BY RankIsIn
  <2>2. ~ (Cardinality(S) > o + q.size)
    BY <1>3, <1>7
  <2>3. QED
    BY <1>1, <1>2, <2>1, <2>2
<1>8. QED
  BY <1>1, <1>3, <1>6, <1>7 DEF a, o

-----------------------------------------------------------------------------
(***************************************************************************)
(* The invariant of the pages.                                             *)
(***************************************************************************)
AllRows == topups \cup transfers

\* The rows that the handler's page is cut from, as far as they are decided.
Seeing ==
    IF pc = "transfers" THEN seen \cup transfers ELSE IF Answered THEN seen ELSE AllRows

WantedOf(S) == {r \in S : Wanted(query, r)}

\* How many rows of the list the client has been shown.
Reached == IF Answered THEN page * query.size ELSE Offset(query, page)

FeedTyped ==
    /\ topups \subseteq TopUps /\ transfers \subseteq Transfers /\ Table(AllRows)
    /\ pc \in Working \cup {"idle", "done"}
    /\ pc # "idle" => query \in Queries
    /\ page \in Nat \ {0}
    /\ pc \in Working => FetchLimit(query, page) \in 1 .. MaxFetch
    /\ fetched \subseteq TopUps
    /\ seen \subseteq AllRows /\ shown \subseteq AllRows /\ atStart \subseteq AllRows

\* What the handler holds between its reads.
HandlerHolds ==
    /\ pc = "topups" => query.kind \in {"all", "topup"} /\ seen = {}
    /\ pc = "transfers" =>
          /\ query.kind # "topup"
          /\ seen \subseteq topups
          /\ fetched = Newest(WantedOf(seen), FetchLimit(query, page))

AnswerIsPage ==
    pc = "done" =>
        \/ answer = SlicePage(WantedOf(seen), query, page)
        \/ answer \in {Refused(400), Refused(503)}

\* Every row there was at the start has been shown, or is yet to come.
NothingLeftBehind ==
    pc # "idle" =>
        \A r \in WantedOf(atStart) :
            r \in Seeing /\ (r \in shown \/ Rank(r, WantedOf(Seeing)) > Reached)

\* Without new rows, what has been shown is what comes first.
ShownComesFirst ==
    pc # "idle" /\ AllRows = atStart =>
        \A r \in shown : Rank(r, WantedOf(AllRows)) <= Reached

FeedInv ==
    FeedTyped /\ HandlerHolds /\ AnswerIsPage /\ NothingLeftBehind /\ ShownComesFirst

LEMMA PartTables ==
    ASSUME FeedTyped
    PROVE  /\ \A S \in SUBSET AllRows : Table(WantedOf(S)) /\ WantedOf(S) \subseteq S
           /\ Seeing \subseteq AllRows
<1>1. \A S \in SUBSET AllRows : WantedOf(S) \in SUBSET AllRows /\ WantedOf(S) \subseteq S
  BY DEF WantedOf
<1>2. \A S \in SUBSET AllRows : Table(WantedOf(S))
  BY <1>1, PartIsTable DEF FeedTyped
<1>3. Seeing \subseteq AllRows
  BY DEF Seeing, FeedTyped, AllRows
<1>4. QED
  BY <1>1, <1>2, <1>3

LEMMA PageTypes ==
    ASSUME FeedTyped, pc # "idle"
    PROVE  /\ query.size \in Nat \ {0} /\ page \in Nat \ {0}
           /\ page * query.size \in Nat /\ Offset(query, page) \in Nat
           /\ Reached \in Nat
<1>1. query.size \in Nat \ {0} /\ page \in Nat \ {0}
  BY FeedAssumption DEF FeedTyped, Queries
<1>2. QED
  BY <1>1, PageNumbers DEF Offset, Reached

LEMMA RefusedIsNoPage ==
    /\ \A c : Refused(c).status = c /\ ~ Refused(c).hasNext /\ ItemsOf(Refused(c)) = {}
    /\ \A S, q, p : SlicePage(S, q, p).status = 200
BY DEF Refused, ItemsOf, SlicePage

LEMMA InitFeed == Init => FeedInv
<1> SUFFICES ASSUME Init PROVE FeedInv
  OBVIOUS
<1>1. Table({})
  BY FS_EmptySet DEF Table
<1>2. AllRows = {} /\ Table(AllRows)
  BY <1>1 DEF Init, AllRows
<1>3. FeedTyped
  BY <1>2 DEF Init, FeedTyped, Working
<1>4. QED
  BY <1>3 DEF Init, FeedInv, HandlerHolds, AnswerIsPage, NothingLeftBehind, ShownComesFirst

\* Rows that are committed leave the pages as they are.
LEMMA RowsAreAdded ==
    ASSUME FeedInv, UNCHANGED feed, topups \subseteq topups', transfers \subseteq transfers',
           topups' \subseteq TopUps, transfers' \subseteq Transfers, Table(topups' \cup transfers')
    PROVE  FeedInv'
<1>1. /\ pc' = pc /\ query' = query /\ page' = page /\ fetched' = fetched /\ answer' = answer
      /\ seen' = seen /\ shown' = shown /\ atStart' = atStart
  BY DEF feed
<1>2. AllRows \subseteq AllRows' /\ AllRows' = topups' \cup transfers'
  BY DEF AllRows
<1>3. FeedTyped'
  BY <1>1, <1>2 DEF FeedInv, FeedTyped
<1>4. HandlerHolds'
  BY <1>1 DEF FeedInv, HandlerHolds, WantedOf
<1>5. AnswerIsPage'
  BY <1>1 DEF FeedInv, AnswerIsPage, WantedOf
<1>6. Reached' = Reached /\ (Answered <=> Answered')
  BY <1>1 DEF Reached, Answered
<1>7. Seeing \subseteq Seeing'
  BY <1>1, <1>2, <1>6 DEF Seeing
<1>8. NothingLeftBehind'
  <2> SUFFICES ASSUME pc # "idle", NEW r \in WantedOf(atStart)
               PROVE  r \in Seeing' /\ (r \in shown \/ Rank(r, WantedOf(Seeing)') > Reached)
    BY <1>1, <1>6 DEF NothingLeftBehind, WantedOf
  <2>1. r \in Seeing /\ (r \in shown \/ Rank(r, WantedOf(Seeing)) > Reached)
    BY DEF FeedInv, NothingLeftBehind
  <2>2. WantedOf(Seeing) \subseteq WantedOf(Seeing)' /\ Table(WantedOf(Seeing)')
    <3>1. WantedOf(Seeing) \subseteq WantedOf(Seeing)'
      BY <1>1, <1>7 DEF WantedOf
    <3>2. WantedOf(Seeing)' \subseteq AllRows' /\ Table(AllRows')
      BY <1>1, <1>3, <1>6 DEF WantedOf, Seeing, FeedTyped, AllRows
    <3>3. QED
      BY <3>1, <3>2, PartIsTable
  <2>3. /\ Rank(r, WantedOf(Seeing)) <= Rank(r, WantedOf(Seeing)')
        /\ Rank(r, WantedOf(Seeing)) \in Nat /\ Rank(r, WantedOf(Seeing)') \in Nat
    BY <2>2, RankGrows, PartIsTable, RankIsCount
  <2>4. Reached \in Nat
    BY PageTypes DEF FeedInv
  <2>5. QED
    BY <1>7, <2>1, <2>3, <2>4
<1>9. ShownComesFirst'
  <2> SUFFICES ASSUME pc # "idle", AllRows' = atStart, NEW r \in shown
               PROVE  Rank(r, WantedOf(AllRows)') <= Reached
    BY <1>1, <1>6 DEF ShownComesFirst
  <2>1. AllRows = atStart
    BY <1>2 DEF FeedInv, FeedTyped
  <2>2. WantedOf(AllRows)' = WantedOf(AllRows)
    BY <1>1, <2>1 DEF WantedOf
  <2>3. QED
    BY <2>1, <2>2 DEF FeedInv, ShownComesFirst
<1>10. QED
  BY <1>3, <1>4, <1>5, <1>8, <1>9 DEF FeedInv

\* A request that is asked begins where the client is.
LEMMA AskInv ==
    ASSUME FeedInv, NEW q \in Queries, NEW p \in Nat \ {0}, Ask(q, p),
           atStart' \subseteq AllRows, shown' \subseteq AllRows,
           \A r \in atStart' : Wanted(q, r) =>
               r \in shown' \/ Rank(r, {w \in AllRows : Wanted(q, w)}) > Offset(q, p),
           AllRows = atStart' =>
               \A r \in shown' : Rank(r, {w \in AllRows : Wanted(q, w)}) <= Offset(q, p)
    PROVE  FeedInv'
<1> DEFINE W == {w \in AllRows : Wanted(q, w)}
<1>1. /\ query' = q /\ page' = p /\ fetched' = {} /\ seen' = {}
      /\ topups' = topups /\ transfers' = transfers /\ AllRows' = AllRows
  BY DEF Ask, tables, AllRows
<1>2. \/ /\ WindowFits(q, p)
         /\ pc' = IF q.kind \in {"all", "topup"} THEN "topups" ELSE "transfers"
      \/ pc' = "done" /\ answer' = Refused(400)
  BY DEF Ask
<1>3. ~ Answered' /\ pc' \in Working \cup {"done"} /\ pc' # "idle"
  BY <1>2, RefusedIsNoPage DEF Answered, Working
<1>4. Reached' = Offset(q, p)
  BY <1>1, <1>3 DEF Reached
<1>5. ASSUME pc' = "transfers"
      PROVE  q.kind \notin {"all", "topup"}
  BY <1>2, <1>5
<1>6. \A r \in topups : pc' = "transfers" => ~ Wanted(q, r)
  <2> SUFFICES ASSUME NEW r \in topups, pc' = "transfers" PROVE ~ Wanted(q, r)
    OBVIOUS
  <2>1. r.kind = "topup"
    BY DEF FeedInv, FeedTyped, TopUps
  <2>2. QED
    BY <1>5, <2>1 DEF Wanted, OfKind
<1>7. WantedOf(Seeing)' = W /\ WantedOf(AllRows)' = W
  <2>1. WantedOf(AllRows)' = W
    BY <1>1 DEF WantedOf
  <2>2. CASE pc' = "transfers"
    <3>1. Seeing' = transfers
      BY <1>1, <2>2 DEF Seeing
    <3>2. WantedOf(Seeing)' = {r \in transfers : Wanted(q, r)}
      BY <1>1, <3>1 DEF WantedOf
    <3>3. QED
      BY <1>6, <2>1, <2>2, <3>2 DEF AllRows
  <2>3. CASE pc' # "transfers"
    BY <1>1, <1>3, <2>1, <2>3 DEF Seeing, WantedOf
  <2>4. QED
    BY <2>2, <2>3
<1>8. FeedTyped'
  <2>1. pc' \in Working => FetchLimit(q, p) \in 1 .. MaxFetch
    <3>1. q.size \in Nat \ {0}
      BY FeedAssumption DEF Queries
    <3>2. FetchLimit(q, p) \in Nat \ {0}
      BY <3>1, PageNumbers DEF FetchLimit
    <3>3. pc' \in Working => WindowFits(q, p)
      BY <1>2 DEF Working
    <3>4. QED
      BY <3>2, <3>3, FeedAssumption DEF WindowFits
  <2>2. QED
    BY <1>1, <1>3, <2>1 DEF FeedInv, FeedTyped
<1>9. HandlerHolds'
  <2>1. ASSUME pc' = "transfers"
        PROVE  fetched' = Newest(WantedOf(seen)', FetchLimit(q, p))
    BY <1>1 DEF WantedOf, Newest
  <2>2. pc' = "transfers" => q.kind # "topup"
    BY <1>5
  <2>3. pc' = "topups" => q.kind \in {"all", "topup"}
    BY <1>2
  <2>4. QED
    BY <1>1, <2>1, <2>2, <2>3 DEF HandlerHolds
<1>10. AnswerIsPage'
  BY <1>2 DEF AnswerIsPage
<1>11. NothingLeftBehind'
  <2> SUFFICES ASSUME NEW r \in atStart', Wanted(q, r)
               PROVE  r \in Seeing' /\ (r \in shown' \/ Rank(r, WantedOf(Seeing)') > Reached')
    BY <1>1 DEF NothingLeftBehind, WantedOf
  <2>1. r \in W
    OBVIOUS
  <2>2. r \in Seeing'
    BY <1>7, <2>1 DEF WantedOf
  <2>3. QED
    BY <1>4, <1>7, <2>2
<1>12. ShownComesFirst'
  BY <1>1, <1>4, <1>7 DEF ShownComesFirst
<1>13. QED
  BY <1>8, <1>9, <1>10, <1>11, <1>12 DEF FeedInv

LEMMA FirstPageInv == FeedInv /\ FirstPage => FeedInv'
<1> SUFFICES ASSUME FeedInv, FirstPage PROVE FeedInv'
  OBVIOUS
<1>1. PICK q \in Queries : Ask(q, 1)
  BY DEF FirstPage
<1>2. shown' = {} /\ atStart' = AllRows
  BY DEF FirstPage, AllRows
<1>3. Offset(q, 1) = 0
  <2>1. q.size \in Nat
    BY FeedAssumption DEF Queries
  <2>2. QED
    BY <2>1 DEF Offset
<1>4. Table({w \in AllRows : Wanted(q, w)})
  BY PartIsTable DEF FeedInv, FeedTyped
<1>5. \A r : Rank(r, {w \in AllRows : Wanted(q, w)}) > Offset(q, 1)
  BY <1>3, <1>4, RankIsCount
<1>6. QED
  BY <1>1, <1>2, <1>5, AskInv

\* Where a client is that has been answered, or not, seen from all the rows.
LEMMA BeforeAsking ==
    ASSUME FeedInv, pc = "done"
    PROVE  \A r \in WantedOf(atStart) : r \in shown \/ Rank(r, WantedOf(AllRows)) > Reached
<1> SUFFICES ASSUME NEW r \in WantedOf(atStart), r \notin shown
             PROVE  Rank(r, WantedOf(AllRows)) > Reached
  OBVIOUS
<1>1. Rank(r, WantedOf(Seeing)) > Reached
  BY DEF FeedInv, NothingLeftBehind
<1>2. WantedOf(Seeing) \subseteq WantedOf(AllRows) /\ Table(WantedOf(AllRows))
  BY PartTables DEF FeedInv, WantedOf
<1>3. /\ Rank(r, WantedOf(Seeing)) <= Rank(r, WantedOf(AllRows))
      /\ Rank(r, WantedOf(Seeing)) \in Nat /\ Rank(r, WantedOf(AllRows)) \in Nat
  BY <1>2, PartIsTable, RankGrows, RankIsCount
<1>4. Reached \in Nat
  BY PageTypes DEF FeedInv
<1>5. QED
  BY <1>1, <1>3, <1>4

LEMMA NextPageInv == FeedInv /\ NextPage => FeedInv'
<1> SUFFICES ASSUME FeedInv, NextPage PROVE FeedInv'
  OBVIOUS
<1>1. pc = "done" /\ answer.hasNext /\ Ask(query, page + 1) /\ shown' = shown /\ atStart' = atStart
  BY DEF NextPage
<1>2. Answered
  <2>1. answer = SlicePage(WantedOf(seen), query, page)
    BY <1>1, RefusedIsNoPage DEF FeedInv, AnswerIsPage
  <2>2. QED
    BY <1>1, <2>1, RefusedIsNoPage DEF Answered
<1>3. /\ query \in Queries /\ page + 1 \in Nat \ {0} /\ Offset(query, page + 1) = Reached
  <2>1. query \in Queries
    BY <1>1 DEF FeedInv, FeedTyped
  <2>2. query.size \in Nat \ {0} /\ page \in Nat \ {0}
    BY <1>1, PageTypes DEF FeedInv
  <2>3. QED
    BY <1>2, <2>1, <2>2, PageNumbers DEF Reached, Offset
<1>4. WantedOf(AllRows) = {w \in AllRows : Wanted(query, w)}
  BY DEF WantedOf
<1>5. \A r \in atStart : Wanted(query, r) => r \in WantedOf(atStart)
  BY DEF WantedOf
<1>6. \A r \in atStart' : Wanted(query, r) =>
          r \in shown' \/ Rank(r, {w \in AllRows : Wanted(query, w)}) > Offset(query, page + 1)
  BY <1>1, <1>3, <1>4, <1>5, BeforeAsking
<1>7. AllRows = atStart' =>
          \A r \in shown' : Rank(r, {w \in AllRows : Wanted(query, w)}) <= Offset(query, page + 1)
  BY <1>1, <1>3, <1>4 DEF FeedInv, ShownComesFirst
<1>8. atStart' \subseteq AllRows /\ shown' \subseteq AllRows
  BY <1>1 DEF FeedInv, FeedTyped
<1>9. QED
  BY <1>1, <1>3, <1>6, <1>7, <1>8, AskInv

LEMMA SamePageInv == FeedInv /\ SamePage => FeedInv'
<1> SUFFICES ASSUME FeedInv, SamePage PROVE FeedInv'
  OBVIOUS
<1>1. /\ pc = "done" /\ answer.status = 503 /\ Ask(query, page)
      /\ shown' = shown /\ atStart' = atStart
  BY DEF SamePage
<1>2. /\ query \in Queries /\ page \in Nat \ {0} /\ Offset(query, page) = Reached
  BY <1>1 DEF FeedInv, FeedTyped, Reached, Answered
<1>3. WantedOf(AllRows) = {w \in AllRows : Wanted(query, w)}
  BY DEF WantedOf
<1>4. \A r \in atStart : Wanted(query, r) => r \in WantedOf(atStart)
  BY DEF WantedOf
<1>5. \A r \in atStart' : Wanted(query, r) =>
          r \in shown' \/ Rank(r, {w \in AllRows : Wanted(query, w)}) > Offset(query, page)
  BY <1>1, <1>2, <1>3, <1>4, BeforeAsking
<1>6. AllRows = atStart' =>
          \A r \in shown' : Rank(r, {w \in AllRows : Wanted(query, w)}) <= Offset(query, page)
  BY <1>1, <1>2, <1>3 DEF FeedInv, ShownComesFirst
<1>7. atStart' \subseteq AllRows /\ shown' \subseteq AllRows
  BY <1>1 DEF FeedInv, FeedTyped
<1>8. QED
  BY <1>1, <1>2, <1>5, <1>6, <1>7, AskInv

LEMMA SourceFailsInv == FeedInv /\ SourceFails => FeedInv'
<1> SUFFICES ASSUME FeedInv, SourceFails PROVE FeedInv'
  OBVIOUS
<1>1. /\ pc \in Working /\ pc' = "done" /\ answer' = Refused(503)
      /\ UNCHANGED <<topups, transfers, query, page, fetched, seen, shown, atStart>>
  BY DEF SourceFails, tables, history
<1>2. ~ Answered /\ ~ Answered' /\ pc # "idle" /\ pc # "done"
  BY <1>1, RefusedIsNoPage DEF Answered, Working
<1>3. AllRows' = AllRows /\ Reached' = Reached /\ Seeing' = AllRows
  BY <1>1, <1>2 DEF AllRows, Reached, Seeing
<1>4. FeedTyped'
  BY <1>1, <1>2, <1>3 DEF FeedInv, FeedTyped, Working
<1>5. HandlerHolds' /\ AnswerIsPage'
  BY <1>1 DEF HandlerHolds, AnswerIsPage
<1>6. NothingLeftBehind'
  <2> SUFFICES ASSUME NEW r \in WantedOf(atStart)
               PROVE  r \in AllRows /\ (r \in shown \/ Rank(r, WantedOf(AllRows)) > Reached)
    BY <1>1, <1>3 DEF NothingLeftBehind, WantedOf
  <2>1. r \in Seeing /\ (r \in shown \/ Rank(r, WantedOf(Seeing)) > Reached)
    BY <1>2 DEF FeedInv, NothingLeftBehind
  <2>2. /\ Seeing \subseteq AllRows
        /\ WantedOf(Seeing) \subseteq WantedOf(AllRows) /\ Table(WantedOf(AllRows))
    BY PartTables DEF FeedInv, WantedOf
  <2>3. /\ Rank(r, WantedOf(Seeing)) <= Rank(r, WantedOf(AllRows))
        /\ Rank(r, WantedOf(Seeing)) \in Nat /\ Rank(r, WantedOf(AllRows)) \in Nat
    BY <2>2, PartIsTable, RankGrows, RankIsCount
  <2>4. Reached \in Nat
    BY <1>2, PageTypes DEF FeedInv
  <2>5. QED
    BY <2>1, <2>2, <2>3, <2>4
<1>7. ShownComesFirst'
  BY <1>1, <1>2, <1>3 DEF FeedInv, ShownComesFirst, WantedOf
<1>8. QED
  BY <1>4, <1>5, <1>6, <1>7 DEF FeedInv

\* The answer with a page.
LEMMA RespondInv ==
    ASSUME FeedInv, pc \in Working, pc' = "done",
           UNCHANGED <<topups, transfers, query, page, fetched, atStart>>,
           answer' = SlicePage(WantedOf(Seeing), query, page),
           shown' = shown \cup ItemsOf(answer'),
           seen' \subseteq AllRows, WantedOf(seen)' = WantedOf(Seeing)
    PROVE  FeedInv' /\ (AllRows = atStart => shown \cap ItemsOf(answer') = {})
<1> DEFINE W == WantedOf(Seeing)
           o == Offset(query, page)
           m == page * query.size
<1>1. ~ Answered /\ pc # "idle" /\ pc # "done"
  BY DEF Answered, Working
<1>2. /\ query.size \in Nat \ {0} /\ page \in Nat \ {0} /\ m \in Nat /\ o \in Nat
      /\ Reached = o /\ o <= m
  <2>1. query.size \in Nat \ {0} /\ page \in Nat \ {0} /\ m \in Nat /\ o \in Nat
    BY <1>1, PageTypes DEF FeedInv
  <2>2. o + query.size = m
    BY <2>1, PageNumbers DEF Offset
  <2> HIDE DEF o, m
  <2>3. o <= m
    BY <2>1, <2>2
  <2>4. QED
    BY <1>1, <2>1, <2>3 DEF Reached, o
<1>3. Table(W) /\ W \subseteq AllRows /\ W \subseteq Seeing
  BY PartTables DEF FeedInv
<1>4. /\ ItemsOf(answer') = {r \in W : Rank(r, W) > o /\ Rank(r, W) <= m}
      /\ answer'.status = 200
  BY <1>2, <1>3, PageItems
<1>5. /\ Answered' /\ Seeing' = seen' /\ AllRows' = AllRows /\ Reached' = m
      /\ WantedOf(Seeing)' = W /\ WantedOf(AllRows)' = WantedOf(AllRows)
  <2>1. Answered' /\ AllRows' = AllRows
    BY <1>4 DEF Answered, AllRows
  <2>2. Seeing' = seen'
    BY <2>1 DEF Seeing
  <2>3. Reached' = m
    BY <2>1 DEF Reached
  <2>4. WantedOf(Seeing)' = {r \in Seeing' : Wanted(query', r)}
    BY DEF WantedOf
  <2>5. WantedOf(seen)' = {r \in seen' : Wanted(query', r)}
    BY DEF WantedOf
  <2>6. WantedOf(AllRows)' = WantedOf(AllRows)
    BY <2>1 DEF WantedOf
  <2>7. QED
    BY <2>1, <2>2, <2>3, <2>4, <2>5, <2>6
<1> HIDE DEF W, o, m
<1>6. FeedTyped'
  BY <1>3, <1>4, <1>5 DEF FeedInv, FeedTyped, Working
<1>7. HandlerHolds' /\ AnswerIsPage'
  BY DEF HandlerHolds, AnswerIsPage, W
<1>8. NothingLeftBehind'
  <2> SUFFICES ASSUME NEW r \in WantedOf(atStart)
               PROVE  r \in seen' /\ (r \in shown' \/ Rank(r, W) > m)
    BY <1>5 DEF NothingLeftBehind, WantedOf
  <2>1. r \in Seeing /\ (r \in shown \/ Rank(r, W) > o)
    BY <1>1, <1>2 DEF FeedInv, NothingLeftBehind, W
  <2>2. r \in W
    BY <2>1 DEF W, WantedOf
  <2>3. r \in seen'
    BY <2>2 DEF W, WantedOf
  <2>4. Rank(r, W) \in Nat
    BY <1>3, RankIsCount
  <2>5. QED
    BY <1>2, <1>4, <2>1, <2>2, <2>3, <2>4
<1>9. ASSUME AllRows = atStart
      PROVE  W = WantedOf(AllRows) /\ \A r \in shown : Rank(r, W) <= o
  <2>1. W = WantedOf(AllRows)
    <3>1. \A r \in WantedOf(AllRows) : r \in Seeing
      BY <1>1, <1>9 DEF FeedInv, NothingLeftBehind
    <3>2. QED
      BY <1>3, <3>1 DEF W, WantedOf
  <2>2. QED
    BY <1>1, <1>2, <1>9, <2>1 DEF FeedInv, ShownComesFirst
<1>10. \A r : Rank(r, W) \in Nat
  BY <1>3, RankIsCount
<1>11. ShownComesFirst'
  <2> SUFFICES ASSUME AllRows = atStart, NEW r \in shown'
               PROVE  Rank(r, WantedOf(AllRows)) <= m
    BY <1>5 DEF ShownComesFirst
  <2>1. Rank(r, W) <= o \/ Rank(r, W) <= m
    BY <1>4, <1>9
  <2>2. Rank(r, W) \in Nat
    BY <1>10
  <2>3. QED
    BY <1>2, <1>9, <2>1, <2>2
<1>12. ASSUME AllRows = atStart PROVE shown \cap ItemsOf(answer') = {}
  <2> SUFFICES ASSUME NEW r \in shown, r \in ItemsOf(answer') PROVE FALSE
    OBVIOUS
  <2>1. Rank(r, W) <= o /\ Rank(r, W) > o
    BY <1>4, <1>9, <1>12
  <2>2. QED
    BY <1>2, <1>10, <2>1
<1>13. QED
  BY <1>6, <1>7, <1>8, <1>11, <1>12 DEF FeedInv

LEMMA FetchTopUpsInv ==
    ASSUME FeedInv, FetchTopUps
    PROVE  /\ FeedInv'
           /\ (pc' = "done" /\ AllRows = atStart) => shown \cap ItemsOf(answer') = {}
<1> DEFINE A == {r \in topups : Wanted(query, r)}
           n == FetchLimit(query, page)
<1>1. /\ pc = "topups" /\ seen' = seen \cup topups
      /\ UNCHANGED <<topups, transfers, query, page, atStart>>
  BY DEF FetchTopUps, tables
<1>2. seen = {} /\ ~ Answered /\ pc # "idle" /\ pc # "done" /\ Seeing = AllRows
  BY <1>1 DEF FeedInv, HandlerHolds, Answered, Seeing
<1>3. seen' = topups /\ WantedOf(seen)' = A /\ seen' \subseteq AllRows
  BY <1>1, <1>2 DEF WantedOf, AllRows
<1>4. Table(A)
  BY PartIsTable DEF FeedInv, FeedTyped, AllRows
<1>5. CASE query.kind = "topup" /\ Respond(Newest(A, n)) /\ UNCHANGED fetched
  <2>1. \A r \in transfers : ~ Wanted(query, r)
    <3> SUFFICES ASSUME NEW r \in transfers PROVE ~ Wanted(query, r)
      OBVIOUS
    <3>1. r.kind \in {"transfer_sent", "transfer_received"}
      BY DEF FeedInv, FeedTyped, Transfers
    <3>2. QED
      BY <1>5, <3>1 DEF Wanted, OfKind
  <2>2. A = WantedOf(Seeing)
    BY <1>2, <2>1 DEF WantedOf, AllRows
  <2>3. query.size \in Nat \ {0} /\ page \in Nat \ {0}
    BY <1>2, PageTypes DEF FeedInv
  <2>4. SlicePage(Newest(A, n), query, page) = SlicePage(A, query, page)
    BY <1>4, <2>3, CutPage
  <2> HIDE DEF A, n
  <2>5. /\ pc' = "done" /\ answer' = SlicePage(WantedOf(Seeing), query, page)
        /\ shown' = shown \cup ItemsOf(answer')
    BY <1>5, <2>2, <2>4 DEF Respond
  <2>6. pc \in Working
    BY <1>1 DEF Working
  <2>7. QED
    BY <1>1, <1>3, <1>5, <2>2, <2>5, <2>6, RespondInv
<1>6. CASE /\ query.kind = "all" /\ pc' = "transfers" /\ fetched' = Newest(A, n)
           /\ UNCHANGED <<answer, shown>>
  <2>1. /\ ~ Answered' /\ AllRows' = AllRows /\ Seeing' = AllRows /\ Reached' = Reached
    BY <1>1, <1>2, <1>3, <1>6 DEF Answered, AllRows, Seeing, Reached
  <2>2. WantedOf(Seeing)' = WantedOf(Seeing) /\ WantedOf(AllRows)' = WantedOf(AllRows)
    BY <1>1, <1>2, <2>1 DEF WantedOf
  <2>3. A \subseteq TopUps
    BY DEF FeedInv, FeedTyped
  <2>4. fetched' \subseteq TopUps
    BY <1>6, <2>3 DEF Newest
  <2>5. FeedTyped'
    BY <1>1, <1>2, <1>3, <1>6, <2>1, <2>4 DEF FeedInv, FeedTyped, Working
  <2>6. HandlerHolds'
    BY <1>1, <1>3, <1>6 DEF HandlerHolds
  <2>7. AnswerIsPage'
    BY <1>6 DEF AnswerIsPage
  <2>8. NothingLeftBehind'
    BY <1>1, <1>2, <1>6, <2>1, <2>2 DEF FeedInv, NothingLeftBehind, WantedOf
  <2>9. ShownComesFirst'
    BY <1>1, <1>2, <1>6, <2>1, <2>2 DEF FeedInv, ShownComesFirst
  <2>10. QED
    BY <1>6, <2>5, <2>6, <2>7, <2>8, <2>9 DEF FeedInv
<1>7. QED
  BY <1>5, <1>6 DEF FetchTopUps

LEMMA FetchTransfersInv ==
    ASSUME FeedInv, FetchTransfers
    PROVE  /\ FeedInv'
           /\ AllRows = atStart => shown \cap ItemsOf(answer') = {}
<1> DEFINE B == {r \in transfers : Wanted(query, r)}
           A == WantedOf(seen)
           n == FetchLimit(query, page)
<1>1. /\ pc = "transfers" /\ seen' = seen \cup transfers /\ Respond(fetched \cup Newest(B, n))
      /\ UNCHANGED <<topups, transfers, query, page, fetched, atStart>>
  BY DEF FetchTransfers, tables
<1>2. fetched = Newest(A, n) /\ seen \subseteq topups
  BY <1>1 DEF FeedInv, HandlerHolds
<1>3. Seeing = seen \cup transfers /\ WantedOf(Seeing) = A \cup B
  BY <1>1 DEF Seeing, WantedOf
<1>4. Table(A \cup B)
  BY <1>3, PartTables DEF FeedInv
<1>5. query.size \in Nat \ {0} /\ page \in Nat \ {0}
  BY <1>1, PageTypes DEF FeedInv
<1>6. seen' \subseteq AllRows /\ WantedOf(seen)' = WantedOf(Seeing)
  BY <1>1, <1>2, <1>3 DEF AllRows, WantedOf
<1> HIDE DEF A, B, n
<1>7. SlicePage(fetched \cup Newest(B, n), query, page) = SlicePage(A \cup B, query, page)
  BY <1>2, <1>4, <1>5, MergedPage DEF Merged, n
<1>8. /\ pc' = "done" /\ answer' = SlicePage(WantedOf(Seeing), query, page)
      /\ shown' = shown \cup ItemsOf(answer')
  BY <1>1, <1>3, <1>7 DEF Respond
<1>9. pc \in Working
  BY <1>1 DEF Working
<1>10. QED
  BY <1>1, <1>6, <1>8, <1>9, RespondInv

LEMMA AddRowInv == FeedInv /\ AddRow => FeedInv'
<1> SUFFICES ASSUME FeedInv, AddRow PROVE FeedInv'
  OBVIOUS
<1>1. PICK r \in Rows :
          /\ \A s \in AllRows : s.id # r.id
          /\ IF r.kind = "topup"
             THEN topups' = topups \cup {r} /\ UNCHANGED transfers
             ELSE transfers' = transfers \cup {r} /\ UNCHANGED topups
  BY DEF AddRow, AllRows
<1>2. UNCHANGED feed
  BY DEF AddRow, history, feed
<1>3. topups \subseteq topups' /\ transfers \subseteq transfers' /\ AllRows' = AllRows \cup {r}
  BY <1>1 DEF AllRows
<1>4. topups' \subseteq TopUps /\ transfers' \subseteq Transfers
  <2>1. r.kind = "topup" => r \in TopUps
    BY DEF Rows, TopUps, Transfers
  <2>2. r.kind # "topup" => r \in Transfers
    BY DEF Rows, TopUps, Transfers
  <2>3. QED
    BY <1>1, <2>1, <2>2 DEF FeedInv, FeedTyped
<1>5. Table(AllRows \cup {r})
  BY <1>1, FS_AddElement DEF FeedInv, FeedTyped, Table
<1>6. Table(topups' \cup transfers')
  BY <1>3, <1>5 DEF AllRows
<1>7. QED
  BY <1>2, <1>3, <1>4, <1>6, RowsAreAdded

LEMMA NextFeed ==
    ASSUME FeedInv, [Next]_vars
    PROVE  /\ FeedInv'
           /\ (pc \in Working /\ pc' = "done" /\ AllRows = atStart)
                 => shown \cap ItemsOf(answer') = {}
<1>1. CASE AddRow
  BY <1>1, AddRowInv DEF AddRow, Working
<1>2. CASE FirstPage
  BY <1>2, FirstPageInv DEF FirstPage
<1>3. CASE NextPage
  BY <1>3, NextPageInv DEF NextPage, Working
<1>4. CASE SamePage
  BY <1>4, SamePageInv DEF SamePage, Working
<1>5. CASE FetchTopUps
  BY <1>5, FetchTopUpsInv
<1>6. CASE FetchTransfers
  BY <1>6, FetchTransfersInv
<1>7. CASE SourceFails
  BY <1>7, SourceFailsInv, RefusedIsNoPage DEF SourceFails
<1>8. CASE UNCHANGED vars
  <2>1. topups' = topups /\ transfers' = transfers /\ UNCHANGED feed
    BY <1>8 DEF vars, feed
  <2>2. topups' \subseteq TopUps /\ transfers' \subseteq Transfers /\ Table(topups' \cup transfers')
    BY <2>1 DEF FeedInv, FeedTyped, AllRows
  <2>3. FeedInv'
    BY <2>1, <2>2, RowsAreAdded
  <2>4. QED
    BY <2>1, <2>3 DEF feed, Working
<1>9. QED
  BY <1>1, <1>2, <1>3, <1>4, <1>5, <1>6, <1>7, <1>8 DEF Next

LEMMA FeedIsRight == FeedInv => TypeOK /\ PageIsRight /\ NothingIsSkipped
<1> SUFFICES ASSUME FeedInv PROVE TypeOK /\ PageIsRight /\ NothingIsSkipped
  OBVIOUS
<1>1. \A S \in SUBSET AllRows : Table(WantedOf(S)) /\ WantedOf(S) \subseteq S
  BY PartTables DEF FeedInv
<1>2. pc = "done" => query.size \in Nat \ {0} /\ page \in Nat \ {0}
  BY PageTypes DEF FeedInv
<1>3. seen \subseteq AllRows /\ AllRows \subseteq Rows
  BY DEF FeedInv, FeedTyped, Table
<1>4. pc = "done" => /\ answer.status \in {200, 400, 503}
                     /\ answer.hasNext \in BOOLEAN
                     /\ ItemsOf(answer) \subseteq Rows
  <2>1. CASE pc = "done" /\ answer = SlicePage(WantedOf(seen), query, page)
    <3>1. Table(WantedOf(seen)) /\ WantedOf(seen) \subseteq Rows
      BY <1>1, <1>3
    <3>2. /\ ItemsOf(answer) \subseteq WantedOf(seen)
          /\ answer.status = 200 /\ answer.hasNext \in BOOLEAN
      BY <1>2, <2>1, <3>1, PageItems
    <3>3. QED
      BY <3>1, <3>2
  <2>2. CASE pc = "done" /\ answer \in {Refused(400), Refused(503)}
    <3>1. PICK c \in {400, 503} : answer = Refused(c)
      BY <2>2
    <3>2. answer.status = c /\ answer.hasNext = FALSE /\ ItemsOf(answer) = {}
      BY <3>1, RefusedIsNoPage DEF Refused
    <3>3. QED
      BY <3>2
  <2>3. QED
    BY <2>1, <2>2 DEF FeedInv, AnswerIsPage
<1>5. TypeOK
  <2>1. \A r, s \in AllRows : r.id = s.id => r = s
    BY DEF FeedInv, FeedTyped, Table
  <2>2. QED
    BY <1>4, <2>1 DEF FeedInv, FeedTyped, TypeOK, AllRows
<1>6. PageIsRight
  BY RefusedIsNoPage DEF FeedInv, AnswerIsPage, PageIsRight, Answered, WantedOf
<1>7. NothingIsSkipped
  <2> SUFFICES ASSUME Answered, ~ answer.hasNext, NEW r \in WantedOf(atStart)
               PROVE  r \in shown
    BY DEF NothingIsSkipped, WantedOf
  <2>1. answer = SlicePage(WantedOf(seen), query, page) /\ pc = "done"
    BY RefusedIsNoPage DEF FeedInv, AnswerIsPage, Answered
  <2>2. r \in seen /\ (r \in shown \/ Rank(r, WantedOf(seen)) > page * query.size)
    BY <2>1 DEF FeedInv, NothingLeftBehind, Seeing, Reached
  <2>3. Table(WantedOf(seen)) /\ r \in WantedOf(seen)
    BY <1>1, <1>3, <2>2 DEF WantedOf
  <2>4. Rank(r, WantedOf(seen)) <= page * query.size
    BY <1>2, <2>1, <2>3, PageItems
  <2>5. Rank(r, WantedOf(seen)) \in Nat /\ page * query.size \in Nat
    BY <1>2, <2>1, <2>3, RankIsCount, PageNumbers
  <2>6. QED
    BY <2>2, <2>4, <2>5
<1>8. QED
  BY <1>5, <1>6, <1>7

-----------------------------------------------------------------------------
(***************************************************************************)
(* Sums of amounts.                                                        *)
(***************************************************************************)
LEMMA TotalType ==
    ASSUME NEW S, IsFiniteSet(S), \A r \in S : r.id \in Nat
    PROVE  Total(S) \in Nat
BY SumIsNat DEF Total, Amount, SumFunction

LEMMA TotalAdd ==
    ASSUME NEW S, IsFiniteSet(S), NEW r, r \notin S, \A s \in S \cup {r} : s.id \in Nat
    PROVE  Total(S \cup {r}) = Total(S) + r.id
<1> DEFINE f == [s \in S |-> s.id]
           g == [s \in S \cup {r} |-> s.id]
<1>1. /\ DOMAIN f = S /\ DOMAIN g = S \cup {r} /\ g[r] = r.id
      /\ \A s \in S : g[s] = f[s]
      /\ \A s \in S \cup {r} : g[s] \in Int
  OBVIOUS
<1> HIDE DEF f, g
<1>2. SumFunction(g) = SumFunction(f) + g[r]
  BY <1>1, SumFunctionAdd
<1>3. Total(S) = SumFunction(f) /\ Total(S \cup {r}) = SumFunction(g)
  BY DEF Total, Amount, f, g
<1>4. QED
  BY <1>1, <1>2, <1>3

\* Two tables with the same ids have the same sum.
LEMMA TotalById ==
    ASSUME NEW S, IsFiniteSet(S), NEW T, IsFiniteSet(T),
           \A s \in S : s.id \in Nat,
           \A s, t \in S : s.id = t.id => s = t,
           \A s, t \in T : s.id = t.id => s = t,
           \A s \in S : \E t \in T : t.id = s.id,
           \A t \in T : \E s \in S : s.id = t.id
    PROVE  Total(S) = Total(T)
<1> DEFINE h == [s \in S |-> CHOOSE t \in T : t.id = s.id]
           f == [s \in S |-> s.id]
           g == [t \in T |-> t.id]
<1>1. \A s \in S : h[s] \in T /\ h[s].id = s.id
  OBVIOUS
<1>2. \A s, t \in S : h[s] = h[t] => s = t
  BY <1>1
<1>3. \A s \in S : f[s] \in Int /\ g[h[s]] = f[s]
  BY <1>1
<1>4. (\A s \in S : h[s] \in T) /\ \A t \in T : \E s \in S : h[s] = t
  BY <1>1
<1>5. DOMAIN f = S /\ DOMAIN g = T
  OBVIOUS
<1>6. Total(S) = SumFunction(f) /\ Total(T) = SumFunction(g)
  BY DEF Total, Amount
<1>7. Renames(h, f, g, S, T)
  BY <1>2, <1>3, <1>4 DEF Renames
<1> HIDE DEF h, f, g
<1>8. SumFunctionOnSet(g, T) = SumFunctionOnSet(f, S)
  BY <1>7, SumRenamed
<1>9. QED
  BY <1>5, <1>6, <1>8 DEF SumFunction

LEMMA MinOfTwo ==
    ASSUME NEW a \in Int, NEW b \in Int
    PROVE  Min({a, b}) = IF a <= b THEN a ELSE b
<1> DEFINE m == IF a <= b THEN a ELSE b
<1>1. m \in {a, b} /\ \A y \in {a, b} : m <= y
  OBVIOUS
<1>2. \A x \in {a, b} : (\A y \in {a, b} : x <= y) => x = m
  OBVIOUS
<1>3. QED
  BY <1>1, <1>2 DEF Min

-----------------------------------------------------------------------------
(***************************************************************************)
(* The invariant of the dashboard.                                         *)
(***************************************************************************)
MovesHold ==
    /\ reading \in {"pages", "dashboard"}
    /\ reading = "pages" => asked = None
    /\ reading = "dashboard" => pc = "idle"
    /\ moved \subseteq Moves /\ IsFiniteSet(moved)
    /\ \A m, n \in moved : m.id = n.id => m = n
    /\ reading = "dashboard" =>
          /\ \A r \in topups, m \in moved : r.id # m.id
          /\ \A r \in transfers : \E m \in moved : m.id = r.id /\ m.kind = r.kind

ReadNames == {"user", "balance", "topUps", "transfers",
              "recentTransfers", "recentTopUps", "history"}

\* What is still to be read is the end of the handler's list.
ReadsInOrder ==
    /\ asked \in {None, "dashboard", "wallet", "history"}
    /\ asked = None => todo = <<>>
    /\ asked # None =>
          /\ todo \in Seq(ReadNames) /\ Len(todo) <= Len(Reads(asked))
          /\ \A i \in 1 .. Len(todo) :
                todo[i] = Reads(asked)[Len(Reads(asked)) - Len(todo) + i]

HasRead(read) == \E i \in 1 .. Len(Reads(asked)) - Len(todo) : Reads(asked)[i] = read

\* What has been read is covered by the tables, and by what was read after it.
ViewHolds ==
    /\ DOMAIN view = DOMAIN NoView
    /\ asked # None =>
          /\ HasRead("balance") =>
                /\ view.balance \in Int
                /\ view.balance <= SeedBalance + Total(topups) + Total(Received(moved))
          /\ HasRead("topUps") =>
                /\ view.balance \in Int /\ view.topUps.amount \in Nat
                /\ view.topUps.count \in 0 .. Cardinality(topups)
                /\ view.balance <= SeedBalance + view.topUps.amount + Total(Received(moved))
          /\ HasRead("transfers") =>
                view.transfers.sent.count + view.transfers.received.count
                    \in 0 .. Cardinality(transfers)
          /\ HasRead("recentTransfers") =>
                Cardinality(view.recentTransfers)
                   >= Min({Recent, view.transfers.sent.count + view.transfers.received.count})
          /\ HasRead("recentTopUps") =>
                Cardinality(view.recentTopUps) >= Min({Recent, view.topUps.count})

\* As long as nothing changes, what has been read is what is there.
QuietHolds ==
    asked # None /\ quiet =>
        /\ \A m \in moved : IsRecorded(m)
        /\ HasRead("balance") => view.balance = Balance
        /\ HasRead("topUps") => view.topUps = Summary(topups)
        /\ HasRead("transfers") => view.transfers = TransferSummary
        /\ HasRead("recentTransfers") => view.recentTransfers = Newest(transfers, Recent)

ToldHolds ==
    /\ told \in [topUps : Nat, transfers : Nat]
    /\ told.topUps <= Cardinality(topups) /\ told.transfers <= Cardinality(transfers)

HandlersHold == ReadsInOrder /\ ViewHolds /\ QuietHolds /\ ToldHolds

DashboardInv == FeedInv /\ MovesHold /\ HandlersHold

LEMMA TableFacts ==
    ASSUME FeedInv, MovesHold
    PROVE  /\ IsFiniteSet(topups) /\ IsFiniteSet(transfers) /\ IsFiniteSet(moved)
           /\ Cardinality(topups) \in Nat /\ Cardinality(transfers) \in Nat
           /\ IsFiniteSet(Received(moved)) /\ IsFiniteSet(Sent(moved))
           /\ Total(topups) \in Nat
           /\ Total(Received(moved)) \in Nat /\ Total(Sent(moved)) \in Nat
           /\ \A r \in topups \cup transfers \cup moved : r.id \in Nat
           /\ Table(topups) /\ Table(transfers)
<1>1. Table(topups) /\ Table(transfers)
  BY PartIsTable DEF FeedInv, FeedTyped, AllRows
<1>2. IsFiniteSet(topups) /\ IsFiniteSet(transfers) /\ IsFiniteSet(moved)
  BY <1>1 DEF Table, MovesHold
<1>3. \A r \in topups \cup transfers \cup moved : r.id \in Nat
  <2>1. \A r \in topups \cup transfers : r.id \in Nat
    BY <1>1, RowType DEF Table
  <2>2. \A m \in Moves : m.id \in Nat
    BY FeedAssumption DEF Moves
  <2>3. QED
    BY <2>1, <2>2 DEF MovesHold
<1>4. /\ Received(moved) \subseteq moved /\ Sent(moved) \subseteq moved
      /\ IsFiniteSet(Received(moved)) /\ IsFiniteSet(Sent(moved))
  BY <1>2, FS_Subset DEF Received, Sent
<1>5. /\ Total(topups) \in Nat
      /\ Total(Received(moved)) \in Nat /\ Total(Sent(moved)) \in Nat
  BY <1>2, <1>3, <1>4, TotalType
<1>6. QED
  BY <1>1, <1>2, <1>3, <1>4, <1>5, FS_CardinalityType

\* What is committed is added to the tables, and the sums grow with it.
LEMMA TopUpGrows ==
    ASSUME FeedInv, MovesHold, reading = "dashboard", TopUp, UNCHANGED <<feed, reading, asked>>
    PROVE  /\ FeedInv' /\ MovesHold'
           /\ topups \subseteq topups' /\ transfers' = transfers /\ moved' = moved
           /\ Total(topups) <= Total(topups')
<1>1. PICK r \in TopUps : /\ \A s \in topups \cup moved : s.id # r.id
                          /\ topups' = topups \cup {r}
  BY DEF TopUp
<1>2. transfers' = transfers /\ moved' = moved /\ pc' = pc
  BY DEF TopUp, feed
<1>3. \A s \in transfers : s.id # r.id
  BY <1>1 DEF MovesHold
<1>4. topups' \subseteq TopUps /\ TopUps \subseteq Rows
  BY <1>1 DEF FeedInv, FeedTyped, Rows
<1>5. Table(topups' \cup transfers')
  <2>1. topups' \cup transfers' = AllRows \cup {r}
    BY <1>1, <1>2 DEF AllRows
  <2>2. \A s \in AllRows : s.id # r.id
    BY <1>1, <1>3 DEF AllRows
  <2>3. Table(AllRows \cup {r})
    BY <1>4, <2>2, FS_AddElement DEF FeedInv, FeedTyped, Table
  <2>4. QED
    BY <2>1, <2>3
<1>6. FeedInv'
  BY <1>1, <1>2, <1>4, <1>5, RowsAreAdded DEF FeedInv, FeedTyped
<1>7. MovesHold'
  BY <1>1, <1>2 DEF MovesHold
<1>8. Total(topups) <= Total(topups')
  <2>1. r.id \in Nat /\ r \notin topups
    BY <1>1, <1>4, RowType
  <2>2. Total(topups \cup {r}) = Total(topups) + r.id
    BY <2>1, TableFacts, TotalAdd
  <2>3. QED
    BY <1>1, <2>1, <2>2, TableFacts
<1>9. QED
  BY <1>1, <1>2, <1>6, <1>7, <1>8

LEMMA MoveGrows ==
    ASSUME FeedInv, MovesHold, reading = "dashboard", MoveMoney, UNCHANGED <<feed, reading, asked>>
    PROVE  /\ FeedInv' /\ MovesHold'
           /\ topups' = topups /\ transfers' = transfers
           /\ Total(Received(moved)) <= Total(Received(moved'))
<1>1. PICK m \in Moves : /\ \A s \in topups \cup moved : s.id # m.id
                         /\ moved' = moved \cup {m}
  BY DEF MoveMoney
<1>2. transfers' = transfers /\ topups' = topups /\ pc' = pc
  BY DEF MoveMoney, feed, tables
<1>3. Table(topups' \cup transfers') /\ topups' \subseteq TopUps /\ transfers' \subseteq Transfers
  BY <1>2 DEF FeedInv, FeedTyped, AllRows
<1>4. FeedInv'
  BY <1>2, <1>3, RowsAreAdded
<1>5. MovesHold'
  <2>1. moved' \subseteq Moves /\ IsFiniteSet(moved')
    BY <1>1, FS_AddElement DEF MovesHold
  <2>2. \A n, o \in moved' : n.id = o.id => n = o
    BY <1>1 DEF MovesHold
  <2>3. QED
    BY <1>1, <1>2, <2>1, <2>2 DEF MovesHold
<1>6. Total(Received(moved)) <= Total(Received(moved'))
  <2>1. m.id \in Nat /\ m \notin moved
    BY <1>1, FeedAssumption DEF Moves
  <2>2. CASE m.kind = "transfer_received"
    <3>1. Received(moved') = Received(moved) \cup {m} /\ m \notin Received(moved)
      BY <1>1, <2>1, <2>2 DEF Received
    <3>2. \A s \in Received(moved) \cup {m} : s.id \in Nat
      BY <2>1, TableFacts DEF Received
    <3>3. Total(Received(moved) \cup {m}) = Total(Received(moved)) + m.id
      BY <3>1, <3>2, TableFacts, TotalAdd
    <3>4. QED
      BY <2>1, <3>1, <3>3, TableFacts
  <2>3. CASE m.kind # "transfer_received"
    <3>1. Received(moved') = Received(moved)
      BY <1>1, <2>3 DEF Received
    <3>2. QED
      BY <3>1, TableFacts
  <2>4. QED
    BY <2>2, <2>3
<1>7. QED
  BY <1>2, <1>4, <1>5, <1>6

LEMMA RecordGrows ==
    ASSUME FeedInv, MovesHold, reading = "dashboard", RecordTransfer,
           UNCHANGED <<feed, reading, asked>>
    PROVE  /\ FeedInv' /\ MovesHold'
           /\ topups' = topups /\ transfers \subseteq transfers' /\ moved' = moved
<1>1. PICK m \in moved, t \in Times :
          /\ ~ IsRecorded(m)
          /\ transfers' = transfers \cup {[id |-> m.id, at |-> t, kind |-> m.kind]}
  BY DEF RecordTransfer
<1>2. topups' = topups /\ moved' = moved /\ pc' = pc
  BY DEF RecordTransfer, feed
<1> DEFINE r == [id |-> m.id, at |-> t, kind |-> m.kind]
<1>3. r \in Transfers /\ r \in Rows
  BY DEF MovesHold, Moves, Transfers, Rows
<1>4. \A s \in AllRows : s.id # r.id
  <2>1. \A s \in topups : s.id # m.id
    BY DEF MovesHold
  <2>2. \A s \in transfers : s.id # m.id
    BY <1>1 DEF IsRecorded
  <2>3. QED
    BY <2>1, <2>2 DEF AllRows
<1>5. r.id = m.id /\ r.kind = m.kind
  OBVIOUS
<1> HIDE DEF r
<1>6. transfers' = transfers \cup {r}
  BY <1>1 DEF r
<1>7. Table(topups' \cup transfers') /\ topups' \subseteq TopUps /\ transfers' \subseteq Transfers
  <2>1. topups' \cup transfers' = AllRows \cup {r}
    BY <1>2, <1>6 DEF AllRows
  <2>2. Table(AllRows \cup {r})
    BY <1>3, <1>4, FS_AddElement DEF FeedInv, FeedTyped, Table
  <2>3. QED
    BY <1>2, <1>3, <1>6, <2>1, <2>2 DEF FeedInv, FeedTyped
<1>8. FeedInv'
  BY <1>2, <1>6, <1>7, RowsAreAdded
<1>9. MovesHold'
  BY <1>2, <1>5, <1>6 DEF MovesHold
<1>10. QED
  BY <1>2, <1>6, <1>8, <1>9

\* In sum: the tables and the sums grow, and the dashboard is no longer quiet.
LEMMA TablesGrow ==
    ASSUME FeedInv, MovesHold, reading = "dashboard", TableStep, UNCHANGED <<feed, reading, asked>>
    PROVE  /\ FeedInv' /\ MovesHold' /\ quiet' = FALSE
           /\ topups \subseteq topups' /\ transfers \subseteq transfers'
           /\ Total(topups) <= Total(topups')
           /\ Total(Received(moved)) <= Total(Received(moved'))
<1>1. Total(topups) <= Total(topups) /\ Total(Received(moved)) <= Total(Received(moved))
  BY TableFacts
<1>2. quiet' = FALSE
  BY DEF TableStep, TopUp, MoveMoney, RecordTransfer, TimePasses, Happens
<1>3. CASE TopUp
  <2>1. moved' = moved
    BY <1>3, TopUpGrows
  <2>2. QED
    BY <1>1, <1>2, <1>3, <2>1, TopUpGrows
<1>4. CASE MoveMoney
  BY <1>1, <1>2, <1>4, MoveGrows
<1>5. CASE RecordTransfer
  BY <1>1, <1>2, <1>5, RecordGrows
<1>6. CASE TimePasses
  <2>1. topups' = topups /\ transfers' = transfers /\ moved' = moved /\ pc' = pc
    BY <1>6 DEF TimePasses, tables, feed
  <2>2. Table(topups' \cup transfers') /\ topups' \subseteq TopUps /\ transfers' \subseteq Transfers
    BY <2>1 DEF FeedInv, FeedTyped, AllRows
  <2>3. FeedInv'
    BY <2>1, <2>2, RowsAreAdded
  <2>4. MovesHold'
    BY <2>1 DEF MovesHold
  <2>5. QED
    BY <1>1, <1>2, <2>1, <2>3, <2>4
<1>7. QED
  BY <1>3, <1>4, <1>5, <1>6 DEF TableStep

-----------------------------------------------------------------------------
(***************************************************************************)
(* The handlers.                                                           *)
(***************************************************************************)
LEMMA ReadsTyped ==
    ASSUME asked \in {"dashboard", "wallet", "history"}
    PROVE  Reads(asked) \in Seq(ReadNames) /\ Len(Reads(asked)) \in Nat
<1>1. DashboardReads \in Seq(ReadNames)
  BY DEF DashboardReads, ReadNames
<1>2. WalletReads \in Seq(ReadNames) /\ HistoryReads \in Seq(ReadNames)
  BY DEF WalletReads, HistoryReads, ReadNames
<1>3. Reads(asked) \in Seq(ReadNames)
  BY <1>1, <1>2 DEF Reads
<1>4. QED
  BY <1>3

\* A call is the next of the list, and is made once it is made.
LEMMA CallIsNext ==
    ASSUME ReadsInOrder, NEW read, Call(read)
    PROVE  /\ asked' = asked /\ asked # None /\ ReadsInOrder'
           /\ Reads(asked)[Len(Reads(asked)) - Len(todo) + 1] = read
           /\ Len(Reads(asked)) - Len(todo) + 1 \in 1 .. Len(Reads(asked))
           /\ \A f : HasRead(f)' <=> (f = read \/ HasRead(f))
<1> DEFINE R == Reads(asked)
           n == Len(R)
           k == n - Len(todo)
<1>1. /\ todo # <<>> /\ Head(todo) = read /\ todo' = Tail(todo) /\ asked' = asked
  BY DEF Call
<1>2. /\ asked # None /\ asked \in {"dashboard", "wallet", "history"}
      /\ todo \in Seq(ReadNames) /\ Len(todo) <= n
      /\ \A i \in 1 .. Len(todo) : todo[i] = R[n - Len(todo) + i]
  BY <1>1 DEF ReadsInOrder
<1>3. n \in Nat
  BY <1>2, ReadsTyped
<1>4. R' = R
  BY <1>1 DEF Reads
<1>5. /\ Len(todo) \in Nat \ {0} /\ Len(todo') = Len(todo) - 1 /\ todo' \in Seq(ReadNames)
      /\ todo[1] = read
      /\ \A i \in 1 .. Len(todo) - 1 : todo'[i] = todo[i + 1]
  BY <1>1, <1>2
<1> HIDE DEF R, n
<1>6. k \in Nat /\ k + 1 \in 1 .. n /\ n - Len(todo') = k + 1
  BY <1>2, <1>3, <1>5
<1>7. R[k + 1] = read
  BY <1>2, <1>5
<1>8. \A i \in 1 .. Len(todo') : todo'[i] = R[n - Len(todo') + i]
  <2> SUFFICES ASSUME NEW i \in 1 .. Len(todo') PROVE todo'[i] = R[n - Len(todo') + i]
    OBVIOUS
  <2>1. i \in 1 .. Len(todo) - 1 /\ i + 1 \in 1 .. Len(todo)
    BY <1>5
  <2>2. todo'[i] = R[n - Len(todo) + (i + 1)]
    BY <1>2, <1>5, <2>1
  <2>3. n - Len(todo) + (i + 1) = n - Len(todo') + i
    BY <1>3, <1>5, <2>1
  <2>4. QED
    BY <2>2, <2>3
<1>9. ReadsInOrder'
  <2>1. Len(todo') <= n
    BY <1>2, <1>3, <1>5
  <2>2. QED
    BY <1>1, <1>2, <1>4, <1>5, <1>8, <2>1 DEF ReadsInOrder, R, n
<1>10. ASSUME NEW f
       PROVE  HasRead(f)' <=> (f = read \/ HasRead(f))
  <2>1. HasRead(f) <=> \E i \in 1 .. k : R[i] = f
    BY DEF HasRead, R, n
  <2>2. HasRead(f)' <=> \E i \in 1 .. (k + 1) : R[i] = f
    BY <1>4, <1>6 DEF HasRead, R, n
  <2>3. (\E i \in 1 .. (k + 1) : R[i] = f) <=> (R[k + 1] = f \/ \E i \in 1 .. k : R[i] = f)
    BY <1>6
  <2>4. QED
    BY <1>7, <2>1, <2>2, <2>3
<1>11. QED
  BY <1>1, <1>2, <1>6, <1>7, <1>9, <1>10 DEF R, n

\* What the order of the lists says.
LEMMA CallsInTurn ==
    ASSUME ReadsInOrder, NEW read, Call(read)
    PROVE  /\ read = "balance" => ~ HasRead("topUps")
           /\ read = "topUps" => HasRead("balance") /\ ~ HasRead("recentTopUps")
           /\ read = "transfers" => ~ HasRead("recentTransfers")
           /\ read = "recentTransfers" => HasRead("transfers")
           /\ read = "recentTopUps" => HasRead("topUps")
<1> DEFINE R == Reads(asked)
           j == Len(R) - Len(todo) + 1
<1>1. asked \in {"dashboard", "wallet", "history"} /\ R[j] = read /\ j \in 1 .. Len(R)
  BY CallIsNext DEF ReadsInOrder
<1>2. \A f : HasRead(f) <=> \E i \in 1 .. j - 1 : R[i] = f
  <2>1. Len(R) - Len(todo) = j - 1
    BY <1>1, ReadsTyped DEF ReadsInOrder
  <2>2. QED
    BY <2>1 DEF HasRead
<1> HIDE DEF j, R
<1>3. CASE asked = "dashboard"
  <2>1. R = DashboardReads /\ j \in 1 .. 6
    BY <1>1, <1>3 DEF R, Reads, DashboardReads
  <2>2. QED
    BY <1>1, <1>2, <2>1 DEF DashboardReads
<1>4. CASE asked = "wallet"
  <2>1. R = WalletReads /\ j \in 1 .. 2
    BY <1>1, <1>4 DEF R, Reads, WalletReads
  <2>2. QED
    BY <1>1, <1>2, <2>1 DEF WalletReads
<1>5. CASE asked = "history"
  <2>1. R = HistoryReads /\ j = 1
    BY <1>1, <1>5 DEF R, Reads, HistoryReads
  <2>2. QED
    BY <1>1, <2>1 DEF HistoryReads
<1>6. QED
  BY <1>1, <1>3, <1>4, <1>5

\* With nothing left to read, everything has been.
LEMMA EverythingIsRead ==
    ASSUME ReadsInOrder, asked # None, todo = <<>>
    PROVE  /\ asked \in {"wallet", "dashboard"} => HasRead("balance") /\ HasRead("topUps")
           /\ asked = "dashboard" =>
                 HasRead("transfers") /\ HasRead("recentTransfers") /\ HasRead("recentTopUps")
<1>1. Len(todo) = 0
  OBVIOUS
<1>2. CASE asked = "dashboard"
  <2>1. Reads(asked) = DashboardReads /\ Len(DashboardReads) = 6
    BY <1>2 DEF Reads, DashboardReads
  <2>2. \A f : HasRead(f) <=> \E i \in 1 .. 6 : DashboardReads[i] = f
    BY <1>1, <2>1 DEF HasRead
  <2>3. QED
    BY <2>2 DEF DashboardReads
<1>3. CASE asked = "wallet"
  <2>1. Reads(asked) = WalletReads /\ Len(WalletReads) = 2
    BY <1>3 DEF Reads, WalletReads
  <2>2. \A f : HasRead(f) <=> \E i \in 1 .. 2 : WalletReads[i] = f
    BY <1>1, <2>1 DEF HasRead
  <2>3. QED
    BY <1>3, <2>2 DEF WalletReads
<1>4. QED
  BY <1>2, <1>3

\* Every transfer is sent or received.
LEMMA TransfersCount ==
    ASSUME FeedInv, MovesHold
    PROVE  /\ Cardinality(Sent(transfers)) \in Nat /\ Cardinality(Received(transfers)) \in Nat
           /\ Cardinality(Sent(transfers)) + Cardinality(Received(transfers))
                 = Cardinality(transfers)
           /\ TransferSummary.sent.count = Cardinality(Sent(transfers))
           /\ TransferSummary.received.count = Cardinality(Received(transfers))
<1>1. \A r \in transfers : r.kind \in {"transfer_sent", "transfer_received"}
  BY DEF FeedInv, FeedTyped, Transfers
<1>2. /\ Sent(transfers) \cup Received(transfers) = transfers
      /\ Sent(transfers) \cap Received(transfers) = {}
      /\ Sent(transfers) \subseteq transfers /\ Received(transfers) \subseteq transfers
  BY <1>1 DEF Sent, Received
<1>3. /\ IsFiniteSet(Sent(transfers)) /\ IsFiniteSet(Received(transfers))
      /\ Cardinality(Sent(transfers)) \in Nat /\ Cardinality(Received(transfers)) \in Nat
  BY <1>2, TableFacts, FS_Subset, FS_CardinalityType
<1>4. Cardinality(Sent(transfers)) + Cardinality(Received(transfers)) = Cardinality(transfers)
  BY <1>2, <1>3, FS_Union, FS_EmptySet
<1>5. \A S : Summary(S).count = Cardinality(S)
  BY DEF Summary
<1>6. QED
  BY <1>3, <1>4, <1>5 DEF TransferSummary

\* A read puts its result in its field, and changes nothing else.
LEMMA ReadGives ==
    ASSUME HandlersHold, NEW read \in DOMAIN NoView, NEW value, Read(read, value)
    PROVE  /\ asked' = asked /\ asked # None /\ ReadsInOrder' /\ quiet' = quiet
           /\ moved' = moved /\ now' = now
           /\ \A f : HasRead(f)' <=> (f = read \/ HasRead(f))
           /\ DOMAIN view' = DOMAIN NoView
           /\ view'[read] = value
           /\ \A f \in DOMAIN NoView : f # read => view'[f] = view[f]
<1>1. Call(read) /\ view' = [view EXCEPT ![read] = value]
  BY DEF Read
<1>2. DOMAIN view = DOMAIN NoView
  BY DEF HandlersHold, ViewHolds
<1>3. /\ DOMAIN view' = DOMAIN NoView /\ view'[read] = value
      /\ \A f \in DOMAIN NoView : f # read => view'[f] = view[f]
  BY <1>1, <1>2
<1>4. quiet' = quiet /\ moved' = moved /\ now' = now
  BY <1>1 DEF Call
<1>5. QED
  BY <1>1, <1>3, <1>4, CallIsNext DEF HandlersHold

LEMMA NoViewFields ==
    DOMAIN NoView = {"balance", "topUps", "transfers", "recentTransfers",
                     "recentTopUps", "history"}
BY DEF NoView

\* What a read leaves alone.
LEMMA ReadKeeps ==
    ASSUME DashboardInv, UNCHANGED <<tables, feed, reading>>,
           NEW read \in DOMAIN NoView, NEW value, Read(read, value)
    PROVE  /\ Balance' = Balance /\ Summary(topups)' = Summary(topups)
           /\ TransferSummary' = TransferSummary
           /\ topups' = topups /\ transfers' = transfers /\ moved' = moved
           /\ Total(Received(moved))' = Total(Received(moved))
           /\ \A m \in moved : IsRecorded(m)' <=> IsRecorded(m)
<1>1. moved' = moved /\ now' = now /\ topups' = topups /\ transfers' = transfers
  BY ReadGives DEF DashboardInv, tables
<1>2. Balance' = Balance
  BY <1>1 DEF Balance
<1>3. Summary(topups)' = Summary(topups)
  BY <1>1 DEF Summary, IsToday
<1>4. TransferSummary' = TransferSummary
  BY <1>1 DEF TransferSummary, Summary, IsToday
<1>5. Total(Received(moved))' = Total(Received(moved))
  BY <1>1
<1>6. \A m \in moved : IsRecorded(m)' <=> IsRecorded(m)
  BY <1>1 DEF IsRecorded
<1>7. QED
  BY <1>1, <1>2, <1>3, <1>4, <1>5, <1>6

LEMMA ReadBalanceInv ==
    ASSUME DashboardInv, UNCHANGED <<tables, feed, reading>>, ReadBalance
    PROVE  HandlersHold' /\ told' = told
<1>1. Read("balance", Balance) /\ told' = told /\ "balance" \in DOMAIN NoView
  BY NoViewFields DEF ReadBalance
<1>2. Call("balance")
  BY <1>1 DEF Read
<1>3. /\ asked' = asked /\ asked # None /\ ReadsInOrder' /\ quiet' = quiet
      /\ HasRead("balance")'
      /\ HasRead("topUps")' <=> HasRead("topUps")
      /\ HasRead("transfers")' <=> HasRead("transfers")
      /\ HasRead("recentTransfers")' <=> HasRead("recentTransfers")
      /\ HasRead("recentTopUps")' <=> HasRead("recentTopUps")
      /\ ~ HasRead("topUps")
      /\ DOMAIN view' = DOMAIN NoView
  BY <1>1, <1>2, ReadGives, CallsInTurn DEF DashboardInv, HandlersHold
<1>4. /\ view'.balance = Balance
      /\ view'.topUps = view.topUps /\ view'.transfers = view.transfers
      /\ view'.recentTransfers = view.recentTransfers
      /\ view'.recentTopUps = view.recentTopUps
  BY <1>1, ReadGives, NoViewFields DEF DashboardInv
<1>5. /\ Balance' = Balance /\ Summary(topups)' = Summary(topups)
      /\ TransferSummary' = TransferSummary
      /\ topups' = topups /\ transfers' = transfers /\ moved' = moved
      /\ Total(Received(moved))' = Total(Received(moved))
      /\ \A m \in moved : IsRecorded(m)' <=> IsRecorded(m)
  BY <1>1, ReadKeeps
<1>6. /\ Balance \in Int
      /\ Balance <= SeedBalance + Total(topups) + Total(Received(moved))
  BY TableFacts, DashboardAssumption DEF Balance, DashboardInv
<1>7. ViewHolds'
  BY <1>3, <1>4, <1>5, <1>6 DEF DashboardInv, HandlersHold, ViewHolds
<1>8. QuietHolds'
  BY <1>3, <1>4, <1>5 DEF DashboardInv, HandlersHold, QuietHolds
<1>9. ToldHolds'
  BY <1>1, <1>5 DEF DashboardInv, HandlersHold, ToldHolds
<1>10. QED
  BY <1>1, <1>3, <1>7, <1>8, <1>9 DEF HandlersHold

LEMMA ReadTopUpSummaryInv ==
    ASSUME DashboardInv, UNCHANGED <<tables, feed, reading>>, ReadTopUpSummary
    PROVE  HandlersHold' /\ told'.topUps >= told.topUps /\ told'.transfers >= told.transfers
<1> DEFINE value == Summary(topups)
<1>1. /\ Read("topUps", value) /\ "topUps" \in DOMAIN NoView
      /\ told' = [told EXCEPT !.topUps = view'.topUps.count]
  BY NoViewFields DEF ReadTopUpSummary
<1> HIDE DEF value
<1>2. Call("topUps")
  BY <1>1 DEF Read
<1>3. /\ asked' = asked /\ asked # None /\ ReadsInOrder' /\ quiet' = quiet
      /\ HasRead("topUps")' /\ HasRead("balance")
      /\ HasRead("transfers")' <=> HasRead("transfers")
      /\ HasRead("recentTransfers")' <=> HasRead("recentTransfers")
      /\ ~ HasRead("recentTopUps")'
      /\ DOMAIN view' = DOMAIN NoView
  BY <1>1, <1>2, ReadGives, CallsInTurn DEF DashboardInv, HandlersHold
<1>4. /\ view'.topUps = value
      /\ view'.balance = view.balance /\ view'.transfers = view.transfers
      /\ view'.recentTransfers = view.recentTransfers
      /\ view'.recentTopUps = view.recentTopUps
  BY <1>1, ReadGives, NoViewFields DEF DashboardInv
<1>5. /\ Balance' = Balance /\ Summary(topups)' = Summary(topups)
      /\ TransferSummary' = TransferSummary
      /\ topups' = topups /\ transfers' = transfers /\ moved' = moved
      /\ Total(Received(moved))' = Total(Received(moved))
      /\ \A m \in moved : IsRecorded(m)' <=> IsRecorded(m)
  BY <1>1, ReadKeeps
<1>6. /\ value.count = Cardinality(topups) /\ value.amount = Total(topups)
      /\ Cardinality(topups) \in Nat /\ Total(topups) \in Nat
      /\ Total(Received(moved)) \in Nat
  BY TableFacts DEF Summary, DashboardInv, value
<1>7. ViewHolds'
  BY <1>3, <1>4, <1>5, <1>6 DEF DashboardInv, HandlersHold, ViewHolds
<1>8. QuietHolds'
  BY <1>3, <1>4, <1>5 DEF DashboardInv, HandlersHold, QuietHolds, value
<1>9. ToldHolds' /\ told'.topUps >= told.topUps /\ told'.transfers = told.transfers
  <2>1. told' = [told EXCEPT !.topUps = Cardinality(topups)]
    BY <1>1, <1>4, <1>6
  <2>2. QED
    BY <1>5, <1>6, <2>1 DEF DashboardInv, HandlersHold, ToldHolds
<1>10. QED
  BY <1>3, <1>7, <1>8, <1>9 DEF DashboardInv, HandlersHold, ToldHolds

LEMMA ReadTransferSummaryInv ==
    ASSUME DashboardInv, UNCHANGED <<tables, feed, reading>>, ReadTransferSummary
    PROVE  HandlersHold' /\ told'.topUps >= told.topUps /\ told'.transfers >= told.transfers
<1> DEFINE value == TransferSummary
<1>1. /\ Read("transfers", value) /\ "transfers" \in DOMAIN NoView
      /\ told' = [told EXCEPT !.transfers =
                      view'.transfers.sent.count + view'.transfers.received.count]
  BY NoViewFields DEF ReadTransferSummary
<1> HIDE DEF value
<1>2. Call("transfers")
  BY <1>1 DEF Read
<1>3. /\ asked' = asked /\ asked # None /\ ReadsInOrder' /\ quiet' = quiet
      /\ HasRead("transfers")'
      /\ HasRead("balance")' <=> HasRead("balance")
      /\ HasRead("topUps")' <=> HasRead("topUps")
      /\ ~ HasRead("recentTransfers")'
      /\ HasRead("recentTopUps")' <=> HasRead("recentTopUps")
      /\ DOMAIN view' = DOMAIN NoView
  BY <1>1, <1>2, ReadGives, CallsInTurn DEF DashboardInv, HandlersHold
<1>4. /\ view'.transfers = value
      /\ view'.balance = view.balance /\ view'.topUps = view.topUps
      /\ view'.recentTransfers = view.recentTransfers
      /\ view'.recentTopUps = view.recentTopUps
  BY <1>1, ReadGives, NoViewFields DEF DashboardInv
<1>5. /\ Balance' = Balance /\ Summary(topups)' = Summary(topups)
      /\ TransferSummary' = TransferSummary
      /\ topups' = topups /\ transfers' = transfers /\ moved' = moved
      /\ Total(Received(moved))' = Total(Received(moved))
      /\ \A m \in moved : IsRecorded(m)' <=> IsRecorded(m)
  BY <1>1, ReadKeeps
<1>6. /\ value.sent.count + value.received.count = Cardinality(transfers)
      /\ Cardinality(transfers) \in Nat
  BY TableFacts, TransfersCount DEF DashboardInv, value
<1>7. ViewHolds'
  BY <1>3, <1>4, <1>5, <1>6 DEF DashboardInv, HandlersHold, ViewHolds
<1>8. QuietHolds'
  BY <1>3, <1>4, <1>5 DEF DashboardInv, HandlersHold, QuietHolds, value
<1>9. ToldHolds' /\ told'.transfers >= told.transfers /\ told'.topUps = told.topUps
  <2>1. told' = [told EXCEPT !.transfers = Cardinality(transfers)]
    BY <1>1, <1>4, <1>6
  <2>2. QED
    BY <1>5, <1>6, <2>1 DEF DashboardInv, HandlersHold, ToldHolds
<1>10. QED
  BY <1>3, <1>7, <1>8, <1>9 DEF DashboardInv, HandlersHold, ToldHolds

\* The newest rows are as many as were counted, or as the list takes.
LEMMA RecentCount ==
    ASSUME NEW S, Table(S), NEW n \in 0 .. Cardinality(S)
    PROVE  /\ Cardinality(Newest(S, Recent)) >= Min({Recent, n})
           /\ n = Cardinality(S) => Cardinality(Newest(S, Recent)) = Min({Recent, n})
<1>1. Recent \in Nat /\ Cardinality(S) \in Nat /\ n \in Nat /\ n <= Cardinality(S)
  BY TableSize, DashboardAssumption
<1>2. Min({Recent, n}) = IF Recent <= n THEN Recent ELSE n
  BY <1>1, MinOfTwo
<1>3. Cardinality(Newest(S, Recent)) = IF Cardinality(S) <= Recent THEN Cardinality(S) ELSE Recent
  BY <1>1, NewestCount
<1>4. QED
  BY <1>1, <1>2, <1>3

LEMMA ReadRecentTransfersInv ==
    ASSUME DashboardInv, UNCHANGED <<tables, feed, reading>>, ReadRecentTransfers
    PROVE  HandlersHold' /\ told' = told
<1> DEFINE value == Newest(transfers, Recent)
<1>1. Read("recentTransfers", value) /\ "recentTransfers" \in DOMAIN NoView /\ told' = told
  BY NoViewFields DEF ReadRecentTransfers
<1> HIDE DEF value
<1>2. Call("recentTransfers")
  BY <1>1 DEF Read
<1>3. /\ asked' = asked /\ asked # None /\ ReadsInOrder' /\ quiet' = quiet
      /\ HasRead("recentTransfers")' /\ HasRead("transfers")
      /\ HasRead("balance")' <=> HasRead("balance")
      /\ HasRead("topUps")' <=> HasRead("topUps")
      /\ HasRead("transfers")' <=> HasRead("transfers")
      /\ HasRead("recentTopUps")' <=> HasRead("recentTopUps")
      /\ DOMAIN view' = DOMAIN NoView
  BY <1>1, <1>2, ReadGives, CallsInTurn DEF DashboardInv, HandlersHold
<1>4. /\ view'.recentTransfers = value
      /\ view'.balance = view.balance /\ view'.topUps = view.topUps
      /\ view'.transfers = view.transfers /\ view'.recentTopUps = view.recentTopUps
  BY <1>1, ReadGives, NoViewFields DEF DashboardInv
<1>5. /\ Balance' = Balance /\ Summary(topups)' = Summary(topups)
      /\ TransferSummary' = TransferSummary
      /\ topups' = topups /\ transfers' = transfers /\ moved' = moved
      /\ Total(Received(moved))' = Total(Received(moved))
      /\ \A m \in moved : IsRecorded(m)' <=> IsRecorded(m)
  BY <1>1, ReadKeeps
<1>6. Cardinality(value)
         >= Min({Recent, view.transfers.sent.count + view.transfers.received.count})
  <2>1. view.transfers.sent.count + view.transfers.received.count \in 0 .. Cardinality(transfers)
    BY <1>3 DEF DashboardInv, HandlersHold, ViewHolds
  <2>2. Table(transfers)
    BY TableFacts DEF DashboardInv
  <2>3. QED
    BY <2>1, <2>2, RecentCount DEF value
<1>7. ViewHolds'
  BY <1>3, <1>4, <1>5, <1>6 DEF DashboardInv, HandlersHold, ViewHolds
<1>8. QuietHolds'
  BY <1>3, <1>4, <1>5 DEF DashboardInv, HandlersHold, QuietHolds, value
<1>9. ToldHolds'
  BY <1>1, <1>5 DEF DashboardInv, HandlersHold, ToldHolds
<1>10. QED
  BY <1>1, <1>3, <1>7, <1>8, <1>9 DEF HandlersHold

LEMMA ReadRecentTopUpsInv ==
    ASSUME DashboardInv, UNCHANGED <<tables, feed, reading>>, ReadRecentTopUps
    PROVE  HandlersHold' /\ told' = told
<1> DEFINE value == Newest(topups, Recent)
<1>1. Read("recentTopUps", value) /\ "recentTopUps" \in DOMAIN NoView /\ told' = told
  BY NoViewFields DEF ReadRecentTopUps
<1> HIDE DEF value
<1>2. Call("recentTopUps")
  BY <1>1 DEF Read
<1>3. /\ asked' = asked /\ asked # None /\ ReadsInOrder' /\ quiet' = quiet
      /\ HasRead("recentTopUps")' /\ HasRead("topUps")
      /\ HasRead("balance")' <=> HasRead("balance")
      /\ HasRead("topUps")' <=> HasRead("topUps")
      /\ HasRead("transfers")' <=> HasRead("transfers")
      /\ HasRead("recentTransfers")' <=> HasRead("recentTransfers")
      /\ DOMAIN view' = DOMAIN NoView
  BY <1>1, <1>2, ReadGives, CallsInTurn DEF DashboardInv, HandlersHold
<1>4. /\ view'.recentTopUps = value
      /\ view'.balance = view.balance /\ view'.topUps = view.topUps
      /\ view'.transfers = view.transfers /\ view'.recentTransfers = view.recentTransfers
  BY <1>1, ReadGives, NoViewFields DEF DashboardInv
<1>5. /\ Balance' = Balance /\ Summary(topups)' = Summary(topups)
      /\ TransferSummary' = TransferSummary
      /\ topups' = topups /\ transfers' = transfers /\ moved' = moved
      /\ Total(Received(moved))' = Total(Received(moved))
      /\ \A m \in moved : IsRecorded(m)' <=> IsRecorded(m)
  BY <1>1, ReadKeeps
<1>6. Cardinality(value) >= Min({Recent, view.topUps.count})
  <2>1. view.topUps.count \in 0 .. Cardinality(topups)
    BY <1>3 DEF DashboardInv, HandlersHold, ViewHolds
  <2>2. Table(topups)
    BY TableFacts DEF DashboardInv
  <2>3. QED
    BY <2>1, <2>2, RecentCount DEF value
<1>7. ViewHolds'
  BY <1>3, <1>4, <1>5, <1>6 DEF DashboardInv, HandlersHold, ViewHolds
<1>8. QuietHolds'
  BY <1>3, <1>4, <1>5 DEF DashboardInv, HandlersHold, QuietHolds
<1>9. ToldHolds'
  BY <1>1, <1>5 DEF DashboardInv, HandlersHold, ToldHolds
<1>10. QED
  BY <1>1, <1>3, <1>7, <1>8, <1>9 DEF HandlersHold

LEMMA ReadHistoryInv ==
    ASSUME DashboardInv, UNCHANGED <<tables, feed, reading>>, ReadHistory
    PROVE  HandlersHold' /\ told'.topUps >= told.topUps /\ told'.transfers >= told.transfers
<1> DEFINE value == History
<1>1. /\ Read("history", value) /\ "history" \in DOMAIN NoView
      /\ told' = [told EXCEPT !.transfers = Len(view'.history)]
  BY NoViewFields DEF ReadHistory
<1>2. Cardinality(transfers) \in Nat /\ Len(value) = Cardinality(transfers)
  <2>1. PICK n \in Nat : n = Cardinality(transfers)
    BY TableFacts DEF DashboardInv
  <2>2. value = [i \in 1 .. n |-> RowAt(transfers, i)]
    BY <2>1 DEF History
  <2>3. QED
    BY <2>1, <2>2
<1> HIDE DEF value
<1>3. /\ asked' = asked /\ asked # None /\ ReadsInOrder' /\ quiet' = quiet
      /\ HasRead("balance")' <=> HasRead("balance")
      /\ HasRead("topUps")' <=> HasRead("topUps")
      /\ HasRead("transfers")' <=> HasRead("transfers")
      /\ HasRead("recentTransfers")' <=> HasRead("recentTransfers")
      /\ HasRead("recentTopUps")' <=> HasRead("recentTopUps")
      /\ DOMAIN view' = DOMAIN NoView
  BY <1>1, ReadGives DEF DashboardInv
<1>4. /\ view'.history = value
      /\ view'.balance = view.balance /\ view'.topUps = view.topUps
      /\ view'.transfers = view.transfers
      /\ view'.recentTransfers = view.recentTransfers
      /\ view'.recentTopUps = view.recentTopUps
  BY <1>1, ReadGives, NoViewFields DEF DashboardInv
<1>5. /\ Balance' = Balance /\ Summary(topups)' = Summary(topups)
      /\ TransferSummary' = TransferSummary
      /\ topups' = topups /\ transfers' = transfers /\ moved' = moved
      /\ Total(Received(moved))' = Total(Received(moved))
      /\ \A m \in moved : IsRecorded(m)' <=> IsRecorded(m)
  BY <1>1, ReadKeeps
<1>6. ViewHolds'
  BY <1>3, <1>4, <1>5 DEF DashboardInv, HandlersHold, ViewHolds
<1>7. QuietHolds'
  BY <1>3, <1>4, <1>5 DEF DashboardInv, HandlersHold, QuietHolds
<1>8. ToldHolds' /\ told'.transfers >= told.transfers /\ told'.topUps = told.topUps
  <2>1. told' = [told EXCEPT !.transfers = Cardinality(transfers)]
    BY <1>1, <1>2, <1>4
  <2>2. QED
    BY <1>2, <1>5, <2>1 DEF DashboardInv, HandlersHold, ToldHolds
<1>9. QED
  BY <1>3, <1>6, <1>7, <1>8 DEF DashboardInv, HandlersHold, ToldHolds

LEMMA ReadUserInv ==
    ASSUME DashboardInv, UNCHANGED <<tables, feed, reading>>, ReadUser
    PROVE  HandlersHold' /\ told' = told
<1>1. Call("user") /\ view' = view /\ told' = told
  BY DEF ReadUser
<1>2. /\ asked' = asked /\ asked # None /\ ReadsInOrder' /\ quiet' = quiet
      /\ HasRead("balance")' <=> HasRead("balance")
      /\ HasRead("topUps")' <=> HasRead("topUps")
      /\ HasRead("transfers")' <=> HasRead("transfers")
      /\ HasRead("recentTransfers")' <=> HasRead("recentTransfers")
      /\ HasRead("recentTopUps")' <=> HasRead("recentTopUps")
  <2>1. quiet' = quiet
    BY <1>1 DEF Call
  <2>2. QED
    BY <1>1, <2>1, CallIsNext DEF DashboardInv, HandlersHold
<1>3. moved' = moved /\ now' = now /\ topups' = topups /\ transfers' = transfers
  BY <1>1 DEF Call, tables
<1>4. /\ Balance' = Balance /\ Summary(topups)' = Summary(topups)
      /\ TransferSummary' = TransferSummary
      /\ \A m \in moved : IsRecorded(m)' <=> IsRecorded(m)
  BY <1>3 DEF Balance, TransferSummary, Summary, IsToday, IsRecorded
<1>5. ViewHolds'
  BY <1>1, <1>2, <1>3 DEF DashboardInv, HandlersHold, ViewHolds
<1>6. QuietHolds'
  BY <1>1, <1>2, <1>3, <1>4 DEF DashboardInv, HandlersHold, QuietHolds
<1>7. ToldHolds'
  BY <1>1, <1>3 DEF DashboardInv, HandlersHold, ToldHolds
<1>8. QED
  BY <1>1, <1>2, <1>5, <1>6, <1>7 DEF HandlersHold

LEMMA OpenInv ==
    ASSUME DashboardInv, UNCHANGED <<tables, feed, reading>>, Open
    PROVE  HandlersHold' /\ told' = told
<1>1. /\ asked = None /\ asked' \in {"dashboard", "wallet", "history"}
      /\ todo' = Reads(asked') /\ UNCHANGED <<moved, now, view, told>>
      /\ quiet' = (\A m \in moved : IsRecorded(m))
  BY DEF Open
<1>2. asked' # None
  BY <1>1, DashboardAssumption
<1>3. Reads(asked)' \in Seq(ReadNames) /\ Reads(asked)' = Reads(asked') /\ Len(todo') \in Nat
  <2>1. (Reads(asked) \in Seq(ReadNames) /\ Len(Reads(asked)) \in Nat)'
    <3>1. (asked \in {"dashboard", "wallet", "history"})'
      BY <1>1
    <3>2. QED
      BY <3>1, ReadsTyped, PTL
  <2>2. QED
    BY <1>1, <2>1
<1>4. \A f : ~ HasRead(f)'
  BY <1>1, <1>3 DEF HasRead
<1>5. ReadsInOrder'
  BY <1>1, <1>2, <1>3 DEF ReadsInOrder
<1>6. ViewHolds'
  BY <1>1, <1>4 DEF DashboardInv, HandlersHold, ViewHolds
<1>7. QuietHolds'
  <2>1. (\A m \in moved : IsRecorded(m))' <=> (\A m \in moved : IsRecorded(m))
    BY <1>1 DEF IsRecorded, tables
  <2>2. QED
    BY <1>1, <1>4, <2>1 DEF QuietHolds
<1>8. ToldHolds'
  BY <1>1 DEF DashboardInv, HandlersHold, ToldHolds, tables
<1>9. QED
  BY <1>1, <1>5, <1>6, <1>7, <1>8 DEF HandlersHold

LEMMA CloseInv ==
    ASSUME DashboardInv, UNCHANGED <<tables, feed, reading>>, Close
    PROVE  HandlersHold' /\ told' = told
<1>1. asked' = None /\ todo' = <<>> /\ view' = NoView /\ UNCHANGED <<moved, now, told>>
  BY DEF Close
<1>2. ReadsInOrder' /\ QuietHolds' /\ ViewHolds'
  BY <1>1 DEF ReadsInOrder, QuietHolds, ViewHolds
<1>3. ToldHolds'
  BY <1>1 DEF DashboardInv, HandlersHold, ToldHolds, tables
<1>4. QED
  BY <1>1, <1>2, <1>3 DEF HandlersHold

LEMMA HandlerStepInv ==
    ASSUME DashboardInv, UNCHANGED <<tables, feed, reading>>, HandlerStep,
           reading = "dashboard"
    PROVE  DashboardInv' /\ told'.topUps >= told.topUps /\ told'.transfers >= told.transfers
<1>1. told.topUps >= told.topUps /\ told.transfers >= told.transfers
  BY DEF DashboardInv, HandlersHold, ToldHolds
<1>2. HandlersHold' /\ told'.topUps >= told.topUps /\ told'.transfers >= told.transfers
  <2>1. CASE Open
    BY <1>1, <2>1, OpenInv
  <2>2. CASE ReadUser
    BY <1>1, <2>2, ReadUserInv
  <2>3. CASE ReadBalance
    BY <1>1, <2>3, ReadBalanceInv
  <2>4. CASE ReadTopUpSummary
    BY <2>4, ReadTopUpSummaryInv
  <2>5. CASE ReadTransferSummary
    BY <2>5, ReadTransferSummaryInv
  <2>6. CASE ReadRecentTransfers
    BY <1>1, <2>6, ReadRecentTransfersInv
  <2>7. CASE ReadRecentTopUps
    BY <1>1, <2>7, ReadRecentTopUpsInv
  <2>8. CASE ReadHistory
    BY <2>8, ReadHistoryInv
  <2>9. CASE Close
    BY <1>1, <2>9, CloseInv
  <2>10. QED
    BY <2>1, <2>2, <2>3, <2>4, <2>5, <2>6, <2>7, <2>8, <2>9 DEF HandlerStep
<1>3. topups' = topups /\ transfers' = transfers /\ pc' = pc /\ reading' = reading
  BY DEF tables, feed
<1>4. FeedInv'
  <2>1. topups' \subseteq TopUps /\ transfers' \subseteq Transfers /\ Table(topups' \cup transfers')
    BY <1>3 DEF DashboardInv, FeedInv, FeedTyped, AllRows
  <2>2. QED
    BY <1>3, <2>1, RowsAreAdded DEF DashboardInv
<1>5. moved' = moved
  BY DEF HandlerStep, Open, ReadUser, ReadBalance, ReadTopUpSummary, ReadTransferSummary,
         ReadRecentTransfers, ReadRecentTopUps, ReadHistory, Close, Read, Call
<1>6. MovesHold'
  BY <1>3, <1>5 DEF DashboardInv, MovesHold
<1>7. QED
  BY <1>2, <1>4, <1>6 DEF DashboardInv

\* Tables that grow leave the numbers of rows told of in them.
LEMMA ToldStays ==
    ASSUME ToldHolds, told' = told, topups \subseteq topups', transfers \subseteq transfers',
           FeedInv, FeedInv'
    PROVE  /\ ToldHolds'
           /\ Cardinality(topups) \in Nat /\ Cardinality(topups') \in Nat
           /\ Cardinality(topups) <= Cardinality(topups')
           /\ Cardinality(transfers) \in Nat /\ Cardinality(transfers') \in Nat
           /\ Cardinality(transfers) <= Cardinality(transfers')
<1>1. IsFiniteSet(topups') /\ IsFiniteSet(transfers')
  <2>1. IsFiniteSet(AllRows')
    BY DEF FeedInv, FeedTyped, Table
  <2>2. QED
    BY <2>1, FS_Subset DEF AllRows
<1>2. /\ Cardinality(topups) \in Nat /\ Cardinality(topups') \in Nat
      /\ Cardinality(topups) <= Cardinality(topups')
      /\ Cardinality(transfers) \in Nat /\ Cardinality(transfers') \in Nat
      /\ Cardinality(transfers) <= Cardinality(transfers')
  BY <1>1, FS_Subset, FS_CardinalityType
<1>3. QED
  BY <1>2 DEF ToldHolds

LEMMA TableStepInv ==
    ASSUME DashboardInv, reading = "dashboard", TableStep,
           UNCHANGED <<feed, reading, asked, todo, view, told>>
    PROVE  DashboardInv' /\ told' = told
<1>1. /\ FeedInv' /\ MovesHold' /\ quiet' = FALSE
      /\ topups \subseteq topups' /\ transfers \subseteq transfers'
      /\ Total(topups) <= Total(topups')
      /\ Total(Received(moved)) <= Total(Received(moved'))
  BY TablesGrow DEF DashboardInv
<1>2. asked' = asked /\ todo' = todo /\ view' = view /\ told' = told
  OBVIOUS
<1>3. ReadsInOrder'
  BY <1>2 DEF DashboardInv, HandlersHold, ReadsInOrder, Reads
<1>4. \A f : HasRead(f)' <=> HasRead(f)
  BY <1>2 DEF HasRead, Reads
<1>5. /\ ToldHolds'
      /\ Cardinality(topups) \in Nat /\ Cardinality(topups') \in Nat
      /\ Cardinality(topups) <= Cardinality(topups')
      /\ Cardinality(transfers) \in Nat /\ Cardinality(transfers') \in Nat
      /\ Cardinality(transfers) <= Cardinality(transfers')
  BY <1>1, <1>2, ToldStays DEF DashboardInv, HandlersHold
<1>6. /\ Total(topups) \in Nat /\ Total(Received(moved)) \in Nat
      /\ Total(topups') \in Nat /\ Total(Received(moved')) \in Nat
  <2>1. (Total(topups) \in Nat /\ Total(Received(moved)) \in Nat)'
    BY <1>1, TableFacts, PTL
  <2>2. QED
    BY <2>1, TableFacts DEF DashboardInv
<1>7. ViewHolds'
  <2>1. DOMAIN view = DOMAIN NoView
    BY DEF DashboardInv, HandlersHold, ViewHolds
  <2> SUFFICES ASSUME asked # None PROVE ViewHolds'
    BY <1>2, <2>1 DEF ViewHolds
  <2>2. HasRead("balance") =>
            /\ view.balance \in Int
            /\ view.balance <= SeedBalance + Total(topups') + Total(Received(moved'))
    BY <1>1, <1>6, DashboardAssumption DEF DashboardInv, HandlersHold, ViewHolds
  <2>3. HasRead("topUps") =>
            /\ view.balance \in Int /\ view.topUps.amount \in Nat
            /\ view.topUps.count \in 0 .. Cardinality(topups')
            /\ view.balance <= SeedBalance + view.topUps.amount + Total(Received(moved'))
    BY <1>1, <1>5, <1>6, DashboardAssumption DEF DashboardInv, HandlersHold, ViewHolds
  <2>4. HasRead("transfers") =>
            view.transfers.sent.count + view.transfers.received.count
                \in 0 .. Cardinality(transfers')
    BY <1>5 DEF DashboardInv, HandlersHold, ViewHolds
  <2>5. /\ HasRead("recentTransfers") =>
              Cardinality(view.recentTransfers)
                 >= Min({Recent, view.transfers.sent.count + view.transfers.received.count})
        /\ HasRead("recentTopUps") =>
              Cardinality(view.recentTopUps) >= Min({Recent, view.topUps.count})
    BY DEF DashboardInv, HandlersHold, ViewHolds
  <2>6. QED
    BY <1>2, <1>4, <2>1, <2>2, <2>3, <2>4, <2>5 DEF ViewHolds
<1>8. QuietHolds'
  BY <1>1 DEF QuietHolds
<1>9. QED
  BY <1>1, <1>2, <1>3, <1>5, <1>7, <1>8 DEF DashboardInv, HandlersHold

\* The pages only add to the tables.
LEMMA PagesStepInv ==
    ASSUME DashboardInv, reading = "pages", Next, UNCHANGED dashboard
    PROVE  DashboardInv' /\ told' = told
<1>1. FeedInv'
  BY NextFeed DEF DashboardInv
<1>2. topups \subseteq topups' /\ transfers \subseteq transfers'
  BY DEF Next, AddRow, FirstPage, NextPage, SamePage, Ask, FetchTopUps, FetchTransfers,
         SourceFails, tables
<1>3. /\ reading' = reading /\ moved' = moved /\ now' = now /\ asked' = asked /\ todo' = todo
      /\ view' = view /\ quiet' = quiet /\ told' = told
  BY DEF dashboard
<1>4. asked = None
  BY DEF DashboardInv, MovesHold
<1>5. MovesHold'
  BY <1>3 DEF DashboardInv, MovesHold
<1>6. ReadsInOrder'
  BY <1>3, <1>4 DEF DashboardInv, HandlersHold, ReadsInOrder
<1>7. ViewHolds' /\ QuietHolds'
  BY <1>3, <1>4 DEF DashboardInv, HandlersHold, ViewHolds, QuietHolds
<1>8. ToldHolds'
  BY <1>1, <1>2, <1>3, ToldStays DEF DashboardInv, HandlersHold
<1>9. QED
  BY <1>1, <1>3, <1>5, <1>6, <1>7, <1>8 DEF DashboardInv, HandlersHold

LEMMA InitDashboard == DashboardInit => DashboardInv
<1> SUFFICES ASSUME DashboardInit PROVE DashboardInv
  OBVIOUS
<1>1. FeedInv
  BY InitFeed DEF DashboardInit
<1>2. /\ topups = {} /\ transfers = {} /\ moved = {} /\ asked = None /\ todo = <<>>
      /\ pc = "idle" /\ view = NoView /\ reading \in {"pages", "dashboard"}
      /\ told = [topUps |-> 0, transfers |-> 0]
  BY DEF DashboardInit, Init
<1>3. MovesHold
  BY <1>2, FS_EmptySet DEF MovesHold
<1>4. ReadsInOrder /\ ViewHolds /\ QuietHolds
  BY <1>2 DEF ReadsInOrder, ViewHolds, QuietHolds
<1>5. ToldHolds
  BY <1>2, FS_EmptySet DEF ToldHolds
<1>6. QED
  BY <1>1, <1>3, <1>4, <1>5 DEF DashboardInv, HandlersHold

LEMMA NextDashboard ==
    ASSUME DashboardInv, [DashboardNext]_allVars
    PROVE  /\ DashboardInv'
           /\ told'.topUps >= told.topUps /\ told'.transfers >= told.transfers
           /\ (pc \in Working /\ pc' = "done" /\ AllRows = atStart)
                 => shown \cap ItemsOf(answer') = {}
<1>1. told.topUps >= told.topUps /\ told.transfers >= told.transfers
  BY DEF DashboardInv, HandlersHold, ToldHolds
<1>2. CASE reading = "pages" /\ Next /\ UNCHANGED dashboard
  <2>1. (pc \in Working /\ pc' = "done" /\ AllRows = atStart)
           => shown \cap ItemsOf(answer') = {}
    BY <1>2, NextFeed DEF DashboardInv
  <2>2. QED
    BY <1>1, <1>2, <2>1, PagesStepInv
<1>3. CASE reading = "dashboard" /\ HandlerStep /\ UNCHANGED <<tables, feed, reading>>
  <2>1. pc' = pc
    BY <1>3 DEF feed
  <2>2. QED
    BY <1>3, <2>1, HandlerStepInv DEF Working
<1>4. CASE /\ reading = "dashboard" /\ TableStep
           /\ UNCHANGED <<feed, reading, asked, todo, view, told>>
  <2>1. pc' = pc
    BY <1>4 DEF feed
  <2>2. QED
    BY <1>1, <1>4, <2>1, TableStepInv DEF Working
<1>5. CASE UNCHANGED allVars
  <2>1. UNCHANGED vars /\ UNCHANGED dashboard
    BY <1>5 DEF allVars
  <2>2. /\ topups' = topups /\ transfers' = transfers /\ pc' = pc
        /\ reading' = reading /\ moved' = moved /\ now' = now /\ asked' = asked /\ todo' = todo
        /\ view' = view /\ quiet' = quiet /\ told' = told
    BY <2>1 DEF vars, dashboard
  <2>3. FeedInv'
    BY <2>1, NextFeed DEF DashboardInv
  <2>4. MovesHold' /\ ReadsInOrder'
    BY <2>2 DEF DashboardInv, HandlersHold, MovesHold, ReadsInOrder, Reads
  <2>5. \A f : HasRead(f)' <=> HasRead(f)
    BY <2>2 DEF HasRead, Reads
  <2>6. /\ Balance' = Balance /\ Summary(topups)' = Summary(topups)
        /\ TransferSummary' = TransferSummary
        /\ \A m \in moved : IsRecorded(m)' <=> IsRecorded(m)
    BY <2>2 DEF Balance, TransferSummary, Summary, IsToday, IsRecorded
  <2>7. ViewHolds'
    BY <2>2, <2>5 DEF DashboardInv, HandlersHold, ViewHolds
  <2>8. QuietHolds'
    BY <2>2, <2>5, <2>6 DEF DashboardInv, HandlersHold, QuietHolds
  <2>9. ToldHolds'
    BY <2>2 DEF DashboardInv, HandlersHold, ToldHolds
  <2>10. QED
    BY <1>1, <2>2, <2>3, <2>4, <2>7, <2>8, <2>9 DEF DashboardInv, HandlersHold, Working
<1>6. QED
  BY <1>2, <1>3, <1>4, <1>5 DEF DashboardNext

LEMMA DashboardKeeps == DashboardSpec => []DashboardInv
<1>1. DashboardInv /\ [DashboardNext]_allVars => DashboardInv'
  BY NextDashboard
<1>2. QED
  BY <1>1, InitDashboard, PTL DEF DashboardSpec

-----------------------------------------------------------------------------
(***************************************************************************)
(* The theorems.                                                           *)
(***************************************************************************)

\* The types of the tables, of the handler of the pages and of its limit hold,
\* and the ids of the rows stay unique.
THEOREM FeedIsTyped == DashboardSpec => []TypeOK
<1>1. DashboardInv => TypeOK
  BY FeedIsRight DEF DashboardInv
<1>2. QED
  BY <1>1, DashboardKeeps, PTL

\* The page that fetchTopUps and fetchTransfers put together from two lists,
\* each cut to the limit of the page, is the page of the whole feed.
THEOREM PagesAreRight == DashboardSpec => []PageIsRight
<1>1. DashboardInv => PageIsRight
  BY FeedIsRight DEF DashboardInv
<1>2. QED
  BY <1>1, DashboardKeeps, PTL

\* A client that follows hasNext to the end has been shown every row that was
\* there when it began, whatever was committed meanwhile.
THEOREM NoRowIsSkipped == DashboardSpec => []NothingIsSkipped
<1>1. DashboardInv => NothingIsSkipped
  BY FeedIsRight DEF DashboardInv
<1>2. QED
  BY <1>1, DashboardKeeps, PTL

\* Without new rows no page shows a row of an earlier one.
THEOREM NoRowIsRepeated == DashboardSpec => NothingIsRepeated
<1>1. DashboardInv /\ [DashboardNext]_allVars =>
         [(pc \in Working /\ pc' = "done" /\ topups \cup transfers = atStart) =>
             shown \cap ItemsOf(answer') = {}]_vars
  BY NextDashboard DEF AllRows
<1>2. QED
  BY <1>1, DashboardKeeps, PTL DEF DashboardSpec, NothingIsRepeated

\* Each read of a dashboard or a wallet covers the reads before it.
THEOREM ReadsCover == DashboardSpec => []LaterReadsCover
<1>1. DashboardInv => LaterReadsCover
  <2> SUFFICES ASSUME DashboardInv PROVE LaterReadsCover
    OBVIOUS
  <2>1. BalanceIsCovered
    <3> SUFFICES ASSUME Shown("wallet") \/ Shown("dashboard")
                 PROVE  view.balance
                            <= SeedBalance + view.topUps.amount + Total(Received(moved))
      BY DEF BalanceIsCovered
    <3>1. asked # None /\ HasRead("topUps")
      BY EverythingIsRead DEF Shown, IsAnswered, DashboardInv, HandlersHold
    <3>2. QED
      BY <3>1 DEF DashboardInv, HandlersHold, ViewHolds
  <2>2. CountedIsListed
    <3> SUFFICES ASSUME Shown("dashboard")
                 PROVE  /\ Cardinality(view.recentTopUps) >= Min({Recent, view.topUps.count})
                        /\ Cardinality(view.recentTransfers)
                              >= Min({Recent, view.transfers.sent.count
                                                 + view.transfers.received.count})
      BY DEF CountedIsListed
    <3>1. asked # None /\ HasRead("recentTransfers") /\ HasRead("recentTopUps")
      BY EverythingIsRead DEF Shown, IsAnswered, DashboardInv, HandlersHold
    <3>2. QED
      BY <3>1 DEF DashboardInv, HandlersHold, ViewHolds
  <2>3. QED
    BY <2>1, <2>2 DEF LaterReadsCover
<1>2. QED
  BY <1>1, DashboardKeeps, PTL

\* The numbers of rows that a client is told of never shrink.
THEOREM TotalsGrow == DashboardSpec => TotalsNeverShrink
<1>1. DashboardInv /\ [DashboardNext]_allVars =>
         [told'.topUps >= told.topUps /\ told'.transfers >= told.transfers]_allVars
  BY NextDashboard
<1>2. QED
  BY <1>1, DashboardKeeps, PTL DEF DashboardSpec, TotalsNeverShrink

\* Money that has moved and the record of it have the same sums.
LEMMA RecordedSums ==
    ASSUME FeedInv, MovesHold, reading = "dashboard", \A m \in moved : IsRecorded(m)
    PROVE  /\ Total(Received(moved)) = Total(Received(transfers))
           /\ Total(Sent(moved)) = Total(Sent(transfers))
<1>1. /\ \A m, n \in moved : m.id = n.id => m = n
      /\ \A r \in transfers : \E m \in moved : m.id = r.id /\ m.kind = r.kind
  BY DEF MovesHold
<1>2. \A r, s \in transfers : r.id = s.id => r = s
  BY TableFacts DEF Table
<1>3. \A m \in moved : \E r \in transfers : r.id = m.id /\ r.kind = m.kind
  BY <1>1 DEF IsRecorded
<1>4. /\ IsFiniteSet(Received(moved)) /\ IsFiniteSet(Received(transfers))
      /\ IsFiniteSet(Sent(moved)) /\ IsFiniteSet(Sent(transfers))
      /\ \A m \in moved : m.id \in Nat
  <2>1. Received(transfers) \subseteq transfers /\ Sent(transfers) \subseteq transfers
    BY DEF Received, Sent
  <2>2. QED
    BY <2>1, TableFacts, FS_Subset
<1>5. Total(Received(moved)) = Total(Received(transfers))
  <2> DEFINE S == Received(moved)
             T == Received(transfers)
  <2>1. /\ \A s \in S : s.id \in Nat
        /\ \A s, t \in S : s.id = t.id => s = t
        /\ \A s, t \in T : s.id = t.id => s = t
        /\ \A s \in S : \E t \in T : t.id = s.id
        /\ \A t \in T : \E s \in S : s.id = t.id
    BY <1>1, <1>2, <1>3, <1>4 DEF Received
  <2> HIDE DEF S, T
  <2>2. IsFiniteSet(S) /\ IsFiniteSet(T)
    BY <1>4 DEF S, T
  <2>3. Total(S) = Total(T)
    BY <2>1, <2>2, TotalById
  <2>4. QED
    BY <2>3 DEF S, T
<1>6. Total(Sent(moved)) = Total(Sent(transfers))
  <2> DEFINE S == Sent(moved)
             T == Sent(transfers)
  <2>1. /\ \A s \in S : s.id \in Nat
        /\ \A s, t \in S : s.id = t.id => s = t
        /\ \A s, t \in T : s.id = t.id => s = t
        /\ \A s \in S : \E t \in T : t.id = s.id
        /\ \A t \in T : \E s \in S : s.id = t.id
    BY <1>1, <1>2, <1>3, <1>4 DEF Sent
  <2> HIDE DEF S, T
  <2>2. IsFiniteSet(S) /\ IsFiniteSet(T)
    BY <1>4 DEF S, T
  <2>3. Total(S) = Total(T)
    BY <2>1, <2>2, TotalById
  <2>4. QED
    BY <2>3 DEF S, T
<1>7. QED
  BY <1>5, <1>6

LEMMA DisjointCount ==
    ASSUME NEW S, IsFiniteSet(S), NEW T, IsFiniteSet(T), S \cap T = {}
    PROVE  /\ IsFiniteSet(S \cup T)
           /\ Cardinality(S \cup T) = Cardinality(S) + Cardinality(T)
<1>1. /\ IsFiniteSet(S \cup T)
      /\ Cardinality(S \cup T) = Cardinality(S) + Cardinality(T) - Cardinality(S \cap T)
  BY FS_Union
<1>2. Cardinality(S \cap T) = 0
  BY FS_EmptySet
<1>3. Cardinality(S) \in Nat /\ Cardinality(T) \in Nat
  BY FS_CardinalityType
<1>4. QED
  BY <1>1, <1>2, <1>3

\* The counts of the day are those of all rows of the day.
LEMMA DayCounts ==
    ASSUME FeedInv, MovesHold
    PROVE  Summary(topups).today + TransferSummary.sent.today + TransferSummary.received.today
              = Cardinality({r \in topups \cup transfers : IsToday(r)})
<1> DEFINE U == {r \in topups : IsToday(r)}
           S == {r \in Sent(transfers) : IsToday(r)}
           R == {r \in Received(transfers) : IsToday(r)}
<1>1. /\ \A r \in transfers : r.kind \in {"transfer_sent", "transfer_received"}
      /\ \A r \in topups : r.kind = "topup"
  BY DEF FeedInv, FeedTyped, Transfers, TopUps
<1>2. /\ S \cap R = {} /\ U \cap (S \cup R) = {}
      /\ U \cup (S \cup R) = {r \in topups \cup transfers : IsToday(r)}
      /\ U \subseteq topups /\ S \subseteq transfers /\ R \subseteq transfers
  BY <1>1 DEF Sent, Received
<1>3. Summary(topups).today = Cardinality(U)
  BY DEF Summary
<1>4. TransferSummary.sent.today = Cardinality(S) /\ TransferSummary.received.today = Cardinality(R)
  BY DEF TransferSummary, Summary
<1> HIDE DEF U, S, R
<1>5. IsFiniteSet(U) /\ IsFiniteSet(S) /\ IsFiniteSet(R)
  BY <1>2, TableFacts, FS_Subset
<1>6. IsFiniteSet(S \cup R) /\ Cardinality(S \cup R) = Cardinality(S) + Cardinality(R)
  BY <1>2, <1>5, DisjointCount
<1>7. Cardinality(U \cup (S \cup R)) = Cardinality(U) + Cardinality(S \cup R)
  BY <1>2, <1>5, <1>6, DisjointCount
<1>8. PICK u \in Nat, s \in Nat, t \in Nat :
         u = Cardinality(U) /\ s = Cardinality(S) /\ t = Cardinality(R)
  BY <1>5, FS_CardinalityType
<1>9. Cardinality(U \cup (S \cup R)) = u + s + t
  BY <1>6, <1>7, <1>8
<1>10. QED
  BY <1>2, <1>3, <1>4, <1>8, <1>9

\* A dashboard during which nothing changed adds up: the balance is what the
\* sums give, the counts of the day and the lists are those of the tables.
THEOREM QuietAddsUp == DashboardSpec => []QuietDashboardAddsUp
<1>1. DashboardInv => QuietDashboardAddsUp
  <2> SUFFICES ASSUME DashboardInv, Shown("dashboard"), quiet
               PROVE  QuietDashboardAddsUp
    BY DEF QuietDashboardAddsUp
  <2>1. asked # None /\ reading = "dashboard" /\ FeedInv /\ MovesHold
    BY DEF Shown, IsAnswered, DashboardInv, MovesHold
  <2>2. /\ HasRead("balance") /\ HasRead("topUps") /\ HasRead("transfers")
        /\ HasRead("recentTransfers")
    BY EverythingIsRead DEF Shown, IsAnswered, DashboardInv, HandlersHold
  <2>3. /\ \A m \in moved : IsRecorded(m)
        /\ view.balance = Balance /\ view.topUps = Summary(topups)
        /\ view.transfers = TransferSummary
        /\ view.recentTransfers = Newest(transfers, Recent)
    BY <2>1, <2>2 DEF DashboardInv, HandlersHold, QuietHolds
  <2>4. \A S : Summary(S).amount = Total(S)
    BY DEF Summary
  <2>5. view.balance = SeedBalance + view.topUps.amount
                          + view.transfers.received.amount - view.transfers.sent.amount
    <3>1. /\ Total(Received(moved)) = Total(Received(transfers))
          /\ Total(Sent(moved)) = Total(Sent(transfers))
      BY <2>1, <2>3, RecordedSums
    <3>2. /\ view.topUps.amount = Total(topups)
          /\ view.transfers.received.amount = Total(Received(transfers))
          /\ view.transfers.sent.amount = Total(Sent(transfers))
      BY <2>3, <2>4 DEF TransferSummary
    <3>3. QED
      BY <2>3, <3>1, <3>2 DEF Balance
  <2>6. view.topUps.today + view.transfers.sent.today + view.transfers.received.today
           = Cardinality({r \in topups \cup transfers : IsToday(r)})
    BY <2>1, <2>3, DayCounts
  <2>7. Cardinality(view.recentTransfers)
           = Min({Recent, view.transfers.sent.count + view.transfers.received.count})
    <3>1. /\ view.transfers.sent.count + view.transfers.received.count = Cardinality(transfers)
          /\ Cardinality(transfers) \in 0 .. Cardinality(transfers)
      BY <2>1, <2>3, TransfersCount, TableFacts
    <3>2. Table(transfers)
      BY <2>1, TableFacts
    <3>3. QED
      BY <2>3, <3>1, <3>2, RecentCount
  <2>8. QED
    BY <2>5, <2>6, <2>7 DEF QuietDashboardAddsUp
<1>2. QED
  BY <1>1, DashboardKeeps, PTL
=============================================================================
