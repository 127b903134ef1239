--------------------------- MODULE RateLimiterProofs ---------------------------
(***************************************************************************)
(* Proofs about RateLimiter, for any policies, clients, lag and cleanup:   *)
(* that the buckets implement the throttle, and that who comes back when   *)
(* Retry-After said is let in.                                             *)
(***************************************************************************)
EXTENDS RateLimiter, SumTheorems

\* The bigger and the smaller of two numbers.
LEMMA MaxOfTwo ==
    ASSUME NEW a \in Int, NEW b \in Int
    PROVE  Max({a, b}) = IF a >= b THEN a ELSE b
<1>1. PICK m : m = Max({a, b})
  OBVIOUS
<1>2. \E x \in {a, b} : \A y \in {a, b} : x >= y
  OBVIOUS
<1>3. m \in {a, b} /\ \A y \in {a, b} : m >= y
  BY <1>1, <1>2 DEF Max
<1>4. QED
  BY <1>1, <1>3

LEMMA MinOfTwo ==
    ASSUME NEW a \in Int, NEW b \in Int
    PROVE  Min({a, b}) = IF a <= b THEN a ELSE b
<1>1. PICK m : m = Min({a, b})
  OBVIOUS
<1>2. \E x \in {a, b} : \A y \in {a, b} : x <= y
  OBVIOUS
<1>3. m \in {a, b} /\ \A y \in {a, b} : m <= y
  BY <1>1, <1>2 DEF Min
<1>4. QED
  BY <1>1, <1>3

\* A finite set of numbers that is not empty has a biggest.
LEMMA BiggestExists ==
    ASSUME NEW S, IsFiniteSet(S), S # {}, S \subseteq Int
    PROVE  \E x \in S : \A y \in S : x >= y
<1> DEFINE F == {T \in SUBSET S : T # {} /\ ~ \E x \in T : \A y \in T : x >= y}
<1>1. F \in SUBSET FiniteSubsetsOf(S)
  BY FS_Subset DEF FiniteSubsetsOf
<1>2. SUFFICES ASSUME F # {} PROVE FALSE
  OBVIOUS
<1> HIDE DEF F
<1>3. PICK T \in F : \A U \in F : U \subseteq T => U = T
  BY <1>1, <1>2, MinimalSet
<1> USE DEF F
<1>4. PICK a \in T : TRUE
  BY <1>3
<1>5. T \ {a} \notin F /\ T \ {a} \subseteq S
  BY <1>3, <1>4
<1>6. T = {a} \/ \E x \in T \ {a} : \A y \in T \ {a} : x >= y
  BY <1>5
<1>7. \A x, y, z \in Int : x >= y /\ y >= z => x >= z
  OBVIOUS
<1>8. \E x \in T : \A y \in T : x >= y
  BY <1>3, <1>4, <1>6, <1>7
<1>9. QED
  BY <1>3, <1>8

LEMMA MaxWindowIsLongest ==
    ASSUME NEW n \in Policies
    PROVE  MaxWindow \in Nat /\ MaxWindow >= Window[n]
<1> DEFINE S == {Window[m] : m \in Policies}
<1>1. IsFiniteSet(S)
  <2> DEFINE f == [m \in Policies |-> Window[m]]
  <2>1. f \in Surjection(Policies, S)
    BY DEF Surjection
  <2> HIDE DEF f, S
  <2>2. QED
    BY <2>1, LimiterAssumption, FS_Surjection
<1>2. S # {} /\ S \subseteq Nat
  BY LimiterAssumption
<1>3. \E x \in S : \A y \in S : x >= y
  BY <1>1, <1>2, BiggestExists
<1>4. MaxWindow \in S /\ \A y \in S : MaxWindow >= y
  BY <1>3 DEF MaxWindow, Max
<1>5. QED
  BY <1>2, <1>4

LEMMA PolicyFacts ==
    ASSUME NEW k \in Keys
    PROVE  /\ Cost[k] \in Nat /\ Rate[k] \in Nat \ {0} /\ Burst[k] = Rate[k] * Cost[k]
           /\ Burst[k] \in Nat /\ Cost[k] > MaxLag /\ Burst[k] >= Cost[k]
           /\ MaxLag \in Nat
           /\ MaxWindow \in Nat /\ MaxWindow >= Cost[k]
<1>1. k.policy \in Policies
  BY DEF Keys
<1>2. /\ Cost[k] = Window[k.policy] /\ Rate[k] = Requests[k.policy]
      /\ Burst[k] = Requests[k.policy] * Window[k.policy]
  BY DEF Cost, Rate, Burst
<1>3. \A c \in Nat, r \in Nat \ {0} : r * c \in Nat /\ r * c >= c
  OBVIOUS
<1>4. QED
  BY <1>1, <1>2, <1>3, MaxWindowIsLongest, LimiterAssumption

-----------------------------------------------------------------------------
(***************************************************************************)
(* The lower meter and a bucket.  With cost C, rate R and lag L, a bucket  *)
(* that lacks so many parts keeps the meter's debt D down in one of three  *)
(* ways, whatever number i of admissions one looks at: there is no debt,   *)
(* it comes from fewer than i of them and over has been paid off since, or *)
(* i of them were charged L too little.                                    *)
(***************************************************************************)
KeptDown(D, lack, over, C, R, L) ==
    \A i \in Nat :
        D <= 0 \/ D <= (i - 1) * (C - L) - over \/ D <= lack + (R - i) * L

LEMMA KeptDownMore ==
    ASSUME NEW D \in Int, NEW lack \in Int, NEW over \in Int, NEW C \in Int, NEW R \in Int,
           NEW L \in Int, KeptDown(D, lack, over, C, R, L),
           NEW more \in Int, lack <= more, NEW less \in Int, less <= over
    PROVE  KeptDown(D, more, less, C, R, L)
<1> SUFFICES ASSUME NEW i \in Nat
             PROVE  D <= 0 \/ D <= (i - 1) * (C - L) - less \/ D <= more + (R - i) * L
  BY DEF KeptDown
<1>1. PICK a \in Int, b \in Int : a = (i - 1) * (C - L) /\ b = (R - i) * L
  OBVIOUS
<1>2. D <= 0 \/ D <= a - over \/ D <= lack + b
  BY <1>1 DEF KeptDown
<1>3. D <= 0 \/ D <= a - less \/ D <= more + b
  BY <1>2
<1>4. QED
  BY <1>1, <1>3

LEMMA KeptDownAdmits ==
    ASSUME NEW D \in Int, NEW lack \in Int, NEW C \in Nat, NEW R \in Nat, NEW L \in Nat,
           KeptDown(D, lack, 0, C, R, L), C > L, lack + R * L >= 0
    PROVE  KeptDown(D + C - L, lack + C, 0, C, R, L)
<1> SUFFICES ASSUME NEW i \in Nat
             PROVE  \/ D + C - L <= 0 \/ D + C - L <= (i - 1) * (C - L) - 0
                    \/ D + C - L <= (lack + C) + (R - i) * L
  BY DEF KeptDown
<1>1. CASE i = 0
  <2>1. D <= 0 \/ D <= (0 - 1) * (C - L) - 0 \/ D <= lack + (R - 0) * L
    BY DEF KeptDown
  <2>2. (0 - 1) * (C - L) = L - C /\ (R - 0) * L = R * L
    OBVIOUS
  <2>3. PICK m \in Int : m = R * L
    OBVIOUS
  <2>4. D + C - L <= (lack + C) + m
    BY <2>1, <2>2, <2>3
  <2>5. QED
    BY <1>1, <2>2, <2>3, <2>4
<1>2. CASE i = 1
  <2>1. D <= 0 \/ D <= (0 - 1) * (C - L) - 0 \/ D <= lack + (R - 0) * L
    BY DEF KeptDown
  <2>2. (0 - 1) * (C - L) = L - C /\ (R - 0) * L = R * L /\ (R - 1) * L = R * L - L
    OBVIOUS
  <2>3. PICK m \in Int : m = R * L
    OBVIOUS
  <2>4. D + C - L <= (lack + C) + (m - L)
    BY <2>1, <2>2, <2>3
  <2>5. QED
    BY <1>2, <2>2, <2>3, <2>4
<1>3. CASE i >= 2
  <2>1. i - 1 \in Nat
    BY <1>3
  <2>2. \/ D <= 0 \/ D <= ((i - 1) - 1) * (C - L) - 0
        \/ D <= lack + (R - (i - 1)) * L
    BY <2>1 DEF KeptDown
  <2>3. PICK a \in Int : a = ((i - 1) - 1) * (C - L)
    OBVIOUS
  <2>4. PICK b \in Int : b = (R - (i - 1)) * L
    OBVIOUS
  <2>5. (i - 1) * (C - L) = a + (C - L)
    BY <2>3
  <2>6. (R - i) * L = b - L
    BY <2>4
  <2>7. a >= 0
    <3>1. \A x, y \in Nat : x * y \in Nat
      OBVIOUS
    <3>2. (i - 1) - 1 \in Nat /\ C - L \in Nat
      BY <1>3
    <3>3. QED
      BY <2>3, <3>1, <3>2
  <2>8. D <= 0 \/ D <= a \/ D <= lack + b
    BY <2>2, <2>3, <2>4
  <2>9. D + C - L <= a + (C - L) \/ D + C - L <= (lack + C) + (b - L)
    BY <2>7, <2>8
  <2>10. QED
    BY <2>5, <2>6, <2>9
<1>4. QED
  BY <1>1, <1>2, <1>3

LEMMA KeptDownTicks ==
    ASSUME NEW D \in Int, NEW lack \in Int, NEW over \in Int, NEW C \in Int, NEW R \in Int,
           NEW L \in Int, KeptDown(D, lack, over, C, R, L),
           NEW E \in Int, E <= 0 \/ (E = D - R /\ D > 0)
    PROVE  KeptDown(E, lack - R, over + R, C, R, L)
<1> SUFFICES ASSUME NEW i \in Nat
             PROVE  \/ E <= 0 \/ E <= (i - 1) * (C - L) - (over + R)
                    \/ E <= (lack - R) + (R - i) * L
  BY DEF KeptDown
<1>1. PICK a \in Int, b \in Int : a = (i - 1) * (C - L) /\ b = (R - i) * L
  OBVIOUS
<1>2. D <= 0 \/ D <= a - over \/ D <= lack + b
  BY <1>1 DEF KeptDown
<1>3. E <= 0 \/ E <= a - (over + R) \/ E <= (lack - R) + b
  BY <1>2
<1>4. QED
  BY <1>1, <1>3

\* A bucket that has a token left keeps the meter below what it may admit ...
LEMMA KeptDownBounds ==
    ASSUME NEW D \in Int, NEW lack \in Int, NEW C \in Nat, NEW R \in Nat \ {0}, NEW L \in Nat,
           KeptDown(D, lack, 0, C, R, L), C > L, lack <= R * C - C
    PROVE  D + C - L <= R * C
<1>1. D <= 0 \/ D <= (R - 1) * (C - L) - 0 \/ D <= lack + (R - R) * L
  BY DEF KeptDown
<1>2. (R - 1) * (C - L) = R * (C - L) - (C - L) /\ (R - R) * L = 0
  OBVIOUS
<1>3. R * (C - L) = R * C - R * L
  OBVIOUS
<1>4. R * L \in Nat /\ R * C >= C
  OBVIOUS
<1>5. PICK m \in Nat, n \in Nat : m = R * L /\ n = R * C
  OBVIOUS
<1>6. QED
  BY <1>1, <1>2, <1>3, <1>4, <1>5

\* ... and one that has been idle for a window leaves no debt.
LEMMA KeptDownIdle ==
    ASSUME NEW D \in Int, NEW lack \in Int, NEW over \in Int, NEW C \in Int, NEW R \in Nat,
           NEW L \in Nat, KeptDown(D, lack, over, C, R, L),
           over >= R * (C - L), lack <= 0
    PROVE  D <= 0
<1>1. R + 1 \in Nat
  OBVIOUS
<1>2. \/ D <= 0 \/ D <= ((R + 1) - 1) * (C - L) - over
      \/ D <= lack + (R - (R + 1)) * L
  BY <1>1 DEF KeptDown
<1>3. ((R + 1) - 1) * (C - L) = R * (C - L) /\ (R - (R + 1)) * L = - L
  OBVIOUS
<1>4. PICK m \in Int : m = R * (C - L)
  OBVIOUS
<1>5. QED
  BY <1>2, <1>3, <1>4

-----------------------------------------------------------------------------
(***************************************************************************)
(* The invariant, key by key.                                              *)
(***************************************************************************)
\* What a bucket lacks, less what the time since its refill will bring ...
Lack(b, k) == Burst[k] - b.tokens - (now - b.last) * Rate[k]

\* ... and what is paid off in the time that it has been idle for longer than the lag.
Over(b, k) == IF now - b.last > MaxLag THEN (now - b.last - MaxLag) * Rate[k] ELSE 0

Buckets(k) == [tokens : 0 .. Burst[k], last : 0 .. now]

(***************************************************************************)
(* A bucket lacks no more than the debt of its key, keeps the lower meter  *)
(* down, and has or will have a token for who may come back.               *)
(***************************************************************************)
BucketInOrder(b, k) ==
    /\ b \in Buckets(k)
    /\ Lack(b, k) <= debt[k]
    /\ KeptDown(least[k], Lack(b, k), Over(b, k), Cost[k], Rate[k], MaxLag)
    /\ retryAt[k] # None =>
          b.tokens >= Cost[k] \/ b.tokens + (retryAt[k] - b.last) * Rate[k] >= Cost[k]

KeyInOrder(k) ==
    /\ debt[k] \in Nat /\ least[k] \in Nat /\ retryAt[k] \in Nat \cup {None}
    /\ buckets[k] = None => least[k] = 0
    /\ buckets[k] # None => BucketInOrder(buckets[k], k)

RequestInOrder(s) ==
    request[s] # None =>
        request[s].key \in Keys /\ request[s].at \in Nat /\ request[s].at <= now
        /\ now - request[s].at <= MaxLag

LimiterInv ==
    /\ now \in Nat
    /\ buckets = [k \in Keys |-> buckets[k]]
    /\ request = [s \in Slots |-> request[s]]
    /\ debt = [k \in Keys |-> debt[k]]
    /\ least = [k \in Keys |-> least[k]]
    /\ retryAt = [k \in Keys |-> retryAt[k]]
    /\ \A k \in Keys : KeyInOrder(k)
    /\ \A s \in Slots : RequestInOrder(s)

-----------------------------------------------------------------------------
\* The bucket that a request of key k, read at t, is decided by.
BucketAt(k, t) == Refill(Entry(Cleaned(t)[k], k, t), k, t)

LEMMA NotNone ==
    ASSUME NEW k \in Keys, NEW b \in Buckets(k), now \in Nat
    PROVE  b # None
<1>1. b \in [tokens : Nat, last : Nat]
  BY PolicyFacts DEF Buckets
<1>2. QED
  BY <1>1, LimiterAssumption

\* A bucket that is deleted leaves no debt behind.
LEMMA IdleIsPaid ==
    ASSUME LimiterInv, NEW k \in Keys, NEW t \in Nat, t <= now, Idle(buckets[k], t)
    PROVE  least[k] = 0
<1> DEFINE b == buckets[k]
           C == Cost[k]
           R == Rate[k]
           x == now - b.last
<1>1. /\ b \in Buckets(k) /\ least[k] \in Nat /\ now \in Nat
      /\ KeptDown(least[k], Lack(b, k), Over(b, k), C, R, MaxLag)
  BY DEF LimiterInv, KeyInOrder, BucketInOrder, Idle
<1>2. /\ C \in Nat /\ R \in Nat /\ MaxLag \in Nat /\ C > MaxLag /\ Burst[k] = R * C
      /\ MaxWindow \in Nat /\ MaxWindow >= C
  BY PolicyFacts
<1>3. b.tokens \in Nat /\ b.last \in Nat /\ b.last <= now
  BY <1>1, <1>2 DEF Buckets
<1>4. x \in Nat /\ x >= C
  BY <1>1, <1>2, <1>3 DEF Idle
<1>5. Lack(b, k) \in Int /\ Lack(b, k) <= 0
  <2>1. x * R >= C * R
    BY <1>2, <1>4
  <2>2. Lack(b, k) = R * C - b.tokens - x * R
    BY <1>2 DEF Lack
  <2>3. PICK m \in Int, n \in Int : m = x * R /\ n = R * C
    BY <1>2, <1>4
  <2>4. m >= n
    BY <1>2, <2>1, <2>3
  <2> HIDE DEF x, b
  <2>5. QED
    BY <1>3, <2>2, <2>3, <2>4
<1>6. Over(b, k) \in Int /\ Over(b, k) >= R * (C - MaxLag)
  <2>1. Over(b, k) = (x - MaxLag) * R
    BY <1>2, <1>4 DEF Over
  <2>2. \A u, v \in Nat : u >= v => u * R \in Int /\ u * R >= R * v
    BY <1>2
  <2>3. x - MaxLag \in Nat /\ C - MaxLag \in Nat /\ x - MaxLag >= C - MaxLag
    BY <1>2, <1>4
  <2> HIDE DEF x
  <2>4. QED
    BY <2>1, <2>2, <2>3
<1> HIDE DEF b, C, R, x
<1>7. least[k] \in Int /\ C \in Int /\ R \in Nat /\ MaxLag \in Nat
  BY <1>1, <1>2
<1>8. KeptDown(least[k], Lack(b, k), Over(b, k), C, R, MaxLag)
  BY <1>1
<1>9. least[k] <= 0
  BY <1>5, <1>6, <1>7, <1>8, KeptDownIdle
<1>10. QED
  BY <1>1, <1>9

\* A bucket that is made anew is full, and in order when there is no debt.
LEMMA NewIsInOrder ==
    ASSUME now \in Nat, NEW k \in Keys, debt[k] \in Nat, least[k] = 0,
           retryAt[k] \in Nat \cup {None}, NEW t \in Nat, t <= now
    PROVE  BucketInOrder([tokens |-> Burst[k], last |-> t], k)
<1> DEFINE b == [tokens |-> Burst[k], last |-> t]
<1>1. /\ Burst[k] \in Nat /\ Rate[k] \in Nat /\ Burst[k] >= Cost[k] /\ Cost[k] \in Nat
      /\ MaxLag \in Nat
  BY PolicyFacts
<1>2. b \in Buckets(k)
  BY <1>1 DEF Buckets
<1>3. \A u \in Nat, v \in Nat : u * v \in Nat
  OBVIOUS
<1>4. Lack(b, k) <= 0
  <2>1. (now - t) * Rate[k] \in Nat
    BY <1>1, <1>3
  <2>2. Lack(b, k) = Burst[k] - Burst[k] - (now - t) * Rate[k]
    BY DEF Lack
  <2>3. PICK m \in Nat : m = (now - t) * Rate[k]
    BY <2>1
  <2>4. QED
    BY <1>1, <2>2, <2>3
<1>5. Lack(b, k) <= debt[k]
  <2>1. Lack(b, k) \in Int
    <3>1. (now - t) * Rate[k] \in Nat
      BY <1>1, <1>3
    <3>2. QED
      BY <1>1, <3>1 DEF Lack
  <2>2. QED
    BY <1>4, <2>1
<1>6. KeptDown(least[k], Lack(b, k), Over(b, k), Cost[k], Rate[k], MaxLag)
  BY DEF KeptDown
<1>7. b.tokens >= Cost[k]
  BY <1>1
<1>8. QED
  BY <1>2, <1>5, <1>6, <1>7 DEF BucketInOrder

LEMMA BucketFacts ==
    ASSUME now \in Nat, NEW k \in Keys, NEW b \in Buckets(k)
    PROVE  /\ b.tokens \in Nat /\ b.tokens <= Burst[k]
           /\ b.last \in Nat /\ b.last <= now
           /\ (now - b.last) * Rate[k] \in Nat
           /\ Lack(b, k) \in Int /\ Over(b, k) \in Nat
<1>1. Burst[k] \in Nat /\ Rate[k] \in Nat /\ MaxLag \in Nat
  BY PolicyFacts
<1>2. b.tokens \in Nat /\ b.tokens <= Burst[k] /\ b.last \in Nat /\ b.last <= now
  BY <1>1 DEF Buckets
<1>3. \A u, v \in Nat : u * v \in Nat
  OBVIOUS
<1>4. (now - b.last) * Rate[k] \in Nat
  BY <1>1, <1>2, <1>3
<1>5. Lack(b, k) \in Int
  BY <1>1, <1>2, <1>4 DEF Lack
<1>6. Over(b, k) \in Nat
  <2>1. CASE now - b.last > MaxLag
    <3>1. now - b.last - MaxLag \in Nat
      BY <1>1, <1>2, <2>1
    <3>2. QED
      BY <1>1, <1>3, <2>1, <3>1 DEF Over
  <2>2. CASE ~ (now - b.last > MaxLag)
    BY <2>2 DEF Over
  <2>3. QED
    BY <2>1, <2>2
<1>7. QED
  BY <1>2, <1>4, <1>5, <1>6

LEMMA TimeSplits ==
    ASSUME NEW later \in Int, NEW earlier \in Int, NEW between \in Int, NEW rate \in Int
    PROVE  (later - earlier) * rate = (between - earlier) * rate + (later - between) * rate
OBVIOUS

\* A refill keeps the bucket in order, and brings it up to the lag.
LEMMA RefillInOrder ==
    ASSUME now \in Nat, NEW k \in Keys, debt[k] \in Nat, least[k] \in Nat,
           retryAt[k] \in Nat \cup {None}, NEW b, BucketInOrder(b, k),
           NEW t \in Nat, t <= now, now - t <= MaxLag
    PROVE  /\ BucketInOrder(Refill(b, k, t), k)
           /\ t <= Refill(b, k, t).last
           /\ Over(Refill(b, k, t), k) = 0
           /\ Lack(Refill(b, k, t), k) + Rate[k] * MaxLag >= 0
<1>1. /\ Burst[k] \in Nat /\ Cost[k] \in Nat /\ Rate[k] \in Nat /\ MaxLag \in Nat
      /\ Burst[k] >= Cost[k]
  BY PolicyFacts
<1>2. b \in Buckets(k) /\ Lack(b, k) <= debt[k]
  BY DEF BucketInOrder
<1>3. /\ b.tokens \in Nat /\ b.tokens <= Burst[k] /\ b.last \in Nat /\ b.last <= now
      /\ Lack(b, k) \in Int /\ Over(b, k) \in Nat
  BY <1>2, BucketFacts
<1>4. \A c \in Buckets(k) : now - c.last <= MaxLag =>
          Over(c, k) = 0 /\ Lack(c, k) + Rate[k] * MaxLag >= 0
  <2> SUFFICES ASSUME NEW c \in Buckets(k), now - c.last <= MaxLag
               PROVE  Over(c, k) = 0 /\ Lack(c, k) + Rate[k] * MaxLag >= 0
    OBVIOUS
  <2>1. /\ c.tokens \in Nat /\ c.tokens <= Burst[k] /\ c.last \in Nat /\ c.last <= now
        /\ (now - c.last) * Rate[k] \in Nat
    BY BucketFacts
  <2>2. \A u, v, w \in Nat : u <= v => u * w <= w * v
    OBVIOUS
  <2>3. (now - c.last) * Rate[k] <= Rate[k] * MaxLag
    BY <1>1, <2>1, <2>2
  <2>4. PICK m \in Nat : m = (now - c.last) * Rate[k]
    BY <2>1
  <2>5. PICK n \in Nat : n = Rate[k] * MaxLag
    BY <1>1
  <2>6. Lack(c, k) = Burst[k] - c.tokens - m
    BY <2>4 DEF Lack
  <2>7. Lack(c, k) + n >= 0
    BY <1>1, <2>1, <2>3, <2>4, <2>5, <2>6
  <2>8. Over(c, k) = 0
    BY <1>1, <2>1 DEF Over
  <2>9. QED
    BY <2>5, <2>7, <2>8
<1>5. CASE t <= b.last
  <2>1. Refill(b, k, t) = b /\ now - b.last <= MaxLag
    BY <1>1, <1>3, <1>5 DEF Refill
  <2>2. QED
    BY <1>2, <1>4, <1>5, <2>1
<1>6. CASE t > b.last
  <2> DEFINE c == Refill(b, k, t)
             p == (t - b.last) * Rate[k]
             q == (now - t) * Rate[k]
  <2>1. /\ p \in Nat /\ q \in Nat /\ (now - b.last) * Rate[k] = p + q
    <3>1. \A u, v \in Nat : u * v \in Nat
      OBVIOUS
    <3>2. t - b.last \in Nat /\ now - t \in Nat
      BY <1>3, <1>6
    <3>3. p \in Nat /\ q \in Nat
      BY <1>1, <3>1, <3>2
    <3>4. now \in Int /\ b.last \in Int /\ t \in Int /\ Rate[k] \in Int
      BY <1>1, <1>3
    <3>5. (now - b.last) * Rate[k] = p + q
      BY <3>4, TimeSplits
    <3>6. QED
      BY <3>3, <3>5
  <2>2. c = [tokens |-> Min({Burst[k], b.tokens + p}), last |-> t]
    BY <1>3, <1>6 DEF Refill
  <2>3. Min({Burst[k], b.tokens + p}) = IF Burst[k] <= b.tokens + p THEN Burst[k] ELSE b.tokens + p
    <3>1. Burst[k] \in Int /\ b.tokens + p \in Int
      BY <1>1, <1>3, <2>1
    <3> HIDE DEF p
    <3>2. QED
      BY <3>1, MinOfTwo
  <2>4. /\ c.last = t
        /\ c.tokens = IF Burst[k] <= b.tokens + p THEN Burst[k] ELSE b.tokens + p
    BY <2>2, <2>3
  <2>5. c \in Buckets(k)
    <3>1. Min({Burst[k], b.tokens + p}) \in 0 .. Burst[k]
      <4> HIDE DEF p
      <4>1. QED
        BY <1>1, <1>3, <2>1, <2>3
    <3>2. QED
      BY <2>2, <3>1 DEF Buckets
  <2>6. Lack(c, k) = Burst[k] - c.tokens - q
    BY <2>4 DEF Lack
  <2>7. Lack(b, k) = Burst[k] - b.tokens - (p + q)
    BY <2>1 DEF Lack
  <2>8. Over(c, k) = 0 /\ Lack(c, k) + Rate[k] * MaxLag >= 0
    BY <1>4, <2>4, <2>5
  <2>9. Lack(c, k) \in Int /\ Lack(c, k) <= debt[k] /\ Lack(b, k) <= Lack(c, k)
    <3> HIDE DEF c, p, q
    <3>1. QED
      BY <1>1, <1>2, <1>3, <2>1, <2>4, <2>6, <2>7
  <2>10. KeptDown(least[k], Lack(c, k), Over(c, k), Cost[k], Rate[k], MaxLag)
    <3>1. /\ least[k] \in Int /\ Cost[k] \in Int /\ Rate[k] \in Int /\ MaxLag \in Int
          /\ KeptDown(least[k], Lack(b, k), Over(b, k), Cost[k], Rate[k], MaxLag)
          /\ Over(b, k) \in Int /\ Over(c, k) \in Int /\ Over(c, k) <= Over(b, k)
      BY <1>1, <1>3, <2>8 DEF BucketInOrder
    <3> HIDE DEF c
    <3>2. QED
      BY <1>3, <2>9, <3>1, KeptDownMore
  <2>11. ASSUME retryAt[k] # None
         PROVE  c.tokens >= Cost[k] \/ c.tokens + (retryAt[k] - c.last) * Rate[k] >= Cost[k]
    <3>1. retryAt[k] \in Nat
      BY <2>11
    <3>2. PICK r \in Int : r = (retryAt[k] - t) * Rate[k]
      BY <1>1, <3>1
    <3>3. (retryAt[k] - b.last) * Rate[k] = p + r
      <4>1. retryAt[k] \in Int /\ b.last \in Int /\ t \in Int /\ Rate[k] \in Int
        BY <1>1, <1>3, <3>1
      <4>2. (retryAt[k] - b.last) * Rate[k]
               = (t - b.last) * Rate[k] + (retryAt[k] - t) * Rate[k]
        BY <4>1, TimeSplits
      <4>3. QED
        BY <3>2, <4>2
    <3>4. b.tokens >= Cost[k] \/ b.tokens + (p + r) >= Cost[k]
      BY <2>11, <3>3 DEF BucketInOrder
    <3>5. c.tokens >= Cost[k] \/ c.tokens + r >= Cost[k]
      <4> HIDE DEF c, p
      <4>1. QED
        BY <1>1, <1>3, <2>1, <2>4, <3>2, <3>4
    <3>6. QED
      BY <2>4, <3>2, <3>5
  <2>12. BucketInOrder(c, k)
    <3> HIDE DEF c
    <3>1. QED
      BY <2>5, <2>9, <2>10, <2>11 DEF BucketInOrder
  <2>13. QED
    BY <2>4, <2>8, <2>12
<1>7. QED
  BY <1>3, <1>5, <1>6

-----------------------------------------------------------------------------
\* The bucket that decides a request, and the others that its cleanup leaves.
LEMMA DecidingBucket ==
    ASSUME LimiterInv, NEW s \in Slots, request[s] # None
    PROVE  LET k == request[s].key
               t == request[s].at
               b == BucketAt(k, t)
           IN  /\ k \in Keys /\ t \in Nat /\ t <= now
               /\ BucketInOrder(b, k) /\ t <= b.last
               /\ Over(b, k) = 0 /\ Lack(b, k) + Rate[k] * MaxLag >= 0
<1> DEFINE k == request[s].key
           t == request[s].at
           e == Entry(Cleaned(t)[k], k, t)
<1>1. k \in Keys /\ t \in Nat /\ t <= now /\ now - t <= MaxLag /\ now \in Nat
  BY DEF LimiterInv, RequestInOrder
<1> HIDE DEF k, t
<1>2. debt[k] \in Nat /\ least[k] \in Nat /\ retryAt[k] \in Nat \cup {None}
  BY <1>1 DEF LimiterInv, KeyInOrder
<1>3. BucketInOrder(e, k)
  <2>1. Cleaned(t)[k] = IF CleanupDue(t) /\ Idle(buckets[k], t) THEN None ELSE buckets[k]
    BY <1>1 DEF Cleaned
  <2>2. CASE Cleaned(t)[k] = None
    <3>1. least[k] = 0
      BY <1>1, <2>1, <2>2, IdleIsPaid DEF LimiterInv, KeyInOrder
    <3>2. e = [tokens |-> Burst[k], last |-> t]
      BY <2>2 DEF Entry
    <3> HIDE DEF e
    <3>3. QED
      BY <1>1, <1>2, <3>1, <3>2, NewIsInOrder
  <2>3. CASE Cleaned(t)[k] # None
    <3>1. e = buckets[k] /\ buckets[k] # None
      BY <2>1, <2>3 DEF Entry
    <3> HIDE DEF e
    <3>2. QED
      BY <1>1, <3>1 DEF LimiterInv, KeyInOrder
  <2>4. QED
    BY <2>2, <2>3
<1>4. BucketAt(k, t) = Refill(e, k, t)
  BY DEF BucketAt
<1> HIDE DEF e
<1>5. QED
  BY <1>1, <1>2, <1>3, <1>4, RefillInOrder DEF k, t

\* Retry-After is long enough for what is missing.
LEMMA RetryAfterRounds ==
    ASSUME NEW missing \in Nat, NEW rate \in Nat \ {0}
    PROVE  /\ (missing + rate - 1) \div rate \in Nat
           /\ ((missing + rate - 1) \div rate) * rate >= missing
OBVIOUS

\* The decisions of a request, with the bucket that is left behind.
Admitted(k, b) ==
    /\ b.tokens >= Cost[k]
    /\ buckets'[k] = [b EXCEPT !.tokens = @ - Cost[k]]
    /\ answer' = [key |-> k, allowed |-> TRUE]
    /\ debt' = [debt EXCEPT ![k] = @ + Cost[k]]
    /\ least' = [least EXCEPT ![k] = @ + Cost[k] - MaxLag]
    /\ retryAt' = [retryAt EXCEPT ![k] = None]

Refused(k, b) ==
    /\ b.tokens < Cost[k]
    /\ buckets'[k] = b
    /\ answer' = [key |-> k, allowed |-> FALSE]
    /\ retryAt' = [retryAt EXCEPT ![k] = Min({now + RetryAfter(b, k)} \cup ({@} \ {None}))]
    /\ UNCHANGED meters

LEMMA DecideOpens ==
    ASSUME LimiterInv, NEW s \in Slots, Decide(s)
    PROVE  LET k == request[s].key
               t == request[s].at
               b == BucketAt(k, t)
           IN  /\ request[s] # None /\ request' = [request EXCEPT ![s] = None]
               /\ now' = now
               /\ Admitted(k, b) \/ Refused(k, b)
               /\ buckets' = [l \in Keys |-> buckets'[l]]
               /\ \A l \in Keys \ {k} : buckets'[l] = Cleaned(t)[l]
<1> DEFINE k == request[s].key
           t == request[s].at
           b == BucketAt(k, t)
<1>1. request[s] # None /\ request' = [request EXCEPT ![s] = None] /\ now' = now
  BY DEF Decide
<1>2. k \in Keys
  BY <1>1, DecidingBucket
<1>3. \/ /\ b.tokens >= Cost[k]
         /\ buckets' = [Cleaned(t) EXCEPT ![k] = [b EXCEPT !.tokens = @ - Cost[k]]]
         /\ answer' = [key |-> k, allowed |-> TRUE]
         /\ debt' = [debt EXCEPT ![k] = @ + Cost[k]]
         /\ least' = [least EXCEPT ![k] = @ + Cost[k] - MaxLag]
         /\ retryAt' = [retryAt EXCEPT ![k] = None]
      \/ /\ b.tokens < Cost[k]
         /\ buckets' = [Cleaned(t) EXCEPT ![k] = b]
         /\ answer' = [key |-> k, allowed |-> FALSE]
         /\ retryAt' = [retryAt EXCEPT ![k] =
                           Min({now + RetryAfter(b, k)} \cup ({@} \ {None}))]
         /\ UNCHANGED meters
  BY DEF Decide, BucketAt
<1> DEFINE c == Cleaned(t)
<1>4. c = [l \in Keys |-> c[l]]
  BY DEF Cleaned
<1> HIDE DEF b, c
<1>5. \/ buckets' = [c EXCEPT ![k] = [b EXCEPT !.tokens = @ - Cost[k]]]
      \/ buckets' = [c EXCEPT ![k] = b]
  BY <1>3 DEF c
<1>6. Admitted(k, b) \/ Refused(k, b)
  BY <1>2, <1>3, <1>4 DEF Admitted, Refused, c
<1>7. /\ buckets' = [l \in Keys |-> buckets'[l]]
      /\ \A l \in Keys \ {k} : buckets'[l] = c[l]
  BY <1>2, <1>4, <1>5
<1>8. QED
  BY <1>1, <1>6, <1>7 DEF b, c

LEMMA KeyTypes ==
    ASSUME LimiterInv, NEW k \in Keys
    PROVE  debt[k] \in Nat /\ least[k] \in Nat /\ retryAt[k] \in Nat \cup {None} /\ now \in Nat
BY DEF LimiterInv, KeyInOrder

\* An admission takes a token, and is one that the upper meter would admit too.
LEMMA AdmitKeeps ==
    ASSUME LimiterInv, UNCHANGED now, NEW k \in Keys, NEW b, BucketInOrder(b, k),
           Over(b, k) = 0, Lack(b, k) + Rate[k] * MaxLag >= 0, Admitted(k, b)
    PROVE  KeyInOrder(k)' /\ least[k] + Cost[k] - MaxLag <= Burst[k]
<1> DEFINE D == least[k]
           C == Cost[k]
           R == Rate[k]
           L == MaxLag
           c == [b EXCEPT !.tokens = @ - C]
<1>1. /\ C \in Nat /\ R \in Nat \ {0} /\ L \in Nat /\ C > L /\ Burst[k] = R * C /\ Burst[k] \in Nat
  BY PolicyFacts
<1>2. debt[k] \in Nat /\ D \in Nat /\ now \in Nat
  BY KeyTypes
<1>3. b \in Buckets(k) /\ Lack(b, k) <= debt[k] /\ KeptDown(D, Lack(b, k), 0, C, R, L)
  BY DEF BucketInOrder
<1>4. /\ b.tokens \in Nat /\ b.tokens <= Burst[k] /\ b.tokens >= C
      /\ (now - b.last) * R \in Nat /\ Lack(b, k) \in Int
  BY <1>2, <1>3, BucketFacts DEF Admitted
<1>5. /\ buckets'[k] = c /\ debt'[k] = debt[k] + C /\ least'[k] = D + C - L
      /\ retryAt'[k] = None
  BY DEF Admitted, LimiterInv
<1>6. c \in Buckets(k)' /\ c.tokens = b.tokens - C /\ c.last = b.last
  <2>1. b.tokens - C \in 0 .. Burst[k]
    BY <1>1, <1>4
  <2>2. QED
    BY <1>3, <2>1 DEF Buckets
<1>7. PICK m \in Nat : m = (now - b.last) * R
  BY <1>4
<1>8. /\ Lack(b, k) = Burst[k] - b.tokens - m
      /\ Lack(c, k)' = Burst[k] - (b.tokens - C) - m
      /\ Over(c, k)' = Over(b, k)
  BY <1>6, <1>7 DEF Lack, Over
<1> HIDE DEF D, C, R, L, c
<1>9. Lack(c, k)' = Lack(b, k) + C /\ Lack(c, k)' <= debt'[k]
  BY <1>1, <1>2, <1>3, <1>4, <1>5, <1>8
<1>10. KeptDown(D + C - L, Lack(b, k) + C, 0, C, R, L)
  <2>1. Lack(b, k) + R * L >= 0
    BY DEF R, L
  <2>2. D \in Int /\ R \in Nat
    BY <1>1, <1>2
  <2>3. QED
    BY <1>1, <1>3, <1>4, <2>1, <2>2, KeptDownAdmits
<1>11. D + C - L <= Burst[k]
  <2>1. Lack(b, k) <= R * C - C
    <3>1. R * C \in Nat
      BY <1>1
    <3>2. QED
      BY <1>1, <1>4, <1>8, <3>1
  <2>2. D \in Int
    BY <1>2
  <2>3. QED
    BY <1>1, <1>3, <1>4, <2>1, <2>2, KeptDownBounds
<1>12. BucketInOrder(c, k)'
  <2>1. c \in Buckets(k)'
    BY <1>6
  <2>2. KeptDown(least'[k], Lack(c, k)', Over(c, k)', Cost[k], Rate[k], MaxLag)
    BY <1>5, <1>8, <1>9, <1>10 DEF C, R, L
  <2>3. QED
    BY <1>5, <1>9, <2>1, <2>2 DEF BucketInOrder
<1>13. c # None
  <2>1. c \in Buckets(k)
    BY <1>6 DEF Buckets
  <2>2. QED
    BY <1>2, <2>1, NotNone
<1>14. debt'[k] \in Nat /\ least'[k] \in Nat
  BY <1>1, <1>2, <1>5
<1>15. KeyInOrder(k)'
  BY <1>5, <1>12, <1>13, <1>14 DEF KeyInOrder
<1>16. QED
  BY <1>11, <1>15 DEF D, C, L

\* A refusal leaves a time at which the bucket has a token again, and is one that
\* the lower meter would give too.
LEMMA RefuseKeeps ==
    ASSUME LimiterInv, UNCHANGED now, NEW k \in Keys, NEW b, BucketInOrder(b, k),
           Over(b, k) = 0, Refused(k, b), now - b.last <= MaxLag
    PROVE  KeyInOrder(k)' /\ debt[k] + Cost[k] > Burst[k] - MaxLag * Rate[k]
<1> DEFINE C == Cost[k]
           R == Rate[k]
           r == RetryAfter(b, k)
<1>1. C \in Nat /\ R \in Nat \ {0} /\ MaxLag \in Nat /\ Burst[k] \in Nat
  BY PolicyFacts
<1>2. debt[k] \in Nat /\ least[k] \in Nat /\ retryAt[k] \in Nat \cup {None} /\ now \in Nat
  BY KeyTypes
<1>3. b \in Buckets(k) /\ Lack(b, k) <= debt[k]
  BY DEF BucketInOrder
<1>4. /\ b.tokens \in Nat /\ b.tokens <= Burst[k] /\ b.tokens < C
      /\ b.last \in Nat /\ b.last <= now /\ (now - b.last) * R \in Nat /\ Lack(b, k) \in Int
  BY <1>2, <1>3, BucketFacts DEF Refused
<1>5. debt[k] + C > Burst[k] - MaxLag * R
  <2>1. \A u, v, w \in Nat : u <= v => u * w <= v * w
    OBVIOUS
  <2>2. (now - b.last) * R <= MaxLag * R
    BY <1>1, <1>2, <1>4, <2>1
  <2>3. PICK m \in Nat, n \in Nat : m = (now - b.last) * R /\ n = MaxLag * R
    BY <1>1, <1>4
  <2>4. Lack(b, k) = Burst[k] - b.tokens - m
    BY <2>3 DEF Lack
  <2>5. debt[k] + C > Burst[k] - n
    <3> HIDE DEF C, R
    <3>1. QED
      BY <1>1, <1>2, <1>3, <1>4, <2>2, <2>3, <2>4
  <2>6. QED
    BY <2>3, <2>5
<1>6. r \in Nat /\ b.tokens + r * R >= C
  <2>1. C - b.tokens \in Nat
    BY <1>1, <1>4
  <2>2. r = ((C - b.tokens) + R - 1) \div R
    BY DEF RetryAfter
  <2> HIDE DEF r, C, R
  <2>3. r \in Nat /\ r * R >= C - b.tokens
    BY <1>1, <2>1, <2>2, RetryAfterRounds
  <2>4. PICK m \in Int : m = r * R
    BY <1>1, <2>3
  <2>5. QED
    BY <1>1, <1>4, <2>3, <2>4
<1>7. /\ buckets'[k] = b /\ debt'[k] = debt[k] /\ least'[k] = least[k]
      /\ retryAt'[k] = Min({now + r} \cup ({retryAt[k]} \ {None}))
  BY DEF Refused, meters, LimiterInv
<1>8. /\ b \in Buckets(k)' /\ Lack(b, k)' = Lack(b, k) /\ Over(b, k)' = Over(b, k)
  BY <1>3 DEF Buckets, Lack, Over
<1>9. b # None
  BY <1>2, <1>3, NotNone
<1>10. /\ retryAt'[k] \in Nat
       /\ retryAt'[k] = now + r \/ (retryAt[k] # None /\ retryAt'[k] = retryAt[k])
  <2> HIDE DEF r
  <2>1. CASE retryAt[k] = None
    <3>1. {now + r} \cup ({retryAt[k]} \ {None}) = {now + r, now + r} /\ now + r \in Nat
      BY <1>2, <1>6, <2>1
    <3>2. QED
      BY <1>7, <3>1, MinOfTwo
  <2>2. CASE retryAt[k] # None
    <3>1. {now + r} \cup ({retryAt[k]} \ {None}) = {now + r, retryAt[k]}
      BY <2>2
    <3>2. now + r \in Nat /\ retryAt[k] \in Nat
      BY <1>2, <1>6, <2>2
    <3>3. QED
      BY <1>7, <2>2, <3>1, <3>2, MinOfTwo
  <2>3. QED
    BY <2>1, <2>2
<1>11. b.tokens >= C \/ b.tokens + (retryAt'[k] - b.last) * R >= C
  <2>1. CASE retryAt'[k] = now + r
    <3>1. \A u, v, w \in Nat : u >= v => u * w >= v * w
      OBVIOUS
    <3>2. (now + r) - b.last \in Nat /\ (now + r) - b.last >= r
      <4> HIDE DEF r
      <4>1. QED
        BY <1>2, <1>4, <1>6
    <3>3. ((now + r) - b.last) * R >= r * R
      <4> HIDE DEF r, R
      <4>1. QED
        BY <1>1, <1>6, <3>1, <3>2
    <3>4. PICK m \in Int, n \in Int : m = ((now + r) - b.last) * R /\ n = r * R
      BY <1>1, <1>6, <3>2
    <3>5. b.tokens + m >= C
      <4> HIDE DEF r, R, C
      <4>1. QED
        BY <1>1, <1>4, <1>6, <3>3, <3>4
    <3>6. QED
      BY <2>1, <3>4, <3>5
  <2>2. CASE retryAt[k] # None /\ retryAt'[k] = retryAt[k]
    BY <2>2 DEF BucketInOrder
  <2>3. QED
    BY <1>10, <2>1, <2>2
<1>12. BucketInOrder(b, k)'
  <2> HIDE DEF r
  <2>1. KeptDown(least'[k], Lack(b, k)', Over(b, k)', Cost[k], Rate[k], MaxLag)
    BY <1>7, <1>8 DEF BucketInOrder
  <2>2. QED
    BY <1>3, <1>7, <1>8, <1>11, <2>1 DEF BucketInOrder
<1>13. KeyInOrder(k)'
  <2> HIDE DEF r
  <2>1. QED
    BY <1>2, <1>7, <1>9, <1>10, <1>12 DEF KeyInOrder
<1>14. QED
  BY <1>5, <1>13

\* The keys that a request is not about lose their bucket or keep it.
LEMMA OthersKeep ==
    ASSUME LimiterInv, NEW s \in Slots, Decide(s), NEW l \in Keys, l # request[s].key
    PROVE  KeyInOrder(l)'
<1> DEFINE k == request[s].key
           t == request[s].at
<1>1. /\ request[s] # None /\ now' = now
      /\ Admitted(k, BucketAt(k, t)) \/ Refused(k, BucketAt(k, t))
      /\ buckets'[l] = Cleaned(t)[l]
  BY DecideOpens
<1>2. debt'[l] = debt[l] /\ least'[l] = least[l] /\ retryAt'[l] = retryAt[l]
  BY <1>1 DEF Admitted, Refused, meters, LimiterInv
<1>3. Cleaned(t)[l] = IF CleanupDue(t) /\ Idle(buckets[l], t) THEN None ELSE buckets[l]
  BY DEF Cleaned
<1>4. t \in Nat /\ t <= now
  BY <1>1 DEF LimiterInv, RequestInOrder
<1>5. KeyInOrder(l)
  BY DEF LimiterInv
<1>6. CASE buckets'[l] = None
  <2>1. least[l] = 0
    BY <1>1, <1>3, <1>4, <1>5, <1>6, IdleIsPaid DEF KeyInOrder
  <2>2. QED
    BY <1>2, <1>5, <1>6, <2>1 DEF KeyInOrder
<1>7. CASE buckets'[l] # None
  <2>1. buckets'[l] = buckets[l]
    BY <1>1, <1>3, <1>7
  <2>2. BucketInOrder(buckets[l], l)
    BY <1>5, <1>7, <2>1 DEF KeyInOrder
  <2>3. (BucketInOrder(buckets[l], l))'
    BY <1>1, <1>2, <2>1, <2>2 DEF BucketInOrder, Buckets, Lack, Over
  <2>4. QED
    BY <1>2, <1>5, <1>7, <2>3 DEF KeyInOrder
<1>8. QED
  BY <1>6, <1>7

\* What a decision keeps, and the decision that the meters would have taken.
LEMMA DecideKeeps ==
    ASSUME LimiterInv, NEW s \in Slots, Decide(s)
    PROVE  /\ LimiterInv'
           /\ \E k \in Keys : \E b :
                 /\ k = request[s].key /\ request[s].at <= b.last /\ BucketInOrder(b, k)
                 /\ \/ Admitted(k, b) /\ least[k] + Cost[k] - MaxLag <= Burst[k]
                    \/ Refused(k, b) /\ debt[k] + Cost[k] > Burst[k] - MaxLag * Rate[k]
<1>1. PICK k, t, b : k = request[s].key /\ t = request[s].at /\ b = BucketAt(k, t)
  OBVIOUS
<1>2. /\ request[s] # None /\ request' = [request EXCEPT ![s] = None] /\ now' = now
      /\ Admitted(k, b) \/ Refused(k, b)
      /\ buckets' = [l \in Keys |-> buckets'[l]]
  BY <1>1, DecideOpens
<1>3. /\ k \in Keys /\ t \in Nat /\ t <= now
      /\ BucketInOrder(b, k) /\ t <= b.last
      /\ Over(b, k) = 0 /\ Lack(b, k) + Rate[k] * MaxLag >= 0
  BY <1>1, <1>2, DecidingBucket
<1>4. now - b.last <= MaxLag
  <2>1. now - t <= MaxLag /\ now \in Nat
    BY <1>1, <1>2 DEF LimiterInv, RequestInOrder
  <2>2. b.last \in Nat
    BY <1>3 DEF BucketInOrder, Buckets
  <2>3. QED
    BY <1>3, <2>1, <2>2, LimiterAssumption
<1>5. \A l \in Keys : l # k => KeyInOrder(l)'
  BY <1>1, OthersKeep
<1>6. /\ debt' = [l \in Keys |-> debt'[l]] /\ least' = [l \in Keys |-> least'[l]]
      /\ retryAt' = [l \in Keys |-> retryAt'[l]]
  <2>1. /\ debt = [l \in Keys |-> debt[l]] /\ least = [l \in Keys |-> least[l]]
        /\ retryAt = [l \in Keys |-> retryAt[l]]
    BY DEF LimiterInv
  <2>2. CASE Admitted(k, b)
    BY <2>1, <2>2 DEF Admitted
  <2>3. CASE Refused(k, b)
    BY <2>1, <2>3 DEF Refused, meters
  <2>4. QED
    BY <1>2, <2>2, <2>3
<1>7. request' = [r \in Slots |-> request'[r]] /\ \A r \in Slots : RequestInOrder(r)'
  BY <1>2 DEF LimiterInv, RequestInOrder
<1>8. CASE Admitted(k, b)
  <2>1. KeyInOrder(k)' /\ least[k] + Cost[k] - MaxLag <= Burst[k]
    BY <1>2, <1>3, <1>8, AdmitKeeps
  <2>2. LimiterInv'
    BY <1>2, <1>5, <1>6, <1>7, <2>1 DEF LimiterInv
  <2>3. QED
    BY <1>3, <1>8, <1>1, <2>1, <2>2
<1>9. CASE Refused(k, b)
  <2>1. KeyInOrder(k)' /\ debt[k] + Cost[k] > Burst[k] - MaxLag * Rate[k]
    BY <1>2, <1>3, <1>4, <1>9, RefuseKeeps
  <2>2. LimiterInv'
    BY <1>2, <1>5, <1>6, <1>7, <2>1 DEF LimiterInv
  <2>3. QED
    BY <1>3, <1>9, <1>1, <2>1, <2>2
<1>10. QED
  BY <1>2, <1>8, <1>9

LEMMA ArriveKeeps ==
    ASSUME LimiterInv, NEW s \in Slots, Arrive(s)
    PROVE  LimiterInv'
<1>1. PICK p \in Paths \ ExemptPaths, c \in Clients :
          request' = [request EXCEPT ![s] =
              [key |-> [policy |-> PolicyForPath(p), client |-> c], at |-> now]]
  BY DEF Arrive
<1>2. UNCHANGED <<now, buckets, debt, least, retryAt>>
  BY DEF Arrive, limiter, meters
<1>3. [policy |-> PolicyForPath(p), client |-> c] \in Keys
  BY LimiterAssumption DEF PolicyForPath, Keys
<1>4. /\ request' = [r \in Slots |-> request'[r]]
      /\ \A r \in Slots : request'[r] = request[r] \/ request'[r] =
             [key |-> [policy |-> PolicyForPath(p), client |-> c], at |-> now]
  BY <1>1 DEF LimiterInv
<1>5. ASSUME NEW r \in Slots
      PROVE  RequestInOrder(r)'
  <2>1. CASE request'[r] = request[r]
    BY <1>2, <2>1 DEF LimiterInv, RequestInOrder
  <2>2. CASE request'[r] = [key |-> [policy |-> PolicyForPath(p), client |-> c], at |-> now]
    BY <1>2, <1>3, <2>2, LimiterAssumption DEF LimiterInv, RequestInOrder
  <2>3. QED
    BY <1>4, <2>1, <2>2
<1>6. \A k \in Keys : KeyInOrder(k)'
  BY <1>2 DEF LimiterInv, KeyInOrder, BucketInOrder, Buckets, Lack, Over
<1>7. QED
  BY <1>2, <1>4, <1>5, <1>6 DEF LimiterInv

LEMMA TickKeepsKey ==
    ASSUME LimiterInv, Tick, NEW k \in Keys
    PROVE  KeyInOrder(k)'
<1> DEFINE b == buckets[k]
           D == least[k]
           R == Rate[k]
           L == MaxLag
<1>1. Cost[k] \in Nat /\ R \in Nat \ {0} /\ L \in Nat /\ Burst[k] \in Nat
  BY PolicyFacts
<1>2. debt[k] \in Nat /\ D \in Nat /\ retryAt[k] \in Nat \cup {None} /\ now \in Nat
  BY KeyTypes
<1>3. now' = now + 1 /\ buckets' = buckets /\ retryAt' = retryAt
  BY DEF Tick, limiter
<1>4. debt'[k] = Max({0, debt[k] - R}) /\ least'[k] = Max({0, D - R})
  BY DEF Tick
<1>5. /\ debt'[k] = IF 0 >= debt[k] - R THEN 0 ELSE debt[k] - R
      /\ least'[k] = IF 0 >= D - R THEN 0 ELSE D - R
  <2>1. 0 \in Int /\ debt[k] - R \in Int /\ D - R \in Int
    BY <1>1, <1>2
  <2> HIDE DEF D, R
  <2>2. QED
    BY <1>4, <2>1, MaxOfTwo
<1>6. debt'[k] \in Nat /\ least'[k] \in Nat
  BY <1>1, <1>2, <1>5
<1>7. CASE b = None
  <2>1. least'[k] = 0
    BY <1>1, <1>2, <1>5, <1>7 DEF LimiterInv, KeyInOrder
  <2>2. QED
    BY <1>2, <1>3, <1>6, <1>7, <2>1 DEF KeyInOrder
<1>8. CASE b # None
  <2>1. BucketInOrder(b, k)
    BY <1>8 DEF LimiterInv, KeyInOrder
  <2>2. b \in Buckets(k)
    BY <2>1 DEF BucketInOrder
  <2>3. /\ b.tokens \in Nat /\ b.last \in Nat /\ b.last <= now
        /\ Lack(b, k) \in Int /\ Over(b, k) \in Nat
    BY <1>2, <2>2, BucketFacts
  <2>4. b \in Buckets(k)'
    BY <1>2, <1>3, <2>2 DEF Buckets
  <2>5. Lack(b, k)' = Lack(b, k) - R
    <3>1. ((now + 1) - b.last) * R = (now - b.last) * R + R
      <4> HIDE DEF b, R
      <4>1. PICK x \in Int : x = now - b.last
        BY <1>2, <2>3
      <4>2. (now + 1) - b.last = x + 1
        BY <1>2, <2>3, <4>1
      <4>3. (x + 1) * R = x * R + R
        BY <1>1
      <4>4. QED
        BY <4>1, <4>2, <4>3
    <3>2. Lack(b, k)' = Burst[k] - b.tokens - ((now + 1) - b.last) * R
      BY <1>3 DEF Lack
    <3>3. PICK m \in Int : m = (now - b.last) * R
      BY <1>1, <1>2, <2>3
    <3>4. Lack(b, k) = Burst[k] - b.tokens - m
      BY <3>3 DEF Lack
    <3> HIDE DEF b, R
    <3>5. QED
      BY <1>1, <2>3, <3>1, <3>2, <3>3, <3>4
  <2>6. Over(b, k)' \in Int /\ Over(b, k)' <= Over(b, k) + R
    <3>1. PICK x \in Nat, y \in Nat : x = now - b.last /\ y = (now + 1) - b.last
      <4> HIDE DEF b
      <4>1. now - b.last \in Nat /\ (now + 1) - b.last \in Nat
        BY <1>2, <2>3
      <4>2. QED
        BY <4>1
    <3>2. PICK o, p : o = Over(b, k)' /\ p = Over(b, k)
      OBVIOUS
    <3>3. PICK m \in Int, n \in Int : m = (x - L) * R /\ n = (y - L) * R
      BY <1>1
    <3>4. (o = IF y > L THEN n ELSE 0) /\ (p = IF x > L THEN m ELSE 0)
      BY <1>3, <3>1, <3>2, <3>3 DEF Over
    <3>5. y = x + 1
      BY <1>2, <2>3, <3>1
    <3>6. n = m + R /\ (x = L => m = 0)
      <4> HIDE DEF R, L
      <4>1. QED
        BY <1>1, <3>3, <3>5
    <3> HIDE DEF R, L
    <3>7. o \in Int /\ o <= p + R
      BY <1>1, <2>3, <3>2, <3>4, <3>5, <3>6
    <3>8. QED
      BY <3>2, <3>7
  <2>7. Lack(b, k)' <= debt'[k]
    <3>1. Lack(b, k) <= debt[k]
      BY <2>1 DEF BucketInOrder
    <3> HIDE DEF R, b
    <3>2. QED
      BY <1>1, <1>2, <1>5, <2>3, <2>5, <3>1
  <2>8. KeptDown(least'[k], Lack(b, k)', Over(b, k)', Cost[k], Rate[k], MaxLag)
    <3>1. KeptDown(D, Lack(b, k), Over(b, k), Cost[k], R, L)
      BY <2>1 DEF BucketInOrder
    <3>2. least'[k] <= 0 \/ (least'[k] = D - R /\ D > 0)
      BY <1>1, <1>2, <1>5
    <3>3. /\ D \in Int /\ Over(b, k) \in Int /\ Cost[k] \in Int /\ R \in Int /\ L \in Int
          /\ least'[k] \in Int
      BY <1>1, <1>2, <1>6, <2>3
    <3> HIDE DEF R, L, D, b
    <3>4. KeptDown(least'[k], Lack(b, k) - R, Over(b, k) + R, Cost[k], R, L)
      BY <2>3, <3>1, <3>2, <3>3, KeptDownTicks
    <3>5. Lack(b, k) - R \in Int /\ Over(b, k) + R \in Int /\ Lack(b, k) - R <= Lack(b, k) - R
      BY <2>3, <3>3
    <3>6. KeptDown(least'[k], Lack(b, k) - R, Over(b, k)', Cost[k], R, L)
      BY <2>6, <3>3, <3>4, <3>5, KeptDownMore
    <3>7. QED
      BY <2>5, <3>6 DEF R, L
  <2>9. BucketInOrder(b, k)'
    <3>1. (retryAt[k] # None =>
             b.tokens >= Cost[k] \/ b.tokens + (retryAt[k] - b.last) * Rate[k] >= Cost[k])'
      BY <1>3, <2>1 DEF BucketInOrder
    <3>2. (b \in Buckets(k) /\ Lack(b, k) <= debt[k])'
      BY <1>3, <2>4, <2>7
    <3>3. (KeptDown(least[k], Lack(b, k), Over(b, k), Cost[k], Rate[k], MaxLag))'
      BY <1>3, <2>8
    <3>4. QED
      BY <3>1, <3>2, <3>3 DEF BucketInOrder
  <2>10. QED
    BY <1>2, <1>3, <1>6, <1>8, <2>9 DEF KeyInOrder
<1>9. QED
  BY <1>7, <1>8

LEMMA TickKeeps ==
    ASSUME LimiterInv, Tick
    PROVE  LimiterInv'
<1>1. now' = now + 1 /\ UNCHANGED <<buckets, request, retryAt>>
  BY DEF Tick, limiter
<1>2. debt' = [k \in Keys |-> debt'[k]] /\ least' = [k \in Keys |-> least'[k]]
  BY DEF Tick
<1>3. \A k \in Keys : KeyInOrder(k)'
  BY TickKeepsKey
<1>4. ASSUME NEW s \in Slots
      PROVE  RequestInOrder(s)'
  <2>1. request[s] # None => now - request[s].at < MaxLag
    BY DEF Tick
  <2>2. QED
    BY <1>1, <2>1, LimiterAssumption DEF LimiterInv, RequestInOrder
<1>5. QED
  BY <1>1, <1>2, <1>3, <1>4 DEF LimiterInv

-----------------------------------------------------------------------------
(***************************************************************************)
(* The theorems.                                                           *)
(***************************************************************************)
LEMMA InitInv == LimiterInit => LimiterInv
<1> SUFFICES ASSUME LimiterInit PROVE LimiterInv
  OBVIOUS
<1>1. \A k \in Keys : KeyInOrder(k)
  BY DEF LimiterInit, KeyInOrder
<1>2. QED
  BY <1>1 DEF LimiterInit, LimiterInv, RequestInOrder

LEMMA NextInv == LimiterInv /\ [LimiterNext]_lvars => LimiterInv'
<1> SUFFICES ASSUME LimiterInv, [LimiterNext]_lvars PROVE LimiterInv'
  OBVIOUS
<1>1. CASE Tick
  BY <1>1, TickKeeps
<1>2. CASE \E s \in Slots : Arrive(s)
  BY <1>2, ArriveKeeps
<1>3. CASE \E s \in Slots : Decide(s)
  BY <1>3, DecideKeeps
<1>4. CASE UNCHANGED lvars
  BY <1>4 DEF lvars, LimiterInv, KeyInOrder, BucketInOrder, Buckets, Lack, Over, RequestInOrder
<1>5. QED
  BY <1>1, <1>2, <1>3, <1>4 DEF LimiterNext

(***************************************************************************)
(* Between two decisions, however late their readings of the clock and     *)
(* whatever a cleanup deleted, every bucket stays between the two meters.  *)
(***************************************************************************)
THEOREM BucketsFollowTheMeters == LimiterSpec => []LimiterInv
BY InitInv, NextInv, PTL DEF LimiterSpec

LEMMA StepsAreThrottled == LimiterInv /\ [LimiterNext]_lvars => [Promise!Next]_(Promise!tvars)
<1> SUFFICES ASSUME LimiterInv, [LimiterNext]_lvars
             PROVE  [Promise!Next]_(Promise!tvars)
  OBVIOUS
<1>1. CASE Tick
  BY <1>1 DEF Tick, Promise!Next, Promise!Tick, Promise!Max, Max
<1>2. CASE \E s \in Slots : Arrive(s)
  BY <1>2 DEF Arrive, meters, Promise!Next, Promise!Deliver
<1>3. ASSUME NEW s \in Slots, Decide(s)
      PROVE  Promise!Next
  <2>1. PICK k \in Keys : \E b :
           \/ Admitted(k, b) /\ least[k] + Cost[k] - MaxLag <= Burst[k]
           \/ Refused(k, b) /\ debt[k] + Cost[k] > Burst[k] - MaxLag * Rate[k]
    BY <1>3, DecideKeeps
  <2>2. Promise!Admit(k) \/ Promise!Refuse(k)
    BY <2>1 DEF Admitted, Refused, meters, Promise!Admit, Promise!Refuse
  <2>3. QED
    BY <2>2 DEF Promise!Next
<1>4. CASE UNCHANGED lvars
  BY <1>4 DEF lvars, Promise!tvars
<1>5. QED
  BY <1>1, <1>2, <1>3, <1>4 DEF LimiterNext

(***************************************************************************)
(* For any policies, clients, lag, and times of cleanup, the limiter gives *)
(* away no more than a bucket whose window is shorter by the lag, and      *)
(* refuses nobody whom a bucket refilled the lag ago would admit.          *)
(***************************************************************************)
THEOREM BucketsImplementThrottle == LimiterSpec => ImplementsThrottle
<1>1. LimiterInit => Promise!Init
  BY DEF LimiterInit, Promise!Init
<1>2. QED
  BY <1>1, BucketsFollowTheMeters, StepsAreThrottled, PTL
     DEF LimiterSpec, ImplementsThrottle, Promise!Spec

(***************************************************************************)
(* For any policies, clients and lag, a client refused comes back to a     *)
(* token when it waits for as long as Retry-After said.                    *)
(***************************************************************************)
THEOREM RetryAfterSuffices == LimiterSpec => RetryAfterIsEnough
<1> DEFINE Enough == \A s \in Slots :
          (request[s] # None /\ request'[s] = None /\ ~answer'.allowed) =>
              LET k == request[s].key
              IN  retryAt[k] # None => request[s].at < retryAt[k]
<1>1. LimiterInv /\ [LimiterNext]_lvars => [Enough]_lvars
  <2> SUFFICES ASSUME LimiterInv, LimiterNext, NEW s \in Slots,
                      request[s] # None, request'[s] = None, ~answer'.allowed,
                      retryAt[request[s].key] # None
               PROVE  request[s].at < retryAt[request[s].key]
    OBVIOUS
  <2>1. Decide(s)
    <3>1. ~ Tick
      BY DEF Tick
    <3>2. ASSUME NEW r \in Slots, Arrive(r) PROVE FALSE
      BY <3>2 DEF Arrive, LimiterInv
    <3>3. ASSUME NEW r \in Slots, Decide(r), r # s PROVE FALSE
      BY <3>3 DEF Decide, LimiterInv
    <3>4. QED
      BY <3>1, <3>2, <3>3 DEF LimiterNext
  <2>2. PICK k \in Keys : \E b :
           /\ k = request[s].key /\ request[s].at <= b.last /\ BucketInOrder(b, k)
           /\ Admitted(k, b) \/ Refused(k, b)
    BY <2>1, DecideKeeps
  <2>3. PICK b :
           /\ k = request[s].key /\ request[s].at <= b.last /\ BucketInOrder(b, k)
           /\ Admitted(k, b) \/ Refused(k, b)
    BY <2>2
  <2>4. Refused(k, b)
    BY <2>3 DEF Admitted
  <2>5. /\ b.tokens \in Nat /\ b.last \in Nat /\ b.tokens < Cost[k]
        /\ retryAt[k] \in Nat /\ request[s].at \in Nat /\ Rate[k] \in Nat /\ Cost[k] \in Nat
    <3>1. b \in Buckets(k) /\ now \in Nat /\ retryAt[k] \in Nat
      BY <2>2, <2>3, KeyTypes DEF BucketInOrder
    <3>2. request[s].at \in Nat
      BY DEF LimiterInv, RequestInOrder
    <3>3. QED
      BY <2>4, <3>1, <3>2, BucketFacts, PolicyFacts DEF Refused
  <2>6. b.tokens + (retryAt[k] - b.last) * Rate[k] >= Cost[k]
    BY <2>3, <2>5 DEF BucketInOrder
  <2>7. retryAt[k] > b.last
    <3> SUFFICES ASSUME retryAt[k] <= b.last PROVE FALSE
      BY <2>5
    <3>1. \A u, r \in Nat : u * r \in Nat
      OBVIOUS
    <3>2. b.last - retryAt[k] \in Nat
      BY <2>5
    <3>3. PICK m \in Nat : m = (b.last - retryAt[k]) * Rate[k]
      BY <2>5, <3>1, <3>2
    <3>4. (retryAt[k] - b.last) * Rate[k] = - m
      BY <2>5, <3>3
    <3>5. QED
      BY <2>5, <2>6, <3>3, <3>4
  <2>8. QED
    BY <2>3, <2>5, <2>7
<1>2. LimiterSpec => [][Enough]_lvars
  BY <1>1, BucketsFollowTheMeters, PTL DEF LimiterSpec
<1>3. QED
  BY <1>2 DEF RetryAfterIsEnough
=============================================================================
