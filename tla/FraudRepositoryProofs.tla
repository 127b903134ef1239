------------------------ MODULE FraudRepositoryProofs ------------------------
(***************************************************************************)
(* Proofs about the fraud service, for any calls, limits, numbers of       *)
(* restarts and any time between reading a clock and using what was read   *)
(* (MaxLag).  What the maps hold is history, in whatever order the times   *)
(* are used.  As long as no time is used after a later one, what the       *)
(* cleanup deletes is needed by no rule, so that each limit holds of the   *)
(* whole history of each life of the process and the maps implement the    *)
(* rules; the limit of a day needs no more than days in order.             *)
(***************************************************************************)
EXTENDS FraudRepository, SumTheorems

Entries == [request : Requests, decision : Decisions, at : Nat]

Typed ==
    /\ clock \in Nat /\ restarts \in Nat /\ used \in Nat
    /\ request \in [Calls -> Requests \cup {None}]
    /\ now \in [Calls -> Nat]
    /\ decision \in [Calls -> Decisions \cup {None}]
    /\ life \in [Calls -> Nat \cup {None}]
    /\ tick \in Nat \cup {None}
    /\ velocity \in [Senders -> SUBSET [call : Calls, at : Nat]]
    /\ \A s \in Senders : IsFiniteSet(velocity[s])
    /\ cooldown \in [Pairs -> Nat \cup {None}]
    /\ cache \in [Keys -> Entries \cup {None}]

\* What has been read of the clock is not of the future.
TimesArePast ==
    /\ clock <= MaxTime
    /\ \A c \in Calls : now[c] <= clock
    /\ tick # None => tick <= clock

CallsInOrder ==
    \A c \in Calls :
        /\ request[c] = None => decision[c] = None
        /\ decision[c] = None => life[c] = None
        /\ life[c] # None => life[c] <= restarts

WellFormed == Typed /\ TimesArePast /\ CallsInOrder

\* No call of this life was judged at a later time than the one used last.
JudgedByUsed == \A c \in Calls : life[c] = restarts => now[c] <= used

\* The decision of c is remembered for as long as its key lives.
KeyIsKept(c) ==
    used - now[c] <= TTL =>
        cache[request[c].key] # None /\ cache[request[c].key].at >= now[c]

\* While the pair of c cools down, the map says so.
PairIsKept(c) ==
    LET p == <<request[c].sender, request[c].receiver>>
    IN  used - now[c] < PairCooldown => cooldown[p] # None /\ cooldown[p] >= now[c]

\* While c is within the window, it is counted.
ApprovalIsKept(c) ==
    now[c] >= used - VelocityWindow =>
        [call |-> c, at |-> now[c]] \in velocity[request[c].sender]

IsKept(c) ==
    /\ KeyIsKept(c)
    /\ decision[c] = "OK" => PairIsKept(c) /\ ApprovalIsKept(c)

(***************************************************************************)
(* The maps cover the history of this life of the process: what has been   *)
(* deleted of it is out of date for every rule.                            *)
(***************************************************************************)
MapsCover == \A c \in Calls : life[c] = restarts => IsKept(c)

Covered == WellFormed /\ JudgedByUsed /\ MapsCover

-----------------------------------------------------------------------------
\* Types.

LEMMA InitTyped == Init => Typed
BY AmountsAssumption, FS_EmptySet DEF Init, Typed

LEMMA KeptVelocityTyped ==
    ASSUME Typed, NEW t
    PROVE  /\ KeptVelocity(t) \in [Senders -> SUBSET [call : Calls, at : Nat]]
           /\ \A s \in Senders : IsFiniteSet(KeptVelocity(t)[s])
<1>1. \A s \in Senders : KeptVelocity(t)[s] \in SUBSET velocity[s]
  BY DEF KeptVelocity, KeepRecent
<1>2. \A s \in Senders : IsFiniteSet(KeptVelocity(t)[s])
  BY <1>1, FS_Subset DEF Typed
<1>3. KeptVelocity(t) = [s \in Senders |-> KeptVelocity(t)[s]]
  BY DEF KeptVelocity
<1>4. QED
  BY <1>1, <1>2, <1>3 DEF Typed

LEMMA KeptTyped ==
    ASSUME Typed, NEW t
    PROVE  /\ KeptCooldown(t) \in [Pairs -> Nat \cup {None}]
           /\ KeptCache(t) \in [Keys -> Entries \cup {None}]
BY DEF Typed, KeptCooldown, KeptCache

LEMMA VerdictTyped == \A r, t : Verdict(r, t) \in Decisions
BY DEF Verdict, RuleFor, Decisions, RuleCodes

LEMMA NextTyped == Typed /\ [Next]_vars => Typed'
<1> SUFFICES ASSUME Typed, [Next]_vars PROVE Typed'
  OBVIOUS
<1>1. ASSUME NEW c \in Calls, Arrive(c) PROVE Typed'
  BY <1>1 DEF Arrive, maps, Typed
<1>2. ASSUME NEW c \in Calls, Repeat(c) PROVE Typed'
  <2>1. request[c] \in Requests /\ request[c].key \in Keys
    BY <1>2 DEF Repeat, InFlight, Typed, Requests
  <2>2. KeptCache(now[c])[request[c].key] \in Entries
    BY <1>2, <2>1, KeptTyped DEF Repeat
  <2>3. decision' \in [Calls -> Decisions \cup {None}]
    BY <1>2, <2>2 DEF Repeat, Typed, Entries, Decisions
  <2>4. QED
    BY <1>2, <2>3, KeptTyped, KeptVelocityTyped DEF Repeat, Typed
<1>3. ASSUME NEW c \in Calls, Judge(c) PROVE Typed'
  <2> DEFINE t == now[c]
             r == request[c]
  <2>1. r \in Requests /\ r.sender \in Senders /\ r.receiver \in Receivers /\ r.key \in Keys
    BY <1>3 DEF Judge, InFlight, Typed, Requests
  <2>2. t \in Nat /\ Verdict(r, t) \in Decisions
    BY VerdictTyped DEF Typed
  <2>3. [request |-> r, decision |-> Verdict(r, t), at |-> t] \in Entries
    BY <2>1, <2>2 DEF Entries
  <2>4. cache' \in [Keys -> Entries \cup {None}]
    BY <1>3, <2>3, KeptTyped DEF Judge
  <2>5. cooldown' \in [Pairs -> Nat \cup {None}]
    BY <1>3, <2>2, KeptTyped DEF Judge
  <2>6. /\ velocity' \in [Senders -> SUBSET [call : Calls, at : Nat]]
        /\ \A s \in Senders : IsFiniteSet(velocity'[s])
    <3>1. CASE Verdict(r, t) # "OK"
      BY <1>3, <3>1, KeptVelocityTyped DEF Judge
    <3>2. CASE Verdict(r, t) = "OK"
      <4> DEFINE e == [call |-> c, at |-> t]
      <4>1. velocity' = [KeptVelocity(t) EXCEPT ![r.sender] = @ \cup {e}]
        BY <1>3, <3>2 DEF Judge
      <4>2. e \in [call : Calls, at : Nat]
        BY <2>2
      <4>3. IsFiniteSet(KeptVelocity(t)[r.sender] \cup {e})
        BY <2>1, KeptVelocityTyped, FS_AddElement
      <4> HIDE DEF t, r, e
      <4>4. \A s \in Senders : IsFiniteSet(velocity'[s])
        BY <4>1, <4>3, KeptVelocityTyped
      <4>5. QED
        BY <4>1, <4>2, <4>4, KeptVelocityTyped
    <3>3. QED
      BY <3>1, <3>2
  <2>7. QED
    BY <1>3, <2>2, <2>4, <2>5, <2>6 DEF Judge, Typed
<1>4. CASE Tick
  BY <1>4 DEF Tick, calls, maps, Typed
<1>5. CASE Clean
  BY <1>5, KeptTyped, KeptVelocityTyped DEF Clean, calls, Typed
<1>6. CASE Pass
  BY <1>6 DEF Pass, calls, maps, Typed
<1>7. CASE Restart
  BY <1>7, FS_EmptySet DEF Restart, EmptyMaps, Typed, Decisions
<1>8. CASE UNCHANGED vars
  BY <1>8 DEF vars, Typed
<1>9. QED
  BY <1>1, <1>2, <1>3, <1>4, <1>5, <1>6, <1>7, <1>8 DEF Next

-----------------------------------------------------------------------------
\* Calls and times.

LEMMA InitWellFormed == Init => WellFormed
BY InitTyped, BoundAssumption, NoneAssumption
   DEF Init, WellFormed, TimesArePast, CallsInOrder

LEMMA NextTimes == Typed /\ TimesArePast /\ [Next]_vars => TimesArePast'
<1> SUFFICES ASSUME Typed, TimesArePast, [Next]_vars PROVE TimesArePast'
  OBVIOUS
<1>1. ASSUME NEW c \in Calls, Arrive(c) PROVE TimesArePast'
  BY <1>1 DEF Arrive, TimesArePast, Typed
<1>2. ASSUME NEW c \in Calls, Repeat(c) \/ Judge(c) PROVE TimesArePast'
  BY <1>2 DEF Repeat, Judge, TimesArePast
<1>3. CASE Tick \/ Clean \/ Restart
  BY <1>3 DEF Tick, Clean, Restart, calls, TimesArePast, Typed
<1>4. CASE Pass
  BY <1>4, BoundAssumption DEF Pass, calls, TimesArePast, Typed
<1>5. CASE UNCHANGED vars
  BY <1>5 DEF vars, TimesArePast
<1>6. QED
  BY <1>1, <1>2, <1>3, <1>4, <1>5 DEF Next

LEMMA NextCallsInOrder == Typed /\ CallsInOrder /\ [Next]_vars => CallsInOrder'
<1> SUFFICES ASSUME Typed, CallsInOrder, [Next]_vars PROVE CallsInOrder'
  OBVIOUS
<1>1. ASSUME NEW c \in Calls, Arrive(c) PROVE CallsInOrder'
  <2>1. PICK r \in Requests : request' = [request EXCEPT ![c] = r]
    BY <1>1 DEF Arrive
  <2>2. QED
    BY <1>1, <2>1, NoneAssumption DEF Arrive, CallsInOrder, Typed
<1>2. ASSUME NEW c \in Calls, Repeat(c) PROVE CallsInOrder'
  <2>1. PICK answer : decision' = [decision EXCEPT ![c] = answer]
    BY <1>2 DEF Repeat
  <2>2. request[c] # None /\ decision[c] = None /\ life[c] = None
    BY <1>2 DEF Repeat, InFlight, CallsInOrder
  <2>3. \A d \in Calls : d # c => decision'[d] = decision[d]
    BY <2>1 DEF Typed
  <2>4. QED
    BY <1>2, <2>2, <2>3 DEF Repeat, CallsInOrder
<1>3. ASSUME NEW c \in Calls, Judge(c) PROVE CallsInOrder'
  <2> DEFINE v == Verdict(request[c], now[c])
  <2>1. /\ decision' = [decision EXCEPT ![c] = v]
        /\ life' = [life EXCEPT ![c] = restarts]
        /\ UNCHANGED <<restarts, request>> /\ request[c] # None
    BY <1>3 DEF Judge, InFlight
  <2>2. v # None
    BY VerdictTyped, NoneAssumption
  <2> HIDE DEF v
  <2>3. QED
    BY <2>1, <2>2 DEF CallsInOrder, Typed
<1>4. CASE Tick \/ Clean \/ Pass
  BY <1>4 DEF Tick, Clean, Pass, calls, CallsInOrder
<1>5. CASE Restart
  BY <1>5, NoneAssumption DEF Restart, CallsInOrder, InFlight, Typed, Decisions
<1>6. CASE UNCHANGED vars
  BY <1>6 DEF vars, CallsInOrder
<1>7. QED
  BY <1>1, <1>2, <1>3, <1>4, <1>5, <1>6 DEF Next

LEMMA NextWellFormed == WellFormed /\ [Next]_vars => WellFormed'
BY NextTyped, NextTimes, NextCallsInOrder DEF WellFormed

\* A call that the rules have decided has a request, with its parts.
LEMMA DecidedCall ==
    ASSUME WellFormed, NEW c \in Calls, life[c] # None
    PROVE  /\ request[c] \in Requests /\ decision[c] # None
           /\ request[c].sender \in Senders /\ request[c].receiver \in Receivers
           /\ request[c].key \in Keys
           /\ <<request[c].sender, request[c].receiver>> \in Pairs
BY DEF WellFormed, Typed, CallsInOrder, Requests, Pairs

\* What Judge does.
LEMMA JudgedCall ==
    ASSUME WellFormed, NEW c \in Calls, Judge(c)
    PROVE  LET r == request[c]
               t == now[c]
               v == Verdict(r, t)
               p == <<r.sender, r.receiver>>
           IN  /\ r \in Requests /\ r # None
               /\ r.sender \in Senders /\ r.key \in Keys /\ p \in Pairs
               /\ t \in Nat /\ t <= clock /\ decision[c] = None /\ life[c] = None
               /\ KeptCache(t)[r.key] = None
               /\ v \in Decisions
               /\ decision' = [decision EXCEPT ![c] = v]
               /\ life' = [life EXCEPT ![c] = restarts]
               /\ UNCHANGED <<clock, restarts, request, now, tick>> /\ used' = t
               /\ cache' = [KeptCache(t) EXCEPT
                               ![r.key] = [request |-> r, decision |-> v, at |-> t]]
               /\ v = "OK" =>
                     /\ velocity' = [KeptVelocity(t) EXCEPT
                                        ![r.sender] = @ \cup {[call |-> c, at |-> t]}]
                     /\ cooldown' = [KeptCooldown(t) EXCEPT ![p] = t]
               /\ v # "OK" =>
                     velocity' = KeptVelocity(t) /\ cooldown' = KeptCooldown(t)
<1> USE DEF WellFormed
<1>1. request[c] # None /\ decision[c] = None /\ life[c] = None
  BY DEF Judge, InFlight, CallsInOrder
<1>2. /\ request[c] \in Requests
      /\ request[c].sender \in Senders /\ request[c].key \in Keys
      /\ <<request[c].sender, request[c].receiver>> \in Pairs
  BY <1>1 DEF Typed, Requests, Pairs
<1>3. now[c] \in Nat /\ now[c] <= clock
  BY DEF Typed, TimesArePast
<1>4. QED
  BY <1>1, <1>2, <1>3, VerdictTyped DEF Judge

\* The cleanup at time t, and nothing else of the maps.
Cleaned(t) ==
    /\ daily' = KeptDaily(t) /\ velocity' = KeptVelocity(t)
    /\ cooldown' = KeptCooldown(t) /\ cache' = KeptCache(t)
    /\ used' = t

\* A step in which the rules decide nothing, of one life of the process.
IsCleaning == restarts' = restarts /\ ~ \E c \in Calls : Judge(c)

LEMMA CleanedOrNot ==
    ASSUME WellFormed, [Next]_vars, IsCleaning
    PROVE  \/ UNCHANGED <<maps, used>>
           \/ \E t \in Nat : t <= clock /\ Cleaned(t)
<1> USE DEF WellFormed
<1>1. ASSUME NEW c \in Calls, Repeat(c)
      PROVE  \E t \in Nat : t <= clock /\ Cleaned(t)
  <2>1. now[c] \in Nat /\ now[c] <= clock
    BY DEF Typed, TimesArePast
  <2>2. Cleaned(now[c])
    BY <1>1 DEF Repeat, Cleaned
  <2>3. QED
    BY <2>1, <2>2
<1>2. ASSUME Clean PROVE \E t \in Nat : t <= clock /\ Cleaned(t)
  <2>1. tick \in Nat /\ tick <= clock
    BY <1>2 DEF Clean, Typed, TimesArePast
  <2>2. Cleaned(tick)
    BY <1>2 DEF Clean, Cleaned
  <2>3. QED
    BY <2>1, <2>2
<1>3. ASSUME Restart PROVE FALSE
  BY <1>3 DEF Restart, IsCleaning, Typed
<1>4. QED
  BY <1>1, <1>2, <1>3 DEF IsCleaning, Next, Arrive, Tick, Pass, maps, vars

-----------------------------------------------------------------------------
\* The history of each life.

\* Nothing but Judge changes the history.
LEMMA HistoryStays ==
    ASSUME WellFormed, [Next]_vars, ~ \E c \in Calls : Judge(c)
    PROVE  /\ life' = life
           /\ \A c \in Calls : life[c] # None => UNCHANGED <<request[c], now[c], decision[c]>>
<1> USE DEF WellFormed, CallsInOrder
<1>1. ASSUME NEW c \in Calls, Arrive(c) PROVE
           /\ life' = life
           /\ \A d \in Calls : life[d] # None => UNCHANGED <<request[d], now[d], decision[d]>>
  <2>1. PICK r \in Requests : request' = [request EXCEPT ![c] = r]
    BY <1>1 DEF Arrive
  <2>2. life[c] = None
    BY <1>1 DEF Arrive
  <2>3. QED
    BY <1>1, <2>1, <2>2 DEF Arrive, Typed
<1>2. ASSUME NEW c \in Calls, Repeat(c) PROVE
           /\ life' = life
           /\ \A d \in Calls : life[d] # None => UNCHANGED <<request[d], now[d], decision[d]>>
  <2>1. PICK answer : decision' = [decision EXCEPT ![c] = answer]
    BY <1>2 DEF Repeat
  <2>2. life[c] = None
    BY <1>2 DEF Repeat, InFlight
  <2>3. QED
    BY <1>2, <2>1, <2>2 DEF Repeat, Typed
<1>3. CASE Tick \/ Clean \/ Pass
  BY <1>3 DEF Tick, Clean, Pass, calls
<1>4. CASE Restart
  BY <1>4 DEF Restart, InFlight
<1>5. CASE UNCHANGED vars
  BY <1>5 DEF vars
<1>6. QED
  BY <1>1, <1>2, <1>3, <1>4, <1>5 DEF Next

LEMMA ApprovedStays ==
    ASSUME WellFormed, [Next]_vars, ~ \E c \in Calls : Judge(c),
           NEW s \in Senders, NEW l \in Nat
    PROVE  Approved(s, l)' = Approved(s, l)
<1>1. \A c \in Calls : life[c] = l => UNCHANGED <<request[c], decision[c]>>
  BY HistoryStays, NoneAssumption
<1>2. life' = life
  BY HistoryStays
<1>3. QED
  BY <1>1, <1>2 DEF Approved

\* Judge adds the call that it approves, and nothing else.
LEMMA JudgeApproves ==
    ASSUME WellFormed, NEW c \in Calls, Judge(c), NEW s \in Senders, NEW l \in Nat
    PROVE  /\ c \notin Approved(s, l)
           /\ Approved(s, l)' =
                  IF /\ Verdict(request[c], now[c]) = "OK"
                     /\ s = request[c].sender /\ l = restarts
                  THEN Approved(s, l) \cup {c} ELSE Approved(s, l)
<1> DEFINE v == Verdict(request[c], now[c])
<1>1. /\ life[c] = None /\ decision' = [decision EXCEPT ![c] = v]
      /\ life' = [life EXCEPT ![c] = restarts] /\ UNCHANGED request
  BY JudgedCall
<1> HIDE DEF v
<1>2. c \notin Approved(s, l)
  BY <1>1, NoneAssumption DEF Approved
<1>3. \A d \in Calls : d # c => life'[d] = life[d] /\ decision'[d] = decision[d]
  BY <1>1 DEF WellFormed, Typed
<1>4. life'[c] = restarts /\ decision'[c] = v
  BY <1>1 DEF WellFormed, Typed
<1>5. Approved(s, l)' = IF v = "OK" /\ s = request[c].sender /\ l = restarts
                        THEN Approved(s, l) \cup {c} ELSE Approved(s, l)
  BY <1>1, <1>2, <1>3, <1>4 DEF Approved
<1>6. QED
  BY <1>2, <1>5 DEF v

LEMMA ApprovedCall ==
    ASSUME WellFormed, NEW s \in Senders, NEW l \in Nat, NEW c \in Approved(s, l)
    PROVE  /\ c \in Calls /\ life[c] # None /\ life[c] = l /\ l <= restarts
           /\ decision[c] = "OK" /\ request[c].sender = s
           /\ request[c].amount \in Nat /\ now[c] \in Nat
<1>1. c \in Calls /\ life[c] # None /\ life[c] = l
      /\ decision[c] = "OK" /\ request[c].sender = s
  BY NoneAssumption DEF Approved
<1>2. request[c] \in Requests
  BY <1>1, DecidedCall
<1>3. QED
  BY <1>1, <1>2, AmountsAssumption DEF Requests, WellFormed, Typed, CallsInOrder

-----------------------------------------------------------------------------
\* The maps are history.

(***************************************************************************)
(* Whatever the maps hold is of this life's history.                       *)
(***************************************************************************)
VelocityIsHistory ==
    \A s \in Senders : \A e \in velocity[s] :
        e.call \in Approved(s, restarts) /\ e.at = now[e.call]

CooldownIsHistory ==
    \A s \in Senders, r \in Receivers : cooldown[<<s, r>>] # None =>
        \E d \in Approved(s, restarts) :
            request[d].receiver = r /\ now[d] = cooldown[<<s, r>>]

\* The call whose decision an entry of the cache is.
IsOf(entry, d) ==
    /\ life[d] = restarts
    /\ entry.request = request[d] /\ entry.decision = decision[d] /\ entry.at = now[d]

CacheIsHistory ==
    \A k \in Keys : cache[k] # None =>
        \E d \in Calls : request[d].key = k /\ IsOf(cache[k], d)

MapsAreHistory == VelocityIsHistory /\ CooldownIsHistory /\ CacheIsHistory

\* What is left of a map is of the map.
LEMMA KeptIsOld ==
    ASSUME WellFormed, NEW t
    PROVE  /\ \A s \in Senders : KeptVelocity(t)[s] \subseteq velocity[s]
           /\ \A p \in Pairs : KeptCooldown(t)[p] # None => KeptCooldown(t)[p] = cooldown[p]
           /\ \A k \in Keys : KeptCache(t)[k] # None => KeptCache(t)[k] = cache[k]
BY DEF KeptVelocity, KeepRecent, KeptCooldown, KeptCache

\* A step that changes nothing of the history of this life, and adds nothing to
\* the maps.
LEMMA HistoryIsKept ==
    ASSUME WellFormed, MapsAreHistory, [Next]_vars, ~ \E c \in Calls : Judge(c),
           restarts' = restarts,
           \A s \in Senders : velocity'[s] \subseteq velocity[s],
           \A p \in Pairs : cooldown'[p] # None => cooldown'[p] = cooldown[p],
           \A k \in Keys : cache'[k] # None => cache'[k] = cache[k]
    PROVE  MapsAreHistory'
<1>1. restarts \in Nat /\ restarts # None
  BY NoneAssumption DEF WellFormed, Typed
<1>2. \A s \in Senders : Approved(s, restarts)' = Approved(s, restarts)
  <2>1. \A s \in Senders, l \in Nat : Approved(s, l)' = Approved(s, l)
    BY ApprovedStays
  <2>2. QED
    BY <1>1, <2>1 DEF Approved
<1>3. /\ life' = life
      /\ \A d \in Calls : life[d] = restarts => UNCHANGED <<request[d], now[d], decision[d]>>
  BY <1>1, HistoryStays
<1>4. \A s \in Senders : \A d \in Approved(s, restarts) : UNCHANGED <<request[d], now[d]>>
  BY <1>3 DEF Approved
<1>5. VelocityIsHistory'
  BY <1>2, <1>4 DEF MapsAreHistory, VelocityIsHistory
<1>6. CooldownIsHistory'
  <2> SUFFICES ASSUME NEW s \in Senders, NEW r \in Receivers, cooldown'[<<s, r>>] # None
               PROVE  \E d \in Approved(s, restarts)' :
                          request'[d].receiver = r /\ now'[d] = cooldown'[<<s, r>>]
    BY DEF CooldownIsHistory
  <2>1. <<s, r>> \in Pairs
    BY DEF Pairs
  <2>2. cooldown'[<<s, r>>] = cooldown[<<s, r>>] /\ cooldown[<<s, r>>] # None
    BY <2>1
  <2>3. PICK d \in Approved(s, restarts) :
            request[d].receiver = r /\ now[d] = cooldown[<<s, r>>]
    BY <2>2 DEF MapsAreHistory, CooldownIsHistory
  <2>4. QED
    BY <1>2, <1>4, <2>2, <2>3
<1>7. CacheIsHistory'
  BY <1>3 DEF MapsAreHistory, CacheIsHistory, IsOf
<1>8. QED
  BY <1>5, <1>6, <1>7 DEF MapsAreHistory

LEMMA JudgeIsHistory ==
    ASSUME WellFormed, MapsAreHistory, NEW c \in Calls, Judge(c)
    PROVE  MapsAreHistory'
<1> DEFINE r == request[c]
           t == now[c]
           v == Verdict(r, t)
           p == <<r.sender, r.receiver>>
           entry == [request |-> r, decision |-> v, at |-> t]
<1>1. /\ r \in Requests /\ r.sender \in Senders /\ r.key \in Keys /\ p \in Pairs
      /\ life[c] = None
      /\ decision' = [decision EXCEPT ![c] = v]
      /\ life' = [life EXCEPT ![c] = restarts]
      /\ UNCHANGED <<restarts, request, now>>
      /\ cache' = [KeptCache(t) EXCEPT ![r.key] = entry]
  BY JudgedCall
<1>2. /\ v = "OK" =>
           /\ velocity' = [KeptVelocity(t) EXCEPT
                              ![r.sender] = @ \cup {[call |-> c, at |-> t]}]
           /\ cooldown' = [KeptCooldown(t) EXCEPT ![p] = t]
      /\ v # "OK" => velocity' = KeptVelocity(t) /\ cooldown' = KeptCooldown(t)
  BY JudgedCall
<1>3. restarts \in Nat /\ restarts # None
  BY NoneAssumption DEF WellFormed, Typed
<1>4. \A s \in Senders :
         Approved(s, restarts)' = IF v = "OK" /\ s = r.sender
                                  THEN Approved(s, restarts) \cup {c}
                                  ELSE Approved(s, restarts)
  <2>1. \A s \in Senders, l \in Nat : l = restarts =>
           Approved(s, l)' = IF v = "OK" /\ s = r.sender THEN Approved(s, l) \cup {c}
                                                         ELSE Approved(s, l)
    BY JudgeApproves
  <2>2. QED
    BY <1>1, <1>3, <2>1 DEF Approved
<1>5. \A d \in Calls : d # c => life'[d] = life[d] /\ decision'[d] = decision[d]
  BY <1>1 DEF WellFormed, Typed
<1>6. life'[c] = restarts /\ decision'[c] = v
  BY <1>1 DEF WellFormed, Typed
<1> HIDE DEF v, p, r, t
<1>7. VelocityIsHistory'
  <2> SUFFICES ASSUME NEW s \in Senders, NEW e \in velocity'[s]
               PROVE  e.call \in Approved(s, restarts)' /\ e.at = now[e.call]
    BY <1>1 DEF VelocityIsHistory
  <2>1. \/ e \in velocity[s]
        \/ v = "OK" /\ s = r.sender /\ e = [call |-> c, at |-> t]
    BY <1>1, <1>2, KeptIsOld, KeptVelocityTyped DEF WellFormed
  <2>2. CASE e \in velocity[s]
    BY <1>4, <2>2 DEF MapsAreHistory, VelocityIsHistory
  <2>3. CASE v = "OK" /\ s = r.sender /\ e = [call |-> c, at |-> t]
    BY <1>1, <1>4, <2>3 DEF t
  <2>4. QED
    BY <2>1, <2>2, <2>3
<1>8. CooldownIsHistory'
  <2> SUFFICES ASSUME NEW s \in Senders, NEW q \in Receivers, cooldown'[<<s, q>>] # None
               PROVE  \E d \in Approved(s, restarts)' :
                          request[d].receiver = q /\ now[d] = cooldown'[<<s, q>>]
    BY <1>1 DEF CooldownIsHistory
  <2>1. <<s, q>> \in Pairs
    BY DEF Pairs
  <2>2. \/ cooldown'[<<s, q>>] = cooldown[<<s, q>>]
        \/ v = "OK" /\ <<s, q>> = p /\ cooldown'[<<s, q>>] = t
    BY <1>1, <1>2, <2>1, KeptIsOld, KeptTyped DEF WellFormed
  <2>3. CASE cooldown'[<<s, q>>] = cooldown[<<s, q>>]
    <3>1. PICK d \in Approved(s, restarts) :
              request[d].receiver = q /\ now[d] = cooldown[<<s, q>>]
      BY <2>3 DEF MapsAreHistory, CooldownIsHistory
    <3>2. QED
      BY <1>4, <2>3, <3>1
  <2>4. CASE v = "OK" /\ <<s, q>> = p /\ cooldown'[<<s, q>>] = t
    <3>1. s = r.sender /\ q = r.receiver
      BY <2>4 DEF p
    <3>2. c \in Approved(s, restarts)'
      BY <1>4, <2>4, <3>1
    <3>3. QED
      BY <1>1, <2>4, <3>1, <3>2 DEF r, t
  <2>5. QED
    BY <2>2, <2>3, <2>4
<1>9. CacheIsHistory'
  <2> SUFFICES ASSUME NEW k \in Keys, cache'[k] # None
               PROVE  \E d \in Calls : request[d].key = k /\ IsOf(cache[k], d)'
    BY <1>1 DEF CacheIsHistory
  <2>1. CASE k = r.key
    <3>1. cache'[k] = entry
      BY <1>1, <2>1, KeptTyped DEF WellFormed
    <3>2. IsOf(cache[k], c)'
      BY <1>1, <1>6, <3>1 DEF IsOf, r, t
    <3>3. QED
      BY <2>1, <3>2 DEF r
  <2>2. CASE k # r.key
    <3>1. cache'[k] = cache[k] /\ cache[k] # None
      BY <1>1, <2>2, KeptIsOld, KeptTyped DEF WellFormed
    <3>2. PICK d \in Calls : request[d].key = k /\ IsOf(cache[k], d)
      BY <3>1 DEF MapsAreHistory, CacheIsHistory
    <3>3. d # c
      BY <1>1, <1>3, <3>2 DEF IsOf
    <3>4. QED
      BY <1>1, <1>5, <3>1, <3>2, <3>3 DEF IsOf
  <2>3. QED
    BY <2>1, <2>2
<1>10. QED
  BY <1>7, <1>8, <1>9 DEF MapsAreHistory

LEMMA NextMapsAreHistory ==
    WellFormed /\ MapsAreHistory /\ [Next]_vars => MapsAreHistory'
<1> SUFFICES ASSUME WellFormed, MapsAreHistory, [Next]_vars PROVE MapsAreHistory'
  OBVIOUS
<1>1. CASE \E c \in Calls : Judge(c)
  BY <1>1, JudgeIsHistory
<1>2. CASE Restart
  BY <1>2 DEF Restart, EmptyMaps, MapsAreHistory, VelocityIsHistory, CooldownIsHistory,
              CacheIsHistory, Pairs
<1>3. CASE ~ Restart /\ ~ \E c \in Calls : Judge(c)
  <2>1. restarts' = restarts
    BY <1>3 DEF Next, Arrive, Repeat, Tick, Clean, Pass, vars
  <2>2. UNCHANGED <<maps, used>> \/ \E t \in Nat : Cleaned(t)
    BY <1>3, <2>1, CleanedOrNot DEF IsCleaning
  <2>3. ASSUME NEW t \in Nat, Cleaned(t) PROVE MapsAreHistory'
    BY <1>3, <2>1, <2>3, KeptIsOld, HistoryIsKept DEF Cleaned
  <2>4. ASSUME UNCHANGED maps PROVE MapsAreHistory'
    BY <1>3, <2>1, <2>4, HistoryIsKept DEF maps
  <2>5. QED
    BY <2>2, <2>3, <2>4
<1>4. QED
  BY <1>1, <1>2, <1>3

-----------------------------------------------------------------------------
\* Days.

LEMMA DayIsNumber == \A t \in Nat : Day(t) \in Nat
BY ConfigAssumption DEF Day

LEMMA DaysPass == \A t, u \in Nat : t <= u => Day(t) <= Day(u)
BY ConfigAssumption DEF Day

DailyTyped == daily \in [Senders -> [Days -> Nat]]

LEMMA PastDay == \A t \in Nat : WellFormed /\ t <= clock => Day(t) \in Days
BY DayIsNumber, DaysPass, BoundAssumption DEF WellFormed, Typed, TimesArePast, Days

LEMMA KeptDailyTyped ==
    ASSUME DailyTyped, NEW t
    PROVE  KeptDaily(t) \in [Senders -> [Days -> Nat]]
BY DEF KeptDaily, DailyTyped

\* What Judge does to the totals.
LEMMA JudgedDaily ==
    ASSUME WellFormed, DailyTyped, NEW c \in Calls, Judge(c)
    PROVE  LET r == request[c]
               t == now[c]
               u == KeptDaily(t)[r.sender][Day(t)] + r.amount
           IN  /\ Day(t) \in Days /\ u \in Nat
               /\ Verdict(r, t) = "OK" =>
                     daily' = [KeptDaily(t) EXCEPT ![r.sender] =
                                  [KeptDaily(t)[r.sender] EXCEPT ![Day(t)] = u]]
               /\ Verdict(r, t) # "OK" => daily' = KeptDaily(t)
<1> DEFINE r == request[c]
           t == now[c]
<1>1. r \in Requests /\ r.sender \in Senders /\ t \in Nat /\ t <= clock
  BY JudgedCall
<1>2. Day(t) \in Days
  BY <1>1, PastDay
<1>3. r.amount \in Nat
  BY <1>1, AmountsAssumption DEF Requests
<1>4. KeptDaily(t) \in [Senders -> [Days -> Nat]]
  BY KeptDailyTyped
<1>5. QED
  BY <1>1, <1>2, <1>3, <1>4 DEF Judge

LEMMA NextDailyTyped == WellFormed /\ DailyTyped /\ [Next]_vars => DailyTyped'
<1> SUFFICES ASSUME WellFormed, DailyTyped, [Next]_vars PROVE DailyTyped'
  OBVIOUS
<1>1. ASSUME NEW c \in Calls, Judge(c) PROVE DailyTyped'
  <2> DEFINE r == request[c]
             t == now[c]
             u == KeptDaily(t)[r.sender][Day(t)] + r.amount
  <2>1. KeptDaily(t) \in [Senders -> [Days -> Nat]] /\ r.sender \in Senders /\ u \in Nat
    BY <1>1, KeptDailyTyped, JudgedCall, JudgedDaily
  <2>2. \/ daily' = KeptDaily(t)
        \/ daily' = [KeptDaily(t) EXCEPT ![r.sender] =
                         [KeptDaily(t)[r.sender] EXCEPT ![Day(t)] = u]]
    BY <1>1, JudgedDaily
  <2> HIDE DEF u, r, t
  <2>3. daily' \in [Senders -> [Days -> Nat]]
    BY <2>1, <2>2
  <2>4. QED
    BY <2>3 DEF DailyTyped
<1>2. CASE Restart
  BY <1>2 DEF Restart, EmptyMaps, DailyTyped
<1>3. CASE ~ Restart /\ ~ \E c \in Calls : Judge(c)
  <2>1. restarts' = restarts
    BY <1>3 DEF Next, Arrive, Repeat, Tick, Clean, Pass, vars
  <2>2. UNCHANGED <<maps, used>> \/ \E t \in Nat : Cleaned(t)
    BY <1>3, <2>1, CleanedOrNot DEF IsCleaning
  <2>3. QED
    BY <2>2, KeptDailyTyped DEF maps, Cleaned, DailyTyped
<1>4. QED
  BY <1>1, <1>2, <1>3

(***************************************************************************)
(* Of each sender and day, the map holds the sum of what this life has     *)
(* approved, from the day of the time used last on; of the days before     *)
(* nothing is asked.                                                       *)
(***************************************************************************)
TotalsAreKept ==
    \A s \in Senders, d \in Days :
        d >= Day(used) => daily[s][d] = Total(s, restarts, d)

EveryTotalHolds ==
    \A l \in Nat, s \in Senders, d \in Nat :
        /\ IsFiniteSet(ApprovedOn(s, l, d))
        /\ Total(s, l, d) \in Nat
        /\ Total(s, l, d) <= DailyLimit

\* No call of this life was judged on a later day than that of the time used last.
DaysByUsed == \A c \in Calls : life[c] = restarts => Day(now[c]) <= Day(used)

LEMMA NextDaysByUsed ==
    WellFormed /\ DaysByUsed /\ [Next]_vars /\ DaysInOrder => DaysByUsed'
<1> SUFFICES ASSUME WellFormed, DaysByUsed, [Next]_vars, DaysInOrder,
                    NEW c \in Calls, (life[c] = restarts)'
             PROVE  (Day(now[c]) <= Day(used))'
  BY DEF DaysByUsed
<1>1. /\ used \in Nat /\ used' \in Nat /\ now[c] \in Nat /\ restarts \in Nat
      /\ life[c] # None => life[c] <= restarts /\ life[c] \in Nat
  BY NextTyped DEF WellFormed, Typed, CallsInOrder
<1>2. Day(used) \in Nat /\ Day(used') \in Nat /\ Day(now[c]) \in Nat
  BY <1>1, DayIsNumber
<1>3. CASE \E e \in Calls : Judge(e)
  <2>1. PICK e \in Calls : Judge(e)
    BY <1>3
  <2>2. /\ life' = [life EXCEPT ![e] = restarts]
        /\ UNCHANGED <<restarts, now>> /\ used' = now[e]
    BY <2>1, JudgedCall
  <2>3. CASE c = e
    BY <1>2, <2>2, <2>3 DEF Day
  <2>4. CASE c # e
    <3>1. life[c] = restarts
      BY <2>2, <2>4
    <3>2. Day(now[c]) <= Day(used) /\ Day(used) <= Day(used')
      BY <2>2, <3>1 DEF DaysByUsed, DaysInOrder
    <3>3. QED
      BY <1>2, <2>2, <3>2 DEF Day
  <2>5. QED
    BY <2>3, <2>4
<1>4. CASE Restart
  BY <1>1, <1>4, NoneAssumption DEF Restart
<1>5. CASE ~ Restart /\ ~ \E e \in Calls : Judge(e)
  <2>1. restarts' = restarts
    BY <1>5 DEF Next, Arrive, Repeat, Tick, Clean, Pass, vars
  <2>2. life[c] = restarts /\ life[c] # None /\ now'[c] = now[c]
    BY <1>1, <1>5, <2>1, HistoryStays, NoneAssumption
  <2>3. Day(now[c]) <= Day(used) /\ Day(used) <= Day(used')
    BY <2>1, <2>2 DEF DaysByUsed, DaysInOrder
  <2>4. QED
    BY <1>2, <2>2, <2>3 DEF Day
<1>6. QED
  BY <1>3, <1>4, <1>5

\* A sum over nothing.
LEMMA NothingIsApproved ==
    ASSUME NEW s, NEW l, NEW d, ApprovedOn(s, l, d) = {}
    PROVE  Total(s, l, d) = 0
BY SumFunctionEmpty DEF Total

LEMMA TotalsStay ==
    ASSUME WellFormed, [Next]_vars, ~ \E c \in Calls : Judge(c),
           NEW s \in Senders, NEW l \in Nat, NEW d \in Nat
    PROVE  ApprovedOn(s, l, d)' = ApprovedOn(s, l, d) /\ Total(s, l, d)' = Total(s, l, d)
<1>1. Approved(s, l)' = Approved(s, l)
  BY ApprovedStays
<1>2. \A c \in Approved(s, l) : UNCHANGED <<request[c], now[c]>>
  BY HistoryStays, ApprovedCall
<1>3. ApprovedOn(s, l, d)' = ApprovedOn(s, l, d)
  BY <1>1, <1>2 DEF ApprovedOn
<1>4. \A c \in ApprovedOn(s, l, d) : request'[c].amount = request[c].amount
  BY <1>2 DEF ApprovedOn
<1>5. QED
  BY <1>3, <1>4 DEF Total

\* Judge adds the amount that it approves to its day's total.
LEMMA JudgeTotals ==
    ASSUME WellFormed, EveryTotalHolds, NEW c \in Calls, Judge(c),
           NEW s \in Senders, NEW l \in Nat, NEW d \in Nat
    PROVE  IF /\ Verdict(request[c], now[c]) = "OK"
              /\ s = request[c].sender /\ l = restarts /\ d = Day(now[c])
           THEN /\ ApprovedOn(s, l, d)' = ApprovedOn(s, l, d) \cup {c}
                /\ Total(s, l, d)' = Total(s, l, d) + request[c].amount
           ELSE /\ ApprovedOn(s, l, d)' = ApprovedOn(s, l, d)
                /\ Total(s, l, d)' = Total(s, l, d)
<1> DEFINE v == Verdict(request[c], now[c])
           f == [e \in ApprovedOn(s, l, d) |-> request[e].amount]
           g == [e \in ApprovedOn(s, l, d)' |-> request[e].amount]
<1>1. UNCHANGED <<request, now>> /\ request[c] \in Requests
  BY JudgedCall
<1>2. /\ c \notin Approved(s, l)
      /\ Approved(s, l)' = IF v = "OK" /\ s = request[c].sender /\ l = restarts
                           THEN Approved(s, l) \cup {c} ELSE Approved(s, l)
  BY JudgeApproves
<1>3. Total(s, l, d) = SumFunction(f) /\ Total(s, l, d)' = SumFunction(g)
  BY <1>1 DEF Total
<1> HIDE DEF v
<1>4. CASE v = "OK" /\ s = request[c].sender /\ l = restarts /\ d = Day(now[c])
  <2>1. ApprovedOn(s, l, d)' = ApprovedOn(s, l, d) \cup {c} /\ c \notin ApprovedOn(s, l, d)
    BY <1>1, <1>2, <1>4 DEF ApprovedOn
  <2>2. IsFiniteSet(DOMAIN f)
    BY DEF EveryTotalHolds
  <2>3. request[c].amount \in Nat
    BY <1>1, AmountsAssumption DEF Requests
  <2>4. \A e \in DOMAIN g : g[e] \in Int
    BY <2>1, <2>3, ApprovedCall DEF ApprovedOn
  <2>5. /\ c \notin DOMAIN f /\ DOMAIN g = DOMAIN f \cup {c}
        /\ \A e \in DOMAIN f : g[e] = f[e]
        /\ g[c] = request[c].amount
    BY <2>1
  <2> HIDE DEF f, g
  <2>6. SumFunction(g) = SumFunction(f) + g[c]
    BY <2>2, <2>4, <2>5, SumFunctionAdd
  <2>7. QED
    BY <1>3, <1>4, <2>1, <2>5, <2>6 DEF v
<1>5. CASE ~ (v = "OK" /\ s = request[c].sender /\ l = restarts /\ d = Day(now[c]))
  <2>1. ApprovedOn(s, l, d)' = ApprovedOn(s, l, d)
    BY <1>1, <1>2, <1>5 DEF ApprovedOn
  <2>2. QED
    BY <1>3, <1>5, <2>1 DEF v
<1>6. QED
  BY <1>4, <1>5

\* What the rule compares with the limit is the total of the day.
LEMMA UsedIsTotal ==
    ASSUME WellFormed, DailyTyped, TotalsAreKept, NEW s \in Senders,
           NEW t \in Nat, t <= clock, Day(t) >= Day(used)
    PROVE  KeptDaily(t)[s][Day(t)] = Total(s, restarts, Day(t))
BY PastDay DEF KeptDaily, TotalsAreKept

LEMMA NextTotalsHold ==
    /\ WellFormed /\ DailyTyped /\ TotalsAreKept /\ EveryTotalHolds
    /\ [Next]_vars /\ DaysInOrder
    => EveryTotalHolds'
<1> SUFFICES ASSUME WellFormed, DailyTyped, TotalsAreKept, EveryTotalHolds,
                    [Next]_vars, DaysInOrder,
                    NEW l \in Nat, NEW s \in Senders, NEW d \in Nat
             PROVE  (/\ IsFiniteSet(ApprovedOn(s, l, d))
                     /\ Total(s, l, d) \in Nat /\ Total(s, l, d) <= DailyLimit)'
  BY DEF EveryTotalHolds
<1>1. IsFiniteSet(ApprovedOn(s, l, d)) /\ Total(s, l, d) \in Nat /\ Total(s, l, d) <= DailyLimit
  BY DEF EveryTotalHolds
<1>2. CASE ~ \E c \in Calls : Judge(c)
  BY <1>1, <1>2, TotalsStay
<1>3. ASSUME NEW c \in Calls, Judge(c)
      PROVE  (/\ IsFiniteSet(ApprovedOn(s, l, d))
              /\ Total(s, l, d) \in Nat /\ Total(s, l, d) <= DailyLimit)'
  <2> DEFINE r == request[c]
  <2>1. r \in Requests /\ r.sender \in Senders
        /\ now[c] \in Nat /\ now[c] <= clock
        /\ Day(now[c]) >= Day(used)
    <3>1. r \in Requests /\ r.sender \in Senders /\ now[c] \in Nat /\ now[c] <= clock
          /\ used' = now[c] /\ restarts' = restarts
      BY <1>3, JudgedCall
    <3>2. Day(used') = Day(now[c])
      BY <3>1 DEF Day
    <3>3. Day(now[c]) \in Nat /\ Day(used) \in Nat
      BY <3>1, DayIsNumber DEF WellFormed, Typed
    <3>4. QED
      BY <3>1, <3>2, <3>3 DEF DaysInOrder
  <2>2. r.amount \in Nat
    BY <2>1, AmountsAssumption DEF Requests
  <2>3. CASE /\ Verdict(r, now[c]) = "OK"
             /\ s = r.sender /\ l = restarts /\ d = Day(now[c])
    <3>1. /\ ApprovedOn(s, l, d)' = ApprovedOn(s, l, d) \cup {c}
          /\ Total(s, l, d)' = Total(s, l, d) + r.amount
      BY <1>3, <2>3, JudgeTotals
    <3>2. ~ (Total(s, l, d) + r.amount > DailyLimit)
      BY <2>1, <2>3, UsedIsTotal DEF Verdict, RuleFor
    <3>3. IsFiniteSet(ApprovedOn(s, l, d) \cup {c})
      BY <1>1, FS_AddElement
    <3>4. QED
      BY <1>1, <2>2, <3>1, <3>2, <3>3, ConfigAssumption
  <2>4. CASE ~ (/\ Verdict(r, now[c]) = "OK"
                /\ s = r.sender /\ l = restarts /\ d = Day(now[c]))
    BY <1>1, <1>3, <2>4, JudgeTotals
  <2>5. QED
    BY <2>3, <2>4
<1>4. QED
  BY <1>2, <1>3

\* Nothing is approved in a life to come, nor in this one on a day to come.
LEMMA FutureIsEmpty ==
    ASSUME WellFormed, DaysByUsed, NEW s \in Senders, NEW l \in Nat, NEW d \in Nat,
           l > restarts \/ (l = restarts /\ d > Day(used))
    PROVE  ApprovedOn(s, l, d) = {}
<1> SUFFICES ASSUME NEW c \in ApprovedOn(s, l, d) PROVE FALSE
  OBVIOUS
<1>1. c \in Approved(s, l) /\ Day(now[c]) = d
  BY DEF ApprovedOn
<1>2. c \in Calls /\ life[c] = l /\ l <= restarts
  BY <1>1, ApprovedCall
<1>3. restarts \in Nat /\ Day(used) \in Nat
  BY DayIsNumber DEF WellFormed, Typed
<1>4. l = restarts => d <= Day(used)
  BY <1>1, <1>2 DEF DaysByUsed
<1>5. QED
  BY <1>2, <1>3, <1>4

\* What the cleanup leaves of the days from that of t on.
LEMMA KeptTotals ==
    ASSUME WellFormed, DailyTyped, DaysByUsed, TotalsAreKept, NEW s \in Senders,
           NEW t \in Nat, t <= clock, Day(t) >= Day(used),
           NEW d \in Days, d >= Day(t)
    PROVE  KeptDaily(t)[s][d] = Total(s, restarts, d)
<1>1. d \in Nat /\ restarts \in Nat /\ Day(t) \in Nat /\ Day(used) \in Nat
  BY DayIsNumber DEF Days, WellFormed, Typed
<1>2. CASE d = Day(t)
  BY <1>2, UsedIsTotal
<1>3. CASE d # Day(t)
  <2>1. d > Day(used)
    BY <1>1, <1>3
  <2>2. Total(s, restarts, d) = 0
    BY <1>1, <2>1, FutureIsEmpty, NothingIsApproved
  <2>3. QED
    BY <1>3, <2>2 DEF KeptDaily
<1>4. QED
  BY <1>2, <1>3

LEMMA JudgeTotalsKept ==
    ASSUME WellFormed, DailyTyped, DaysByUsed, TotalsAreKept, EveryTotalHolds,
           DaysInOrder, NEW c \in Calls, Judge(c),
           NEW s \in Senders, NEW d \in Days, (d >= Day(used))'
    PROVE  (daily[s][d] = Total(s, restarts, d))'
<1> DEFINE r == request[c]
           t == now[c]
           ok == Verdict(r, t) = "OK"
           u == KeptDaily(t)[r.sender][Day(t)] + r.amount
<1>1. /\ r.sender \in Senders /\ t \in Nat /\ t <= clock /\ used' = t
      /\ restarts' = restarts /\ restarts \in Nat /\ d \in Nat
  <2>1. d \in Nat /\ restarts \in Nat
    BY BoundAssumption, DayIsNumber DEF WellFormed, Typed, Days
  <2>2. QED
    BY <2>1, JudgedCall
<1>2. Day(used') = Day(t) /\ Day(t) \in Nat /\ Day(used) \in Nat
  BY <1>1, DayIsNumber DEF Day, WellFormed, Typed
<1>3. d >= Day(t) /\ Day(t) >= Day(used)
  BY <1>1, <1>2 DEF DaysInOrder, Day
<1>4. KeptDaily(t)[s][d] = Total(s, restarts, d)
  BY <1>1, <1>3, KeptTotals
<1>5. /\ KeptDaily(t) \in [Senders -> [Days -> Nat]] /\ Day(t) \in Days /\ u \in Nat
      /\ ok => daily' = [KeptDaily(t) EXCEPT ![r.sender] =
                             [KeptDaily(t)[r.sender] EXCEPT ![Day(t)] = u]]
      /\ ~ ok => daily' = KeptDaily(t)
  BY KeptDailyTyped, JudgedDaily
<1>6. CASE ok /\ s = r.sender /\ d = Day(t)
  <2>1. Total(s, restarts, d)' = Total(s, restarts, d) + r.amount
    <3>1. \A l \in Nat : l = restarts => Total(s, l, d)' = Total(s, l, d) + r.amount
      BY <1>1, <1>6, JudgeTotals
    <3>2. QED
      BY <1>1, <3>1 DEF Total, ApprovedOn, Approved
  <2>2. daily'[s][d] = u
    BY <1>1, <1>5, <1>6
  <2>3. QED
    BY <1>4, <1>6, <2>1, <2>2
<1>7. CASE ~ (ok /\ s = r.sender /\ d = Day(t))
  <2>1. Total(s, restarts, d)' = Total(s, restarts, d)
    <3>1. \A l \in Nat : l = restarts => Total(s, l, d)' = Total(s, l, d)
      BY <1>1, <1>7, JudgeTotals
    <3>2. QED
      BY <1>1, <3>1 DEF Total, ApprovedOn, Approved
  <2>2. daily'[s][d] = KeptDaily(t)[s][d]
    BY <1>1, <1>5, <1>7
  <2>3. QED
    BY <1>4, <2>1, <2>2
<1>8. QED
  BY <1>6, <1>7

LEMMA NextTotalsKept ==
    /\ WellFormed /\ DailyTyped /\ DaysByUsed /\ TotalsAreKept /\ EveryTotalHolds
    /\ [Next]_vars /\ DaysInOrder
    => TotalsAreKept'
<1> SUFFICES ASSUME WellFormed, DailyTyped, DaysByUsed, TotalsAreKept, EveryTotalHolds,
                    [Next]_vars, DaysInOrder,
                    NEW s \in Senders, NEW d \in Days, (d >= Day(used))'
             PROVE  (daily[s][d] = Total(s, restarts, d))'
  BY DEF TotalsAreKept
<1>1. restarts \in Nat /\ d \in Nat
  BY BoundAssumption, DayIsNumber DEF WellFormed, Typed, Days
<1>2. CASE \E c \in Calls : Judge(c)
  BY <1>2, JudgeTotalsKept
<1>3. CASE ~ (\E c \in Calls : Judge(c)) /\ restarts' # restarts
  <2>1. restarts' = restarts + 1 /\ daily'[s][d] = 0
    BY <1>3 DEF Next, Arrive, Repeat, Tick, Clean, Pass, vars, Restart, EmptyMaps
  <2>2. ApprovedOn(s, restarts', d) = {}
    BY <1>1, <2>1, FutureIsEmpty
  <2>3. Total(s, restarts', d) = 0
    BY <2>2, NothingIsApproved
  <2>4. \A l \in Nat : Total(s, l, d)' = Total(s, l, d)
    BY <1>1, <1>3, TotalsStay
  <2>5. QED
    BY <1>1, <2>1, <2>3, <2>4 DEF Total, ApprovedOn, Approved
<1>4. CASE ~ (\E c \in Calls : Judge(c)) /\ restarts' = restarts
  <2>1. Total(s, restarts, d)' = Total(s, restarts, d)
    BY <1>1, <1>4, TotalsStay DEF Total, ApprovedOn, Approved
  <2>2. ASSUME UNCHANGED <<maps, used>> PROVE daily'[s][d] = Total(s, restarts, d)
    BY <2>2 DEF maps, TotalsAreKept, Day
  <2>3. ASSUME NEW t \in Nat, t <= clock, Cleaned(t)
        PROVE  daily'[s][d] = Total(s, restarts, d)
    <3>1. Day(used') = Day(t) /\ daily' = KeptDaily(t)
      BY <2>3 DEF Cleaned, Day
    <3>2. d >= Day(t) /\ Day(t) >= Day(used)
      <4>1. Day(t) \in Nat /\ Day(used) \in Nat
        BY DayIsNumber DEF WellFormed, Typed
      <4>2. QED
        BY <1>1, <1>4, <2>3, <3>1, <4>1 DEF DaysInOrder, Cleaned, Day
    <3>3. QED
      BY <2>3, <3>1, <3>2, KeptTotals
  <2>4. QED
    BY <1>4, <2>1, <2>2, <2>3, CleanedOrNot DEF IsCleaning
<1>5. QED
  BY <1>2, <1>3, <1>4

-----------------------------------------------------------------------------
\* What the cleanup leaves, when no time is used after a later one.

\* The cleanup at a time that is not before the one used last leaves what the
\* history still needs.
LEMMA CleanupKeeps ==
    ASSUME Covered, NEW t \in Nat, used <= t, NEW c \in Calls, life[c] = restarts
    PROVE  LET r == request[c]
               p == <<r.sender, r.receiver>>
           IN  /\ t - now[c] <= TTL =>
                      /\ KeptCache(t)[r.key] # None
                      /\ KeptCache(t)[r.key].at >= now[c]
               /\ decision[c] = "OK" /\ t - now[c] < PairCooldown =>
                      /\ KeptCooldown(t)[p] # None
                      /\ KeptCooldown(t)[p] >= now[c]
               /\ decision[c] = "OK" /\ now[c] >= t - VelocityWindow =>
                      [call |-> c, at |-> now[c]] \in KeptVelocity(t)[r.sender]
<1> DEFINE r == request[c]
           p == <<r.sender, r.receiver>>
<1>1. /\ r.sender \in Senders /\ r.key \in Keys /\ p \in Pairs
      /\ KeyIsKept(c)
      /\ decision[c] = "OK" => PairIsKept(c) /\ ApprovalIsKept(c)
  BY NoneAssumption, DecidedCall DEF Covered, MapsCover, IsKept, WellFormed, Typed
<1>2. used \in Nat /\ now[c] \in Nat
  BY DEF Covered, WellFormed, Typed
<1>3. ASSUME t - now[c] <= TTL
      PROVE  KeptCache(t)[r.key] # None /\ KeptCache(t)[r.key].at >= now[c]
  <2>1. cache[r.key] # None /\ cache[r.key].at >= now[c]
    BY <1>1, <1>2, <1>3, ConfigAssumption DEF KeyIsKept
  <2>2. cache[r.key].at \in Nat
    BY <1>1, <2>1 DEF Covered, WellFormed, Typed, Entries
  <2>3. ~ Expired(cache[r.key], t)
    BY <1>2, <1>3, <2>1, <2>2, ConfigAssumption DEF Expired
  <2>4. QED
    BY <1>1, <2>1, <2>3 DEF KeptCache
<1>4. ASSUME decision[c] = "OK", t - now[c] < PairCooldown
      PROVE  KeptCooldown(t)[p] # None /\ KeptCooldown(t)[p] >= now[c]
  <2>1. cooldown[p] # None /\ cooldown[p] >= now[c]
    BY <1>1, <1>2, <1>4, ConfigAssumption DEF PairIsKept
  <2>2. cooldown[p] \in Nat
    BY <1>1, <2>1 DEF Covered, WellFormed, Typed
  <2>3. ~ (t - cooldown[p] >= PairCooldown)
    BY <1>2, <1>4, <2>1, <2>2, ConfigAssumption
  <2>4. QED
    BY <1>1, <2>1, <2>3 DEF KeptCooldown
<1>5. ASSUME decision[c] = "OK", now[c] >= t - VelocityWindow
      PROVE  [call |-> c, at |-> now[c]] \in KeptVelocity(t)[r.sender]
  <2>1. [call |-> c, at |-> now[c]] \in velocity[r.sender]
    BY <1>1, <1>2, <1>5, ConfigAssumption DEF ApprovalIsKept
  <2>2. QED
    BY <1>1, <1>5, <2>1 DEF KeptVelocity, KeepRecent
<1>6. QED
  BY <1>3, <1>4, <1>5

\* A step in which the rules decide nothing leaves the calls of this life alone.
LEMMA CleaningCovers ==
    ASSUME Covered, [Next]_vars, IsCleaning, InOrder
    PROVE  (JudgedByUsed /\ MapsCover)'
<1> SUFFICES ASSUME NEW c \in Calls, (life[c] = restarts)'
             PROVE  (now[c] <= used)' /\ IsKept(c)'
  BY DEF JudgedByUsed, MapsCover
<1>1. /\ restarts \in Nat /\ restarts # None /\ used \in Nat /\ now[c] \in Nat
      /\ restarts' = restarts /\ used <= used'
  BY NoneAssumption DEF Covered, WellFormed, Typed, IsCleaning, InOrder
<1>2. /\ life[c] = restarts /\ life[c] # None
      /\ UNCHANGED <<request[c], now[c], decision[c]>>
  BY <1>1, HistoryStays DEF Covered, IsCleaning
<1>3. now[c] <= used /\ IsKept(c)
  BY <1>2 DEF Covered, JudgedByUsed, MapsCover
<1>4. CASE UNCHANGED <<maps, used>>
  BY <1>2, <1>3, <1>4 DEF maps, IsKept, KeyIsKept, PairIsKept, ApprovalIsKept
<1>5. ASSUME NEW t \in Nat, Cleaned(t) PROVE (now[c] <= used)' /\ IsKept(c)'
  <2>1. used' = t /\ used <= t /\ velocity' = KeptVelocity(t)
        /\ cooldown' = KeptCooldown(t) /\ cache' = KeptCache(t)
    BY <1>1, <1>5 DEF Cleaned
  <2>2. (now[c] <= used)'
    BY <1>1, <1>2, <1>3, <2>1
  <2>3. IsKept(c)'
    BY <1>2, <2>1, CleanupKeeps DEF IsKept, KeyIsKept, PairIsKept, ApprovalIsKept
  <2>4. QED
    BY <2>2, <2>3
<1>6. QED
  BY <1>4, <1>5, CleanedOrNot DEF Covered

LEMMA JudgeCovers ==
    ASSUME Covered, InOrder, NEW c \in Calls, Judge(c)
    PROVE  (JudgedByUsed /\ MapsCover)'
<1> DEFINE r == request[c]
           t == now[c]
           v == Verdict(r, t)
           p == <<r.sender, r.receiver>>
           entry == [request |-> r, decision |-> v, at |-> t]
<1>1. /\ r \in Requests /\ r # None
      /\ r.sender \in Senders /\ r.key \in Keys /\ p \in Pairs
      /\ t \in Nat /\ v \in Decisions /\ life[c] = None
      /\ decision' = [decision EXCEPT ![c] = v]
      /\ life' = [life EXCEPT ![c] = restarts]
      /\ UNCHANGED <<restarts, request, now>> /\ used' = t
      /\ cache' = [KeptCache(t) EXCEPT ![r.key] = entry]
  BY JudgedCall DEF Covered
<1>2. /\ v = "OK" =>
           /\ velocity' = [KeptVelocity(t) EXCEPT
                              ![r.sender] = @ \cup {[call |-> c, at |-> t]}]
           /\ cooldown' = [KeptCooldown(t) EXCEPT ![p] = t]
      /\ v # "OK" => velocity' = KeptVelocity(t) /\ cooldown' = KeptCooldown(t)
  BY JudgedCall DEF Covered
<1>3. t \in Nat /\ restarts \in Nat /\ used \in Nat /\ used <= t
  BY <1>1 DEF Covered, WellFormed, Typed, InOrder
<1>4. entry \in Entries /\ entry.at = t
  BY <1>1, <1>3 DEF Entries
<1>5. v # None /\ entry # None /\ t # None
  BY <1>1, <1>3, <1>4, NoneAssumption DEF Entries
<1> HIDE DEF v, r, t, p, entry
<1>6. cache'[r.key] = entry /\ \A k \in Keys : k # r.key => cache'[k] = KeptCache(t)[k]
  BY <1>1, KeptTyped DEF Covered, WellFormed
<1>7. \A q \in Pairs : cooldown'[q] = t \/ cooldown'[q] = KeptCooldown(t)[q]
  BY <1>2, KeptTyped DEF Covered, WellFormed
<1>8. \A s \in Senders : KeptVelocity(t)[s] \subseteq velocity'[s]
  BY <1>2, KeptVelocityTyped DEF Covered, WellFormed
<1>9. v = "OK" =>
        cooldown'[p] = t /\ [call |-> c, at |-> t] \in velocity'[r.sender]
  BY <1>1, <1>2, KeptTyped, KeptVelocityTyped DEF Covered, WellFormed
<1>10. /\ decision'[c] = v /\ life'[c] = restarts
       /\ \A d \in Calls : d # c => decision'[d] = decision[d] /\ life'[d] = life[d]
  BY <1>1 DEF Covered, WellFormed, Typed
<1>11. JudgedByUsed'
  <2> SUFFICES ASSUME NEW d \in Calls, (life[d] = restarts)' PROVE (now[d] <= used)'
    BY DEF JudgedByUsed
  <2>1. CASE d = c
    BY <1>1, <1>3, <2>1 DEF t
  <2>2. CASE d # c
    <3>1. life[d] = restarts /\ now[d] \in Nat
      BY <1>1, <1>10, <2>2 DEF Covered, WellFormed, Typed
    <3>2. now[d] <= used
      BY <3>1 DEF Covered, JudgedByUsed
    <3>3. QED
      BY <1>1, <1>3, <3>1, <3>2
  <2>3. QED
    BY <2>1, <2>2
<1>12. IsKept(c)'
  <2>1. KeyIsKept(c)'
    BY <1>1, <1>3, <1>4, <1>5, <1>6 DEF KeyIsKept, r, t
  <2>2. ASSUME v = "OK" PROVE PairIsKept(c)' /\ ApprovalIsKept(c)'
    BY <1>1, <1>3, <1>5, <1>9, <2>2 DEF PairIsKept, ApprovalIsKept, r, t, p
  <2>3. QED
    BY <1>10, <2>1, <2>2 DEF IsKept
<1>13. ASSUME NEW d \in Calls, d # c, life[d] = restarts PROVE IsKept(d)'
  <2>1. life[d] # None
    BY <1>3, <1>13, NoneAssumption
  <2>2. /\ request[d].sender \in Senders /\ request[d].key \in Keys
        /\ <<request[d].sender, request[d].receiver>> \in Pairs
        /\ now[d] \in Nat /\ now[d] <= used
    BY <1>13, <2>1, DecidedCall DEF Covered, JudgedByUsed, WellFormed, Typed
  <2> DEFINE k == request[d].key
             q == <<request[d].sender, request[d].receiver>>
  <2>3. /\ t - now[d] <= TTL =>
              KeptCache(t)[k] # None /\ KeptCache(t)[k].at >= now[d]
        /\ decision[d] = "OK" /\ t - now[d] < PairCooldown =>
              KeptCooldown(t)[q] # None /\ KeptCooldown(t)[q] >= now[d]
        /\ decision[d] = "OK" /\ now[d] >= t - VelocityWindow =>
              [call |-> d, at |-> now[d]] \in KeptVelocity(t)[request[d].sender]
    BY <1>3, <1>13, CleanupKeeps
  <2>4. request'[d] = request[d] /\ now'[d] = now[d] /\ used' = t /\ now[d] <= t
    BY <1>1, <1>3, <2>2
  <2>5. KeyIsKept(d)'
    <3>1. CASE k = r.key
      BY <1>4, <1>5, <1>6, <2>4, <3>1 DEF KeyIsKept
    <3>2. CASE k # r.key
      BY <1>6, <2>2, <2>3, <2>4, <3>2 DEF KeyIsKept
    <3>3. QED
      BY <3>1, <3>2
  <2>6. ASSUME decision[d] = "OK" PROVE PairIsKept(d)'
    <3>1. cooldown'[q] = t \/ cooldown'[q] = KeptCooldown(t)[q]
      BY <1>7, <2>2
    <3>2. QED
      BY <1>5, <2>3, <2>4, <2>6, <3>1 DEF PairIsKept
  <2>7. ASSUME decision[d] = "OK" PROVE ApprovalIsKept(d)'
    BY <1>8, <2>2, <2>3, <2>4, <2>7 DEF ApprovalIsKept
  <2>8. QED
    BY <1>10, <1>13, <2>5, <2>6, <2>7 DEF IsKept
<1>14. MapsCover'
  BY <1>1, <1>10, <1>12, <1>13 DEF MapsCover
<1>15. QED
  BY <1>11, <1>14

LEMMA NextCovered == Covered /\ [Next]_vars /\ InOrder => Covered'
<1> SUFFICES ASSUME Covered, [Next]_vars, InOrder PROVE (JudgedByUsed /\ MapsCover)'
  BY NextWellFormed DEF Covered
<1>1. CASE \E c \in Calls : Judge(c)
  BY <1>1, JudgeCovers
<1>2. CASE Restart
  <2>1. \A c \in Calls : life'[c] # restarts'
    BY <1>2, NoneAssumption DEF Restart, Covered, WellFormed, CallsInOrder, Typed
  <2>2. QED
    BY <2>1 DEF JudgedByUsed, MapsCover
<1>3. CASE ~ Restart /\ ~ \E c \in Calls : Judge(c)
  <2>1. restarts' = restarts
    BY <1>3 DEF Next, Arrive, Repeat, Tick, Clean, Pass, vars
  <2>2. QED
    BY <1>3, <2>1, CleaningCovers DEF IsCleaning
<1>4. QED
  BY <1>1, <1>2, <1>3

-----------------------------------------------------------------------------
\* The rules, of the history of each life.

\* The limits of FraudRepository, of lives to come as well.
EveryPairCools ==
    \A l \in Nat, s \in Senders : \A c, d \in Approved(s, l) :
        (c # d /\ request[c].receiver = request[d].receiver) =>
            (now[c] - now[d] >= PairCooldown \/ now[d] - now[c] >= PairCooldown)

\* The approvals in the window that ends with c.
WindowOf(s, l, c) ==
    {d \in Approved(s, l) : now[d] <= now[c] /\ now[d] >= now[c] - VelocityWindow}

EveryWindowHolds ==
    \A l \in Nat, s \in Senders : \A c \in Approved(s, l) :
        /\ IsFiniteSet(WindowOf(s, l, c))
        /\ Cardinality(WindowOf(s, l, c)) <= VelocityMax

\* Keys.
LEMMA NextKeys == KeyIsJudgedOnce /\ Covered /\ [Next]_vars /\ InOrder => KeyIsJudgedOnce'
<1> SUFFICES ASSUME KeyIsJudgedOnce, Covered, [Next]_vars, InOrder,
                    NEW c \in Calls, NEW d \in Calls,
                    (c # d /\ life[c] # None /\ life[c] = life[d]
                        /\ request[c].key = request[d].key)'
             PROVE  (now[c] - now[d] > TTL \/ now[d] - now[c] > TTL)'
  BY DEF KeyIsJudgedOnce
<1>1. CASE ~ \E e \in Calls : Judge(e)
  BY <1>1, HistoryStays DEF KeyIsJudgedOnce, Covered
<1>2. ASSUME NEW e \in Calls, Judge(e)
      PROVE  (now[c] - now[d] > TTL \/ now[d] - now[c] > TTL)'
  <2>1. /\ life' = [life EXCEPT ![e] = restarts] /\ life[e] = None
        /\ UNCHANGED <<restarts, request, now>> /\ used' = now[e] /\ now[e] \in Nat
        /\ KeptCache(now[e])[request[e].key] = None
    BY <1>2, JudgedCall DEF Covered
  <2>2. ASSUME NEW f \in Calls, life[f] = restarts, request[f].key = request[e].key
        PROVE  now[e] - now[f] > TTL
    <3>1. used <= now[e]
      BY <2>1 DEF InOrder
    <3>2. ~ (now[e] - now[f] <= TTL)
      BY <2>1, <2>2, <3>1, CleanupKeeps
    <3>3. QED
      BY <2>1, <3>2, ConfigAssumption DEF Covered, WellFormed, Typed
  <2>3. CASE c # e /\ d # e
    BY <2>1, <2>3 DEF KeyIsJudgedOnce, Covered, WellFormed, Typed
  <2>4. CASE c = e
    <3>1. life[d] = restarts
      BY <2>1, <2>4 DEF Covered, WellFormed, Typed
    <3>2. QED
      BY <2>1, <2>2, <2>4, <3>1
  <2>5. CASE d = e
    <3>1. life[c] = restarts
      BY <2>1, <2>5 DEF Covered, WellFormed, Typed
    <3>2. QED
      BY <2>1, <2>2, <2>5, <3>1
  <2>6. QED
    BY <2>3, <2>4, <2>5
<1>3. QED
  BY <1>1, <1>2

-----------------------------------------------------------------------------
\* Pairs.

\* A pair that a rule lets pass has cooled down since all of its approvals.
LEMMA PassedPairIsCool ==
    ASSUME Covered, InOrder, NEW c \in Calls, Judge(c), Verdict(request[c], now[c]) = "OK",
           NEW d \in Approved(request[c].sender, restarts),
           request[d].receiver = request[c].receiver
    PROVE  now[c] - now[d] >= PairCooldown
<1> DEFINE t == now[c]
           p == <<request[c].sender, request[c].receiver>>
           last == KeptCooldown(t)[p]
<1>1. /\ p \in Pairs /\ t \in Nat /\ used' = t /\ restarts' = restarts
      /\ used <= t
  BY JudgedCall DEF Covered, InOrder
<1>2. last \in Nat \cup {None} /\ now[d] \in Nat
  BY <1>1, KeptTyped DEF Approved, Covered, WellFormed, Typed
<1>3. ~ (last # None /\ t - last < PairCooldown)
  BY DEF Verdict, RuleFor
<1>4. /\ d \in Calls /\ life[d] = restarts /\ decision[d] = "OK"
      /\ <<request[d].sender, request[d].receiver>> = p
  BY DEF Approved
<1>5. t - now[d] < PairCooldown => last # None /\ last >= now[d]
  BY <1>1, <1>4, CleanupKeeps
<1> HIDE DEF last
<1>6. QED
  BY <1>1, <1>2, <1>3, <1>5, ConfigAssumption

LEMMA NextPairs ==
    EveryPairCools /\ Covered /\ [Next]_vars /\ InOrder => EveryPairCools'
<1> SUFFICES ASSUME EveryPairCools, Covered, [Next]_vars, InOrder,
                    NEW l \in Nat, NEW s \in Senders,
                    NEW c \in Approved(s, l)', NEW d \in Approved(s, l)',
                    c # d, (request[c].receiver = request[d].receiver)'
             PROVE  (now[c] - now[d] >= PairCooldown \/ now[d] - now[c] >= PairCooldown)'
  BY DEF EveryPairCools
<1>1. CASE ~ \E e \in Calls : Judge(e)
  <2>1. c \in Approved(s, l) /\ d \in Approved(s, l)
    BY <1>1, ApprovedStays DEF Covered
  <2>2. /\ c \in Calls /\ life[c] # None /\ d \in Calls /\ life[d] # None
    BY <2>1, NoneAssumption DEF Approved
  <2>3. UNCHANGED <<request[c], now[c], request[d], now[d]>>
    BY <1>1, <2>2, HistoryStays DEF Covered
  <2>4. QED
    BY <2>1, <2>3 DEF EveryPairCools
<1>2. ASSUME NEW e \in Calls, Judge(e)
      PROVE  (now[c] - now[d] >= PairCooldown \/ now[d] - now[c] >= PairCooldown)'
  <2>1. UNCHANGED <<request, now>>
    BY <1>2, JudgedCall DEF Covered
  <2>2. CASE c \in Approved(s, l) /\ d \in Approved(s, l)
    BY <2>1, <2>2 DEF EveryPairCools
  <2>3. CASE ~ (c \in Approved(s, l) /\ d \in Approved(s, l))
    <3>1. /\ Verdict(request[e], now[e]) = "OK"
          /\ s = request[e].sender /\ l = restarts
          /\ (c = e /\ d \in Approved(s, l)) \/ (d = e /\ c \in Approved(s, l))
      BY <1>2, <2>3, JudgeApproves DEF Covered
    <3>2. CASE c = e /\ d \in Approved(s, l)
      BY <1>2, <2>1, <3>1, <3>2, PassedPairIsCool
    <3>3. CASE d = e /\ c \in Approved(s, l)
      BY <1>2, <2>1, <3>1, <3>3, PassedPairIsCool
    <3>4. QED
      BY <3>1, <3>2, <3>3
  <2>4. QED
    BY <2>2, <2>3
<1>3. QED
  BY <1>1, <1>2

-----------------------------------------------------------------------------
\* Windows.

\* What the rule counts is all that the window holds.
LEMMA PassedWindowHasRoom ==
    ASSUME Covered, InOrder, NEW c \in Calls, Judge(c), Verdict(request[c], now[c]) = "OK"
    PROVE  LET R == {d \in Approved(request[c].sender, restarts) :
                        now[d] >= now[c] - VelocityWindow}
           IN  IsFiniteSet(R) /\ Cardinality(R) < VelocityMax
<1> DEFINE s == request[c].sender
           E == KeptVelocity(now[c])[s]
           C == {e.call : e \in E}
           R == {d \in Approved(s, restarts) : now[d] >= now[c] - VelocityWindow}
           f == [e \in E |-> e.call]
<1>1. /\ s \in Senders /\ now[c] \in Nat /\ used' = now[c] /\ restarts' = restarts
      /\ used <= now[c]
  BY JudgedCall DEF Covered, InOrder
<1>2. IsFiniteSet(E) /\ Cardinality(E) \in Nat
  BY <1>1, KeptVelocityTyped, FS_CardinalityType DEF Covered, WellFormed
<1>3. Cardinality(E) < VelocityMax
  <2>1. ~ (Cardinality(E) >= VelocityMax)
    BY DEF Verdict, RuleFor
  <2>2. QED
    BY <1>2, <2>1, ConfigAssumption
<1>4. R \in SUBSET C
  <2>1. ASSUME NEW d \in R PROVE d \in C
    <3>1. d \in Calls /\ life[d] = restarts /\ decision[d] = "OK" /\ request[d].sender = s
      BY <2>1 DEF Approved
    <3>2. [call |-> d, at |-> now[d]] \in E
      BY <1>1, <2>1, <3>1, CleanupKeeps
    <3>3. QED
      BY <3>2
  <2>2. QED
    BY <2>1
<1>5. f \in Surjection(E, C)
  BY DEF Surjection
<1>6. IsFiniteSet(C) /\ Cardinality(C) <= Cardinality(E)
  BY <1>2, <1>5, FS_Surjection
<1>7. IsFiniteSet(R) /\ Cardinality(R) <= Cardinality(C)
  BY <1>4, <1>6, FS_Subset
<1>8. Cardinality(C) \in Nat /\ Cardinality(R) \in Nat
  BY <1>6, <1>7, FS_CardinalityType
<1> HIDE DEF C, E, R
<1>9. IsFiniteSet(R) /\ Cardinality(R) < VelocityMax
  BY <1>2, <1>3, <1>6, <1>7, <1>8, ConfigAssumption
<1>10. QED
  BY <1>9 DEF R

LEMMA NextWindows ==
    EveryWindowHolds /\ Covered /\ [Next]_vars /\ InOrder => EveryWindowHolds'
<1> SUFFICES ASSUME EveryWindowHolds, Covered, [Next]_vars, InOrder,
                    NEW l \in Nat, NEW s \in Senders, NEW c \in Approved(s, l)'
             PROVE  (/\ IsFiniteSet(WindowOf(s, l, c))
                     /\ Cardinality(WindowOf(s, l, c)) <= VelocityMax)'
  BY DEF EveryWindowHolds
<1>1. CASE ~ \E e \in Calls : Judge(e)
  <2>1. Approved(s, l)' = Approved(s, l)
    BY <1>1, ApprovedStays DEF Covered
  <2>2. \A d \in Approved(s, l) : now'[d] = now[d]
    BY <1>1, HistoryStays, NoneAssumption DEF Approved, Covered
  <2>3. WindowOf(s, l, c)' = WindowOf(s, l, c)
    BY <2>1, <2>2 DEF WindowOf
  <2>4. QED
    BY <2>1, <2>3 DEF EveryWindowHolds
<1>2. ASSUME NEW e \in Calls, Judge(e)
      PROVE  (/\ IsFiniteSet(WindowOf(s, l, c))
              /\ Cardinality(WindowOf(s, l, c)) <= VelocityMax)'
  <2> DEFINE r == request[e]
             t == now[e]
             R == {d \in Approved(s, l) : now[d] >= t - VelocityWindow}
  <2>1. now' = now /\ t \in Nat /\ used' = t /\ restarts' = restarts /\ used <= t
    BY <1>2, JudgedCall DEF Covered, InOrder
  <2>2. CASE ~ (Verdict(r, t) = "OK" /\ s = r.sender /\ l = restarts)
    <3>1. Approved(s, l)' = Approved(s, l)
      BY <1>2, <2>2, JudgeApproves DEF Covered
    <3>2. WindowOf(s, l, c)' = WindowOf(s, l, c)
      BY <2>1, <3>1 DEF WindowOf
    <3>3. QED
      BY <3>1, <3>2 DEF EveryWindowHolds
  <2>3. CASE Verdict(r, t) = "OK" /\ s = r.sender /\ l = restarts
    <3>1. Approved(s, l)' = Approved(s, l) \cup {e}
      BY <1>2, <2>3, JudgeApproves DEF Covered
    <3>2. \A d \in Approved(s, l) : now[d] \in Nat /\ now[d] <= t
      <4>1. \A d \in Approved(s, l) : now[d] \in Nat /\ now[d] <= used
        BY <2>3 DEF Approved, Covered, JudgedByUsed, WellFormed, Typed
      <4>2. used \in Nat
        BY DEF Covered, WellFormed, Typed
      <4>3. QED
        BY <2>1, <4>1, <4>2
    <3>3. CASE now[c] = t
      <4>1. IsFiniteSet(R) /\ Cardinality(R) < VelocityMax
        BY <1>2, <2>3, PassedWindowHasRoom
      <4>2. WindowOf(s, l, c)' = R \cup {e}
        BY <2>1, <3>1, <3>2, <3>3, ConfigAssumption DEF WindowOf
      <4> HIDE DEF R
      <4>3. /\ IsFiniteSet(R \cup {e})
            /\ \/ Cardinality(R \cup {e}) = Cardinality(R)
               \/ Cardinality(R \cup {e}) = Cardinality(R) + 1
        BY <4>1, FS_AddElement
      <4>4. Cardinality(R \cup {e}) <= VelocityMax
        <5>1. Cardinality(R) \in Nat
          BY <4>1, FS_CardinalityType
        <5>2. QED
          BY <4>1, <4>3, <5>1, ConfigAssumption
      <4>5. QED
        BY <4>2, <4>3, <4>4
    <3>4. CASE now[c] # t
      <4>1. c \in Approved(s, l) /\ now[c] \in Nat /\ now[c] < t
        BY <2>1, <3>1, <3>2, <3>4
      <4>2. WindowOf(s, l, c)' = WindowOf(s, l, c)
        BY <2>1, <3>1, <4>1 DEF WindowOf
      <4>3. QED
        BY <4>1, <4>2 DEF EveryWindowHolds
    <3>5. QED
      BY <3>3, <3>4
  <2>4. QED
    BY <2>2, <2>3
<1>3. QED
  BY <1>1, <1>2

-----------------------------------------------------------------------------
\* The rules over the whole history.

\* The rules' vocabulary is that of FraudData too.
LEMMA SameVocabulary ==
    /\ Rules!Requests = Requests
    /\ \A t : Rules!Day(t) = Day(t)
    /\ \A q, r : Rules!SamePayload(q, r) <=> SamePayload(q, r)
    /\ \A r, spent, count : \A cooling \in BOOLEAN :
          Rules!RuleFor(r, spent, count, cooling) = RuleFor(r, spent, count, cooling)
<1>1. Rules!Requests = Requests
  BY DEF Rules!Requests, Requests
<1>2. \A t : Rules!Day(t) = Day(t)
  BY DEF Rules!Day, Day
<1>3. \A q, r : Rules!SamePayload(q, r) <=> SamePayload(q, r)
  BY DEF Rules!SamePayload, SamePayload
<1>4. \A r, spent, count : \A cooling \in BOOLEAN :
          Rules!RuleFor(r, spent, count, cooling) = RuleFor(r, spent, count, cooling)
  BY DEF Rules!RuleFor, RuleFor
<1>5. QED
  BY <1>1, <1>2, <1>3, <1>4

LEMMA SameSums == ASSUME NEW f PROVE Rules!SumFunction(f) = SumFunction(f)
BY DEF Rules!SumFunction, Rules!SumFunctionOnSet, Rules!FoldFunctionOnSet, Rules!MapThenFoldSet,
       SumFunction, SumFunctionOnSet, FoldFunctionOnSet, MapThenFoldSet

LEMMA SameCounts == ASSUME NEW S PROVE Rules!Cardinality(S) = Cardinality(S)
BY DEF Rules!Cardinality, Cardinality

\* What is left of a sender's approvals is what is recent in the history.
LEMMA RecentIsCounted ==
    ASSUME Covered, MapsAreHistory, NEW t \in Nat, used <= t, NEW s \in Senders
    PROVE  /\ IsFiniteSet(Rules!Recent(s, t))
           /\ Cardinality(Rules!Recent(s, t)) = Cardinality(KeptVelocity(t)[s])
<1> DEFINE R == Rules!Recent(s, t)
           E == KeptVelocity(t)[s]
           f == [e \in E |-> e.call]
<1>1. R = {d \in Approved(s, restarts) : now[d] >= t - VelocityWindow}
  BY DEF Rules!Recent, Rules!Approved, Rules!Judged, Approved
<1>2. ASSUME NEW e \in E
      PROVE  e.call \in R /\ e = [call |-> e.call, at |-> now[e.call]]
  <2>1. e \in velocity[s] /\ e.at >= t - VelocityWindow
    BY DEF KeptVelocity, KeepRecent
  <2>2. e.call \in Approved(s, restarts) /\ e.at = now[e.call]
    BY <2>1 DEF MapsAreHistory, VelocityIsHistory
  <2>3. e \in [call : Calls, at : Nat]
    BY <2>1 DEF Covered, WellFormed, Typed
  <2>4. QED
    BY <1>1, <2>1, <2>2, <2>3
<1>3. ASSUME NEW d \in R PROVE [call |-> d, at |-> now[d]] \in E
  <2>1. d \in Calls /\ life[d] = restarts /\ decision[d] = "OK" /\ request[d].sender = s
        /\ now[d] >= t - VelocityWindow
    BY <1>1 DEF Approved
  <2>2. QED
    BY <2>1, CleanupKeeps
<1> HIDE DEF R, E
<1>4. f \in Bijection(E, R)
  <2>1. f \in [E -> R]
    BY <1>2
  <2>2. \A e, g \in E : f[e] = f[g] => e = g
    BY <1>2
  <2>3. \A d \in R : \E e \in E : f[e] = d
    BY <1>3
  <2> HIDE DEF f
  <2>4. f \in Injection(E, R)
    BY <2>1, <2>2 DEF Injection, IsInjective
  <2>5. f \in Surjection(E, R)
    BY <2>1, <2>3 DEF Surjection
  <2>6. QED
    BY <2>4, <2>5 DEF Bijection
<1>5. IsFiniteSet(E)
  BY KeptVelocityTyped DEF E, Covered, WellFormed
<1>6. IsFiniteSet(R) /\ Cardinality(R) = Cardinality(E)
  BY <1>4, <1>5, FS_Bijection DEF ExistsBijection
<1>7. QED
  BY <1>6 DEF R, E

LEMMA SameCooling ==
    ASSUME Covered, MapsAreHistory, NEW t \in Nat, used <= t, NEW r \in Requests
    PROVE  LET last == KeptCooldown(t)[<<r.sender, r.receiver>>]
           IN  (last # None /\ t - last < PairCooldown) <=> Rules!Cooling(r, t)
<1> DEFINE p == <<r.sender, r.receiver>>
           last == KeptCooldown(t)[p]
<1>1. r.sender \in Senders /\ r.receiver \in Receivers /\ p \in Pairs
  BY DEF Requests, Pairs
<1>2. Rules!Cooling(r, t) <=>
         \E d \in Approved(r.sender, restarts) :
             request[d].receiver = r.receiver /\ t - now[d] < PairCooldown
  BY DEF Rules!Cooling, Rules!Approved, Rules!Judged, Approved
<1>3. ASSUME last # None, t - last < PairCooldown PROVE Rules!Cooling(r, t)
  <2>1. last = cooldown[p]
    BY <1>1, <1>3, KeptIsOld DEF Covered
  <2>2. PICK d \in Approved(r.sender, restarts) :
            request[d].receiver = r.receiver /\ now[d] = cooldown[p]
    BY <1>1, <1>3, <2>1 DEF MapsAreHistory, CooldownIsHistory
  <2>3. QED
    BY <1>2, <1>3, <2>1, <2>2
<1>4. ASSUME Rules!Cooling(r, t) PROVE last # None /\ t - last < PairCooldown
  <2>1. PICK d \in Approved(r.sender, restarts) :
            request[d].receiver = r.receiver /\ t - now[d] < PairCooldown
    BY <1>2, <1>4
  <2>2. d \in Calls /\ life[d] = restarts /\ decision[d] = "OK"
        /\ <<request[d].sender, request[d].receiver>> = p /\ now[d] \in Nat
    BY <2>1 DEF Approved, Covered, WellFormed, Typed
  <2>3. last # None /\ last >= now[d]
    BY <2>1, <2>2, CleanupKeeps
  <2>4. last \in Nat
    BY <1>1, <2>3, KeptTyped DEF Covered, WellFormed, Typed
  <2> HIDE DEF last
  <2>5. QED
    BY <2>1, <2>2, <2>3, <2>4, ConfigAssumption
<1>5. QED
  BY <1>3, <1>4

\* The verdict that the maps give is that of the history.
LEMMA SameVerdict ==
    ASSUME Covered, DailyTyped, TotalsAreKept, MapsAreHistory,
           NEW t \in Nat, used <= t, t <= clock, NEW r \in Requests
    PROVE  Verdict(r, t) = Rules!Verdict(r, t)
<1> DEFINE last == KeptCooldown(t)[<<r.sender, r.receiver>>]
           cooling == last # None /\ t - last < PairCooldown
<1>1. r.sender \in Senders
  BY DEF Requests
<1>2. KeptDaily(t)[r.sender][Day(t)] = Rules!UsedOn(r.sender, t)
  <2>1. ApprovedOn(r.sender, restarts, Day(t)) =
            {d \in Rules!Approved(r.sender) : Rules!Day(now[d]) = Rules!Day(t)}
    BY SameVocabulary DEF ApprovedOn, Approved, Rules!Approved, Rules!Judged
  <2>2. Total(r.sender, restarts, Day(t)) = Rules!UsedOn(r.sender, t)
    BY <2>1, SameSums DEF Total, Rules!UsedOn
  <2>3. Day(t) >= Day(used)
    <3>1. used \in Nat
      BY DEF Covered, WellFormed, Typed
    <3>2. Day(used) \in Nat /\ Day(t) \in Nat /\ Day(used) <= Day(t)
      BY <3>1, DaysPass, DayIsNumber
    <3>3. QED
      BY <3>2
  <2>4. QED
    BY <1>1, <2>2, <2>3, UsedIsTotal DEF Covered
<1>3. Cardinality(KeptVelocity(t)[r.sender]) = Cardinality(Rules!Recent(r.sender, t))
  BY <1>1, RecentIsCounted
<1>4. cooling <=> Rules!Cooling(r, t)
  BY SameCooling
<1>5. Verdict(r, t) =
         RuleFor(r, KeptDaily(t)[r.sender][Day(t)],
                 Cardinality(KeptVelocity(t)[r.sender]), cooling)
  BY DEF Verdict
<1>6. cooling \in BOOLEAN /\ Rules!Cooling(r, t) \in BOOLEAN
  BY DEF Rules!Cooling
<1> HIDE DEF cooling
<1>7. cooling = Rules!Cooling(r, t)
  BY <1>4, <1>6
<1>8. QED
  BY <1>2, <1>3, <1>5, <1>6, <1>7, SameVocabulary, SameCounts DEF Rules!Verdict

\* Each step is one of the rules, or none.
LEMMA JudgeIsRules ==
    ASSUME Covered, DailyTyped, TotalsAreKept, MapsAreHistory, InOrder,
           NEW c \in Calls, Judge(c)
    PROVE  Rules!Judge(c)
<1>1. /\ request[c] \in Requests /\ request[c] # None
      /\ now[c] \in Nat /\ now[c] <= clock /\ used <= now[c]
      /\ decision[c] = None /\ KeptCache(now[c])[request[c].key] = None
      /\ decision' = [decision EXCEPT ![c] = Verdict(request[c], now[c])]
      /\ life' = [life EXCEPT ![c] = restarts]
      /\ UNCHANGED <<restarts, request, now>>
  BY JudgedCall DEF Covered, InOrder
<1>2. Rules!Remembered(request[c].key, now[c]) = {}
  <2> SUFFICES ASSUME NEW d \in Calls, life[d] = restarts, request[d].key = request[c].key,
                      now[c] <= now[d] + TTL
               PROVE  FALSE
    BY DEF Rules!Remembered, Rules!Judged
  <2>1. now[c] - now[d] <= TTL
    BY <1>1, ConfigAssumption DEF Covered, WellFormed, Typed
  <2>2. QED
    BY <1>1, <2>1, CleanupKeeps
<1>3. QED
  BY <1>1, <1>2, SameVerdict DEF Rules!Judge

LEMMA RepeatIsRules ==
    ASSUME WellFormed, MapsAreHistory, NEW c \in Calls, Repeat(c)
    PROVE  Rules!Repeat(c)
<1> DEFINE k == request[c].key
           entry == KeptCache(now[c])[k]
<1>1. /\ request[c] # None /\ decision[c] = None
      /\ entry # None
      /\ decision' = [decision EXCEPT ![c] =
             IF SamePayload(entry.request, request[c]) THEN entry.decision
                                                       ELSE "IDEMPOTENCY_REUSED_MISMATCH"]
      /\ UNCHANGED <<request, now, life, restarts>>
  BY DEF Repeat, InFlight
<1>2. k \in Keys
  BY <1>1 DEF WellFormed, Typed, Requests
<1>3. entry = cache[k] /\ ~ Expired(entry, now[c])
  BY <1>1, <1>2, KeptIsOld DEF KeptCache
<1>4. PICK d \in Calls : request[d].key = k /\ IsOf(entry, d)
  BY <1>1, <1>2, <1>3 DEF MapsAreHistory, CacheIsHistory
<1>5. now[c] <= now[d] + TTL
  BY <1>1, <1>3, <1>4, ConfigAssumption DEF Expired, IsOf, WellFormed, Typed
<1>6. d \in Rules!Remembered(k, now[c])
  BY <1>4, <1>5 DEF Rules!Remembered, Rules!Judged, IsOf
<1>7. entry.request = request[d] /\ entry.decision = decision[d]
  BY <1>4 DEF IsOf
<1> HIDE DEF entry
<1>8. QED
  BY <1>1, <1>6, <1>7, SameVocabulary DEF Rules!Repeat

LEMMA NextIsRules ==
    ASSUME Covered, DailyTyped, TotalsAreKept, MapsAreHistory, [Next]_vars, InOrder
    PROVE  [Rules!Next]_(Rules!rvars)
<1>1. ASSUME NEW c \in Calls, Arrive(c) PROVE Rules!Arrive(c)
  <2>1. now'[c] = clock /\ clock \in Nat /\ now' = [now EXCEPT ![c] = clock]
    BY <1>1 DEF Arrive, Covered, WellFormed, Typed
  <2>2. QED
    BY <1>1, <2>1, SameVocabulary DEF Arrive, Rules!Arrive
<1>2. ASSUME NEW c \in Calls, Repeat(c) PROVE Rules!Repeat(c)
  BY <1>2, RepeatIsRules DEF Covered
<1>3. ASSUME NEW c \in Calls, Judge(c) PROVE Rules!Judge(c)
  BY <1>3, JudgeIsRules
<1>4. CASE Tick \/ Clean \/ Pass
  BY <1>4 DEF Tick, Clean, Pass, calls, Rules!rvars
<1>5. ASSUME Restart PROVE Rules!Restart
  BY <1>5 DEF Restart, InFlight, Rules!Restart
<1>6. CASE UNCHANGED vars
  BY <1>6 DEF vars, Rules!rvars
<1>7. QED
  BY <1>1, <1>2, <1>3, <1>4, <1>5, <1>6 DEF Next, Rules!Next

-----------------------------------------------------------------------------
\* Orders of times.

LEMMA OrderedSteps ==
    ASSUME Typed
    PROVE  /\ [Next /\ InOrder]_vars => [Next]_vars /\ InOrder
           /\ [Next /\ DaysInOrder]_vars => [Next]_vars /\ DaysInOrder
<1>1. used \in Nat /\ Day(used) \in Nat
  BY DayIsNumber DEF Typed
<1>2. UNCHANGED vars => InOrder /\ DaysInOrder
  BY <1>1 DEF vars, InOrder, DaysInOrder, Day
<1>3. QED
  BY <1>2

\* Times in order are of days in order.
LEMMA DaysFollow ==
    ASSUME Typed, Typed', [Next /\ InOrder]_vars
    PROVE  [Next /\ DaysInOrder]_vars
<1>1. used \in Nat /\ used' \in Nat
  BY DEF Typed
<1>2. used <= used' => Day(used) <= Day(used')
  BY <1>1, DaysPass
<1>3. Day(used)' = Day(used')
  BY DEF Day
<1>4. QED
  BY <1>2, <1>3 DEF InOrder, DaysInOrder

\* A time that is used in the tick it was read in.
TimesAreCurrent ==
    /\ used <= clock
    /\ \A c \in Calls : InFlight(c) => now[c] = clock
    /\ tick # None => tick = clock

LEMMA NextTimesAreCurrent ==
    ASSUME MaxLag = 0, WellFormed, TimesAreCurrent, [Next]_vars
    PROVE  TimesAreCurrent' /\ InOrder
<1> USE DEF WellFormed
<1>0. clock \in Nat /\ used \in Nat /\ restarts \in Nat
  BY DEF Typed
<1>1. ASSUME NEW c \in Calls, Arrive(c) PROVE TimesAreCurrent' /\ InOrder
  <2>1. PICK r \in Requests : request' = [request EXCEPT ![c] = r]
    BY <1>1 DEF Arrive
  <2>2. /\ now' = [now EXCEPT ![c] = clock]
        /\ UNCHANGED <<clock, restarts, decision, life, tick, used, maps>>
    BY <1>1 DEF Arrive
  <2>3. QED
    BY <1>0, <2>1, <2>2 DEF TimesAreCurrent, InFlight, InOrder, Typed
<1>2. ASSUME NEW c \in Calls, Repeat(c) PROVE TimesAreCurrent' /\ InOrder
  <2>1. PICK answer : decision' = [decision EXCEPT ![c] = answer]
    BY <1>2 DEF Repeat
  <2>2. /\ now[c] = clock /\ used' = now[c]
        /\ UNCHANGED <<clock, restarts, request, now, life, tick>>
    BY <1>2 DEF Repeat, TimesAreCurrent
  <2>3. \A d \in Calls : InFlight(d)' => InFlight(d) \/ d = c
    BY <2>1, <2>2 DEF InFlight, Typed
  <2>4. QED
    BY <1>0, <2>2, <2>3 DEF TimesAreCurrent, InOrder
<1>3. ASSUME NEW c \in Calls, Judge(c) PROVE TimesAreCurrent' /\ InOrder
  <2>1. /\ now[c] = clock /\ used' = now[c]
        /\ UNCHANGED <<clock, restarts, request, now, tick>>
    BY <1>3 DEF Judge, TimesAreCurrent
  <2>2. \A d \in Calls : InFlight(d)' => InFlight(d) \/ d = c
    BY <1>3, <2>1, JudgedCall DEF InFlight, Typed
  <2>3. QED
    BY <1>0, <2>1, <2>2 DEF TimesAreCurrent, InOrder
<1>4. CASE Tick \/ Clean
  BY <1>0, <1>4, NoneAssumption
     DEF Tick, Clean, calls, TimesAreCurrent, InFlight, InOrder
<1>5. CASE Pass
  <2>1. /\ \A c \in Calls : ~ InFlight(c)
        /\ tick = None
    BY <1>0, <1>5 DEF Pass, TimesAreCurrent
  <2>2. QED
    BY <1>0, <1>5, <2>1 DEF Pass, calls, TimesAreCurrent, InFlight, InOrder
<1>6. CASE Restart
  <2>1. /\ clock' = clock /\ tick' = None /\ used' = 0 /\ restarts' = restarts + 1
        /\ decision' = [c \in Calls |-> IF InFlight(c) THEN "unavailable" ELSE decision[c]]
        /\ UNCHANGED <<request, now>>
    BY <1>6 DEF Restart
  <2>2. \A c \in Calls : ~ InFlight(c)'
    BY <2>1, NoneAssumption DEF InFlight, Decisions
  <2>3. QED
    BY <1>0, <2>1, <2>2 DEF TimesAreCurrent, InOrder
<1>7. CASE UNCHANGED vars
  BY <1>0, <1>7 DEF vars, TimesAreCurrent, InFlight, InOrder
<1>8. QED
  BY <1>1, <1>2, <1>3, <1>4, <1>5, <1>6, <1>7 DEF Next

-----------------------------------------------------------------------------
\* Theorems.

MapsInv == WellFormed /\ DailyTyped /\ MapsAreHistory

LEMMA NextMaps == MapsInv /\ [Next]_vars => MapsInv'
BY NextWellFormed, NextDailyTyped, NextMapsAreHistory DEF MapsInv

LEMMA InitMaps == Init => MapsInv
<1> SUFFICES ASSUME Init PROVE DailyTyped /\ MapsAreHistory
  BY InitWellFormed DEF MapsInv
<1>1. DailyTyped
  BY DEF Init, DailyTyped
<1>2. MapsAreHistory
  BY DEF Init, MapsAreHistory, VelocityIsHistory, CooldownIsHistory, CacheIsHistory, Pairs
<1>3. QED
  BY <1>1, <1>2

(***************************************************************************)
(* Whatever janitor and cleanup do, however late and in whatever order the *)
(* times are used: each entry of the maps of approvals, pairs and keys is  *)
(* that of a call which the rules decided in this life of the process.     *)
(***************************************************************************)
THEOREM MapsTellHistory == Spec => []MapsInv
BY InitMaps, NextMaps, PTL DEF Spec

LEMMA OrderedIsSpec == (OrderedSpec => Spec) /\ (DaysOrderedSpec => Spec)
<1>1. /\ [Next /\ InOrder]_vars => [Next]_vars
      /\ [Next /\ DaysInOrder]_vars => [Next]_vars
  OBVIOUS
<1>2. QED
  BY <1>1, PTL DEF OrderedSpec, DaysOrderedSpec, Spec

LEMMA OrderedDays == OrderedSpec => DaysOrderedSpec
<1>1. MapsInv /\ MapsInv' /\ [Next /\ InOrder]_vars => [Next /\ DaysInOrder]_vars
  BY DaysFollow DEF MapsInv, WellFormed
<1>2. QED
  BY <1>1, OrderedIsSpec, MapsTellHistory, PTL DEF OrderedSpec, DaysOrderedSpec

(***************************************************************************)
(* Times that are used in the tick they are read in are used in order:     *)
(* what is proved of times in order holds as long as no call and no tick   *)
(* waits for the mutex.                                                    *)
(***************************************************************************)
THEOREM CurrentTimesAreInOrder == ASSUME MaxLag = 0 PROVE Spec => OrderedSpec
<1>1. Init => TimesAreCurrent
  BY DEF Init, TimesAreCurrent, InFlight
<1>2. MapsInv /\ TimesAreCurrent /\ [Next]_vars
         => TimesAreCurrent' /\ [Next /\ InOrder]_vars
  BY NextTimesAreCurrent DEF MapsInv
<1>3. QED
  BY <1>1, <1>2, MapsTellHistory, PTL DEF Spec, OrderedSpec

(***************************************************************************)
(* As long as no time is used after a later one, the maps cover the        *)
(* history of this life of the process, whatever the cleanup deletes, for  *)
(* any calls, limits and restarts.                                         *)
(***************************************************************************)
THEOREM MapsCoverHistory == OrderedSpec => []Covered
<1>1. Init => Covered
  BY InitWellFormed, NoneAssumption DEF Init, Covered, JudgedByUsed, MapsCover
<1>2. Covered /\ [Next /\ InOrder]_vars => Covered'
  BY NextCovered, OrderedSteps DEF Covered, WellFormed
<1>3. QED
  BY <1>1, <1>2, PTL DEF OrderedSpec

(***************************************************************************)
(* A key is judged once in its time to live: a retry is answered with the  *)
(* decision that was given, neither counted again nor judged anew, as long *)
(* as no time is used after a later one.                                   *)
(***************************************************************************)
THEOREM KeysAreJudgedOnce == OrderedSpec => []KeyIsJudgedOnce
<1>1. Init => KeyIsJudgedOnce
  BY DEF Init, KeyIsJudgedOnce
<1>2. KeyIsJudgedOnce /\ Covered /\ [Next /\ InOrder]_vars => KeyIsJudgedOnce'
  BY NextKeys, OrderedSteps DEF Covered, WellFormed
<1>3. QED
  BY <1>1, <1>2, MapsCoverHistory, PTL DEF OrderedSpec

(***************************************************************************)
(* Two approvals of a pair in one life of the process are at least         *)
(* FRAUD_PAIR_COOLDOWN apart, as long as no time is used after a later one.*)
(***************************************************************************)
THEOREM PairsCoolDown == OrderedSpec => []CooldownHolds
<1>1. Init => EveryPairCools
  BY NoneAssumption DEF Init, EveryPairCools, Approved
<1>2. EveryPairCools /\ Covered /\ [Next /\ InOrder]_vars => EveryPairCools'
  BY NextPairs, OrderedSteps DEF Covered, WellFormed
<1>3. EveryPairCools /\ Covered => CooldownHolds
  BY DEF EveryPairCools, Covered, WellFormed, Typed, CooldownHolds, Lives
<1>4. QED
  BY <1>1, <1>2, <1>3, MapsCoverHistory, PTL DEF OrderedSpec

(***************************************************************************)
(* No window of FRAUD_VELOCITY_WINDOW holds more than                      *)
(* FRAUD_VELOCITY_MAX_COUNT approvals of a sender in one life, as long as  *)
(* no time is used after a later one.                                      *)
(***************************************************************************)
THEOREM WindowsHold == OrderedSpec => []VelocityLimitHolds
<1>1. Init => EveryWindowHolds
  BY NoneAssumption DEF Init, EveryWindowHolds, Approved
<1>2. EveryWindowHolds /\ Covered /\ [Next /\ InOrder]_vars => EveryWindowHolds'
  BY NextWindows, OrderedSteps DEF Covered, WellFormed
<1>3. EveryWindowHolds /\ Covered => VelocityLimitHolds
  <2> SUFFICES ASSUME EveryWindowHolds, Typed, NEW s \in Senders, NEW l \in Lives,
                      NEW c \in Approved(s, l)
               PROVE  Cardinality(WindowOf(s, l, c)) <= VelocityMax
    BY DEF WindowOf, Covered, WellFormed, VelocityLimitHolds
  <2>1. l \in Nat
    BY DEF Lives, Typed
  <2>2. QED
    BY <2>1 DEF EveryWindowHolds
<1>4. QED
  BY <1>1, <1>2, <1>3, MapsCoverHistory, PTL DEF OrderedSpec

TotalsInv == MapsInv /\ DaysByUsed /\ TotalsAreKept /\ EveryTotalHolds

(***************************************************************************)
(* The daily totals, from the day of the time used last on, are the sums   *)
(* of what this life has approved, as long as no time of a day is used     *)
(* after one of a later day.                                               *)
(***************************************************************************)
THEOREM TotalsAreSums == DaysOrderedSpec => []TotalsInv
<1>1. Init => DaysByUsed /\ TotalsAreKept /\ EveryTotalHolds
  <2> SUFFICES ASSUME Init PROVE DaysByUsed /\ TotalsAreKept /\ EveryTotalHolds
    OBVIOUS
  <2>1. DaysByUsed
    BY NoneAssumption DEF Init, DaysByUsed
  <2>2. \A l \in Nat, s \in Senders, d \in Nat : ApprovedOn(s, l, d) = {}
    BY NoneAssumption DEF Init, Approved, ApprovedOn
  <2>3. EveryTotalHolds
    BY <2>2, NothingIsApproved, FS_EmptySet, ConfigAssumption DEF EveryTotalHolds
  <2>4. TotalsAreKept
    BY <2>2, NothingIsApproved DEF Init, TotalsAreKept, Days
  <2>5. QED
    BY <2>1, <2>3, <2>4
<1>2. TotalsInv /\ [Next /\ DaysInOrder]_vars => TotalsInv'
  <2> SUFFICES ASSUME TotalsInv, [Next]_vars, DaysInOrder PROVE TotalsInv'
    BY OrderedSteps DEF TotalsInv, MapsInv, WellFormed
  <2>1. MapsInv' /\ DaysByUsed'
    BY NextMaps, NextDaysByUsed DEF TotalsInv, MapsInv
  <2>2. TotalsAreKept' /\ EveryTotalHolds'
    BY NextTotalsKept, NextTotalsHold DEF TotalsInv, MapsInv
  <2>3. QED
    BY <2>1, <2>2 DEF TotalsInv
<1>3. QED
  BY <1>1, <1>2, InitMaps, PTL DEF DaysOrderedSpec, TotalsInv

(***************************************************************************)
(* No sender has more approved on a calendar day than FRAUD_DAILY_LIMIT in *)
(* one life of the process, for any amounts, limits and days, as long as   *)
(* no time of a day is used after one of a later day.                      *)
(***************************************************************************)
THEOREM DaysHold == DaysOrderedSpec => []DailyLimitHolds
<1>1. TotalsInv => DailyLimitHolds
  BY DayIsNumber, BoundAssumption
     DEF TotalsInv, MapsInv, EveryTotalHolds, WellFormed, Typed, DailyLimitHolds, Lives, Days
<1>2. QED
  BY <1>1, TotalsAreSums, PTL

(***************************************************************************)
(* The four maps with their cleanup and janitor decide every call as the   *)
(* rules do that look at the whole history of this life of the process, as *)
(* long as no time is used after a later one.                              *)
(***************************************************************************)
THEOREM MapsImplementRules == OrderedSpec => ImplementsRules
<1>1. Init => Rules!Init
  BY DEF Init, Rules!Init
<1>2. Covered /\ TotalsInv /\ [Next /\ InOrder]_vars => [Rules!Next]_(Rules!rvars)
  BY NextIsRules, OrderedSteps DEF Covered, WellFormed, TotalsInv, MapsInv
<1>3. QED
  BY <1>1, <1>2, OrderedDays, MapsCoverHistory, TotalsAreSums, PTL
     DEF OrderedSpec, ImplementsRules, Rules!Spec
=============================================================================
