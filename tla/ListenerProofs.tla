---------------------------- MODULE ListenerProofs ----------------------------
(***************************************************************************)
(* Theorems about what the listener process reads the chains through: the  *)
(* rotating RPC transport (RpcRotation) and, in the second half, the TRON  *)
(* listener (TronListener).  They hold for any number of urls, requests    *)
(* and retries, any page limit, any number of dedupe keys and of events.   *)
(***************************************************************************)
EXTENDS RpcRotation, FiniteSetTheorems, SequenceTheorems, TLAPS

(***************************************************************************)
(* The order of a sweep.                                                   *)
(***************************************************************************)
\* The turn of a url in a round from start.
LEMMA TurnOf ==
    ASSUME NEW start \in Url, NEW u \in Url
    PROVE  /\ (u - start + N) % N \in 0 .. N - 1
           /\ (u - start + N) % N = IF u < start THEN u - start + N ELSE u - start
<1>1. N \in Nat \ {0} /\ start \in 0 .. N - 1 /\ u \in 0 .. N - 1
  BY RotationAssumption DEF Url
<1> HIDE DEF Url
<1>2. (u - start + N) % N \in 0 .. N - 1
  BY <1>1
<1>3. u - start + N = N * ((u - start + N) \div N) + ((u - start + N) % N)
  BY <1>1
<1> QED
  BY <1>1, <1>2, <1>3

\* Urls that recover at the same time are in the order of their turns, so that no two of
\* them share a place: Before is a strict total order.
LEMMA BeforeIsAnOrder ==
    ASSUME coolDown \in [Url -> 0 .. Cooldown], NEW start \in Url
    PROVE  \A u, v, w \in Url :
        /\ ~Before(start, u, u)
        /\ Before(start, u, v) /\ Before(start, v, w) => Before(start, u, w)
        /\ u # v => Before(start, u, v) \/ Before(start, v, u)
<1> DEFINE T(u) == (u - start + N) % N
<1> SUFFICES ASSUME NEW u \in Url, NEW v \in Url, NEW w \in Url
    PROVE  /\ ~Before(start, u, u)
           /\ Before(start, u, v) /\ Before(start, v, w) => Before(start, u, w)
           /\ u # v => Before(start, u, v) \/ Before(start, v, u)
  OBVIOUS
<1>1. \A x, y \in Url : Before(start, x, y)
        <=> coolDown[x] < coolDown[y] \/ (coolDown[x] = coolDown[y] /\ T(x) < T(y))
  BY DEF Before
<1>2. \A x \in Url : T(x) \in Int /\ coolDown[x] \in Int
  BY TurnOf, RotationAssumption
<1>3. \A x, y \in Url : T(x) = T(y) => x = y
  <2>1. N \in Nat /\ start \in Int /\ \A x \in Url : x \in Int /\ 0 <= x /\ x < N
    BY RotationAssumption DEF Url
  <2>2. \A x \in Url : T(x) = IF x < start THEN x - start + N ELSE x - start
    BY TurnOf
  <2> HIDE DEF T
  <2>3. QED
    BY <2>1, <2>2
<1> HIDE DEF T
<1>4. QED
  BY <1>1, <1>2, <1>3

\* Every url of the pool has a place in its sweep, and no two have the same.
LEMMA SweepIsWhole ==
    ASSUME coolDown \in [Url -> 0 .. Cooldown], NEW start \in Url, NEW pool \in SUBSET Url
    PROVE  LET order == Sweep(pool, start)
           IN  /\ order \in Seq(pool)
               /\ Len(order) = Cardinality(pool)
               /\ \A k, l \in DOMAIN order : order[k] = order[l] => k = l
               /\ \A u \in pool : \E k \in DOMAIN order : order[k] = u
<1> DEFINE Ahead(u) == {v \in pool : Before(start, v, u)}
           P(u) == Cardinality(Ahead(u))
           n == Cardinality(pool)
<1>1. IsFiniteSet(pool) /\ n \in Nat
  <2>1. IsFiniteSet(Url)
    BY FS_Interval, RotationAssumption DEF Url
  <2>2. QED
    BY <2>1, FS_Subset, FS_CardinalityType
<1>2. \A u \in pool : P(u) \in 0 .. n - 1
  <2> SUFFICES ASSUME NEW u \in pool PROVE P(u) \in 0 .. n - 1
    OBVIOUS
  <2>1. u \notin Ahead(u) /\ Ahead(u) \in SUBSET pool
    BY BeforeIsAnOrder
  <2> HIDE DEF Ahead
  <2>2. IsFiniteSet(Ahead(u)) /\ P(u) \in Nat /\ P(u) <= n /\ P(u) # n
    BY <1>1, <2>1, FS_Subset, FS_CardinalityType
  <2>3. QED
    BY <1>1, <2>2
<1>3. \A u, v \in pool : P(u) = P(v) => u = v
  <2>1. ASSUME NEW u \in pool, NEW v \in pool, Before(start, u, v) PROVE P(u) < P(v)
    <3>1. u \in Ahead(v) /\ u \notin Ahead(u) /\ Ahead(u) \subseteq Ahead(v) /\ Ahead(v) \subseteq pool
      BY <2>1, BeforeIsAnOrder
    <3> HIDE DEF Ahead
    <3>2. IsFiniteSet(Ahead(v))
      BY <1>1, <3>1, FS_Subset
    <3>3. Cardinality(Ahead(u)) <= Cardinality(Ahead(v)) /\ Cardinality(Ahead(u)) # Cardinality(Ahead(v))
      BY <3>1, <3>2, FS_Subset
    <3>4. P(u) \in Int /\ P(v) \in Int
      BY <1>2
    <3>5. QED
      BY <3>3, <3>4
  <2>2. ASSUME NEW u \in pool, NEW v \in pool, P(u) = P(v), u # v PROVE FALSE
    <3>1. Before(start, u, v) \/ Before(start, v, u)
      BY <2>2, BeforeIsAnOrder
    <3>2. P(u) \in Int /\ P(v) \in Int
      BY <1>2
    <3> HIDE DEF P
    <3>3. QED
      BY <2>1, <2>2, <3>1, <3>2
  <2>3. QED
    BY <2>2
<1> HIDE DEF Ahead, P
<1>4. \A k \in 1 .. n : \E u \in pool : P(u) = k - 1
  <2> DEFINE f == [u \in pool |-> P(u)]
  <2>1. f \in Injection(pool, 0 .. n - 1)
    BY <1>2, <1>3 DEF Injection, IsInjective
  <2>2. IsFiniteSet(0 .. n - 1) /\ Cardinality(0 .. n - 1) = n
    <3>1. n \in Int /\ n >= 0
      BY <1>1
    <3> HIDE DEF n
    <3>2. n - 1 \in Int /\ (n = 0 <=> 0 > n - 1) /\ n - 1 - 0 + 1 = n
      BY <3>1
    <3>3. QED
      BY <3>2, FS_Interval
  <2> HIDE DEF f
  <2>3. f \in Surjection(pool, 0 .. n - 1)
    BY <2>1, <2>2, FS_Injection
  <2>4. \A j \in 0 .. n - 1 : \E u \in pool : f[u] = j
    BY <2>3 DEF Surjection
  <2>5. QED
    BY <1>1, <2>4 DEF f
<1> DEFINE order == Sweep(pool, start)
<1>5. order = [k \in 1 .. n |-> CHOOSE u \in pool : P(u) = k - 1]
  BY DEF Sweep, P, Ahead
<1> HIDE DEF order, n
<1>6. DOMAIN order = 1 .. n /\ \A k \in 1 .. n : order[k] \in pool /\ P(order[k]) = k - 1
  BY <1>4, <1>5
<1>7. order \in Seq(pool) /\ Len(order) = n
  <2>1. order \in [1 .. n -> pool]
    BY <1>5, <1>6
  <2>2. QED
    BY <1>1, <1>6, <2>1
<1>8. \A k, l \in DOMAIN order : order[k] = order[l] => k = l
  BY <1>1, <1>6
<1>9. \A u \in pool : \E k \in DOMAIN order : order[k] = u
  <2> SUFFICES ASSUME NEW u \in pool PROVE order[P(u) + 1] = u /\ P(u) + 1 \in 1 .. n
    BY <1>6
  <2>1. P(u) + 1 \in 1 .. n /\ P(u) \in Int
    BY <1>1, <1>2 DEF n
  <2>2. P(order[P(u) + 1]) = P(u) /\ order[P(u) + 1] \in pool
    BY <1>6, <2>1
  <2>3. QED
    BY <1>3, <2>1, <2>2
<1>10. QED
  BY <1>7, <1>8, <1>9 DEF order, n

----------------------------------------------------------------------------
\* The requests that have u still before them in the sweep they are in.
Yet(u) == {r \in Request : \E k \in DOMAIN call[r].order : call[r].order[k] = u}

\* A sweep tries no url twice.
NoRepeats ==
    \A r \in Request : \A k, l \in DOMAIN call[r].order :
        call[r].order[k] = call[r].order[l] => k = l

\* What could have served a request all along is still ahead of it in its sweep.
UsableIsAhead ==
    /\ usable \in [Request -> SUBSET Url]
    /\ \A r \in Request :
        /\ call[r].pc = "idle" => usable[r] = {}
        /\ \A u \in usable[r] : Serves(r, u) /\ ~Cooling(u)
        /\ call[r].pc = "sweep" => \A u \in usable[r] : r \in Yet(u)

\* Whoever hit a cooling url had it ahead when it began to cool down, and has no more:
\* each request pays for one hit.
HitsArePaidFor ==
    /\ hits \in [Url -> Nat]
    /\ \A u \in Url :
        /\ hits[u] + Cardinality(Yet(u)) <= Cardinality(Request)
        /\ ~Cooling(u) \/ AllCooling => hits[u] = 0

\* A pause is followed by another sweep.
RetriesLeft == \A r \in Request : call[r].pc = "pause" => call[r].attempt < SweepRetries

RpcInv == TypeOK /\ NoRepeats /\ RetriesLeft /\ UsableIsAhead /\ HitsArePaidFor

\* A sweep begins with every url that is not cooling down, with no other unless all are,
\* and with none of them twice; there is one at least.
LEMMA OrderIsWhole ==
    ASSUME coolDown \in [Url -> 0 .. Cooldown], NEW start \in Url
    PROVE  LET order == rotationOrder(start)
           IN  /\ order \in Seq(Url) /\ order # <<>>
               /\ \A k, l \in DOMAIN order : order[k] = order[l] => k = l
               /\ \A k \in DOMAIN order : AllCooling \/ ~Cooling(order[k])
               /\ \A u \in Url : AllCooling \/ ~Cooling(u) => \E k \in DOMAIN order : order[k] = u
<1> DEFINE pool == IF AllCooling THEN Url ELSE {u \in Url : ~Cooling(u)}
<1>1. pool \in SUBSET Url /\ pool # {} /\ \A u \in Url : u \in pool <=> AllCooling \/ ~Cooling(u)
  <2>1. 0 \in Url
    BY RotationAssumption DEF Url
  <2>2. QED
    BY <2>1 DEF AllCooling
<1>2. rotationOrder(start) = Sweep(pool, start)
  BY DEF rotationOrder
<1> HIDE DEF pool
<1> DEFINE order == Sweep(pool, start)
<1>3. /\ order \in Seq(pool)
      /\ \A k, l \in DOMAIN order : order[k] = order[l] => k = l
      /\ \A u \in pool : \E k \in DOMAIN order : order[k] = u
  BY <1>1, SweepIsWhole
<1> HIDE DEF order
<1>4. order \in Seq(Url) /\ \A k \in DOMAIN order : order[k] \in pool
  BY <1>1, <1>3
<1>5. order # <<>>
  BY <1>1, <1>3
<1>6. QED
  BY <1>1, <1>2, <1>3, <1>4, <1>5 DEF order

\* What a sweep in progress has before it.
LEMMA AttemptIsAhead ==
    ASSUME TypeOK, NEW r \in Request, call[r].pc = "sweep"
    PROVE  /\ call[r].order \in Seq(Url) /\ call[r].order # <<>> /\ call[r].attempt \in 0 .. SweepRetries
           /\ Attempt(r) \in Url /\ Attempt(r) = call[r].order[1] /\ 1 \in DOMAIN call[r].order
           /\ r \in Yet(Attempt(r))
<1>1. call[r].order \in Seq(Url) /\ call[r].order # <<>> /\ call[r].attempt \in 0 .. SweepRetries
  BY DEF TypeOK, CallRecord
<1>2. Head(call[r].order) \in Url /\ Head(call[r].order) = call[r].order[1] /\ 1 \in DOMAIN call[r].order
  BY <1>1
<1>3. QED
  BY <1>1, <1>2 DEF Attempt, Yet

\* The cardinality of a set of requests.
LEMMA Requests ==
    ASSUME NEW S \in SUBSET Request
    PROVE  /\ IsFiniteSet(S) /\ Cardinality(S) \in Nat /\ Cardinality(S) <= Cardinality(Request)
           /\ Cardinality(Request) \in Nat
  BY RotationAssumption, FS_Subset, FS_CardinalityType

\* How the count of hits stays bounded: a step adds requests to those with u ahead only
\* when no hits of u are counted, and counts a hit only as a request drops u.
LEMMA HitsStayPaidFor ==
    ASSUME RpcInv, NEW x, History(x),
           \A u \in Url :
                \/ hits[u] = 0 /\ x # u
                \/ /\ Yet(u)' \subseteq Yet(u)
                   /\ x = u => \E r \in Yet(u) : r \notin Yet(u)'
    PROVE  HitsArePaidFor'
<1>1. hits' = [u \in Url |->
            IF ~Cooling(u)' \/ AllCooling' THEN 0
            ELSE IF u = x /\ Cooling(u) /\ hits[u] <= Cardinality(Request)
                 THEN hits[u] + 1 ELSE hits[u]]
  BY DEF History
<1>2. hits \in [Url -> Nat] /\ \A u \in Url : hits[u] + Cardinality(Yet(u)) <= Cardinality(Request)
  BY DEF RpcInv, HitsArePaidFor
<1>3. \A u \in Url : Yet(u) \in SUBSET Request /\ Yet(u)' \in SUBSET Request
  BY DEF Yet
<1>4. Cardinality(Request) \in Nat /\ \A u \in Url :
        /\ Cardinality(Yet(u)) \in Nat /\ Cardinality(Yet(u)') \in Nat
        /\ Cardinality(Yet(u)') <= Cardinality(Request)
        /\ IsFiniteSet(Yet(u))
  BY <1>3, Requests, RotationAssumption
<1>5. ASSUME NEW u \in Url
      PROVE  /\ hits'[u] \in Nat
             /\ hits'[u] + Cardinality(Yet(u)') <= Cardinality(Request)
             /\ ~Cooling(u)' \/ AllCooling' => hits'[u] = 0
  <2>1. CASE ~Cooling(u)' \/ AllCooling'
    <3>1. hits'[u] = 0
      BY <1>1, <2>1
    <3>2. QED
      BY <1>4, <3>1
  <2>2. CASE ~(~Cooling(u)' \/ AllCooling') /\ u # x
    <3>1. hits'[u] = hits[u]
      BY <1>1, <2>2
    <3>2. hits[u] = 0 \/ Cardinality(Yet(u)') <= Cardinality(Yet(u))
      BY <1>3, <1>4, <2>2, FS_Subset
    <3>3. QED
      BY <1>2, <1>4, <2>2, <3>1, <3>2
  <2>3. CASE ~(~Cooling(u)' \/ AllCooling') /\ u = x
    <3>1. hits'[u] = hits[u] \/ hits'[u] = hits[u] + 1
      BY <1>1, <2>3
    <3>2. Yet(u)' \subseteq Yet(u) /\ Yet(u)' # Yet(u)
      BY <2>3
    <3>3. Cardinality(Yet(u)') <= Cardinality(Yet(u)) /\ Cardinality(Yet(u)') # Cardinality(Yet(u))
      BY <1>4, <3>2, FS_Subset
    <3>4. QED
      BY <1>2, <1>4, <2>3, <3>1, <3>3
  <2>4. QED
    BY <2>1, <2>2, <2>3
<1>6. hits' \in [Url -> Nat]
  BY <1>1, <1>5
<1>7. QED
  BY <1>5, <1>6 DEF HitsArePaidFor

\* How a sweep keeps what could serve it ahead: it begins with all that is not cooling
\* down, and drops no url but the one that just failed it.
LEMMA UsableStaysAhead ==
    ASSUME RpcInv, NEW x, History(x),
           \A r \in Request : call'[r].pc # "idle" =>
                /\ call[r].pc = "idle" => call'[r].pc = "sweep"
                /\ call'[r].pc = "sweep" =>
                    \/ \A u \in Url : ~Cooling(u)' => r \in Yet(u)'
                    \/ /\ call[r].pc = "sweep"
                       /\ \A u \in usable[r] : Serves(r, u)' /\ r \in Yet(u) => r \in Yet(u)'
    PROVE  UsableIsAhead'
<1>1. usable' = [r \in Request |->
            IF call'[r].pc = "idle" THEN {}
            ELSE {u \in IF call[r].pc = "idle" THEN Url ELSE usable[r] :
                    Serves(r, u)' /\ ~Cooling(u)'}]
  BY DEF History
<1>2. usable \in [Request -> SUBSET Url]
      /\ \A r \in Request : call[r].pc = "sweep" => \A u \in usable[r] : r \in Yet(u)
  BY DEF RpcInv, UsableIsAhead
<1>3. \A r \in Request :
        /\ call'[r].pc = "idle" => usable'[r] = {}
        /\ \A u \in usable'[r] :
            /\ u \in Url /\ Serves(r, u)' /\ ~Cooling(u)'
            /\ call[r].pc # "idle" => u \in usable[r]
  BY <1>1, <1>2
<1>4. usable' \in [Request -> SUBSET Url]
  BY <1>1, <1>3
<1>5. ASSUME NEW r \in Request, call'[r].pc = "sweep", NEW u \in usable'[r]
      PROVE  r \in Yet(u)'
  BY <1>2, <1>3, <1>5
<1>6. QED
  BY <1>3, <1>4, <1>5 DEF UsableIsAhead

LEMMA InitRpc == Init => RpcInv
<1> SUFFICES ASSUME Init PROVE RpcInv
  OBVIOUS
<1>1. \A r \in Request : call[r] = Idle /\ Idle \in CallRecord
  <2>1. <<>> \in Seq(Url) /\ 0 \in 0 .. SweepRetries
    BY RotationAssumption
  <2>2. QED
    BY <2>1 DEF Init, Idle, CallRecord
<1>2. TypeOK
  <2>1. 0 \in Url /\ 0 \in 0 .. Cooldown
    BY RotationAssumption DEF Url
  <2>2. call \in [Request -> CallRecord]
    BY <1>1 DEF Init
  <2>3. \A r \in Request : call[r].pc = "sweep" <=> call[r].order # <<>>
    BY <1>1 DEF Idle
  <2>4. QED
    BY <2>1, <2>2, <2>3 DEF Init, TypeOK
<1>3. \A r \in Request : DOMAIN call[r].order = {}
  BY <1>1 DEF Idle
<1>4. NoRepeats /\ RetriesLeft
  BY <1>1, <1>3 DEF Idle, NoRepeats, RetriesLeft
<1>5. UsableIsAhead
  <2>1. (\A r \in Request : usable[r] = {}) /\ usable \in [Request -> SUBSET Url]
    BY DEF Init
  <2>2. QED
    <3>1. \A r \in Request : call[r].pc = "idle"
      BY <1>1 DEF Idle
    <3>2. QED
      BY <2>1, <3>1 DEF UsableIsAhead
<1>6. HitsArePaidFor
  <2>1. \A u \in Url : Yet(u) = {}
    BY <1>3 DEF Yet
  <2>2. Cardinality({}) = 0 /\ Cardinality(Request) \in Nat
    BY Requests, FS_EmptySet
  <2>3. hits \in [Url -> Nat] /\ \A u \in Url : hits[u] = 0
    BY DEF Init
  <2>4. QED
    BY <2>1, <2>2, <2>3 DEF HitsArePaidFor
<1>7. QED
  BY <1>2, <1>4, <1>5, <1>6 DEF RpcInv

\* A sweep begins: none of its urls was cooling down, so no hits of theirs are counted.
LEMMA SweepsRpc ==
    ASSUME RpcInv, NEW r \in Request, Begin(r) \/ Resumes(r) PROVE RpcInv'
<1> DEFINE order == rotationOrder(nextStartIndex[ClientOf[r]])
<1>1. /\ call[r].pc \in {"idle", "pause"} /\ History(NoUrl)
      /\ UNCHANGED <<coolDown, nextStartIndex, endpoint, filter, initialized>>
  BY DEF Begin, Resumes
<1>2. /\ nextStartIndex[ClientOf[r]] \in Url /\ coolDown \in [Url -> 0 .. Cooldown]
      /\ call \in [Request -> CallRecord]
  BY RotationAssumption DEF RpcInv, TypeOK
<1>3. /\ order \in Seq(Url) /\ order # <<>>
      /\ \A k, l \in DOMAIN order : order[k] = order[l] => k = l
      /\ \A k \in DOMAIN order : AllCooling \/ ~Cooling(order[k])
      /\ \A u \in Url : AllCooling \/ ~Cooling(u) => \E k \in DOMAIN order : order[k] = u
  BY <1>2, OrderIsWhole
<1> HIDE DEF order
<1>4. PICK n \in 0 .. SweepRetries :
        call' = [call EXCEPT ![r] = [pc |-> "sweep", order |-> order, attempt |-> n]]
  <2>1. CASE Begin(r)
    <3>1. 0 \in 0 .. SweepRetries
      BY RotationAssumption
    <3>2. QED
      BY <2>1, <3>1 DEF Begin, order
  <2>2. CASE Resumes(r)
    <3>1. call[r] \in CallRecord /\ call[r].pc = "pause" /\ call[r].attempt < SweepRetries
      BY <1>2, <2>2 DEF Resumes, RpcInv, RetriesLeft
    <3>2. call[r].attempt + 1 \in 0 .. SweepRetries
      BY <3>1, RotationAssumption DEF CallRecord
    <3>3. call' = [call EXCEPT ![r] =
                    [pc |-> "sweep", order |-> order, attempt |-> call[r].attempt + 1]]
      BY <1>2, <2>2, <3>1 DEF Resumes, CallRecord, order
    <3>4. QED
      BY <3>2, <3>3
  <2>3. QED
    BY <2>1, <2>2
<1>5. /\ call'[r].pc = "sweep" /\ call'[r].order = order
      /\ \A q \in Request : q # r => call'[q] = call[q]
  BY <1>2, <1>4
<1>6. TypeOK' /\ RetriesLeft'
  <2>1. [pc |-> "sweep", order |-> order, attempt |-> n] \in CallRecord
    BY <1>3, <1>4 DEF CallRecord
  <2>2. call' \in [Request -> CallRecord]
    BY <1>2, <1>4, <2>1
  <2>3. \A q \in Request : call'[q].pc = "sweep" <=> call'[q].order # <<>>
    BY <1>3, <1>5 DEF RpcInv, TypeOK
  <2>4. RetriesLeft'
    BY <1>5 DEF RpcInv, RetriesLeft
  <2>5. QED
    BY <1>1, <2>2, <2>3, <2>4 DEF RpcInv, TypeOK
<1>7. NoRepeats'
  BY <1>3, <1>5 DEF RpcInv, NoRepeats
<1>8. \A u \in Url : r \in Yet(u)' <=> \E k \in DOMAIN order : order[k] = u
  BY <1>5 DEF Yet
<1>9. \A u \in Url, q \in Request : q # r => (q \in Yet(u)' <=> q \in Yet(u))
  BY <1>5 DEF Yet
<1>10. UsableIsAhead'
  <2>1. \A u \in Url : ~Cooling(u)' => r \in Yet(u)'
    BY <1>1, <1>3, <1>8 DEF Cooling
  <2>2. \A q \in Request : q # r => \A u \in usable[q] : q \in Yet(u) => q \in Yet(u)'
    BY <1>9 DEF RpcInv, UsableIsAhead
  <2>3. QED
    BY <1>1, <1>5, <2>1, <2>2, UsableStaysAhead
<1>11. HitsArePaidFor'
  <2>1. ASSUME NEW u \in Url, hits[u] # 0 PROVE Yet(u)' \subseteq Yet(u)
    <3>1. Cooling(u) /\ ~AllCooling
      BY <2>1 DEF RpcInv, HitsArePaidFor
    <3>2. r \notin Yet(u)'
      BY <1>3, <1>8, <3>1
    <3>3. Yet(u)' \subseteq Request
      BY DEF Yet
    <3>4. QED
      BY <1>9, <3>2, <3>3
  <2>2. \A u \in Url : NoUrl # u
    BY RotationAssumption
  <2>3. QED
    BY <1>1, <2>1, <2>2, HitsStayPaidFor
<1>12. QED
  BY <1>6, <1>7, <1>10, <1>11 DEF RpcInv

\* Nothing but the cooldowns, the endpoints or the filter changes: no request's sweep does.
LEMMA SurroundingsRpc ==
    ASSUME RpcInv, TypeOK', UNCHANGED call, History(NoUrl) PROVE RpcInv'
<1>1. \A u \in Url : Yet(u)' = Yet(u) /\ NoUrl # u
  BY RotationAssumption DEF Yet
<1>2. NoRepeats' /\ RetriesLeft'
  BY DEF RpcInv, NoRepeats, RetriesLeft
<1>3. UsableIsAhead'
  <2>1. \A r \in Request : \A u \in usable[r] : r \in Yet(u) => r \in Yet(u)'
    BY <1>1 DEF RpcInv, UsableIsAhead
  <2>2. QED
    BY <2>1, UsableStaysAhead
<1>4. HitsArePaidFor'
  BY <1>1, HitsStayPaidFor
<1>5. QED
  BY <1>2, <1>3, <1>4 DEF RpcInv

LEMMA EnvironmentRpc ==
    ASSUME RpcInv, Tick \/ FilterExpires \/ \E u \in Url : EndpointChanges(u) PROVE RpcInv'
<1>1. CASE Tick
  <2>1. coolDown' \in [Url -> 0 .. Cooldown]
    <3>1. \A u \in Url : coolDown[u] \in 0 .. Cooldown
      BY DEF RpcInv, TypeOK
    <3>2. \A u \in Url : (IF Cooling(u) THEN coolDown[u] - 1 ELSE 0) \in 0 .. Cooldown
      BY <3>1, RotationAssumption DEF Cooling
    <3>3. QED
      BY <1>1, <3>2 DEF Tick
  <2>2. TypeOK'
    BY <1>1, <2>1 DEF Tick, RpcInv, TypeOK
  <2>3. QED
    BY <1>1, <2>2, SurroundingsRpc DEF Tick
<1>2. CASE FilterExpires
  <2>1. TypeOK'
    BY <1>2 DEF FilterExpires, RpcInv, TypeOK
  <2>2. QED
    BY <1>2, <2>1, SurroundingsRpc DEF FilterExpires
<1>3. CASE \E u \in Url : EndpointChanges(u)
  <2>1. TypeOK'
    BY <1>3 DEF EndpointChanges, RpcInv, TypeOK
  <2>2. QED
    BY <1>3, <2>1, SurroundingsRpc DEF EndpointChanges
<1>4. QED
  BY <1>1, <1>2, <1>3

\* A request is done with the url it attempted: the rest of its sweep is ahead of it, or
\* the sweep is over.
LEMMA AttemptsRpc ==
    ASSUME RpcInv, TypeOK', RetriesLeft', NEW r \in Request, call[r].pc = "sweep", NEW c,
           call' = [call EXCEPT ![r] = c], History(Attempt(r)),
           \/ c.pc = "sweep" /\ c.order = Tail(call[r].order) /\ ~Serves(r, Attempt(r))
           \/ c.pc # "sweep" /\ c.order = <<>>
    PROVE  RpcInv'
<1> DEFINE order == call[r].order
<1>0. PICK u \in Url : u = Attempt(r)
  BY AttemptIsAhead DEF RpcInv
<1>1. /\ order \in Seq(Url) /\ order # <<>> /\ u = order[1] /\ 1 \in DOMAIN order
      /\ r \in Yet(u)
  BY <1>0, AttemptIsAhead DEF RpcInv
<1>2. /\ call'[r] = c /\ \A q \in Request : q # r => call'[q] = call[q]
  BY DEF RpcInv, TypeOK
<1>3. \A k, l \in DOMAIN order : order[k] = order[l] => k = l
  BY DEF RpcInv, NoRepeats
<1>4. /\ \A k \in DOMAIN c.order : k + 1 \in DOMAIN order /\ k + 1 # 1 /\ c.order[k] = order[k + 1]
      /\ c.pc = "sweep" => \A k \in DOMAIN order : k # 1 => k - 1 \in DOMAIN c.order
      /\ \A k \in DOMAIN c.order : k \in Int
      /\ \A k \in DOMAIN order : k \in Int
  <2>1. CASE c.pc = "sweep" /\ c.order = Tail(order)
    <3>1. /\ Tail(order) \in Seq(Url) /\ Len(Tail(order)) = Len(order) - 1
          /\ \A k \in 1 .. Len(Tail(order)) : Tail(order)[k] = order[k + 1]
      BY <1>1, HeadTailProperties
    <3>2. DOMAIN Tail(order) = 1 .. Len(order) - 1 /\ DOMAIN order = 1 .. Len(order) /\ Len(order) \in Nat
      BY <1>1, <3>1
    <3>3. QED
      BY <2>1, <3>1, <3>2
  <2>2. CASE c.pc # "sweep" /\ c.order = <<>>
    <3>1. DOMAIN c.order = {} /\ DOMAIN order = 1 .. Len(order)
      BY <1>1, <2>2
    <3>2. QED
      BY <2>2, <3>1
  <2>3. QED
    BY <2>1, <2>2
<1> HIDE DEF order
<1>5. NoRepeats'
  <2>1. ASSUME NEW k \in DOMAIN c.order, NEW l \in DOMAIN c.order, c.order[k] = c.order[l]
        PROVE  k = l
    <3>1. order[k + 1] = order[l + 1] /\ k + 1 \in DOMAIN order /\ l + 1 \in DOMAIN order
      BY <1>4, <2>1
    <3>2. k + 1 = l + 1 /\ k \in Int /\ l \in Int
      BY <1>3, <1>4, <3>1
    <3>3. QED
      BY <3>2
  <2>2. QED
    BY <1>2, <2>1 DEF RpcInv, NoRepeats
<1>6. \A v \in Url : /\ r \in Yet(v)  <=> \E k \in DOMAIN order : order[k] = v
                     /\ r \in Yet(v)' <=> \E k \in DOMAIN c.order : c.order[k] = v
  BY <1>2 DEF Yet, order
<1>7. \A v \in Url, q \in Request : q # r => (q \in Yet(v)' <=> q \in Yet(v))
  BY <1>2 DEF Yet
<1>8. r \notin Yet(u)'
  <2>1. ASSUME NEW k \in DOMAIN c.order, c.order[k] = u PROVE FALSE
    <3>1. order[k + 1] = order[1] /\ k + 1 \in DOMAIN order /\ k + 1 # 1
      BY <1>1, <1>4, <2>1
    <3>2. QED
      BY <1>1, <1>3, <3>1
  <2>2. QED
    BY <1>1, <1>6, <2>1
<1>9. \A v \in Url : /\ r \in Yet(v)' => r \in Yet(v)
                     /\ c.pc = "sweep" /\ r \in Yet(v) /\ v # u => r \in Yet(v)'
  <2> SUFFICES ASSUME NEW v \in Url
      PROVE  /\ r \in Yet(v)' => r \in Yet(v)
             /\ c.pc = "sweep" /\ r \in Yet(v) /\ v # u => r \in Yet(v)'
    OBVIOUS
  <2>1. ASSUME r \in Yet(v)' PROVE r \in Yet(v)
    BY <1>4, <1>6, <2>1
  <2>2. ASSUME c.pc = "sweep", r \in Yet(v), v # u PROVE r \in Yet(v)'
    <3>1. PICK k \in DOMAIN order : order[k] = v
      BY <1>6, <2>2
    <3>2. k \in Int /\ k # 1 /\ k - 1 \in DOMAIN c.order
      BY <1>1, <1>4, <2>2, <3>1
    <3>3. (k - 1) + 1 = k
      BY <3>2
    <3>4. c.order[k - 1] = v
      BY <1>4, <3>1, <3>2, <3>3
    <3>5. QED
      BY <1>6, <3>2, <3>4
  <2>3. QED
    BY <2>1, <2>2
<1>10. UsableIsAhead'
  <2>1. \A q \in Request : q # r => \A v \in usable[q] : q \in Yet(v) => q \in Yet(v)'
    BY <1>7 DEF RpcInv, UsableIsAhead
  <2>2. c.pc = "sweep" => \A v \in usable[r] : v \in Url /\ v # u
    BY <1>0 DEF RpcInv, UsableIsAhead
  <2>3. QED
    BY <1>2, <1>9, <2>1, <2>2, UsableStaysAhead
<1>11. HitsArePaidFor'
  <2>1. \A v \in Url : Yet(v)' \subseteq Yet(v)
    <3>1. \A v \in Url : Yet(v)' \subseteq Request
      BY DEF Yet
    <3>2. QED
      BY <1>7, <1>9, <3>1
  <2>2. \E q \in Yet(u) : q \notin Yet(u)'
    BY <1>1, <1>8
  <2>3. QED
    BY <1>0, <2>1, <2>2, HitsStayPaidFor
<1>12. QED
  BY <1>5, <1>10, <1>11 DEF RpcInv

\* An answer ends the request, moves the client's start and, for the watcher, the filter.
LEMMA AnsweredRpc == ASSUME RpcInv, NEW r \in Request, Answered(r) PROVE RpcInv'
<1>1. /\ call[r].pc = "sweep" /\ call' = [call EXCEPT ![r] = Idle] /\ History(Attempt(r))
      /\ UNCHANGED <<coolDown, endpoint>>
      /\ nextStartIndex' = [nextStartIndex EXCEPT ![ClientOf[r]] = (Attempt(r) + 1) % N]
      /\ filter' = (IF r = Watcher THEN Attempt(r) ELSE filter)
      /\ initialized' = (initialized \/ r = Watcher)
  BY DEF Answered
<1>2. Attempt(r) \in Url
  BY <1>1, AttemptIsAhead DEF RpcInv
<1>3. call' \in [Request -> CallRecord] /\ \A q \in Request : call'[q] = IF q = r THEN Idle ELSE call[q]
  <2>1. Idle \in CallRecord
    <3>1. <<>> \in Seq(Url) /\ 0 \in 0 .. SweepRetries
      BY RotationAssumption
    <3>2. QED
      BY <3>1 DEF Idle, CallRecord
  <2>2. QED
    BY <1>1, <2>1 DEF RpcInv, TypeOK
<1>4. Idle.pc = "idle" /\ Idle.order = <<>>
  BY DEF Idle
<1>5. TypeOK'
  <2>1. (Attempt(r) + 1) % N \in Url
    BY <1>2, RotationAssumption DEF Url
  <2>2. nextStartIndex' \in [Client -> Url]
    BY <1>1, <2>1 DEF RpcInv, TypeOK
  <2>3. \A q \in Request : call'[q].pc = "sweep" <=> call'[q].order # <<>>
    BY <1>3, <1>4 DEF RpcInv, TypeOK
  <2>4. filter' \in Url \cup {NoUrl} /\ initialized' \in BOOLEAN
    BY <1>1, <1>2 DEF RpcInv, TypeOK
  <2>5. QED
    BY <1>1, <1>3, <2>2, <2>3, <2>4 DEF RpcInv, TypeOK
<1>6. RetriesLeft'
  BY <1>3, <1>4 DEF RpcInv, RetriesLeft
<1>7. QED
  BY <1>1, <1>4, <1>5, <1>6, AttemptsRpc

\* An attempt that fails: the rest of the sweep, a pause before the next one, or the end.
LEMMA FailuresRpc ==
    ASSUME RpcInv, NEW r \in Request, TriesNext(r) \/ Pauses(r) \/ Throws(r) PROVE RpcInv'
<1> DEFINE rest == IF Len(call[r].order) > 1
                   THEN [call[r] EXCEPT !.order = Tail(@)]
                   ELSE IF call[r].attempt < SweepRetries
                   THEN [pc |-> "pause", order |-> <<>>, attempt |-> call[r].attempt] ELSE Idle
<1>1. /\ call[r].pc = "sweep" /\ ~Serves(r, Attempt(r)) /\ History(Attempt(r))
      /\ CoolDownOn(ErrorOf(r), Attempt(r))
      /\ UNCHANGED <<nextStartIndex, endpoint, filter>>
  BY DEF TriesNext, Pauses, Throws
<1>2. /\ call[r] \in CallRecord /\ call[r].order \in Seq(Url) /\ call[r].order # <<>>
      /\ call[r].attempt \in 0 .. SweepRetries /\ Attempt(r) \in Url
  BY <1>1, AttemptIsAhead DEF RpcInv, TypeOK
<1>3. call' = [call EXCEPT ![r] = rest]
  <2>1. Len(call[r].order) \in Nat /\ SweepRetries \in Nat
    BY <1>2, RotationAssumption
  <2>2. CASE TriesNext(r)
    <3>1. rest = [call[r] EXCEPT !.order = Tail(@)]
      BY <2>2 DEF TriesNext
    <3> HIDE DEF rest
    <3>2. QED
      BY <2>2, <3>1 DEF TriesNext
  <2>3. CASE Pauses(r)
    <3>1. rest = [pc |-> "pause", order |-> <<>>, attempt |-> call[r].attempt]
      BY <2>1, <2>3 DEF Pauses
    <3> HIDE DEF rest
    <3>2. QED
      BY <1>2, <2>3, <3>1 DEF Pauses, RpcInv, TypeOK, CallRecord
  <2>4. CASE Throws(r)
    <3>1. Len(call[r].order) = 1 /\ call[r].attempt = SweepRetries /\ call' = [call EXCEPT ![r] = Idle]
      BY <2>4 DEF Throws
    <3>2. ~(Len(call[r].order) > 1) /\ ~(call[r].attempt < SweepRetries)
      BY <2>1, <3>1
    <3>3. rest = Idle
      BY <3>2
    <3>4. QED
      BY <3>1, <3>3
  <2>5. QED
    BY <2>2, <2>3, <2>4
<1>4. /\ rest \in CallRecord /\ (rest.pc = "sweep" <=> rest.order # <<>>)
      /\ rest.pc = "pause" => rest.attempt < SweepRetries
      /\ \/ rest.pc = "sweep" /\ rest.order = Tail(call[r].order)
         \/ rest.pc # "sweep" /\ rest.order = <<>>
  <2>1. CASE Len(call[r].order) > 1
    <3>1. Tail(call[r].order) \in Seq(Url) /\ Tail(call[r].order) # <<>>
      <4>1. Tail(call[r].order) \in Seq(Url) /\ Len(Tail(call[r].order)) = Len(call[r].order) - 1
        BY <1>2, HeadTailProperties
      <4>2. Len(Tail(call[r].order)) > 0
        BY <1>2, <2>1, <4>1
      <4>3. ASSUME NEW t, t = <<>> PROVE Len(t) = 0
        <5>1. Len(<<>>) = 0
          OBVIOUS
        <5>2. QED
          BY <4>3, <5>1, Zenon
      <4>4. Tail(call[r].order) # <<>>
        BY <4>2, <4>3
      <4>5. QED
        BY <4>1, <4>4
    <3>2. rest = [call[r] EXCEPT !.order = Tail(@)]
      BY <2>1
    <3>3. QED
      BY <1>1, <1>2, <3>1, <3>2 DEF CallRecord
  <2>2. CASE ~(Len(call[r].order) > 1) /\ call[r].attempt < SweepRetries
    <3>1. rest = [pc |-> "pause", order |-> <<>>, attempt |-> call[r].attempt]
      BY <2>2
    <3>2. <<>> \in Seq(Url)
      OBVIOUS
    <3>3. QED
      BY <1>2, <2>2, <3>1, <3>2 DEF CallRecord
  <2>3. CASE ~(Len(call[r].order) > 1) /\ ~(call[r].attempt < SweepRetries)
    <3>1. rest = Idle
      BY <2>3
    <3>2. <<>> \in Seq(Url) /\ 0 \in 0 .. SweepRetries
      BY RotationAssumption
    <3>3. QED
      BY <3>1, <3>2 DEF Idle, CallRecord
  <2>4. QED
    BY <2>1, <2>2, <2>3
<1> HIDE DEF rest
<1>5. call' \in [Request -> CallRecord] /\ \A q \in Request : call'[q] = IF q = r THEN rest ELSE call[q]
  BY <1>3, <1>4 DEF RpcInv, TypeOK
<1>6. TypeOK'
  <2>1. coolDown' \in [Url -> 0 .. Cooldown]
    BY <1>1, <1>2, RotationAssumption DEF CoolDownOn, RpcInv, TypeOK
  <2>2. \A q \in Request : call'[q].pc = "sweep" <=> call'[q].order # <<>>
    BY <1>4, <1>5 DEF RpcInv, TypeOK
  <2>3. initialized' \in BOOLEAN
    BY DEF TriesNext, Pauses, Throws, RpcInv, TypeOK
  <2>4. QED
    BY <1>1, <1>5, <2>1, <2>2, <2>3 DEF RpcInv, TypeOK
<1>7. RetriesLeft'
  BY <1>4, <1>5 DEF RpcInv, RetriesLeft
<1>8. QED
  BY <1>1, <1>3, <1>4, <1>6, <1>7, AttemptsRpc

LEMMA NextRpc == RpcInv /\ [Next]_vars => RpcInv'
<1> SUFFICES ASSUME RpcInv, [Next]_vars PROVE RpcInv'
  OBVIOUS
<1>1. CASE UNCHANGED vars
  <2>1. TypeOK' /\ NoRepeats' /\ RetriesLeft'
    BY <1>1 DEF vars, RpcInv, TypeOK, NoRepeats, RetriesLeft
  <2>2. \A u \in Url : /\ Yet(u)' = Yet(u) /\ (Cooling(u)' <=> Cooling(u))
                       /\ \A r \in Request : Serves(r, u)' <=> Serves(r, u)
    BY <1>1 DEF vars, Yet, Cooling, Serves, Knows, PollsFilter
  <2>3. AllCooling' <=> AllCooling
    BY <2>2 DEF AllCooling
  <2>4. UsableIsAhead'
    BY <1>1, <2>2 DEF vars, RpcInv, UsableIsAhead
  <2>5. HitsArePaidFor'
    BY <1>1, <2>2, <2>3 DEF vars, RpcInv, HitsArePaidFor
  <2>6. QED
    BY <2>1, <2>4, <2>5 DEF RpcInv
<1>2. CASE Next
  BY <1>2, SweepsRpc, AnsweredRpc, FailuresRpc, EnvironmentRpc DEF Next
<1>3. QED
  BY <1>1, <1>2

LEMMA RpcInvHolds == Spec => []RpcInv
  BY InitRpc, NextRpc, PTL DEF Spec

\* The types of rpc_rotation.ts: cooldowns within RPC_COOLDOWN_SEC, a start that is a url,
\* and a sweep that always has a url to try, however many cool down.
THEOREM RotationTypeCorrect == Spec => []TypeOK
<1>1. RpcInv => TypeOK
  BY DEF RpcInv
<1>2. QED
  BY <1>1, RpcInvHolds, PTL

\* While another url is not cooling down, a cooling one is hit no more often than there are
\* requests that may be in flight: whoever hits it began before it cooled down
\* (rpc_rotation.ts, rotationOrder and recordCapacityError).
THEOREM CappedKeysAreSpared == Spec => []SparedWhileCooling
<1>1. RpcInv => SparedWhileCooling
  <2> SUFFICES ASSUME RpcInv, NEW u \in Url PROVE hits[u] <= Cardinality(Request)
    BY DEF SparedWhileCooling
  <2>1. Yet(u) \in SUBSET Request
    BY DEF Yet
  <2>2. Cardinality(Yet(u)) \in Nat /\ Cardinality(Request) \in Nat /\ hits[u] \in Nat
    BY <2>1, Requests DEF RpcInv, HitsArePaidFor
  <2>3. QED
    BY <2>2 DEF RpcInv, HitsArePaidFor
<1>2. QED
  BY <1>1, RpcInvHolds, PTL

\* A request throws only when nothing could have served it from its beginning on: one
\* healthy key is enough (rpc_rotation.ts, attemptSweep and request).
THEOREM OneGoodKeyServes == Spec => OneGoodKeyIsEnough
<1>1. RpcInv /\ [Next]_vars => [\A r \in Request : Throws(r) => usable[r] = {}]_vars
  <2> SUFFICES ASSUME RpcInv, NEW r \in Request, Throws(r), NEW u \in usable[r] PROVE FALSE
    OBVIOUS
  <2>1. /\ call[r].pc = "sweep" /\ ~Serves(r, Attempt(r)) /\ Len(call[r].order) = 1
    BY DEF Throws
  <2>2. /\ call[r].order \in Seq(Url) /\ Attempt(r) = call[r].order[1]
    BY <2>1, AttemptIsAhead DEF RpcInv
  <2>3. DOMAIN call[r].order = {1}
    BY <2>1, <2>2
  <2>4. Serves(r, u) /\ r \in Yet(u)
    BY <2>1 DEF RpcInv, UsableIsAhead
  <2>5. u = Attempt(r)
    BY <2>2, <2>3, <2>4 DEF Yet
  <2>6. QED
    BY <2>1, <2>4, <2>5
<1>2. QED
  BY <1>1, RpcInvHolds, PTL DEF Spec, OneGoodKeyIsEnough

----------------------------------------------------------------------------
(***************************************************************************)
(* The TRON listener.                                                      *)
(***************************************************************************)
CONSTANTS Fetch, Limit, SeenLimit, MaxPerBlock, MaxTime, MaxRestarts

VARIABLES now, events, confirmed, start, since, seen, request, handled, twice, restarts

Tron == INSTANCE TronListener WITH Request <- Fetch

\* Its cardinalities are those of FiniteSets.
LEMMA TronCardinality == \A S : Tron!Cardinality(S) = Cardinality(S)
  BY DEF Tron!Cardinality, Cardinality
\* An answer leaves nothing out: between what was asked for and an event on the page,
\* every event is on the page.  No later event can get in between, for its block is
\* newer than whatever was confirmed; and what was asked for is not ahead of the cursor.
PagesAreWhole ==
    \A r \in Fetch : request[r].st # "free" =>
        /\ request[r].since <= since
        /\ \A e \in request[r].page :
            /\ e \in events /\ Tron!Time(e) < confirmed /\ request[r].since <= Tron!Time(e)
            /\ \A f \in events : request[r].since <= Tron!Time(f) /\ Tron!Time(f) < Tron!Time(e) => f \in request[r].page

\* Blocks are not in the future.
EventsArePast == \A e \in events : Tron!Time(e) < now

TronInv == Tron!TypeOK /\ PagesAreWhole /\ EventsArePast /\ Tron!NothingSkipped

USE DEF Tron!Time, Tron!Free

\* The watch starts with nothing behind it.
LEMMA InitTron == ASSUME Tron!TronAssumption, Tron!Init PROVE TronInv
  BY Tron!TronAssumption DEF Tron!Init, TronInv, Tron!TypeOK, PagesAreWhole, EventsArePast, Tron!NothingSkipped, Tron!Event

\* A block is newer than everything that is confirmed or behind the cursor.
LEMMA BlockTron == ASSUME Tron!TronAssumption, TronInv, Tron!Block PROVE TronInv'
<1>1. PICK c \in 0 .. MaxPerBlock : events' = events \cup {<<now, n>> : n \in 1 .. c}
  BY DEF Tron!Block
<1>2. now' = now + 1 /\ UNCHANGED <<confirmed, start, since, seen, request, handled, twice, restarts>>
  BY DEF Tron!Block
<1>3. now \in Nat /\ confirmed \in 0 .. now /\ start \in 0 .. now /\ since \in start .. now
  BY DEF TronInv, Tron!TypeOK
<1>4. events \subseteq events' /\ \A e \in events' : e \in events \/ (e \in Tron!Event /\ Tron!Time(e) = now)
  BY <1>1, <1>3, Tron!TronAssumption DEF Tron!Event
<1>5. Tron!TypeOK'
  BY <1>2, <1>3, <1>4 DEF TronInv, Tron!TypeOK
<1>6. EventsArePast'
  BY <1>2, <1>3, <1>4 DEF TronInv, Tron!TypeOK, EventsArePast, Tron!Event
<1>7. Tron!NothingSkipped'
  BY <1>2, <1>3, <1>4 DEF TronInv, Tron!NothingSkipped
<1>8. PagesAreWhole'
  <2> SUFFICES ASSUME NEW r \in Fetch, request[r].st # "free" PROVE
        /\ request[r].since <= since
        /\ \A e \in request[r].page :
            /\ e \in events' /\ Tron!Time(e) < confirmed /\ request[r].since <= Tron!Time(e)
            /\ \A f \in events' : request[r].since <= Tron!Time(f) /\ Tron!Time(f) < Tron!Time(e) => f \in request[r].page
    BY <1>2 DEF PagesAreWhole
  <2>1. /\ request[r].since <= since
        /\ \A e \in request[r].page :
            /\ e \in events /\ Tron!Time(e) < confirmed /\ request[r].since <= Tron!Time(e)
            /\ \A f \in events : request[r].since <= Tron!Time(f) /\ Tron!Time(f) < Tron!Time(e) => f \in request[r].page
    BY DEF TronInv, PagesAreWhole
  <2>2. \A e \in events : Tron!Time(e) \in Nat
    BY DEF TronInv, Tron!TypeOK, Tron!Event
  <2>3. QED
    BY <1>3, <1>4, <2>1, <2>2
<1>9. QED
  BY <1>5, <1>6, <1>7, <1>8 DEF TronInv

\* Confirming a block only widens what is confirmed.
LEMMA ConfirmTron == ASSUME TronInv, Tron!Confirm PROVE TronInv'
<1>1. /\ confirmed < now /\ confirmed' = confirmed + 1
      /\ UNCHANGED <<now, events, start, since, seen, request, handled, twice, restarts>>
  BY DEF Tron!Confirm
<1>2. Tron!TypeOK' /\ EventsArePast' /\ Tron!NothingSkipped'
  BY <1>1 DEF TronInv, Tron!TypeOK, EventsArePast, Tron!NothingSkipped
<1>3. PagesAreWhole'
  <2>1. confirmed \in Nat /\ \A e \in events : Tron!Time(e) \in Nat
    BY DEF TronInv, Tron!TypeOK, Tron!Event
  <2>2. QED
    BY <1>1, <2>1 DEF TronInv, PagesAreWhole
<1>4. QED
  BY <1>2, <1>3 DEF TronInv

\* A request asks from the cursor on; an answer is a first part of what matches.
LEMMA AskAndAnswerTron ==
    ASSUME TronInv, NEW r \in Fetch, Tron!Poll(r) \/ Tron!Answer(r)
    PROVE  TronInv'
<1>1. UNCHANGED <<now, events, confirmed, start, since, seen, handled, twice, restarts>>
  BY DEF Tron!Poll, Tron!Answer
<1>2. /\ now \in Nat /\ since \in Nat /\ confirmed \in Nat /\ events \subseteq Tron!Event
      /\ request \in [Fetch -> [st : {"free", "asked", "answered"}, since : Nat, page : SUBSET Tron!Event]]
  BY DEF TronInv, Tron!TypeOK
<1>3. PICK new \in [st : {"free", "asked", "answered"}, since : Nat, page : SUBSET Tron!Event] :
        /\ request' = [request EXCEPT ![r] = new]
        /\ new.since <= since
        /\ \A e \in new.page :
            /\ e \in events /\ Tron!Time(e) < confirmed /\ new.since <= Tron!Time(e)
            /\ \A f \in events : new.since <= Tron!Time(f) /\ Tron!Time(f) < Tron!Time(e) => f \in new.page
  <2>1. CASE Tron!Poll(r)
    <3> DEFINE x == [st |-> "asked", since |-> since, page |-> {}]
    <3>1. /\ x \in [st : {"free", "asked", "answered"}, since : Nat, page : SUBSET Tron!Event]
          /\ x.since <= since /\ x.page = {}
      BY <1>2
    <3>2. request' = [request EXCEPT ![r] = x]
      BY <2>1 DEF Tron!Poll
    <3> HIDE DEF x
    <3>3. QED
      BY <3>1, <3>2
  <2>2. CASE Tron!Answer(r)
    <3>1. PICK p \in Tron!Pages(request[r].since) :
            request' = [request EXCEPT ![r] = [st |-> "answered", since |-> request[r].since, page |-> p]]
      BY <2>2 DEF Tron!Answer
    <3>2. /\ p \subseteq Tron!Matching(request[r].since)
          /\ \A e \in p, f \in Tron!Matching(request[r].since) : Tron!Time(f) < Tron!Time(e) => f \in p
      BY DEF Tron!Pages
    <3>3. p \subseteq Tron!Event /\ request[r].since \in Nat /\ \A e \in events : Tron!Time(e) \in Nat
      BY <1>2, <3>2 DEF Tron!Matching, Tron!Event
    <3>4. \A e \in p : /\ e \in events /\ Tron!Time(e) < confirmed /\ request[r].since <= Tron!Time(e)
                       /\ \A f \in events : request[r].since <= Tron!Time(f) /\ Tron!Time(f) < Tron!Time(e) => f \in p
      BY <1>2, <3>2, <3>3 DEF Tron!Matching
    <3>5. request[r].since <= since
      BY <2>2 DEF Tron!Answer, TronInv, PagesAreWhole
    <3> DEFINE x == [st |-> "answered", since |-> request[r].since, page |-> p]
    <3>6. /\ x \in [st : {"free", "asked", "answered"}, since : Nat, page : SUBSET Tron!Event]
          /\ x.since = request[r].since /\ x.page = p
      BY <3>3
    <3>7. request' = [request EXCEPT ![r] = x]
      BY <3>1
    <3> HIDE DEF x
    <3>8. QED
      BY <3>4, <3>5, <3>6, <3>7
  <2>3. QED
    BY <2>1, <2>2
<1>4. Tron!TypeOK'
  BY <1>1, <1>2, <1>3 DEF TronInv, Tron!TypeOK
<1>5. EventsArePast' /\ Tron!NothingSkipped'
  BY <1>1 DEF TronInv, EventsArePast, Tron!NothingSkipped
<1>6. PagesAreWhole'
  <2>1. \A q \in Fetch : request'[q] = IF q = r THEN new ELSE request[q]
    BY <1>2, <1>3
  <2>2. QED
    BY <1>1, <1>3, <2>1 DEF TronInv, PagesAreWhole
<1>7. QED
  BY <1>4, <1>5, <1>6 DEF TronInv

\* Delivering an answer: whatever lies between the old cursor and the new one was on it.
LEMMA DeliverTron ==
    ASSUME TronInv, NEW r \in Fetch, Tron!Deliver(r)
    PROVE  TronInv'
<1> DEFINE new == request[r].page \ seen
<1>1. /\ request[r].st = "answered"
      /\ handled' = handled \cup new /\ twice' = twice \cup (handled \cap new)
      /\ seen' = {} \/ seen' = seen \cup new
      /\ request' = [request EXCEPT ![r] = Tron!Free]
      /\ UNCHANGED <<now, events, confirmed, start, restarts>>
  BY DEF Tron!Deliver
<1>2. Tron!MoveCursor(new)
  BY DEF Tron!Deliver
<1>3. /\ now \in Nat /\ confirmed \in 0 .. now /\ start \in 0 .. now /\ since \in start .. now
      /\ events \subseteq Tron!Event /\ seen \subseteq handled
      /\ request \in [Fetch -> [st : {"free", "asked", "answered"}, since : Nat, page : SUBSET Tron!Event]]
  BY DEF TronInv, Tron!TypeOK
<1>4. \A e \in events : Tron!Time(e) \in Nat
  BY <1>3 DEF Tron!Event
<1>5. /\ request[r].since <= since /\ request[r].since \in Nat
      /\ \A e \in request[r].page :
            /\ e \in events /\ Tron!Time(e) < confirmed
            /\ \A f \in events : request[r].since <= Tron!Time(f) /\ Tron!Time(f) < Tron!Time(e) => f \in request[r].page
  BY <1>1, <1>3 DEF TronInv, PagesAreWhole
<1>6. /\ since' \in Nat /\ since <= since' /\ since' <= now
      /\ since' = since \/ \E e \in new : since' = Tron!Time(e)
  BY <1>2, <1>3, <1>4, <1>5 DEF Tron!MoveCursor
<1>7. Tron!NothingSkipped'
  <2> SUFFICES ASSUME NEW f \in events, start <= Tron!Time(f), Tron!Time(f) < since'
               PROVE  f \in handled'
    BY <1>1 DEF Tron!NothingSkipped
  <2>1. CASE Tron!Time(f) < since
    BY <1>1, <2>1 DEF TronInv, Tron!NothingSkipped
  <2>2. CASE ~(Tron!Time(f) < since)
    <3>1. PICK e \in new : since' = Tron!Time(e)
      BY <1>6, <2>2
    <3>2. request[r].since <= Tron!Time(f)
      BY <1>3, <1>4, <1>5, <2>2
    <3>3. f \in request[r].page
      BY <1>5, <3>1, <3>2
    <3>4. QED
      BY <1>1, <1>3, <3>3
  <2>3. QED
    BY <2>1, <2>2
<1>8. Tron!TypeOK'
  <2>1. request' \in [Fetch -> [st : {"free", "asked", "answered"}, since : Nat, page : SUBSET Tron!Event]]
    BY <1>1, <1>3
  <2>2. since' \in start .. now
    BY <1>3, <1>6
  <2>3. handled' \subseteq events /\ twice' \subseteq handled' /\ seen' \subseteq handled'
    BY <1>1, <1>5 DEF TronInv, Tron!TypeOK
  <2>4. QED
    BY <1>1, <1>3, <2>1, <2>2, <2>3 DEF Tron!TypeOK
<1>9. EventsArePast'
  BY <1>1 DEF TronInv, EventsArePast
<1>10. PagesAreWhole'
  <2>1. \A q \in Fetch : q # r => request'[q] = request[q]
    BY <1>1, <1>3
  <2>2. request'[r].st = "free"
    BY <1>1, <1>3
  <2>3. \A q \in Fetch : request[q].since \in Nat
    BY <1>3
  <2>4. QED
    BY <1>1, <1>3, <1>6, <2>1, <2>2, <2>3 DEF TronInv, PagesAreWhole
<1>11. QED
  BY <1>7, <1>8, <1>9, <1>10 DEF TronInv

\* A failed request and a restart leave no request that could move the cursor.
LEMMA FailTron == ASSUME TronInv, Tron!Restart \/ (\E r \in Fetch : Tron!PollFails(r)) PROVE TronInv'
<1>1. CASE Tron!Restart
  <2>1. /\ start' = now /\ since' = now /\ seen' = {} /\ request' = [r \in Fetch |-> Tron!Free]
        /\ UNCHANGED <<now, events, confirmed, handled, twice>>
    BY <1>1 DEF Tron!Restart
  <2>2. Tron!TypeOK'
    BY <2>1 DEF TronInv, Tron!TypeOK
  <2>3. PagesAreWhole' /\ EventsArePast' /\ Tron!NothingSkipped'
    <3>1. \A e \in events : Tron!Time(e) \in Nat
      BY DEF TronInv, Tron!TypeOK, Tron!Event
    <3>2. now \in Nat
      BY DEF TronInv, Tron!TypeOK
    <3>3. QED
      BY <2>1, <3>1, <3>2 DEF TronInv, PagesAreWhole, EventsArePast, Tron!NothingSkipped
  <2>4. QED
    BY <2>2, <2>3 DEF TronInv
<1>2. ASSUME NEW r \in Fetch, Tron!PollFails(r) PROVE TronInv'
  <2>1. /\ request' = [request EXCEPT ![r] = Tron!Free]
        /\ UNCHANGED <<now, events, confirmed, start, since, seen, handled, twice, restarts>>
    BY <1>2 DEF Tron!PollFails
  <2>2. Tron!TypeOK'
    BY <2>1 DEF TronInv, Tron!TypeOK
  <2>3. PagesAreWhole'
    BY <2>1 DEF TronInv, Tron!TypeOK, PagesAreWhole
  <2>4. EventsArePast' /\ Tron!NothingSkipped'
    BY <2>1 DEF TronInv, EventsArePast, Tron!NothingSkipped
  <2>5. QED
    BY <2>2, <2>3, <2>4 DEF TronInv
<1>3. QED
  BY <1>1, <1>2

\* Every step keeps the invariant.
LEMMA KeepTron ==
    ASSUME Tron!TronAssumption PROVE TronInv /\ [Tron!Next]_Tron!vars => TronInv'
<1>1. ASSUME TronInv, UNCHANGED Tron!vars PROVE TronInv'
  BY <1>1 DEF Tron!vars, TronInv, Tron!TypeOK, PagesAreWhole, EventsArePast, Tron!NothingSkipped
<1>2. QED
  BY <1>1, BlockTron, ConfirmTron, AskAndAnswerTron, DeliverTron, FailTron DEF Tron!Next

\* The cursor of the TRON listener never passes an event that was not handed to its
\* handler (tron_listener.ts, pollEvent).
THEOREM CursorSkipsNothing ==
    ASSUME Tron!TronAssumption PROVE Tron!Spec => []Tron!NothingSkipped
<1>1. TronInv => Tron!NothingSkipped
  BY DEF TronInv
<1>2. QED
  BY InitTron, KeepTron, <1>1, PTL DEF Tron!Spec
----------------------------------------------------------------------------
(***************************************************************************)
(* Once only, while the dedupe keys hold every event: nothing is cleared,  *)
(* so what was handled since the start of the watch is still seen.         *)
(***************************************************************************)
Asked == \A r \in Fetch : request[r].st # "free" => start <= request[r].since

OnceTron ==
    /\ IsFiniteSet(events)
    /\ Asked
    /\ Cardinality(events) <= SeenLimit =>
        /\ \A e \in handled : start <= Tron!Time(e) => e \in seen
        /\ twice = {}

\* The events before a step are no more than after it.
LEMMA FewerBefore ==
    ASSUME Tron!TronAssumption, IsFiniteSet(events'), events \subseteq events', Cardinality(events') <= SeenLimit
    PROVE  Cardinality(events) <= SeenLimit
<1>1. Cardinality(events) <= Cardinality(events')
  BY FS_Subset
<1>2. Cardinality(events) \in Nat /\ Cardinality(events') \in Nat
  BY FS_Subset, FS_CardinalityType
<1>3. QED
  BY <1>1, <1>2, Tron!TronAssumption

\* A block adds finitely many events.
LEMMA BlockOnce == ASSUME Tron!TronAssumption, TronInv, OnceTron, Tron!Block PROVE OnceTron'
<1>1. PICK c \in 0 .. MaxPerBlock : events' = events \cup {<<now, n>> : n \in 1 .. c}
  BY DEF Tron!Block
<1>2. UNCHANGED <<start, seen, request, handled, twice>>
  BY DEF Tron!Block
<1>3. IsFiniteSet(events')
  <2>1. c \in Int /\ 1 \in Int
    BY Tron!TronAssumption
  <2>2. IsFiniteSet(1 .. c) /\ IsFiniteSet({now})
    <3>1. IsFiniteSet(1 .. c)
      BY <2>1, FS_Interval
    <3>2. QED
      BY <3>1, FS_Singleton
  <2>3. IsFiniteSet({now} \X (1 .. c))
    BY <2>2, FS_Product
  <2>4. events' = events \cup ({now} \X (1 .. c))
    BY <1>1
  <2>5. IsFiniteSet(events)
    BY DEF OnceTron
  <2>6. IsFiniteSet(events \cup ({now} \X (1 .. c)))
    BY <2>3, <2>5, FS_Union
  <2>7. QED
    BY <2>4, <2>6
<1>4. Cardinality(events') <= SeenLimit => Cardinality(events) <= SeenLimit
  BY <1>1, <1>3, FewerBefore
<1>5. QED
  BY <1>2, <1>3, <1>4 DEF OnceTron, Asked

\* What an answer holds that is not seen was not handled, and is seen from now on.
LEMMA DeliverOnce ==
    ASSUME Tron!TronAssumption, TronInv, OnceTron, NEW r \in Fetch, Tron!Deliver(r)
    PROVE  OnceTron'
<1> DEFINE new == request[r].page \ seen
<1>1. /\ request[r].st = "answered"
      /\ handled' = handled \cup new /\ twice' = twice \cup (handled \cap new)
      /\ seen' = IF Cardinality(seen \cup new) > SeenLimit THEN {} ELSE seen \cup new
      /\ request' = [request EXCEPT ![r] = Tron!Free]
      /\ UNCHANGED <<events, start>>
  BY TronCardinality DEF Tron!Deliver
<1>2. /\ start \in Nat /\ events \subseteq Tron!Event /\ seen \subseteq events
      /\ request \in [Fetch -> [st : {"free", "asked", "answered"}, since : Nat, page : SUBSET Tron!Event]]
  BY DEF TronInv, Tron!TypeOK
<1>3. \A e \in new : e \in events /\ start <= Tron!Time(e)
  <2>1. start <= request[r].since /\ request[r].since \in Nat
    BY <1>1, <1>2 DEF OnceTron, Asked
  <2>2. \A e \in new : e \in events /\ request[r].since <= Tron!Time(e)
    BY <1>1 DEF TronInv, PagesAreWhole
  <2>3. \A e \in events : Tron!Time(e) \in Nat
    BY <1>2 DEF Tron!Event
  <2>4. QED
    BY <1>2, <2>1, <2>2, <2>3
<1>4. Asked'
  BY <1>1, <1>2 DEF OnceTron, Asked
<1>5. ASSUME Cardinality(events) <= SeenLimit
      PROVE  (\A e \in handled' : start <= Tron!Time(e) => e \in seen') /\ twice' = {}
  <2>1. seen \cup new \subseteq events
    BY <1>2, <1>3
  <2>2. Cardinality(seen \cup new) <= Cardinality(events) /\ IsFiniteSet(seen \cup new)
    BY <2>1, FS_Subset DEF OnceTron
  <2>3. Cardinality(seen \cup new) \in Nat /\ Cardinality(events) \in Nat
    BY <2>2, FS_CardinalityType DEF OnceTron
  <2>4. ~(Cardinality(seen \cup new) > SeenLimit)
    BY <1>5, <2>2, <2>3, Tron!TronAssumption
  <2>5. seen' = seen \cup new
    BY <1>1, <2>4
  <2>6. (\A e \in handled : start <= Tron!Time(e) => e \in seen) /\ twice = {}
    BY <1>5 DEF OnceTron
  <2>7. handled \cap new = {}
    BY <1>3, <2>6
  <2>8. QED
    BY <1>1, <2>5, <2>6, <2>7
<1>6. QED
  BY <1>1, <1>4, <1>5 DEF OnceTron

\* A restart forgets the keys, but starts the watch after everything that was handled.
LEMMA RestartOnce == ASSUME TronInv, OnceTron, Tron!Restart PROVE OnceTron'
<1>1. /\ start' = now /\ request' = [r \in Fetch |-> Tron!Free]
      /\ UNCHANGED <<events, handled, twice>>
  BY DEF Tron!Restart
<1>2. now \in Nat /\ handled \subseteq events /\ \A e \in events : Tron!Time(e) \in Nat
  BY DEF TronInv, Tron!TypeOK, Tron!Event
<1>3. \A e \in handled : ~(start' <= Tron!Time(e))
  BY <1>1, <1>2 DEF TronInv, EventsArePast
<1>4. Asked'
  BY <1>1 DEF Asked
<1>5. QED
  BY <1>1, <1>3, <1>4 DEF OnceTron

\* The steps that hand nothing to the handler.
LEMMA QuietOnce ==
    ASSUME TronInv, OnceTron,
           Tron!Confirm \/ (\E r \in Fetch : Tron!Poll(r) \/ Tron!Answer(r) \/ Tron!PollFails(r)) \/ UNCHANGED Tron!vars
    PROVE  OnceTron'
<1>1. UNCHANGED <<events, start, seen, handled, twice>>
  BY DEF Tron!Confirm, Tron!Poll, Tron!Answer, Tron!PollFails, Tron!vars
<1>2. /\ start \in Nat /\ since \in start .. now
      /\ request \in [Fetch -> [st : {"free", "asked", "answered"}, since : Nat, page : SUBSET Tron!Event]]
  BY DEF TronInv, Tron!TypeOK
<1>3. Asked'
  <2>1. CASE request' = request
    BY <1>1, <2>1 DEF OnceTron, Asked
  <2>2. ASSUME NEW r \in Fetch, Tron!Poll(r) \/ Tron!Answer(r) \/ Tron!PollFails(r) PROVE Asked'
    <3>1. /\ \A q \in Fetch : q # r => request'[q] = request[q]
          /\ request'[r].st # "free" =>
                request'[r].since = since \/ (request[r].st # "free" /\ request'[r].since = request[r].since)
      BY <1>2, <2>2 DEF Tron!Poll, Tron!Answer, Tron!PollFails
    <3>2. QED
      BY <1>1, <1>2, <3>1 DEF OnceTron, Asked
  <2>3. QED
    BY <2>1, <2>2 DEF Tron!Confirm, Tron!vars
<1>4. QED
  BY <1>1, <1>3 DEF OnceTron

\* The TRON listener hands no event to its handler twice, however many requests overlap
\* and in whatever order they are answered, as long as the dedupe keys have room for every
\* event of the contract (tron_listener.ts, pollEvent).
THEOREM HandledAtMostOnce ==
    ASSUME Tron!TronAssumption
    PROVE  Tron!Spec => [](Cardinality(events) <= SeenLimit => Tron!HandledOnce)
<1>1. Tron!Init => OnceTron
  <2>1. IsFiniteSet({})
    BY FS_EmptySet
  <2>2. QED
    BY <2>1 DEF Tron!Init, OnceTron, Asked
<1>2. TronInv /\ OnceTron /\ [Tron!Next]_Tron!vars => OnceTron'
  BY BlockOnce, DeliverOnce, RestartOnce, QuietOnce DEF Tron!Next
<1>3. OnceTron => (Cardinality(events) <= SeenLimit => Tron!HandledOnce)
  BY DEF OnceTron, Tron!HandledOnce
<1>4. QED
  BY InitTron, KeepTron, <1>1, <1>2, <1>3, PTL DEF Tron!Spec
===============================================================================
