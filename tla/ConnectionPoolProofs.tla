------------------------ MODULE ConnectionPoolProofs ------------------------
(***************************************************************************)
(* The connection pool for every number of clients and connections.        *)
(***************************************************************************)
EXTENDS ConnectionPool, SequenceTheorems, FiniteSetTheorems, FunctionTheorems, TLAPS

---------------------------------------------------------------------------
(* Sequences without repetitions.                                          *)

Distinct(s) == \A i, j \in DOMAIN s : s[i] = s[j] => i = j

\* An item put at the end.
LEMMA AppendDistinct ==
  ASSUME NEW S, NEW s \in Seq(S), NEW e \in S, Distinct(s), e \notin Elements(s)
  PROVE  /\ Append(s, e) \in Seq(S) /\ Distinct(Append(s, e))
         /\ Elements(Append(s, e)) = Elements(s) \cup {e}
         /\ Len(Append(s, e)) = Len(s) + 1
  BY DEF Distinct, Elements

\* The first item taken out.
LEMMA TailDistinct ==
  ASSUME NEW S, NEW s \in Seq(S), s # <<>>, Distinct(s)
  PROVE  /\ Head(s) \in Elements(s) /\ Head(s) \in S
         /\ Tail(s) \in Seq(S) /\ Distinct(Tail(s))
         /\ Elements(Tail(s)) = Elements(s) \ {Head(s)}
         /\ Len(Tail(s)) = Len(s) - 1
  <1>1. /\ Tail(s) \in Seq(S) /\ Len(Tail(s)) = Len(s) - 1 /\ Len(s) >= 1
        /\ Head(s) = s[1] /\ Head(s) \in S
        /\ \A i \in 1..Len(Tail(s)) : Tail(s)[i] = s[i + 1]
    OBVIOUS
  <1>2. Distinct(Tail(s))
    BY <1>1 DEF Distinct
  <1>3. Elements(Tail(s)) \subseteq Elements(s) \ {Head(s)}
    BY <1>1 DEF Distinct, Elements
  <1>4. Elements(s) \ {Head(s)} \subseteq Elements(Tail(s))
    <2> SUFFICES ASSUME NEW i \in DOMAIN s, s[i] # Head(s)
                 PROVE  s[i] \in Elements(Tail(s))
      BY DEF Elements
    <2>1. i \in 2..Len(s)
      BY <1>1
    <2>2. i - 1 \in DOMAIN Tail(s) /\ Tail(s)[i - 1] = s[i]
      BY <2>1, <1>1
    <2>3. QED
      BY <2>2 DEF Elements
  <1>5. Head(s) \in Elements(s)
    BY <1>1 DEF Elements
  <1>6. QED
    BY <1>1, <1>2, <1>3, <1>4, <1>5

\* Sequences that have nothing in common, one behind the other.
LEMMA ConcatDistinct ==
  ASSUME NEW S, NEW s \in Seq(S), NEW t \in Seq(S), Distinct(s), Distinct(t),
         Elements(s) \cap Elements(t) = {}
  PROVE  /\ s \o t \in Seq(S) /\ Distinct(s \o t)
         /\ Elements(s \o t) = Elements(s) \cup Elements(t)
         /\ Len(s \o t) = Len(s) + Len(t)
  <1>1. /\ s \o t \in Seq(S) /\ Len(s \o t) = Len(s) + Len(t)
        /\ \A i \in 1..Len(s) : (s \o t)[i] = s[i]
        /\ \A i \in 1..Len(t) : (s \o t)[Len(s) + i] = t[i]
        /\ \A i \in 1..Len(s \o t) : (s \o t)[i] = IF i <= Len(s) THEN s[i] ELSE t[i - Len(s)]
    BY ConcatProperties
  <1>2. \A i \in 1..Len(s), j \in 1..Len(t) : s[i] # t[j]
    BY DEF Elements
  <1>3. Distinct(s \o t)
    <2> SUFFICES ASSUME NEW i \in 1..Len(s \o t), NEW j \in 1..Len(s \o t), (s \o t)[i] = (s \o t)[j]
                 PROVE  i = j
      BY <1>1 DEF Distinct
    <2>1. CASE i <= Len(s) /\ j <= Len(s)
      BY <2>1, <1>1 DEF Distinct
    <2>2. CASE i <= Len(s) /\ j > Len(s)
      BY <2>2, <1>1, <1>2
    <2>3. CASE i > Len(s) /\ j <= Len(s)
      BY <2>3, <1>1, <1>2
    <2>4. CASE i > Len(s) /\ j > Len(s)
      <3>1. t[i - Len(s)] = t[j - Len(s)] /\ i - Len(s) \in 1..Len(t) /\ j - Len(s) \in 1..Len(t)
        BY <2>4, <1>1
      <3>2. i - Len(s) = j - Len(s)
        BY <3>1 DEF Distinct
      <3>3. QED
        BY <3>2, <1>1
    <2>5. QED
      BY <2>1, <2>2, <2>3, <2>4, <1>1
  <1>4. Elements(s \o t) = Elements(s) \cup Elements(t)
    <2>1. Elements(s \o t) \subseteq Elements(s) \cup Elements(t)
      BY <1>1 DEF Elements
    <2>2. Elements(s) \subseteq Elements(s \o t)
      BY <1>1 DEF Elements
    <2>3. Elements(t) \subseteq Elements(s \o t)
      <3> SUFFICES ASSUME NEW i \in 1..Len(t) PROVE t[i] \in Elements(s \o t)
        BY SMTT(30) DEF Elements
      <3>1. Len(s) + i \in DOMAIN (s \o t)
        BY <1>1
      <3>2. QED
        BY <3>1, <1>1 DEF Elements
    <2>4. QED
      BY <2>1, <2>2, <2>3
  <1>5. QED
    BY <1>1, <1>3, <1>4

\* The items from one place on.
LEMMA RestDistinct ==
  ASSUME NEW S, NEW s \in Seq(S), Distinct(s), NEW m \in 1..Len(s) + 1
  PROVE  /\ SubSeq(s, m, Len(s)) \in Seq(S) /\ Distinct(SubSeq(s, m, Len(s)))
         /\ Len(SubSeq(s, m, Len(s))) = Len(s) - m + 1
         /\ Elements(SubSeq(s, m, Len(s))) = {s[i] : i \in m..Len(s)}
  <1> DEFINE r == SubSeq(s, m, Len(s))
  <1>1. /\ r \in Seq(S) /\ Len(r) = Len(s) - m + 1
        /\ \A i \in 1..Len(s) - m + 1 : r[i] = s[m + i - 1]
    BY SubSeqProperties
  <1> HIDE DEF r
  <1>2. Distinct(r)
    BY <1>1, SMTT(30) DEF Distinct
  <1>3. Elements(r) \subseteq {s[i] : i \in m..Len(s)}
    <2> SUFFICES ASSUME NEW i \in 1..Len(r) PROVE r[i] \in {s[k] : k \in m..Len(s)}
      BY <1>1 DEF Elements
    <2>1. m + i - 1 \in m..Len(s) /\ r[i] = s[m + i - 1]
      BY <1>1
    <2>2. QED
      BY <2>1
  <1>4. {s[i] : i \in m..Len(s)} \subseteq Elements(r)
    <2> SUFFICES ASSUME NEW i \in m..Len(s) PROVE s[i] \in Elements(r)
      OBVIOUS
    <2>1. i - m + 1 \in DOMAIN r /\ r[i - m + 1] = s[i]
      BY <1>1
    <2>2. QED
      BY <2>1 DEF Elements
  <1>5. QED
    BY <1>1, <1>2, <1>3, <1>4 DEF r

\* One item taken out.
LEMMA RemoveDistinct ==
  ASSUME NEW S, NEW s \in Seq(S), Distinct(s), NEW i \in 1..Len(s)
  PROVE  LET r == SubSeq(s, 1, i - 1) \o SubSeq(s, i + 1, Len(s))
         IN r \in Seq(S) /\ Distinct(r) /\ Elements(r) = Elements(s) \ {s[i]} /\ Len(r) = Len(s) - 1
  <1> DEFINE a == SubSeq(s, 1, i - 1)
             b == SubSeq(s, i + 1, Len(s))
  <1>1. /\ a \in Seq(S) /\ Len(a) = i - 1 /\ \A k \in 1..i - 1 : a[k] = s[k]
    BY SubSeqProperties
  <1>2. /\ b \in Seq(S) /\ Distinct(b) /\ Len(b) = Len(s) - i
        /\ Elements(b) = {s[k] : k \in i + 1..Len(s)}
    BY RestDistinct
  <1> HIDE DEF a, b
  <1>3. Distinct(a) /\ Elements(a) = {s[k] : k \in 1..i - 1}
    BY <1>1 DEF Distinct, Elements
  <1>4. Elements(a) \cap Elements(b) = {}
    BY <1>2, <1>3 DEF Distinct
  <1>5. /\ a \o b \in Seq(S) /\ Distinct(a \o b) /\ Len(a \o b) = Len(a) + Len(b)
        /\ Elements(a \o b) = Elements(a) \cup Elements(b)
    <2>1. a \in Seq(S) /\ b \in Seq(S) /\ Distinct(a) /\ Distinct(b)
      BY <1>1, <1>2, <1>3
    <2>2. QED
      BY <2>1, <1>4, ConcatDistinct
  <1>6. Len(a \o b) = Len(s) - 1
    BY <1>1, <1>2, <1>5
  <1>7. Elements(a) \cup Elements(b) = Elements(s) \ {s[i]}
    <2>1. 1..Len(s) = 1..i - 1 \cup {i} \cup i + 1..Len(s)
      OBVIOUS
    <2>2. Elements(s) = Elements(a) \cup {s[i]} \cup Elements(b)
      <3>1. Elements(s) = {s[k] : k \in 1..Len(s)}
        BY DEF Elements
      <3>2. QED
        BY <3>1, <2>1, <1>2, <1>3
    <2>3. s[i] \notin Elements(a) \cup Elements(b)
      BY <1>2, <1>3, SMTT(30) DEF Distinct
    <2>4. QED
      BY <2>2, <2>3
  <1>8. QED
    BY <1>5, <1>6, <1>7, Zenon DEF a, b

\* As many different items as there are places.
LEMMA CountDistinct ==
  ASSUME NEW S, NEW s \in Seq(S), Distinct(s), NEW n \in 0..Len(s)
  PROVE  /\ IsFiniteSet({s[i] : i \in 1..n})
         /\ Cardinality({s[i] : i \in 1..n}) = n
  <1> DEFINE T == {s[i] : i \in 1..n}
             f == [i \in 1..n |-> s[i]]
  <1>1. f \in Bijection(1..n, T)
    BY DEF Bijection, Injection, Surjection, IsInjective, Distinct
  <1>2. ExistsBijection(1..n, T)
    BY <1>1 DEF ExistsBijection
  <1>3. IsFiniteSet(1..n) /\ Cardinality(1..n) = n
    BY FS_Interval
  <1>4. IsFiniteSet(T) /\ Cardinality(T) = Cardinality(1..n)
    BY <1>2, <1>3, FS_Bijection, Zenon
  <1>5. QED
    BY <1>3, <1>4

---------------------------------------------------------------------------
(* The inductive invariant.                                                *)

\* Where the connections are.  Those of a number higher than created are still to come.
Placed ==
  /\ created \in 0..MaxCreated
  /\ connections \subseteq 1..created
  /\ available \in Seq(1..MaxCreated) /\ Elements(available) \subseteq 1..created
  /\ held \in [Clients -> 1..created \cup {NoConnection}]
  /\ Distinct(available)
  /\ \A c, d \in Clients : held[c] = held[d] /\ held[c] # NoConnection => c = d
  /\ \A c \in Clients : held[c] \notin Elements(available)
  /\ NothingLost

\* Who waits: each client once, asleep or woken, and without a connection.
Queued ==
  /\ getters \in Seq(Clients) /\ Distinct(getters)
  /\ woken \subseteq Clients
  /\ Elements(getters) \cap woken = {}
  /\ \A c \in Elements(getters) \cup woken : held[c] = NoConnection

IndInv ==
  /\ initialized \in BOOLEAN
  /\ Placed /\ Queued /\ NoLostWakeup /\ LimitOvershoot

\* A pool that was just made has no connection and no waiter.
LEMMA InitIndInv ==
  ASSUME PoolAssumption, Init
  PROVE  IndInv
  <1>1. initialized \in BOOLEAN
    BY Zenon DEF Init
  <1>2. Elements(<<>>) = {} /\ Distinct(<<>>)
    BY DEF Elements, Distinct
  <1>3. Placed
    BY <1>2 DEF Init, Placed, PoolAssumption, NothingLost
  <1>4. Queued
    BY <1>2 DEF Init, Queued
  <1>5. NoLostWakeup
    BY DEF Init, NoLostWakeup
  <1>6. LimitOvershoot
    <2>1. Cardinality(connections) = 0
      BY FS_EmptySet DEF Init
    <2>2. ~initialized
      BY Zenon DEF Init
    <2>3. QED
      BY <2>1, <2>2 DEF LimitOvershoot, PoolAssumption
  <1>7. QED
    BY <1>1, <1>3, <1>4, <1>5, <1>6 DEF IndInv

\* Sets of clients are finite.
LEMMA ClientsFinite ==
  ASSUME PoolAssumption, NEW S \in SUBSET Clients
  PROVE  IsFiniteSet(S) /\ Cardinality(S) \in Nat
  BY FS_Subset, FS_CardinalityType DEF PoolAssumption

\* Items wake as many getters, as long as there are any.
LEMMA WakeUps ==
  ASSUME PoolAssumption, Queued, NEW n \in Nat
  PROVE  /\ StillWaiting(n) \in Seq(Clients) /\ Distinct(StillWaiting(n))
         /\ NowWoken(n) \subseteq Clients
         /\ Elements(StillWaiting(n)) \cap NowWoken(n) = {}
         /\ Elements(StillWaiting(n)) \cup NowWoken(n) = Elements(getters) \cup woken
         /\ StillWaiting(n) # <<>> =>
              getters # <<>> /\ Cardinality(NowWoken(n)) = Cardinality(woken) + n
  <1> DEFINE k == Wakes(n)
             now == {getters[i] : i \in 1..k}
  <1>1. getters \in Seq(Clients) /\ Distinct(getters) /\ Len(getters) \in Nat
    BY DEF Queued
  <1>2. k \in 0..Len(getters) /\ k + 1 \in 1..Len(getters) + 1
    BY <1>1 DEF Wakes
  <1>3. k < Len(getters) => k = n
    BY <1>1 DEF Wakes
  <1> HIDE DEF k
  <1>4. /\ StillWaiting(n) \in Seq(Clients) /\ Distinct(StillWaiting(n))
        /\ Len(StillWaiting(n)) = Len(getters) - k
        /\ Elements(StillWaiting(n)) = {getters[i] : i \in k + 1..Len(getters)}
    <2>1. /\ StillWaiting(n) \in Seq(Clients) /\ Distinct(StillWaiting(n))
          /\ Len(StillWaiting(n)) = Len(getters) - (k + 1) + 1
          /\ Elements(StillWaiting(n)) = {getters[i] : i \in k + 1..Len(getters)}
      BY <1>1, <1>2, RestDistinct DEF StillWaiting, k
    <2>2. QED
      BY <2>1, <1>1, <1>2
  <1>5. now \subseteq Elements(getters) /\ Elements(getters) \subseteq Clients
    BY <1>1, <1>2 DEF Elements
  <1>6. Elements(StillWaiting(n)) \cap now = {}
    BY <1>1, <1>2, <1>4 DEF Distinct
  <1>7. Elements(StillWaiting(n)) \cup now = Elements(getters)
    <2>1. 1..Len(getters) = 1..k \cup k + 1..Len(getters)
      BY <1>1, <1>2
    <2>2. Elements(getters) = {getters[i] : i \in 1..Len(getters)}
      BY <1>1 DEF Elements
    <2>3. QED
      BY <2>1, <2>2, <1>4
  <1>8. IsFiniteSet(now) /\ Cardinality(now) = k
    BY <1>1, <1>2, CountDistinct
  <1>9. NowWoken(n) = woken \cup now
    BY DEF NowWoken, k
  <1> HIDE DEF now
  <1>10. Elements(getters) \cap woken = {} /\ woken \subseteq Clients
    BY DEF Queued
  <1>11. Cardinality(woken \cup now) = Cardinality(woken) + k
    <2>1. IsFiniteSet(woken) /\ Cardinality(woken) \in Nat
      BY <1>10, ClientsFinite
    <2>2. woken \cap now = {}
      BY <1>5, <1>10
    <2>3. Cardinality(woken \cup now) = Cardinality(woken) + Cardinality(now) - Cardinality({})
      BY <2>1, <2>2, <1>8, FS_Union
    <2>4. QED
      BY <2>1, <2>3, <1>8, <1>2, FS_EmptySet
  <1>12. StillWaiting(n) # <<>> => getters # <<>> /\ k = n
    BY <1>1, <1>2, <1>3, <1>4
  <1>13. QED
    BY <1>4, <1>5, <1>6, <1>7, <1>9, <1>10, <1>11, <1>12

---------------------------------------------------------------------------
(* Who waits, after each action.                                           *)

\* A client that leaves the queue is gone from it, and an item it was woken for wakes
\* another client.
LEMMA LeaveKeepsQueue ==
  ASSUME PoolAssumption, Queued, NoLostWakeup, available \in Seq(1..MaxCreated),
         NEW c \in Clients, Leave(c)
  PROVE  /\ getters' \in Seq(Clients) /\ Distinct(getters')
         /\ woken' \subseteq Clients /\ Elements(getters') \cap woken' = {}
         /\ Elements(getters') \cup woken' = (Elements(getters) \cup woken) \ {c}
         /\ getters' # <<>> => Len(available) <= Cardinality(woken')
  <1>1. /\ getters \in Seq(Clients) /\ Distinct(getters) /\ woken \subseteq Clients
        /\ Elements(getters) \cap woken = {}
    BY DEF Queued
  <1>2. IsFiniteSet(woken) /\ Cardinality(woken) \in Nat /\ Len(available) \in Nat
    BY <1>1, ClientsFinite
  <1>3. CASE c \in woken /\ getters' = StillWaiting(1) /\ woken' = NowWoken(1) \ {c}
    <2>1. /\ StillWaiting(1) \in Seq(Clients) /\ Distinct(StillWaiting(1))
          /\ NowWoken(1) \subseteq Clients
          /\ Elements(StillWaiting(1)) \cap NowWoken(1) = {}
          /\ Elements(StillWaiting(1)) \cup NowWoken(1) = Elements(getters) \cup woken
          /\ StillWaiting(1) # <<>> =>
               getters # <<>> /\ Cardinality(NowWoken(1)) = Cardinality(woken) + 1
      BY WakeUps
    <2>2. c \in NowWoken(1)
      BY <1>3 DEF NowWoken
    <2>3. IsFiniteSet(NowWoken(1)) /\ Cardinality(NowWoken(1)) \in Nat
      BY <2>1, ClientsFinite
    <2>4. Cardinality(NowWoken(1) \ {c}) = Cardinality(NowWoken(1)) - 1
      BY <2>2, <2>3, FS_RemoveElement
    <2>5. ASSUME getters' # <<>> PROVE Len(available) <= Cardinality(woken')
      <3>1. Cardinality(woken') = Cardinality(woken) /\ getters # <<>>
        BY <1>2, <1>3, <2>1, <2>4, <2>5
      <3>2. QED
        BY <3>1, <1>2 DEF NoLostWakeup
    <2>6. QED
      BY <1>3, <2>1, <2>2, <2>5
  <1>4. CASE c \in woken /\ available = <<>> /\ woken' = woken \ {c} /\ getters' = getters
    <2>1. Cardinality(woken') \in Nat
      BY <1>1, <1>4, ClientsFinite
    <2>2. Len(available) = 0
      BY <1>4
    <2>3. QED
      BY <1>1, <1>4, <2>1, <2>2
  <1>5. ASSUME NEW i \in DOMAIN getters, getters[i] = c, woken' = woken,
               getters' = SubSeq(getters, 1, i - 1) \o SubSeq(getters, i + 1, Len(getters))
        PROVE  /\ getters' \in Seq(Clients) /\ Distinct(getters')
               /\ woken' \subseteq Clients /\ Elements(getters') \cap woken' = {}
               /\ Elements(getters') \cup woken' = (Elements(getters) \cup woken) \ {c}
               /\ getters' # <<>> => Len(available) <= Cardinality(woken')
    <2>1. i \in 1..Len(getters) /\ getters # <<>>
      BY <1>1
    <2>2. /\ getters' \in Seq(Clients) /\ Distinct(getters')
          /\ Elements(getters') = Elements(getters) \ {c}
      BY <1>1, <1>5, <2>1, RemoveDistinct
    <2>3. c \in Elements(getters)
      BY <1>5 DEF Elements
    <2>4. Len(available) <= Cardinality(woken')
      BY <1>5, <2>1 DEF NoLostWakeup
    <2>5. QED
      BY <1>1, <1>5, <2>2, <2>3, <2>4
  <1>6. QED
    BY <1>3, <1>4, <1>5 DEF Leave

---------------------------------------------------------------------------
(* Where the connections are, after each action.                           *)

\* The connections that initialize creates are new ones.
LEMMA InitialItems ==
  ASSUME PoolAssumption, initialized \in BOOLEAN, Placed, created + Len(Initial) <= MaxCreated
  PROVE  /\ Len(Initial) \in Nat
         /\ Len(Initial) = IF initialized THEN 0 ELSE MinConnections
         /\ Initial \in Seq(1..MaxCreated) /\ Distinct(Initial)
         /\ Elements(Initial) = created + 1..created + Len(Initial)
         /\ available \o Initial \in Seq(1..MaxCreated) /\ Distinct(available \o Initial)
         /\ Elements(available \o Initial) = Elements(available) \cup Elements(Initial)
         /\ Len(available \o Initial) = Len(available) + Len(Initial)
  <1>1. created \in 0..MaxCreated /\ MinConnections \in Nat /\ MaxCreated \in Nat
    BY DEF Placed, PoolAssumption
  <1>2. /\ Len(Initial) \in Nat
        /\ Len(Initial) = IF initialized THEN 0 ELSE MinConnections
        /\ Initial = [i \in 1..Len(Initial) |-> created + i]
    <2>1. CASE initialized
      <3>1. Initial = <<>>
        BY <2>1, Zenon DEF Initial
      <3>2. Len(Initial) = 0 /\ <<>> = [i \in 1..0 |-> created + i]
        BY <3>1
      <3>3. QED
        BY <2>1, <3>1, <3>2
    <2>2. CASE ~initialized
      <3>1. Initial = [i \in 1..MinConnections |-> created + i]
        BY <2>2, Zenon DEF Initial
      <3>2. Len(Initial) = MinConnections
        BY <3>1, <1>1
      <3>3. QED
        BY <2>2, <3>1, <3>2, <1>1
    <2>3. QED
      BY <2>1, <2>2
  <1> DEFINE s == Initial
             n == Len(Initial)
  <1>3. /\ n \in Nat /\ created + n <= MaxCreated
        /\ s = [i \in 1..n |-> created + i]
    BY <1>2
  <1>4. s \in Seq(1..MaxCreated) /\ DOMAIN s = 1..n /\ \A i \in 1..n : s[i] = created + i
    <2> HIDE DEF s, n
    <2>1. s \in [1..n -> 1..MaxCreated]
      BY <1>1, <1>3
    <2>2. QED
      BY <2>1, <1>3
  <1> HIDE DEF s, n
  <1>5. Distinct(s)
    BY <1>1, <1>3, <1>4 DEF Distinct
  <1>6. Elements(s) = created + 1..created + n
    <2>1. Elements(s) \subseteq created + 1..created + n
      BY <1>1, <1>3, <1>4 DEF Elements
    <2>2. ASSUME NEW x \in created + 1..created + n PROVE x \in Elements(s)
      <3>1. x - created \in 1..n /\ s[x - created] = x
        BY <1>1, <1>3, <1>4, <2>2
      <3>2. QED
        BY <3>1, <1>4 DEF Elements
    <2>3. QED
      BY <2>1, <2>2
  <1>7. /\ available \in Seq(1..MaxCreated) /\ Distinct(available)
        /\ Elements(available) \subseteq 1..created
    BY DEF Placed
  <1>8. Elements(available) \cap Elements(s) = {}
    <2>1. ASSUME NEW x \in 1..created, x \in created + 1..created + n PROVE FALSE
      BY <1>1, <1>3, <2>1
    <2>2. QED
      BY <1>6, <1>7, <2>1, Zenon
  <1>9. /\ available \o s \in Seq(1..MaxCreated) /\ Distinct(available \o s)
        /\ Elements(available \o s) = Elements(available) \cup Elements(s)
        /\ Len(available \o s) = Len(available) + Len(s)
    BY <1>4, <1>5, <1>7, <1>8, ConcatDistinct
  <1>10. QED
    BY <1>2, <1>4, <1>5, <1>6, <1>9 DEF s, n

\* A client that has none is given the first of the available connections, a.
LEMMA HandOut ==
  ASSUME PoolAssumption,
         NEW a \in Seq(1..MaxCreated), Distinct(a), a # <<>>,
         created \in 0..MaxCreated, created' \in created..MaxCreated,
         connections' \subseteq 1..created', Elements(a) \subseteq 1..created',
         held \in [Clients -> 1..created \cup {NoConnection}],
         \A b, d \in Clients : held[b] = held[d] /\ held[b] # NoConnection => b = d,
         \A d \in Clients : held[d] \notin Elements(a),
         connections' \subseteq Elements(a) \cup {held[d] : d \in Clients},
         NEW c \in Clients, held[c] = NoConnection,
         held' = [held EXCEPT ![c] = Head(a)], available' = Tail(a)
  PROVE  Placed'
  <1>1. /\ Head(a) \in Elements(a) /\ Head(a) \in 1..MaxCreated
        /\ Tail(a) \in Seq(1..MaxCreated) /\ Distinct(Tail(a))
        /\ Elements(Tail(a)) = Elements(a) \ {Head(a)}
    BY TailDistinct
  <1>2. /\ held'[c] = Head(a)
        /\ \A d \in Clients \ {c} : held'[d] = held[d]
    OBVIOUS
  <1>3. NoConnection \notin 1..MaxCreated /\ MaxCreated \in Nat
    BY DEF PoolAssumption
  <1>4. 1..created \subseteq 1..created' /\ Head(a) \in 1..created'
    BY <1>1
  <1>5. held' \in [Clients -> 1..created' \cup {NoConnection}]
    BY <1>4
  <1>6. \A b, d \in Clients : held'[b] = held'[d] /\ held'[b] # NoConnection => b = d
    BY <1>1, <1>2
  <1>7. \A d \in Clients : held'[d] \notin Elements(available')
    BY <1>1, <1>2
  <1>8. NothingLost'
    <2> SUFFICES ASSUME NEW x \in connections', x \notin Elements(available')
                 PROVE  \E d \in Clients : x = held'[d]
      BY DEF NothingLost
    <2>1. CASE x = Head(a)
      BY <2>1, <1>2
    <2>2. CASE x # Head(a)
      <3>1. PICK d \in Clients : x = held[d]
        BY <2>2, <1>1
      <3>2. x \in 1..MaxCreated
        BY <1>3
      <3>3. d # c
        BY <3>1, <3>2, <1>3
      <3>4. QED
        BY <3>1, <3>3, <1>2
    <2>3. QED
      BY <2>1, <2>2
  <1>9. created' \in 0..MaxCreated
    OBVIOUS
  <1>10. available' \in Seq(1..MaxCreated) /\ Elements(available') \subseteq 1..created' /\ Distinct(available')
    BY <1>1
  <1>11. QED
    BY <1>5, <1>6, <1>7, <1>8, <1>9, <1>10 DEF Placed

---------------------------------------------------------------------------
(* Each action keeps the invariant.                                        *)

\* The limit, when initialize is part of the action.
LEMMA EnterKeepsLimit ==
  ASSUME PoolAssumption, IndInv, NEW c \in Clients, Enter(c)
  PROVE  LimitOvershoot'
  <1>1. /\ Placed /\ LimitOvershoot /\ initialized \in BOOLEAN
        /\ created + Len(Initial) <= MaxCreated
    BY Zenon DEF IndInv, Enter
  <1>2. /\ MinConnections \in Nat /\ MaxConnections \in Nat
        /\ created \in Nat /\ connections \subseteq 1..created
    BY <1>1 DEF Placed, PoolAssumption
  <1>3. connections' = connections \cup Elements(Initial)
    BY DEF Enter
  <1>4. initialized'
    BY Zenon DEF Enter
  <1>5. /\ Len(Initial) \in Nat /\ Len(Initial) = IF initialized THEN 0 ELSE MinConnections
        /\ Elements(Initial) = created + 1..created + Len(Initial)
    BY <1>1, InitialItems
  <1>6. IsFiniteSet(connections) /\ Cardinality(connections) \in Nat
    <2>1. IsFiniteSet(1..created)
      BY <1>2, FS_Interval
    <2>2. QED
      BY <2>1, <1>2, FS_Subset, FS_CardinalityType, Zenon
  <1>7. IsFiniteSet(Elements(Initial)) /\ Cardinality(Elements(Initial)) = Len(Initial)
    <2>1. /\ IsFiniteSet(created + 1..created + Len(Initial))
          /\ Cardinality(created + 1..created + Len(Initial)) =
               IF created + 1 > created + Len(Initial)
                 THEN 0 ELSE created + Len(Initial) - (created + 1) + 1
      BY <1>2, <1>5, FS_Interval
    <2>2. QED
      BY <2>1, <1>2, <1>5
  <1>8. Cardinality(connections') <= Cardinality(connections) + Len(Initial)
    <2>1. Cardinality(connections') =
            Cardinality(connections) + Len(Initial) - Cardinality(connections \cap Elements(Initial))
      BY <1>3, <1>6, <1>7, FS_Union
    <2>2. Cardinality(connections \cap Elements(Initial)) \in Nat
      BY <1>6, FS_Intersection, FS_CardinalityType
    <2>3. Cardinality(connections') \in Int
      BY <2>1, <2>2, <1>5, <1>6
    <2>4. QED
      BY <2>1, <2>2, <2>3, <1>5, <1>6
  <1>9. Cardinality(connections') \in Nat
    BY <1>3, <1>6, <1>7, FS_Union, FS_CardinalityType
  <1>10. Cardinality(connections) + Len(Initial) <= MaxConnections + MinConnections
    <2>1. CASE initialized
      BY <2>1, <1>1, <1>2, <1>5, <1>6 DEF LimitOvershoot
    <2>2. CASE ~initialized
      BY <2>2, <1>1, <1>2, <1>5, <1>6 DEF LimitOvershoot
    <2>3. QED
      BY <2>1, <2>2
  <1>11. Cardinality(connections') <= MaxConnections + MinConnections
    BY <1>2, <1>5, <1>6, <1>8, <1>9, <1>10
  <1>12. QED
    BY <1>4, <1>11 DEF LimitOvershoot

\* get_connection finds a connection.
LEMMA AcquireKeeps ==
  ASSUME PoolAssumption, IndInv, NEW c \in Clients, Acquire(c)
  PROVE  IndInv'
  <1> DEFINE a == available \o Initial
             n == Len(Initial)
  <1>1. /\ Placed /\ Queued /\ NoLostWakeup /\ initialized \in BOOLEAN
        /\ created + n <= MaxCreated /\ Enter(c)
    BY Zenon DEF IndInv, Acquire, Enter
  <1>2. /\ a # <<>> /\ held' = [held EXCEPT ![c] = Head(a)] /\ available' = Tail(a)
        /\ getters' = StillWaiting(n)
    BY DEF Acquire
  <1>3. /\ created' = created + n /\ connections' = connections \cup Elements(Initial)
        /\ woken' = NowWoken(n) /\ Idle(c)
    BY DEF Acquire, Enter
  <1>4. /\ n \in Nat /\ Elements(Initial) = created + 1..created + n
        /\ a \in Seq(1..MaxCreated) /\ Distinct(a)
        /\ Elements(a) = Elements(available) \cup Elements(Initial)
        /\ Len(a) = Len(available) + n
    BY <1>1, InitialItems
  <1> HIDE DEF a, n
  <1>5. /\ created \in 0..MaxCreated /\ MaxCreated \in Nat /\ NoConnection \notin 1..MaxCreated
        /\ connections \subseteq 1..created /\ available \in Seq(1..MaxCreated)
        /\ Elements(available) \subseteq 1..created
        /\ held \in [Clients -> 1..created \cup {NoConnection}]
        /\ \A b, d \in Clients : held[b] = held[d] /\ held[b] # NoConnection => b = d
        /\ \A d \in Clients : held[d] \notin Elements(available)
        /\ connections \subseteq Elements(available) \cup {held[d] : d \in Clients}
    BY <1>1 DEF Placed, NothingLost, PoolAssumption
  <1>6. Placed'
    <2>1. created' \in created..MaxCreated
      BY <1>1, <1>3, <1>4, <1>5 DEF n
    <2>2. connections' \subseteq 1..created' /\ Elements(a) \subseteq 1..created'
      <3>1. /\ 1..created \subseteq 1..created + n
            /\ created + 1..created + n \subseteq 1..created + n
        BY <1>4, <1>5
      <3>2. QED
        BY <3>1, <1>3, <1>4, <1>5, Zenon
    <2>3. \A d \in Clients : held[d] \notin Elements(a)
      <3>1. created + 1..created + n \subseteq 1..MaxCreated
        BY <1>1, <1>4, <1>5 DEF n
      <3>2. \A x \in 1..created : x \notin created + 1..created + n
        BY <1>4, <1>5
      <3>3. QED
        BY <3>1, <3>2, <1>4, <1>5, SMTT(30)
    <2>4. connections' \subseteq Elements(a) \cup {held[d] : d \in Clients}
      BY <1>3, <1>4, <1>5
    <2>5. held[c] = NoConnection
      BY <1>3 DEF Idle
    <2>6. QED
      BY <1>2, <1>4, <1>5, <2>1, <2>2, <2>3, <2>4, <2>5, HandOut
  <1>7. /\ StillWaiting(n) \in Seq(Clients) /\ Distinct(StillWaiting(n))
        /\ NowWoken(n) \subseteq Clients
        /\ Elements(StillWaiting(n)) \cap NowWoken(n) = {}
        /\ Elements(StillWaiting(n)) \cup NowWoken(n) = Elements(getters) \cup woken
        /\ StillWaiting(n) # <<>> =>
             getters # <<>> /\ Cardinality(NowWoken(n)) = Cardinality(woken) + n
    BY <1>1, <1>4, WakeUps
  <1>8. Queued'
    <2>1. \A d \in Elements(getters') \cup woken' : d # c /\ d \in Clients /\ held[d] = NoConnection
      BY <1>1, <1>2, <1>3, <1>7 DEF Queued, Idle, Elements
    <2>2. \A d \in Elements(getters') \cup woken' : held'[d] = NoConnection
      BY <2>1, <1>2, <1>5
    <2>3. QED
      BY <1>2, <1>3, <1>7, <2>2 DEF Queued
  <1>9. NoLostWakeup'
    <2> SUFFICES ASSUME getters' # <<>> PROVE Len(available') <= Cardinality(woken')
      BY DEF NoLostWakeup
    <2>1. getters # <<>> /\ Cardinality(woken') = Cardinality(woken) + n
      BY <1>2, <1>3, <1>7
    <2>2. Len(available) <= Cardinality(woken)
      BY <2>1, <1>1 DEF NoLostWakeup
    <2>3. Cardinality(woken) \in Nat
      BY <1>1, ClientsFinite DEF Queued
    <2>4. Len(available) \in Nat
      BY <1>5
    <2>5. Len(available') = Len(a) - 1
      BY <1>2, <1>4
    <2>6. QED
      BY <2>1, <2>2, <2>3, <2>4, <2>5, <1>4
  <1>10. LimitOvershoot'
    BY <1>1, EnterKeepsLimit
  <1>11. initialized' \in BOOLEAN
    BY <1>1, Zenon DEF Enter
  <1>12. QED
    BY <1>6, <1>8, <1>9, <1>10, <1>11, Zenon DEF IndInv

\* What leaves the connections as they are keeps what is known of them.
LEMMA Untouched ==
  ASSUME IndInv, initialized' = initialized, connections' = connections,
         available' = available, held' = held, created' = created
  PROVE  initialized' \in BOOLEAN /\ Placed' /\ LimitOvershoot'
  <1>1. initialized' \in BOOLEAN
    BY Zenon DEF IndInv
  <1>2. Placed'
    <2>1. Placed
      BY Zenon DEF IndInv
    <2>2. QED
      BY <2>1 DEF Placed, NothingLost, Elements, Distinct
  <1>3. LimitOvershoot'
    <2>1. LimitOvershoot
      BY Zenon DEF IndInv
    <2>2. QED
      BY <2>1, Zenon DEF LimitOvershoot
  <1>4. QED
    BY <1>1, <1>2, <1>3

\* A client that has no connection, and does not wait, is put at the end of the queue.
LEMMA QueuesUp ==
  ASSUME PoolAssumption, Queued, NEW c \in Clients, held[c] = NoConnection,
         c \notin Elements(getters), c \notin woken',
         woken' \subseteq woken, getters' = Append(getters, c), held' = held
  PROVE  Queued'
  <1>1. /\ getters' \in Seq(Clients) /\ Distinct(getters')
        /\ Elements(getters') = Elements(getters) \cup {c}
    BY AppendDistinct DEF Queued
  <1>2. \A d \in Elements(getters') \cup woken' : held'[d] = NoConnection
    BY <1>1 DEF Queued
  <1>3. woken' \subseteq Clients /\ Elements(getters') \cap woken' = {}
    BY <1>1 DEF Queued
  <1>4. QED
    BY <1>1, <1>2, <1>3 DEF Queued

\* get_connection finds none.
LEMMA WaitKeeps ==
  ASSUME PoolAssumption, IndInv, NEW c \in Clients, Wait(c)
  PROVE  IndInv'
  <1>1. /\ Placed /\ Queued /\ initialized \in BOOLEAN
        /\ created + Len(Initial) <= MaxCreated /\ Enter(c)
    BY Zenon DEF IndInv, Wait, Enter
  <1>2. /\ Initial = <<>> /\ available = <<>> /\ available' = available /\ held' = held
        /\ getters' = Append(getters, c)
    <2>1. /\ available \o Initial = <<>> /\ available' = available /\ held' = held
          /\ getters' = Append(getters, c)
      BY Zenon DEF Wait
    <2>2. /\ Initial \in Seq(1..MaxCreated) /\ Len(available \o Initial) = Len(available) + Len(Initial)
          /\ Len(Initial) \in Nat
      BY <1>1, InitialItems
    <2>3. available \in Seq(1..MaxCreated)
      BY <1>1 DEF Placed
    <2>4. Len(available) + Len(Initial) = 0 /\ Len(available) \in Nat
      BY <2>1, <2>2, <2>3
    <2>5. Len(available) = 0 /\ Len(Initial) = 0
      BY <2>2, <2>4
    <2>6. QED
      BY <2>1, <2>2, <2>3, <2>5
  <1>3. created' = created /\ connections' = connections /\ woken' = woken /\ Idle(c)
    <2>1. Elements(Initial) = {} /\ Len(Initial) = 0
      BY <1>2 DEF Elements
    <2>2. /\ created' = created + 0 /\ connections' = connections \cup {}
          /\ woken' = NowWoken(0) /\ Idle(c)
      BY <1>1, <2>1 DEF Enter
    <2>3. created \in Nat /\ Len(getters) \in Nat
      BY <1>1 DEF Placed, Queued, PoolAssumption
    <2>4. Wakes(0) = 0
      BY <2>3 DEF Wakes
    <2>5. NowWoken(0) = woken
      BY <2>4 DEF NowWoken
    <2>6. QED
      BY <2>2, <2>3, <2>5
  <1>4. Placed'
    BY <1>1, <1>2, <1>3 DEF Placed, NothingLost, Elements, Distinct
  <1>5. Queued'
    BY <1>1, <1>2, <1>3, QueuesUp DEF Idle
  <1>6. NoLostWakeup'
    <2>1. Cardinality(woken') \in Nat /\ Len(available') = 0
      BY <1>1, <1>2, <1>3, ClientsFinite DEF Queued
    <2>2. QED
      BY <2>1 DEF NoLostWakeup
  <1>7. LimitOvershoot'
    BY <1>1, EnterKeepsLimit
  <1>8. initialized' \in BOOLEAN
    BY <1>1, Zenon DEF Enter
  <1>9. QED
    BY <1>4, <1>5, <1>6, <1>7, <1>8, Zenon DEF IndInv

\* A woken getter takes a connection.
LEMMA TakeKeeps ==
  ASSUME PoolAssumption, IndInv, NEW c \in Clients, Take(c)
  PROVE  IndInv'
  <1>1. Placed /\ Queued /\ NoLostWakeup /\ LimitOvershoot
    BY Zenon DEF IndInv
  <1>2. /\ c \in woken /\ available # <<>> /\ woken' = woken \ {c}
        /\ held' = [held EXCEPT ![c] = Head(available)] /\ available' = Tail(available)
        /\ connections' = connections /\ getters' = getters /\ created' = created
    BY DEF Take
  <1>3. Placed'
    <2>1. /\ available \in Seq(1..MaxCreated) /\ Distinct(available)
          /\ created \in 0..MaxCreated /\ created' \in created..MaxCreated
          /\ connections' \subseteq 1..created' /\ Elements(available) \subseteq 1..created'
          /\ connections' \subseteq Elements(available) \cup {held[d] : d \in Clients}
      BY <1>1, <1>2 DEF Placed, NothingLost, PoolAssumption
    <2>2. /\ held \in [Clients -> 1..created \cup {NoConnection}]
          /\ \A b, d \in Clients : held[b] = held[d] /\ held[b] # NoConnection => b = d
          /\ \A d \in Clients : held[d] \notin Elements(available)
      BY <1>1 DEF Placed
    <2>3. held[c] = NoConnection
      BY <1>1, <1>2 DEF Queued
    <2>4. QED
      BY <1>2, <2>1, <2>2, <2>3, HandOut
  <1>4. Queued'
    <2>1. held \in [Clients -> 1..created \cup {NoConnection}]
      BY <1>1 DEF Placed
    <2>2. \A d \in Elements(getters') \cup woken' : d # c /\ d \in Clients /\ held[d] = NoConnection
      BY <1>1, <1>2 DEF Queued, Elements
    <2>3. \A d \in Elements(getters') \cup woken' : held'[d] = NoConnection
      BY <1>2, <2>1, <2>2
    <2>4. QED
      BY <1>1, <1>2, <2>3 DEF Queued
  <1>5. NoLostWakeup'
    <2>1. IsFiniteSet(woken) /\ Cardinality(woken) \in Nat
      BY <1>1, ClientsFinite DEF Queued
    <2>2. Cardinality(woken') = Cardinality(woken) - 1
      BY <1>2, <2>1, FS_RemoveElement
    <2>3. Len(available') = Len(available) - 1 /\ Len(available) \in Nat
      BY <1>1, <1>2 DEF Placed
    <2>4. QED
      BY <1>1, <1>2, <2>1, <2>2, <2>3 DEF NoLostWakeup
  <1>6. initialized' \in BOOLEAN /\ LimitOvershoot'
    <2>1. initialized' = initialized
      BY Zenon DEF Take
    <2>2. initialized' \in BOOLEAN
      BY <2>1, Zenon DEF IndInv
    <2>3. LimitOvershoot'
      BY <1>1, <1>2, <2>1, Zenon DEF LimitOvershoot
    <2>4. QED
      BY <2>2, <2>3
  <1>7. QED
    BY <1>3, <1>4, <1>5, <1>6, Zenon DEF IndInv

\* A woken getter finds none, and waits again.
LEMMA WaitAgainKeeps ==
  ASSUME PoolAssumption, IndInv, NEW c \in Clients, WaitAgain(c)
  PROVE  IndInv'
  <1>1. Placed /\ Queued
    BY Zenon DEF IndInv
  <1>2. /\ initialized' = initialized /\ connections' = connections
        /\ available' = available /\ held' = held /\ created' = created
    BY Zenon DEF WaitAgain
  <1>3. initialized' \in BOOLEAN /\ Placed' /\ LimitOvershoot'
    BY <1>2, Untouched, Zenon
  <1>4. c \in woken /\ available = <<>> /\ woken' = woken \ {c} /\ getters' = Append(getters, c)
    BY DEF WaitAgain
  <1>5. Queued'
    <2>1. held[c] = NoConnection /\ c \notin Elements(getters)
      BY <1>1, <1>4 DEF Queued
    <2>2. c \notin woken' /\ woken' \subseteq woken
      BY <1>4
    <2>3. QED
      BY <1>1, <1>2, <1>4, <2>1, <2>2, QueuesUp
  <1>6. NoLostWakeup'
    <2>1. Cardinality(woken') \in Nat
      BY <1>1, <1>4, ClientsFinite DEF Queued
    <2>2. Len(available') = 0
      BY <1>2, <1>4
    <2>3. QED
      BY <2>1, <2>2 DEF NoLostWakeup
  <1>7. QED
    BY <1>3, <1>5, <1>6, Zenon DEF IndInv

\* A wait that is given up.
LEMMA GiveUpKeeps ==
  ASSUME PoolAssumption, IndInv, NEW c \in Clients, GiveUp(c)
  PROVE  IndInv'
  <1>1. Placed /\ Queued /\ NoLostWakeup
    BY Zenon DEF IndInv
  <1>2. /\ initialized' = initialized /\ connections' = connections
        /\ available' = available /\ held' = held /\ created' = created /\ Leave(c)
    BY Zenon DEF GiveUp
  <1>3. initialized' \in BOOLEAN /\ Placed' /\ LimitOvershoot'
    BY <1>2, Untouched, Zenon
  <1>4. /\ getters' \in Seq(Clients) /\ Distinct(getters')
        /\ woken' \subseteq Clients /\ Elements(getters') \cap woken' = {}
        /\ Elements(getters') \cup woken' = (Elements(getters) \cup woken) \ {c}
        /\ getters' # <<>> => Len(available) <= Cardinality(woken')
    <2>1. available \in Seq(1..MaxCreated)
      BY <1>1 DEF Placed
    <2>2. QED
      BY <1>1, <1>2, <2>1, LeaveKeepsQueue
  <1>5. Queued'
    <2>1. \A d \in Elements(getters') \cup woken' : held'[d] = NoConnection
      BY <1>1, <1>2, <1>4 DEF Queued
    <2>2. QED
      BY <1>4, <2>1 DEF Queued
  <1>6. NoLostWakeup'
    BY <1>2, <1>4 DEF NoLostWakeup
  <1>7. QED
    BY <1>3, <1>5, <1>6, Zenon DEF IndInv

\* The pool grows after a wait that timed out.
LEMMA GrowKeeps ==
  ASSUME PoolAssumption, IndInv, NEW c \in Clients, Grow(c)
  PROVE  IndInv'
  <1>1. Placed /\ Queued /\ NoLostWakeup /\ initialized \in BOOLEAN
    BY Zenon DEF IndInv
  <1>2. /\ Waiting(c) /\ Cardinality(connections) < MaxConnections /\ created < MaxCreated
        /\ Leave(c) /\ created' = created + 1 /\ connections' = connections \cup {created + 1}
        /\ held' = [held EXCEPT ![c] = created + 1] /\ available' = available
    BY DEF Grow
  <1>3. /\ created \in 0..MaxCreated /\ MaxCreated \in Nat /\ NoConnection \notin 1..MaxCreated
        /\ connections \subseteq 1..created /\ available \in Seq(1..MaxCreated)
        /\ Elements(available) \subseteq 1..created /\ Distinct(available)
        /\ held \in [Clients -> 1..created \cup {NoConnection}]
        /\ \A b, d \in Clients : held[b] = held[d] /\ held[b] # NoConnection => b = d
        /\ \A d \in Clients : held[d] \notin Elements(available)
        /\ connections \subseteq Elements(available) \cup {held[d] : d \in Clients}
    BY <1>1 DEF Placed, NothingLost, PoolAssumption
  <1>4. held[c] = NoConnection
    BY <1>1, <1>2 DEF Queued, Waiting
  <1>5. /\ held'[c] = created + 1 /\ \A d \in Clients \ {c} : held'[d] = held[d]
        /\ created + 1 \in 1..MaxCreated /\ created + 1 \notin 1..created
        /\ 1..created \subseteq 1..created' /\ created + 1 \in 1..created'
    BY <1>2, <1>3
  <1>6. Placed'
    <2>1. created' \in 0..MaxCreated /\ connections' \subseteq 1..created'
      BY <1>2, <1>3, <1>5
    <2>2. /\ available' \in Seq(1..MaxCreated) /\ Elements(available') \subseteq 1..created'
          /\ Distinct(available')
      <3>1. available' \in Seq(1..MaxCreated) /\ Distinct(available')
        BY <1>2, <1>3
      <3>2. Elements(available') = Elements(available)
        BY <1>2 DEF Elements
      <3>3. QED
        BY <3>1, <3>2, <1>3, <1>5
    <2>3. held' \in [Clients -> 1..created' \cup {NoConnection}]
      BY <1>2, <1>3, <1>5
    <2>4. \A b, d \in Clients : held'[b] = held'[d] /\ held'[b] # NoConnection => b = d
      <3>1. \A d \in Clients \ {c} : held'[d] # created + 1
        BY <1>3, <1>5
      <3>2. QED
        BY <3>1, <1>3, <1>5
    <2>5. \A d \in Clients : held'[d] \notin Elements(available')
      BY <1>2, <1>3, <1>5
    <2>6. NothingLost'
      <3> SUFFICES ASSUME NEW x \in connections', x \notin Elements(available')
                   PROVE  \E d \in Clients : x = held'[d]
        BY DEF NothingLost
      <3>1. CASE x = created + 1
        BY <3>1, <1>5
      <3>2. CASE x # created + 1
        <4>1. x \in connections /\ x \in 1..MaxCreated
          BY <3>2, <1>2, <1>3
        <4>2. PICK d \in Clients : x = held[d]
          BY <4>1, <1>2, <1>3 DEF Elements
        <4>3. d # c
          BY <4>1, <4>2, <1>3, <1>4
        <4>4. QED
          BY <4>2, <4>3, <1>5
      <3>3. QED
        BY <3>1, <3>2
    <2>7. QED
      BY <2>1, <2>2, <2>3, <2>4, <2>5, <2>6 DEF Placed
  <1>7. /\ getters' \in Seq(Clients) /\ Distinct(getters')
        /\ woken' \subseteq Clients /\ Elements(getters') \cap woken' = {}
        /\ Elements(getters') \cup woken' = (Elements(getters) \cup woken) \ {c}
        /\ getters' # <<>> => Len(available) <= Cardinality(woken')
    BY <1>1, <1>2, <1>3, LeaveKeepsQueue
  <1>8. Queued'
    <2>1. \A d \in Elements(getters') \cup woken' : d # c /\ d \in Clients /\ held[d] = NoConnection
      BY <1>1, <1>7 DEF Queued, Elements
    <2>2. \A d \in Elements(getters') \cup woken' : held'[d] = NoConnection
      BY <2>1, <1>5
    <2>3. QED
      BY <1>7, <2>2 DEF Queued
  <1>9. NoLostWakeup'
    BY <1>2, <1>7 DEF NoLostWakeup
  <1>10. initialized' \in BOOLEAN
    BY <1>1, Zenon DEF Grow
  <1>11. LimitOvershoot'
    <2>1. IsFiniteSet(1..created)
      BY <1>3, FS_Interval
    <2>2. IsFiniteSet(connections) /\ Cardinality(connections) \in Nat
      BY <2>1, <1>3, FS_Subset, FS_CardinalityType, Zenon
    <2>3. Cardinality(connections') = Cardinality(connections) + 1
      <3>1. created + 1 \notin connections
        BY <1>3, <1>5
      <3>2. QED
        BY <3>1, <2>2, <1>2, FS_AddElement
    <2>4. MaxConnections \in Nat /\ MinConnections \in Nat
      BY DEF PoolAssumption
    <2>5. Cardinality(connections') <= MaxConnections /\ Cardinality(connections') \in Nat
      BY <2>2, <2>3, <2>4, <1>2
    <2>6. QED
      BY <2>4, <2>5, <1>10 DEF LimitOvershoot
  <1>12. QED
    BY <1>6, <1>8, <1>9, <1>10, <1>11, Zenon DEF IndInv

\* The end of the with block.
LEMMA ReleaseKeeps ==
  ASSUME PoolAssumption, IndInv, NEW c \in Clients, Release(c)
  PROVE  IndInv'
  <1>1. Placed /\ Queued /\ NoLostWakeup /\ LimitOvershoot /\ initialized \in BOOLEAN
    BY Zenon DEF IndInv
  <1>2. /\ held[c] # NoConnection /\ held' = [held EXCEPT ![c] = NoConnection]
        /\ connections' = connections /\ created' = created
    BY DEF Release
  <1>3. /\ created \in 0..MaxCreated /\ MaxCreated \in Nat /\ NoConnection \notin 1..MaxCreated
        /\ connections \subseteq 1..created /\ available \in Seq(1..MaxCreated)
        /\ Elements(available) \subseteq 1..created /\ Distinct(available)
        /\ held \in [Clients -> 1..created \cup {NoConnection}]
        /\ \A b, d \in Clients : held[b] = held[d] /\ held[b] # NoConnection => b = d
        /\ \A d \in Clients : held[d] \notin Elements(available)
        /\ connections \subseteq Elements(available) \cup {held[d] : d \in Clients}
    BY <1>1 DEF Placed, NothingLost, PoolAssumption
  <1>4. /\ held'[c] = NoConnection /\ \A d \in Clients \ {c} : held'[d] = held[d]
        /\ held[c] \in 1..created /\ held[c] \in 1..MaxCreated
        /\ held' \in [Clients -> 1..created' \cup {NoConnection}]
    BY <1>2, <1>3
  <1>5. /\ available' \in Seq(1..MaxCreated) /\ Distinct(available')
        /\ Elements(available') \subseteq Elements(available) \cup {held[c]}
        /\ held[c] \in connections => Elements(available') = Elements(available) \cup {held[c]}
        /\ Elements(available) \subseteq Elements(available')
    <2>1. CASE held[c] \in connections
      <3>1. available' = Append(available, held[c])
        BY <2>1 DEF Release
      <3>2. /\ Append(available, held[c]) \in Seq(1..MaxCreated)
            /\ Distinct(Append(available, held[c]))
            /\ Elements(Append(available, held[c])) = Elements(available) \cup {held[c]}
        BY <1>3, <1>4, AppendDistinct
      <3>3. QED
        BY <3>1, <3>2
    <2>2. CASE held[c] \notin connections
      <3>1. available' = available
        BY <2>2 DEF Release
      <3>2. Elements(available') = Elements(available)
        BY <3>1 DEF Elements
      <3>3. QED
        BY <2>2, <3>1, <3>2, <1>3
    <2>3. QED
      BY <2>1, <2>2
  <1>6. Placed'
    <2>1. \A b, d \in Clients : held'[b] = held'[d] /\ held'[b] # NoConnection => b = d
      BY <1>3, <1>4
    <2>2. \A d \in Clients : held'[d] \notin Elements(available')
      <3>1. held'[c] \notin Elements(available')
        <4>1. Elements(available) \cup {held[c]} \subseteq 1..MaxCreated
          BY <1>3, <1>4
        <4>2. QED
          BY <4>1, <1>3, <1>4, <1>5
      <3>2. ASSUME NEW d \in Clients \ {c} PROVE held'[d] \notin Elements(available')
        BY <3>2, <1>2, <1>3, <1>4, <1>5
      <3>3. QED
        BY <3>1, <3>2
    <2>3. NothingLost'
      <3> SUFFICES ASSUME NEW x \in connections, x \notin Elements(available')
                   PROVE  \E d \in Clients : x = held'[d]
        BY <1>2 DEF NothingLost
      <3>1. PICK d \in Clients : x = held[d]
        BY <1>3, <1>5
      <3>2. d # c
        BY <3>1, <1>5
      <3>3. QED
        BY <3>1, <3>2, <1>4
    <2>4. Elements(available') \subseteq 1..created'
      BY <1>2, <1>3, <1>4, <1>5
    <2>5. created' \in 0..MaxCreated /\ connections' \subseteq 1..created'
      BY <1>2, <1>3
    <2>6. QED
      BY <1>4, <1>5, <2>1, <2>2, <2>3, <2>4, <2>5 DEF Placed
  <1>7. /\ getters' \in Seq(Clients) /\ Distinct(getters')
        /\ woken' \subseteq Clients /\ Elements(getters') \cap woken' = {}
        /\ Elements(getters') \cup woken' = Elements(getters) \cup woken
        /\ getters' # <<>> => Len(available') <= Cardinality(woken')
    <2>1. CASE held[c] \in connections
      <3>1. /\ available' = Append(available, held[c])
            /\ getters' = StillWaiting(1) /\ woken' = NowWoken(1)
        BY <2>1 DEF Release
      <3>2. /\ StillWaiting(1) \in Seq(Clients) /\ Distinct(StillWaiting(1))
            /\ NowWoken(1) \subseteq Clients
            /\ Elements(StillWaiting(1)) \cap NowWoken(1) = {}
            /\ Elements(StillWaiting(1)) \cup NowWoken(1) = Elements(getters) \cup woken
            /\ StillWaiting(1) # <<>> =>
                 getters # <<>> /\ Cardinality(NowWoken(1)) = Cardinality(woken) + 1
        BY <1>1, WakeUps
      <3>3. ASSUME getters' # <<>> PROVE Len(available') <= Cardinality(woken')
        <4>1. Len(available') = Len(available) + 1 /\ Len(available) \in Nat
          BY <3>1, <1>3
        <4>2. Cardinality(woken) \in Nat
          BY <1>1, ClientsFinite DEF Queued
        <4>3. Len(available) <= Cardinality(woken) /\ Cardinality(woken') = Cardinality(woken) + 1
          BY <3>1, <3>2, <3>3, <1>1 DEF NoLostWakeup
        <4>4. QED
          BY <4>1, <4>2, <4>3
      <3>4. QED
        BY <3>1, <3>2, <3>3
    <2>2. CASE held[c] \notin connections
      <3>1. available' = available /\ getters' = getters /\ woken' = woken
        BY <2>2 DEF Release
      <3>2. QED
        BY <3>1, <1>1 DEF Queued, NoLostWakeup
    <2>3. QED
      BY <2>1, <2>2
  <1>8. Queued'
    <2>1. \A d \in Elements(getters') \cup woken' : d # c /\ d \in Clients /\ held[d] = NoConnection
      BY <1>1, <1>2, <1>7 DEF Queued, Elements
    <2>2. \A d \in Elements(getters') \cup woken' : held'[d] = NoConnection
      BY <2>1, <1>4
    <2>3. QED
      BY <1>7, <2>2 DEF Queued
  <1>9. NoLostWakeup'
    BY <1>7 DEF NoLostWakeup
  <1>10. initialized' \in BOOLEAN /\ LimitOvershoot'
    <2>1. initialized' = initialized
      BY Zenon DEF Release
    <2>2. initialized' \in BOOLEAN
      BY <1>1, <2>1, Zenon
    <2>3. LimitOvershoot'
      BY <1>1, <1>2, <2>1, Zenon DEF LimitOvershoot
    <2>4. QED
      BY <2>2, <2>3
  <1>11. QED
    BY <1>6, <1>8, <1>9, <1>10, Zenon DEF IndInv

\* cleanup forgets the connections.
LEMMA CleanupKeeps ==
  ASSUME PoolAssumption, IndInv, Cleanup
  PROVE  IndInv'
  <1>1. Placed /\ Queued /\ NoLostWakeup
    BY Zenon DEF IndInv
  <1>2. /\ connections' = {} /\ available' = available /\ getters' = getters
        /\ woken' = woken /\ held' = held /\ created' = created
    BY DEF Cleanup
  <1>3. ~initialized' /\ initialized' \in BOOLEAN
    BY Zenon DEF Cleanup
  <1>4. Placed'
    BY <1>1, <1>2 DEF Placed, NothingLost, Elements, Distinct
  <1>5. Queued' /\ NoLostWakeup'
    BY <1>1, <1>2 DEF Queued, NoLostWakeup, Elements, Distinct
  <1>6. LimitOvershoot'
    BY <1>2, <1>3, FS_EmptySet DEF LimitOvershoot, PoolAssumption
  <1>7. QED
    BY <1>3, <1>4, <1>5, <1>6, Zenon DEF IndInv

\* Every step of the pool keeps the invariant.
LEMMA NextKeepsIndInv ==
  ASSUME PoolAssumption
  PROVE  IndInv /\ [Next]_vars => IndInv'
  <1> SUFFICES ASSUME IndInv, [Next]_vars PROVE IndInv'
    OBVIOUS
  <1>1. CASE Next
    BY <1>1, AcquireKeeps, WaitKeeps, TakeKeeps, WaitAgainKeeps, GrowKeeps, GiveUpKeeps,
       ReleaseKeeps, CleanupKeeps, Zenon DEF Next
  <1>2. CASE UNCHANGED vars
    <2>1. /\ initialized' = initialized /\ connections' = connections
          /\ available' = available /\ held' = held /\ created' = created
          /\ getters' = getters /\ woken' = woken
      BY <1>2, Zenon DEF vars
    <2>2. initialized' \in BOOLEAN /\ Placed' /\ LimitOvershoot'
      BY <2>1, Untouched, Zenon
    <2>3. Queued /\ NoLostWakeup
      BY Zenon DEF IndInv
    <2>4. Queued' /\ NoLostWakeup'
      BY <2>1, <2>3 DEF Queued, NoLostWakeup, Elements, Distinct
    <2>5. QED
      BY <2>2, <2>4, Zenon DEF IndInv
  <1>3. QED
    BY <1>1, <1>2

\* The invariant of get_connection, _return_connection and cleanup holds in every state.
THEOREM PoolInvariant ==
  ASSUME PoolAssumption
  PROVE  Spec => []IndInv
  <1>1. Init => IndInv
    BY InitIndInv
  <1>2. IndInv /\ [Next]_vars => IndInv'
    BY NextKeepsIndInv
  <1>3. QED
    BY <1>1, <1>2, PTL DEF Spec

\* The exception-safety of get_connection: each connection of the pool is with one user or
\* in the queue, once, whatever was cancelled, timed out, failed or was cleaned up.
THEOREM ConnectionsInOnePlace ==
  ASSUME PoolAssumption
  PROVE  Spec => []InOnePlace
  <1>1. IndInv => InOnePlace
    <2> SUFFICES ASSUME Placed PROVE InOnePlace
      BY Zenon DEF IndInv
    <2>1. \A i, j \in DOMAIN available : available[i] = available[j] => i = j
      BY DEF Placed, Distinct
    <2>2. Exclusive /\ NothingLost
      BY <2>1 DEF Placed, Exclusive
    <2>3. QED
      BY <2>2 DEF InOnePlace
  <1>2. QED
    BY <1>1, PoolInvariant, PTL

\* While clients wait, for every available connection one of them has been woken, whoever
\* left the queue in between, woken or not.
THEOREM WakeupsNotLost ==
  ASSUME PoolAssumption
  PROVE  Spec => []NoLostWakeup
  <1>1. IndInv => NoLostWakeup
    BY Zenon DEF IndInv
  <1>2. QED
    BY <1>1, PoolInvariant, PTL

\* max_connections is passed by min_connections at most.
THEOREM OvershootBounded ==
  ASSUME PoolAssumption
  PROVE  Spec => []LimitOvershoot
  <1>1. IndInv => LimitOvershoot
    BY Zenon DEF IndInv
  <1>2. QED
    BY <1>1, PoolInvariant, PTL

\* The types of the pool's state.
THEOREM PoolTypes ==
  ASSUME PoolAssumption
  PROVE  Spec => []TypeOK
  <1>1. IndInv => TypeOK
    <2> SUFFICES ASSUME IndInv PROVE TypeOK
      OBVIOUS
    <2>1. Placed /\ Queued /\ initialized \in BOOLEAN
      BY Zenon DEF IndInv
    <2>2. /\ connections \subseteq Connections /\ available \in Seq(Connections)
          /\ getters \in Seq(Clients) /\ woken \subseteq Clients
          /\ held \in [Clients -> Connections \cup {NoConnection}]
          /\ created \in 0..MaxCreated
      BY <2>1 DEF Placed, Queued, Connections, PoolAssumption
    <2>3. QED
      BY <2>1, <2>2, Zenon DEF TypeOK
  <1>2. QED
    BY <1>1, PoolInvariant, PTL

=============================================================================
