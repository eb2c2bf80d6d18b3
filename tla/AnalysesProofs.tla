--------------------------- MODULE AnalysesProofs ---------------------------
(***************************************************************************)
(* What is proved of the computations of MCServices: the percentiles of    *)
(* the response times, what is done to large results, and what is read     *)
(* from the tables of the knowledge graph.  Each holds in every state that *)
(* has its types, whatever led to it.                                      *)
(***************************************************************************)
EXTENDS MCServices, SelectionProofs, SequenceTheorems

---------------------------------------------------------------------------
(* The percentiles of the response times.                                  *)

LEMMA MonitorSorts ==
  /\ \A S : Monitor!Cardinality(S) = Cardinality(S)
  /\ \A f : Monitor!Sorting(f) = Sorting(f)
  <1>1. \A S : Monitor!Cardinality(S) = Cardinality(S)
    BY Zenon DEF Monitor!Cardinality, Cardinality
  <1>2. \A f, k : Monitor!Earlier(f, k) = Earlier(f, k)
    BY Zenon DEF Monitor!Earlier, Earlier
  <1>3. \A f, n : Monitor!SortedPlace(f, n) = SortedPlace(f, n)
    BY <1>1, <1>2, Zenon DEF Monitor!SortedPlace, SortedPlace
  <1>4. \A f : Monitor!Sorting(f) = Sorting(f)
    BY <1>3, Zenon DEF Monitor!Sorting, Sorting
  <1>5. QED
    BY <1>1, <1>4, Zenon

\* The place in the sorted list is one of it, and as far in it as the percentile says.
LEMMA PercentilePlace ==
  ASSUME NEW L \in Nat \ {0}, NEW p \in {50, 90, 95, 99}
  PROVE  1 + (L * p) \div 100 \in 1..L /\ 100 * (1 + (L * p) \div 100) >= p * L
  OBVIOUS

LEMMA PercentilesHold ==
  ASSUME Monitor!TypeOK
  PROVE  Monitor!PercentilesRight
  <1> DEFINE L == Len(times)
  <1>1. times \in Seq(0..MaxTick) /\ MaxTick \in Nat
    BY ServicesAssumption DEF Monitor!TypeOK, Monitor!MonitorAssumption
  <1>2. L \in Nat /\ DOMAIN times = 1..L /\ times \in [1..L -> Int] /\ (times # <<>> => L # 0)
    BY <1>1
  <1> HIDE DEF L
  <1>3. L \in Nat /\ times \in [1..L -> Int]
    BY <1>2
  <1>4. \A n \in 1..L : Sorting(times)[n] \in 1..L /\ Cardinality(Earlier(times, Sorting(times)[n])) = n
    BY <1>3, SortingOnce, Zenon
  <1>5. \A k \in 1..L : /\ Earlier(times, k) \in SUBSET (1..L)
                        /\ \A l \in 1..L : l \in Earlier(times, k) => times[l] <= times[k]
    BY <1>3, EarlierIs, Zenon
  <1>6. ASSUME times # <<>>, NEW p \in {50, 90, 95, 99}
        PROVE  /\ Monitor!Percentile(p) \in Monitor!ToSet(times)
               /\ 100 * Monitor!Cardinality({n \in DOMAIN times : times[n] <= Monitor!Percentile(p)}) >= p * Len(times)
    <2> DEFINE r == 1 + (L * p) \div 100
               k == Sorting(times)[r]
               found == {n \in DOMAIN times : times[n] <= times[k]}
    <2>1. r \in 1..L /\ 100 * r >= p * L
      BY <1>2, <1>6, PercentilePlace
    <2>2. Monitor!Percentile(p) = times[k]
      BY MonitorSorts, Zenon DEF Monitor!Percentile, L
    <2> HIDE DEF r
    <2>3. k \in 1..L /\ Cardinality(Earlier(times, k)) = r
      BY <1>4, <2>1, Zenon
    <2> HIDE DEF k
    <2>4. Earlier(times, k) \in SUBSET (1..L) /\ \A l \in 1..L : l \in Earlier(times, k) => times[l] <= times[k]
      BY <1>5, <2>3, Zenon
    <2>5. Earlier(times, k) \in SUBSET found /\ found \in SUBSET (1..L)
      BY <1>2, <2>4
    <2> HIDE DEF found
    <2>6. IsFiniteSet(found) /\ Cardinality(found) \in Nat
      BY <1>2, <2>5, SomeOfFirst, Zenon
    <2>7. r <= Cardinality(found)
      BY <2>3, <2>5, <2>6, FS_Subset, Zenon
    <2>8. 100 * Cardinality(found) >= p * L
      BY <1>2, <2>1, <2>6, <2>7
    <2>9. times[k] \in Monitor!ToSet(times)
      BY <1>2, <2>3 DEF Monitor!ToSet
    <2>10. QED
      BY <2>2, <2>8, <2>9, MonitorSorts, ZenonT(40) DEF found, L
  <1>7. QED
    BY <1>6, Zenon DEF Monitor!PercentilesRight

---------------------------------------------------------------------------
(* What is done to large results.                                          *)

LEMMA LargeSelects ==
  /\ \A S : Large!Cardinality(S) = Cardinality(S)
  /\ \A s, K : Large!Selected(s, K) = Selected(s, K)
  /\ \A ss : Large!Flattened(ss) = Flattened(ss)
  /\ \A f : Large!Summed(f) = Summed(f)
  <1>1. \A S : Large!Cardinality(S) = Cardinality(S)
    BY Zenon DEF Large!Cardinality, Cardinality
  <1>2. \A K, n : Large!Place(K, n) = Place(K, n)
    BY <1>1, Zenon DEF Large!Place, Place
  <1>3. \A s, K : Large!Selected(s, K) = Selected(s, K)
    BY <1>1, <1>2, Zenon DEF Large!Selected, Selected
  <1>4. \A ss : Large!Spots(ss) = Spots(ss)
    BY Zenon DEF Large!Spots, Spots
  <1>5. \A ss, u : Large!UpTo(ss, u) = UpTo(ss, u)
    BY <1>4, Zenon DEF Large!UpTo, UpTo
  <1>6. \A ss, p : Large!SpotAt(ss, p) = SpotAt(ss, p)
    BY <1>1, <1>4, <1>5, Zenon DEF Large!SpotAt, SpotAt
  <1>7. \A ss : Large!Flattened(ss) = Flattened(ss)
    BY <1>1, <1>4, <1>6, Zenon DEF Large!Flattened, Flattened
  <1>8. \A f : Large!UnitsOf(f) = UnitsOf(f)
    BY Zenon DEF Large!UnitsOf, UnitsOf
  <1>9. \A f : Large!Summed(f) = Summed(f)
    BY <1>1, <1>8, Zenon DEF Large!Summed, Summed
  <1>10. QED
    BY <1>1, <1>3, <1>7, <1>9, Zenon

\* The lesser and the greater of two numbers.
LEMMA LargeMin ==
  ASSUME NEW m \in Int, NEW n \in Int
  PROVE  /\ m <= n => Large!Min({m, n}) = m
         /\ n <= m => Large!Min({m, n}) = n
         /\ m <= n => Large!Max({m, n}) = n
         /\ n <= m => Large!Max({m, n}) = m
  BY DEF Large!Min, Large!Max

\* A value that fits into so many bits is itself in as many.
LEMMA Fitting ==
  /\ \A v \in Int : -128 <= v /\ v <= 127 => Large!Wrapped(v, 8) = v
  /\ \A v \in Int : -32768 <= v /\ v <= 32767 => Large!Wrapped(v, 16) = v
  /\ \A v \in Int : -2147483647 - 1 <= v /\ v <= 2147483647 => Large!Wrapped(v, 32) = v
  <1>1. 8 - 1 = 7 /\ 16 - 1 = 15 /\ 32 - 1 = 31
    OBVIOUS
  <1>2. /\ 2 ^ 7 = 128 /\ 2 ^ 8 = 256 /\ 2 ^ 15 = 32768 /\ 2 ^ 16 = 65536
        /\ 2 ^ 31 = 2147483648 /\ 2 ^ 32 = 4294967296
    BY SMT
  <1>3. \A v \in Int : -128 <= v /\ v <= 127 => Large!Wrapped(v, 8) = v
    BY <1>1, <1>2, SMT DEF Large!Wrapped
  <1>4. \A v \in Int : -32768 <= v /\ v <= 32767 => Large!Wrapped(v, 16) = v
    BY <1>1, <1>2, SMT DEF Large!Wrapped
  <1>5. \A v \in Int : -2147483647 - 1 <= v /\ v <= 2147483647 => Large!Wrapped(v, 32) = v
    BY <1>1, <1>2, SMT DEF Large!Wrapped
  <1>6. QED
    BY <1>3, <1>4, <1>5, SMT

LEMMA ValuesStay ==
  ASSUME Large!TypeOK
  PROVE  Large!ValuesKept
  <1> DEFINE bits == Large!Bits(rows)
  <1>1. rows \in Seq(Values) /\ Values \subseteq Int
    BY ServicesAssumption DEF Large!TypeOK, Large!LargeAssumption
  <1>2. \A n \in DOMAIN rows : rows[n] \in Int /\ rows[n] \in Large!ToSet(rows)
    <2>1. \A n \in DOMAIN rows : rows[n] \in Values
      BY <1>1
    <2>2. \A n \in DOMAIN rows : rows[n] \in Large!ToSet(rows)
      BY DEF Large!ToSet
    <2>3. QED
      BY <1>1, <2>1, <2>2
  <1>3. \A low, high : Large!Within(rows, low, high) => \A n \in DOMAIN rows : low <= rows[n] /\ rows[n] <= high
    BY <1>2, Zenon DEF Large!Within
  <1>4. bits = 64 \/ \A n \in DOMAIN rows : Large!Wrapped(rows[n], bits) = rows[n]
    <2>1. CASE Large!Within(rows, -128, 127)
      <3>1. bits = 8
        BY <2>1 DEF Large!Bits
      <3>2. \A n \in DOMAIN rows : -128 <= rows[n] /\ rows[n] <= 127
        BY <1>3, <2>1
      <3> HIDE DEF bits
      <3>3. QED
        BY <1>2, <3>1, <3>2, Fitting, SMT
    <2>2. CASE Large!Within(rows, -32768, 32767) /\ ~Large!Within(rows, -128, 127)
      <3>1. bits = 16
        BY <2>2 DEF Large!Bits
      <3>2. \A n \in DOMAIN rows : -32768 <= rows[n] /\ rows[n] <= 32767
        BY <1>3, <2>2
      <3> HIDE DEF bits
      <3>3. QED
        BY <1>2, <3>1, <3>2, Fitting, SMT
    <2>3. CASE Large!Within(rows, -2147483647 - 1, 2147483647) /\ ~Large!Within(rows, -32768, 32767)
               /\ ~Large!Within(rows, -128, 127)
      <3>1. bits = 32
        BY <2>3, SMT DEF Large!Bits
      <3>2. \A n \in DOMAIN rows : -2147483647 - 1 <= rows[n] /\ rows[n] <= 2147483647
        BY <1>3, <2>3, SMT
      <3> HIDE DEF bits
      <3>3. QED
        BY <1>2, <3>1, <3>2, Fitting, SMT
    <2>4. CASE /\ ~Large!Within(rows, -2147483647 - 1, 2147483647)
               /\ ~Large!Within(rows, -32768, 32767) /\ ~Large!Within(rows, -128, 127)
      BY <2>4, SMT DEF Large!Bits
    <2> HIDE DEF bits
    <2>5. QED
      BY <2>1, <2>2, <2>3, <2>4, SMT
  <1>6. rows = [n \in DOMAIN rows |-> rows[n]]
    BY <1>1
  <1> HIDE DEF bits
  <1>7. Large!OptimizeDtypes = IF bits = 64 THEN rows ELSE [n \in DOMAIN rows |-> Large!Wrapped(rows[n], bits)]
    BY Zenon DEF Large!OptimizeDtypes, bits
  <1>8. Large!OptimizeDtypes = rows
    BY <1>4, <1>6, <1>7
  <1>9. QED
    BY <1>8, Zenon DEF Large!ValuesKept

\* The place after n parts of so many rows each; the last parts may be short or empty.
Cut(L, C, n) == IF n * C <= L THEN n * C ELSE L
PartsOf(L, C) == (L + C - 1) \div C

LEMMA CutIs ==
  ASSUME NEW L \in Nat, NEW C \in Nat \ {0}
  PROVE  /\ PartsOf(L, C) \in Nat /\ (L # 0 => PartsOf(L, C) # 0) /\ (L = 0 => PartsOf(L, C) = 0)
         /\ Cut(L, C, 0) = 0 /\ Cut(L, C, PartsOf(L, C)) = L
         /\ \A n \in Nat : Cut(L, C, n) \in 0..L
         /\ \A n \in Nat \ {0} : /\ Cut(L, C, n - 1) \in 0..Cut(L, C, n)
                                 /\ Cut(L, C, n) - Cut(L, C, n - 1) <= C
         /\ \A n \in 1..PartsOf(L, C) : (n - 1) * C < L /\ Cut(L, C, n - 1) = (n - 1) * C
         /\ \A n \in Nat : n > PartsOf(L, C) => Cut(L, C, n - 1) = L
         /\ \A n \in Int : n < PartsOf(L, C) <=> n * C < L
  <1> DEFINE k == PartsOf(L, C)
  <1>1. k \in Nat /\ k * C >= L /\ k * C < L + C
    BY DEF PartsOf
  <1>2. \A m, n \in Int : m <= n => m * C <= n * C
    OBVIOUS
  <1>3. \A n \in Int : n * C \in Int /\ (n - 1) * C = n * C - C
    OBVIOUS
  <1> HIDE DEF k
  <1>4. (L # 0 => k # 0) /\ (L = 0 => k = 0)
    BY <1>1
  <1>5. Cut(L, C, 0) = 0 /\ Cut(L, C, k) = L
    BY <1>1 DEF Cut
  <1>6. \A n \in Nat : n * C \in Nat /\ Cut(L, C, n) \in 0..L
    BY DEF Cut
  <1>7. ASSUME NEW n \in Nat \ {0}
        PROVE  Cut(L, C, n - 1) \in 0..Cut(L, C, n) /\ Cut(L, C, n) - Cut(L, C, n - 1) <= C
    <2>1. n - 1 \in Nat /\ (n - 1) * C \in Nat /\ n * C \in Nat /\ n * C = (n - 1) * C + C
      BY <1>3
    <2> HIDE DEF PartsOf
    <2>2. QED
      BY <2>1 DEF Cut
  <1>8. ASSUME NEW n \in 1..k PROVE (n - 1) * C < L /\ Cut(L, C, n - 1) = (n - 1) * C
    <2>1. n <= k /\ n \in Int /\ k \in Int
      BY <1>1
    <2>2. n * C <= k * C /\ n * C \in Int /\ k * C \in Int /\ (n - 1) * C = n * C - C
      BY <1>2, <1>3, <2>1
    <2>3. (n - 1) * C < L
      BY <1>1, <2>2
    <2>4. QED
      BY <2>2, <2>3 DEF Cut
  <1>9. ASSUME NEW n \in Nat, n > k PROVE Cut(L, C, n - 1) = L
    <2>1. k <= n - 1 /\ n - 1 \in Int /\ k \in Int
      BY <1>1, <1>9
    <2>2. k * C <= (n - 1) * C /\ (n - 1) * C \in Int /\ k * C \in Int
      BY <1>2, <1>3, <2>1
    <2>3. L <= (n - 1) * C
      BY <1>1, <2>2
    <2>4. QED
      BY <2>2, <2>3 DEF Cut
  <1>10. ASSUME NEW n \in Int PROVE n < k <=> n * C < L
    <2>1. n * C \in Int /\ (k - 1) * C = k * C - C /\ k * C \in Int
      BY <1>1, <1>3
    <2>2. ASSUME n < k PROVE n * C < L
      <3>1. n * C <= (k - 1) * C
        BY <1>1, <1>2, <2>2
      <3>2. QED
        BY <1>1, <2>1, <3>1
    <2>3. ASSUME ~ (n < k) PROVE ~ (n * C < L)
      <3>1. k * C <= n * C
        BY <1>1, <1>2, <2>3
      <3>2. QED
        BY <1>1, <2>1, <3>1
    <2>4. QED
      BY <2>2, <2>3
  <1>11. QED
    BY <1>1, <1>4, <1>5, <1>6, <1>7, <1>8, <1>9, <1>10, Zenon DEF k

\* What is the list s of elements of S from one place to another.
Stretch(S, s, m, n, p) ==
  /\ p \in Seq(S) /\ Len(p) = n - m /\ DOMAIN p = 1..(n - m)
  /\ \A i \in 1..(n - m) : p[i] = s[m + i]

\* A part of a list.
LEMMA PartIs ==
  ASSUME NEW S, NEW s \in Seq(S), NEW m \in Nat, NEW n \in m..Len(s)
  PROVE  Stretch(S, s, m, n, SubSeq(s, m + 1, n))
  <1>1. Len(s) \in Nat /\ \A i \in (m + 1)..n : s[i] \in S
    BY LenProperties, ElementOfSeq
  <1> DEFINE p == SubSeq(s, m + 1, n)
  <1>2. /\ p \in Seq(S)
        /\ Len(p) = IF m + 1 <= n THEN n - (m + 1) + 1 ELSE 0
        /\ \A i \in 1..(n - (m + 1) + 1) : p[i] = s[m + 1 + i - 1]
    BY <1>1, SubSeqProperties
  <1> HIDE DEF p
  <1>3. Len(p) = n - m /\ DOMAIN p = 1..(n - m) /\ \A i \in 1..(n - m) : p[i] = s[m + i]
    BY <1>1, <1>2, LenProperties
  <1>4. QED
    BY <1>2, <1>3, Zenon DEF p, Stretch

\* What stands at the places of the parts of a list, one after the other, is the list.
LEMMA PartsJoined ==
  ASSUME NEW S, NEW s \in Seq(S), NEW C \in Nat \ {0}, NEW ss,
         DOMAIN ss = 1..PartsOf(Len(s), C),
         \A n \in 1..PartsOf(Len(s), C) :
           /\ DOMAIN ss[n] = 1..(Cut(Len(s), C, n) - Cut(Len(s), C, n - 1))
           /\ \A i \in 1..(Cut(Len(s), C, n) - Cut(Len(s), C, n - 1)) :
                ss[n][i] = s[Cut(Len(s), C, n - 1) + i]
  PROVE  Flattened(ss) = s
  <1> DEFINE L == Len(s)
             k == PartsOf(L, C)
             off == [n \in 0..k |-> Cut(L, C, n)]
  <1>1. L \in Nat
    BY LenProperties
  <1> HIDE DEF L
  <1>2. /\ k \in Nat /\ Cut(L, C, 0) = 0 /\ Cut(L, C, k) = L
        /\ \A n \in Nat : Cut(L, C, n) \in 0..L
        /\ \A n \in Nat \ {0} : Cut(L, C, n - 1) \in 0..Cut(L, C, n)
    BY <1>1, CutIs, Zenon
  <1> HIDE DEF k
  <1>3. off \in [0..k -> Nat] /\ off[0] = 0 /\ off[k] = L
    <2>1. 0 \in 0..k /\ k \in 0..k /\ \A n \in 0..k : n \in Nat
      BY <1>2
    <2>2. \A n \in 0..k : Cut(L, C, n) \in Nat
      <3>1. \A x \in 0..L : x \in Nat
        BY <1>1
      <3>2. QED
        BY <1>2, <2>1, <3>1, Zenon
    <2>3. off[0] = Cut(L, C, 0) /\ off[k] = Cut(L, C, k)
      BY <2>1, Zenon
    <2>4. QED
      BY <1>2, <2>2, <2>3
  <1>4. ASSUME NEW n \in 1..k
        PROVE  off[n - 1] = Cut(L, C, n - 1) /\ off[n] = Cut(L, C, n) /\ off[n - 1] <= off[n]
    <2>1. n \in Nat \ {0} /\ n \in 0..k /\ n - 1 \in 0..k
      BY <1>2
    <2>2. off[n - 1] = Cut(L, C, n - 1) /\ off[n] = Cut(L, C, n)
      BY <2>1, Zenon
    <2>3. Cut(L, C, n) \in 0..L /\ Cut(L, C, n - 1) \in 0..Cut(L, C, n)
      BY <1>2, <2>1, Zenon
    <2> HIDE DEF off
    <2>4. QED
      BY <1>1, <2>2, <2>3
  <1> HIDE DEF off
  <1>5. DOMAIN ss = 1..k
    BY Zenon DEF k, L
  <1>6. \A n \in 1..k : off[n - 1] <= off[n] /\ DOMAIN ss[n] = 1..(off[n] - off[n - 1])
    BY <1>4, Zenon DEF k, L
  <1>7. \A n \in 1..k : \A i \in 1..(off[n] - off[n - 1]) : ss[n][i] = s[off[n - 1] + i]
    BY <1>4, Zenon DEF k, L
  <1>8. off[k] = Len(s) /\ k \in Nat
    BY <1>2, <1>3, Zenon DEF L
  <1> HIDE DEF k, L
  <1>9. QED
    BY <1>2, <1>3, <1>5, <1>6, <1>7, <1>8, BlocksFlattened, Zenon

\* The parts of a list, from one place to the next.
PartedInto(s, C, ss) ==
  /\ DOMAIN ss = 1..PartsOf(Len(s), C)
  /\ \A n \in 1..PartsOf(Len(s), C) : ss[n] = SubSeq(s, Cut(Len(s), C, n - 1) + 1, Cut(Len(s), C, n))

\* Each part is such a stretch.
Consecutive(S, s, C, ss) ==
  \A n \in 1..PartsOf(Len(s), C) :
    /\ Cut(Len(s), C, n - 1) \in Nat /\ Cut(Len(s), C, n) \in Nat
    /\ Cut(Len(s), C, n - 1) <= Cut(Len(s), C, n) /\ Cut(Len(s), C, n) <= Len(s)
    /\ Stretch(S, s, Cut(Len(s), C, n - 1), Cut(Len(s), C, n), ss[n])

LEMMA PartsAre ==
  ASSUME NEW S, NEW s \in Seq(S), NEW C \in Nat \ {0}, NEW ss, PartedInto(s, C, ss)
  PROVE  Consecutive(S, s, C, ss)
  <1> DEFINE L == Len(s)
             k == PartsOf(L, C)
  <1>1. L \in Nat
    BY LenProperties
  <1>2. /\ k \in Nat
        /\ \A n \in Nat : Cut(L, C, n) \in 0..L
        /\ \A n \in Nat \ {0} : Cut(L, C, n - 1) \in 0..Cut(L, C, n)
    <2> HIDE DEF L
    <2>1. QED
      BY <1>1, CutIs, Zenon
  <1>3. ASSUME NEW n \in 1..k
        PROVE  /\ Cut(L, C, n - 1) \in Nat /\ Cut(L, C, n) \in Nat
               /\ Cut(L, C, n - 1) <= Cut(L, C, n) /\ Cut(L, C, n) <= L
               /\ Stretch(S, s, Cut(L, C, n - 1), Cut(L, C, n), ss[n])
    <2> DEFINE a == Cut(L, C, n - 1)
               b == Cut(L, C, n)
    <2> HIDE DEF k
    <2>1. n \in Nat \ {0}
      BY <1>2
    <2>2. a \in 0..b /\ b \in 0..L
      BY <1>2, <2>1, Zenon
    <2>3. ss[n] = SubSeq(s, a + 1, b)
      BY Zenon DEF PartedInto, k, L
    <2> HIDE DEF a, b
    <2>4. a \in Nat /\ b \in Nat /\ b \in a..L /\ a <= b /\ b <= L
      <3> HIDE DEF L
      <3>1. QED
        BY <1>1, <2>2
    <2>5. Stretch(S, s, a, b, ss[n])
      BY <2>3, <2>4, PartIs, Zenon DEF L
    <2>6. QED
      BY <2>4, <2>5, Zenon DEF a, b
  <1>4. QED
    BY <1>3, Zenon DEF Consecutive, k, L

\* One after the other they are the list, and as long as it together.
LEMMA PartsFlattened ==
  ASSUME NEW S, NEW s \in Seq(S), NEW C \in Nat \ {0}, NEW ss, PartedInto(s, C, ss)
  PROVE  Flattened(ss) = s
  <1>1. \A n \in 1..PartsOf(Len(s), C) :
           /\ DOMAIN ss[n] = 1..(Cut(Len(s), C, n) - Cut(Len(s), C, n - 1))
           /\ \A i \in 1..(Cut(Len(s), C, n) - Cut(Len(s), C, n - 1)) :
                ss[n][i] = s[Cut(Len(s), C, n - 1) + i]
    <2>1. Consecutive(S, s, C, ss)
      BY PartsAre, Zenon
    <2>2. QED
      BY <2>1, Zenon DEF Consecutive, Stretch
  <1>2. DOMAIN ss = 1..PartsOf(Len(s), C)
    BY Zenon DEF PartedInto
  <1>3. QED
    BY <1>1, <1>2, PartsJoined


\* The table is a list of integers, and the sizes are positive.
LEMMA LargeNumbers ==
  ASSUME Large!TypeOK
  PROVE  /\ rows \in Seq(Int) /\ Len(rows) \in Nat /\ DOMAIN rows = 1..Len(rows)
         /\ \A n \in DOMAIN rows : rows[n] \in Int
         /\ ChunkSize \in Nat \ {0} /\ MaxPageSize \in Nat \ {0}
  <1>1. rows \in Seq(Values)
    BY Zenon DEF Large!TypeOK
  <1>2. Values \subseteq Int
    BY ServicesAssumption, Zenon DEF Large!LargeAssumption
  <1>3. /\ DOMAIN rows = 1..Len(rows) /\ Len(rows) \in Nat
        /\ \A n \in DOMAIN rows : rows[n] \in Int
        /\ rows = [n \in 1..Len(rows) |-> rows[n]]
    BY <1>1, <1>2
  <1>4. rows \in Seq(Int)
    BY <1>3
  <1>5. ChunkSize \in Nat \ {0} /\ MaxPageSize \in Nat \ {0}
    BY ServicesAssumption, Zenon DEF Large!LargeAssumption
  <1>6. QED
    BY <1>3, <1>4, <1>5, Zenon

\* The chunks are the parts of the table.
LEMMA ChunksAre ==
  ASSUME Large!TypeOK
  PROVE  PartedInto(rows, ChunkSize, Large!Chunks)
  <1> DEFINE L == Len(rows)
             k == PartsOf(L, ChunkSize)
  <1>1. L \in Nat /\ ChunkSize \in Nat \ {0}
    BY LargeNumbers, Zenon
  <1>2. Large!Chunks = [n \in 1..k |-> SubSeq(rows, (n - 1) * ChunkSize + 1, Large!Min({n * ChunkSize, L}))]
    BY Zenon DEF Large!Chunks, PartsOf
  <1> HIDE DEF L
  <1>3. /\ k \in Nat
        /\ \A n \in 1..k : (n - 1) * ChunkSize < L /\ Cut(L, ChunkSize, n - 1) = (n - 1) * ChunkSize
    BY <1>1, CutIs
  <1> HIDE DEF k
  <1>4. ASSUME NEW n \in 1..k PROVE Large!Min({n * ChunkSize, L}) = Cut(L, ChunkSize, n)
    <2>1. n * ChunkSize \in Int /\ L \in Int
      BY <1>1, <1>3
    <2>2. CASE n * ChunkSize <= L
      BY <2>1, <2>2, LargeMin, Zenon DEF Cut
    <2>3. CASE ~ (n * ChunkSize <= L)
      <3>1. L <= n * ChunkSize
        BY <2>1, <2>3
      <3>2. QED
        BY <2>1, <2>3, <3>1, LargeMin, Zenon DEF Cut
    <2>4. QED
      BY <2>2, <2>3, Zenon
  <1>5. \A n \in 1..k : Large!Chunks[n] = SubSeq(rows, Cut(L, ChunkSize, n - 1) + 1, Cut(L, ChunkSize, n))
    BY <1>2, <1>3, <1>4, Zenon
  <1>6. DOMAIN Large!Chunks = 1..k
    BY <1>2, Zenon
  <1>7. QED
    BY <1>5, <1>6, Zenon DEF PartedInto, k, L

\* What a processor that works row by row makes of the chunks is, one after the other, what
\* it makes of the table: as it is, the negative rows of it, and each row negated.
LEMMA SameJoined ==
  ASSUME Large!TypeOK
  PROVE  Flattened(Large!Chunks) = rows
  <1>1. rows \in Seq(Int) /\ ChunkSize \in Nat \ {0}
    BY LargeNumbers, Zenon
  <1>2. QED
    BY <1>1, ChunksAre, PartsFlattened, Zenon

Negatives(t) == {n \in DOMAIN t : t[n] < 0}
Negated(t) == [n \in DOMAIN t |-> -t[n]]

LEMMA NegatedJoined ==
  ASSUME Large!TypeOK
  PROVE  Flattened([n \in DOMAIN Large!Chunks |-> Negated(Large!Chunks[n])]) = Negated(rows)
  <1> DEFINE L == Len(rows)
             C == ChunkSize
             k == PartsOf(L, C)
             ch == Large!Chunks
             ss == [n \in DOMAIN ch |-> Negated(ch[n])]
             t == Negated(rows)
  <1>1. /\ rows \in Seq(Int) /\ L \in Nat /\ DOMAIN rows = 1..L /\ C \in Nat \ {0}
        /\ \A n \in DOMAIN rows : rows[n] \in Int
    BY LargeNumbers, Zenon
  <1>2. DOMAIN ch = 1..k /\ Consecutive(Int, rows, C, ch)
    <2>1. DOMAIN ch = 1..k
      BY ChunksAre, Zenon DEF PartedInto
    <2>2. QED
      BY <1>1, <2>1, ChunksAre, PartsAre, Zenon
  <1>3. t \in Seq(Int) /\ Len(t) = L /\ \A n \in 1..L : t[n] = -rows[n]
    BY <1>1 DEF Negated
  <1>4. \A n \in 1..k : /\ Cut(L, C, n - 1) \in Nat /\ Cut(L, C, n) \in Nat /\ Cut(L, C, n) <= L
                        /\ DOMAIN ch[n] = 1..(Cut(L, C, n) - Cut(L, C, n - 1))
                        /\ \A i \in 1..(Cut(L, C, n) - Cut(L, C, n - 1)) : ch[n][i] = rows[Cut(L, C, n - 1) + i]
    BY <1>2, Zenon DEF Consecutive, Stretch
  <1>5. DOMAIN ss = 1..k /\ \A n \in 1..k : DOMAIN ss[n] = DOMAIN ch[n] /\ \A i \in DOMAIN ch[n] : ss[n][i] = -ch[n][i]
    BY <1>2, Zenon DEF Negated
  <1> HIDE DEF L, C, k, ch, ss, t
  <1>6. ASSUME NEW n \in 1..k, NEW i \in 1..(Cut(L, C, n) - Cut(L, C, n - 1))
        PROVE  ss[n][i] = t[Cut(L, C, n - 1) + i]
    <2> DEFINE a == Cut(L, C, n - 1)
               b == Cut(L, C, n)
    <2>1. a \in Nat /\ b \in Nat /\ b <= L /\ i \in 1..(b - a)
      BY <1>4, Zenon
    <2>2. ss[n][i] = -ch[n][i] /\ ch[n][i] = rows[a + i]
      BY <1>4, <1>5, Zenon
    <2> HIDE DEF a, b
    <2>3. a + i \in 1..L
      BY <1>1, <2>1
    <2>4. ss[n][i] = t[a + i]
      BY <1>3, <2>2, <2>3, Zenon
    <2>5. QED
      BY <2>4, Zenon DEF a
  <1>7. \A n \in 1..k : DOMAIN ss[n] = 1..(Cut(L, C, n) - Cut(L, C, n - 1))
    BY <1>4, <1>5, Zenon
  <1>8. Flattened(ss) = t
    <2>1. DOMAIN ss = 1..PartsOf(Len(t), C)
      BY <1>3, <1>5, Zenon DEF k
    <2>2. \A n \in 1..PartsOf(Len(t), C) :
            /\ DOMAIN ss[n] = 1..(Cut(Len(t), C, n) - Cut(Len(t), C, n - 1))
            /\ \A i \in 1..(Cut(Len(t), C, n) - Cut(Len(t), C, n - 1)) :
                 ss[n][i] = t[Cut(Len(t), C, n - 1) + i]
      BY <1>3, <1>6, <1>7, Zenon DEF k
    <2>3. QED
      BY <1>1, <1>3, <2>1, <2>2, PartsJoined
  <1>9. QED
    BY <1>8, Zenon DEF ss, t, ch

LEMMA NegativesJoined ==
  ASSUME Large!TypeOK
  PROVE  Flattened([n \in DOMAIN Large!Chunks |-> Selected(Large!Chunks[n], Negatives(Large!Chunks[n]))])
           = Selected(rows, Negatives(rows))
  <1> DEFINE L == Len(rows)
             C == ChunkSize
             k == PartsOf(L, C)
             ch == Large!Chunks
             K == Negatives(rows)
             ss == [n \in DOMAIN ch |-> Selected(ch[n], Negatives(ch[n]))]
             t == Selected(rows, K)
             Kept(n) == Cardinality(NotAbove(K, Cut(L, C, n)))
             off == [n \in 0..k |-> Kept(n)]
  <1>1. /\ rows \in Seq(Int) /\ L \in Nat /\ DOMAIN rows = 1..L /\ C \in Nat \ {0}
        /\ \A n \in DOMAIN rows : rows[n] \in Int
    BY LargeNumbers, Zenon
  <1>2. DOMAIN ch = 1..k /\ Consecutive(Int, rows, C, ch)
    <2>1. DOMAIN ch = 1..k
      BY ChunksAre, Zenon DEF PartedInto
    <2>2. QED
      BY <1>1, <2>1, ChunksAre, PartsAre, Zenon
  <1>3. \A n \in 1..k : /\ Cut(L, C, n - 1) \in Nat /\ Cut(L, C, n) \in Nat
                        /\ Cut(L, C, n - 1) <= Cut(L, C, n) /\ Cut(L, C, n) <= L
                        /\ DOMAIN ch[n] = 1..(Cut(L, C, n) - Cut(L, C, n - 1))
                        /\ \A i \in 1..(Cut(L, C, n) - Cut(L, C, n - 1)) : ch[n][i] = rows[Cut(L, C, n - 1) + i]
    BY <1>2, Zenon DEF Consecutive, Stretch
  <1>4. K \in SUBSET (DOMAIN rows)
    BY DEF Negatives
  <1>5. /\ t \in Seq(Int) /\ Len(t) = Cardinality(K)
    <2>1. K \subseteq Nat /\ IsFiniteSet(K) /\ \A j \in K : rows[j] \in Int
      BY <1>1, <1>4, PlacesOfList, Zenon
    <2> HIDE DEF K
    <2>2. QED
      BY <2>1, SelectedIs, Zenon
  <1>6. DOMAIN ss = 1..k /\ \A n \in 1..k : ss[n] = Selected(ch[n], Negatives(ch[n]))
    BY <1>2, Zenon
  <1>7. k \in Nat /\ Cut(L, C, 0) = 0 /\ Cut(L, C, k) = L /\ \A n \in Nat : Cut(L, C, n) \in 0..L
    <2> HIDE DEF L
    <2>1. QED
      BY <1>1, CutIs, Zenon
  <1> HIDE DEF L, C, k, ch, ss, t
  <1>8. ASSUME NEW n \in 1..k
        PROVE  /\ Kept(n - 1) \in Nat /\ Kept(n) \in Nat /\ Kept(n - 1) <= Kept(n)
               /\ DOMAIN ss[n] = 1..(Kept(n) - Kept(n - 1))
               /\ \A i \in 1..(Kept(n) - Kept(n - 1)) : ss[n][i] = t[Kept(n - 1) + i]
    <2> DEFINE a == Cut(L, C, n - 1)
               b == Cut(L, C, n)
               M == Negatives(ch[n])
    <2>1. /\ a \in Nat /\ b \in Nat /\ a <= b /\ b <= L
          /\ DOMAIN ch[n] = 1..(b - a) /\ \A i \in 1..(b - a) : ch[n][i] = rows[a + i]
      BY <1>3, Zenon
    <2> HIDE DEF a, b
    <2>2. \A i \in 1..(b - a) : a + i \in DOMAIN rows
      BY <1>1, <2>1
    <2>3. M = PlacesIn(K, a, b)
      BY <2>1, <2>2 DEF Negatives, PlacesIn
    <2> HIDE DEF M, K
    <2>4. b <= Len(rows)
      BY <2>1, Zenon DEF L
    <2>5. /\ Cardinality(NotAbove(K, a)) \in Nat /\ Cardinality(M) \in Nat
          /\ Cardinality(NotAbove(K, b)) = Cardinality(NotAbove(K, a)) + Cardinality(M)
          /\ DOMAIN Selected(ch[n], M) = 1..Cardinality(M)
          /\ \A i \in 1..Cardinality(M) : Selected(ch[n], M)[i] = Selected(rows, K)[Cardinality(NotAbove(K, a)) + i]
      <3> DEFINE u == ch[n]
      <3>1. rows \in Seq(Int) /\ K \in SUBSET (DOMAIN rows)
        BY <1>1, <1>4, Zenon
      <3>2. DOMAIN u = 1..(b - a)
        BY <2>1, Zenon
      <3>3. \A i \in 1..(b - a) : u[i] = rows[a + i]
        BY <2>1, Zenon
      <3>4. a \in Nat /\ b \in Nat /\ a <= b
        BY <2>1, Zenon
      <3> HIDE DEF u
      <3>5. KeptOfPart(rows, K, a, b, u, M)
        BY <2>3, <2>4, <3>1, <3>2, <3>3, <3>4, SelectedPart, Zenon
      <3>6. QED
        BY <3>5, Zenon DEF KeptOfPart, u
    <2>6. Kept(n - 1) = Cardinality(NotAbove(K, a)) /\ Kept(n) = Cardinality(NotAbove(K, b))
      BY Zenon DEF a, b
    <2> DEFINE p == Cardinality(NotAbove(K, a))
               q == Cardinality(NotAbove(K, b))
               m == Cardinality(M)
    <2>7. p \in Nat /\ m \in Nat /\ q = p + m
      BY <2>5, Zenon
    <2>8. ss[n] = Selected(ch[n], M)
      BY <1>6, Zenon DEF M
    <2>9. DOMAIN ss[n] = 1..m /\ \A i \in 1..m : ss[n][i] = t[p + i]
      BY <2>5, <2>8, Zenon DEF t
    <2> HIDE DEF p, q, m, Kept
    <2>10. q - p = m /\ p <= q /\ q \in Nat
      BY <2>7
    <2>11. Kept(n - 1) = p /\ Kept(n) = q
      BY <2>6, Zenon DEF p, q
    <2>12. QED
      BY <2>7, <2>9, <2>10, <2>11, Zenon
  <1>9. Kept(0) = 0 /\ Kept(k) = Len(t)
    <2>1. NotAbove(K, 0) = {} /\ NotAbove(K, L) = K
      BY <1>1, <1>4 DEF NotAbove
    <2>2. Cardinality({}) = 0
      BY FS_EmptySet, Zenon
    <2> HIDE DEF K
    <2>3. QED
      BY <1>5, <1>7, <2>1, <2>2, Zenon
  <1> HIDE DEF K, Kept
  <1>10. off \in [0..k -> Nat] /\ off[0] = Kept(0) /\ off[k] = Kept(k)
    <2>1. \A n \in 0..k : n = 0 \/ n \in 1..k
      BY <1>7
    <2>2. \A n \in 0..k : Kept(n) \in Nat
      <3>1. 0 \in Nat
        OBVIOUS
      <3>2. QED
        BY <1>8, <1>9, <2>1, <3>1, Zenon
    <2>3. 0 \in 0..k /\ k \in 0..k
      BY <1>7
    <2>4. QED
      BY <2>2, <2>3, Zenon
  <1>11. \A n \in 1..k : off[n - 1] = Kept(n - 1) /\ off[n] = Kept(n)
    <2>1. \A n \in 1..k : n - 1 \in 0..k /\ n \in 0..k
      BY <1>7
    <2>2. QED
      BY <2>1, Zenon
  <1> HIDE DEF off
  <1>12. \A n \in 1..k : off[n - 1] <= off[n] /\ DOMAIN ss[n] = 1..(off[n] - off[n - 1])
    BY <1>8, <1>11, Zenon
  <1>13. \A n \in 1..k : \A i \in 1..(off[n] - off[n - 1]) : ss[n][i] = t[off[n - 1] + i]
    BY <1>8, <1>11, Zenon
  <1>14. off[0] = 0 /\ off[k] = Len(t) /\ off \in [0..k -> Nat] /\ DOMAIN ss = 1..k
    BY <1>6, <1>9, <1>10, Zenon
  <1>15. Flattened(ss) = t
    BY <1>5, <1>7, <1>12, <1>13, <1>14, BlocksFlattened, ZenonT(40)
  <1>16. QED
    BY <1>15, Zenon DEF ss, t, ch, K

\* The lengths of the chunks sum up to that of the table: each of its places is in one.
LEMMA CountsJoined ==
  ASSUME Large!TypeOK
  PROVE  Summed([n \in DOMAIN Large!Chunks |-> Len(Large!Chunks[n])]) = Len(rows)
  <1> DEFINE L == Len(rows)
             C == ChunkSize
             k == PartsOf(L, C)
             ch == Large!Chunks
             f == [n \in DOMAIN ch |-> Len(ch[n])]
             P == 1..L
             share == [p \in P |-> 1 + (p - 1) \div C]
  <1>1. rows \in Seq(Int) /\ L \in Nat /\ C \in Nat \ {0}
    BY LargeNumbers, Zenon
  <1>2. DOMAIN ch = 1..k /\ Consecutive(Int, rows, C, ch)
    <2>1. DOMAIN ch = 1..k
      BY ChunksAre, Zenon DEF PartedInto
    <2>2. QED
      BY <1>1, <2>1, ChunksAre, PartsAre, Zenon
  <1>3. \A n \in 1..k : /\ Cut(L, C, n - 1) \in Nat /\ Cut(L, C, n) \in Nat
                        /\ Cut(L, C, n - 1) <= Cut(L, C, n) /\ Cut(L, C, n) <= L
                        /\ Len(ch[n]) = Cut(L, C, n) - Cut(L, C, n - 1)
    BY <1>2, Zenon DEF Consecutive, Stretch
  <1>4. DOMAIN f = 1..k /\ \A n \in 1..k : f[n] = Len(ch[n])
    BY <1>2, Zenon
  <1> HIDE DEF L
  <1>5. /\ k \in Nat
        /\ \A n \in 1..k : (n - 1) * C < L /\ Cut(L, C, n - 1) = (n - 1) * C
        /\ \A n \in Int : n < k <=> n * C < L
    BY <1>1, CutIs
  <1> HIDE DEF k, ch, f, C
  <1>6. ASSUME NEW p \in P, NEW n \in 1..k
        PROVE  share[p] \in 1..k /\ (share[p] = n <=> Cut(L, C, n - 1) < p /\ p <= Cut(L, C, n))
    <2> DEFINE q == (p - 1) \div C
    <2>1. /\ q \in Nat /\ q * C <= p - 1 /\ p - 1 < q * C + C
          /\ p \in Nat /\ p >= 1 /\ p <= L
      BY <1>1
    <2>2. share[p] = 1 + q
      OBVIOUS
    <2> HIDE DEF q, share
    <2>3. q < k
      <3>1. q * C < L /\ q \in Int
        BY <1>1, <2>1
      <3>2. QED
        BY <1>5, <3>1
    <2>4. share[p] \in 1..k
      BY <1>5, <2>1, <2>2, <2>3
    <2>5. Cut(L, C, n - 1) = (n - 1) * C /\ (n - 1) * C \in Int /\ n \in Int
          /\ n * C = (n - 1) * C + C /\ n * C \in Int
      BY <1>1, <1>5
    <2>6. p <= Cut(L, C, n) <=> p <= n * C
      BY <1>1, <2>1, <2>5 DEF Cut
    <2>7. n = 1 + q => (n - 1) * C < p /\ p <= n * C
      <3>1. n = 1 + q => n - 1 = q
        BY <2>1, <2>5
      <3>2. QED
        BY <1>1, <2>1, <2>5, <3>1
    <2>8. (n - 1) * C < p /\ p <= n * C => n = 1 + q
      <3>1. \A i, j \in Int : i <= j => i * C <= j * C
        BY <1>1
      <3>2. q + 1 \in Int /\ (q + 1) * C = q * C + C /\ q * C \in Int
        BY <1>1, <2>1
      <3>3. ASSUME n < 1 + q, p <= n * C PROVE FALSE
        <4>1. n <= q
          BY <2>1, <2>5, <3>3
        <4>2. n * C <= q * C
          BY <2>1, <2>5, <3>1, <4>1
        <4>3. QED
          BY <2>1, <2>5, <3>2, <3>3, <4>2
      <3>4. ASSUME n > 1 + q, (n - 1) * C < p PROVE FALSE
        <4>1. q + 1 <= n - 1 /\ n - 1 \in Int
          BY <2>1, <2>5, <3>4
        <4>2. (q + 1) * C <= (n - 1) * C
          BY <3>1, <3>2, <4>1
        <4>3. p <= (q + 1) * C
          BY <1>1, <2>1, <3>2
        <4>4. (n - 1) * C \in Int /\ (q + 1) * C \in Int /\ p \in Int
          BY <1>1, <2>1, <2>5, <3>2
        <4>5. QED
          BY <3>4, <4>2, <4>3, <4>4
      <3>5. QED
        BY <2>1, <2>5, <3>3, <3>4
    <2>9. QED
      BY <2>2, <2>4, <2>5, <2>6, <2>7, <2>8, Zenon
  <1>7. DOMAIN share = P
    OBVIOUS
  <1>8. P \subseteq Nat /\ IsFiniteSet(P) /\ Cardinality(P) = L
    <2>1. P \subseteq Nat
      OBVIOUS
    <2>2. QED
      BY <1>1, <2>1, FirstNumbers, Zenon
  <1>9. ASSUME NEW n \in 1..k PROVE f[n] = Cardinality(Sharing(P, share, n))
    <2> DEFINE a == Cut(L, C, n - 1)
               b == Cut(L, C, n)
    <2>1. /\ a \in Nat /\ b \in Nat /\ a <= b /\ b <= L
          /\ f[n] = b - a
      BY <1>3, <1>4, Zenon
    <2>2. \A p \in P : share[p] = n <=> a < p /\ p <= b
      BY <1>6, Zenon
    <2> HIDE DEF a, b, share
    <2>3. Sharing(P, share, n) = (a + 1)..b
      BY <1>1, <2>1, <2>2 DEF Sharing
    <2>4. Cardinality((a + 1)..b) = IF a + 1 > b THEN 0 ELSE b - (a + 1) + 1
      <3>1. a + 1 \in Int /\ b \in Int
        BY <2>1
      <3>2. QED
        BY <3>1, FS_Interval
    <2>5. QED
      BY <2>1, <2>3, <2>4
  <1>10. \A p \in P : share[p] \in DOMAIN f
    <2>1. \A p \in P : 1 \in 1..k
      BY <1>1, <1>5
    <2>2. QED
      BY <1>4, <1>6, <2>1, Zenon
  <1> HIDE DEF P, share
  <1>11. \A n \in DOMAIN f : f[n] = Cardinality(Sharing(P, share, n))
    BY <1>4, <1>9, Zenon
  <1>12. Summed(f) = L
    BY <1>8, <1>10, <1>11, SharesSum, Zenon
  <1>13. QED
    BY <1>12, Zenon DEF f, ch, L

\* There is a chunk when there are rows.
LEMMA SomeChunk ==
  ASSUME Large!TypeOK
  PROVE  /\ DOMAIN Large!Chunks = 1..PartsOf(Len(rows), ChunkSize) /\ PartsOf(Len(rows), ChunkSize) \in Nat
         /\ rows = <<>> => DOMAIN Large!Chunks = {}
         /\ rows # <<>> => 1 \in DOMAIN Large!Chunks
  <1> DEFINE L == Len(rows)
             k == PartsOf(L, ChunkSize)
  <1>1. rows \in Seq(Int) /\ L \in Nat /\ ChunkSize \in Nat \ {0}
    BY LargeNumbers, Zenon
  <1>2. (rows = <<>> => L = 0) /\ (rows # <<>> => L # 0)
    BY <1>1
  <1> HIDE DEF L
  <1>3. k \in Nat /\ (L # 0 => k # 0) /\ (L = 0 => k = 0)
    BY <1>1, CutIs
  <1>4. DOMAIN Large!Chunks = 1..k
    BY ChunksAre, Zenon DEF PartedInto, k, L
  <1> HIDE DEF k
  <1>5. (k = 0 => 1..k = {}) /\ (k # 0 => 1 \in 1..k)
    BY <1>3
  <1>6. QED
    BY <1>2, <1>3, <1>4, <1>5, Zenon DEF k, L

\* What the processing of all chunks comes to, of results of one kind.
ResultsOf(processor) == [n \in DOMAIN Large!Chunks |-> Large!Processed(processor, Large!Chunks[n])]
AllOfKind(processor, kind, values) ==
  /\ values = [n \in DOMAIN Large!Chunks |-> values[n]]
  /\ \A n \in DOMAIN Large!Chunks : ResultsOf(processor)[n] = [kind |-> kind, value |-> values[n]]

LEMMA AggregatedAre ==
  ASSUME Large!TypeOK, NEW processor, NEW kind, NEW values, AllOfKind(processor, kind, values)
  PROVE  /\ rows = <<>> => Large!Aggregated(ResultsOf(processor)) = [kind |-> "none"]
         /\ rows # <<>> /\ kind \in {"frame", "list"} =>
              Large!Aggregated(ResultsOf(processor)) = [kind |-> kind, value |-> Flattened(values)]
         /\ rows # <<>> /\ kind \notin {"frame", "list"} =>
              Large!Aggregated(ResultsOf(processor)) = [kind |-> "list", value |-> ResultsOf(processor)]
  <1> DEFINE results == ResultsOf(processor)
  <1> DEFINE D == DOMAIN Large!Chunks
  <1>1. (rows = <<>> => D = {}) /\ (rows # <<>> => 1 \in D)
    BY SomeChunk, Zenon
  <1> HIDE DEF D
  <1>2. DOMAIN results = D
    BY Zenon DEF ResultsOf, D
  <1>0. results = [n \in D |-> Large!Processed(processor, Large!Chunks[n])]
    BY Zenon DEF ResultsOf, D
  <1> HIDE DEF results
  <1>3. \A n \in D : results[n].kind = kind /\ results[n].value = values[n]
    <2>1. ASSUME NEW n \in D PROVE results[n].kind = kind /\ results[n].value = values[n]
      <3> DEFINE r == [kind |-> kind, value |-> values[n]]
      <3>1. results[n] = r
        BY Zenon DEF AllOfKind, results, D
      <3>2. r.kind = kind /\ r.value = values[n]
        OBVIOUS
      <3> HIDE DEF r
      <3>3. QED
        BY <3>1, <3>2, Zenon
    <2>2. QED
      BY <2>1, Zenon
  <1>4. values = [n \in DOMAIN results |-> results[n].value]
    <2>1. values = [n \in D |-> values[n]]
      BY Zenon DEF AllOfKind, D
    <2>2. QED
      BY <1>2, <1>3, <2>1
  <1>5. ASSUME rows = <<>> PROVE Large!Aggregated(results) = [kind |-> "none"]
    <2>1. results = <<>>
      <3>1. DOMAIN results = {} /\ results = [n \in D |-> Large!Processed(processor, Large!Chunks[n])]
        BY <1>0, <1>1, <1>2, <1>5, Zenon
      <3>2. D = {}
        BY <1>1, <1>5, Zenon
      <3>3. QED
        BY <3>1, <3>2
    <2>2. QED
      BY <2>1, Zenon DEF Large!Aggregated
  <1>6. ASSUME rows # <<>>
        PROVE  /\ results # <<>> /\ results[1].kind = kind
    <2>1. 1 \in D
      BY <1>1, <1>6, Zenon
    <2>2. results # <<>>
      <3>1. 1 \in DOMAIN results
        BY <1>2, <2>1, Zenon
      <3>2. QED
        BY <3>1
    <2>3. QED
      BY <1>3, <2>1, <2>2, Zenon
  <1>7. ASSUME rows # <<>>, kind \in {"frame", "list"}
        PROVE  Large!Aggregated(results) = [kind |-> kind, value |-> Flattened(values)]
    BY <1>4, <1>6, <1>7, LargeSelects, Zenon DEF Large!Aggregated
  <1>8. ASSUME rows # <<>>, kind \notin {"frame", "list"}
        PROVE  Large!Aggregated(results) = [kind |-> "list", value |-> results]
    BY <1>6, <1>8, Zenon DEF Large!Aggregated
  <1>9. QED
    BY <1>5, <1>7, <1>8, Zenon DEF results

LEMMA ProcessedIs ==
  ASSUME NEW t
  PROVE  /\ Large!Processed("same", t) = [kind |-> "frame", value |-> t]
         /\ Large!Processed("low", t) = [kind |-> "frame", value |-> Selected(t, Negatives(t))]
         /\ Large!Processed("listed", t) = [kind |-> "list", value |-> Negated(t)]
         /\ Large!Processed("count", t) = [kind |-> "number", value |-> Len(t)]
  <1>1. "same" # "low" /\ "same" # "listed" /\ "same" # "count"
        /\ "low" # "listed" /\ "low" # "count" /\ "listed" # "count"
    OBVIOUS
  <1>2. Large!Processed("same", t) = [kind |-> "frame", value |-> t]
    BY <1>1, Zenon DEF Large!Processed
  <1>3. Large!Processed("low", t) = [kind |-> "frame", value |-> Selected(t, Negatives(t))]
    BY <1>1, LargeSelects, Zenon DEF Large!Processed, Negatives
  <1>4. Large!Processed("listed", t) = [kind |-> "list", value |-> Negated(t)]
    BY <1>1, Zenon DEF Large!Processed, Negated
  <1>5. Large!Processed("count", t) = [kind |-> "number", value |-> Len(t)]
    BY <1>1, Zenon DEF Large!Processed
  <1>6. QED
    BY <1>2, <1>3, <1>4, <1>5, Zenon

\* A processor that works row by row makes the same of the chunks as of the table.
LEMMA RowByRow ==
  ASSUME Large!TypeOK, NEW processor \in {"same", "low", "listed"}
  PROVE  Large!ProcessLargeDataset(processor) =
           IF short /\ rows = <<>> THEN [kind |-> "none"] ELSE Large!Processed(processor, rows)
  <1> DEFINE ch == Large!Chunks
             results == ResultsOf(processor)
             kind == IF processor = "listed" THEN "list" ELSE "frame"
             whole == Large!Processed(processor, rows)
  <1>1. PICK values : /\ values = [n \in DOMAIN ch |-> values[n]]
                      /\ \A n \in DOMAIN ch : Large!Processed(processor, ch[n]) = [kind |-> kind, value |-> values[n]]
                      /\ whole = [kind |-> kind, value |-> Flattened(values)]
    <2> HIDE DEF ch
    <2>1. CASE processor = "same"
      <3> DEFINE values == [n \in DOMAIN ch |-> ch[n]]
      <3>1. kind = "frame"
        BY <2>1
      <3>2. values = ch
        BY Zenon DEF ch, Large!Chunks
      <3>3. whole = [kind |-> "frame", value |-> Flattened(ch)]
        BY <2>1, SameJoined, ProcessedIs, Zenon DEF ch
      <3>4. \A n \in DOMAIN ch : Large!Processed(processor, ch[n]) = [kind |-> "frame", value |-> ch[n]]
        BY <2>1, ProcessedIs, Zenon
      <3>5. ch = [n \in DOMAIN ch |-> ch[n]]
        BY <3>2, Zenon
      <3> HIDE DEF kind, whole
      <3>6. QED
        BY <3>1, <3>3, <3>4, <3>5, Zenon
    <2>2. CASE processor = "low"
      <3> DEFINE values == [n \in DOMAIN ch |-> Selected(ch[n], Negatives(ch[n]))]
      <3>1. kind = "frame"
        BY <2>2
      <3>2. Flattened(values) = Selected(rows, Negatives(rows))
        BY NegativesJoined, Zenon DEF ch
      <3>3. whole = [kind |-> "frame", value |-> Flattened(values)]
        BY <2>2, <3>2, ProcessedIs, Zenon
      <3>4. \A n \in DOMAIN ch : values[n] = Selected(ch[n], Negatives(ch[n]))
        BY Zenon
      <3>5. \A n \in DOMAIN ch : Large!Processed(processor, ch[n]) = [kind |-> "frame", value |-> values[n]]
        BY <2>2, <3>4, ProcessedIs, Zenon
      <3>6. values = [n \in DOMAIN ch |-> values[n]]
        BY Zenon
      <3> HIDE DEF kind, whole, values
      <3>7. QED
        BY <3>1, <3>3, <3>5, <3>6, Zenon
    <2>3. CASE processor = "listed"
      <3> DEFINE values == [n \in DOMAIN ch |-> Negated(ch[n])]
      <3>1. kind = "list"
        BY <2>3
      <3>2. Flattened(values) = Negated(rows)
        BY NegatedJoined, Zenon DEF ch
      <3>3. whole = [kind |-> "list", value |-> Flattened(values)]
        BY <2>3, <3>2, ProcessedIs, Zenon
      <3>4. \A n \in DOMAIN ch : values[n] = Negated(ch[n])
        BY Zenon
      <3>5. \A n \in DOMAIN ch : Large!Processed(processor, ch[n]) = [kind |-> "list", value |-> values[n]]
        BY <2>3, <3>4, ProcessedIs, Zenon
      <3>6. values = [n \in DOMAIN ch |-> values[n]]
        BY Zenon
      <3> HIDE DEF kind, whole, values
      <3>7. QED
        BY <3>1, <3>3, <3>5, <3>6, Zenon
    <2>4. QED
      BY <2>1, <2>2, <2>3, Zenon
  <1>2. kind \in {"frame", "list"}
    OBVIOUS
  <1>3. Large!ProcessLargeDataset(processor) = IF short THEN Large!Aggregated(results) ELSE whole
    BY Zenon DEF Large!ProcessLargeDataset, ResultsOf
  <1>4. \A n \in DOMAIN ch : results[n] = Large!Processed(processor, ch[n])
    BY Zenon DEF ResultsOf
  <1> HIDE DEF kind, whole
  <1>6. AllOfKind(processor, kind, values)
    BY <1>1, <1>4, Zenon DEF AllOfKind
  <1>7. /\ rows = <<>> => Large!Aggregated(results) = [kind |-> "none"]
        /\ rows # <<>> => Large!Aggregated(results) = [kind |-> kind, value |-> Flattened(values)]
    BY <1>2, <1>6, AggregatedAre, Zenon
  <1>8. QED
    BY <1>1, <1>3, <1>7, Zenon DEF whole

LEMMA ChunksAgreeing ==
  ASSUME Large!TypeOK
  PROVE  Large!ChunksAgree
  <1> DEFINE ch == Large!Chunks
             results == ResultsOf("count")
             lengths == [n \in DOMAIN ch |-> Len(ch[n])]
             counted == Large!ProcessLargeDataset("count")
  <1>1. counted = IF short THEN Large!Aggregated(results) ELSE [kind |-> "number", value |-> Len(rows)]
    BY ProcessedIs, Zenon DEF Large!ProcessLargeDataset, ResultsOf
  <1>2. DOMAIN results = DOMAIN ch /\ lengths = [n \in DOMAIN ch |-> lengths[n]]
    BY Zenon DEF ResultsOf
  <1>3. \A n \in DOMAIN ch : results[n] = [kind |-> "number", value |-> lengths[n]]
    BY ProcessedIs, Zenon DEF ResultsOf
  <1>4. Summed(lengths) = Len(rows)
    BY CountsJoined, Zenon
  <1>5. "number" \notin {"frame", "list"} /\ "number" # "list" /\ "none" # "list"
    OBVIOUS
  <1> HIDE DEF results
  <1>6. lengths = [n \in DOMAIN results |-> results[n].value]
    <2>1. ASSUME NEW n \in DOMAIN ch PROVE results[n].value = lengths[n]
      <3> DEFINE r == [kind |-> "number", value |-> lengths[n]]
      <3>1. results[n] = r
        BY <1>3, Zenon
      <3>2. r.value = lengths[n]
        OBVIOUS
      <3> HIDE DEF r
      <3>3. QED
        BY <3>1, <3>2, Zenon
    <2> HIDE DEF lengths
    <2>2. [n \in DOMAIN results |-> results[n].value] = [n \in DOMAIN ch |-> lengths[n]]
      BY <1>2, <2>1
    <2>3. QED
      BY <1>2, <2>2, Zenon
  <1> HIDE DEF lengths
  <1>12. AllOfKind("count", "number", lengths)
    BY <1>2, <1>3, Zenon DEF AllOfKind, results
  <1>7. /\ rows = <<>> => Large!Aggregated(results) = [kind |-> "none"]
        /\ rows # <<>> => Large!Aggregated(results) = [kind |-> "list", value |-> results]
    BY <1>5, <1>12, AggregatedAre, Zenon DEF results
  <1> HIDE DEF counted
  <1>8. CASE ~short
    <2>1. counted = [kind |-> "number", value |-> Len(rows)]
      BY <1>1, <1>8, Zenon
    <2>2. counted.kind = "number"
      BY <2>1
    <2>3. QED
      BY <1>5, <1>8, <2>2, RowByRow, Zenon DEF Large!ChunksAgree, Large!Processors, counted
  <1>9. CASE short /\ rows = <<>>
    <2>1. counted = [kind |-> "none"]
      BY <1>1, <1>7, <1>9, Zenon
    <2>2. counted.kind = "none"
      BY <2>1
    <2>3. QED
      BY <1>5, <1>9, <2>2, RowByRow, Zenon DEF Large!ChunksAgree, Large!Processors, counted
  <1>10. CASE short /\ rows # <<>>
    <2>1. counted = [kind |-> "list", value |-> results]
      BY <1>1, <1>7, <1>10, Zenon
    <2>2. counted.kind = "list" /\ counted.value = results
      BY <2>1
    <2>3. Large!Summed([n \in DOMAIN counted.value |-> counted.value[n].value]) = Len(rows)
      BY <1>4, <1>6, <2>2, LargeSelects, Zenon
    <2>4. QED
      BY <1>5, <1>10, <2>2, <2>3, RowByRow, Zenon DEF Large!ChunksAgree, Large!Processors, counted
  <1>11. QED
    BY <1>8, <1>9, <1>10, Zenon

\* A page, of those that there are or behind them, is a part of the rows; another total
\* changes only whether there is a next one.
StepOf(size) == Large!Min({size, MaxPageSize})

LEMMA PageOfRows ==
  ASSUME Large!TypeOK, NEW size \in 1..(MaxPageSize + 1), NEW page \in Nat \ {0}, NEW total
  PROVE  Large!Paginated(page, size, total).data =
           SubSeq(rows, Cut(Len(rows), StepOf(size), page - 1) + 1, Cut(Len(rows), StepOf(size), page))
  <1> DEFINE L == Len(rows)
             step == StepOf(size)
  <1>1. L \in Nat /\ MaxPageSize \in Nat \ {0}
    BY LargeNumbers, Zenon
  <1>2. step \in Nat \ {0}
    <2>1. size \in Int /\ MaxPageSize \in Int /\ size > 0 /\ MaxPageSize > 0
      BY <1>1
    <2>2. step = size \/ step = MaxPageSize
      <3>1. size <= MaxPageSize \/ MaxPageSize <= size
        BY <2>1
      <3>2. QED
        BY <2>1, <3>1, LargeMin, Zenon DEF StepOf
    <2> HIDE DEF step
    <2>3. QED
      BY <1>1, <2>1, <2>2
  <1> HIDE DEF L
  <1>3. ASSUME NEW n \in Nat PROVE Large!PlaceIn(rows, n * step) = Cut(L, step, n)
    <2> HIDE DEF step
    <2>1. n * step \in Int /\ L \in Int /\ ~ (n * step < 0)
      BY <1>1, <1>2
    <2>2. Large!PlaceIn(rows, n * step) = Large!Min({n * step, L})
      BY <2>1, Zenon DEF Large!PlaceIn, L
    <2>3. n * step <= L => Large!Min({n * step, L}) = n * step
      BY <2>1, LargeMin, Zenon
    <2>4. ~ (n * step <= L) => Large!Min({n * step, L}) = L
      <3>1. ~ (n * step <= L) => L <= n * step
        BY <2>1
      <3>2. QED
        BY <2>1, <3>1, LargeMin, Zenon
    <2>5. QED
      BY <2>2, <2>3, <2>4, Zenon DEF Cut
  <1>4. page - 1 \in Nat /\ page \in Nat
    OBVIOUS
  <1>5. Large!Paginated(page, size, total).data =
          SubSeq(rows, Large!PlaceIn(rows, (page - 1) * step) + 1, Large!PlaceIn(rows, page * step))
    BY DEF Large!Paginated, Large!Slice, StepOf
  <1>6. QED
    BY <1>3, <1>4, <1>5, Zenon DEF L

LEMMA NextPage ==
  ASSUME Large!TypeOK, NEW size \in 1..(MaxPageSize + 1), NEW page \in Int, NEW total \in Nat
  PROVE  /\ StepOf(size) \in Nat \ {0}
         /\ Large!Paginated(page, size, total).next <=> page * StepOf(size) < total
         /\ Large!Paginated(page, size, total).previous <=> page > 1
  <1> DEFINE step == StepOf(size)
  <1>1. MaxPageSize \in Nat \ {0}
    BY LargeNumbers, Zenon
  <1>2. step \in Nat \ {0}
    <2>1. size \in Int /\ MaxPageSize \in Int /\ size > 0 /\ MaxPageSize > 0
      BY <1>1
    <2>2. step = size \/ step = MaxPageSize
      <3>1. size <= MaxPageSize \/ MaxPageSize <= size
        BY <2>1
      <3>2. QED
        BY <2>1, <3>1, LargeMin, Zenon DEF StepOf
    <2> HIDE DEF step
    <2>3. QED
      BY <1>1, <2>1, <2>2
  <1>3. /\ Large!Paginated(page, size, total).next = (page < PartsOf(total, step))
        /\ Large!Paginated(page, size, total).previous = (page > 1)
    BY DEF Large!Paginated, Large!TotalPages, PartsOf, StepOf
  <1> HIDE DEF step
  <1>4. page < PartsOf(total, step) <=> page * step < total
    <2>1. \A n \in Int : n < PartsOf(total, step) <=> n * step < total
      BY <1>2, CutIs
    <2>2. QED
      BY <2>1, Zenon
  <1>5. QED
    BY <1>2, <1>3, <1>4, Zenon DEF step

LEMMA PagesAgreeing ==
  ASSUME Large!TypeOK
  PROVE  Large!PagesWhole
  <1> DEFINE L == Len(rows)
  <1>1. rows \in Seq(Int) /\ L \in Nat /\ MaxPageSize \in Nat \ {0} /\ MaxRows \in Nat
    <2>1. MaxRows \in Nat
      BY ServicesAssumption, Zenon DEF Large!LargeAssumption
    <2>2. QED
      BY <2>1, LargeNumbers, Zenon
  <1>2. ASSUME NEW size \in 1..(MaxPageSize + 1)
        PROVE  LET step == Large!Min({size, MaxPageSize})
                   final == Large!TotalPages(Len(rows), step)
                   Of(page) == Large!Paginated(page, size, Len(rows))
               IN /\ Large!Flattened([n \in 1..final |-> Of(n).data]) = rows
                  /\ \A page \in 1..(MaxRows + 1) :
                       /\ Of(page).next <=> page * step < Len(rows)
                       /\ page > final => Of(page).data = <<>>
                       /\ \A total \in 0..(MaxRows + 1) :
                            /\ Large!Paginated(page, size, total).next <=> page * step < total
                            /\ Large!Paginated(page, size, total).data = Of(page).data
                  /\ rows # <<>> => \A page \in -2..0 : Of(page).next /\ ~Of(page).previous
    <2> DEFINE step == StepOf(size)
               final == PartsOf(L, step)
               Of(page) == Large!Paginated(page, size, Len(rows))
               datas == [n \in 1..final |-> Of(n).data]
    <2>1. step \in Nat \ {0}
      <3>1. 1 \in Int /\ 0 \in Nat
        OBVIOUS
      <3>2. QED
        BY <3>1, NextPage, Zenon
    <2> HIDE DEF step, L
    <2>2. /\ final \in Nat /\ (L # 0 => final # 0)
          /\ \A n \in Nat : n > final => Cut(L, step, n - 1) = L
      BY <1>1, <2>1, CutIs
    <2> HIDE DEF final
    <2>3. \A page \in Nat \ {0}, total \in Nat :
            Large!Paginated(page, size, total).data = SubSeq(rows, Cut(L, step, page - 1) + 1, Cut(L, step, page))
      BY PageOfRows, Zenon DEF step, L
    <2>4. \A page \in 1..(MaxRows + 1) : page \in Nat \ {0} /\ page \in Int
      BY <1>1
    <2>5. \A total \in 0..(MaxRows + 1) : total \in Nat
      BY <1>1
    <2>6. \A page \in Int, total \in Nat :
            /\ Large!Paginated(page, size, total).next <=> page * step < total
            /\ Large!Paginated(page, size, total).previous <=> page > 1
      BY NextPage, Zenon DEF step
    <2>7. Large!Flattened(datas) = rows
      <3>1. \A n \in 1..final : n \in Nat \ {0}
        BY <2>2
      <3>2. \A n \in 1..final : datas[n] = SubSeq(rows, Cut(L, step, n - 1) + 1, Cut(L, step, n))
        BY <1>1, <2>3, <3>1, Zenon DEF L
      <3>3. DOMAIN datas = 1..final
        BY Zenon
      <3> HIDE DEF datas
      <3>4. PartedInto(rows, step, datas)
        BY <3>2, <3>3, Zenon DEF PartedInto, final, L
      <3>5. QED
        BY <1>1, <2>1, <3>4, PartsFlattened, LargeSelects, Zenon
    <2>8. ASSUME NEW page \in 1..(MaxRows + 1), page > final PROVE Of(page).data = <<>>
      <3>1. page \in Nat /\ page + 1 \in Nat /\ page + 1 > final /\ page + 1 - 1 = page
        BY <2>2, <2>4, <2>8
      <3>2. Cut(L, step, page - 1) = L /\ Cut(L, step, page) = L
        <4>1. Cut(L, step, page - 1) = L
          BY <2>2, <2>8, <3>1, Zenon
        <4>2. PICK next \in Nat : next > final /\ next - 1 = page
          BY <3>1
        <4>3. Cut(L, step, next - 1) = L
          BY <2>2, <4>2, Zenon
        <4>4. QED
          BY <4>1, <4>2, <4>3, Zenon
      <3>3. Of(page).data = SubSeq(rows, L + 1, L)
        BY <1>1, <2>3, <2>4, <3>2, Zenon DEF L
      <3>4. SubSeq(rows, L + 1, L) = <<>>
        BY <1>1
      <3>5. QED
        BY <3>3, <3>4, Zenon
    <2>9. ASSUME rows # <<>>, NEW page \in -2..0 PROVE Of(page).next /\ ~Of(page).previous
      <3>1. L # 0
        BY <1>1, <2>9 DEF L
      <3>2. page \in Int /\ page <= 0 /\ ~ (page > 1)
        OBVIOUS
      <3>3. page * step < L
        <4>1. page * step <= 0 /\ page * step \in Int
          BY <2>1, <3>2
        <4>2. QED
          BY <1>1, <3>1, <4>1
      <3>4. QED
        BY <1>1, <2>6, <3>2, <3>3, Zenon DEF L
    <2>10. /\ step = Large!Min({size, MaxPageSize})
           /\ final = Large!TotalPages(Len(rows), step)
      BY Zenon DEF step, final, StepOf, PartsOf, Large!TotalPages, L
    <2>11. \A page \in 1..(MaxRows + 1) :
              /\ Of(page).next <=> page * step < Len(rows)
              /\ page > final => Of(page).data = <<>>
              /\ \A total \in 0..(MaxRows + 1) :
                   /\ Large!Paginated(page, size, total).next <=> page * step < total
                   /\ Large!Paginated(page, size, total).data = Of(page).data
      BY <1>1, <2>3, <2>4, <2>5, <2>6, <2>8, Zenon DEF L
    <2> HIDE DEF Of
    <2>12. QED
      BY <2>7, <2>9, <2>10, <2>11, Zenon DEF Of
  <1>3. QED
    BY <1>2, Zenon DEF Large!PagesWhole

\* The encoding that is preferred is one of those the tool has.
LEMMA AnswersReadably ==
  ASSUME Large!TypeOK
  PROVE  Large!AnswersReadable
  <1> SUFFICES ASSUME NEW size \in 1..MaxPageSize, NEW page \in 1..2,
                      NEW accepted \in SUBSET {"gzip", "deflate", "br"}
               PROVE  LET answer == Large!Response(page, size, accepted) IN
                      /\ answer.encoding \in accepted \cup {"identity", "error"}
                      /\ answer.encoding = "error" =>
                           \/ Len(Large!Paginated(page, size, Len(rows)).data) < MinSize
                           \/ accepted \subseteq {"br"}
                      /\ answer.encoding # "error" => answer.data = Large!Paginated(page, size, Len(rows)).data
    BY Zenon DEF Large!AnswersReadable
  <1> DEFINE data == Large!Paginated(page, size, Len(rows)).data
             answer == Large!Response(page, size, accepted)
             best == Large!PreferredEncoding(accepted)
             compressed == Large!ShouldCompress(data, accepted)
             plain == Large!ToSet(data) \cap Dated = {}
  <1>1. answer = IF compressed THEN [encoding |-> best, data |-> data]
                 ELSE IF plain THEN [encoding |-> "identity", data |-> data]
                 ELSE [encoding |-> "error"]
    BY Zenon DEF Large!Response
  <1>2. compressed => best \in accepted /\ best # "error"
    BY DEF Large!ShouldCompress, Large!PreferredEncoding
  <1>3. ~compressed => ~ (Len(data) >= MinSize) \/ accepted \subseteq {"br"}
    BY DEF Large!ShouldCompress
  <1>4. Len(data) \in Int /\ MinSize \in Int
    <2>1. MinSize \in Nat
      BY ServicesAssumption, Zenon DEF Large!LargeAssumption
    <2>2. data \in Seq(Int)
      <3>1. size \in 1..(MaxPageSize + 1) /\ page \in Nat \ {0} /\ MaxPageSize \in Nat
        BY LargeNumbers
      <3>2. rows \in Seq(Int) /\ Len(rows) \in Nat /\ StepOf(size) \in Nat \ {0}
        <4>1. 1 \in Int /\ 0 \in Nat
          OBVIOUS
        <4>2. QED
          BY <3>1, <4>1, NextPage, LargeNumbers, Zenon
      <3>3. data = SubSeq(rows, Cut(Len(rows), StepOf(size), page - 1) + 1, Cut(Len(rows), StepOf(size), page))
        BY <3>1, PageOfRows, Zenon
      <3> DEFINE L == Len(rows)
                 step == StepOf(size)
                 a == Cut(L, step, page - 1)
                 b == Cut(L, step, page)
      <3> HIDE DEF L, step
      <3>4. b \in 0..L /\ a \in 0..b
        <4>1. /\ \A n \in Nat : Cut(L, step, n) \in 0..L
              /\ \A n \in Nat \ {0} : Cut(L, step, n - 1) \in 0..Cut(L, step, n)
          BY <3>2, CutIs DEF L, step
        <4>2. page \in Nat
          BY <3>1
        <4>3. QED
          BY <3>1, <4>1, <4>2, Zenon
      <3> HIDE DEF a, b, data
      <3>5. a \in Nat /\ b \in a..L
        BY <3>2, <3>4 DEF L
      <3>6. SubSeq(rows, a + 1, b) \in Seq(Int)
        BY <3>2, <3>5, PartIs DEF L, Stretch
      <3>7. data = SubSeq(rows, a + 1, b)
        BY <3>3, Zenon DEF a, b, L, step
      <3>8. QED
        BY <3>6, <3>7, Zenon
    <2> HIDE DEF data
    <2>3. Len(data) \in Nat
      BY <2>2, LenProperties, Zenon
    <2>4. QED
      BY <2>1, <2>3
  <1> HIDE DEF data, best, compressed, plain, answer
  <1>5. CASE compressed
    <2>1. answer = [encoding |-> best, data |-> data]
      BY <1>1, <1>5, Zenon
    <2>2. answer.encoding = best /\ answer.data = data
      BY <2>1
    <2>3. QED
      BY <1>2, <1>5, <2>2, Zenon DEF answer, data
  <1>6. CASE ~compressed /\ plain
    <2>1. answer = [encoding |-> "identity", data |-> data]
      BY <1>1, <1>6, Zenon
    <2>2. answer.encoding = "identity" /\ answer.data = data /\ "identity" # "error"
      BY <2>1
    <2>3. QED
      BY <2>2, Zenon DEF answer, data
  <1>7. CASE ~compressed /\ ~plain
    <2>1. answer = [encoding |-> "error"]
      BY <1>1, <1>7, Zenon
    <2>2. answer.encoding = "error"
      BY <2>1
    <2>3. Len(data) < MinSize \/ accepted \subseteq {"br"}
      <3>1. ~ (Len(data) >= MinSize) => Len(data) < MinSize
        BY <1>4
      <3>2. QED
        BY <1>3, <1>7, <3>1, Zenon
    <2>4. QED
      BY <2>2, <2>3, Zenon DEF answer, data
  <1>8. QED
    BY <1>5, <1>6, <1>7, Zenon

LEMMA ResultsAreWhole ==
  ASSUME Large!TypeOK
  PROVE  Large!ResultsWhole
  BY ValuesStay, ChunksAgreeing, PagesAgreeing, AnswersReadably, Zenon DEF Large!ResultsWhole

---------------------------------------------------------------------------
(* What is computed from the tables of the knowledge graph.                *)

\* The rows of the tables.
TableRows == UNION {Graph!ToSet(t) : t \in EntityTables \cup RelationTables}

LEMMA TablesHoldRows ==
  ASSUME NEW t \in EntityTables \cup RelationTables
  PROVE  t \in Seq(TableRows)
  <1>1. t \in Seq(Graph!ToSet(t))
    BY ServicesAssumption, Zenon DEF ServicesAssumption, Graph!GraphAssumption
  <1>2. Graph!ToSet(t) \subseteq TableRows
    BY Zenon DEF TableRows
  <1> HIDE DEF TableRows
  <1>3. QED
    BY <1>1, <1>2, SeqMonotonic, Zenon

LEMMA GraphSelects ==
  /\ \A S : Graph!Cardinality(S) = Cardinality(S)
  /\ \A s, K : Graph!Selected(s, K) = Selected(s, K)
  /\ \A ss : Graph!Flattened(ss) = Flattened(ss)
  /\ \A f : Graph!Summed(f) = Summed(f)
  /\ \A f : Graph!Sorting(f) = Sorting(f)
  <1>1. \A S : Graph!Cardinality(S) = Cardinality(S)
    BY Zenon DEF Graph!Cardinality, Cardinality
  <1>2. \A K, n : Graph!Place(K, n) = Place(K, n)
    BY <1>1, Zenon DEF Graph!Place, Place
  <1>3. \A s, K : Graph!Selected(s, K) = Selected(s, K)
    BY <1>1, <1>2, Zenon DEF Graph!Selected, Selected
  <1>4. \A ss : Graph!Spots(ss) = Spots(ss)
    BY Zenon DEF Graph!Spots, Spots
  <1>5. \A ss, u : Graph!UpTo(ss, u) = UpTo(ss, u)
    BY <1>4, Zenon DEF Graph!UpTo, UpTo
  <1>6. \A ss, p : Graph!SpotAt(ss, p) = SpotAt(ss, p)
    BY <1>1, <1>4, <1>5, Zenon DEF Graph!SpotAt, SpotAt
  <1>7. \A ss : Graph!Flattened(ss) = Flattened(ss)
    BY <1>1, <1>4, <1>6, Zenon DEF Graph!Flattened, Flattened
  <1>8. \A f : Graph!UnitsOf(f) = UnitsOf(f)
    BY Zenon DEF Graph!UnitsOf, UnitsOf
  <1>9. \A f : Graph!Summed(f) = Summed(f)
    BY <1>1, <1>8, Zenon DEF Graph!Summed, Summed
  <1>10. \A f, k : Graph!Earlier(f, k) = Earlier(f, k)
    BY Zenon DEF Graph!Earlier, Earlier
  <1>11. \A f, n : Graph!SortedPlace(f, n) = SortedPlace(f, n)
    BY <1>1, <1>10, Zenon DEF Graph!SortedPlace, SortedPlace
  <1>12. \A f : Graph!Sorting(f) = Sorting(f)
    BY <1>11, Zenon DEF Graph!Sorting, Sorting
  <1>13. QED
    BY <1>1, <1>3, <1>7, <1>9, <1>12, Zenon

Least(m, n) == IF m <= n THEN m ELSE n
Most(m, n) == IF m <= n THEN n ELSE m

LEMMA GraphMin ==
  ASSUME NEW m \in Int, NEW n \in Int
  PROVE  /\ Graph!Min({m, n}) = Least(m, n)
         /\ Graph!Max({m, n}) = Most(m, n)
  <1>1. m <= n => Graph!Min({m, n}) = m /\ Graph!Max({m, n}) = n
    BY DEF Graph!Min, Graph!Max
  <1>2. n <= m => Graph!Min({m, n}) = n /\ Graph!Max({m, n}) = m
    BY DEF Graph!Min, Graph!Max
  <1>3. QED
    BY <1>1, <1>2 DEF Least, Most

\* The tables are lists of rows, with numbers where they are counted or compared.
LEMMA TablesTold ==
  ASSUME Graph!TypeOK
  PROVE  /\ entities \in Seq(TableRows) /\ Len(entities) \in Nat /\ DOMAIN entities = 1..Len(entities)
         /\ relations \in Seq(TableRows) /\ Len(relations) \in Nat /\ DOMAIN relations = 1..Len(relations)
         /\ \A n \in DOMAIN entities : entities[n].degree \in Nat /\ entities[n].created \in Nat
         /\ \A m, n \in DOMAIN entities : m # n => /\ entities[m].id # entities[n].id
                                                   /\ entities[m].title # entities[n].title
         /\ \A n \in DOMAIN relations : relations[n].weight \in Nat /\ relations[n].id # 0
  <1>1. entities \in EntityTables /\ relations \in RelationTables
    BY Zenon DEF Graph!TypeOK
  <1>2. entities \in Seq(TableRows) /\ relations \in Seq(TableRows)
    BY <1>1, TablesHoldRows, Zenon
  <1> HIDE DEF TableRows
  <1>3. /\ Len(entities) \in Nat /\ DOMAIN entities = 1..Len(entities)
        /\ Len(relations) \in Nat /\ DOMAIN relations = 1..Len(relations)
    BY <1>2, LenProperties, Zenon
  <1>4. \A n \in DOMAIN entities : entities[n].degree \in Nat /\ entities[n].created \in Nat
    <2>1. \A n \in DOMAIN entities : {entities[n].degree, entities[n].created} \subseteq Nat
      BY <1>1, ServicesAssumption, Zenon DEF ServicesAssumption, Graph!GraphAssumption
    <2>2. QED
      BY <2>1, Zenon
  <1>5. \A m, n \in DOMAIN entities : m # n => /\ entities[m].id # entities[n].id
                                               /\ entities[m].title # entities[n].title
    BY <1>1, ServicesAssumption, Zenon DEF ServicesAssumption, Graph!GraphAssumption
  <1>6. \A n \in DOMAIN relations : relations[n].weight \in Nat
    BY <1>1, ServicesAssumption, Zenon DEF ServicesAssumption, Graph!GraphAssumption
  <1>7. \A n \in DOMAIN relations : relations[n].id # 0
    BY <1>1, ServicesAssumption, Zenon DEF ServicesAssumption, Graph!AnalysesAssumption, Graph!Direct
  <1>8. QED
    BY <1>2, <1>3, <1>4, <1>5, <1>6, <1>7, Zenon

\* A page is the part of the table from one place to another, both within it.
PartFrom(S, table, a, b, page) ==
  /\ a \in Nat /\ b \in Nat /\ a <= b /\ b <= Len(table)
  /\ page \in Seq(S) /\ Len(page) = b - a /\ DOMAIN page = 1..(b - a)
  /\ \A i \in 1..(b - a) : page[i] = table[a + i]

LEMMA PageLies ==
  ASSUME NEW S, NEW table \in Seq(S), NEW offset \in Nat, NEW size \in Nat
  PROVE  PartFrom(S, table, Least(offset, Len(table)), Least(offset + size, Len(table)),
                  Graph!Page(table, offset, size))
  <1> DEFINE L == Len(table)
             a == Least(offset, L)
             b == Least(offset + size, L)
  <1>1. L \in Nat
    BY LenProperties
  <1>2. Graph!Page(table, offset, size) = SubSeq(table, offset + 1, b)
    <2>1. offset + size \in Int /\ L \in Int
      BY <1>1
    <2>2. Graph!Min({offset + size, L}) = b
      BY <2>1, GraphMin, Zenon
    <2>3. QED
      BY <2>2, Zenon DEF Graph!Page
  <1> HIDE DEF L
  <1>3. a \in Nat /\ b \in Nat /\ a <= b /\ b <= L
    BY <1>1 DEF Least
  <1>4. SubSeq(table, offset + 1, b) = SubSeq(table, a + 1, b)
    <2>1. CASE offset <= L
      BY <2>1 DEF Least
    <2>2. CASE ~ (offset <= L)
      <3>1. a = L /\ b = L
        BY <1>1, <2>2 DEF Least
      <3>2. SubSeq(table, offset + 1, L) = <<>> /\ SubSeq(table, L + 1, L) = <<>>
        BY <1>1, <2>2, SubSeqProperties
      <3>3. QED
        BY <3>1, <3>2, Zenon
    <2>3. QED
      BY <2>1, <2>2
  <1> HIDE DEF a, b
  <1>5. /\ SubSeq(table, a + 1, b) \in Seq(S)
        /\ Len(SubSeq(table, a + 1, b)) = b - a /\ DOMAIN SubSeq(table, a + 1, b) = 1..(b - a)
        /\ \A i \in 1..(b - a) : SubSeq(table, a + 1, b)[i] = table[a + i]
    <2>1. b \in a..Len(table)
      BY <1>3 DEF L
    <2>2. QED
      BY <1>3, <2>1, PartIs DEF Stretch
  <1>6. QED
    BY <1>2, <1>3, <1>4, <1>5, Zenon DEF PartFrom, a, b, L

\* The first page is the beginning of the table, and all of it when that is no longer.
FirstRows(S, table, limit, page) ==
  /\ page \in Seq(S) /\ Len(page) = Least(limit, Len(table)) /\ DOMAIN page = 1..Len(page)
  /\ Len(page) \in Nat /\ Len(page) <= Len(table)
  /\ \A i \in DOMAIN page : i \in DOMAIN table /\ page[i] = table[i]
  /\ limit >= Len(table) => page = table

LEMMA FirstPage ==
  ASSUME NEW S, NEW table \in Seq(S), NEW limit \in Nat
  PROVE  FirstRows(S, table, limit, Graph!Page(table, 0, limit))
  <1> DEFINE page == Graph!Page(table, 0, limit)
             L == Len(table)
  <1>1. PartFrom(S, table, Least(0, L), Least(0 + limit, L), page)
    <2>1. 0 \in Nat
      OBVIOUS
    <2>2. QED
      BY <2>1, PageLies, Zenon
  <1>2. L \in Nat /\ DOMAIN table = 1..L /\ table = [i \in 1..L |-> table[i]]
    BY LenProperties
  <1> HIDE DEF L
  <1>3. Least(0, L) = 0 /\ Least(0 + limit, L) = Least(limit, L)
    BY <1>2 DEF Least
  <1> DEFINE b == Least(limit, L)
  <1>4. b \in Nat /\ b <= L /\ (limit >= L => b = L) /\ b - 0 = b /\ 1..b \subseteq 1..L
    BY <1>2 DEF Least
  <1> HIDE DEF b, page
  <1>5. page \in Seq(S) /\ Len(page) = b /\ DOMAIN page = 1..b /\ \A i \in 1..b : page[i] = table[0 + i]
    BY <1>1, <1>3, <1>4, Zenon DEF PartFrom, b, L
  <1>6. \A i \in 1..b : i \in DOMAIN table /\ page[i] = table[i]
    <2>1. \A i \in 1..b : 0 + i = i /\ i \in 1..L
      BY <1>4
    <2>2. QED
      BY <1>2, <1>5, <2>1, Zenon
  <1>7. ASSUME limit >= L PROVE page = table
    <2>1. b = L
      BY <1>4, <1>7
    <2>2. page = [i \in 1..L |-> page[i]]
      BY <1>5, <2>1
    <2>3. QED
      BY <1>2, <1>6, <2>1, <2>2
  <1>8. QED
    BY <1>4, <1>5, <1>6, <1>7, Zenon DEF FirstRows, page, b, L

\* What is selected has the rows selected, and is as long as they are many.
RowsAt(s, K) == {s[k] : k \in K}
OnlyRowsAt(t, s, K) == \A n \in DOMAIN t : \E k \in K : t[n] = s[k]

LEMMA SelectionTold ==
  ASSUME NEW S, NEW s \in Seq(S), NEW K \in SUBSET (DOMAIN s)
  PROVE  /\ Selected(s, K) \in Seq(S) /\ Len(Selected(s, K)) = Cardinality(K)
         /\ Cardinality(K) \in Nat /\ Cardinality(K) <= Len(s)
         /\ Graph!ToSet(Selected(s, K)) = RowsAt(s, K)
         /\ OnlyRowsAt(Selected(s, K), s, K)
  <1> DEFINE t == Selected(s, K)
  <1>1. /\ K \subseteq Nat /\ IsFiniteSet(K) /\ \A k \in K : s[k] \in S
        /\ Cardinality(K) \in Nat /\ Cardinality(K) <= Len(s)
    BY PlacesOfList, Zenon
  <1>2. /\ t \in Seq(S) /\ Len(t) = Cardinality(K) /\ DOMAIN t = 1..Cardinality(K)
        /\ \A n \in 1..Cardinality(K) : Place(K, n) \in K /\ t[n] = s[Place(K, n)]
        /\ \A k \in K : \E n \in 1..Cardinality(K) : Place(K, n) = k
    <2>1. t \in Seq(S) /\ Len(t) = Cardinality(K) /\ DOMAIN t = 1..Cardinality(K)
      BY <1>1, SelectedIs, Zenon
    <2>2. \A n \in 1..Cardinality(K) : Place(K, n) \in K /\ t[n] = s[Place(K, n)]
      BY <1>1, PlacesOnce, Zenon DEF Selected
    <2>3. \A k \in K : \E n \in 1..Cardinality(K) : Place(K, n) = k
      BY <1>1, SelectedIs, Zenon
    <2>4. QED
      BY <2>1, <2>2, <2>3, Zenon
  <1> HIDE DEF t
  <1>3. \A n \in DOMAIN t : \E k \in K : t[n] = s[k]
    BY <1>2, Zenon
  <1>4. \A k \in K : \E n \in DOMAIN t : t[n] = s[k]
    BY <1>2, Zenon
  <1>5. Graph!ToSet(t) = RowsAt(s, K)
    BY <1>3, <1>4 DEF Graph!ToSet, RowsAt
  <1>6. QED
    BY <1>1, <1>2, <1>3, <1>5, Zenon DEF t, OnlyRowsAt

\* The entities in the order of their degrees, the greatest first, and of those as many as
\* there is room for.
DegreeOrder == Sorting([n \in DOMAIN entities |-> -entities[n].degree])

LEMMA DegreesOrdered ==
  ASSUME Graph!TypeOK
  PROVE  /\ \A n \in 1..Len(entities) : DegreeOrder[n] \in 1..Len(entities)
         /\ \A k \in 1..Len(entities) : \E n \in 1..Len(entities) : DegreeOrder[n] = k
         /\ \A m, n \in 1..Len(entities) : DegreeOrder[m] = DegreeOrder[n] => m = n
         /\ \A m, n \in 1..Len(entities) :
              m <= n => entities[DegreeOrder[m]].degree >= entities[DegreeOrder[n]].degree
  <1> DEFINE N == Len(entities)
             keys == [n \in DOMAIN entities |-> -entities[n].degree]
  <1>1. N \in Nat /\ DOMAIN entities = 1..N /\ \A n \in 1..N : entities[n].degree \in Nat
    BY TablesTold, Zenon
  <1> HIDE DEF N
  <1>2. keys \in [1..N -> Int] /\ \A n \in 1..N : keys[n] = -entities[n].degree
    BY <1>1
  <1> HIDE DEF keys
  <1>3. /\ \A n \in 1..N : Sorting(keys)[n] \in 1..N
        /\ \A k \in 1..N : \E n \in 1..N : Sorting(keys)[n] = k
        /\ \A m, n \in 1..N : Sorting(keys)[m] = Sorting(keys)[n] => m = n
        /\ \A m, n \in 1..N : m <= n => keys[Sorting(keys)[m]] <= keys[Sorting(keys)[n]]
    BY <1>1, <1>2, SortingOnce, Zenon
  <1>4. DegreeOrder = Sorting(keys)
    BY Zenon DEF DegreeOrder, keys
  <1>5. ASSUME NEW m \in 1..N, NEW n \in 1..N, m <= n
        PROVE  entities[DegreeOrder[m]].degree >= entities[DegreeOrder[n]].degree
    <2> DEFINE x == DegreeOrder[m]
               y == DegreeOrder[n]
    <2>1. x \in 1..N /\ y \in 1..N /\ keys[x] <= keys[y]
      BY <1>3, <1>4, <1>5, Zenon
    <2> HIDE DEF x, y
    <2>2. entities[x].degree \in Nat /\ entities[y].degree \in Nat
          /\ keys[x] = -entities[x].degree /\ keys[y] = -entities[y].degree
      BY <1>1, <1>2, <2>1, Zenon
    <2>3. entities[x].degree >= entities[y].degree
      BY <2>1, <2>2
    <2>4. QED
      BY <2>3, Zenon DEF x, y
  <1>6. QED
    BY <1>3, <1>4, <1>5, Zenon DEF N

\* The drawing takes as many of them as there is room for, each once.
LEMMA LargestAre ==
  ASSUME Graph!TypeOK, NEW limit \in Nat
  PROVE  /\ Least(limit, Len(entities)) \in 0..Len(entities)
         /\ limit >= Len(entities) => Least(limit, Len(entities)) = Len(entities)
         /\ Graph!Largest(limit) = {entities[DegreeOrder[n]] : n \in 1..Least(limit, Len(entities))}
  <1>1. Len(entities) \in Nat /\ limit \in Int /\ Len(entities) \in Int
    BY TablesTold
  <1>2. Graph!Min({limit, Len(entities)}) = Least(limit, Len(entities))
    BY <1>1, GraphMin, Zenon
  <1>3. Graph!Largest(limit) = {entities[DegreeOrder[n]] : n \in 1..Least(limit, Len(entities))}
    BY <1>2, GraphSelects, Zenon DEF Graph!Largest, DegreeOrder
  <1>4. QED
    BY <1>1, <1>3 DEF Least

\* A node of a drawing, and the title by which it is known.
NodeOf(row) == [id |-> row.title, label |-> row.title]
NodeIdsOf(nodes) == {n.id : n \in nodes}

LEMMA DrawnNodes ==
  ASSUME Graph!TypeOK, NEW limit \in Nat
  PROVE  LET nodes == {NodeOf(row) : row \in Graph!Largest(limit)} IN
         /\ NodeIdsOf(nodes) = Graph!Titles(Graph!Largest(limit))
         /\ Cardinality(nodes) = Least(limit, Len(entities))
         /\ \A m, n \in DOMAIN entities :
              entities[m].title \in NodeIdsOf(nodes) /\ entities[n].title \notin NodeIdsOf(nodes)
                => entities[m].degree >= entities[n].degree
  <1> DEFINE N == Len(entities)
             b == Least(limit, N)
             nodes == {NodeOf(row) : row \in Graph!Largest(limit)}
             T == Graph!Titles(Graph!Largest(limit))
             At(n) == entities[DegreeOrder[n]]
  <1>1. /\ N \in Nat /\ DOMAIN entities = 1..N
        /\ \A n \in 1..N : entities[n].degree \in Nat
        /\ \A m, n \in 1..N : entities[m].title = entities[n].title => m = n
    BY TablesTold, Zenon
  <1>2. /\ \A n \in 1..N : DegreeOrder[n] \in 1..N
        /\ \A k \in 1..N : \E n \in 1..N : DegreeOrder[n] = k
        /\ \A m, n \in 1..N : DegreeOrder[m] = DegreeOrder[n] => m = n
        /\ \A m, n \in 1..N : m <= n => At(m).degree >= At(n).degree
    BY DegreesOrdered, Zenon
  <1>3. b \in 0..N /\ Graph!Largest(limit) = {At(n) : n \in 1..b}
    BY LargestAre, Zenon
  <1> HIDE DEF N, b
  <1>4. b \in Nat /\ \A n \in 1..b : n \in 1..N
    BY <1>1, <1>3
  <1>5. NodeIdsOf(nodes) = T
    <2>1. \A row : NodeOf(row).id = row.title
      BY DEF NodeOf
    <2>2. QED
      BY <2>1, Zenon DEF NodeIdsOf, Graph!Titles
  <1>6. \A n \in 1..b : At(n).title \in T
    BY <1>3, Zenon DEF Graph!Titles
  <1>7. \A t \in T : \E n \in 1..b : At(n).title = t
    BY <1>3, Zenon DEF Graph!Titles
  <1>8. Cardinality(nodes) = b
    <2> DEFINE f == [n \in 1..b |-> NodeOf(At(n))]
    <2>1. f \in [1..b -> nodes]
      <3>1. \A n \in 1..b : NodeOf(At(n)) \in nodes
        BY <1>3, Zenon
      <3> HIDE DEF nodes
      <3>2. QED
        BY <3>1
    <2>2. \A x \in nodes : \E n \in 1..b : f[n] = x
      BY <1>3, Zenon
    <2>3. ASSUME NEW m \in 1..b, NEW n \in 1..b, f[m] = f[n] PROVE m = n
      <3>1. f[m] = NodeOf(At(m)) /\ f[n] = NodeOf(At(n))
        BY Zenon
      <3>2. \A row : NodeOf(row).id = row.title
        BY DEF NodeOf
      <3>3. At(m).title = At(n).title
        BY <2>3, <3>1, <3>2, Zenon
      <3>4. DegreeOrder[m] = DegreeOrder[n]
        BY <1>1, <1>2, <1>4, <3>3, Zenon
      <3>5. QED
        BY <1>2, <1>4, <3>4, Zenon
    <2>4. IsFiniteSet(1..b) /\ Cardinality(1..b) = b
      BY <1>4, FirstNumbers, Zenon
    <2> HIDE DEF f, nodes
    <2>5. QED
      BY <2>1, <2>2, <2>3, <2>4, OneToOne, Zenon
  <1> HIDE DEF nodes, T
  <1>9. ASSUME NEW m \in 1..N, NEW n \in 1..N, entities[m].title \in T, entities[n].title \notin T
        PROVE  entities[m].degree >= entities[n].degree
    <2>1. PICK i \in 1..b : At(i).title = entities[m].title
      BY <1>7, <1>9, Zenon
    <2>2. DegreeOrder[i] = m
      BY <1>1, <1>2, <1>4, <2>1, Zenon
    <2>3. PICK j \in 1..N : DegreeOrder[j] = n
      BY <1>2, Zenon
    <2>4. j \notin 1..b
      BY <1>6, <1>9, <2>3, Zenon
    <2>5. i <= j /\ i \in 1..N
      BY <1>1, <1>4, <2>4
    <2>6. QED
      BY <1>2, <2>2, <2>3, <2>5, Zenon
  <1>10. \A m, n \in DOMAIN entities :
           entities[m].title \in NodeIdsOf(nodes) /\ entities[n].title \notin NodeIdsOf(nodes)
             => entities[m].degree >= entities[n].degree
    BY <1>1, <1>5, <1>9, Zenon
  <1>11. NodeIdsOf(nodes) = Graph!Titles(Graph!Largest(limit)) /\ Cardinality(nodes) = Least(limit, Len(entities))
    BY <1>5, <1>8, Zenon DEF T, b, N
  <1>12. QED
    BY <1>10, <1>11, Zenon DEF nodes

\* The relationships drawn join what is drawn.
LEMMA DrawnJoin ==
  ASSUME Graph!TypeOK, NEW nodes, NEW most \in Nat,
         NEW n \in DOMAIN Graph!Drawn(nodes, most)
  PROVE  {Graph!Drawn(nodes, most)[n].source, Graph!Drawn(nodes, most)[n].target} \subseteq Graph!Titles(nodes)
  <1> DEFINE K == {k \in DOMAIN relations : {relations[k].source, relations[k].target} \subseteq Graph!Titles(nodes)}
             s == Selected(relations, K)
  <1>1. Graph!Drawn(nodes, most) = Graph!Page(s, 0, most)
    BY GraphSelects, Zenon DEF Graph!Drawn
  <1>2. relations \in Seq(TableRows) /\ K \in SUBSET (DOMAIN relations)
    BY TablesTold, Zenon
  <1>3. \A k \in K : {relations[k].source, relations[k].target} \subseteq Graph!Titles(nodes)
    BY Zenon
  <1> HIDE DEF K, TableRows
  <1>4. s \in Seq(TableRows) /\ \A i \in DOMAIN s : \E k \in K : s[i] = relations[k]
    <2>1. Selected(relations, K) \in Seq(TableRows) /\ OnlyRowsAt(Selected(relations, K), relations, K)
      BY <1>2, SelectionTold, Zenon
    <2>2. QED
      BY <2>1, Zenon DEF OnlyRowsAt
  <1> HIDE DEF s
  <1>5. FirstRows(TableRows, s, most, Graph!Page(s, 0, most))
    BY <1>4, FirstPage, Zenon
  <1>6. PICK k \in K : Graph!Drawn(nodes, most)[n] = relations[k]
    BY <1>1, <1>4, <1>5, Zenon DEF FirstRows
  <1>7. QED
    BY <1>3, <1>6, Zenon

RouteNode(row) == [id |-> row.id, label |-> row.title]

LEMMA DrawingsHold ==
  ASSUME Graph!TypeOK
  PROVE  Graph!DrawingsClosed
  <1> SUFFICES ASSUME NEW limit \in 1..(Len(entities) + 1), NEW most \in 1..(Len(relations) + 1)
               PROVE  LET drawing == Graph!GenerateVisualization(limit, most)
                          route == Graph!CreateVisualization(limit, most)
                          NodeIds(d) == {n.id : n \in d.nodes}
                      IN /\ \A n \in DOMAIN drawing.edges :
                              {drawing.edges[n].source, drawing.edges[n].target} \subseteq NodeIds(drawing)
                         /\ Graph!Cardinality(drawing.nodes) = Graph!Min({limit, Len(entities)})
                         /\ \A m, n \in DOMAIN entities :
                              entities[m].title \in NodeIds(drawing) /\ entities[n].title \notin NodeIds(drawing)
                                => entities[m].degree >= entities[n].degree
                         /\ Graph!Matching /\ limit >= Len(entities) =>
                              \A n \in DOMAIN route.edges :
                                {route.edges[n].source, route.edges[n].target} \subseteq {m.label : m \in route.nodes}
    BY Zenon DEF Graph!DrawingsClosed
  <1> DEFINE largest == Graph!Largest(limit)
             nodes == {NodeOf(row) : row \in largest}
             edges == Graph!Drawn(largest, most)
             drawing == Graph!GenerateVisualization(limit, most)
             route == Graph!CreateVisualization(limit, most)
             sent == {RouteNode(row) : row \in Graph!ToSet(Graph!Page(entities, 0, limit))}
             page == Graph!Page(relations, 0, most)
  <1>1. /\ entities \in Seq(TableRows) /\ Len(entities) \in Nat
        /\ relations \in Seq(TableRows) /\ Len(relations) \in Nat
    BY TablesTold, Zenon
  <1>2. limit \in Nat /\ most \in Nat
    BY <1>1
  <1>3. drawing.nodes = nodes /\ drawing.edges = edges
    BY DEF Graph!GenerateVisualization, NodeOf
  <1>4. route.nodes = sent /\ route.edges = page
    BY DEF Graph!CreateVisualization, RouteNode
  <1>5. /\ NodeIdsOf(nodes) = Graph!Titles(largest)
        /\ Cardinality(nodes) = Least(limit, Len(entities))
        /\ \A m, n \in DOMAIN entities :
             entities[m].title \in NodeIdsOf(nodes) /\ entities[n].title \notin NodeIdsOf(nodes)
               => entities[m].degree >= entities[n].degree
    BY <1>2, DrawnNodes, Zenon
  <1>6. Graph!Cardinality(nodes) = Graph!Min({limit, Len(entities)})
    <2>1. limit \in Int /\ Len(entities) \in Int
      BY <1>1, <1>2
    <2> HIDE DEF nodes
    <2>2. QED
      BY <1>5, <2>1, GraphMin, GraphSelects, Zenon
  <1>7. \A n \in DOMAIN edges : {edges[n].source, edges[n].target} \subseteq Graph!Titles(largest)
    BY <1>2, DrawnJoin, Zenon
  <1>8. ASSUME Graph!Matching, limit >= Len(entities), NEW n \in DOMAIN page
        PROVE  {page[n].source, page[n].target} \subseteq {m.label : m \in sent}
    <2>1. /\ FirstRows(TableRows, entities, limit, Graph!Page(entities, 0, limit))
          /\ FirstRows(TableRows, relations, most, page)
      BY <1>1, <1>2, FirstPage, Zenon
    <2>2. Graph!Page(entities, 0, limit) = entities
      BY <1>8, <2>1, Zenon DEF FirstRows
    <2>3. {m.label : m \in sent} = Graph!Titles(Graph!ToSet(entities))
      <3>1. \A row : RouteNode(row).label = row.title
        BY DEF RouteNode
      <3>2. sent = {RouteNode(row) : row \in Graph!ToSet(entities)}
        BY <2>2, Zenon
      <3> HIDE DEF sent
      <3>3. QED
        BY <3>1, <3>2, Zenon DEF Graph!Titles
    <2> HIDE DEF page, sent
    <2>4. n \in DOMAIN relations /\ page[n] = relations[n]
      BY <1>8, <2>1, Zenon DEF FirstRows
    <2>5. QED
      BY <1>8, <2>3, <2>4, Zenon DEF Graph!Matching
  <1> HIDE DEF nodes, edges, drawing, route, sent, page, largest
  <1>9. {n.id : n \in drawing.nodes} = NodeIdsOf(nodes)
    BY <1>3, Zenon DEF NodeIdsOf
  <1>10. /\ \A n \in DOMAIN drawing.edges :
              {drawing.edges[n].source, drawing.edges[n].target} \subseteq {m.id : m \in drawing.nodes}
         /\ Graph!Cardinality(drawing.nodes) = Graph!Min({limit, Len(entities)})
    BY <1>3, <1>5, <1>6, <1>7, <1>9, Zenon
  <1>11. \A m, n \in DOMAIN entities :
           /\ entities[m].title \in {x.id : x \in drawing.nodes}
           /\ entities[n].title \notin {x.id : x \in drawing.nodes}
           => entities[m].degree >= entities[n].degree
    BY <1>5, <1>9, Zenon
  <1>12. Graph!Matching /\ limit >= Len(entities) =>
           \A n \in DOMAIN route.edges :
             {route.edges[n].source, route.edges[n].target} \subseteq {m.label : m \in route.nodes}
    BY <1>4, <1>8, Zenon
  <1>13. QED
    BY <1>10, <1>11, <1>12, Zenon DEF drawing, route

\* The clusters are the parts of the table from one place to the next, the last longer.
LEMMA ClustersJoined ==
  ASSUME Graph!TypeOK, NEW k \in Nat \ {0}
  PROVE  Flattened([n \in 1..k |-> Graph!Cluster(n - 1, k)]) = entities
  <1> DEFINE N == Len(entities)
             size == Graph!Max({1, N \div k})
             ss == [n \in 1..k |-> Graph!Cluster(n - 1, k)]
             Cutting(n) == IF n < k THEN Least(n * size, N) ELSE N
             off == [n \in 0..k |-> Cutting(n)]
  <1>1. entities \in Seq(TableRows) /\ N \in Nat
    BY TablesTold, Zenon
  <1>2. size \in Nat \ {0}
    <2> HIDE DEF N
    <2>1. N \div k \in Nat
      BY <1>1
    <2>2. size = Most(1, N \div k)
      <3>1. 1 \in Int /\ N \div k \in Int
        BY <2>1
      <3>2. QED
        BY <3>1, GraphMin, Zenon
    <2> HIDE DEF size
    <2>3. QED
      BY <2>1, <2>2 DEF Most
  <1>3. \A n \in 1..k : ss[n] = Graph!Page(entities, (n - 1) * size, IF n - 1 < k - 1 THEN size ELSE N)
    BY Zenon DEF Graph!Cluster
  <1> HIDE DEF size, N, ss, TableRows
  <1>4. \A n \in 0..k : Cutting(n) \in Nat
    <2>1. \A n \in 0..k : n * size \in Nat
      BY <1>2
    <2>2. QED
      BY <1>1, <2>1 DEF Least
  <1>5. Cutting(0) = 0 /\ Cutting(k) = N
    <2>1. 0 * size = 0
      BY <1>2
    <2>2. QED
      BY <1>1, <2>1 DEF Least
  <1>6. off \in [0..k -> Nat] /\ off[0] = 0 /\ off[k] = N
    <2>1. 0 \in 0..k /\ k \in 0..k
      OBVIOUS
    <2> HIDE DEF Cutting
    <2>2. QED
      BY <1>4, <1>5, <2>1
  <1>7. ASSUME NEW n \in 1..k
        PROVE  /\ off[n - 1] <= off[n] /\ DOMAIN ss[n] = 1..(off[n] - off[n - 1])
               /\ \A i \in 1..(off[n] - off[n - 1]) : ss[n][i] = entities[off[n - 1] + i]
    <2> DEFINE o == (n - 1) * size
               s == IF n - 1 < k - 1 THEN size ELSE N
               a == Least(o, N)
               b == Least(o + s, N)
    <2>1. n - 1 \in 0..k /\ n \in 0..k /\ n - 1 < k /\ n \in Int
      OBVIOUS
    <2>2. o \in Nat /\ s \in Nat
      BY <1>1, <1>2
    <2>3. PartFrom(TableRows, entities, a, b, ss[n])
      <3> HIDE DEF o, s
      <3>1. PartFrom(TableRows, entities, a, b, Graph!Page(entities, o, s))
        BY <1>1, <2>2, PageLies, Zenon DEF N
      <3>2. ss[n] = Graph!Page(entities, o, s)
        BY <1>3, Zenon DEF o, s
      <3>3. QED
        BY <3>1, <3>2, Zenon
    <2>4. off[n - 1] = Cutting(n - 1) /\ off[n] = Cutting(n)
      <3> HIDE DEF Cutting
      <3>1. QED
        BY <2>1
    <2>5. Cutting(n - 1) = a
      BY <2>1
    <2>6. Cutting(n) = b
      <3>1. CASE n < k
        <4>1. o + s = n * size
          <5>1. s = size
            BY <2>1, <3>1
          <5>2. (n - 1) * size + size = n * size
            BY <1>2, <2>1
          <5>3. QED
            BY <5>1, <5>2
        <4>2. QED
          BY <3>1, <4>1
      <3>2. CASE ~ (n < k)
        <4>1. s = N
          BY <3>2
        <4> HIDE DEF o, s
        <4>2. b = N
          BY <1>1, <2>2, <4>1 DEF Least
        <4> HIDE DEF b
        <4>3. QED
          BY <3>2, <4>2
      <3>3. QED
        BY <3>1, <3>2
    <2> HIDE DEF a, b, off, Cutting
    <2>7. QED
      BY <2>3, <2>4, <2>5, <2>6, Zenon DEF PartFrom
  <1>8. DOMAIN ss = 1..k
    BY Zenon DEF ss
  <1> HIDE DEF off, Cutting
  <1>9. \A n \in 1..k : off[n - 1] <= off[n] /\ DOMAIN ss[n] = 1..(off[n] - off[n - 1])
    BY <1>7, Zenon
  <1>10. \A n \in 1..k : \A i \in 1..(off[n] - off[n - 1]) : ss[n][i] = entities[off[n - 1] + i]
    BY <1>7, Zenon
  <1>11. k \in Nat /\ off[k] = Len(entities)
    BY <1>6 DEF N
  <1>12. Flattened(ss) = entities
    BY <1>1, <1>6, <1>8, <1>9, <1>10, <1>11, BlocksFlattened, Zenon
  <1>13. QED
    BY <1>12, Zenon DEF ss

\* The counts of the entity types are those of their entities, and all of them together.
LEMMA TypesCounted ==
  ASSUME Graph!TypeOK
  PROVE  /\ \A type \in DOMAIN Graph!EntityTypes : Len(Graph!Community(type)) = Graph!EntityTypes[type]
         /\ Summed(Graph!EntityTypes) = Len(entities)
  <1> DEFINE P == DOMAIN entities
             share == [p \in P |-> entities[p].type]
             f == Graph!EntityTypes
             Of(type) == {n \in DOMAIN entities : entities[n].type = type}
  <1>1. entities \in Seq(TableRows) /\ Len(entities) \in Nat /\ P = 1..Len(entities)
    BY TablesTold, Zenon
  <1>2. /\ DOMAIN f = {entities[n].type : n \in DOMAIN entities}
        /\ \A type \in DOMAIN f : f[type] = Cardinality(Of(type))
    BY GraphSelects, Zenon DEF Graph!EntityTypes
  <1>3. \A type \in DOMAIN f : Len(Graph!Community(type)) = f[type]
    <2>1. \A type : Graph!Community(type) = Selected(entities, Of(type))
      BY GraphSelects, Zenon DEF Graph!Community
    <2>2. \A type : Of(type) \in SUBSET (DOMAIN entities)
      BY Zenon
    <2> HIDE DEF Of, TableRows
    <2>3. \A type : Len(Selected(entities, Of(type))) = Cardinality(Of(type))
      BY <1>1, <2>2, SelectionTold, Zenon
    <2>4. QED
      BY <1>2, <2>1, <2>3, Zenon
  <1>4. P \subseteq Nat /\ IsFiniteSet(P) /\ Cardinality(P) = Len(entities)
    <2>1. 1..Len(entities) \subseteq Nat
      OBVIOUS
    <2> HIDE DEF P
    <2>2. QED
      BY <1>1, <2>1, FirstNumbers, Zenon
  <1>5. \A type : Of(type) = Sharing(P, share, type)
    BY Zenon DEF Sharing
  <1>6. \A type \in DOMAIN f : f[type] = Cardinality(Sharing(P, share, type))
    BY <1>2, <1>5, Zenon
  <1>7. \A p \in P : share[p] \in DOMAIN f
    BY <1>2, Zenon
  <1> HIDE DEF P, share, f
  <1>8. Summed(f) = Cardinality(P)
    BY <1>4, <1>6, <1>7, SharesSum, Zenon
  <1>9. QED
    BY <1>3, <1>4, <1>8, Zenon DEF f

LEMMA GroupsHold ==
  ASSUME Graph!TypeOK
  PROVE  Graph!GroupsPartition
  <1>1. ASSUME NEW asked \in 0..(Len(entities) + 2) PROVE Graph!NumClusters(asked) \in Nat \ {0}
    <2>1. Len(entities) \in Nat
      BY TablesTold, Zenon
    <2>2. CASE asked = 0
      <3> DEFINE x == Len(entities) \div 5
                 y == Graph!Max({1, x})
      <3>1. x \in Nat
        BY <2>1
      <3>2. Graph!NumClusters(asked) = Graph!Min({10, y})
        BY <2>2, Zenon DEF Graph!NumClusters
      <3> HIDE DEF x
      <3>3. y = Most(1, x)
        <4>1. 1 \in Int /\ x \in Int
          BY <3>1
        <4>2. QED
          BY <4>1, GraphMin, Zenon
      <3> HIDE DEF y
      <3>4. y \in Nat \ {0}
        BY <3>1, <3>3 DEF Most
      <3>5. Graph!Min({10, y}) = Least(10, y)
        <4>1. 10 \in Int /\ y \in Int
          BY <3>4
        <4>2. QED
          BY <4>1, GraphMin, Zenon
      <3>6. QED
        BY <3>2, <3>4, <3>5 DEF Least
    <2>3. CASE asked # 0
      BY <2>1, <2>3 DEF Graph!NumClusters
    <2>4. QED
      BY <2>2, <2>3, Zenon
  <1>2. ASSUME NEW asked \in 0..(Len(entities) + 2)
        PROVE  LET k == Graph!NumClusters(asked) IN
               Graph!Flattened([n \in 1..k |-> Graph!Cluster(n - 1, k)]) = entities
    BY <1>1, ClustersJoined, GraphSelects, Zenon
  <1>3. QED
    BY <1>2, TypesCounted, GraphSelects, Zenon DEF Graph!GroupsPartition

\* The titles are as many as the entities.
AllTitles == Graph!Titles(Graph!ToSet(entities))

LEMMA TitlesCounted ==
  ASSUME Graph!TypeOK
  PROVE  /\ IsFiniteSet(AllTitles) /\ Cardinality(AllTitles) = Len(entities)
         /\ \A n \in DOMAIN entities : entities[n].title \in AllTitles
         /\ \A t \in AllTitles : \E n \in DOMAIN entities : entities[n].title = t
  <1> DEFINE N == Len(entities)
             f == [n \in 1..N |-> entities[n].title]
  <1>1. /\ N \in Nat /\ DOMAIN entities = 1..N
        /\ \A m, n \in 1..N : entities[m].title = entities[n].title => m = n
    BY TablesTold, Zenon
  <1>2. /\ \A n \in DOMAIN entities : entities[n].title \in AllTitles
        /\ \A t \in AllTitles : \E n \in DOMAIN entities : entities[n].title = t
    BY Zenon DEF AllTitles, Graph!Titles, Graph!ToSet
  <1> HIDE DEF N
  <1>3. f \in [1..N -> AllTitles]
    BY <1>1, <1>2
  <1>4. /\ \A m, n \in 1..N : f[m] = f[n] => m = n
        /\ \A t \in AllTitles : \E n \in 1..N : f[n] = t
    BY <1>1, <1>2, Zenon
  <1>5. IsFiniteSet(1..N) /\ Cardinality(1..N) = N
    BY <1>1, FirstNumbers, Zenon
  <1> HIDE DEF f
  <1>6. IsFiniteSet(AllTitles) /\ Cardinality(AllTitles) = N
    BY <1>3, <1>4, <1>5, OneToOne, Zenon
  <1>7. QED
    BY <1>2, <1>6, Zenon DEF N

\* There is a component when there is an entity, and one for each when nothing is joined.
LEMMA ComponentsCounted ==
  ASSUME Graph!TypeOK, entities # <<>>
  PROVE  /\ Cardinality(Graph!Components) \in Nat /\ Cardinality(Graph!Components) >= 1
         /\ relations = <<>> => Cardinality(Graph!Components) = Len(entities)
  <1> DEFINE N == Len(entities)
             C == Graph!Components
             f == [n \in 1..N |-> Graph!Component(entities[n].title)]
  <1>1. /\ N \in Nat /\ DOMAIN entities = 1..N
        /\ \A m, n \in 1..N : entities[m].title = entities[n].title => m = n
    BY TablesTold, Zenon
  <1>2. /\ IsFiniteSet(AllTitles)
        /\ \A n \in DOMAIN entities : entities[n].title \in AllTitles
        /\ \A t \in AllTitles : \E n \in DOMAIN entities : entities[n].title = t
    BY TitlesCounted, Zenon
  <1>3. C = {Graph!Component(t) : t \in AllTitles}
    BY Zenon DEF Graph!Components, AllTitles
  <1>4. 1 \in 1..N
    <2>1. entities \in Seq(TableRows) /\ N # 0
      <3>1. entities \in Seq(TableRows)
        BY TablesTold, Zenon
      <3>2. QED
        BY <3>1
    <2>2. QED
      BY <1>1, <2>1
  <1> HIDE DEF N, C
  <1>5. f \in [1..N -> C]
    <2>1. \A n \in 1..N : Graph!Component(entities[n].title) \in C
      BY <1>1, <1>2, <1>3, Zenon
    <2>2. QED
      BY <2>1
  <1>6. \A c \in C : \E n \in 1..N : f[n] = c
    <2>1. \A n \in 1..N : f[n] = Graph!Component(entities[n].title)
      BY Zenon
    <2> HIDE DEF f
    <2>2. ASSUME NEW c \in C PROVE \E n \in 1..N : f[n] = c
      <3>1. PICK t \in AllTitles : c = Graph!Component(t)
        BY <1>3, Zenon
      <3>2. PICK n \in 1..N : entities[n].title = t
        BY <1>1, <1>2, Zenon
      <3>3. QED
        BY <2>1, <3>1, <3>2, Zenon
    <2>3. QED
      BY <2>2, Zenon
  <1>7. IsFiniteSet(1..N) /\ Cardinality(1..N) = N
    BY <1>1, FirstNumbers, Zenon
  <1>8. IsFiniteSet(C)
    <2> HIDE DEF f
    <2>1. QED
      BY <1>5, <1>6, <1>7, ImageOf, Zenon
  <1>9. Cardinality(C) \in Nat /\ Cardinality(C) >= 1
    <2>1. f[1] \in C
      BY <1>4, <1>5
    <2> HIDE DEF f
    <2>2. C # {}
      BY <2>1, Zenon
    <2>3. Cardinality(C) \in Nat /\ Cardinality(C) # 0
      BY <1>8, <2>2, FS_EmptySet, FS_CardinalityType, Zenon
    <2>4. QED
      BY <2>3
  <1>10. ASSUME relations = <<>> PROVE Cardinality(C) = N
    <2>1. ASSUME NEW a, NEW b PROVE ~ Graph!Joined(a, b)
      <3>1. DOMAIN relations = {}
        BY <1>10
      <3>2. QED
        BY <3>1, Zenon DEF Graph!Joined
    <2>2. \A S : Graph!Closed(S)
      BY <2>1, Zenon DEF Graph!Closed
    <2>3. ASSUME NEW t \in AllTitles PROVE Graph!Component(t) = {t}
      <3>1. t \in Graph!Component(t)
        BY Zenon DEF Graph!Component, AllTitles
      <3>2. {t} \in SUBSET AllTitles
        BY Zenon
      <3>3. \A b \in Graph!Component(t) : b \in {t}
        BY <2>2, <3>2, Zenon DEF Graph!Component, AllTitles
      <3>4. QED
        BY <3>1, <3>3, Zenon
    <2>4. ASSUME NEW m \in 1..N, NEW n \in 1..N, f[m] = f[n] PROVE m = n
      <3>1. f[m] = {entities[m].title} /\ f[n] = {entities[n].title}
        BY <1>1, <1>2, <2>3, Zenon
      <3>2. entities[m].title = entities[n].title
        BY <2>4, <3>1, Zenon
      <3>3. QED
        BY <1>1, <3>2, Zenon
    <2> HIDE DEF f
    <2>5. QED
      BY <1>5, <1>6, <1>7, <2>4, OneToOne, Zenon
  <1>11. QED
    BY <1>9, <1>10, Zenon DEF C, N

\* Relationships that join each pair once, and nothing to itself, are at most half as many
\* as the pairs of different titles in one order and in the other.
LEMMA PairsCounted ==
  ASSUME Graph!TypeOK, Graph!Matching, Graph!Simple
  PROVE  2 * Len(relations) <= Len(entities) * (Len(entities) - 1)
  <1> DEFINE N == Len(entities)
             M == Len(relations)
             T == AllTitles
             there == [n \in 1..M |-> <<relations[n].source, relations[n].target>>]
             back == [n \in 1..M |-> <<relations[n].target, relations[n].source>>]
             A == {there[n] : n \in 1..M}
             B == {back[n] : n \in 1..M}
             same == [t \in T |-> <<t, t>>]
             D == {same[t] : t \in T}
  <1>1. /\ N \in Nat /\ M \in Nat /\ DOMAIN relations = 1..M
    BY TablesTold, Zenon
  <1>2. IsFiniteSet(T) /\ Cardinality(T) = N
    BY TitlesCounted, Zenon
  <1>3. \A n \in 1..M : relations[n].source \in T /\ relations[n].target \in T
    BY <1>1, Zenon DEF Graph!Matching, AllTitles
  <1>4. /\ \A n \in 1..M : relations[n].source # relations[n].target
        /\ \A m, n \in 1..M : m # n => {relations[m].source, relations[m].target} # {relations[n].source, relations[n].target}
    BY <1>1, Zenon DEF Graph!Simple
  <1> HIDE DEF N, M, T
  <1>5. IsFiniteSet(1..M) /\ Cardinality(1..M) = M
    BY <1>1, FirstNumbers, Zenon
  <1>6. IsFiniteSet(A) /\ Cardinality(A) = M
    <2>1. there \in [1..M -> A] /\ \A x \in A : \E n \in 1..M : there[n] = x
      OBVIOUS
    <2>2. ASSUME NEW m \in 1..M, NEW n \in 1..M, there[m] = there[n] PROVE m = n
      <3>1. relations[m].source = relations[n].source /\ relations[m].target = relations[n].target
        BY <2>2
      <3>2. QED
        BY <1>4, <3>1, Zenon
    <2> HIDE DEF there, A
    <2>3. QED
      BY <1>5, <2>1, <2>2, OneToOne, Zenon
  <1>7. IsFiniteSet(B) /\ Cardinality(B) = M
    <2>1. back \in [1..M -> B] /\ \A x \in B : \E n \in 1..M : back[n] = x
      OBVIOUS
    <2>2. ASSUME NEW m \in 1..M, NEW n \in 1..M, back[m] = back[n] PROVE m = n
      <3>1. relations[m].source = relations[n].source /\ relations[m].target = relations[n].target
        BY <2>2
      <3>2. QED
        BY <1>4, <3>1, Zenon
    <2> HIDE DEF back, B
    <2>3. QED
      BY <1>5, <2>1, <2>2, OneToOne, Zenon
  <1>8. A \cap B = {}
    <2>1. ASSUME NEW m \in 1..M, NEW n \in 1..M, there[m] = back[n] PROVE FALSE
      <3>1. relations[m].source = relations[n].target /\ relations[m].target = relations[n].source
        BY <2>1
      <3>2. {relations[m].source, relations[m].target} = {relations[n].source, relations[n].target}
        BY <3>1
      <3>3. m = n
        BY <1>4, <3>2, Zenon
      <3>4. QED
        BY <1>4, <3>1, <3>3, Zenon
    <2> HIDE DEF there, back
    <2>2. QED
      BY <2>1, Zenon
  <1>9. IsFiniteSet(D) /\ Cardinality(D) = N
    <2>1. same \in [T -> D] /\ \A x \in D : \E t \in T : same[t] = x
      OBVIOUS
    <2>2. \A s, t \in T : same[s] = same[t] => s = t
      OBVIOUS
    <2> HIDE DEF same, D
    <2>3. QED
      BY <1>2, <2>1, <2>2, OneToOne, Zenon
  <1>10. (A \cup B) \in SUBSET ((T \X T) \ D)
    <2>1. \A n \in 1..M : there[n] \in T \X T /\ back[n] \in T \X T
      BY <1>3
    <2>2. ASSUME NEW n \in 1..M, NEW t \in T PROVE there[n] # same[t] /\ back[n] # same[t]
      BY <1>4
    <2> HIDE DEF there, back, same
    <2>3. QED
      BY <2>1, <2>2, Zenon
  <1>11. D \subseteq T \X T
    <2>1. \A t \in T : same[t] \in T \X T
      OBVIOUS
    <2> HIDE DEF same
    <2>2. QED
      BY <2>1, Zenon
  <1> HIDE DEF A, B, D
  <1>12. IsFiniteSet(T \X T) /\ Cardinality(T \X T) = N * N
    BY <1>2, FS_Product, Zenon
  <1>13. IsFiniteSet((T \X T) \ D) /\ Cardinality((T \X T) \ D) = N * N - N
    <2>1. (T \X T) \cap D = D
      BY <1>11, Zenon
    <2>2. /\ IsFiniteSet((T \X T) \ D)
          /\ Cardinality((T \X T) \ D) = Cardinality(T \X T) - Cardinality((T \X T) \cap D)
      BY <1>12, FS_Difference
    <2>3. QED
      BY <1>9, <1>12, <2>1, <2>2
  <1>14. Cardinality(A \cup B) = M + M
    <2>1. Cardinality(A \cup B) = M + M - Cardinality(A \cap B) /\ Cardinality(A \cap B) = 0
      BY <1>6, <1>7, <1>8, FS_Union, FS_EmptySet, Zenon
    <2>2. QED
      BY <1>1, <2>1
  <1>15. Cardinality(A \cup B) <= Cardinality((T \X T) \ D)
    BY <1>10, <1>13, FS_Subset, Zenon
  <1>16. 2 * M <= N * (N - 1)
    <2>1. N * (N - 1) = N * N - N /\ 2 * M = M + M
      BY <1>1
    <2>2. QED
      BY <1>13, <1>14, <1>15, <2>1, Zenon
  <1>17. QED
    BY <1>16, Zenon DEF N, M

LEMMA StatisticsHold ==
  ASSUME Graph!TypeOK
  PROVE  Graph!StatisticsFair
  <1> SUFFICES ASSUME Graph!Matching, entities # <<>>
               PROVE  LET s == Graph!GraphStatistics IN
                      /\ s.components <= Graph!Cardinality(Graph!Components)
                      /\ relations = <<>> => s.components = Graph!Cardinality(Graph!Components)
                      /\ Graph!Simple => s.density[1] <= s.density[2]
    BY Zenon DEF Graph!StatisticsFair
  <1> DEFINE s == Graph!GraphStatistics
             c == Cardinality(Graph!Components)
  <1>1. s.components = Graph!ConnectedComponents /\ s.density = Graph!Density
    BY DEF Graph!GraphStatistics
  <1>2. /\ c \in Nat /\ c >= 1
        /\ relations = <<>> => c = Len(entities)
    BY ComponentsCounted, Zenon
  <1>3. Graph!Cardinality(Graph!Components) = c
    BY GraphSelects, Zenon
  <1>4. Len(entities) \in Nat
    BY TablesTold, Zenon
  <1>5. Graph!Simple => Graph!Density[1] <= Graph!Density[2]
    <2>1. CASE Len(entities) > 1
      <3>1. Graph!Density = <<2 * Len(relations), Len(entities) * (Len(entities) - 1)>>
        BY <2>1, Zenon DEF Graph!Density
      <3>2. Graph!Density[1] = 2 * Len(relations) /\ Graph!Density[2] = Len(entities) * (Len(entities) - 1)
        BY <3>1
      <3>3. QED
        BY <3>2, PairsCounted, Zenon
    <2>2. CASE ~ (Len(entities) > 1)
      <3>1. Graph!Density = <<0, 1>>
        BY <2>2, Zenon DEF Graph!Density
      <3>2. QED
        BY <3>1
    <2>3. QED
      BY <2>1, <2>2, Zenon
  <1> HIDE DEF s, c
  <1>6. s.components <= c /\ (relations = <<>> => s.components = c)
    <2>1. CASE relations # <<>>
      BY <1>1, <1>2, <2>1 DEF Graph!ConnectedComponents
    <2>2. CASE relations = <<>>
      BY <1>1, <1>2, <2>2 DEF Graph!ConnectedComponents
    <2>3. QED
      BY <2>1, <2>2, Zenon
  <1>7. QED
    BY <1>1, <1>3, <1>5, <1>6, Zenon DEF s

\* A table that is cut keeps its first rows.
LEMMA FirstOfIs ==
  ASSUME NEW table \in Seq(TableRows), NEW limit \in Nat
  PROVE  /\ Graph!FirstOf(table, limit) \in Seq(TableRows) /\ Len(Graph!FirstOf(table, limit)) \in Nat
         /\ limit = 0 => Graph!FirstOf(table, limit) = table
  <1>1. FirstRows(TableRows, table, limit, Graph!Page(table, 0, limit))
    BY FirstPage, Zenon
  <1> HIDE DEF TableRows
  <1>2. Graph!FirstOf(table, limit) \in Seq(TableRows)
    BY <1>1, Zenon DEF Graph!FirstOf, FirstRows
  <1>3. limit = 0 => Graph!FirstOf(table, limit) = table
    BY Zenon DEF Graph!FirstOf
  <1> DEFINE t == Graph!FirstOf(table, limit)
  <1> HIDE DEF t
  <1>4. t \in Seq(TableRows) => Len(t) \in Nat
    BY LenProperties, Zenon
  <1>5. QED
    BY <1>2, <1>3, <1>4, Zenon DEF t

\* Two lists of rows, one after the other.
LEMMA BothLists ==
  ASSUME NEW S, NEW s \in Seq(S), NEW t \in Seq(S)
  PROVE  /\ s \o t \in Seq(S) /\ Len(s \o t) = Len(s) + Len(t)
         /\ Len(s) \in Nat /\ Len(t) \in Nat /\ DOMAIN (s \o t) = 1..(Len(s) + Len(t))
         /\ \A i \in 1..Len(s) : (s \o t)[i] = s[i]
         /\ \A i \in (Len(s) + 1)..(Len(s) + Len(t)) : (s \o t)[i] = t[i - Len(s)]
  OBVIOUS

LEMMA ListIs ==
  ASSUME NEW S, NEW n \in Nat, NEW f \in [1..n -> S]
  PROVE  f \in Seq(S) /\ Len(f) = n
  OBVIOUS

LEMMA MutationExports ==
  ASSUME Graph!TypeOK, NEW limit \in 0..Len(entities), NEW format \in {"json", "csv"}
  PROVE  LET x == Graph!ExportGraph(format, limit) IN
         /\ x.entities + x.relationships = (IF format = "json" THEN Len(x.file) ELSE
               Len(Graph!FirstOf(entities, limit)) + Len(Graph!FirstOf(relations, limit)))
         /\ format = "json" /\ limit = 0 => x.file = entities \o relations
         /\ format = "csv" => x.file = <<>>
  <1> DEFINE x == Graph!ExportGraph(format, limit)
             nodes == Graph!FirstOf(entities, limit)
             edges == Graph!FirstOf(relations, limit)
             file == IF format = "json" THEN nodes \o edges ELSE <<>>
  <1>1. entities \in Seq(TableRows) /\ relations \in Seq(TableRows) /\ Len(entities) \in Nat
    BY TablesTold, Zenon
  <1>2. limit \in Nat
    BY <1>1
  <1>3. /\ nodes \in Seq(TableRows) /\ edges \in Seq(TableRows)
        /\ limit = 0 => nodes = entities /\ edges = relations
    BY <1>1, <1>2, FirstOfIs, Zenon
  <1>4. x = [entities |-> Len(nodes), relationships |-> Len(edges), file |-> file]
    BY Zenon DEF Graph!ExportGraph, Graph!Exported
  <1> HIDE DEF nodes, edges, x, TableRows
  <1>5. x.entities = Len(nodes) /\ x.relationships = Len(edges) /\ x.file = file
    BY <1>4
  <1>6. Len(nodes \o edges) = Len(nodes) + Len(edges)
    BY <1>3, BothLists, Zenon
  <1>7. "json" # "csv"
    OBVIOUS
  <1>8. CASE format = "json"
    BY <1>3, <1>5, <1>6, <1>7, <1>8, Zenon DEF x, nodes, edges
  <1>9. CASE format = "csv"
    BY <1>5, <1>7, <1>9, Zenon DEF x, nodes, edges
  <1>10. QED
    BY <1>8, <1>9, Zenon

LEMMA RouteExports ==
  ASSUME Graph!TypeOK
  PROVE  LET x == Graph!ExportRoute("json")
             g == Graph!ExportRoute("graphml")
         IN /\ x.entities + x.relationships = Len(x.file) /\ Len(g.file) = Len(x.file)
            /\ x.file = entities \o relations <=> Graph!Max({Len(entities), Len(relations)}) <= MaxExported
            /\ Graph!IdsApart => \A m \in 1..g.entities, n \in (g.entities + 1)..Len(g.file) :
                 g.file[m].node \notin {g.file[n].from, g.file[n].to}
  <1> DEFINE x == Graph!ExportRoute("json")
             g == Graph!ExportRoute("graphml")
             N == Len(entities)
             M == Len(relations)
             nodes == Graph!Page(entities, 0, MaxExported)
             edges == Graph!Page(relations, 0, MaxExported)
             ends == [n \in DOMAIN nodes |-> [node |-> nodes[n].id]]
             lines == [n \in DOMAIN edges |-> [from |-> edges[n].source, to |-> edges[n].target]]
  <1>1. /\ entities \in Seq(TableRows) /\ N \in Nat /\ DOMAIN entities = 1..N
        /\ relations \in Seq(TableRows) /\ M \in Nat /\ DOMAIN relations = 1..M
    BY TablesTold, Zenon
  <1>2. MaxExported \in Nat
    BY ServicesAssumption, Zenon DEF ServicesAssumption, Graph!AnalysesAssumption
  <1>3. /\ FirstRows(TableRows, entities, MaxExported, nodes)
        /\ FirstRows(TableRows, relations, MaxExported, edges)
    BY <1>1, <1>2, FirstPage, Zenon
  <1>4. x = [entities |-> Len(nodes), relationships |-> Len(edges), file |-> nodes \o edges]
    BY Zenon DEF Graph!ExportRoute, Graph!Exported, Graph!Collected
  <1>5. g = [entities |-> Len(nodes), relationships |-> Len(edges), file |-> ends \o lines]
    <2>1. "graphml" # "json"
      OBVIOUS
    <2>2. QED
      BY <2>1, Zenon DEF Graph!ExportRoute, Graph!Exported, Graph!Collected, Graph!GraphML
  <1> HIDE DEF x, g, nodes, edges, TableRows
  <1>6. x.entities = Len(nodes) /\ x.relationships = Len(edges) /\ x.file = nodes \o edges
    BY <1>4
  <1>7. g.entities = Len(nodes) /\ g.file = ends \o lines
    BY <1>5
  <1>8. /\ nodes \in Seq(TableRows) /\ Len(nodes) = Least(MaxExported, N) /\ DOMAIN nodes = 1..Len(nodes)
        /\ Len(nodes) \in Nat
        /\ \A i \in DOMAIN nodes : i \in DOMAIN entities /\ nodes[i] = entities[i]
        /\ MaxExported >= N => nodes = entities
    BY <1>3, Zenon DEF FirstRows, N
  <1>9. /\ edges \in Seq(TableRows) /\ Len(edges) = Least(MaxExported, M) /\ DOMAIN edges = 1..Len(edges)
        /\ Len(edges) \in Nat
        /\ \A i \in DOMAIN edges : i \in DOMAIN relations /\ edges[i] = relations[i]
        /\ MaxExported >= M => edges = relations
    BY <1>3, Zenon DEF FirstRows, M
  <1>10. Len(nodes \o edges) = Len(nodes) + Len(edges) /\ Len(entities \o relations) = N + M
    BY <1>1, <1>8, <1>9, BothLists, Zenon DEF N, M
  <1> DEFINE Tips == {[node |-> nodes[n].id] : n \in DOMAIN nodes}
                     \cup {[from |-> edges[n].source, to |-> edges[n].target] : n \in DOMAIN edges}
  <1>11. /\ ends \in Seq(Tips) /\ Len(ends) = Len(nodes)
         /\ \A n \in 1..Len(nodes) : ends[n].node = nodes[n].id
    <2>1. \A n \in 1..Len(nodes) : ends[n] \in Tips /\ ends[n].node = nodes[n].id
      BY <1>8
    <2>2. DOMAIN ends = 1..Len(nodes) /\ ends = [n \in 1..Len(nodes) |-> ends[n]]
      BY <1>8, Zenon
    <2> HIDE DEF ends, Tips
    <2>3. ends \in [1..Len(nodes) -> Tips]
      BY <2>1, <2>2
    <2>4. QED
      BY <1>8, <2>1, <2>3, ListIs, Zenon
  <1>12. /\ lines \in Seq(Tips) /\ Len(lines) = Len(edges)
         /\ \A n \in 1..Len(edges) : lines[n].from = edges[n].source /\ lines[n].to = edges[n].target
    <2>1. \A n \in 1..Len(edges) : /\ lines[n] \in Tips
                                   /\ lines[n].from = edges[n].source /\ lines[n].to = edges[n].target
      BY <1>9
    <2>2. DOMAIN lines = 1..Len(edges) /\ lines = [n \in 1..Len(edges) |-> lines[n]]
      BY <1>9, Zenon
    <2> HIDE DEF lines, Tips
    <2>3. lines \in [1..Len(edges) -> Tips]
      BY <2>1, <2>2
    <2>4. QED
      BY <1>9, <2>1, <2>3, ListIs, Zenon
  <1> HIDE DEF ends, lines, Tips
  <1>13. /\ Len(ends \o lines) = Len(nodes) + Len(edges)
         /\ \A i \in 1..Len(nodes) : (ends \o lines)[i] = ends[i]
         /\ \A i \in (Len(nodes) + 1)..(Len(nodes) + Len(edges)) : (ends \o lines)[i] = lines[i - Len(nodes)]
    <2>1. /\ Len(ends \o lines) = Len(ends) + Len(lines)
          /\ \A i \in 1..Len(ends) : (ends \o lines)[i] = ends[i]
          /\ \A i \in (Len(ends) + 1)..(Len(ends) + Len(lines)) : (ends \o lines)[i] = lines[i - Len(ends)]
      <3>1. ends \in Seq(Tips) /\ lines \in Seq(Tips)
        BY <1>11, <1>12, Zenon
      <3>2. QED
        BY <3>1
    <2>2. QED
      BY <1>11, <1>12, <2>1
  <1>14. x.file = entities \o relations <=> Graph!Max({N, M}) <= MaxExported
    <2>1. Graph!Max({N, M}) = Most(N, M)
      <3>1. N \in Int /\ M \in Int
        BY <1>1
      <3>2. QED
        BY <3>1, GraphMin, Zenon
    <2>2. Most(N, M) <= MaxExported <=> N <= MaxExported /\ M <= MaxExported
      BY <1>1, <1>2 DEF Most
    <2>3. ASSUME N <= MaxExported, M <= MaxExported PROVE x.file = entities \o relations
      <3>1. MaxExported >= N /\ MaxExported >= M
        BY <1>1, <1>2, <2>3
      <3>2. QED
        BY <1>6, <1>8, <1>9, <3>1, Zenon
    <2>4. ASSUME x.file = entities \o relations PROVE N <= MaxExported /\ M <= MaxExported
      <3>1. Len(nodes) + Len(edges) = N + M
        BY <1>6, <1>10, <2>4, Zenon
      <3> HIDE DEF N, M
      <3>2. QED
        BY <1>1, <1>2, <1>8, <1>9, <3>1 DEF Least
    <2>5. QED
      BY <2>1, <2>2, <2>3, <2>4, Zenon
  <1>15. ASSUME Graph!IdsApart, NEW m \in 1..g.entities, NEW n \in (g.entities + 1)..Len(g.file)
         PROVE  g.file[m].node \notin {g.file[n].from, g.file[n].to}
    <2>1. m \in 1..Len(nodes) /\ n \in (Len(nodes) + 1)..(Len(nodes) + Len(edges))
      BY <1>7, <1>13, <1>15, Zenon
    <2>2. PICK i \in 1..Len(edges) : i = n - Len(nodes)
      BY <1>8, <1>9, <2>1
    <2>3. g.file[m] = ends[m] /\ g.file[n] = lines[i]
      BY <1>7, <1>13, <2>1, <2>2, Zenon
    <2>4. /\ g.file[m].node = nodes[m].id
          /\ g.file[n].from = edges[i].source /\ g.file[n].to = edges[i].target
      BY <1>11, <1>12, <2>1, <2>3, Zenon
    <2>5. nodes[m] = entities[m] /\ m \in DOMAIN entities /\ edges[i] = relations[i] /\ i \in DOMAIN relations
      BY <1>8, <1>9, <2>1, Zenon
    <2>6. entities[m].id \notin {relations[i].source, relations[i].target}
      BY <1>15, <2>5, Zenon DEF Graph!IdsApart
    <2>7. QED
      BY <2>4, <2>5, <2>6, Zenon
  <1>16. x.entities + x.relationships = Len(x.file) /\ Len(g.file) = Len(x.file)
    BY <1>6, <1>7, <1>10, <1>13, Zenon
  <1>17. QED
    BY <1>14, <1>15, <1>16, Zenon DEF x, g, N, M

LEMMA ExportsHold ==
  ASSUME Graph!TypeOK
  PROVE  Graph!ExportsTold
  BY MutationExports, RouteExports, Zenon DEF Graph!ExportsTold

\* The paths that are found are as many as the starts, for each target, and alike in what
\* they are scored by.
PathsOf(starts, targets) == Len(starts) * Most(1, Len(targets))
Hops(targets) == IF targets = <<>> THEN 0 ELSE 1

LEMMA PathsFound ==
  ASSUME NEW S, NEW starts \in Seq(S), NEW targets \in Seq(S)
  PROVE  /\ PathsOf(starts, targets) \in Nat
         /\ DOMAIN Graph!FindPaths(starts, targets) = 1..PathsOf(starts, targets)
         /\ Graph!FindPaths(starts, targets) =
              [n \in 1..PathsOf(starts, targets) |-> Graph!FindPaths(starts, targets)[n]]
         /\ \A n \in 1..PathsOf(starts, targets) :
              /\ Len(Graph!FindPaths(starts, targets)[n].relationships) = Hops(targets)
              /\ Len(Graph!FindPaths(starts, targets)[n].entities) = 1 + Hops(targets)
              /\ Graph!ToSet(Graph!FindPaths(starts, targets)[n].relationships) \subseteq {Graph!Direct}
         /\ \A i \in 1..Len(starts) : \E n \in 1..PathsOf(starts, targets) :
              starts[i] \in Graph!ToSet(Graph!FindPaths(starts, targets)[n].entities)
  <1> DEFINE paths == Graph!FindPaths(starts, targets)
             N == Len(starts)
             M == Len(targets)
             count == PathsOf(starts, targets)
  <1>1. /\ N \in Nat /\ DOMAIN starts = 1..N /\ M \in Nat /\ (targets # <<>> => M # 0) /\ (targets = <<>> => M = 0)
        /\ \A i \in 1..N : starts[i] \in S
    OBVIOUS
  <1>2. CASE targets = <<>>
    <2>1. paths = [n \in 1..N |-> [entities |-> <<starts[n]>>, relationships |-> <<>>]]
      BY <1>1, <1>2, Zenon DEF Graph!FindPaths
    <2>2. count = N /\ Hops(targets) = 0
      <3>1. Most(1, M) = 1
        BY <1>1, <1>2 DEF Most
      <3>2. N * 1 = N
        <4>1. \A x \in Nat : x * 1 = x
          OBVIOUS
        <4>2. QED
          BY <1>1, <4>1, Zenon
      <3>3. QED
        BY <1>2, <3>1, <3>2, Zenon DEF PathsOf, Hops
    <2> HIDE DEF N, M, count, paths
    <2>3. ASSUME NEW n \in 1..N
          PROVE  /\ Len(paths[n].relationships) = 0 /\ Len(paths[n].entities) = 1 + 0
                 /\ paths[n].relationships = <<>> /\ paths[n].entities = <<starts[n]>>
      <3>1. paths[n].relationships = <<>> /\ paths[n].entities = <<starts[n]>>
        BY <2>1
      <3>2. Len(<<>>) = 0 /\ Len(<<starts[n]>>) = 1 + 0
        OBVIOUS
      <3>3. QED
        BY <3>1, <3>2, Zenon
    <2>4. Graph!ToSet(<<>>) \subseteq {Graph!Direct} /\ \A x : x \in Graph!ToSet(<<x>>)
      <3>1. DOMAIN <<>> = {}
        OBVIOUS
      <3>2. Graph!ToSet(<<>>) \subseteq {Graph!Direct}
        BY <3>1, Zenon DEF Graph!ToSet
      <3>3. ASSUME NEW x PROVE x \in Graph!ToSet(<<x>>)
        <4>1. 1 \in DOMAIN <<x>> /\ <<x>>[1] = x
          OBVIOUS
        <4>2. QED
          BY <4>1, Zenon DEF Graph!ToSet
      <3>4. QED
        BY <3>2, <3>3, Zenon
    <2>5. DOMAIN paths = 1..N /\ paths = [n \in 1..N |-> paths[n]]
      BY <2>1, Zenon
    <2>6. \A i \in 1..N : starts[i] \in Graph!ToSet(paths[i].entities)
      BY <2>3, <2>4, Zenon
    <2>7. QED
      BY <1>1, <2>2, <2>3, <2>4, <2>5, <2>6, Zenon DEF count, paths, N
  <1>3. CASE targets # <<>>
    <2> DEFINE Start(n) == starts[1 + (n - 1) \div M]
               Target(n) == targets[1 + ((n - 1) % M)]
    <2>1. paths = [n \in 1..(N * M) |-> [entities |-> <<Start(n), Target(n)>>, relationships |-> <<Graph!Direct>>]]
      BY <1>3, Zenon DEF Graph!FindPaths
    <2>2. count = N * M /\ count \in Nat /\ Hops(targets) = 1 /\ M \in Nat \ {0}
      <3>1. Most(1, M) = M
        BY <1>1, <1>3 DEF Most
      <3>2. N * M \in Nat /\ M \in Nat \ {0}
        BY <1>1, <1>3
      <3>3. QED
        BY <1>3, <3>1, <3>2, Zenon DEF PathsOf, Hops
    <2> HIDE DEF N, M, count, paths
    <2>3. ASSUME NEW n \in 1..count
          PROVE  /\ Len(paths[n].relationships) = 1 /\ Len(paths[n].entities) = 1 + 1
                 /\ paths[n].relationships = <<Graph!Direct>> /\ paths[n].entities = <<Start(n), Target(n)>>
      <3> HIDE DEF Start, Target
      <3>1. paths[n].relationships = <<Graph!Direct>> /\ paths[n].entities = <<Start(n), Target(n)>>
        BY <2>1, <2>2
      <3>2. Len(<<Graph!Direct>>) = 1 /\ Len(<<Start(n), Target(n)>>) = 1 + 1
        OBVIOUS
      <3>3. QED
        BY <3>1, <3>2, Zenon
    <2>4. Graph!ToSet(<<Graph!Direct>>) \subseteq {Graph!Direct} /\ \A x, y : x \in Graph!ToSet(<<x, y>>)
      <3>1. \A i \in DOMAIN <<Graph!Direct>> : <<Graph!Direct>>[i] = Graph!Direct
        OBVIOUS
      <3>2. Graph!ToSet(<<Graph!Direct>>) \subseteq {Graph!Direct}
        BY <3>1, Zenon DEF Graph!ToSet
      <3>3. ASSUME NEW x, NEW y PROVE x \in Graph!ToSet(<<x, y>>)
        <4>1. 1 \in DOMAIN <<x, y>> /\ <<x, y>>[1] = x
          OBVIOUS
        <4>2. QED
          BY <4>1, Zenon DEF Graph!ToSet
      <3>4. QED
        BY <3>2, <3>3, Zenon
    <2>5. DOMAIN paths = 1..count /\ paths = [n \in 1..count |-> paths[n]]
      BY <2>1, <2>2, Zenon
    <2>6. ASSUME NEW i \in 1..N
          PROVE  \E n \in 1..count : starts[i] \in Graph!ToSet(paths[n].entities)
      <3> DEFINE p == (i - 1) * M + 1
      <3>1. /\ (i - 1) * M \in Nat /\ (i - 1) * M + M <= N * M
            /\ ((i - 1) * M) \div M = i - 1
        <4>1. i - 1 \in Nat /\ i - 1 + 1 <= N
          OBVIOUS
        <4>2. (i - 1) * M \in Nat /\ (i - 1) * M + M = i * M
          BY <2>2, <4>1
        <4>3. i * M <= N * M
          BY <1>1, <2>2
        <4>4. ((i - 1) * M) \div M = i - 1
          BY <2>2, <4>1
        <4>5. QED
          BY <4>2, <4>3, <4>4
      <3>2. p \in 1..count /\ p - 1 = (i - 1) * M
        BY <2>2, <3>1
      <3> HIDE DEF p
      <3>3. 1 + (p - 1) \div M = i
        <4>1. 1 + (i - 1) = i
          OBVIOUS
        <4>2. QED
          BY <3>1, <3>2, <4>1, Zenon
      <3>4. paths[p].entities = <<starts[i], Target(p)>>
        BY <2>3, <3>2, <3>3, Zenon
      <3>5. QED
        BY <2>4, <3>2, <3>4, Zenon
    <2> HIDE DEF Start, Target
    <2>7. QED
      BY <2>2, <2>3, <2>4, <2>5, <2>6, Zenon DEF count, paths, N
  <1>4. QED
    BY <1>2, <1>3, Zenon

\* What a path is scored by is how long it is, so that all are scored alike and stay in
\* their order.
ScoreBy(hops, length, algorithm) ==
  CASE algorithm = "pagerank" -> 100 \div (hops + 1)
    [] algorithm = "betweenness" -> 10 * length
    [] algorithm = "closeness" -> 100 - 10 * hops
    [] OTHER -> 100

LEMMA ScoredAlike ==
  ASSUME NEW S, NEW starts \in Seq(S), NEW targets \in Seq(S),
         NEW algorithm \in {"pagerank", "betweenness", "closeness", "other"}
  PROVE  /\ ScoreBy(Hops(targets), 1 + Hops(targets), algorithm) \in Nat
         /\ \A n \in 1..PathsOf(starts, targets) :
              Graph!Score(Graph!FindPaths(starts, targets)[n], algorithm)
                = ScoreBy(Hops(targets), 1 + Hops(targets), algorithm)
         /\ Graph!Ranked(Graph!FindPaths(starts, targets), algorithm) = Graph!FindPaths(starts, targets)
  <1> DEFINE paths == Graph!FindPaths(starts, targets)
             count == PathsOf(starts, targets)
             c == ScoreBy(Hops(targets), 1 + Hops(targets), algorithm)
             keys == [n \in DOMAIN paths |-> -Graph!Score(paths[n], algorithm)]
  <1>1. count \in Nat /\ DOMAIN paths = 1..count /\ paths = [n \in 1..count |-> paths[n]]
    BY PathsFound, Zenon
  <1>2. \A n \in 1..count : /\ Len(paths[n].relationships) = Hops(targets)
                            /\ Len(paths[n].entities) = 1 + Hops(targets)
    BY PathsFound, Zenon
  <1>3. c \in Nat
    <2> DEFINE h == Hops(targets)
    <2>1. h = 0 \/ h = 1
      BY DEF Hops
    <2> HIDE DEF h
    <2>2. 100 \div (h + 1) \in Nat /\ 10 * (1 + h) \in Nat /\ 100 - 10 * h \in Nat /\ 100 \in Nat
      BY <2>1
    <2>3. QED
      BY <2>2 DEF ScoreBy, h
  <1>4. \A path : Graph!Score(path, algorithm) = ScoreBy(Len(path.relationships), Len(path.entities), algorithm)
    BY Zenon DEF Graph!Score, ScoreBy
  <1> HIDE DEF paths, count
  <1>5. \A n \in 1..count : Graph!Score(paths[n], algorithm) = c
    BY <1>2, <1>4, Zenon
  <1> HIDE DEF c
  <1>6. keys \in [1..count -> Int] /\ \A m, n \in 1..count : keys[m] = keys[n]
    BY <1>1, <1>3, <1>5
  <1>7. Graph!Ranked(paths, algorithm) = [n \in DOMAIN paths |-> paths[Sorting(keys)[n]]]
    BY GraphSelects, Zenon DEF Graph!Ranked
  <1> HIDE DEF keys
  <1>8. \A n \in 1..count : Sorting(keys)[n] = n
    BY <1>1, <1>6, SortingSame, Zenon
  <1>9. Graph!Ranked(paths, algorithm) = paths
    <2>1. Graph!Ranked(paths, algorithm) = [n \in 1..count |-> paths[Sorting(keys)[n]]]
      BY <1>1, <1>7, Zenon
    <2>2. [n \in 1..count |-> paths[Sorting(keys)[n]]] = [n \in 1..count |-> paths[n]]
      BY <1>8
    <2>3. QED
      BY <1>1, <2>1, <2>2, Zenon
  <1>10. QED
    BY <1>3, <1>5, <1>9, Zenon DEF paths, count, c

\* A multi-hop query between lists of ids, the first of which has those of all entities.
LEMMA MultiHopTold ==
  ASSUME Graph!TypeOK, NEW S, NEW starts \in Seq(S), NEW targets \in Seq(S), starts # <<>>,
         NEW algorithm \in {"pagerank", "betweenness", "closeness", "other"},
         \A n \in DOMAIN entities : \E i \in 1..Len(starts) : starts[i] = entities[n].id
  PROVE  LET answer == Graph!MultiHop(starts, targets, algorithm) IN
         /\ Len(answer.paths) = PathsOf(starts, targets)
         /\ answer.paths = Graph!FindPaths(starts, targets)
         /\ answer.entities = entities /\ answer.relationships = <<>>
         /\ answer.total = Len(answer.paths) * Graph!Score(answer.paths[1], algorithm)
  <1> DEFINE answer == Graph!MultiHop(starts, targets, algorithm)
             paths == Graph!FindPaths(starts, targets)
             count == PathsOf(starts, targets)
             c == ScoreBy(Hops(targets), 1 + Hops(targets), algorithm)
             Named == UNION {Graph!ToSet(paths[n].entities) : n \in DOMAIN paths}
             Used == UNION {Graph!ToSet(paths[n].relationships) : n \in DOMAIN paths}
             scores == [n \in DOMAIN paths |-> Graph!Score(paths[n], algorithm)]
  <1>1. count \in Nat /\ DOMAIN paths = 1..count /\ paths = [n \in 1..count |-> paths[n]]
    BY PathsFound, Zenon
  <1>2. /\ c \in Nat /\ \A n \in 1..count : Graph!Score(paths[n], algorithm) = c
        /\ Graph!Ranked(paths, algorithm) = paths
    BY ScoredAlike, Zenon
  <1>3. answer = [paths |-> paths, entities |-> Graph!ById(entities, Named),
                  relationships |-> Graph!ById(relations, Used), total |-> Graph!Summed(scores)]
    BY <1>2, Zenon DEF Graph!MultiHop
  <1>4. /\ entities \in Seq(TableRows) /\ DOMAIN entities = 1..Len(entities)
        /\ relations \in Seq(TableRows) /\ \A n \in DOMAIN relations : relations[n].id # 0
    BY TablesTold, Zenon
  <1> HIDE DEF TableRows, answer
  <1>5. \A n \in DOMAIN entities : entities[n].id \in Named
    <2>1. ASSUME NEW n \in DOMAIN entities PROVE entities[n].id \in Named
      <3>1. PICK i \in 1..Len(starts) : starts[i] = entities[n].id
        BY Zenon
      <3>2. PICK p \in 1..count : starts[i] \in Graph!ToSet(paths[p].entities)
        BY PathsFound, Zenon
      <3> HIDE DEF paths, count
      <3>3. QED
        BY <1>1, <3>1, <3>2, Zenon
    <2>2. QED
      BY <2>1, Zenon
  <1>6. \A x \in Used : x = 0
    <2>1. \A n \in 1..count : Graph!ToSet(paths[n].relationships) \subseteq {Graph!Direct}
      BY PathsFound, Zenon
    <2>2. Graph!Direct = 0
      BY DEF Graph!Direct
    <2> HIDE DEF paths, count
    <2>3. ASSUME NEW x \in Used PROVE x = 0
      <3>1. PICK n \in DOMAIN paths : x \in Graph!ToSet(paths[n].relationships)
        BY Zenon
      <3>2. x \in {Graph!Direct}
        BY <1>1, <2>1, <3>1, Zenon
      <3>3. QED
        BY <2>2, <3>2, Zenon
    <2>4. QED
      BY <2>3, Zenon
  <1> HIDE DEF paths, count, c
  <1>7. Graph!ById(entities, Named) = entities
    <2>1. {n \in DOMAIN entities : entities[n].id \in Named} = DOMAIN entities
      BY <1>5, Zenon
    <2>2. QED
      BY <1>4, <2>1, SelectedAll, GraphSelects, Zenon DEF Graph!ById
  <1>8. Graph!ById(relations, Used) = <<>>
    <2>1. {n \in DOMAIN relations : relations[n].id \in Used} = {}
      BY <1>4, <1>6, Zenon
    <2>2. QED
      BY <2>1, SelectedNone, GraphSelects, Zenon DEF Graph!ById
  <1>9. Summed(scores) = count * c
    <2>1. DOMAIN scores = 1..count /\ \A n \in 1..count : scores[n] = c
      BY <1>1, <1>2, Zenon
    <2> HIDE DEF scores
    <2>2. IsFiniteSet(1..count) /\ Cardinality(1..count) = count
      BY <1>1, FirstNumbers, Zenon
    <2>3. QED
      BY <1>2, <2>1, <2>2, SumOfEqual, Zenon
  <1>10. Len(paths) = count
    BY <1>1
  <1>11. 1 \in 1..count
    <2>1. Len(starts) \in Nat \ {0} /\ Len(targets) \in Nat
      OBVIOUS
    <2>2. Most(1, Len(targets)) \in Nat \ {0}
      BY <2>1 DEF Most
    <2>3. \A x, y \in Nat \ {0} : 1 \in 1..(x * y)
      OBVIOUS
    <2>4. QED
      BY <2>1, <2>2, <2>3, Zenon DEF count, PathsOf
  <1>12. answer.paths = paths /\ answer.entities = entities /\ answer.relationships = <<>>
         /\ answer.total = Summed(scores)
    <2>1. Graph!Summed(scores) = Summed(scores)
      BY GraphSelects, Zenon
    <2> HIDE DEF Named, Used, scores
    <2>2. QED
      BY <1>3, <1>7, <1>8, <2>1
  <1> HIDE DEF scores, Named, Used
  <1>13. answer.total = Len(answer.paths) * Graph!Score(answer.paths[1], algorithm)
    BY <1>2, <1>9, <1>10, <1>11, <1>12, Zenon
  <1>14. QED
    BY <1>10, <1>12, <1>13, Zenon DEF answer, paths, count

\* The rows of a table that were made in a time.
RowsOfTime(table, from, to) ==
  {e \in Graph!ToSet(table) : (from = 0 \/ from <= e.created) /\ (to = 0 \/ e.created <= to)}

\* What a table keeps of the times asked for.
LEMMA TimesKept ==
  ASSUME NEW S, NEW table \in Seq(S), NEW from \in Nat, NEW to \in Nat,
         \A n \in DOMAIN table : table[n].created \in Nat
  PROVE  Graph!ToSet(Graph!Until(Graph!Since(table, from), to)) = RowsOfTime(table, from, to)
  <1> DEFINE K == {n \in DOMAIN table : table[n].created >= from}
             early == Graph!Since(table, from)
             M == {n \in DOMAIN early : early[n].created <= to}
             kept == Graph!Until(early, to)
  <1>1. \A t : Graph!ToSet(t) = {t[n] : n \in DOMAIN t}
    BY Zenon DEF Graph!ToSet
  <1>2. early \in Seq(S) /\ \A e : e \in Graph!ToSet(early) <=>
                                    e \in Graph!ToSet(table) /\ (from = 0 \/ from <= e.created)
    <2>1. CASE from = 0
      <3>1. early = table
        BY <2>1, Zenon DEF Graph!Since
      <3>2. QED
        BY <2>1, <3>1, Zenon
    <2>2. CASE from # 0
      <3>1. early = Selected(table, K)
        BY <2>2, GraphSelects, Zenon DEF Graph!Since
      <3>2. K \in SUBSET (DOMAIN table)
        BY Zenon
      <3>3. \A n \in DOMAIN table : n \in K <=> from <= table[n].created
        OBVIOUS
      <3> HIDE DEF K, early
      <3>4. early \in Seq(S) /\ Graph!ToSet(early) = RowsAt(table, K)
        BY <3>1, <3>2, SelectionTold, Zenon
      <3>5. QED
        BY <1>1, <2>2, <3>2, <3>3, <3>4, Zenon DEF RowsAt
    <2>3. QED
      BY <2>1, <2>2, Zenon
  <1> HIDE DEF early
  <1>3. \A e : e \in Graph!ToSet(kept) <=> e \in Graph!ToSet(early) /\ (to = 0 \/ e.created <= to)
    <2>1. CASE to = 0
      <3>1. kept = early
        BY <2>1, Zenon DEF Graph!Until
      <3>2. QED
        BY <2>1, <3>1, Zenon
    <2>2. CASE to # 0
      <3>1. kept = Selected(early, M)
        BY <2>2, GraphSelects, Zenon DEF Graph!Until
      <3>2. M \in SUBSET (DOMAIN early)
        BY Zenon
      <3>3. \A n \in DOMAIN early : n \in M <=> early[n].created <= to
        BY Zenon
      <3> HIDE DEF M, kept
      <3>4. Graph!ToSet(kept) = RowsAt(early, M)
        BY <1>2, <3>1, <3>2, SelectionTold, Zenon
      <3>5. QED
        BY <1>1, <2>2, <3>2, <3>3, <3>4, Zenon DEF RowsAt
    <2>3. QED
      BY <2>1, <2>2, Zenon
  <1> HIDE DEF kept
  <1>4. \A e : e \in Graph!ToSet(kept) <=> e \in RowsOfTime(table, from, to)
    BY <1>2, <1>3, Zenon DEF RowsOfTime
  <1>5. Graph!ToSet(kept) = RowsOfTime(table, from, to)
    BY <1>4, Zenon
  <1>6. QED
    BY <1>5, Zenon DEF kept, early

\* The ids of the entities, and one that none of them need have.
AskedIds == [n \in DOMAIN entities |-> entities[n].id] \o <<99>>
IdsAsked == {entities[n].id : n \in DOMAIN entities} \cup {99}

LEMMA IdsAreAsked ==
  ASSUME Graph!TypeOK
  PROVE  /\ AskedIds \in Seq(IdsAsked) /\ AskedIds # <<>> /\ <<99>> \in Seq(IdsAsked) /\ <<>> \in Seq(IdsAsked)
         /\ \A n \in DOMAIN entities : \E i \in 1..Len(AskedIds) : AskedIds[i] = entities[n].id
  <1> DEFINE N == Len(entities)
             f == [n \in DOMAIN entities |-> entities[n].id]
             S == IdsAsked
  <1>1. N \in Nat /\ DOMAIN entities = 1..N
    BY TablesTold, Zenon
  <1>2. (\A n \in 1..N : entities[n].id \in S) /\ 99 \in S
    BY <1>1, Zenon DEF IdsAsked
  <1> HIDE DEF N, S
  <1>3. f \in [1..N -> S] /\ \A n \in 1..N : f[n] = entities[n].id
    BY <1>1, <1>2
  <1> HIDE DEF f
  <1>4. f \in Seq(S) /\ Len(f) = N
    BY <1>1, <1>3, ListIs, Zenon
  <1>5. <<99>> \in Seq(S) /\ Len(<<99>>) = 1 /\ <<>> \in Seq(S)
    BY <1>2
  <1>6. /\ f \o <<99>> \in Seq(S) /\ Len(f \o <<99>>) = N + 1
        /\ \A i \in 1..N : (f \o <<99>>)[i] = f[i]
    BY <1>4, <1>5, BothLists
  <1>7. AskedIds = f \o <<99>>
    BY Zenon DEF AskedIds, f
  <1>8. \A i \in 1..N : i \in 1..Len(AskedIds)
    BY <1>1, <1>6, <1>7
  <1>9. AskedIds # <<>>
    <2>1. Len(AskedIds) # 0
      BY <1>1, <1>6, <1>7
    <2>2. QED
      BY <2>1
  <1>10. \A n \in DOMAIN entities : \E i \in 1..Len(AskedIds) : AskedIds[i] = entities[n].id
    BY <1>1, <1>3, <1>6, <1>7, <1>8, Zenon
  <1>11. QED
    BY <1>5, <1>6, <1>7, <1>9, <1>10, Zenon DEF S

LEMMA QueriesHold ==
  ASSUME Graph!TypeOK
  PROVE  Graph!QueriesTold
  <1> DEFINE ids == AskedIds
  <1>1. ASSUME NEW algorithm \in {"pagerank", "betweenness", "closeness", "other"},
               NEW targets \in {<<>>, << 99 >>, ids}
        PROVE  LET answer == Graph!MultiHop(ids, targets, algorithm) IN
               /\ Len(answer.paths) = Len(ids) * Graph!Max({1, Len(targets)})
               /\ answer.paths = Graph!FindPaths(ids, targets)
               /\ answer.entities = entities /\ answer.relationships = <<>>
               /\ answer.total = Len(answer.paths) * Graph!Score(answer.paths[1], algorithm)
    <2>1. /\ ids \in Seq(IdsAsked) /\ ids # <<>> /\ targets \in Seq(IdsAsked)
          /\ \A n \in DOMAIN entities : \E i \in 1..Len(ids) : ids[i] = entities[n].id
      BY IdsAreAsked, Zenon
    <2> HIDE DEF ids
    <2>2. LET answer == Graph!MultiHop(ids, targets, algorithm) IN
          /\ Len(answer.paths) = PathsOf(ids, targets)
          /\ answer.paths = Graph!FindPaths(ids, targets)
          /\ answer.entities = entities /\ answer.relationships = <<>>
          /\ answer.total = Len(answer.paths) * Graph!Score(answer.paths[1], algorithm)
      BY <2>1, MultiHopTold, Zenon
    <2>3. Graph!Max({1, Len(targets)}) = Most(1, Len(targets))
      <3>1. Len(targets) \in Nat
        BY <2>1, LenProperties, Zenon
      <3>2. 1 \in Int /\ Len(targets) \in Int
        BY <3>1
      <3>3. QED
        BY <3>2, GraphMin, Zenon
    <2>4. QED
      BY <2>2, <2>3, Zenon DEF PathsOf
  <1>2. ASSUME NEW from \in 0..4, NEW to \in 0..4
        PROVE  LET kept == Graph!TemporalQuery(from, to).entities IN
               /\ Graph!ToSet(kept) = {e \in Graph!ToSet(entities) : (from = 0 \/ from <= e.created) /\ (to = 0 \/ e.created <= to)}
               /\ from > to /\ to > 0 => kept = <<>>
    <2> DEFINE kept == Graph!TemporalQuery(from, to).entities
               early == Graph!Since(entities, from)
               K == {n \in DOMAIN entities : entities[n].created >= from}
               M == {n \in DOMAIN early : early[n].created <= to}
    <2>1. kept = Graph!Until(early, to)
      BY DEF Graph!TemporalQuery
    <2>2. /\ entities \in Seq(TableRows) /\ \A n \in DOMAIN entities : entities[n].created \in Nat
      BY TablesTold, Zenon
    <2>3. from \in Nat /\ to \in Nat
      OBVIOUS
    <2> HIDE DEF kept, TableRows
    <2>4. Graph!ToSet(kept) = {e \in Graph!ToSet(entities) : (from = 0 \/ from <= e.created) /\ (to = 0 \/ e.created <= to)}
      <3>1. Graph!ToSet(Graph!Until(early, to)) = RowsOfTime(entities, from, to)
        BY <2>2, <2>3, TimesKept, Zenon
      <3>2. QED
        BY <2>1, <3>1, Zenon DEF RowsOfTime
    <2>5. ASSUME from > to, to > 0 PROVE kept = <<>>
      <3>1. from # 0 /\ to # 0
        BY <2>3, <2>5
      <3>2. early = Selected(entities, K) /\ kept = Selected(early, M)
        BY <2>1, <3>1, GraphSelects, Zenon DEF Graph!Since, Graph!Until
      <3>3. K \in SUBSET (DOMAIN entities)
        BY Zenon
      <3>4. \A k \in K : ~ (entities[k].created <= to)
        BY <2>2, <2>3, <2>5
      <3> HIDE DEF K, early
      <3>5. \A n \in DOMAIN early : \E k \in K : early[n] = entities[k]
        <4>1. OnlyRowsAt(Selected(entities, K), entities, K)
          BY <2>2, <3>3, SelectionTold, Zenon
        <4>2. QED
          BY <3>2, <4>1, Zenon DEF OnlyRowsAt
      <3>6. M = {}
        BY <3>4, <3>5, Zenon
      <3>7. QED
        BY <3>2, <3>6, SelectedNone, Zenon
    <2>6. QED
      BY <2>4, <2>5, Zenon DEF kept
  <1>3. QED
    BY <1>1, <1>2, Zenon DEF Graph!QueriesTold, AskedIds

---------------------------------------------------------------------------
(* Anomalies.                                                              *)

\* No relationship is found by the id of an entity, when ids are no titles.
LEMMA NoneCentral ==
  ASSUME Graph!TypeOK, Graph!IdsApart
  PROVE  /\ \A n \in DOMAIN entities : Graph!CalculateCentrality[n][1] = 0
         /\ \A threshold \in 0..10 : Graph!AnomalousEntities(threshold) = <<>>
  <1> DEFINE d == Graph!Max({1, Len(entities) - 1})
  <1>1. ASSUME NEW n \in DOMAIN entities
        PROVE  Graph!CalculateCentrality[n] = <<0, d>>
    <2>1. {k \in DOMAIN relations : entities[n].id \in {relations[k].source, relations[k].target}} = {}
      BY Zenon DEF Graph!IdsApart
    <2>2. Graph!Connections(entities[n].id) = 0
      <3>1. Cardinality({}) = 0
        BY FS_EmptySet, Zenon
      <3>2. QED
        BY <2>1, <3>1, GraphSelects, Zenon DEF Graph!Connections
    <2>3. QED
      BY <2>2, Zenon DEF Graph!CalculateCentrality, Graph!DegreeCentrality
  <1>2. d \in Nat
    <2>1. Len(entities) \in Nat
      BY TablesTold, Zenon
    <2>2. 1 \in Int /\ Len(entities) - 1 \in Int
      BY <2>1
    <2>3. d = Most(1, Len(entities) - 1)
      BY <2>2, GraphMin, Zenon
    <2> HIDE DEF d
    <2>4. QED
      BY <2>1, <2>3 DEF Most
  <1> HIDE DEF d
  <1>3. \A n \in DOMAIN entities : Graph!CalculateCentrality[n][1] = 0 /\ Graph!CalculateCentrality[n][2] = d
    BY <1>1
  <1>4. ASSUME NEW threshold \in 0..10 PROVE Graph!AnomalousEntities(threshold) = <<>>
    <2> DEFINE K == {n \in DOMAIN entities :
                       10 * Graph!CalculateCentrality[n][1] > threshold * Graph!CalculateCentrality[n][2]}
    <2>1. K = {}
      <3>1. ~ (10 * 0 > threshold * d)
        BY <1>2
      <3>2. QED
        BY <1>3, <3>1, Zenon
    <2>2. Graph!AnomalousEntities(threshold) = Selected(entities, K)
      BY GraphSelects, Zenon DEF Graph!AnomalousEntities
    <2>3. QED
      BY <2>1, <2>2, SelectedNone, Zenon
  <1>5. QED
    BY <1>3, <1>4, Zenon

\* Ten times a quantile of N numbers: some place of them in their order, or between two.
QuantileOf(w, N, threshold) ==
  LET place == (N - 1) * (10 - threshold)
      low == w[Sorting(w)[1 + place \div 10]]
      high == w[Sorting(w)[Least(2 + place \div 10, N)]]
  IN 10 * low + (high - low) * (place % 10)

\* The numbers above it are at most the share asked for, and none when all are equal.
LEMMA FewAbove ==
  ASSUME NEW N \in Nat, N >= 1, NEW w \in [1..N -> Int], NEW threshold \in 0..10,
         NEW K \in SUBSET (1..N), \A n \in K : 10 * w[n] > QuantileOf(w, N, threshold)
  PROVE  /\ QuantileOf(w, N, threshold) \in Int
         /\ 10 * Cardinality(K) <= threshold * (N - 1) + 9
         /\ (\A m, n \in 1..N : w[m] = w[n]) => K = {}
  <1> DEFINE place == (N - 1) * (10 - threshold)
             q == place \div 10
             a == Sorting(w)[1 + q]
             b == Sorting(w)[Least(2 + q, N)]
             c == 10 * w[a] + (w[b] - w[a]) * (place % 10)
             below == Earlier(w, a)
  <1>1. c = QuantileOf(w, N, threshold)
    BY Zenon DEF QuantileOf
  <1>2. place \in Nat /\ place <= 10 * (N - 1) /\ place = 10 * (N - 1) - threshold * (N - 1)
    <2>1. \A t \in 0..10, x \in Nat : x * (10 - t) \in Nat /\ x * (10 - t) <= 10 * x /\ x * (10 - t) = 10 * x - t * x
      OBVIOUS
    <2>2. N - 1 \in Nat
      OBVIOUS
    <2>3. QED
      BY <2>1, <2>2
  <1>3. threshold * (N - 1) \in Nat
    OBVIOUS
  <1> HIDE DEF place
  <1>4. q \in Nat /\ place % 10 \in 0..9 /\ place = 10 * q + (place % 10)
    <2>1. \A p \in Nat : p \div 10 \in Nat /\ p % 10 \in 0..9 /\ p = 10 * (p \div 10) + (p % 10)
      OBVIOUS
    <2>2. QED
      BY <1>2, <2>1, Zenon
  <1> HIDE DEF q
  <1>5. q <= N - 1
    <2>1. \A x, p \in Nat, r \in 0..9, n \in Nat : p = 10 * x + r /\ p <= 10 * (n - 1) => x <= n - 1
      OBVIOUS
    <2>2. q \in Int /\ place \in Int
      BY <1>2, <1>4
    <2>3. QED
      BY <1>2, <1>4, <2>1, <2>2, Zenon
  <1>6. 1 + q \in 1..N /\ Least(2 + q, N) \in 1..N /\ 1 + q <= Least(2 + q, N)
    BY <1>4, <1>5 DEF Least
  <1>7. /\ a \in 1..N /\ b \in 1..N /\ Cardinality(below) = 1 + q /\ w[a] <= w[b]
    BY <1>6, SortingOnce, Zenon
  <1> HIDE DEF a, b
  <1>8. w[a] \in Int /\ w[b] \in Int
    BY <1>7
  <1>9. c \in Int /\ c >= 10 * w[a]
    <2>1. \A x, y \in Int, r \in 0..9 : x <= y => 10 * x + (y - x) * r \in Int /\ 10 * x + (y - x) * r >= 10 * x
      OBVIOUS
    <2>2. QED
      BY <1>4, <1>7, <1>8, <2>1, Zenon
  <1>10. w[a] = w[b] => c = 10 * w[a]
    <2>1. \A x \in Int, r \in 0..9 : 10 * x + (x - x) * r = 10 * x
      OBVIOUS
    <2>2. QED
      BY <1>4, <1>8, <2>1, Zenon
  <1> HIDE DEF c
  <1>11. below \in SUBSET (1..N) /\ \A j \in below : w[j] <= w[a]
    BY <1>7, EarlierIs, Zenon
  <1> HIDE DEF below
  <1>12. K \cap below = {}
    <2>1. ASSUME NEW j \in K, j \in below PROVE FALSE
      <3>1. w[j] \in Int /\ 10 * w[j] > c /\ w[j] <= w[a]
        BY <1>1, <1>11, <2>1
      <3>2. QED
        BY <1>8, <1>9, <3>1
    <2>2. QED
      BY <2>1, Zenon
  <1>13. Cardinality(K) \in Nat /\ Cardinality(K) + 1 + q <= N
    <2>1. K \cup below \in SUBSET (1..N)
      BY <1>11
    <2>2. /\ IsFiniteSet(K) /\ IsFiniteSet(below) /\ Cardinality(K) \in Nat
          /\ Cardinality(K \cup below) <= N /\ Cardinality(K \cup below) \in Nat
      BY <1>11, <2>1, SomeOfFirst
    <2>3. Cardinality(K \cup below) = Cardinality(K) + Cardinality(below) - Cardinality(K \cap below)
      BY <2>2, FS_Union, Zenon
    <2>4. Cardinality(K \cap below) = 0
      BY <1>12, FS_EmptySet
    <2>5. QED
      BY <1>4, <1>7, <2>2, <2>3, <2>4
  <1>14. 10 * Cardinality(K) <= threshold * (N - 1) + 9
    BY <1>2, <1>3, <1>4, <1>13
  <1>15. ASSUME \A m, n \in 1..N : w[m] = w[n] PROVE K = {}
    <2>1. w[a] = w[b]
      BY <1>7, <1>15
    <2>2. ASSUME NEW n \in K PROVE FALSE
      <3>1. w[n] = w[a] /\ 10 * w[n] > c
        BY <1>1, <1>7, <1>15
      <3>2. QED
        BY <1>8, <1>10, <2>1, <3>1
    <2>3. QED
      BY <2>2, Zenon
  <1>16. QED
    BY <1>1, <1>9, <1>14, <1>15, Zenon

\* Whatever share is asked for, the relationships found are that few, the heaviest, and
\* none when all are of one weight.
LEMMA HeavyFew ==
  ASSUME Graph!TypeOK, NEW threshold \in 0..10
  PROVE  LET found == Graph!AnomalousRelationships(threshold) IN
         /\ 10 * Len(found) <= threshold * Graph!Max({0, Len(relations) - 1}) + 9
         /\ \A r, q \in Graph!ToSet(relations) :
              r \in Graph!ToSet(found) /\ q.weight >= r.weight => q \in Graph!ToSet(found)
         /\ (\A r, q \in Graph!ToSet(relations) : r.weight = q.weight) => found = <<>>
  <1> DEFINE L == Len(relations)
             w == [n \in DOMAIN relations |-> relations[n].weight]
             T == Graph!TenQuantile(threshold)
             K == {n \in DOMAIN relations : 10 * relations[n].weight > T}
             found == Selected(relations, K)
  <1>1. /\ relations \in Seq(TableRows) /\ L \in Nat /\ DOMAIN relations = 1..L
        /\ \A n \in DOMAIN relations : relations[n].weight \in Nat
    BY TablesTold, Zenon
  <1> HIDE DEF TableRows
  <1>2. found = Graph!AnomalousRelationships(threshold)
    BY GraphSelects, Zenon DEF Graph!AnomalousRelationships
  <1>3. K \in SUBSET (DOMAIN relations)
    BY Zenon
  <1>4. Len(found) = Cardinality(K) /\ Cardinality(K) \in Nat /\ Graph!ToSet(found) = RowsAt(relations, K)
    <2> HIDE DEF K
    <2>1. QED
      BY <1>1, <1>3, SelectionTold, Zenon
  <1>5. w \in [1..L -> Int] /\ \A n \in 1..L : w[n] = relations[n].weight
    BY <1>1
  <1>6. L >= 1 => T = QuantileOf(w, L, threshold)
    <2> HIDE DEF w
    <2>1. ASSUME L >= 1 PROVE T = QuantileOf(w, L, threshold)
      <3> DEFINE place == (L - 1) * (10 - threshold)
                 places == Sorting(w)
                 i == 1 + place \div 10
                 j == Least(2 + place \div 10, L)
      <3>1. places = Graph!Sorting([n \in DOMAIN relations |-> relations[n].weight])
        BY GraphSelects, Zenon DEF w
      <3>2. place \in Nat /\ place <= 10 * (L - 1)
        <4>1. \A t \in 0..10, x \in Nat : x * (10 - t) \in Nat /\ x * (10 - t) <= 10 * x
          OBVIOUS
        <4>2. L - 1 \in Nat
          BY <1>1, <2>1
        <4>3. QED
          BY <4>1, <4>2, Zenon
      <3>3. 2 + place \div 10 \in Int /\ L \in Int
        BY <1>1, <3>2
      <3>4. j = Graph!Min({2 + place \div 10, L})
        BY <3>3, GraphMin, Zenon
      <3>5. i \in 1..L /\ j \in 1..L
        <4> HIDE DEF place
        <4>1. QED
          BY <1>1, <2>1, <3>2 DEF Least
      <3>6. places[i] \in 1..L /\ places[j] \in 1..L
        <4> HIDE DEF i, j
        <4>1. QED
          BY <1>1, <1>5, <3>5, SortingOnce, Zenon
      <3>7. w[places[i]] = relations[places[i]].weight /\ w[places[j]] = relations[places[j]].weight
        BY <1>5, <3>6, Zenon
      <3>8. T = 10 * relations[places[i]].weight
                + (relations[places[j]].weight - relations[places[i]].weight) * (place % 10)
        BY <3>1, <3>4, Zenon DEF Graph!TenQuantile
      <3>9. QuantileOf(w, L, threshold) = 10 * w[places[i]] + (w[places[j]] - w[places[i]]) * (place % 10)
        BY Zenon DEF QuantileOf
      <3>10. QED
        BY <3>7, <3>8, <3>9, Zenon
    <2>2. QED
      BY <2>1, Zenon
  <1> HIDE DEF T, w
  <1>7. \A n \in 1..L : n \in K <=> 10 * relations[n].weight > T
    BY <1>1, Zenon
  <1> HIDE DEF K, L
  <1>8. /\ 10 * Cardinality(K) <= threshold * Graph!Max({0, L - 1}) + 9
        /\ L >= 1 => T \in Int
        /\ (\A m, n \in 1..L : w[m] = w[n]) => K = {}
    <2>1. 0 \in Int /\ L - 1 \in Int
      BY <1>1
    <2>2. Graph!Max({0, L - 1}) = Most(0, L - 1)
      BY <2>1, GraphMin, Zenon
    <2>3. CASE L = 0
      <3>1. K = {}
        BY <1>1, <1>3, <2>3
      <3>2. Cardinality(K) = 0
        BY <3>1, FS_EmptySet, Zenon
      <3>3. Most(0, L - 1) = 0 /\ threshold * 0 = 0
        BY <2>3 DEF Most
      <3>4. 10 * 0 <= 0 + 9
        OBVIOUS
      <3>5. ~ (L >= 1)
        BY <2>3
      <3>6. QED
        BY <2>2, <3>1, <3>2, <3>3, <3>4, <3>5, Zenon
    <2>4. CASE L # 0
      <3>1. L >= 1 /\ Most(0, L - 1) = L - 1
        BY <1>1, <2>4 DEF Most
      <3>2. K \in SUBSET (1..L)
        BY <1>1, <1>3, Zenon
      <3>3. \A n \in K : 10 * w[n] > QuantileOf(w, L, threshold)
        BY <1>5, <1>6, <1>7, <3>1, <3>2, Zenon
      <3>4. /\ QuantileOf(w, L, threshold) \in Int
            /\ 10 * Cardinality(K) <= threshold * (L - 1) + 9
            /\ (\A m, n \in 1..L : w[m] = w[n]) => K = {}
        BY <1>1, <1>5, <3>1, <3>2, <3>3, FewAbove, Zenon
      <3>5. QED
        BY <1>6, <2>2, <3>1, <3>4, Zenon
    <2>5. QED
      BY <2>3, <2>4, Zenon
  <1>9. \A r : r \in Graph!ToSet(relations) <=> \E n \in 1..L : r = relations[n]
    BY <1>1, Zenon DEF Graph!ToSet
  <1>10. \A r : r \in Graph!ToSet(found) <=> \E n \in K : r = relations[n]
    BY <1>4, Zenon DEF RowsAt
  <1>11. ASSUME NEW r \in Graph!ToSet(relations), NEW q \in Graph!ToSet(relations),
                r \in Graph!ToSet(found), q.weight >= r.weight
         PROVE  q \in Graph!ToSet(found)
    <2>1. PICK k \in K : r = relations[k]
      BY <1>10, <1>11, Zenon
    <2>2. PICK m \in 1..L : q = relations[m]
      BY <1>9, Zenon
    <2>3. k \in 1..L
      BY <1>1, <1>3, Zenon
    <2>4. relations[k].weight \in Nat /\ relations[m].weight \in Nat
      BY <1>1, <2>3, Zenon
    <2>5. L >= 1
      BY <1>1, <2>3
    <2>6. 10 * relations[k].weight > T /\ T \in Int /\ relations[m].weight >= relations[k].weight
      BY <1>7, <1>8, <1>11, <2>1, <2>2, <2>3, <2>5, Zenon
    <2>7. \A x, y \in Nat, t \in Int : 10 * x > t /\ y >= x => 10 * y > t
      OBVIOUS
    <2>8. 10 * relations[m].weight > T
      BY <2>4, <2>6, <2>7, Zenon
    <2>9. QED
      BY <1>7, <1>10, <2>2, <2>8, Zenon
  <1>12. ASSUME \A r, q \in Graph!ToSet(relations) : r.weight = q.weight PROVE found = <<>>
    <2>1. \A n \in 1..L : relations[n] \in Graph!ToSet(relations)
      BY <1>9, Zenon
    <2>2. \A m, n \in 1..L : w[m] = w[n]
      BY <1>5, <1>12, <2>1, Zenon
    <2>3. K = {}
      BY <1>8, <2>2, Zenon
    <2>4. QED
      BY <2>3, SelectedNone, Zenon
  <1> HIDE DEF found
  <1>13. 10 * Len(found) <= threshold * Graph!Max({0, Len(relations) - 1}) + 9
    BY <1>4, <1>8, Zenon DEF L
  <1>14. QED
    BY <1>2, <1>11, <1>12, <1>13, Zenon

\* What the search for anomalies finds is rare, in every state of the tables.
LEMMA AnomaliesHold ==
  ASSUME Graph!TypeOK
  PROVE  Graph!AnomaliesRare
  <1>1. Graph!IdsApart => /\ \A n \in DOMAIN entities : Graph!CalculateCentrality[n][1] = 0
                          /\ \A threshold \in 0..10 : Graph!AnomalousEntities(threshold) = <<>>
    BY NoneCentral, Zenon
  <1>2. \A threshold \in 0..10 :
          LET found == Graph!AnomalousRelationships(threshold) IN
          /\ 10 * Len(found) <= threshold * Graph!Max({0, Len(relations) - 1}) + 9
          /\ \A r, q \in Graph!ToSet(relations) :
               r \in Graph!ToSet(found) /\ q.weight >= r.weight => q \in Graph!ToSet(found)
          /\ (\A r, q \in Graph!ToSet(relations) : r.weight = q.weight) => found = <<>>
    BY HeavyFew, Zenon
  <1>3. \A x, y : [entities |-> x, relationships |-> y].entities = x /\
                  [entities |-> x, relationships |-> y].relationships = y
    OBVIOUS
  <1>4. \A threshold : /\ Graph!DetectAnomalies(threshold).entities = Graph!AnomalousEntities(threshold)
                       /\ Graph!DetectAnomalies(threshold).relationships = Graph!AnomalousRelationships(threshold)
    BY <1>3, Zenon DEF Graph!DetectAnomalies
  <1>5. QED
    BY <1>1, <1>2, <1>4, Zenon DEF Graph!AnomaliesRare

=============================================================================
