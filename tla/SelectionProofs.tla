-------------------------- MODULE SelectionProofs --------------------------
(***************************************************************************)
(* What Selection keeps of a list, for any list and any places.            *)
(***************************************************************************)
EXTENDS Selection, Sequences, FiniteSetTheorems, WellFoundedInduction, TLAPS

\* A set of naturals that is not empty has a least element.
LEMMA LeastNatural ==
  ASSUME NEW S \in SUBSET Nat, S # {}
  PROVE  \E x \in S : \A y \in S : x <= y
  <1> DEFINE R == OpToRel(<, Nat)
  <1>1. \A x, y \in Nat : x < y => <<x, y>> \in R
    BY DEF OpToRel
  <1>2. IsWellFoundedOn(R, Nat)
    BY NatLessThanWellFounded
  <1> HIDE DEF R
  <1>3. PICK x \in S : \A y \in S : ~ (<<y, x>> \in R)
    BY <1>2, WFMin
  <1>4. ASSUME NEW y \in S
        PROVE  x <= y
    <2>1. x \in Nat /\ y \in Nat /\ ~ (<<y, x>> \in R)
      BY <1>3
    <2>2. ~ (y < x)
      BY <1>1, <2>1, Zenon
    <2>3. QED
      BY <2>1, <2>2
  <1>5. QED
    BY <1>4

\* The places of a finite set of numbers go through it once.
LEMMA PlacesOnce ==
  ASSUME NEW S, S \subseteq Nat, IsFiniteSet(S)
  PROVE  /\ Cardinality(S) \in Nat
         /\ \A n \in 1..Cardinality(S) : Place(S, n) \in S
         /\ \A k \in S : \E n \in 1..Cardinality(S) : Place(S, n) = k
         /\ \A n, m \in 1..Cardinality(S) : Place(S, n) = Place(S, m) => n = m
         /\ \A n \in 1..Cardinality(S) : Cardinality({j \in S : j <= Place(S, n)}) = n
  <1> DEFINE below(k) == {j \in S : j <= k}
             rank == [k \in S |-> Cardinality(below(k))]
             N == Cardinality(S)
  <1>1. N \in Nat
    BY FS_CardinalityType
  <1>2. ASSUME NEW k \in S
        PROVE  /\ IsFiniteSet(below(k)) /\ Cardinality(below(k)) \in 1..N
    <2>1. below(k) \in SUBSET S /\ k \in below(k)
      BY <1>2
    <2> HIDE DEF below
    <2>2. IsFiniteSet(below(k)) /\ Cardinality(below(k)) <= N
      BY <2>1, FS_Subset
    <2>3. Cardinality(below(k)) \in Nat
      BY <2>2, FS_CardinalityType
    <2>4. Cardinality(below(k)) # 0
      BY <2>1, <2>2, FS_EmptySet
    <2>5. QED
      BY <1>1, <2>2, <2>3, <2>4
  <1>3. ASSUME NEW k \in S, NEW l \in S, k < l
        PROVE  Cardinality(below(k)) # Cardinality(below(l))
    <2>1. below(k) \in SUBSET below(l) /\ l \in below(l) /\ l \notin below(k)
      <3>1. k \in Nat /\ l \in Nat /\ \A j \in S : j \in Nat
        OBVIOUS
      <3>2. \A j \in S : j <= k => j <= l
        BY <1>3, <3>1
      <3>3. l <= l /\ ~ (l <= k)
        BY <1>3, <3>1
      <3>4. QED
        BY <3>2, <3>3
    <2>2. IsFiniteSet(below(l))
      BY <1>2
    <2> HIDE DEF below
    <2>3. QED
      BY <2>1, <2>2, FS_Subset
  <1> HIDE DEF below
  <1>4. rank \in [S -> 1..N] /\ \A k \in S : rank[k] = Cardinality(below(k))
    BY <1>2
  <1> HIDE DEF rank
  <1>5. \A k, l \in S : rank[k] = rank[l] => k = l
    <2>1. SUFFICES ASSUME NEW k \in S, NEW l \in S, rank[k] = rank[l], k # l PROVE FALSE
      OBVIOUS
    <2>2. k < l \/ l < k
      BY <2>1
    <2>3. QED
      BY <1>3, <1>4, <2>1, <2>2
  <1>6. rank \in Injection(S, 1..N)
    BY <1>4, <1>5 DEF Injection, IsInjective
  <1>7. IsFiniteSet(1..N) /\ Cardinality(1..N) = N
    <2>1. 1 \in Int /\ N \in Int
      BY <1>1
    <2>2. IsFiniteSet(1..N) /\ Cardinality(1..N) = IF 1 > N THEN 0 ELSE N - 1 + 1
      BY <2>1, FS_Interval, Zenon
    <2>3. QED
      BY <1>1, <2>2
  <1>8. rank \in Surjection(S, 1..N)
    BY <1>6, <1>7, FS_Injection, Zenon DEF N
  <1>9. \A n \in 1..N : \E k \in S : rank[k] = n
    BY <1>8 DEF Surjection
  <1>10. \A n \in 1..N : Place(S, n) \in S /\ rank[Place(S, n)] = n
    <2>1. SUFFICES ASSUME NEW n \in 1..N PROVE Place(S, n) \in S /\ rank[Place(S, n)] = n
      OBVIOUS
    <2>2. PICK k \in S : Cardinality({j \in S : j <= k}) = n
      BY <1>4, <1>9 DEF below
    <2>3. Place(S, n) \in S /\ Cardinality({j \in S : j <= Place(S, n)}) = n
      BY <2>2, Zenon DEF Place
    <2>4. QED
      BY <1>4, <2>3 DEF below
  <1>11. \A k \in S : rank[k] \in 1..N /\ Place(S, rank[k]) = k
    BY <1>4, <1>5, <1>10, ZenonT(30)
  <1>12. \A n \in 1..N : Cardinality({j \in S : j <= Place(S, n)}) = n
    BY <1>4, <1>10 DEF below
  <1>13. QED
    BY <1>1, <1>10, <1>11, <1>12 DEF N

\* They go through it upwards.
LEMMA PlacesUpwards ==
  ASSUME NEW S, S \subseteq Nat, IsFiniteSet(S),
         NEW n \in 1..Cardinality(S), NEW m \in 1..Cardinality(S), n < m
  PROVE  Place(S, n) < Place(S, m)
  <1> DEFINE below(k) == {j \in S : j <= k}
  <1>1. PICK p \in S : p = Place(S, n) /\ Cardinality(below(p)) = n
    BY PlacesOnce
  <1>2. PICK q \in S : q = Place(S, m) /\ Cardinality(below(q)) = m
    BY PlacesOnce, ZenonT(30)
  <1>3. n \in Nat /\ m \in Nat /\ p \in Nat /\ q \in Nat
    BY FS_CardinalityType
  <1>4. ASSUME q <= p PROVE FALSE
    <2>1. below(p) \in SUBSET S
      OBVIOUS
    <2>2. \A j \in Nat : j <= q => j <= p
      BY <1>3, <1>4
    <2>3. below(q) \in SUBSET below(p)
      BY <2>2
    <2> HIDE DEF below
    <2>4. IsFiniteSet(below(p)) /\ Cardinality(below(q)) <= Cardinality(below(p))
      BY <2>1, <2>3, FS_Subset
    <2>5. QED
      BY <1>1, <1>2, <1>3, <2>4
  <1>5. QED
    BY <1>1, <1>2, <1>3, <1>4

\* The elements at the places from k + 1 to the last are the list without its first k.
LEMMA SelectedRest ==
  ASSUME NEW s, NEW m \in Nat, NEW k \in 0..m
  PROVE  Selected(s, (k + 1)..m) = [n \in 1..(m - k) |-> s[k + n]]
  <1> DEFINE K == (k + 1)..m
  <1>1. \A b \in Nat : k <= b => Cardinality((k + 1)..b) = b - k
    <2>1. ASSUME NEW b \in Nat, k <= b PROVE Cardinality((k + 1)..b) = b - k
      <3>1. k + 1 \in Int /\ b \in Int
        BY <2>1
      <3>2. Cardinality((k + 1)..b) = IF k + 1 > b THEN 0 ELSE b - (k + 1) + 1
        BY <3>1, FS_Interval, Zenon
      <3>3. QED
        BY <2>1, <3>2
    <2>2. QED
      BY <2>1
  <1>2. Cardinality(K) = m - k
    BY <1>1
  <1>3. ASSUME NEW n \in 1..(m - k)
        PROVE  Place(K, n) = k + n
    <2>1. \A i \in K : {j \in K : j <= i} = (k + 1)..i /\ i \in Nat /\ k <= i
      OBVIOUS
    <2>2. \A i \in K : Cardinality({j \in K : j <= i}) = i - k
      BY <1>1, <2>1, Zenon
    <2>3. k + n \in K /\ \A i \in K : i - k = n => i = k + n
      OBVIOUS
    <2> HIDE DEF K
    <2>4. \A i \in K : Cardinality({j \in K : j <= i}) = n <=> i = k + n
      BY <2>2, <2>3
    <2>5. QED
      BY <2>3, <2>4, Zenon DEF Place
  <1> HIDE DEF K
  <1>4. Selected(s, K) = [n \in 1..(m - k) |-> s[Place(K, n)]]
    BY <1>2 DEF Selected
  <1>5. QED
    BY <1>3, <1>4 DEF K

\* A set of places that has every later place too is what follows some place.
LEMMA LaterPlaces ==
  ASSUME NEW m \in Nat, NEW K, K \subseteq 1..m,
         \A i \in K : \A j \in 1..m : i <= j => j \in K
  PROVE  \E k \in 0..m : K = (k + 1)..m
  <1>1. CASE K = {}
    <2>1. m \in 0..m /\ K = (m + 1)..m
      BY <1>1
    <2>2. QED
      BY <2>1
  <1>2. CASE K # {}
    <2>1. K \subseteq Nat
      OBVIOUS
    <2>2. PICK x \in K : \A y \in K : x <= y
      BY <1>2, <2>1, LeastNatural
    <2>3. x \in 1..m /\ (x - 1) + 1 = x /\ x - 1 \in 0..m
      OBVIOUS
    <2>4. \A y \in 1..m : x <= y => y \in K
      OBVIOUS
    <2>5. K \subseteq x..m
      BY <2>2, <2>3
    <2>6. x..m \subseteq K
      BY <2>3, <2>4
    <2>7. K = x..m
      BY <2>5, <2>6, Zenon
    <2>8. QED
      BY <2>3, <2>7
  <1>3. QED
    BY <1>1, <1>2

---------------------------------------------------------------------------
(* Counting.                                                               *)

\* As many numbers are in a set that is moved up.
LEMMA MovedUp ==
  ASSUME NEW S, S \subseteq Nat, IsFiniteSet(S), NEW d \in Nat
  PROVE  IsFiniteSet({n + d : n \in S}) /\ Cardinality({n + d : n \in S}) = Cardinality(S)
  <1> DEFINE T == {n + d : n \in S}
             f == [n \in S |-> n + d]
  <1>1. f \in [S -> T]
    OBVIOUS
  <1>2. \A m, n \in S : m + d = n + d => m = n
    OBVIOUS
  <1>3. \A t \in T : \E n \in S : f[n] = t
    OBVIOUS
  <1>4. \A m, n \in S : f[m] = f[n] => m = n
    BY <1>2
  <1> HIDE DEF T, f
  <1>5. f \in Injection(S, T) /\ f \in Surjection(S, T)
    BY <1>1, <1>3, <1>4 DEF Injection, IsInjective, Surjection
  <1>6. f \in Bijection(S, T)
    BY <1>5 DEF Bijection
  <1>7. IsFiniteSet(T) /\ Cardinality(T) = Cardinality(S)
    BY <1>6, FS_Bijection DEF ExistsBijection
  <1>8. QED
    BY <1>7 DEF T

\* An image of a finite set is finite, and no larger.
LEMMA ImageOf ==
  ASSUME NEW S, IsFiniteSet(S), NEW T, NEW f \in [S -> T], \A t \in T : \E x \in S : f[x] = t
  PROVE  IsFiniteSet(T) /\ Cardinality(T) <= Cardinality(S)
  BY FS_Surjection, SMTT(30) DEF Surjection

\* Some of the first numbers.
LEMMA SomeOfFirst ==
  ASSUME NEW k \in Nat, NEW S \in SUBSET (1..k)
  PROVE  IsFiniteSet(S) /\ Cardinality(S) \in Nat /\ Cardinality(S) <= k
  <1>1. 1 \in Int /\ k \in Int
    OBVIOUS
  <1>2. IsFiniteSet(1..k) /\ Cardinality(1..k) = IF 1 > k THEN 0 ELSE k - 1 + 1
    BY <1>1, FS_Interval, Zenon
  <1>3. Cardinality(1..k) = k
    BY <1>2
  <1>4. IsFiniteSet(S) /\ Cardinality(S) <= Cardinality(1..k)
    BY <1>2, FS_Subset
  <1>5. QED
    BY <1>3, <1>4, FS_CardinalityType

---------------------------------------------------------------------------
(* Lists and sums.                                                         *)

\* A selection is a list of the elements at the places kept, as long as they are many.
LEMMA SelectedIs ==
  ASSUME NEW s, NEW K, K \subseteq Nat, IsFiniteSet(K), NEW S, \A k \in K : s[k] \in S
  PROVE  /\ Selected(s, K) \in Seq(S) /\ Len(Selected(s, K)) = Cardinality(K)
         /\ DOMAIN Selected(s, K) = 1..Cardinality(K) /\ Cardinality(K) \in Nat
         /\ \A n \in 1..Cardinality(K) : Place(K, n) \in K /\ Selected(s, K)[n] = s[Place(K, n)]
         /\ \A k \in K : \E n \in 1..Cardinality(K) : Place(K, n) = k
  <1> DEFINE c == Cardinality(K)
             r == Selected(s, K)
  <1>1. /\ c \in Nat /\ \A n \in 1..c : Place(K, n) \in K
        /\ \A k \in K : \E n \in 1..c : Place(K, n) = k
    BY PlacesOnce, Zenon
  <1>2. r = [n \in 1..c |-> s[Place(K, n)]]
    BY Zenon DEF Selected
  <1> HIDE DEF c, r
  <1>3. DOMAIN r = 1..c /\ \A n \in 1..c : r[n] = s[Place(K, n)]
    BY <1>2
  <1>4. \A n \in 1..c : s[Place(K, n)] \in S
    BY <1>1, Zenon
  <1>5. r \in [1..c -> S]
    BY <1>2, <1>4, Zenon
  <1>6. r \in Seq(S) /\ Len(r) = c
    BY <1>1, <1>5
  <1>7. QED
    BY <1>1, <1>3, <1>6, Zenon DEF c, r

\* The places of a list at which something holds.
LEMMA PlacesOfList ==
  ASSUME NEW S, NEW s \in Seq(S), NEW K \in SUBSET (DOMAIN s)
  PROVE  /\ K \subseteq Nat /\ IsFiniteSet(K) /\ \A k \in K : s[k] \in S
         /\ Cardinality(K) \in Nat /\ Cardinality(K) <= Len(s)
  <1>1. Len(s) \in Nat /\ DOMAIN s = 1..Len(s) /\ \A k \in 1..Len(s) : s[k] \in S
    OBVIOUS
  <1>2. IsFiniteSet(K) /\ Cardinality(K) \in Nat /\ Cardinality(K) <= Len(s)
    BY <1>1, SomeOfFirst, Zenon
  <1>3. QED
    BY <1>1, <1>2

\* As many elements are in sets that correspond one to one.
LEMMA OneToOne ==
  ASSUME NEW S, IsFiniteSet(S), NEW T, NEW f \in [S -> T],
         \A x, y \in S : f[x] = f[y] => x = y, \A t \in T : \E x \in S : f[x] = t
  PROVE  IsFiniteSet(T) /\ Cardinality(T) = Cardinality(S)
  <1>1. f \in Injection(S, T) /\ f \in Surjection(S, T)
    BY DEF Injection, IsInjective, Surjection
  <1>2. f \in Bijection(S, T)
    BY <1>1 DEF Bijection
  <1>3. QED
    BY <1>2, FS_Bijection DEF ExistsBijection

\* Those of P whose share is x.
Sharing(P, share, x) == {p \in P : share[p] = x}

\* Places that are shared out, each to one share, are as many as the shares have together.
LEMMA SharesSum ==
  ASSUME NEW P, P \subseteq Nat, IsFiniteSet(P), NEW f, NEW share, \A p \in P : share[p] \in DOMAIN f,
         \A x \in DOMAIN f : f[x] = Cardinality(Sharing(P, share, x))
  PROVE  Summed(f) = Cardinality(P)
  <1> DEFINE D == DOMAIN f
             Of(x) == {p \in P : share[p] = x}
             Rank(p) == Cardinality({q \in Of(share[p]) : q <= p})
             U == UnitsOf(f)
             g == [p \in P |-> <<share[p], Rank(p)>>]
  <1>1. ASSUME NEW x \in D
        PROVE  /\ Of(x) \subseteq Nat /\ IsFiniteSet(Of(x))
               /\ f[x] = Cardinality(Of(x)) /\ f[x] \in Nat
               /\ \A n \in 1..f[x] : \E p \in Of(x) : Rank(p) = n
               /\ \A p \in Of(x) : Rank(p) \in 1..f[x]
               /\ \A p, q \in Of(x) : Rank(p) = Rank(q) => p = q
    <2>1. Of(x) \in SUBSET P /\ f[x] = Cardinality(Of(x)) /\ \A p \in Of(x) : share[p] = x
      BY DEF Sharing
    <2> DEFINE K == Of(x)
    <2>2. K \subseteq Nat /\ IsFiniteSet(K)
      BY <2>1, FS_Subset
    <2>3. \A p \in K : Rank(p) = Cardinality({q \in K : q <= p})
      BY <2>1, Zenon
    <2> HIDE DEF K, Rank
    <2>4. /\ Cardinality(K) \in Nat
          /\ \A n \in 1..Cardinality(K) : Place(K, n) \in K
          /\ \A k \in K : \E n \in 1..Cardinality(K) : Place(K, n) = k
          /\ \A n \in 1..Cardinality(K) : Cardinality({j \in K : j <= Place(K, n)}) = n
      BY <2>2, PlacesOnce, Zenon
    <2>5. \A n \in 1..Cardinality(K) : Rank(Place(K, n)) = n
      BY <2>3, <2>4, Zenon
    <2>6. /\ \A n \in 1..Cardinality(K) : \E p \in K : Rank(p) = n
          /\ \A p \in K : Rank(p) \in 1..Cardinality(K) /\ p = Place(K, Rank(p))
      BY <2>4, <2>5, Zenon
    <2>7. \A p, q \in K : Rank(p) = Rank(q) => p = q
      BY <2>6, Zenon
    <2>8. QED
      BY <2>1, <2>2, <2>4, <2>6, <2>7, Zenon DEF K
  <1>2. U = UNION {{x} \X (1..f[x]) : x \in D}
    BY Zenon DEF UnitsOf
  <1>3. \A p \in P : share[p] \in D /\ p \in Of(share[p])
    OBVIOUS
  <1>4. \A x \in D : \A p \in Of(x) : p \in P /\ share[p] = x
    OBVIOUS
  <1> HIDE DEF Of, Rank, U, D
  <1>5. g \in [P -> U]
    <2>1. SUFFICES ASSUME NEW p \in P PROVE <<share[p], Rank(p)>> \in U
      OBVIOUS
    <2>2. share[p] \in D /\ Rank(p) \in 1..f[share[p]]
      BY <1>1, <1>3, Zenon
    <2>3. <<share[p], Rank(p)>> \in {share[p]} \X (1..f[share[p]])
      BY <2>2
    <2>4. QED
      BY <1>2, <2>2, <2>3, Zenon
  <1>6. ASSUME NEW p \in P, NEW q \in P, g[p] = g[q] PROVE p = q
    <2>1. share[p] = share[q] /\ Rank(p) = Rank(q)
      BY <1>6
    <2>2. share[p] \in D /\ p \in Of(share[p]) /\ q \in Of(share[p])
      BY <1>3, <2>1, Zenon
    <2>3. QED
      BY <1>1, <2>1, <2>2, Zenon
  <1>7. ASSUME NEW u \in U PROVE \E p \in P : g[p] = u
    <2>1. PICK x \in D : u \in {x} \X (1..f[x])
      BY <1>2, <1>7, Zenon
    <2>2. PICK n \in 1..f[x] : u = <<x, n>>
      BY <2>1
    <2>3. PICK p \in Of(x) : Rank(p) = n
      BY <1>1, <2>1, <2>2, Zenon
    <2>4. p \in P /\ share[p] = x
      BY <1>4, Zenon
    <2>5. QED
      BY <2>2, <2>3, <2>4
  <1> HIDE DEF g
  <1>8. Cardinality(U) = Cardinality(P)
    BY <1>5, <1>6, <1>7, OneToOne, Zenon
  <1>9. QED
    BY <1>8, Zenon DEF Summed, U

\* The first numbers are as many as the last of them says.
LEMMA FirstNumbers ==
  ASSUME NEW m \in Nat
  PROVE  IsFiniteSet(1..m) /\ Cardinality(1..m) = m
  <1>1. 1 \in Int /\ m \in Int
    OBVIOUS
  <1>2. IsFiniteSet(1..m) /\ Cardinality(1..m) = IF 1 > m THEN 0 ELSE m - 1 + 1
    BY <1>1, FS_Interval, Zenon
  <1>3. QED
    BY <1>2

\* All of a list, and nothing of it.
LEMMA SelectedAll ==
  ASSUME NEW S, NEW s \in Seq(S)
  PROVE  Selected(s, DOMAIN s) = s
  <1>1. Len(s) \in Nat /\ DOMAIN s = 1..Len(s) /\ s = [n \in 1..Len(s) |-> s[n]]
    OBVIOUS
  <1> DEFINE m == Len(s)
  <1>2. 0 \in 0..m /\ m \in Nat
    BY <1>1
  <1> HIDE DEF m
  <1>3. Selected(s, (0 + 1)..m) = [n \in 1..(m - 0) |-> s[0 + n]]
    BY <1>2, SelectedRest, Zenon
  <1>4. (0 + 1)..m = 1..m /\ [n \in 1..(m - 0) |-> s[0 + n]] = [n \in 1..m |-> s[n]]
    BY <1>2
  <1>5. QED
    BY <1>1, <1>3, <1>4, Zenon DEF m

LEMMA SelectedNone == \A s : Selected(s, {}) = <<>>
  <1>1. Cardinality({}) = 0
    BY FS_EmptySet
  <1>2. QED
    BY <1>1 DEF Selected

\* Elements each of which stands after those that are not above it have their ranks.
LEMMA Ranks ==
  ASSUME NEW S, IsFiniteSet(S), NEW down \in [S -> SUBSET S], \A x \in S : x \in down[x],
         \A x, y \in S : x # y => \/ down[x] \subseteq down[y] /\ y \notin down[x]
                                  \/ down[y] \subseteq down[x] /\ x \notin down[y]
  PROVE  /\ Cardinality(S) \in Nat
         /\ \A x \in S : Cardinality(down[x]) \in 1..Cardinality(S)
         /\ \A x, y \in S : Cardinality(down[x]) = Cardinality(down[y]) => x = y
         /\ \A n \in 1..Cardinality(S) : \E x \in S : Cardinality(down[x]) = n
  <1> DEFINE N == Cardinality(S)
             rank == [x \in S |-> Cardinality(down[x])]
  <1>1. N \in Nat
    BY FS_CardinalityType
  <1>2. ASSUME NEW x \in S
        PROVE  IsFiniteSet(down[x]) /\ Cardinality(down[x]) \in 1..N
    <2>1. down[x] \in SUBSET S /\ x \in down[x]
      OBVIOUS
    <2>2. IsFiniteSet(down[x]) /\ Cardinality(down[x]) <= N
      BY <2>1, FS_Subset
    <2>3. Cardinality(down[x]) \in Nat /\ Cardinality(down[x]) # 0
      BY <2>1, <2>2, FS_CardinalityType, FS_EmptySet
    <2>4. QED
      BY <1>1, <2>2, <2>3
  <1>3. ASSUME NEW x \in S, NEW y \in S, down[x] \subseteq down[y], y \notin down[x]
        PROVE  Cardinality(down[x]) # Cardinality(down[y])
    <2>1. down[x] \in SUBSET down[y] /\ down[x] # down[y]
      BY <1>3
    <2>2. QED
      BY <1>2, <2>1, FS_Subset
  <1>4. \A x, y \in S : Cardinality(down[x]) = Cardinality(down[y]) => x = y
    BY <1>3, Zenon
  <1>5. rank \in [S -> 1..N] /\ \A x \in S : rank[x] = Cardinality(down[x])
    BY <1>2
  <1> HIDE DEF rank
  <1>6. rank \in Injection(S, 1..N)
    BY <1>4, <1>5 DEF Injection, IsInjective
  <1>7. IsFiniteSet(1..N) /\ Cardinality(1..N) = N
    BY <1>1, FirstNumbers, Zenon
  <1>8. rank \in Surjection(S, 1..N)
    BY <1>6, <1>7, FS_Injection, Zenon DEF N
  <1>9. \A n \in 1..N : \E x \in S : rank[x] = n
    BY <1>8 DEF Surjection
  <1>10. QED
    BY <1>1, <1>2, <1>4, <1>5, <1>9 DEF N

---------------------------------------------------------------------------
(* Sorting.                                                                *)

LEMMA EarlierIs ==
  ASSUME NEW N \in Nat, NEW keys \in [1..N -> Int]
  PROVE  /\ \A k \in 1..N : Earlier(keys, k) \in SUBSET (1..N) /\ k \in Earlier(keys, k)
         /\ \A k, l \in 1..N : l \in Earlier(keys, k) => keys[l] <= keys[k]
         /\ \A k, l \in 1..N : k # l =>
              \/ Earlier(keys, k) \subseteq Earlier(keys, l) /\ l \notin Earlier(keys, k)
              \/ Earlier(keys, l) \subseteq Earlier(keys, k) /\ k \notin Earlier(keys, l)
  <1>1. \A k \in 1..N : keys[k] \in Int /\ k \in Int
    OBVIOUS
  <1>2. DOMAIN keys = 1..N
    OBVIOUS
  <1>3. \A k, j \in 1..N : j \in Earlier(keys, k) <=> keys[j] < keys[k] \/ (keys[j] = keys[k] /\ j <= k)
    BY <1>2 DEF Earlier
  <1>4. \A k \in 1..N : Earlier(keys, k) \in SUBSET (1..N)
    BY <1>2 DEF Earlier
  <1>5. ASSUME NEW k \in 1..N, NEW l \in 1..N,
               keys[k] < keys[l] \/ (keys[k] = keys[l] /\ k < l)
        PROVE  Earlier(keys, k) \subseteq Earlier(keys, l) /\ l \notin Earlier(keys, k)
    <2>1. l \notin Earlier(keys, k)
      BY <1>1, <1>3, <1>5
    <2>2. ASSUME NEW j \in 1..N, j \in Earlier(keys, k) PROVE j \in Earlier(keys, l)
      BY <1>1, <1>3, <1>5, <2>2
    <2>3. QED
      BY <1>4, <2>1, <2>2
  <1>6. \A k, l \in 1..N : k # l =>
          \/ keys[k] < keys[l] \/ (keys[k] = keys[l] /\ k < l)
          \/ keys[l] < keys[k] \/ (keys[l] = keys[k] /\ l < k)
    BY <1>1
  <1>7. \A k, l \in 1..N : l \in Earlier(keys, k) => keys[l] <= keys[k]
    BY <1>1, <1>3
  <1>8. \A k \in 1..N : k \in Earlier(keys, k)
    BY <1>1, <1>3
  <1>9. QED
    BY <1>4, <1>5, <1>6, <1>7, <1>8

\* Sorting goes through the places once, and upwards by the keys.
LEMMA SortingOnce ==
  ASSUME NEW N \in Nat, NEW keys \in [1..N -> Int]
  PROVE  /\ DOMAIN Sorting(keys) = 1..N
         /\ \A n \in 1..N : /\ Sorting(keys)[n] \in 1..N
                            /\ Cardinality(Earlier(keys, Sorting(keys)[n])) = n
         /\ \A k \in 1..N : \E n \in 1..N : Sorting(keys)[n] = k
         /\ \A m, n \in 1..N : Sorting(keys)[m] = Sorting(keys)[n] => m = n
         /\ \A m, n \in 1..N : m <= n => keys[Sorting(keys)[m]] <= keys[Sorting(keys)[n]]
  <1> DEFINE down == [k \in 1..N |-> Earlier(keys, k)]
             order == Sorting(keys)
  <1>1. IsFiniteSet(1..N) /\ Cardinality(1..N) = N
    BY FirstNumbers, Zenon
  <1>2. /\ down \in [1..N -> SUBSET (1..N)] /\ \A k \in 1..N : down[k] = Earlier(keys, k)
    BY EarlierIs
  <1> HIDE DEF down
  <1>3. /\ \A k \in 1..N : k \in down[k]
        /\ \A k, l \in 1..N : k # l => \/ down[k] \subseteq down[l] /\ l \notin down[k]
                                       \/ down[l] \subseteq down[k] /\ k \notin down[l]
    <2>1. /\ \A k \in 1..N : k \in Earlier(keys, k)
          /\ \A k, l \in 1..N : k # l =>
               \/ Earlier(keys, k) \subseteq Earlier(keys, l) /\ l \notin Earlier(keys, k)
               \/ Earlier(keys, l) \subseteq Earlier(keys, k) /\ k \notin Earlier(keys, l)
      BY EarlierIs, Zenon
    <2>2. QED
      BY <1>2, <2>1
  <1>4. /\ \A k \in 1..N : Cardinality(down[k]) \in 1..N
        /\ \A k, l \in 1..N : Cardinality(down[k]) = Cardinality(down[l]) => k = l
        /\ \A n \in 1..N : \E k \in 1..N : Cardinality(down[k]) = n
    <2>1. /\ \A k \in 1..N : Cardinality(down[k]) \in 1..Cardinality(1..N)
          /\ \A k, l \in 1..N : Cardinality(down[k]) = Cardinality(down[l]) => k = l
          /\ \A n \in 1..Cardinality(1..N) : \E k \in 1..N : Cardinality(down[k]) = n
      BY <1>1, <1>2, <1>3, Ranks, Zenon
    <2>2. QED
      BY <1>1, <2>1
  <1>5. DOMAIN keys = 1..N
    OBVIOUS
  <1>6. DOMAIN order = 1..N /\ \A n \in 1..N : order[n] = CHOOSE k \in 1..N : Cardinality(Earlier(keys, k)) = n
    <2>1. DOMAIN order = 1..N /\ \A n \in 1..N : order[n] = SortedPlace(keys, n)
      BY <1>5 DEF Sorting
    <2>2. QED
      BY <1>5, <2>1, Zenon DEF SortedPlace
  <1> HIDE DEF order
  <1>7. \A n \in 1..N : \E k \in 1..N : Cardinality(Earlier(keys, k)) = n
    BY <1>2, <1>4, Zenon
  <1>8. \A n \in 1..N : order[n] \in 1..N /\ Cardinality(Earlier(keys, order[n])) = n
    BY <1>6, <1>7, Zenon
  <1>9. \A k, l \in 1..N : Cardinality(Earlier(keys, k)) = Cardinality(Earlier(keys, l)) => k = l
    BY <1>2, <1>4, Zenon
  <1>10. \A k \in 1..N : Cardinality(Earlier(keys, k)) \in 1..N /\ order[Cardinality(Earlier(keys, k))] = k
    <2>1. \A k \in 1..N : Cardinality(Earlier(keys, k)) \in 1..N
      BY <1>2, <1>4, Zenon
    <2>2. QED
      BY <1>8, <1>9, <2>1, Zenon
  <1>11. ASSUME NEW m \in 1..N, NEW n \in 1..N, m <= n
         PROVE  keys[order[m]] <= keys[order[n]]
    <2> DEFINE k == order[m]
               l == order[n]
    <2>1. k \in 1..N /\ l \in 1..N /\ Cardinality(Earlier(keys, k)) = m /\ Cardinality(Earlier(keys, l)) = n
      BY <1>8, Zenon
    <2> HIDE DEF k, l
    <2>2. /\ Earlier(keys, k) \in SUBSET (1..N) /\ k \in Earlier(keys, k) /\ l \in Earlier(keys, l)
          /\ k \in Earlier(keys, l) => keys[k] <= keys[l]
          /\ k = l \/ \/ Earlier(keys, k) \subseteq Earlier(keys, l) /\ l \notin Earlier(keys, k)
                      \/ Earlier(keys, l) \subseteq Earlier(keys, k) /\ k \notin Earlier(keys, l)
      BY <2>1, EarlierIs, Zenon
    <2>3. IsFiniteSet(Earlier(keys, k))
      BY <1>1, <2>2, FS_Subset, Zenon
    <2>4. ASSUME Earlier(keys, l) \subseteq Earlier(keys, k), k \notin Earlier(keys, l) PROVE FALSE
      <3>1. Earlier(keys, l) \in SUBSET Earlier(keys, k) /\ Earlier(keys, l) # Earlier(keys, k)
        BY <2>2, <2>4, Zenon
      <3>2. Cardinality(Earlier(keys, l)) <= Cardinality(Earlier(keys, k))
            /\ Cardinality(Earlier(keys, l)) # Cardinality(Earlier(keys, k))
        BY <2>3, <3>1, FS_Subset
      <3>3. QED
        BY <1>11, <2>1, <3>2
    <2>5. k \in Earlier(keys, l)
      BY <2>2, <2>4, Zenon
    <2>6. QED
      BY <2>2, <2>5, Zenon DEF k, l
  <1>12. \A m, n \in 1..N : order[m] = order[n] => m = n
    BY <1>8, Zenon
  <1>13. \A k \in 1..N : \E n \in 1..N : order[n] = k
    BY <1>10, Zenon
  <1>14. QED
    BY <1>6, <1>8, <1>11, <1>12, <1>13, Zenon DEF order

\* What is equal keeps its order.
LEMMA SortingSame ==
  ASSUME NEW N \in Nat, NEW keys \in [1..N -> Int], \A m, n \in 1..N : keys[m] = keys[n]
  PROVE  \A n \in 1..N : Sorting(keys)[n] = n
  <1>1. ASSUME NEW n \in 1..N PROVE Sorting(keys)[n] = n
    <2> DEFINE k == Sorting(keys)[n]
    <2>1. k \in 1..N /\ Cardinality(Earlier(keys, k)) = n
      BY SortingOnce, Zenon
    <2> HIDE DEF k
    <2>2. Earlier(keys, k) = 1..k
      <3>1. \A j \in 1..N : keys[j] \in Int /\ keys[j] = keys[k]
        BY <2>1
      <3>2. \A j \in 1..N : j \in Earlier(keys, k) <=> j <= k
        BY <2>1, <3>1 DEF Earlier
      <3>3. Earlier(keys, k) \subseteq 1..N
        BY DEF Earlier
      <3>4. 1..k \subseteq 1..N /\ \A j \in 1..N : j <= k <=> j \in 1..k
        BY <2>1
      <3>5. QED
        BY <3>2, <3>3, <3>4, Zenon
    <2>3. k \in Nat
      BY <2>1
    <2>4. Cardinality(1..k) = k
      BY <2>3, FirstNumbers, Zenon
    <2>5. QED
      BY <2>1, <2>2, <2>4, Zenon DEF k
  <1>2. QED
    BY <1>1

---------------------------------------------------------------------------
(* One list after the other.                                               *)

\* Numbers none of which is less than the one before only grow.
LEMMA Growing ==
  ASSUME NEW k \in Nat, NEW off \in [0..k -> Nat], \A n \in 1..k : off[n - 1] <= off[n]
  PROVE  \A m, n \in 0..k : m <= n => off[m] <= off[n]
  <1>1. SUFFICES ASSUME NEW m \in 0..k
                 PROVE  \A n \in 0..k : m <= n => off[m] <= off[n]
    OBVIOUS
  <1> DEFINE S == {n \in 0..k : m <= n /\ off[n] < off[m]}
  <1>2. \A n \in 0..k : off[n] \in Nat
    OBVIOUS
  <1>3. ASSUME S # {} PROVE FALSE
    <2>1. S \in SUBSET Nat
      OBVIOUS
    <2>2. PICK x \in S : \A y \in S : x <= y
      BY <1>3, <2>1, LeastNatural, Zenon
    <2>3. x \in 0..k /\ m <= x /\ off[x] < off[m]
      OBVIOUS
    <2>4. x # m
      BY <1>2, <2>3
    <2>5. x \in 1..k /\ x - 1 \in 0..k /\ m <= x - 1 /\ ~ (x <= x - 1)
      BY <2>3, <2>4
    <2>6. off[x - 1] <= off[x] /\ off[x - 1] \in Nat /\ off[x] \in Nat /\ off[m] \in Nat
      BY <1>2, <2>5
    <2>7. off[x - 1] < off[m]
      BY <2>3, <2>6
    <2>8. x - 1 \in S
      BY <2>5, <2>7
    <2>9. QED
      BY <2>2, <2>5, <2>8
  <1>4. \A n \in 0..k : m <= n => ~ (off[n] < off[m])
    BY <1>3
  <1>5. QED
    BY <1>2, <1>4

\* Lists that are the parts of a list from one place to the next make up that list.
LEMMA BlocksFlattened ==
  ASSUME NEW k \in Nat, NEW T, NEW t \in Seq(T), NEW ss, DOMAIN ss = 1..k,
         NEW off \in [0..k -> Nat], off[0] = 0, off[k] = Len(t),
         \A n \in 1..k : off[n - 1] <= off[n] /\ DOMAIN ss[n] = 1..(off[n] - off[n - 1]),
         \A n \in 1..k : \A i \in 1..(off[n] - off[n - 1]) : ss[n][i] = t[off[n - 1] + i]
  PROVE  Flattened(ss) = t
  <1> DEFINE L == Len(t)
             Sp == Spots(ss)
             g == [s \in Sp |-> off[s[1] - 1] + s[2]]
  <1>1. \A m, n \in 0..k : m <= n => off[m] <= off[n]
    BY Growing, Zenon
  <1>2. /\ L \in Nat /\ t = [p \in 1..L |-> t[p]] /\ 0 \in 0..k /\ k \in 0..k
        /\ \A n \in 0..k : off[n] \in Nat /\ off[n] <= L
        /\ \A n \in 1..k : n - 1 \in 0..k /\ n \in 0..k
    <2>1. L \in Nat /\ t = [p \in 1..L |-> t[p]]
      OBVIOUS
    <2>2. 0 \in 0..k /\ k \in 0..k /\ \A n \in 0..k : n <= k /\ off[n] \in Nat
      OBVIOUS
    <2>3. \A n \in 1..k : n - 1 \in 0..k /\ n \in 0..k
      OBVIOUS
    <2>4. QED
      BY <1>1, <2>1, <2>2, <2>3, Zenon
  <1>3. \A s : s \in Sp <=> \E n \in 1..k : \E i \in 1..(off[n] - off[n - 1]) : s = <<n, i>>
    <2>1. \A s : s \in Sp <=> \E n \in 1..k : s \in {n} \X DOMAIN ss[n]
      BY Zenon DEF Spots
    <2>2. ASSUME NEW s
          PROVE  s \in Sp <=> \E n \in 1..k : \E i \in 1..(off[n] - off[n - 1]) : s = <<n, i>>
      <3> HIDE DEF Sp
      <3>1. ASSUME NEW n \in 1..k
            PROVE  s \in {n} \X DOMAIN ss[n] <=> \E i \in 1..(off[n] - off[n - 1]) : s = <<n, i>>
        <4> DEFINE X == DOMAIN ss[n]
        <4>1. X = 1..(off[n] - off[n - 1])
          OBVIOUS
        <4> HIDE DEF X
        <4>2. s \in {n} \X X <=> \E i \in X : s = <<n, i>>
          OBVIOUS
        <4>3. QED
          BY <4>1, <4>2, Zenon DEF X
      <3>2. QED
        BY <2>1, <3>1, Zenon
    <2> HIDE DEF Sp
    <2>3. QED
      BY <2>2, Zenon
  <1>4. \A s \in Sp : /\ s = <<s[1], s[2]>> /\ s[1] \in 1..k /\ s[2] \in 1..(off[s[1]] - off[s[1] - 1])
    BY <1>3
  <1> HIDE DEF Sp, L
  <1>5. ASSUME NEW s \in Sp
        PROVE  /\ g[s] = off[s[1] - 1] + s[2] /\ g[s] \in 1..L /\ s[1] \in Nat /\ s[2] \in Nat
               /\ off[s[1] - 1] < g[s] /\ g[s] <= off[s[1]] /\ off[s[1] - 1] \in Nat
               /\ ss[s[1]][s[2]] = t[g[s]]
    <2>1. /\ g[s] = off[s[1] - 1] + s[2] /\ s[1] \in 1..k /\ s[2] \in 1..(off[s[1]] - off[s[1] - 1])
      BY <1>4
    <2>2. off[s[1] - 1] \in Nat /\ off[s[1]] \in Nat /\ off[s[1]] <= L
      BY <1>2, <2>1, Zenon
    <2>3. ss[s[1]][s[2]] = t[g[s]]
      BY <2>1, Zenon
    <2> HIDE DEF g
    <2>4. QED
      BY <1>2, <2>1, <2>2, <2>3
  <1>6. g \in [Sp -> 1..L]
    BY <1>5
  <1> HIDE DEF g
  <1>7. ASSUME NEW s \in Sp, NEW u \in Sp, s[1] < u[1]
        PROVE  g[s] < g[u]
    <2>1. s[1] \in 1..k /\ u[1] \in 1..k
      BY <1>4, Zenon
    <2>2. s[1] \in 0..k /\ u[1] - 1 \in 0..k /\ s[1] <= u[1] - 1
      BY <1>7, <2>1
    <2>3. off[s[1]] <= off[u[1] - 1]
      BY <1>1, <2>2, Zenon
    <2>4. g[s] <= off[s[1]] /\ off[u[1] - 1] < g[u] /\ g[s] \in 1..L /\ g[u] \in 1..L
          /\ off[s[1]] \in Nat /\ off[u[1] - 1] \in Nat
      BY <1>2, <1>5, <2>2
    <2>5. QED
      BY <1>2, <2>3, <2>4
  <1>8. ASSUME NEW s \in Sp, NEW u \in Sp
        PROVE  (u[1] < s[1] \/ (u[1] = s[1] /\ u[2] <= s[2])) <=> g[u] <= g[s]
    <2>1. /\ s[1] \in Nat /\ s[2] \in Nat /\ u[1] \in Nat /\ u[2] \in Nat
          /\ g[s] \in 1..L /\ g[u] \in 1..L
      BY <1>5, Zenon
    <2>2. CASE s[1] < u[1]
      BY <1>2, <1>7, <2>1, <2>2
    <2>3. CASE u[1] < s[1]
      BY <1>2, <1>7, <2>1, <2>3
    <2>4. CASE u[1] = s[1]
      <3>1. g[s] = off[s[1] - 1] + s[2] /\ g[u] = off[s[1] - 1] + u[2] /\ off[s[1] - 1] \in Nat
        BY <1>5, <2>4, Zenon
      <3>2. QED
        BY <2>1, <2>4, <3>1
    <2>5. QED
      BY <2>1, <2>2, <2>3, <2>4
  <1>9. ASSUME NEW s \in Sp, NEW u \in Sp, g[s] = g[u]
        PROVE  s = u
    <2>1. /\ s[1] \in Nat /\ s[2] \in Nat /\ u[1] \in Nat /\ u[2] \in Nat
          /\ g[s] \in 1..L /\ g[u] \in 1..L /\ s = <<s[1], s[2]>> /\ u = <<u[1], u[2]>>
      BY <1>4, <1>5, Zenon
    <2>2. /\ u[1] < s[1] \/ (u[1] = s[1] /\ u[2] <= s[2])
          /\ s[1] < u[1] \/ (s[1] = u[1] /\ s[2] <= u[2])
      <3>1. g[u] <= g[s] /\ g[s] <= g[u]
        BY <1>2, <1>9, <2>1
      <3>2. QED
        BY <1>8, <3>1, Zenon
    <2>3. u[1] = s[1] /\ u[2] = s[2]
      BY <2>1, <2>2
    <2>4. QED
      BY <2>1, <2>3, Zenon
  <1>10. ASSUME NEW p \in 1..L
         PROVE  \E s \in Sp : g[s] = p
    <2> DEFINE Reach == {n \in 0..k : p <= off[n]}
    <2>1. k \in Reach /\ Reach \in SUBSET Nat
      BY <1>2 DEF L
    <2>2. PICK n \in Reach : \A m \in Reach : n <= m
      BY <2>1, LeastNatural
    <2>3. n \in 0..k /\ p <= off[n] /\ n # 0
      BY <1>2
    <2>4. n \in 1..k /\ n - 1 \in 0..k /\ ~ (n <= n - 1)
      BY <2>3
    <2>5. ~ (p <= off[n - 1])
      BY <2>2, <2>4
    <2>6. off[n - 1] \in Nat /\ off[n] \in Nat /\ p \in Nat
      BY <1>2, <2>4
    <2>7. p - off[n - 1] \in 1..(off[n] - off[n - 1])
      BY <2>3, <2>5, <2>6
    <2>8. <<n, p - off[n - 1]>> \in Sp
      BY <1>3, <2>4, <2>7, Zenon
    <2>9. g[<<n, p - off[n - 1]>>] = off[n - 1] + (p - off[n - 1])
      BY <1>5, <2>8
    <2>10. off[n - 1] + (p - off[n - 1]) = p
      BY <2>6
    <2>11. QED
      BY <2>8, <2>9, <2>10, Zenon
  <1>11. ASSUME NEW s \in Sp
         PROVE  Cardinality(UpTo(ss, s)) = g[s]
    <2> DEFINE U == UpTo(ss, s)
               h == [u \in U |-> g[u]]
               c == g[s]
    <2>1. c \in 1..L
      BY <1>5, Zenon
    <2>2. U \subseteq Sp /\ \A u \in Sp : u \in U <=> g[u] <= c
      BY <1>8 DEF UpTo, Sp
    <2> HIDE DEF U, c
    <2>3. ASSUME NEW u \in U PROVE h[u] = g[u] /\ g[u] \in 1..c
      <3>1. g[u] \in 1..L /\ g[u] <= c
        BY <1>5, <2>2, Zenon
      <3>2. QED
        BY <1>2, <2>1, <3>1
    <2>4. h \in [U -> 1..c]
      BY <2>3
    <2> HIDE DEF h
    <2>5. \A u, v \in U : h[u] = h[v] => u = v
      BY <1>9, <2>2, <2>3, Zenon
    <2>6. ASSUME NEW p \in 1..c PROVE \E u \in U : h[u] = p
      <3>1. p \in 1..L /\ p <= c
        BY <1>2, <2>1
      <3>2. PICK u \in Sp : g[u] = p
        BY <1>10, <3>1, Zenon
      <3>3. QED
        BY <2>2, <2>3, <3>1, <3>2
    <2>7. \A p \in 1..c : \E u \in U : h[u] = p
      BY <2>6
    <2>8. c \in Nat
      BY <1>2, <2>1
    <2>9. IsFiniteSet(U)
      <3>1. IsFiniteSet(1..c)
        BY <2>8, FirstNumbers, Zenon
      <3>2. h \in Injection(U, 1..c)
        BY <2>4, <2>5 DEF Injection, IsInjective
      <3>3. QED
        BY <3>1, <3>2, FS_Injection, Zenon
    <2>10. Cardinality(1..c) = Cardinality(U)
      BY <2>4, <2>5, <2>7, <2>9, OneToOne
    <2>11. QED
      BY <2>8, <2>10, FirstNumbers, Zenon DEF U, c
  <1>12. Cardinality(Sp) = L
    <2>1. IsFiniteSet(1..L) /\ Cardinality(1..L) = L
      BY <1>2, FirstNumbers, Zenon
    <2>2. g \in Injection(Sp, 1..L)
      BY <1>6, <1>9 DEF Injection, IsInjective
    <2>3. IsFiniteSet(Sp)
      BY <2>1, <2>2, FS_Injection, Zenon
    <2>4. \A p \in 1..L : \E s \in Sp : g[s] = p
      BY <1>10
    <2>5. Cardinality(1..L) = Cardinality(Sp)
      BY <1>6, <1>9, <2>3, <2>4, OneToOne
    <2>6. QED
      BY <2>1, <2>5, Zenon
  <1>13. ASSUME NEW p \in 1..L
         PROVE  ss[SpotAt(ss, p)[1]][SpotAt(ss, p)[2]] = t[p]
    <2>1. \E u \in Sp : Cardinality(UpTo(ss, u)) = p
      BY <1>10, <1>11, Zenon
    <2> DEFINE spot == SpotAt(ss, p)
    <2>2. spot \in Sp /\ Cardinality(UpTo(ss, spot)) = p
      BY <2>1, Zenon DEF SpotAt, Sp
    <2> HIDE DEF spot
    <2>3. g[spot] = p
      BY <1>11, <2>2, Zenon
    <2>4. ss[spot[1]][spot[2]] = t[p]
      BY <1>5, <2>2, <2>3, Zenon
    <2>5. QED
      BY <2>4, Zenon DEF spot
  <1>14. Flattened(ss) = [p \in 1..L |-> ss[SpotAt(ss, p)[1]][SpotAt(ss, p)[2]]]
    BY <1>12, Zenon DEF Flattened, Sp
  <1>15. QED
    BY <1>2, <1>13, <1>14

\* What is kept of a part of a list, from after place a to place b, is a part of what is
\* kept of the list: it comes after what is kept up to a.
NotAbove(K, c) == {j \in K : j <= c}
PlacesIn(K, a, b) == {i \in 1..(b - a) : a + i \in K}
KeptOfPart(s, K, a, b, u, M) ==
  /\ Cardinality(NotAbove(K, a)) \in Nat /\ Cardinality(M) \in Nat
  /\ Cardinality(NotAbove(K, b)) = Cardinality(NotAbove(K, a)) + Cardinality(M)
  /\ DOMAIN Selected(u, M) = 1..Cardinality(M)
  /\ \A i \in 1..Cardinality(M) : Selected(u, M)[i] = Selected(s, K)[Cardinality(NotAbove(K, a)) + i]

LEMMA SelectedPart ==
  ASSUME NEW S, NEW s \in Seq(S), NEW K \in SUBSET (DOMAIN s),
         NEW a \in Nat, NEW b \in Nat, a <= b, b <= Len(s),
         NEW u, DOMAIN u = 1..(b - a), \A i \in 1..(b - a) : u[i] = s[a + i],
         NEW M, M = PlacesIn(K, a, b)
  PROVE  KeptOfPart(s, K, a, b, u, M)
  <1> DEFINE A == NotAbove(K, a)
             o == Cardinality(A)
             N == Cardinality(K)
  <1>0. M = {i \in 1..(b - a) : a + i \in K}
    BY Zenon DEF PlacesIn
  <1> USE <1>0
  <1>1. /\ K \subseteq Nat /\ IsFiniteSet(K) /\ \A k \in K : k \in 1..Len(s)
        /\ Len(s) \in Nat
    <2>1. Len(s) \in Nat /\ DOMAIN s = 1..Len(s)
      OBVIOUS
    <2>2. QED
      BY <2>1, PlacesOfList, Zenon
  <1>2. M \in SUBSET (1..(b - a)) /\ M \subseteq Nat /\ b - a \in Nat
    OBVIOUS
  <1>3. IsFiniteSet(M) /\ Cardinality(M) \in Nat
    BY <1>2, SomeOfFirst, Zenon
  <1>4. IsFiniteSet(A) /\ o \in Nat
    <2>1. A \in SUBSET K
      BY DEF NotAbove
    <2>2. QED
      BY <1>1, <2>1, FS_Subset, FS_CardinalityType, Zenon
  <1>5. ASSUME NEW c \in Nat, c <= b - a
        PROVE  Cardinality(NotAbove(K, a + c)) = o + Cardinality(NotAbove(M, c))
    <2> DEFINE B == NotAbove(M, c)
               T == {n + a : n \in B}
    <2>1. B \in SUBSET M
      BY DEF NotAbove
    <2>2. IsFiniteSet(B) /\ B \subseteq Nat /\ Cardinality(B) \in Nat
      BY <1>2, <1>3, <2>1, FS_Subset, FS_CardinalityType
    <2>3. NotAbove(K, a + c) = A \cup T
      <3>1. \A j \in K : j <= a + c => j <= a \/ (j - a \in B /\ (j - a) + a = j)
        <4>1. \A j \in K : j \in Nat
          BY <1>1
        <4>2. SUFFICES ASSUME NEW j \in K, j <= a + c, ~ (j <= a)
                       PROVE  j - a \in B /\ (j - a) + a = j
          OBVIOUS
        <4>3. j \in Nat /\ j - a \in 1..(b - a) /\ a + (j - a) = j /\ j - a <= c
          BY <1>5, <4>1, <4>2
        <4>4. QED
          BY <4>3 DEF NotAbove
      <3>2. \A j \in K : j <= a => j <= a + c
        BY <1>1
      <3>3. \A n \in B : n + a \in K /\ n + a <= a + c
        <4>1. SUFFICES ASSUME NEW n \in B PROVE n + a \in K /\ n + a <= a + c
          OBVIOUS
        <4>2. n \in M /\ n <= c /\ n \in Nat
          BY <1>2 DEF NotAbove
        <4>3. a + n \in K /\ a + n = n + a
          BY <4>2
        <4>4. QED
          BY <4>2, <4>3
      <3>4. \A j : j \in A \cup T => j \in NotAbove(K, a + c)
        BY <3>2, <3>3 DEF NotAbove
      <3>5. \A j : j \in NotAbove(K, a + c) => j \in A \cup T
        <4>1. SUFFICES ASSUME NEW j \in K, j <= a + c PROVE j \in A \cup T
          BY DEF NotAbove
        <4>2. CASE j <= a
          BY <4>2 DEF NotAbove
        <4>3. CASE ~ (j <= a)
          BY <3>1, <4>1, <4>3
        <4>4. QED
          BY <4>2, <4>3
      <3>6. QED
        BY <3>4, <3>5
    <2>4. A \cap T = {}
      <3>1. \A n \in B : n \in M
        BY <2>1
      <3>2. \A n \in B : ~ (n + a <= a)
        BY <1>2, <3>1
      <3>3. QED
        BY <3>2 DEF NotAbove
    <2> HIDE DEF B
    <2>5. IsFiniteSet(T) /\ Cardinality(T) = Cardinality(B)
      BY <2>2, MovedUp, Zenon
    <2> HIDE DEF A, T
    <2>6. Cardinality(A \cup T) = Cardinality(A) + Cardinality(T) - Cardinality(A \cap T)
      BY <1>4, <2>5, FS_Union
    <2>7. Cardinality(A \cap T) = 0
      BY <2>4, FS_EmptySet, Zenon
    <2>8. Cardinality(T) \in Nat /\ o \in Nat /\ o = Cardinality(A)
      BY <1>4, <2>2, <2>5, Zenon
    <2> HIDE DEF o
    <2>9. Cardinality(A \cup T) = o + Cardinality(T)
      BY <2>6, <2>7, <2>8
    <2>10. QED
      BY <2>3, <2>5, <2>9, Zenon DEF B
  <1>6. Cardinality(NotAbove(K, b)) = o + Cardinality(M)
    <2>1. NotAbove(M, b - a) = M
      BY <1>2 DEF NotAbove
    <2>2. a + (b - a) = b /\ b - a \in Nat /\ b - a <= b - a
      OBVIOUS
    <2>3. QED
      BY <1>5, <2>1, <2>2
  <1> HIDE DEF A, o
  <1>7. /\ N \in Nat /\ \A n \in 1..N : Cardinality(NotAbove(K, Place(K, n))) = n
        /\ \A k \in K : \E n \in 1..N : Place(K, n) = k
        /\ Selected(s, K) = [n \in 1..N |-> s[Place(K, n)]]
    BY <1>1, PlacesOnce, Zenon DEF NotAbove, Selected
  <1>8. ASSUME NEW i \in 1..Cardinality(M)
        PROVE  Selected(u, M)[i] = Selected(s, K)[o + i]
    <2> DEFINE x == Place(M, i)
    <2>1. x \in M /\ Cardinality(NotAbove(M, x)) = i
      BY <1>2, <1>3, PlacesOnce, Zenon DEF NotAbove
    <2>2. Selected(u, M)[i] = u[x]
      BY <1>3 DEF Selected
    <2> HIDE DEF x
    <2>3. x \in Nat /\ x \in 1..(b - a) /\ x <= b - a /\ a + x \in K
      BY <1>2, <2>1
    <2>4. u[x] = s[a + x]
      BY <2>3
    <2>5. Cardinality(NotAbove(K, a + x)) = o + i
      BY <1>5, <2>1, <2>3
    <2>6. PICK n \in 1..N : Place(K, n) = a + x
      BY <1>7, <2>3, Zenon
    <2>7. n = o + i
      BY <1>7, <2>5, <2>6, Zenon
    <2>8. Selected(s, K)[n] = s[Place(K, n)]
      BY <1>7
    <2>9. QED
      BY <2>2, <2>4, <2>6, <2>7, <2>8, Zenon
  <1>9. DOMAIN Selected(u, M) = 1..Cardinality(M)
    BY Zenon DEF Selected
  <1>10. QED
    BY <1>3, <1>4, <1>6, <1>8, <1>9, Zenon DEF KeptOfPart, A, o

\* A sum of equal values.
LEMMA SumOfEqual ==
  ASSUME NEW f, IsFiniteSet(DOMAIN f), NEW c \in Nat, \A x \in DOMAIN f : f[x] = c
  PROVE  Summed(f) = Cardinality(DOMAIN f) * c
  <1> DEFINE D == DOMAIN f
  <1>1. UnitsOf(f) = D \X (1..c)
    <2>1. UnitsOf(f) = UNION {{x} \X (1..c) : x \in D}
      BY DEF UnitsOf
    <2> HIDE DEF D
    <2>2. UNION {{x} \X (1..c) : x \in D} = D \X (1..c)
      OBVIOUS
    <2>3. QED
      BY <2>1, <2>2, Zenon
  <1>2. IsFiniteSet(1..c) /\ Cardinality(1..c) = c
    BY FirstNumbers, Zenon
  <1> HIDE DEF D
  <1>3. Cardinality(D \X (1..c)) = Cardinality(D) * Cardinality(1..c)
    BY <1>2, FS_Product, Zenon DEF D
  <1>4. QED
    BY <1>1, <1>2, <1>3, Zenon DEF Summed, D

=============================================================================
