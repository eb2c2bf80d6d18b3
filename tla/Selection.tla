----------------------------- MODULE Selection -----------------------------
(***************************************************************************)
(* What a list comprehension with a condition keeps of a list, several     *)
(* lists one after the other, a stable sort, and a sum.  They say what     *)
(* SelectSeq, FlattenSeq, SortSeq and SumFunction say, by places and by    *)
(* counting rather than by recursion, and so can be reasoned about by the  *)
(* provers.                                                                *)
(***************************************************************************)
EXTENDS Naturals, FiniteSets

\* The place of the n-th of those kept.
Place(kept, n) == CHOOSE k \in kept : Cardinality({j \in kept : j <= k}) = n

\* The elements of s at the places kept, in their order.
Selected(s, kept) == [n \in 1..Cardinality(kept) |-> s[Place(kept, n)]]

\* The places in the sequences of ss, and those up to one of them.
Spots(ss) == UNION {{n} \X DOMAIN ss[n] : n \in DOMAIN ss}
UpTo(ss, spot) ==
  {t \in Spots(ss) : t[1] < spot[1] \/ (t[1] = spot[1] /\ t[2] <= spot[2])}

SpotAt(ss, p) == CHOOSE t \in Spots(ss) : Cardinality(UpTo(ss, t)) = p

\* The sequences of ss one after the other.
Flattened(ss) ==
  [p \in 1..Cardinality(Spots(ss)) |-> ss[SpotAt(ss, p)[1]][SpotAt(ss, p)[2]]]

\* The places in their order when sorted by the keys, which are numbers, the least first;
\* of equal keys the first comes first.
Earlier(keys, k) == {j \in DOMAIN keys : keys[j] < keys[k] \/ (keys[j] = keys[k] /\ j <= k)}
SortedPlace(keys, n) == CHOOSE k \in DOMAIN keys : Cardinality(Earlier(keys, k)) = n
Sorting(keys) == [n \in DOMAIN keys |-> SortedPlace(keys, n)]

\* The sum of the values of f, which are naturals, counted unit by unit.
UnitsOf(f) == UNION {{x} \X (1..f[x]) : x \in DOMAIN f}
Summed(f) == Cardinality(UnitsOf(f))

=============================================================================
