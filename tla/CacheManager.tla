---------------------------- MODULE CacheManager ----------------------------
(***************************************************************************)
(* The in-memory cache with expiry and eviction of the least recently      *)
(* used.  Every operation holds the lock for as long as it runs, so each   *)
(* is one step.  Data is not modelled but its size is, after pickling and  *)
(* compression; get returns that pickled form.                             *)
(***************************************************************************)
EXTENDS Naturals, Sequences, FiniteSets, SequencesExt, Selection

CONSTANTS
  Items,       \* what keys are made of
  NoEntry,
  MaxEntries,  \* max_entries
  MaxMemory,   \* max_memory_mb
  DefaultTtl,  \* default_ttl
  MaxClock     \* bound: the clock

\* CacheEntry, as far as it is modelled.
Entry == [created : 0..MaxClock, used : 0..MaxClock, ttl : Nat, size : 1..MaxMemory]

CacheAssumption ==
  /\ MaxEntries \in Nat \ {0} /\ MaxMemory \in Nat \ {0}
  /\ DefaultTtl \in Nat \ {0} /\ MaxClock \in Nat
  /\ NoEntry \notin Entry

VARIABLES
  clock,
  entries,  \* _cache
  order     \* _access_order

vars == <<clock, entries, order>>

Cached == {i \in Items : entries[i] # NoEntry}

Expired(i) == clock - entries[i].created > entries[i].ttl

\* The memory of several entries, unit by unit.
SizeOf(S) == Cardinality({u \in S \X (1..MaxMemory) : u[2] <= entries[u[1]].size})

\* _access_order without some of the items.
Unlisted(S) == Selected(order, {n \in DOMAIN order : order[n] \notin S})

\* _remove_entry, of several.
Without(S) ==
  /\ entries' = [i \in Items |-> IF i \in S THEN NoEntry ELSE entries[i]]
  /\ order' = Unlisted(S)

\* get, of an entry that is still good.
Hit(i) ==
  /\ i \in Cached /\ ~Expired(i)
  /\ entries' = [entries EXCEPT ![i].used = clock]
  /\ order' = Append(Unlisted({i}), i)
  /\ UNCHANGED clock

\* get, of one that has expired.
GetExpired(i) ==
  /\ i \in Cached /\ Expired(i)
  /\ Without({i})
  /\ UNCHANGED clock

\* What is left when the entry i itself and the n oldest of the others are gone.
Others(i) == Unlisted({i})
Out(i, n) == {Others(i)[m] : m \in 1..n}
Left(i, n) == Cached \ ({i} \cup Out(i, n))

\* Mutant: the size of the entries is not looked at.
FitsByCount(i, n, size) == Cardinality(Left(i, n)) < MaxEntries

Fits(i, n, size) ==
  Cardinality(Left(i, n)) < MaxEntries /\ SizeOf(Left(i, n)) + size <= MaxMemory

\* _ensure_space: as few as will do are evicted, the least recently used first.
Evicted(i, size) ==
  Out(i, CHOOSE n \in 0..Len(Others(i)) :
           Fits(i, n, size) /\ \A m \in 0..(n - 1) : ~Fits(i, m, size))

\* Mutant: an entry that is replaced keeps its old place in the list as well.
ListedKeepsPlace(i, size) == Append(Unlisted(Evicted(i, size)), i)

Listed(i, size) == Append(Unlisted({i} \cup Evicted(i, size)), i)

\* set; a time to live of 0 is the default.  What is too large is not stored, and an
\* earlier entry of the key then stays.
Set(i, size, ttl) ==
  /\ size <= MaxMemory
  /\ entries' = [j \in Items |->
       IF j = i
         THEN [created |-> clock, used |-> clock, ttl |-> IF ttl = 0 THEN DefaultTtl ELSE ttl, size |-> size]
         ELSE IF j \in Evicted(i, size) THEN NoEntry ELSE entries[j]]
  /\ order' = Listed(i, size)
  /\ UNCHANGED clock

\* delete.
Delete(i) ==
  /\ i \in Cached
  /\ Without({i})
  /\ UNCHANGED clock

\* _cleanup_expired, from the clean-up loop.
CleanupExpired ==
  /\ Without({i \in Cached : Expired(i)})
  /\ UNCHANGED clock

\* clear_namespace removes the keys that begin with the text it is given.  The routes give
\* it the empty text, for the whole cache, or what the client asks for; as keys are
\* hashes, any of them may begin with that, or none.
ClearNamespace(S) ==
  /\ S \subseteq Cached
  /\ Without(S)
  /\ UNCHANGED clock

Tick ==
  /\ clock < MaxClock
  /\ clock' = clock + 1
  /\ UNCHANGED <<entries, order>>

Init ==
  /\ clock = 0
  /\ entries = [i \in Items |-> NoEntry]
  /\ order = <<>>

Next ==
  \/ \E i \in Items :
       \/ Hit(i) \/ GetExpired(i) \/ Delete(i)
       \/ \E size \in 1..MaxMemory, ttl \in 0..1 : Set(i, size, ttl)
  \/ CleanupExpired
  \/ \E S \in SUBSET Items : ClearNamespace(S)
  \/ Tick

Spec == Init /\ [][Next]_vars

---------------------------------------------------------------------------
(* Properties.                                                             *)

TypeOK ==
  /\ clock \in 0..MaxClock
  /\ entries \in [Items -> Entry \cup {NoEntry}]
  /\ order \in Seq(Items)

\* The list has every entry once and nothing else, the least recently used first.  The
\* loop that makes room ends only because of that: a key that is listed and not cached
\* would stay at the head of the list and the loop would go on for ever.
OrderAgrees ==
  /\ ToSet(order) = Cached /\ Len(order) = Cardinality(Cached)
  /\ \A m, n \in DOMAIN order : m < n => entries[order[m]].used <= entries[order[n]].used

\* Neither the number of entries nor their size ever passes its limit.
WithinBounds == Cardinality(Cached) <= MaxEntries /\ SizeOf(Cached) <= MaxMemory

=============================================================================
