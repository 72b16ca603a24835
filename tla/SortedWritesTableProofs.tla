------------------------ MODULE SortedWritesTableProofs ------------------------
(* Proofs about SortedWritesTable, for every set of keys, any sharding, merge *)
(* function, batch size and rehash threshold: the hash map and the count of   *)
(* stale rows are exact, timestamp ranges and the cached index give the rows  *)
(* asked for, and a merge reports what it changed.                            *)
EXTENDS SortedWritesTable, FiniteSetTheorems, WellFoundedInduction, TLAPS

-----------------------------------------------------------------------------
(* Sets of numbers. *)

\* A set of naturals that is not empty has a least element.
LEMMA LeastNatural ==
    ASSUME NEW S \in SUBSET Nat, S # {}
    PROVE  \E m \in S : \A n \in S : m <= n
<1>1. \E x \in S : \A y \in S : ~(<<y, x>> \in OpToRel(<, Nat))
  BY NatLessThanWellFounded, WFMin, Zenon
<1>2. \A x, y \in S : <<y, x>> \in OpToRel(<, Nat) <=> y < x
  BY DEF OpToRel
<1>3. \A x, y \in S : y < x \/ x <= y
  OBVIOUS
<1> QED
  BY <1>1, <1>2, <1>3

\* Max gives the greatest element of a set that has a bound.
LEMMA BoundedMax ==
    ASSUME NEW S \in SUBSET Nat, S # {}, NEW b \in Nat, \A x \in S : x <= b
    PROVE  Max(S) \in S /\ \A x \in S : x <= Max(S)
<1> DEFINE Gaps == {n \in Nat : \E x \in S : x + n = b}
<1>1. \A x \in S : b - x \in Gaps
  OBVIOUS
<1>2. PICK g \in Gaps : \A n \in Gaps : g <= n
  BY <1>1, LeastNatural
<1>3. PICK u \in S : u + g = b
  OBVIOUS
<1>4. \A y \in S : u >= y
  BY <1>1, <1>2, <1>3
<1> QED
  BY <1>4 DEF Max

\* A set of numbers that has all lesser ones is as large as its greatest element.
LEMMA PrefixLength ==
    ASSUME NEW k \in Nat, NEW D \in SUBSET (1..k), \A n \in D, m \in 1..k : m <= n => m \in D
    PROVE  Cardinality(D) \in 0..k /\ D = 1..Cardinality(D)
<1> DEFINE Gaps == {n \in Nat : n + 1 \notin D}
<1>1. k \in Gaps
  OBVIOUS
<1>2. PICK j \in Gaps : \A n \in Gaps : j <= n
  BY <1>1, LeastNatural
<1>3. j \in Nat /\ j <= k
  BY <1>1, <1>2
<1>4. ASSUME NEW n \in 1..j PROVE n \in D
  <2>1. n - 1 \in Nat /\ n - 1 < j
    BY <1>3
  <2>2. n - 1 \notin Gaps
    BY <1>2, <1>3, <2>1
  <2> QED
    BY <2>1, <2>2
<1>5. ASSUME NEW n \in D PROVE n \in 1..j
  BY <1>2, <1>3
<1>6. D = 1..j
  BY <1>4, <1>5
<1>7. Cardinality(1..j) = j
  BY <1>3, FS_Interval
<1> QED
  BY <1>3, <1>6, <1>7

\* Sets between which there is a one-to-one map have the same size.
LEMMA SameSize ==
    ASSUME NEW S, NEW T, NEW f \in [S -> T], IsFiniteSet(S),
           \A x, y \in S : f[x] = f[y] => x = y, \A y \in T : \E x \in S : f[x] = y
    PROVE  IsFiniteSet(T) /\ Cardinality(T) = Cardinality(S)
<1>1. f \in Bijection(S, T)
  BY DEF Bijection, Injection, Surjection, IsInjective
<1> QED
  BY <1>1, FS_Bijection DEF ExistsBijection

\* The elements of a finite set of numbers are numbered in ascending order by
\* how many are not greater.
LEMMA Ranks ==
    ASSUME NEW k \in Nat, NEW S \in SUBSET (1..k)
    PROVE  /\ Cardinality(S) \in Nat
           /\ \A i \in S : Cardinality({j \in S : j <= i}) \in 1..Cardinality(S)
           /\ \A i, j \in S : i < j => Cardinality({x \in S : x <= i}) < Cardinality({x \in S : x <= j})
           /\ \A n \in 1..Cardinality(S) : \E i \in S : Cardinality({j \in S : j <= i}) = n
<1> DEFINE N == Cardinality(S)
           upTo(i) == {j \in S : j <= i}
           rank == [i \in S |-> Cardinality(upTo(i))]
<1>1. IsFiniteSet(S) /\ N \in Nat
  <2>1. IsFiniteSet(1..k)
    BY FS_Interval
  <2>2. IsFiniteSet(S)
    BY <2>1, FS_Subset
  <2> QED
    BY <2>2, FS_CardinalityType
<1>2. \A i \in S : IsFiniteSet(upTo(i)) /\ Cardinality(upTo(i)) \in Nat /\ Cardinality(upTo(i)) <= N
  <2> SUFFICES ASSUME NEW i \in S
               PROVE  IsFiniteSet(upTo(i)) /\ Cardinality(upTo(i)) \in Nat /\ Cardinality(upTo(i)) <= N
    OBVIOUS
  <2>1. upTo(i) \in SUBSET S
    OBVIOUS
  <2> HIDE DEF upTo
  <2>2. IsFiniteSet(upTo(i)) /\ Cardinality(upTo(i)) <= N
    BY <1>1, <2>1, FS_Subset
  <2> QED
    BY <2>2, FS_CardinalityType
<1>3. ASSUME NEW i \in S, NEW j \in S, i < j PROVE Cardinality(upTo(i)) < Cardinality(upTo(j))
  <2>1. upTo(i) \in SUBSET upTo(j) /\ j \in upTo(j) /\ j \notin upTo(i)
    <3>1. \A x \in S : x \in Nat
      OBVIOUS
    <3>2. \A x \in S : x <= i => x <= j
      BY <1>3, <3>1
    <3>3. ~(j <= i) /\ j <= j
      BY <1>3, <3>1
    <3> QED
      BY <3>2, <3>3
  <2> HIDE DEF upTo
  <2>2. IsFiniteSet(upTo(j)) /\ IsFiniteSet(upTo(i)) /\ Cardinality(upTo(i)) \in Nat /\ Cardinality(upTo(j)) \in Nat
    BY <1>2
  <2>3. Cardinality(upTo(i)) <= Cardinality(upTo(j))
    BY <2>1, <2>2, FS_Subset
  <2>4. Cardinality(upTo(i)) # Cardinality(upTo(j))
    <3> SUFFICES ASSUME Cardinality(upTo(i)) = Cardinality(upTo(j)) PROVE FALSE
      OBVIOUS
    <3>1. upTo(i) = upTo(j)
      BY <2>1, <2>2, FS_Subset
    <3> QED
      BY <2>1, <3>1
  <2> QED
    BY <2>2, <2>3, <2>4
<1>4. \A i \in S : rank[i] \in 1..N
  <2> SUFFICES ASSUME NEW i \in S PROVE rank[i] \in 1..N
    OBVIOUS
  <2>1. i \in upTo(i)
    OBVIOUS
  <2>2. rank[i] = Cardinality(upTo(i))
    OBVIOUS
  <2> HIDE DEF upTo, rank
  <2>3. Cardinality(upTo(i)) # 0
    BY <1>2, <2>1, FS_EmptySet
  <2> QED
    BY <1>1, <1>2, <2>2, <2>3
<1>5. \A i, j \in S : rank[i] = rank[j] => i = j
  <2> SUFFICES ASSUME NEW i \in S, NEW j \in S, rank[i] = rank[j], i # j PROVE FALSE
    OBVIOUS
  <2>1. i < j \/ j < i
    OBVIOUS
  <2>2. Cardinality(upTo(i)) = Cardinality(upTo(j))
    OBVIOUS
  <2> HIDE DEF upTo, rank
  <2>3. Cardinality(upTo(i)) \in Nat /\ Cardinality(upTo(j)) \in Nat
    BY <1>2
  <2>4. i < j => Cardinality(upTo(i)) < Cardinality(upTo(j))
    BY <1>3
  <2>5. j < i => Cardinality(upTo(j)) < Cardinality(upTo(i))
    BY <1>3
  <2> QED
    BY <2>1, <2>2, <2>3, <2>4, <2>5
<1>6. IsFiniteSet(1..N) /\ Cardinality(1..N) = N
  <2> HIDE DEF N
  <2> QED
    BY <1>1, FS_Interval
<1>7. rank \in [S -> 1..N]
  <2>1. rank = [i \in S |-> rank[i]]
    OBVIOUS
  <2> HIDE DEF rank
  <2> QED
    BY <1>4, <2>1
<1>8. \A n \in 1..N : \E i \in S : rank[i] = n
  <2>1. rank \in Injection(S, 1..N)
    <3> HIDE DEF rank, N
    <3> QED
      BY <1>5, <1>7 DEF Injection, IsInjective
  <2> HIDE DEF rank
  <2>2. rank \in Surjection(S, 1..N)
    BY <1>6, <2>1, FS_Injection
  <2> QED
    BY <2>2 DEF Surjection
<1>9. \A i \in S : rank[i] = Cardinality({j \in S : j <= i})
  OBVIOUS
<1> HIDE DEF rank
<1> QED
  BY <1>1, <1>3, <1>4, <1>8, <1>9

-----------------------------------------------------------------------------
(* Counting stale rows. *)

StaleSet(d) == {i \in 1..Len(d) : ~d[i].live}

\* Row buffers are finite, and so is what is stale in them.
LEMMA StaleFinite ==
  ASSUME NEW d \in Seq(EntryType)
  PROVE  /\ StaleIn(d) = Cardinality(StaleSet(d)) /\ IsFiniteSet(StaleSet(d)) /\ StaleIn(d) \in Nat
         /\ Len(d) \in Nat /\ DOMAIN d = 1..Len(d) /\ \A i \in 1..Len(d) : d[i] \in EntryType
<1>1. StaleSet(d) \subseteq 1..Len(d) /\ DOMAIN d = 1..Len(d) /\ Len(d) \in Nat
  BY DEF StaleSet
<1>2. IsFiniteSet(StaleSet(d))
  <2>1. IsFiniteSet(1..Len(d))
    BY <1>1, FS_Interval
  <2> QED
    BY <1>1, <2>1, FS_Subset
<1>3. StaleIn(d) = Cardinality(StaleSet(d))
  BY <1>1 DEF StaleIn, StaleSet
<1> QED
  BY <1>1, <1>2, <1>3, FS_CardinalityType

\* Marking rows as stale changes nothing else.
LEMMA RetiredFacts ==
  ASSUME NEW d \in Seq(EntryType), NEW ids
  PROVE  /\ Retired(d, ids) \in Seq(EntryType) /\ Len(Retired(d, ids)) = Len(d)
         /\ \A i \in 1..Len(d) : /\ Retired(d, ids)[i].row = d[i].row
                                 /\ Retired(d, ids)[i].live <=> d[i].live /\ i \notin ids
<1>1. Len(d) \in Nat /\ DOMAIN d = 1..Len(d) /\ \A i \in 1..Len(d) : d[i] \in EntryType
  BY StaleFinite
<1>2. Retired(d, ids) = [i \in 1..Len(d) |-> [d[i] EXCEPT !.live = d[i].live /\ i \notin ids]]
  BY <1>1 DEF Retired
<1>3. \A i \in 1..Len(d) : /\ Retired(d, ids)[i] \in EntryType
                           /\ Retired(d, ids)[i].row = d[i].row
                           /\ Retired(d, ids)[i].live <=> d[i].live /\ i \notin ids
  <2> SUFFICES ASSUME NEW i \in 1..Len(d)
               PROVE  /\ Retired(d, ids)[i] \in EntryType
                      /\ Retired(d, ids)[i].row = d[i].row
                      /\ Retired(d, ids)[i].live <=> d[i].live /\ i \notin ids
    OBVIOUS
  <2> DEFINE live == d[i].live /\ i \notin ids
  <2>1. Retired(d, ids)[i] = [d[i] EXCEPT !.live = live]
    BY <1>2
  <2>2. d[i] \in EntryType /\ live \in BOOLEAN
    BY <1>1
  <2> HIDE DEF live
  <2>3. [d[i] EXCEPT !.live = live] \in EntryType /\ [d[i] EXCEPT !.live = live].row = d[i].row
        /\ [d[i] EXCEPT !.live = live].live = live
    BY <2>2 DEF EntryType
  <2> QED
    BY <2>1, <2>3 DEF live
<1>4. Retired(d, ids) \in Seq(EntryType) /\ Len(Retired(d, ids)) = Len(d)
  <2>1. Retired(d, ids) \in [1..Len(d) -> EntryType]
    <3>1. Retired(d, ids) = [i \in 1..Len(d) |-> Retired(d, ids)[i]]
      BY <1>2
    <3> HIDE DEF Retired
    <3> QED
      BY <1>3, <3>1, Zenon
  <2> HIDE DEF Retired
  <2> QED
    BY <1>1, <2>1
<1> QED
  BY <1>3, <1>4

\* Sets that share nothing add up.
LEMMA DisjointSize ==
  ASSUME NEW S, NEW T, IsFiniteSet(S), IsFiniteSet(T), S \cap T = {}
  PROVE  Cardinality(S \cup T) = Cardinality(S) + Cardinality(T)
<1>1. Cardinality(S \cup T) = Cardinality(S) + Cardinality(T) - Cardinality(S \cap T)
  BY FS_Union
<1>2. Cardinality(S \cap T) = 0
  BY FS_EmptySet
<1>3. Cardinality(S) \in Nat /\ Cardinality(T) \in Nat
  BY FS_CardinalityType
<1> QED
  BY <1>1, <1>2, <1>3

\* Marking live rows adds that many stale ones.
LEMMA RetiredCount ==
  ASSUME NEW d \in Seq(EntryType), NEW ids \in SUBSET (1..Len(d)), \A i \in ids : d[i].live
  PROVE  /\ StaleIn(Retired(d, ids)) = StaleIn(d) + Cardinality(ids)
         /\ IsFiniteSet(ids) /\ Cardinality(ids) \in Nat
<1>1. IsFiniteSet(StaleSet(d)) /\ StaleIn(d) = Cardinality(StaleSet(d)) /\ Len(d) \in Nat /\ StaleIn(d) \in Nat
  BY StaleFinite
<1>2. IsFiniteSet(ids) /\ Cardinality(ids) \in Nat
  <2>1. IsFiniteSet(1..Len(d))
    BY <1>1, FS_Interval
  <2>2. IsFiniteSet(ids)
    BY <2>1, FS_Subset
  <2> QED
    BY <2>2, FS_CardinalityType
<1>3. StaleSet(Retired(d, ids)) = StaleSet(d) \cup ids
  <2> DEFINE r == Retired(d, ids)
  <2>1. Len(r) = Len(d) /\ \A i \in 1..Len(d) : r[i].live <=> d[i].live /\ i \notin ids
    BY RetiredFacts
  <2> HIDE DEF r
  <2>2. StaleSet(r) = StaleSet(d) \cup ids
    BY <2>1, Zenon DEF StaleSet
  <2> QED
    BY <2>2 DEF r
<1>4. StaleSet(d) \cap ids = {}
  BY DEF StaleSet
<1>5. Cardinality(StaleSet(d) \cup ids) = Cardinality(StaleSet(d)) + Cardinality(ids)
  BY <1>1, <1>2, <1>4, DisjointSize
<1>6. StaleIn(Retired(d, ids)) = Cardinality(StaleSet(Retired(d, ids)))
  BY RetiredFacts, StaleFinite
<1> QED
  BY <1>1, <1>2, <1>3, <1>5, <1>6

\* Stale rows of two buffers, one after the other.
LEMMA JoinedCount ==
  ASSUME NEW d \in Seq(EntryType), NEW b \in Seq(EntryType)
  PROVE  StaleIn(d \o b) = StaleIn(d) + StaleIn(b)
<1> DEFINE n == Len(d)
           c == d \o b
           S == StaleSet(b)
           T == {i \in (n + 1)..(n + Len(b)) : ~c[i].live}
           f == [i \in S |-> n + i]
<1>1. /\ c \in Seq(EntryType) /\ Len(c) = n + Len(b) /\ n \in Nat /\ Len(b) \in Nat
      /\ \A i \in 1..n : c[i] = d[i]
      /\ \A i \in 1..Len(b) : c[n + i] = b[i]
  OBVIOUS
<1> HIDE DEF n, c
<1>2. IsFiniteSet(S) /\ IsFiniteSet(StaleSet(d)) /\ StaleIn(b) = Cardinality(S) /\ StaleIn(d) = Cardinality(StaleSet(d))
      /\ StaleIn(c) = Cardinality(StaleSet(c)) /\ StaleIn(b) \in Nat /\ StaleIn(d) \in Nat
  BY <1>1, StaleFinite
<1>3. f \in [S -> T] /\ \A x, y \in S : f[x] = f[y] => x = y
  BY <1>1 DEF StaleSet
<1>4. \A y \in T : \E x \in S : f[x] = y
  <2> SUFFICES ASSUME NEW y \in T PROVE y - n \in S /\ f[y - n] = y
    BY Zenon
  <2>1. y \in (n + 1)..(n + Len(b)) /\ ~c[y].live
    OBVIOUS
  <2>2. y - n \in 1..Len(b) /\ n + (y - n) = y
    BY <1>1, <2>1
  <2>3. c[y] = b[y - n]
    BY <1>1, <2>2
  <2> QED
    BY <2>1, <2>2, <2>3 DEF StaleSet
<1>5. IsFiniteSet(T) /\ Cardinality(T) = Cardinality(S)
  <2> HIDE DEF S, T, f
  <2> QED
    BY <1>2, <1>3, <1>4, SameSize
<1>6. StaleSet(c) = StaleSet(d) \cup T
  BY <1>1 DEF StaleSet, n
<1>7. StaleSet(d) \cap T = {}
  BY <1>1 DEF StaleSet, n
<1> HIDE DEF S, T, f
<1>8. Cardinality(StaleSet(d) \cup T) = Cardinality(StaleSet(d)) + Cardinality(T)
  BY <1>2, <1>5, <1>7, DisjointSize
<1> QED
  BY <1>2, <1>5, <1>6, <1>8 DEF c

-----------------------------------------------------------------------------
(* The inductive invariant. *)

MergeType ==
  [phase : {"idle", "delete", "serial", "parallel", "rehash"}, shard : Nat,
   staged : [Shards -> Seq(EntryType)], working : SUBSET Shards, start : Nat, ts : Nat,
   stale : Nat, added : BOOLEAN, owed : [Shards -> Nat]]
OffsetType == [ts : Nat, first : Nat]

\* Types, and that a table that is not merging remembers nothing of a merge.
TypeInv ==
  /\ data \in Seq(EntryType)
  /\ hash \in [Keys -> Nat]
  /\ offsets \in Seq(OffsetType)
  /\ staleRows \in Nat
  /\ generation \in Nat
  /\ queue \in [Shards -> Seq(Row)]
  /\ removals \in SUBSET Keys
  /\ buffers \in [Writers -> [rows : [Shards -> Seq(Row)], removals : SUBSET Keys]]
  /\ merge \in MergeType
  /\ merge.phase = "idle" => merge = Idle
  /\ merge.phase = "delete" => merge.stale = 0 /\ merge.ts = 0
  /\ clock \in Timestamps

\* What is staged and not merged yet was staged at the current timestamp.
Current(q) == \A n \in 1..Len(q) : q[n].ts = clock
CurrentInv ==
  /\ \A s \in Shards : Current(queue[s])
  /\ \A w \in Writers : \A s \in Shards : Current(buffers[w].rows[s])

\* A task has gathered at most one live row for a key.
UniqueKeys(d) == \A i, j \in 1..Len(d) : d[i].live /\ d[j].live /\ d[i].row.key = d[j].row.key => i = j
Fresh(d, t)   == \A i \in 1..Len(d) : d[i].live => d[i].row.ts = t
StagedInv == \A s \in Shards : UniqueKeys(merge.staged[s]) /\ Fresh(merge.staged[s], clock)

\* The hash map h leads to exactly the live rows of d.
Linked(d, h) ==
  /\ \A i \in 1..Len(d) : d[i].live => h[d[i].row.key] = i
  /\ \A k \in Keys : h[k] # 0 => h[k] \in 1..Len(d) /\ d[h[k]].live /\ d[h[k]].row.key = k
StaleInv ==
  StaleIn(data) = staleRows + (IF merge.phase = "parallel" THEN merge.stale ELSE 0)

\* Live rows come in the order of their timestamps, none later than t.
Sorted(d, t) ==
  /\ \A i \in 1..Len(d) : d[i].live => d[i].row.ts <= t
  /\ \A i, j \in 1..Len(d) : d[i].live /\ d[j].live /\ i <= j => d[i].row.ts <= d[j].row.ts

\* The offsets o ascend, none is later than t, and each splits the live rows of
\* d into those before its timestamp and the others.
Placed(d, o, t) ==
  /\ \A m, n \in 1..Len(o) : m < n => o[m].ts < o[n].ts
  /\ \A n \in 1..Len(o) : o[n].ts <= t /\ o[n].first \in 1..(Len(d) + 1)
  /\ \A n \in 1..Len(o), i \in 1..Len(d) : d[i].live => (o[n].first <= i <=> o[n].ts <= d[i].row.ts)

\* The timestamps of live rows before row b have offsets.
Listed(d, o, b) ==
  \A i \in 1..Len(d) : d[i].live /\ i < b => \E n \in 1..Len(o) : o[n].ts = d[i].row.ts

\* A parallel insert enters its timestamp when it is done: what it has written
\* until then is at the end and of the current timestamp.
OffsetInv ==
  /\ Sorted(data, clock)
  /\ Placed(data, offsets, clock)
  /\ IF merge.phase = "parallel"
     THEN /\ merge.start \in 1..NextRow
          /\ Listed(data, offsets, merge.start)
          /\ \A i \in 1..Len(data) : data[i].live /\ merge.start <= i => data[i].row.ts = merge.ts
          /\ merge.ts \in {0, clock}
     ELSE Listed(data, offsets, NextRow)

\* An index x has the live rows of d up to its minor version.
Finds(x, d) ==
  /\ x.minor <= Len(d)
  /\ \A e \in x.entries : e[2] \in 1..x.minor /\ e[1] = d[e[2]].row.val
  /\ \A i \in 1..x.minor : d[i].live => <<d[i].row.val, i>> \in x.entries
IndexInv ==
  /\ index \in [updated : BOOLEAN, major : Nat, minor : Nat, entries : SUBSET (Values \X Nat)]
  /\ index.major <= generation
  /\ index.major = generation => Finds(index, data)
  /\ merge.phase = "idle" /\ index.updated => index.major = generation /\ index.minor = Len(data)

TableInv ==
  /\ TypeInv
  /\ CurrentInv
  /\ StagedInv
  /\ Linked(data, hash)
  /\ StaleInv
  /\ OffsetInv
  /\ IndexInv

-----------------------------------------------------------------------------
(* What writing and removing rows does to the parts of the invariant. *)

\* c is d with some rows stale and, from row Len(d) + 1 on, others written.
Extends(d, c) ==
  /\ c \in Seq(EntryType)
  /\ Len(d) <= Len(c)
  /\ \A i \in 1..Len(d) : c[i].row = d[i].row /\ (c[i].live => d[i].live)

\* The hash map g is h with the live rows of b linked after d, in the place of
\* the rows `old`.
Relinks(d, h, b, old, g) ==
  /\ \A i \in 1..Len(b) : b[i].live =>
       g[b[i].row.key] = Len(d) + i /\ (h[b[i].row.key] = 0 \/ h[b[i].row.key] \in old)
  /\ \A k \in Keys :
       (\E i \in 1..Len(b) : b[i].live /\ b[i].row.key = k) \/ (g[k] = h[k] /\ h[k] \notin old)

\* Two keys do not lead to one row.
LEMMA KeyOfRow ==
  ASSUME NEW d, NEW h, Linked(d, h), NEW k \in Keys, NEW m \in Keys, h[k] = h[m], h[k] # 0
  PROVE  k = m
BY DEF Linked

\* A block of rows with a key each, linked, whose old rows are marked stale.
LEMMA Written ==
  ASSUME NEW d \in Seq(EntryType), NEW b \in Seq(EntryType), NEW old \in SUBSET (1..Len(d)),
         NEW h \in [Keys -> Nat], NEW g \in [Keys -> Nat],
         Linked(d, h), UniqueKeys(b), \A j \in old : d[j].live, Relinks(d, h, b, old, g)
  PROVE  /\ Linked(Retired(d, old) \o b, g)
         /\ Extends(d, Retired(d, old) \o b)
         /\ StaleIn(Retired(d, old) \o b) = StaleIn(d) + Cardinality(old) + StaleIn(b)
         /\ Len(Retired(d, old) \o b) = Len(d) + Len(b)
         /\ \A i \in 1..Len(b) : (Retired(d, old) \o b)[Len(d) + i] = b[i]
<1> DEFINE n == Len(d)
           r == Retired(d, old)
           c == r \o b
<1>1. /\ r \in Seq(EntryType) /\ Len(r) = n
      /\ \A i \in 1..n : r[i].row = d[i].row /\ (r[i].live <=> d[i].live /\ i \notin old)
  BY RetiredFacts
<1>2. n \in Nat /\ Len(b) \in Nat /\ \A i \in 1..n : d[i] \in EntryType
  BY StaleFinite
<1>3. \A i \in 1..Len(b) : b[i] \in EntryType
  BY StaleFinite
<1>4. StaleIn(r) = StaleIn(d) + Cardinality(old)
  BY RetiredCount
<1> HIDE DEF r
<1>5. StaleIn(c) = StaleIn(r) + StaleIn(b)
  BY <1>1, JoinedCount
<1>6. /\ c \in Seq(EntryType) /\ Len(c) = n + Len(b)
      /\ \A i \in 1..n : c[i] = r[i]
      /\ \A i \in 1..Len(b) : c[n + i] = b[i]
  <2> HIDE DEF n
  <2>0. r \in Seq(EntryType)
    BY <1>1
  <2>1. c \in Seq(EntryType)
    BY <2>0
  <2>4. Len(c) = Len(r) + Len(b)
    BY <2>0
  <2>2. \A i \in 1..Len(r) : c[i] = r[i]
    BY <1>1
  <2>3. \A i \in 1..Len(b) : c[Len(r) + i] = b[i]
    BY <1>1, <1>2
  <2> QED
    BY <1>1, <2>1, <2>2, <2>3, <2>4
<1>7. \A i \in 1..Len(c) : i \in 1..n \/ (i - n \in 1..Len(b) /\ i = n + (i - n))
  BY <1>2, <1>6
<1> HIDE DEF c, n
<1>8. ASSUME NEW i \in 1..Len(c), c[i].live PROVE g[c[i].row.key] = i
  <2>1. CASE i \in 1..n
    <3>1. d[i].live /\ i \notin old /\ c[i].row = d[i].row /\ d[i].row.key \in Keys
      <4>1. c[i] = r[i] /\ d[i] \in EntryType
        BY <1>2, <1>6, <2>1
      <4>2. r[i].row = d[i].row /\ (r[i].live <=> d[i].live /\ i \notin old)
        BY <1>1, <2>1
      <4>3. d[i].row.key \in Keys
        BY <4>1 DEF EntryType, Row
      <4> QED
        BY <1>8, <4>1, <4>2, <4>3
    <3>2. h[d[i].row.key] = i
      BY <2>1, <3>1 DEF Linked, n
    <3>3. ~\E j \in 1..Len(b) : b[j].live /\ b[j].row.key = d[i].row.key
      BY <3>1, <3>2, <2>1, <1>2 DEF Relinks
    <3> QED
      BY <3>1, <3>2, <3>3 DEF Relinks
  <2>2. CASE i - n \in 1..Len(b) /\ i = n + (i - n)
    <3>1. c[i] = b[i - n]
      BY <1>6, <2>2
    <3> QED
      BY <3>1, <2>2, <1>8 DEF n, Relinks
  <2> QED
    BY <1>7, <2>1, <2>2
<1>9. ASSUME NEW k \in Keys, g[k] # 0 PROVE g[k] \in 1..Len(c) /\ c[g[k]].live /\ c[g[k]].row.key = k
  <2>1. CASE \E i \in 1..Len(b) : b[i].live /\ b[i].row.key = k
    <3>1. PICK i \in 1..Len(b) : b[i].live /\ b[i].row.key = k
      BY <2>1
    <3>2. g[k] = n + i /\ c[n + i] = b[i]
      BY <3>1, <1>6 DEF n, Relinks
    <3> QED
      BY <3>1, <3>2, <1>2, <1>6
  <2>2. CASE g[k] = h[k] /\ h[k] \notin old
    <3>1. h[k] \in 1..n /\ d[h[k]].live /\ d[h[k]].row.key = k
      BY <1>9, <2>2 DEF Linked, n
    <3>2. c[h[k]].live /\ c[h[k]].row.key = k
      BY <3>1, <2>2, <1>1, <1>6
    <3> QED
      BY <3>1, <3>2, <2>2, <1>2, <1>6
  <2> QED
    BY <2>1, <2>2 DEF Relinks
<1>10. Linked(c, g)
  BY <1>8, <1>9 DEF Linked
<1>11. Extends(d, c)
  <2>1. \A i \in 1..n : c[i].row = d[i].row /\ (c[i].live => d[i].live)
    BY <1>1, <1>6
  <2>2. n <= Len(c)
    BY <1>2, <1>6
  <2> QED
    BY <1>6, <2>1, <2>2 DEF Extends, n
<1> QED
  BY <1>4, <1>5, <1>6, <1>10, <1>11 DEF c, r, n

\* Removing the rows of some keys.
LEMMA Removed ==
  ASSUME NEW d \in Seq(EntryType), NEW ks \in SUBSET Keys, NEW h \in [Keys -> Nat], Linked(d, h)
  PROVE  LET gone == {h[k] : k \in ks} \ {0}
         IN  /\ Linked(Retired(d, gone), [k \in Keys |-> IF k \in ks THEN 0 ELSE h[k]])
             /\ Extends(d, Retired(d, gone))
             /\ StaleIn(Retired(d, gone)) = StaleIn(d) + Cardinality(gone)
             /\ Len(Retired(d, gone)) = Len(d)
             /\ Cardinality(gone) \in Nat
<1> DEFINE gone == {h[k] : k \in ks} \ {0}
           r == Retired(d, gone)
           g == [k \in Keys |-> IF k \in ks THEN 0 ELSE h[k]]
<1>1. \A j \in gone : \E k \in ks : h[k] = j /\ j # 0
  OBVIOUS
<1>2. \A k \in ks : h[k] = 0 \/ h[k] \in gone
  OBVIOUS
<1> HIDE DEF gone
<1>3. gone \in SUBSET (1..Len(d)) /\ \A j \in gone : d[j].live
  BY <1>1 DEF Linked
<1>4. StaleIn(r) = StaleIn(d) + Cardinality(gone) /\ Cardinality(gone) \in Nat
  BY <1>3, RetiredCount
<1>5. /\ r \in Seq(EntryType) /\ Len(r) = Len(d)
      /\ \A i \in 1..Len(d) : r[i].row = d[i].row /\ (r[i].live <=> d[i].live /\ i \notin gone)
  BY RetiredFacts
<1>6. Len(d) \in Nat /\ \A i \in 1..Len(d) : d[i] \in EntryType
  BY StaleFinite
<1> HIDE DEF r
<1>7. Extends(d, r)
  BY <1>5, <1>6 DEF Extends
<1>8. ASSUME NEW i \in 1..Len(r), r[i].live PROVE g[r[i].row.key] = i
  <2>1. d[i].live /\ i \notin gone /\ d[i].row.key \in Keys /\ i # 0 /\ i \in 1..Len(d)
    BY <1>5, <1>6, <1>8 DEF EntryType, Row
  <2>2. h[d[i].row.key] = i
    BY <2>1 DEF Linked
  <2>3. d[i].row.key \notin ks
    BY <1>2, <2>1, <2>2
  <2> QED
    BY <1>5, <2>1, <2>2, <2>3
<1>9. ASSUME NEW k \in Keys, g[k] # 0 PROVE g[k] \in 1..Len(r) /\ r[g[k]].live /\ r[g[k]].row.key = k
  <2>1. k \notin ks /\ g[k] = h[k]
    BY <1>9
  <2>2. h[k] \in 1..Len(d) /\ d[h[k]].live /\ d[h[k]].row.key = k
    BY <2>1, <1>9 DEF Linked
  <2>3. h[k] \notin gone
    <3> SUFFICES ASSUME NEW m \in ks, h[m] = h[k] PROVE FALSE
      BY <1>1
    <3>1. d[h[m]].row.key = m
      BY <2>2, <1>6 DEF Linked
    <3> QED
      BY <2>1, <2>2, <3>1
  <2> QED
    BY <1>5, <2>1, <2>2, <2>3
<1>10. Linked(r, g)
  <2> HIDE DEF g
  <2> QED
    BY <1>8, <1>9 DEF Linked
<1>11. Linked(r, g) /\ Extends(d, r) /\ StaleIn(r) = StaleIn(d) + Cardinality(gone) /\ Len(r) = Len(d)
       /\ Cardinality(gone) \in Nat
  BY <1>4, <1>5, <1>7, <1>10
<1> QED
  BY <1>11, Zenon DEF r, gone

\* Offsets still split the live rows when rows of the current timestamp follow.
LEMMA StillPlaced ==
  ASSUME NEW d \in Seq(EntryType), NEW c, Extends(d, c), NEW o \in Seq(OffsetType), NEW t \in Nat,
         Sorted(d, t), Placed(d, o, t),
         \A i \in 1..Len(c) : i \notin 1..Len(d) /\ c[i].live => c[i].row.ts = t
  PROVE  Sorted(c, t) /\ Placed(c, o, t)
<1>1. Len(d) \in Nat /\ Len(c) \in Nat /\ Len(d) <= Len(c) /\ c \in Seq(EntryType) /\ Len(o) \in Nat
  BY DEF Extends
<1>2. \A i \in 1..Len(d) : i \in 1..Len(c) /\ c[i].row = d[i].row /\ (c[i].live => d[i].live)
  BY <1>1 DEF Extends
<1>3. \A n \in 1..Len(o) : o[n].ts \in Nat /\ o[n].first \in Nat /\ o[n].ts <= t /\ o[n].first <= Len(d) + 1
                           /\ o[n].first >= 1
  <2>1. \A n \in 1..Len(o) : o[n] \in OffsetType
    BY <1>1
  <2>2. \A n \in 1..Len(o) : o[n].ts <= t /\ o[n].first \in 1..(Len(d) + 1)
    BY DEF Placed
  <2>3. \A n \in 1..Len(o) : o[n].ts \in Nat /\ o[n].first \in Nat
    BY <2>1 DEF OffsetType
  <2> QED
    BY <1>1, <2>2, <2>3
<1>4. \A i \in 1..Len(c) : c[i].live => c[i].row.ts <= t
  BY <1>1, <1>2 DEF Sorted
<1>5. ASSUME NEW i \in 1..Len(c), NEW j \in 1..Len(c), c[i].live, c[j].live, i <= j
      PROVE  c[i].row.ts <= c[j].row.ts
  <2>1. CASE j \in 1..Len(d)
    <3>1. i \in 1..Len(d)
      BY <1>1, <1>5, <2>1
    <3> QED
      BY <1>2, <1>5, <2>1, <3>1 DEF Sorted
  <2>2. CASE j \notin 1..Len(d)
    BY <1>4, <1>5, <2>2
  <2> QED
    BY <2>1, <2>2
<1>6. ASSUME NEW n \in 1..Len(o), NEW i \in 1..Len(c), c[i].live
      PROVE  o[n].first <= i <=> o[n].ts <= c[i].row.ts
  <2>1. CASE i \in 1..Len(d)
    BY <1>2, <1>6, <2>1 DEF Placed
  <2>2. CASE i \notin 1..Len(d)
    <3>1. c[i].row.ts = t /\ i >= Len(d) + 1
      BY <1>1, <1>6, <2>2
    <3> QED
      BY <1>1, <1>3, <3>1
  <2> QED
    BY <2>1, <2>2
<1>7. \A n \in 1..Len(o) : o[n].ts <= t /\ o[n].first \in 1..(Len(c) + 1)
  BY <1>1, <1>3
<1> QED
  BY <1>4, <1>5, <1>6, <1>7 DEF Sorted, Placed

\* A timestamp is entered once, at its first row.
LEMMA Enter ==
  ASSUME NEW c \in Seq(EntryType), NEW o \in Seq(OffsetType), NEW t \in Nat, NEW at \in 1..(Len(c) + 1),
         Sorted(c, t), Placed(c, o, t), Listed(c, o, at),
         \A i \in 1..Len(c) : c[i].live /\ at <= i => c[i].row.ts = t
  PROVE  LET p == IF o = <<>> \/ t > Last(o).ts THEN Append(o, [ts |-> t, first |-> at]) ELSE o
         IN  p \in Seq(OffsetType) /\ Placed(c, p, t) /\ Listed(c, p, Len(c) + 1)
<1> DEFINE new == [ts |-> t, first |-> at]
<1>1. Len(c) \in Nat /\ Len(o) \in Nat /\ \A n \in 1..Len(o) : o[n] \in OffsetType
  OBVIOUS
<1>2. \A n \in 1..Len(o) : o[n].ts \in Nat /\ o[n].first \in Nat
  BY <1>1 DEF OffsetType
<1>3. \A n \in 1..Len(o) : o[n].ts <= t /\ o[n].first \in 1..(Len(c) + 1)
  BY DEF Placed
<1>4. \A i \in 1..Len(c) : c[i].row.ts \in Nat
  <2>1. \A i \in 1..Len(c) : c[i] \in EntryType
    BY <1>1
  <2>2. \A e \in EntryType : e.row.ts \in Nat
    BY MaxTsPositive DEF EntryType, Row, Timestamps
  <2> QED
    BY <2>1, <2>2
<1>5. CASE o = <<>> \/ t > Last(o).ts
  <2> DEFINE p == Append(o, new)
  <2>1. /\ p \in Seq(OffsetType) /\ Len(p) = Len(o) + 1
        /\ p[Len(o) + 1] = new /\ \A n \in 1..Len(o) : p[n] = o[n]
    BY DEF OffsetType
  <2>2. \A n \in 1..Len(o) : o[n].ts < t
    <3> SUFFICES ASSUME NEW n \in 1..Len(o) PROVE o[n].ts < t
      OBVIOUS
    <3>1. o # <<>> /\ Len(o) \in 1..Len(o)
      BY <1>1
    <3>2. o[Len(o)].ts < t /\ o[Len(o)].ts \in Nat
      BY <1>2, <1>5, <3>1 DEF Last
    <3>3. CASE n = Len(o)
      BY <3>2, <3>3
    <3>4. CASE n # Len(o)
      <4>1. n < Len(o)
        BY <1>1, <3>4
      <4>2. o[n].ts < o[Len(o)].ts
        BY <3>1, <4>1 DEF Placed
      <4> QED
        BY <1>2, <3>2, <4>2
    <3> QED
      BY <3>3, <3>4
  <2> HIDE DEF p
  <2>3. \A n \in 1..Len(p) : n \in 1..Len(o) \/ n = Len(o) + 1
    BY <1>1, <2>1
  <2>4. \A n, m \in 1..Len(p) : m < n => p[m].ts < p[n].ts
    <3> SUFFICES ASSUME NEW n \in 1..Len(p), NEW m \in 1..Len(p), m < n PROVE p[m].ts < p[n].ts
      OBVIOUS
    <3>1. m \in 1..Len(o)
      BY <1>1, <2>1
    <3>2. CASE n \in 1..Len(o)
      BY <2>1, <3>1, <3>2 DEF Placed
    <3>3. CASE n = Len(o) + 1
      BY <2>1, <2>2, <3>1, <3>3
    <3> QED
      BY <2>3, <3>2, <3>3
  <2>5. \A n \in 1..Len(p) : p[n].ts <= t /\ p[n].first \in 1..(Len(c) + 1)
    BY <1>3, <2>1, <2>3, SMTT(20)
  <2>6. ASSUME NEW n \in 1..Len(p), NEW i \in 1..Len(c), c[i].live
        PROVE  p[n].first <= i <=> p[n].ts <= c[i].row.ts
    <3>1. CASE n \in 1..Len(o)
      BY <2>1, <2>6, <3>1 DEF Placed
    <3>2. CASE n = Len(o) + 1
      <4>1. p[n].first = at /\ p[n].ts = t
        BY <2>1, <3>2
      <4>2. CASE at <= i
        BY <2>6, <4>1, <4>2
      <4>3. CASE ~(at <= i)
        <5>1. PICK m \in 1..Len(o) : o[m].ts = c[i].row.ts
          BY <1>1, <2>6, <4>3 DEF Listed
        <5>2. ~(t <= c[i].row.ts)
          <6>1. c[i].row.ts < t
            BY <2>2, <5>1
          <6>2. c[i].row.ts \in Nat
            BY <1>4
          <6> QED
            BY <6>1, <6>2
        <5> QED
          BY <4>1, <4>3, <5>2
      <4> QED
        BY <4>2, <4>3
    <3> QED
      BY <2>3, <3>1, <3>2
  <2>7. Placed(c, p, t)
    BY <2>4, <2>5, <2>6 DEF Placed
  <2>8. ASSUME NEW i \in 1..Len(c), c[i].live PROVE \E n \in 1..Len(p) : p[n].ts = c[i].row.ts
    <3>1. CASE at <= i
      <4>1. Len(o) + 1 \in 1..Len(p) /\ p[Len(o) + 1].ts = c[i].row.ts
        BY <1>1, <2>1, <2>8, <3>1
      <4> QED
        BY <4>1
    <3>2. CASE ~(at <= i)
      <4>1. PICK m \in 1..Len(o) : o[m].ts = c[i].row.ts
        BY <1>1, <2>8, <3>2 DEF Listed
      <4> QED
        BY <1>1, <2>1, <4>1
    <3> QED
      BY <3>1, <3>2
  <2>9. Listed(c, p, Len(c) + 1)
    BY <2>8 DEF Listed
  <2> QED
    BY <1>5, <2>1, <2>7, <2>9 DEF p
<1>6. CASE ~(o = <<>> \/ t > Last(o).ts)
  <2>1. Len(o) \in 1..Len(o)
    BY <1>1, <1>6
  <2>2. o[Len(o)].ts = t
    BY <1>2, <1>3, <1>6, <2>1 DEF Last
  <2>3. Listed(c, o, Len(c) + 1)
    BY <2>1, <2>2 DEF Listed
  <2> QED
    BY <1>6, <2>3
<1> QED
  BY <1>5, <1>6

\* An index finds what it found when rows become stale and rows are appended.
LEMMA StillFinds ==
  ASSUME NEW d \in Seq(EntryType), NEW c, Extends(d, c), NEW x, x.minor \in Nat, Finds(x, d)
  PROVE  Finds(x, c)
<1>1. Len(d) \in Nat /\ Len(c) \in Nat /\ Len(d) <= Len(c)
  BY DEF Extends
<1>2. \A i \in 1..Len(d) : c[i].row = d[i].row /\ (c[i].live => d[i].live)
  BY DEF Extends
<1>3. x.minor <= Len(d)
  BY DEF Finds
<1>4. \A i \in 1..x.minor : i \in 1..Len(d)
  BY <1>1, <1>3
<1>5. \A e \in x.entries : e[2] \in 1..x.minor /\ e[1] = c[e[2]].row.val
  BY <1>2, <1>4 DEF Finds
<1>6. \A i \in 1..x.minor : c[i].live => <<c[i].row.val, i>> \in x.entries
  BY <1>2, <1>4 DEF Finds
<1>7. x.minor <= Len(c)
  BY <1>1, <1>3
<1> QED
  BY <1>5, <1>6, <1>7 DEF Finds

-----------------------------------------------------------------------------
(* Compaction. *)

\* The offsets of a compacted table.
LEMMA FreshOffsets ==
  ASSUME NEW c \in Seq(EntryType), NEW t \in Nat, Sorted(c, t), \A i \in 1..Len(c) : c[i].live
  PROVE  /\ OffsetsOf(c) \in Seq(OffsetType)
         /\ Placed(c, OffsetsOf(c), t)
         /\ Listed(c, OffsetsOf(c), Len(c) + 1)
<1> DEFINE starts == {i \in 1..Len(c) : \A j \in 1..(i - 1) : c[j].row.ts < c[i].row.ts}
           upTo(i) == {j \in starts : j <= i}
           N == Cardinality(starts)
           at(n) == CHOOSE i \in starts : Cardinality(upTo(i)) = n
           o == OffsetsOf(c)
<1>1. Len(c) \in Nat /\ DOMAIN c = 1..Len(c) /\ \A i \in 1..Len(c) : c[i] \in EntryType
  OBVIOUS
<1>2. \A i \in 1..Len(c) : c[i].row.ts \in Nat
  <2>1. \A e \in EntryType : e.row.ts \in Nat
    BY MaxTsPositive DEF EntryType, Row, Timestamps
  <2> QED
    BY <1>1, <2>1
<1>3. o = [n \in 1..N |-> [ts |-> c[at(n)].row.ts, first |-> at(n)]]
  BY <1>1 DEF OffsetsOf
<1>4. starts \in SUBSET (1..Len(c))
  OBVIOUS
<1>5. \A i \in starts, j \in 1..Len(c) : j < i => c[j].row.ts < c[i].row.ts
  BY <1>1
<1>6. \A i \in 1..Len(c) : (\A j \in 1..(i - 1) : c[j].row.ts < c[i].row.ts) => i \in starts
  OBVIOUS
<1> HIDE DEF starts, o
<1>7. /\ N \in Nat
      /\ \A i \in starts : Cardinality(upTo(i)) \in 1..N
      /\ \A i, j \in starts : i < j => Cardinality(upTo(i)) < Cardinality(upTo(j))
      /\ \A n \in 1..N : \E i \in starts : Cardinality(upTo(i)) = n
  BY <1>1, <1>4, Ranks
<1>8. \A n \in 1..N : at(n) \in starts /\ Cardinality(upTo(at(n))) = n
  BY <1>7
<1>9. \A n \in 1..N : at(n) \in 1..Len(c) /\ o[n].ts = c[at(n)].row.ts /\ o[n].first = at(n)
  BY <1>3, <1>4, <1>8
<1>10. \A i \in starts : at(Cardinality(upTo(i))) = i
  <2> SUFFICES ASSUME NEW i \in starts, at(Cardinality(upTo(i))) # i PROVE FALSE
    OBVIOUS
  <2> DEFINE j == at(Cardinality(upTo(i)))
  <2>1. j \in starts /\ Cardinality(upTo(j)) = Cardinality(upTo(i))
    BY <1>7, <1>8
  <2>2. i \in Nat /\ j \in Nat /\ i # j /\ Cardinality(upTo(i)) \in Nat
    BY <1>4, <1>7, <2>1
  <2> HIDE DEF j, upTo
  <2> QED
    BY <1>7, <2>1, <2>2
<1> HIDE DEF at, N
<1>11. o \in Seq(OffsetType) /\ Len(o) = N
  <2>1. \A n \in 1..N : [ts |-> c[at(n)].row.ts, first |-> at(n)] \in OffsetType
    BY <1>1, <1>2, <1>9 DEF OffsetType
  <2>2. o \in [1..N -> OffsetType]
    BY <1>3, <2>1
  <2> QED
    BY <1>7, <2>2
<1>12. ASSUME NEW m \in 1..N, NEW n \in 1..N, m < n PROVE o[m].ts < o[n].ts
  <2>1. at(m) \in starts /\ at(n) \in starts /\ at(m) \in Nat /\ at(n) \in Nat
        /\ Cardinality(upTo(at(m))) = m /\ Cardinality(upTo(at(n))) = n
    <3> HIDE DEF upTo
    <3>1. at(m) \in 1..Len(c) /\ at(n) \in 1..Len(c)
      BY <1>9
    <3>2. at(m) \in starts /\ at(n) \in starts /\ Cardinality(upTo(at(m))) = m /\ Cardinality(upTo(at(n))) = n
      BY <1>8
    <3> QED
      BY <1>1, <3>1, <3>2
  <2> HIDE DEF upTo
  <2>2. at(m) < at(n)
    <3>1. at(n) # at(m)
      BY <1>12, <2>1
    <3>2. ~(at(n) < at(m))
      BY <1>7, <1>12, <2>1
    <3> QED
      BY <2>1, <3>1, <3>2
  <2> QED
    BY <1>5, <1>9, <2>1, <2>2
<1>13. \A n \in 1..N : o[n].ts <= t /\ o[n].first \in 1..(Len(c) + 1)
  BY <1>1, <1>9 DEF Sorted
<1>14. ASSUME NEW n \in 1..N, NEW i \in 1..Len(c) PROVE o[n].first <= i <=> o[n].ts <= c[i].row.ts
  <2>1. at(n) \in starts /\ at(n) \in 1..Len(c) /\ o[n].ts = c[at(n)].row.ts /\ o[n].first = at(n)
    BY <1>8, <1>9
  <2>2. CASE at(n) <= i
    BY <2>1, <2>2 DEF Sorted
  <2>3. CASE ~(at(n) <= i)
    <3>1. i < at(n)
      BY <1>1, <2>1, <2>3
    <3>2. c[i].row.ts < c[at(n)].row.ts
      BY <1>5, <2>1, <3>1
    <3> QED
      BY <1>2, <2>1, <2>3, <3>2
  <2> QED
    BY <2>2, <2>3
<1>15. ASSUME NEW i \in 1..Len(c) PROVE \E n \in 1..N : o[n].ts = c[i].row.ts
  <2> DEFINE S == {j \in 1..Len(c) : c[j].row.ts = c[i].row.ts}
  <2>1. S \in SUBSET Nat /\ S # {}
    BY <1>1
  <2>2. PICK j \in S : \A x \in S : j <= x
    BY <2>1, LeastNatural
  <2>3. j \in 1..Len(c) /\ c[j].row.ts = c[i].row.ts
    BY <2>2
  <2>4. ASSUME NEW x \in 1..(j - 1) PROVE c[x].row.ts < c[j].row.ts
    <3>1. x \in 1..Len(c) /\ x <= j /\ ~(j <= x)
      BY <1>1, <2>3
    <3>2. c[x].row.ts <= c[j].row.ts
      BY <2>3, <3>1 DEF Sorted
    <3>3. c[x].row.ts # c[j].row.ts
      BY <2>2, <2>3, <3>1
    <3>4. c[x].row.ts \in Nat /\ c[j].row.ts \in Nat
      BY <1>2, <2>3, <3>1
    <3> DEFINE a == c[x].row.ts
               b == c[j].row.ts
    <3>5. a \in Nat /\ b \in Nat /\ a <= b /\ a # b
      BY <3>2, <3>3, <3>4
    <3> HIDE DEF a, b
    <3>6. a < b
      BY <3>5
    <3> QED
      BY <3>6 DEF a, b
  <2>5. j \in starts
    BY <1>6, <2>3, <2>4
  <2> HIDE DEF upTo
  <2> QED
    BY <1>7, <1>9, <1>10, <2>3, <2>5
<1>16. Placed(c, o, t)
  BY <1>11, <1>12, <1>13, <1>14 DEF Placed
<1>17. Listed(c, o, Len(c) + 1)
  BY <1>11, <1>15 DEF Listed
<1> QED
  BY <1>11, <1>16, <1>17 DEF o

\* The live rows of d are numbered in an order that keeps timestamps ascending.
Numbered(d, live, order) ==
  /\ live = {i \in 1..Len(d) : d[i].live}
  /\ \A i, j \in 1..Cardinality(live) : order[i] = order[j] => i = j
  /\ \A i, j \in 1..Cardinality(live) : i < j => d[order[i]].row.ts <= d[order[j]].row.ts

\* An order of the live rows has each of them once.
LEMMA OrderIsOnto ==
  ASSUME NEW d \in Seq(EntryType), NEW live, NEW order \in [1..Cardinality(live) -> live],
         Numbered(d, live, order)
  PROVE  /\ Cardinality(live) \in Nat
         /\ \A x \in live : \E i \in 1..Cardinality(live) : order[i] = x
<1>0. live = {i \in 1..Len(d) : d[i].live} /\ \A i, j \in 1..Cardinality(live) : order[i] = order[j] => i = j
  BY DEF Numbered
<1> DEFINE N == Cardinality(live)
<1>1. Len(d) \in Nat
  BY StaleFinite
<1>2. IsFiniteSet(live) /\ N \in Nat
  <2>1. IsFiniteSet(1..Len(d)) /\ live \in SUBSET (1..Len(d))
    BY <1>0, <1>1, FS_Interval
  <2>2. IsFiniteSet(live)
    BY <2>1, FS_Subset
  <2> QED
    BY <2>2, FS_CardinalityType
<1>3. IsFiniteSet(1..N) /\ Cardinality(1..N) = Cardinality(live)
  <2> HIDE DEF N
  <2>1. IsFiniteSet(1..N) /\ Cardinality(1..N) = N
    BY <1>2, FS_Interval
  <2> QED
    BY <2>1 DEF N
<1>4. order \in Injection(1..N, live)
  BY <1>0 DEF Injection, IsInjective
<1> HIDE DEF N
<1>5. order \in Surjection(1..N, live)
  BY <1>2, <1>3, <1>4, FS_Injection
<1>6. \A x \in live : \E i \in 1..N : order[i] = x
  BY <1>5 DEF Surjection
<1> QED
  BY <1>2, <1>6 DEF N

\* The rows of c are live rows of d, in order, and g leads to the copies.
Copies(d, h, order, c, g) ==
  /\ \A i \in 1..Len(c) : order[i] \in 1..Len(d) /\ d[order[i]].live /\ c[i] = d[order[i]]
  /\ \A i, j \in 1..Len(c) : order[i] = order[j] => i = j
  /\ \A i, j \in 1..Len(c) : i < j => d[order[i]].row.ts <= d[order[j]].row.ts
  /\ \A k \in Keys : h[k] # 0 => g[k] \in 1..Len(c) /\ order[g[k]] = h[k]
  /\ \A k \in Keys : h[k] = 0 => g[k] = 0

\* The table c with the hash map g has the live rows of d and no others.
Rehashed(d, h, t, c, g) ==
  /\ c \in Seq(EntryType) /\ g \in [Keys -> Nat]
  /\ Linked(c, g) /\ StaleIn(c) = 0 /\ Sorted(c, t)
  /\ \A i \in 1..Len(c) : c[i].live
  /\ \A k \in Keys : h[k] # 0 => g[k] # 0 /\ c[g[k]] = d[h[k]]
  /\ \A k \in Keys : h[k] = 0 => g[k] = 0

\* A compacted table has the live rows, linked anew.
LEMMA Compacted ==
  ASSUME NEW d \in Seq(EntryType), NEW h \in [Keys -> Nat], NEW t \in Nat,
         NEW c \in Seq(EntryType), NEW g \in [Keys -> Nat], NEW order,
         Linked(d, h), Sorted(d, t),
         Copies(d, h, order, c, g)
  PROVE  Rehashed(d, h, t, c, g)
<1> SUFFICES
  ASSUME \A i \in 1..Len(c) : order[i] \in 1..Len(d) /\ d[order[i]].live /\ c[i] = d[order[i]],
         \A i, j \in 1..Len(c) : order[i] = order[j] => i = j,
         \A i, j \in 1..Len(c) : i < j => d[order[i]].row.ts <= d[order[j]].row.ts,
         \A k \in Keys : h[k] # 0 => g[k] \in 1..Len(c) /\ order[g[k]] = h[k],
         \A k \in Keys : h[k] = 0 => g[k] = 0
  PROVE  /\ Linked(c, g) /\ StaleIn(c) = 0 /\ Sorted(c, t)
         /\ \A i \in 1..Len(c) : c[i].live
         /\ \A k \in Keys : h[k] # 0 => g[k] # 0 /\ c[g[k]] = d[h[k]]
  BY Zenon DEF Copies, Rehashed
<1>1. Len(c) \in Nat /\ Len(d) \in Nat /\ \A i \in 1..Len(c) : c[i] \in EntryType
  BY StaleFinite
<1>2. \A i \in 1..Len(c) : c[i].live
  OBVIOUS
<1>3. StaleIn(c) = 0
  <2>1. StaleSet(c) = {}
    BY <1>2 DEF StaleSet
  <2>2. StaleIn(c) = Cardinality(StaleSet(c))
    BY StaleFinite
  <2> QED
    BY <2>1, <2>2, FS_EmptySet
<1>4. \A k \in Keys : h[k] # 0 => g[k] # 0 /\ c[g[k]] = d[h[k]]
  <2> SUFFICES ASSUME NEW k \in Keys, h[k] # 0 PROVE g[k] # 0 /\ c[g[k]] = d[h[k]]
    OBVIOUS
  <2>1. g[k] \in 1..Len(c) /\ order[g[k]] = h[k]
    OBVIOUS
  <2> QED
    BY <1>1, <2>1
<1>5. ASSUME NEW i \in 1..Len(c) PROVE g[c[i].row.key] = i
  <2>1. order[i] \in 1..Len(d) /\ d[order[i]].live /\ c[i] = d[order[i]]
    OBVIOUS
  <2>2. PICK k \in Keys : k = c[i].row.key
    BY <1>1 DEF EntryType, Row
  <2>3. h[k] = order[i] /\ order[i] # 0
    BY <1>1, <2>1, <2>2 DEF Linked
  <2>4. g[k] \in 1..Len(c) /\ order[g[k]] = order[i]
    BY <2>3
  <2> QED
    BY <2>2, <2>4
<1>6. ASSUME NEW k \in Keys, g[k] # 0 PROVE g[k] \in 1..Len(c) /\ c[g[k]].live /\ c[g[k]].row.key = k
  <2>1. h[k] # 0
    BY <1>6
  <2>2. d[h[k]].live /\ d[h[k]].row.key = k
    BY <2>1 DEF Linked
  <2>3. g[k] \in 1..Len(c)
    BY <2>1
  <2>4. c[g[k]] = d[h[k]]
    BY <1>4, <2>1
  <2> QED
    BY <2>2, <2>3, <2>4
<1>7. Linked(c, g)
  BY <1>5, <1>6, Zenon DEF Linked
<1>8. Sorted(c, t)
  <2>1. \A i \in 1..Len(c) : c[i].row.ts <= t
    BY DEF Sorted
  <2>2. ASSUME NEW i \in 1..Len(c), NEW j \in 1..Len(c), i <= j PROVE c[i].row.ts <= c[j].row.ts
    <3>1. CASE i < j
      BY <3>1, SMTT(20)
    <3>2. CASE i = j
      <4>1. order[i] \in 1..Len(d) /\ d[order[i]].live /\ c[i] = d[order[i]]
        OBVIOUS
      <4>2. d[order[i]].row.ts <= d[order[i]].row.ts
        BY <1>1, <4>1 DEF Sorted
      <4> QED
        BY <3>2, <4>1, <4>2
    <3> QED
      BY <1>1, <2>2, <3>1, <3>2
  <2> QED
    BY <2>1, <2>2 DEF Sorted
<1> QED
  BY <1>2, <1>3, <1>4, <1>7, <1>8

-----------------------------------------------------------------------------
(* What the insertion paths write. *)

\* A merge function that changes a row leaves a row of the incoming key and timestamp.
LEMMA AppliedFacts ==
  ASSUME NEW cur \in Row \cup {NoRow}, NEW row \in Row
  PROVE  /\ cur = NoRow => Applied(cur, row) = row
         /\ Applied(cur, row) # cur => /\ Applied(cur, row) \in Row
                                       /\ Applied(cur, row).key = row.key
                                       /\ Applied(cur, row).ts = row.ts
<1>1. CASE cur = NoRow
  BY <1>1, NoRowIsNoRow DEF Applied
<1>2. CASE cur # NoRow
  <2> DEFINE v == Combine(cur.val, row.val)
  <2>1. cur \in Row
    BY <1>2
  <2>2. v \in Values
    BY <2>1, CombineTyped DEF Row
  <2>3. Applied(cur, row) = IF v = cur.val THEN cur ELSE [row EXCEPT !.val = v]
    BY <1>2 DEF Applied
  <2> HIDE DEF v
  <2>4. [row EXCEPT !.val = v] \in Row /\ [row EXCEPT !.val = v].key = row.key /\ [row EXCEPT !.val = v].ts = row.ts
    BY <2>2 DEF Row
  <2> QED
    BY <1>2, <2>3, <2>4
<1> QED
  BY <1>1, <1>2

\* A buffer of one row.
LEMMA OneRow ==
  ASSUME NEW e \in Row
  PROVE  LET b == <<Entry(e)>>
         IN  /\ b \in Seq(EntryType) /\ Len(b) = 1 /\ b[1] = Entry(e)
             /\ Entry(e) \in EntryType /\ Entry(e).live /\ Entry(e).row = e
             /\ \A i \in 1..Len(b) : i = 1
             /\ StaleIn(b) = 0
<1> DEFINE b == <<Entry(e)>>
<1>1. Entry(e) \in EntryType /\ Entry(e).live /\ Entry(e).row = e
  BY DEF Entry, EntryType
<1>2. b \in Seq(EntryType) /\ Len(b) = 1 /\ b[1] = Entry(e)
  BY <1>1
<1> HIDE DEF b
<1>3. \A i \in 1..Len(b) : i = 1
  BY <1>2
<1>4. StaleSet(b) = {}
  BY <1>1, <1>2, <1>3 DEF StaleSet
<1>5. StaleIn(b) = 0
  BY <1>2, <1>4, StaleFinite, FS_EmptySet
<1> QED
  BY <1>1, <1>2, <1>3, <1>5 DEF b

\* Marking no row changes nothing.
LEMMA RetiredNone ==
  ASSUME NEW d \in Seq(EntryType)
  PROVE  Retired(d, {}) = d
<1>1. Len(d) \in Nat /\ DOMAIN d = 1..Len(d) /\ \A i \in 1..Len(d) : d[i] \in EntryType
  BY StaleFinite
<1>2. Retired(d, {}) = [i \in 1..Len(d) |-> [d[i] EXCEPT !.live = d[i].live /\ i \notin {}]]
  BY <1>1 DEF Retired
<1>3. \A i \in 1..Len(d) : [d[i] EXCEPT !.live = d[i].live /\ i \notin {}] = d[i]
  <2> SUFFICES ASSUME NEW i \in 1..Len(d) PROVE [d[i] EXCEPT !.live = d[i].live /\ i \notin {}] = d[i]
    OBVIOUS
  <2>1. PICK e \in EntryType : e = d[i]
    BY <1>1
  <2>2. e.live \in BOOLEAN /\ e = [row |-> e.row, live |-> e.live]
    BY DEF EntryType
  <2>3. (e.live /\ i \notin {}) = e.live
    BY <2>2
  <2>4. [e EXCEPT !.live = e.live] = e
    BY <2>2
  <2> QED
    BY <2>1, <2>3, <2>4
<1>4. d = [i \in 1..Len(d) |-> d[i]]
  BY <1>1
<1> QED
  BY <1>2, <1>3, <1>4, Zenon

\* Gathering a row leaves one live row for its key.
LEMMA StagedOne ==
  ASSUME NEW b \in Seq(EntryType), NEW t, UniqueKeys(b), Fresh(b, t), NEW e \in Row, e.ts = t,
         NEW at, at = {i \in 1..Len(b) : b[i].live /\ b[i].row.key = e.key}
  PROVE  LET c == Append(Retired(b, at), Entry(e))
         IN  c \in Seq(EntryType) /\ UniqueKeys(c) /\ Fresh(c, t)
<1> DEFINE r == Retired(b, at)
           c == Append(r, Entry(e))
           n == Len(b)
<1>1. /\ r \in Seq(EntryType) /\ Len(r) = n /\ n \in Nat
      /\ \A i \in 1..n : r[i].row = b[i].row /\ (r[i].live <=> b[i].live /\ i \notin at)
  BY RetiredFacts
<1>2. Entry(e) \in EntryType /\ Entry(e).live /\ Entry(e).row = e
  BY OneRow
<1> HIDE DEF r, n
<1>3. /\ c \in Seq(EntryType) /\ Len(c) = n + 1
      /\ c[n + 1] = Entry(e) /\ \A i \in 1..n : c[i] = r[i]
  BY <1>1, <1>2
<1> HIDE DEF c
<1>4. \A i \in 1..Len(c) : i \in 1..n \/ i = n + 1
  BY <1>1, <1>3
<1>5. \A i \in 1..n : c[i].live => b[i].live /\ b[i].row.key # e.key /\ c[i].row = b[i].row
  BY <1>1, <1>3 DEF n
<1>6. Fresh(c, t)
  <2> SUFFICES ASSUME NEW i \in 1..Len(c), c[i].live PROVE c[i].row.ts = t
    BY DEF Fresh
  <2>1. CASE i \in 1..n
    BY <1>5, <2>1 DEF Fresh, n
  <2>2. CASE i = n + 1
    BY <1>2, <1>3, <2>2
  <2> QED
    BY <1>4, <2>1, <2>2
<1>7. UniqueKeys(c)
  <2> SUFFICES ASSUME NEW i \in 1..Len(c), NEW j \in 1..Len(c), c[i].live, c[j].live, c[i].row.key = c[j].row.key
               PROVE  i = j
    BY DEF UniqueKeys
  <2>1. CASE i \in 1..n /\ j \in 1..n
    <3>1. b[i].live /\ b[j].live /\ b[i].row.key = b[j].row.key
      BY <1>5, <2>1
    <3> QED
      BY <2>1, <3>1 DEF UniqueKeys, n
  <2>2. CASE i = n + 1 /\ j \in 1..n
    BY <1>2, <1>3, <1>5, <2>2
  <2>3. CASE j = n + 1 /\ i \in 1..n
    BY <1>2, <1>3, <1>5, <2>3
  <2> QED
    BY <1>4, <2>1, <2>2, <2>3
<1> QED
  BY <1>3, <1>6, <1>7 DEF c, r

\* Rows written later are not among those that had offsets to have.
LEMMA StillListed ==
  ASSUME NEW d \in Seq(EntryType), NEW c, Extends(d, c), NEW o, NEW at \in 1..(Len(d) + 1), Listed(d, o, at)
  PROVE  Listed(c, o, at)
<1>1. Len(d) \in Nat /\ Len(c) \in Nat
  BY DEF Extends
<1>2. \A i \in 1..Len(d) : c[i].row = d[i].row /\ (c[i].live => d[i].live)
  BY DEF Extends
<1>3. \A i \in 1..Len(c) : i < at => i \in 1..Len(d)
  BY <1>1
<1> QED
  BY <1>2, <1>3 DEF Listed

\* All parts of the invariant about a table that is not in a parallel insert.
InOrder(d, h, o, t) ==
  Linked(d, h) /\ Sorted(d, t) /\ Placed(d, o, t) /\ Listed(d, o, Len(d) + 1)

\* What the serial path makes of a table when it writes row e at time t.
Makes(d, h, o, t, e, c, g, p) ==
  /\ c = Retired(d, {h[e.key]} \ {0}) \o <<Entry(e)>>
  /\ g = [h EXCEPT ![e.key] = Len(d) + 1]
  /\ p = IF o = <<>> \/ t > Last(o).ts THEN Append(o, [ts |-> t, first |-> Len(d) + 1]) ELSE o

\* One row inserted by the serial path, over the row of its key or over none.
LEMMA Inserted ==
  ASSUME NEW d \in Seq(EntryType), NEW h \in [Keys -> Nat], NEW o \in Seq(OffsetType), NEW t \in Nat,
         InOrder(d, h, o, t), NEW e \in Row, e.ts = t, NEW c, NEW g, NEW p, Makes(d, h, o, t, e, c, g, p)
  PROVE  /\ c \in Seq(EntryType) /\ g \in [Keys -> Nat] /\ p \in Seq(OffsetType)
         /\ Extends(d, c) /\ InOrder(c, g, p, t)
         /\ StaleIn(c) = StaleIn(d) + (IF h[e.key] = 0 THEN 0 ELSE 1)
<1> DEFINE b == <<Entry(e)>>
           old == {h[e.key]} \ {0}
<1>0. Linked(d, h) /\ Sorted(d, t) /\ Placed(d, o, t) /\ Listed(d, o, Len(d) + 1)
  BY DEF InOrder
<1>1. Len(d) \in Nat
  BY StaleFinite
<1>2. e.key \in Keys
  BY DEF Row
<1>3. g \in [Keys -> Nat] /\ g[e.key] = Len(d) + 1 /\ \A k \in Keys : k # e.key => g[k] = h[k]
  <2>1. g = [h EXCEPT ![e.key] = Len(d) + 1]
    BY DEF Makes
  <2> QED
    BY <1>1, <1>2, <2>1
<1>4. /\ b \in Seq(EntryType) /\ Len(b) = 1 /\ b[1].live /\ b[1].row = e /\ StaleIn(b) = 0
      /\ \A i \in 1..Len(b) : i = 1
  BY OneRow
<1>5. old \in SUBSET (1..Len(d)) /\ \A j \in old : d[j].live
  BY <1>0, <1>2 DEF Linked
<1>6. Cardinality(old) = IF h[e.key] = 0 THEN 0 ELSE 1
  <2>1. CASE h[e.key] = 0
    <3>1. old = {}
      BY <2>1
    <3> QED
      BY <2>1, <3>1, FS_EmptySet
  <2>2. CASE h[e.key] # 0
    <3>1. old = {h[e.key]}
      BY <2>2
    <3>2. Cardinality({h[e.key]}) = 1
      BY FS_Singleton
    <3> QED
      BY <2>2, <3>1, <3>2
  <2> QED
    BY <2>1, <2>2
<1>7. \A k \in Keys : k # e.key => h[k] \notin old
  <2> SUFFICES ASSUME NEW k \in Keys, k # e.key, h[k] = h[e.key], h[k] # 0 PROVE FALSE
    OBVIOUS
  <2> QED
    BY <1>0, <1>2 DEF Linked
<1>8. h[e.key] = 0 \/ h[e.key] \in old
  OBVIOUS
<1> HIDE DEF b, old
<1>9. UniqueKeys(b)
  BY <1>4 DEF UniqueKeys
<1>10. \A i \in 1..Len(b) : b[i].live =>
         g[b[i].row.key] = Len(d) + i /\ (h[b[i].row.key] = 0 \/ h[b[i].row.key] \in old)
  BY <1>3, <1>4, <1>8
<1>11. ASSUME NEW k \in Keys
       PROVE  (\E i \in 1..Len(b) : b[i].live /\ b[i].row.key = k) \/ (g[k] = h[k] /\ h[k] \notin old)
  <2>1. CASE k = e.key
    <3>1. 1 \in 1..Len(b) /\ b[1].row.key = k
      BY <1>4, <2>1
    <3> QED
      BY <1>4, <3>1
  <2>2. CASE k # e.key
    BY <1>3, <1>7, <2>2
  <2> QED
    BY <2>1, <2>2
<1>12. /\ Linked(c, g) /\ Extends(d, c) /\ StaleIn(c) = StaleIn(d) + Cardinality(old) + StaleIn(b)
       /\ Len(c) = Len(d) + Len(b) /\ \A i \in 1..Len(b) : c[Len(d) + i] = b[i]
  <2>1. Relinks(d, h, b, old, g)
    BY <1>10, <1>11 DEF Relinks
  <2>2. g \in [Keys -> Nat] /\ b \in Seq(EntryType)
    BY <1>3, <1>4
  <2>3. c = Retired(d, old) \o b
    BY DEF Makes, old, b
  <2> DEFINE z == Retired(d, old) \o b
  <2>4. /\ Linked(z, g) /\ Extends(d, z) /\ StaleIn(z) = StaleIn(d) + Cardinality(old) + StaleIn(b)
        /\ Len(z) = Len(d) + Len(b) /\ \A i \in 1..Len(b) : z[Len(d) + i] = b[i]
    BY <1>0, <1>5, <1>9, <2>1, <2>2, Written
  <2> HIDE DEF z
  <2>5. c = z
    BY <2>3 DEF z
  <2> QED
    BY <2>4, <2>5
<1>13. c \in Seq(EntryType)
  BY <1>12 DEF Extends
<1>14. StaleIn(c) = StaleIn(d) + (IF h[e.key] = 0 THEN 0 ELSE 1)
  <2>1. StaleIn(d) \in Nat
    BY StaleFinite
  <2> QED
    BY <1>4, <1>6, <1>12, <2>1
<1>15. Len(c) = Len(d) + 1 /\ c[Len(d) + 1].row.ts = t
  BY <1>1, <1>4, <1>12
<1>16. \A i \in 1..Len(c) : i \notin 1..Len(d) => c[i].row.ts = t
  <2>1. \A i \in 1..Len(c) : i \notin 1..Len(d) => i = Len(d) + 1
    BY <1>1, <1>15
  <2> QED
    BY <1>15, <2>1
<1>17. Sorted(c, t) /\ Placed(c, o, t)
  BY <1>0, <1>12, <1>16, StillPlaced
<1>18. Listed(c, o, Len(d) + 1)
  BY <1>0, <1>1, <1>12, StillListed
<1>19. \A i \in 1..Len(c) : c[i].live /\ Len(d) + 1 <= i => c[i].row.ts = t
  BY <1>1, <1>16
<1>20. p \in Seq(OffsetType) /\ Placed(c, p, t) /\ Listed(c, p, Len(c) + 1)
  <2>1. Len(d) + 1 \in 1..(Len(c) + 1)
    BY <1>1, <1>15
  <2> DEFINE q == IF o = <<>> \/ t > Last(o).ts THEN Append(o, [ts |-> t, first |-> Len(d) + 1]) ELSE o
  <2>2. q \in Seq(OffsetType) /\ Placed(c, q, t) /\ Listed(c, q, Len(c) + 1)
    BY <1>13, <1>17, <1>18, <1>19, <2>1, Enter
  <2>3. p = q
    BY DEF Makes
  <2> HIDE DEF q
  <2> QED
    BY <2>2, <2>3
<1> QED
  BY <1>3, <1>12, <1>13, <1>14, <1>17, <1>20 DEF InOrder

\* A block b of a task: the rows whose key has a row already, those of them it
\* keeps, the rows the others replace, and the hash map g it leaves.
Replaces(d, h, b, live, occupied, kept, old, g) ==
  /\ \A i \in live : i \in 1..Len(b) /\ b[i].live
  /\ \A i \in 1..Len(b) : b[i].live => i \in live
  /\ \A i \in occupied : i \in live /\ h[b[i].row.key] # 0
  /\ \A i \in live : h[b[i].row.key] # 0 => i \in occupied
  /\ kept \in SUBSET occupied
  /\ \A j \in old : \E i \in occupied \ kept : h[b[i].row.key] = j
  /\ \A i \in occupied \ kept : h[b[i].row.key] \in old
  /\ \A i \in live \ kept : g[b[i].row.key] = Len(d) + i
  /\ \A k \in Keys : (\E i \in live \ kept : b[i].row.key = k) \/ g[k] = h[k]

\* The hash map a task leaves when it has linked some of its block.
LinkMap(d, h, b, linked) ==
  [k \in Keys |-> IF {i \in linked : b[i].row.key = k} = {} THEN h[k]
                  ELSE Len(d) + (CHOOSE i \in {i \in linked : b[i].row.key = k} : TRUE)]

\* It leads to each row that is linked.
LeadsTo(d, h, b, linked, g) ==
  /\ g \in [Keys -> Nat]
  /\ \A i \in linked : g[b[i].row.key] = Len(d) + i
  /\ \A k \in Keys : (\E i \in linked : b[i].row.key = k) \/ g[k] = h[k]

\* The linked rows of a block are live and have a key each, so each is led to.
LEMMA BlockLinks ==
  ASSUME NEW d \in Seq(EntryType), NEW h \in [Keys -> Nat], NEW b \in Seq(EntryType),
         NEW linked \in SUBSET (1..Len(b)),
         UniqueKeys(b), \A i \in linked : b[i].live
  PROVE  LeadsTo(d, h, b, linked, LinkMap(d, h, b, linked))
<1>0. PICK g : g = LinkMap(d, h, b, linked)
  OBVIOUS
<1> DEFINE target(k) == {i \in linked : b[i].row.key = k}
<1>1. Len(d) \in Nat /\ Len(b) \in Nat /\ \A i \in 1..Len(b) : b[i] \in EntryType
  BY StaleFinite
<1>2. \A i \in linked : i \in Nat /\ b[i].row.key \in Keys
  <2>1. \A i \in linked : i \in 1..Len(b) /\ b[i] \in EntryType
    BY <1>1
  <2>2. \A e \in EntryType : e.row.key \in Keys
    BY DEF EntryType, Row
  <2> QED
    BY <1>1, <2>1, <2>2
<1>3. \A i, j \in linked : b[i].row.key = b[j].row.key => i = j
  BY DEF UniqueKeys
<1>4. \A k \in Keys : g[k] = IF target(k) = {} THEN h[k] ELSE Len(d) + (CHOOSE i \in target(k) : TRUE)
  <2> HIDE DEF target
  <2>1. LinkMap(d, h, b, linked) =
          [k \in Keys |-> IF target(k) = {} THEN h[k] ELSE Len(d) + (CHOOSE i \in target(k) : TRUE)]
    BY Zenon DEF LinkMap, target
  <2> QED
    BY <1>0, <2>1, Zenon
<1>5. ASSUME NEW k \in Keys PROVE g[k] \in Nat /\ \A i \in linked : b[i].row.key = k => g[k] = Len(d) + i
  <2>1. CASE target(k) = {}
    <3>1. g[k] = h[k]
      BY <1>4, <2>1
    <3> QED
      BY <2>1, <3>1
  <2>2. CASE target(k) # {}
    <3> DEFINE j == CHOOSE i \in target(k) : TRUE
    <3>1. g[k] = Len(d) + j
      BY <1>4, <2>2
    <3>2. j \in target(k)
      BY <2>2
    <3>3. j \in linked /\ b[j].row.key = k
      BY <3>2
    <3> HIDE DEF j, target
    <3>4. \A i \in linked : b[i].row.key = k => i = j
      BY <1>3, <3>3
    <3>5. j \in Nat
      BY <1>2, <3>3
    <3>6. Len(d) + j \in Nat
      BY <1>1, <3>5
    <3>7. \A i \in linked : b[i].row.key = k => Len(d) + i = Len(d) + j
      BY <3>4
    <3> QED
      BY <3>1, <3>6, <3>7
  <2> QED
    BY <2>1, <2>2
<1>6. ASSUME NEW k \in Keys, ~\E i \in linked : b[i].row.key = k PROVE g[k] = h[k]
  <2>1. target(k) = {}
    <3> SUFFICES ASSUME NEW i \in linked, b[i].row.key = k PROVE FALSE
      BY Zenon
    <3> QED
      BY <1>6, Zenon
  <2> HIDE DEF target
  <2> QED
    BY <1>4, <2>1
<1>7. \A i \in linked : g[b[i].row.key] = Len(d) + i
  <2> SUFFICES ASSUME NEW i \in linked PROVE g[b[i].row.key] = Len(d) + i
    OBVIOUS
  <2>1. PICK k \in Keys : k = b[i].row.key
    BY <1>2
  <2>2. g[k] = Len(d) + i
    BY <1>5, <2>1
  <2> QED
    BY <2>1, <2>2
<1>8. g = [k \in Keys |-> g[k]]
  BY <1>0 DEF LinkMap
<1>9. g \in [Keys -> Nat]
  BY <1>5, <1>8, Zenon
<1>10. LeadsTo(d, h, b, linked, g)
  BY <1>6, <1>7, <1>9, Zenon DEF LeadsTo
<1> QED
  BY <1>0, <1>10

\* A block of rows written by a task: rows of new keys are linked, kept rows
\* become stale, the others take the place of the row of their key.
LEMMA BlockWritten ==
  ASSUME NEW d \in Seq(EntryType), NEW h \in [Keys -> Nat], NEW g \in [Keys -> Nat], Linked(d, h),
         NEW b \in Seq(EntryType), UniqueKeys(b), NEW live, NEW occupied, NEW kept, NEW old,
         Replaces(d, h, b, live, occupied, kept, old, g)
  PROVE  LET c == Retired(d, old) \o Retired(b, kept)
         IN  /\ Linked(c, g) /\ Extends(d, c)
             /\ StaleIn(c) = StaleIn(d) + StaleIn(b) + Cardinality(occupied)
             /\ Cardinality(occupied) \in Nat
             /\ Len(c) = Len(d) + Len(b)
             /\ \A i \in 1..Len(b) : c[Len(d) + i].row = b[i].row /\ (c[Len(d) + i].live => b[i].live)
<1> DEFINE r == Retired(b, kept)
           c == Retired(d, old) \o r
           moved == occupied \ kept
           f == [i \in moved |-> h[b[i].row.key]]
<1>1. /\ Len(d) \in Nat /\ Len(b) \in Nat /\ \A i \in 1..Len(b) : b[i] \in EntryType
      /\ StaleIn(d) \in Nat /\ StaleIn(b) \in Nat
  BY StaleFinite
<1>2. \A i \in 1..Len(b) : b[i].row.key \in Keys
  BY <1>1 DEF EntryType, Row
<1>3. \A i \in live : i \in 1..Len(b) /\ b[i].live
  BY DEF Replaces
<1>4. \A i \in occupied : i \in live /\ h[b[i].row.key] # 0
  BY DEF Replaces
<1>5. /\ r \in Seq(EntryType) /\ Len(r) = Len(b)
      /\ \A i \in 1..Len(b) : r[i].row = b[i].row /\ (r[i].live <=> b[i].live /\ i \notin kept)
  BY RetiredFacts
<1>6. kept \in SUBSET (1..Len(b)) /\ \A i \in kept : b[i].live
  BY <1>3, <1>4 DEF Replaces
<1>7. StaleIn(r) = StaleIn(b) + Cardinality(kept) /\ IsFiniteSet(kept) /\ Cardinality(kept) \in Nat
  BY <1>6, RetiredCount
<1> HIDE DEF r
<1>8. \A i, j \in live : b[i].row.key = b[j].row.key => i = j
  BY <1>3 DEF UniqueKeys
<1>9. \A j \in old : \E i \in moved : h[b[i].row.key] = j
  BY DEF Replaces
<1>10. \A i \in moved : h[b[i].row.key] \in old
  BY DEF Replaces
<1>11. \A i \in moved : i \in live \ kept /\ i \in 1..Len(b) /\ b[i].row.key \in Keys /\ h[b[i].row.key] # 0
  BY <1>2, <1>3, <1>4
<1>12. old \in SUBSET (1..Len(d)) /\ \A j \in old : d[j].live
  <2> SUFFICES ASSUME NEW j \in old PROVE j \in 1..Len(d) /\ d[j].live
    OBVIOUS
  <2>1. PICK i \in moved : h[b[i].row.key] = j
    BY <1>9
  <2> QED
    BY <1>11, <2>1 DEF Linked
<1>13. UniqueKeys(r)
  <2> SUFFICES ASSUME NEW i \in 1..Len(r), NEW j \in 1..Len(r), r[i].live, r[j].live, r[i].row.key = r[j].row.key
               PROVE  i = j
    BY DEF UniqueKeys
  <2>1. i \in 1..Len(b) /\ j \in 1..Len(b) /\ b[i].live /\ b[j].live /\ b[i].row.key = b[j].row.key
    BY <1>5
  <2> QED
    BY <2>1 DEF UniqueKeys
<1>14. ASSUME NEW i \in 1..Len(r), r[i].live
       PROVE  g[r[i].row.key] = Len(d) + i /\ (h[r[i].row.key] = 0 \/ h[r[i].row.key] \in old)
  <2>1. i \in live \ kept /\ r[i].row = b[i].row
    BY <1>5, <1>14 DEF Replaces
  <2>2. g[b[i].row.key] = Len(d) + i
    BY <2>1 DEF Replaces
  <2>3. h[b[i].row.key] # 0 => i \in moved
    BY <2>1 DEF Replaces
  <2>4. h[b[i].row.key] = 0 \/ h[b[i].row.key] \in old
    BY <1>10, <2>3
  <2> QED
    BY <2>1, <2>2, <2>4
<1>15. ASSUME NEW k \in Keys
       PROVE  (\E i \in 1..Len(r) : r[i].live /\ r[i].row.key = k) \/ (g[k] = h[k] /\ h[k] \notin old)
  <2>1. CASE \E i \in live \ kept : b[i].row.key = k
    <3>1. PICK i \in live \ kept : b[i].row.key = k
      BY <2>1
    <3>2. i \in 1..Len(r) /\ r[i].live /\ r[i].row.key = k
      BY <1>3, <1>5, <3>1
    <3> QED
      BY <3>2
  <2>2. CASE ~\E i \in live \ kept : b[i].row.key = k
    <3>1. h[k] \notin old
      <4> SUFFICES ASSUME h[k] \in old PROVE FALSE
        OBVIOUS
      <4>1. PICK i \in moved : h[b[i].row.key] = h[k]
        BY <1>9
      <4>2. b[i].row.key = k
        BY <1>11, <4>1, KeyOfRow
      <4> QED
        BY <1>11, <2>2, <4>2
    <3>2. g[k] = h[k]
      BY <2>2 DEF Replaces
    <3> QED
      BY <3>1, <3>2
  <2> QED
    BY <2>1, <2>2
<1>16. /\ Linked(c, g) /\ Extends(d, c) /\ StaleIn(c) = StaleIn(d) + Cardinality(old) + StaleIn(r)
       /\ Len(c) = Len(d) + Len(r) /\ \A i \in 1..Len(r) : c[Len(d) + i] = r[i]
  <2>1. Relinks(d, h, r, old, g)
    BY <1>14, <1>15, Zenon DEF Relinks
  <2> HIDE DEF moved, f
  <2> QED
    BY <1>5, <1>12, <1>13, <2>1, Written
<1> HIDE DEF c
<1>17. IsFiniteSet(moved) /\ Cardinality(occupied) = Cardinality(moved) + Cardinality(kept) /\ Cardinality(moved) \in Nat
  <2>1. IsFiniteSet(1..Len(b))
    BY <1>1, FS_Interval
  <2>2. moved \in SUBSET (1..Len(b))
    BY <1>11
  <2>3. IsFiniteSet(moved)
    BY <2>1, <2>2, FS_Subset
  <2>4. occupied = moved \cup kept /\ moved \cap kept = {}
    BY DEF Replaces
  <2> HIDE DEF moved
  <2>5. Cardinality(moved \cup kept) = Cardinality(moved) + Cardinality(kept)
    BY <1>7, <2>3, <2>4, DisjointSize
  <2> QED
    BY <2>3, <2>4, <2>5, FS_CardinalityType
<1>18. Cardinality(old) = Cardinality(moved)
  <2>1. f \in [moved -> old]
    BY <1>10
  <2>2. ASSUME NEW i \in moved, NEW j \in moved, f[i] = f[j] PROVE i = j
    <3>1. h[b[i].row.key] = h[b[j].row.key]
      BY <2>2
    <3>2. b[i].row.key = b[j].row.key
      BY <1>11, <3>1, KeyOfRow
    <3> QED
      BY <1>8, <1>11, <3>2
  <2>3. ASSUME NEW y \in old PROVE \E x \in moved : f[x] = y
    <3>1. PICK x \in moved : h[b[x].row.key] = y
      BY <1>9
    <3>2. f[x] = y
      BY <3>1
    <3> QED
      BY <3>2
  <2> HIDE DEF f, moved
  <2>4. f \in Bijection(moved, old)
    BY <2>1, <2>2, <2>3 DEF Bijection, Injection, Surjection, IsInjective
  <2>5. ExistsBijection(moved, old)
    BY <2>4 DEF ExistsBijection
  <2> QED
    BY <1>17, <2>5, FS_Bijection
<1> HIDE DEF moved, f
<1>19. StaleIn(c) = StaleIn(d) + StaleIn(b) + Cardinality(occupied) /\ Cardinality(occupied) \in Nat
  BY <1>1, <1>7, <1>16, <1>17, <1>18
<1>20. \A i \in 1..Len(b) : c[Len(d) + i].row = b[i].row /\ (c[Len(d) + i].live => b[i].live)
  <2>1. \A i \in 1..Len(b) : c[Len(d) + i] = r[i]
    BY <1>5, <1>16
  <2> QED
    BY <1>5, <2>1
<1>21. /\ Linked(c, g) /\ Extends(d, c) /\ StaleIn(c) = StaleIn(d) + StaleIn(b) + Cardinality(occupied)
       /\ Cardinality(occupied) \in Nat /\ Len(c) = Len(d) + Len(b)
       /\ \A i \in 1..Len(b) : c[Len(d) + i].row = b[i].row /\ (c[Len(d) + i].live => b[i].live)
  BY <1>5, <1>16, <1>19, <1>20
<1> QED
  BY <1>21, Zenon DEF c, r

-----------------------------------------------------------------------------
(* The invariant holds at first and is kept by every step. *)

\* A table without rows is in order.
LEMMA EmptyTable ==
  ASSUME NEW t \in Nat
  PROVE  /\ <<>> \in Seq(EntryType) /\ <<>> \in Seq(OffsetType) /\ <<>> \in Seq(Row)
         /\ Linked(<<>>, [k \in Keys |-> 0]) /\ StaleIn(<<>>) = 0
         /\ Sorted(<<>>, t) /\ Placed(<<>>, <<>>, t) /\ Listed(<<>>, <<>>, 1)
         /\ UniqueKeys(<<>>) /\ Fresh(<<>>, t) /\ Current(<<>>) /\ Len(<<>>) = 0
<1>1. <<>> \in Seq(EntryType) /\ <<>> \in Seq(OffsetType) /\ <<>> \in Seq(Row) /\ Len(<<>>) = 0
  OBVIOUS
<1>2. StaleSet(<<>>) = {}
  BY DEF StaleSet
<1>3. StaleIn(<<>>) = 0
  BY <1>1, <1>2, StaleFinite, FS_EmptySet
<1> QED
  BY <1>1, <1>3 DEF Linked, Sorted, Placed, Listed, UniqueKeys, Fresh, Current

\* The clock starts at one.
LEMMA ClockIsNat ==
  ASSUME clock \in Timestamps
  PROVE  clock \in Nat /\ clock >= 1
BY MaxTsPositive DEF Timestamps

\* A table that is not merging.
LEMMA IdleFacts ==
  /\ Idle \in MergeType /\ Idle.phase = "idle" /\ Idle.stale = 0 /\ Idle.ts = 0
  /\ \A s \in Shards : Idle.staged[s] = <<>>
BY TableConstants DEF Idle, MergeType, Shards

\* An empty table with nothing staged.
LEMMA InitInv ==
  ASSUME Init
  PROVE  TableInv
<1>1. 1 \in Timestamps
  BY MaxTsPositive DEF Timestamps
<1>2. TypeInv
  BY <1>1, IdleFacts DEF Init, TypeInv, EmptyBuffer
<1>3. CurrentInv
  BY DEF Init, CurrentInv, Current, EmptyBuffer
<1>4. StagedInv
  BY IdleFacts DEF Init, StagedInv, UniqueKeys, Fresh
<1>5. Linked(data, hash) /\ StaleInv /\ OffsetInv
  BY EmptyTable, IdleFacts DEF Init, StaleInv, OffsetInv, NextRow
<1>6. IndexInv
  BY DEF Init, IndexInv, Finds
<1> QED
  BY <1>2, <1>3, <1>4, <1>5, <1>6 DEF TableInv

StoreInv == StagedInv /\ Linked(data, hash) /\ StaleInv /\ OffsetInv /\ IndexInv

\* Staging and handing over leave what is stored as it is.
LEMMA Frame ==
  ASSUME TableInv, UNCHANGED <<table, merge, index, clock>>
  PROVE  StoreInv'
<1>1. data' = data /\ hash' = hash /\ offsets' = offsets /\ staleRows' = staleRows /\ generation' = generation
      /\ merge' = merge /\ index' = index /\ clock' = clock
  BY DEF table
<1>2. StagedInv'
  BY <1>1 DEF TableInv, StagedInv, Shards
<1>3. Linked(data, hash)' /\ StaleInv'
  BY <1>1 DEF TableInv, StaleInv
<1>4. OffsetInv'
  BY <1>1 DEF TableInv, OffsetInv, NextRow
<1>5. IndexInv'
  BY <1>1 DEF TableInv, IndexInv
<1> QED
  BY <1>2, <1>3, <1>4, <1>5 DEF StoreInv

\* What is staged carries the current timestamp.
LEMMA StageInsertKeeps ==
  ASSUME TableInv, NEW w \in Writers, NEW k \in Keys, NEW v \in Values, StageInsert(w, k, v)
  PROVE  TableInv'
<1> DEFINE row == [key |-> k, val |-> v, ts |-> clock]
           s == ShardOf[k]
<1>1. /\ UNCHANGED <<table, merge, index, clock>> /\ queue' = queue /\ removals' = removals
      /\ buffers' = [buffers EXCEPT ![w].rows[s] = Append(@, row)]
  BY DEF StageInsert
<1>2. s \in Shards
  BY TableConstants DEF Shards
<1>3. row \in Row /\ row.ts = clock
  BY DEF TableInv, TypeInv, Row
<1>4. buffers \in [Writers -> [rows : [Shards -> Seq(Row)], removals : SUBSET Keys]]
  BY DEF TableInv, TypeInv
<1> HIDE DEF row, s
<1>5. Append(buffers[w].rows[s], row) \in Seq(Row)
  BY <1>2, <1>3, <1>4
<1>6. buffers' \in [Writers -> [rows : [Shards -> Seq(Row)], removals : SUBSET Keys]]
  BY <1>1, <1>2, <1>4, <1>5
<1>7. \A u \in Writers, z \in Shards :
        buffers'[u].rows[z] = IF u = w /\ z = s THEN Append(buffers[w].rows[s], row) ELSE buffers[u].rows[z]
  BY <1>1, <1>2, <1>4
<1>8. TypeInv'
  BY <1>1, <1>6 DEF TableInv, TypeInv, table, MergeType, Shards, Idle
<1>9. CurrentInv'
  <2>1. \A z \in Shards : Current(queue[z])'
    BY <1>1 DEF TableInv, CurrentInv, Current
  <2>2. ASSUME NEW u \in Writers, NEW z \in Shards, NEW n \in 1..Len(buffers'[u].rows[z])
        PROVE  buffers'[u].rows[z][n].ts = clock
    <3>1. CASE u = w /\ z = s
      <4> DEFINE q == buffers[w].rows[s]
      <4>1. q \in Seq(Row)
        BY <1>2, <1>4
      <4>2. buffers'[u].rows[z] = Append(q, row)
        BY <1>7, <3>1
      <4>3. \A m \in 1..Len(q) : q[m].ts = clock
        BY <1>2 DEF TableInv, CurrentInv, Current
      <4> HIDE DEF q
      <4>4. Len(Append(q, row)) = Len(q) + 1 /\ Append(q, row)[Len(q) + 1] = row /\ Len(q) \in Nat
            /\ \A m \in 1..Len(q) : Append(q, row)[m] = q[m]
        BY <4>1
      <4>5. n \in 1..Len(q) \/ n = Len(q) + 1
        BY <4>2, <4>4
      <4> QED
        BY <1>3, <4>2, <4>3, <4>4, <4>5
    <3>2. CASE ~(u = w /\ z = s)
      <4>1. buffers'[u].rows[z] = buffers[u].rows[z]
        BY <1>7, <3>2
      <4> QED
        BY <4>1 DEF TableInv, CurrentInv, Current
    <3> QED
      BY <3>1, <3>2
  <2> QED
    BY <1>1, <2>1, <2>2 DEF CurrentInv, Current, Shards
<1> QED
  BY <1>1, <1>8, <1>9, Frame DEF TableInv, StoreInv

\* Staging a removal touches one buffer.
LEMMA StageRemoveKeeps ==
  ASSUME TableInv, NEW w \in Writers, NEW k \in Keys, StageRemove(w, k)
  PROVE  TableInv'
<1>1. /\ UNCHANGED <<table, merge, index, clock>> /\ queue' = queue /\ removals' = removals
      /\ buffers' = [buffers EXCEPT ![w].removals = @ \union {k}]
  BY DEF StageRemove
<1>2. buffers \in [Writers -> [rows : [Shards -> Seq(Row)], removals : SUBSET Keys]]
  BY DEF TableInv, TypeInv
<1>3. buffers' \in [Writers -> [rows : [Shards -> Seq(Row)], removals : SUBSET Keys]]
      /\ \A u \in Writers : buffers'[u].rows = buffers[u].rows
  BY <1>1, <1>2
<1>4. TypeInv'
  BY <1>1, <1>3 DEF TableInv, TypeInv, table, MergeType, Shards, Idle
<1>5. CurrentInv'
  BY <1>1, <1>3 DEF TableInv, CurrentInv, Current, Shards
<1> QED
  BY <1>1, <1>4, <1>5, Frame DEF TableInv, StoreInv

\* Rows of the current timestamp after rows of the current timestamp.
LEMMA JoinedCurrent ==
  ASSUME NEW p \in Seq(Row), NEW q \in Seq(Row), Current(p), Current(q)
  PROVE  p \o q \in Seq(Row) /\ Current(p \o q)
<1>1. p \o q \in Seq(Row) /\ Len(p \o q) = Len(p) + Len(q) /\ Len(p) \in Nat /\ Len(q) \in Nat
  OBVIOUS
<1>2. \A n \in 1..Len(p) : (p \o q)[n] = p[n]
  OBVIOUS
<1>3. \A n \in 1..Len(q) : (p \o q)[Len(p) + n] = q[n]
  OBVIOUS
<1>4. \A n \in 1..Len(p \o q) : n \in 1..Len(p) \/ (n - Len(p) \in 1..Len(q) /\ n = Len(p) + (n - Len(p)))
  BY <1>1
<1>5. ASSUME NEW n \in 1..Len(p \o q) PROVE (p \o q)[n].ts = clock
  <2>1. CASE n \in 1..Len(p)
    BY <1>2, <2>1 DEF Current
  <2>2. CASE n - Len(p) \in 1..Len(q) /\ n = Len(p) + (n - Len(p))
    <3>1. (p \o q)[n] = q[n - Len(p)]
      BY <1>3, <2>2
    <3> QED
      BY <2>2, <3>1 DEF Current
  <2> QED
    BY <1>4, <2>1, <2>2
<1> QED
  BY <1>1, <1>5 DEF Current

\* An empty queue has nothing of another timestamp.
LEMMA NothingStaged == Current(<<>>)
BY DEF Current

\* A buffer dropped between merges is handed over whole.
LEMMA DropBufferKeeps ==
  ASSUME TableInv, NEW w \in Writers, DropBuffer(w)
  PROVE  TableInv'
<1>1. /\ UNCHANGED <<table, merge, index, clock>>
      /\ queue' = [s \in Shards |-> queue[s] \o buffers[w].rows[s]]
      /\ removals' = removals \union buffers[w].removals
      /\ buffers' = [buffers EXCEPT ![w] = EmptyBuffer]
  BY DEF DropBuffer
<1>2. /\ buffers \in [Writers -> [rows : [Shards -> Seq(Row)], removals : SUBSET Keys]]
      /\ queue \in [Shards -> Seq(Row)]
  BY DEF TableInv, TypeInv
<1>3. \A s \in Shards : queue'[s] \in Seq(Row) /\ Current(queue'[s])
  BY <1>1, <1>2, JoinedCurrent DEF TableInv, CurrentInv
<1>4. EmptyBuffer \in [rows : [Shards -> Seq(Row)], removals : SUBSET Keys]
      /\ \A s \in Shards : EmptyBuffer.rows[s] = <<>>
  BY DEF EmptyBuffer
<1>5. buffers' \in [Writers -> [rows : [Shards -> Seq(Row)], removals : SUBSET Keys]]
      /\ \A u \in Writers : buffers'[u] = IF u = w THEN EmptyBuffer ELSE buffers[u]
  BY <1>1, <1>2, <1>4
<1>6. queue' \in [Shards -> Seq(Row)]
  BY <1>1, <1>3
<1>7. removals' \in SUBSET Keys
  BY <1>1, <1>2 DEF TableInv, TypeInv
<1>8. TypeInv'
  BY <1>1, <1>5, <1>6, <1>7 DEF TableInv, TypeInv, table, MergeType, Shards, Idle
<1>9. CurrentInv'
  <2>1. \A u \in Writers : \A s \in Shards : Current(buffers'[u].rows[s])
    <3> SUFFICES ASSUME NEW u \in Writers, NEW s \in Shards PROVE Current(buffers'[u].rows[s])
      OBVIOUS
    <3>1. CASE u = w
      <4>1. buffers'[u].rows[s] = <<>>
        BY <1>4, <1>5, <3>1
      <4> QED
        BY <4>1, NothingStaged
    <3>2. CASE u # w
      BY <1>5, <3>2 DEF TableInv, CurrentInv
    <3> QED
      BY <3>1, <3>2
  <2> QED
    BY <1>1, <1>3, <2>1 DEF CurrentInv, Current, Shards
<1> QED
  BY <1>1, <1>8, <1>9, Frame DEF TableInv, StoreInv

\* A buffer dropped during a merge is handed over shard by shard.
LEMMA DropShardKeeps ==
  ASSUME TableInv, NEW w \in Writers, NEW s \in Shards, DropShard(w, s)
  PROVE  TableInv'
<1>1. /\ UNCHANGED <<table, merge, index, clock>> /\ removals' = removals
      /\ queue' = [queue EXCEPT ![s] = @ \o buffers[w].rows[s]]
      /\ buffers' = [buffers EXCEPT ![w].rows[s] = <<>>]
  BY DEF DropShard
<1>2. /\ buffers \in [Writers -> [rows : [Shards -> Seq(Row)], removals : SUBSET Keys]]
      /\ queue \in [Shards -> Seq(Row)]
  BY DEF TableInv, TypeInv
<1>3. queue[s] \o buffers[w].rows[s] \in Seq(Row) /\ Current(queue[s] \o buffers[w].rows[s])
  BY <1>2, JoinedCurrent DEF TableInv, CurrentInv
<1>4. queue' \in [Shards -> Seq(Row)] /\ \A z \in Shards : Current(queue'[z])
  BY <1>1, <1>2, <1>3 DEF TableInv, CurrentInv
<1>5. buffers' \in [Writers -> [rows : [Shards -> Seq(Row)], removals : SUBSET Keys]]
      /\ \A u \in Writers : \A z \in Shards : buffers'[u].rows[z] = <<>> \/ buffers'[u].rows[z] = buffers[u].rows[z]
  <2>1. <<>> \in Seq(Row)
    OBVIOUS
  <2>2. buffers' \in [Writers -> [rows : [Shards -> Seq(Row)], removals : SUBSET Keys]]
    BY <1>1, <1>2, <2>1
  <2>3. ASSUME NEW u \in Writers, NEW z \in Shards
        PROVE  buffers'[u].rows[z] = <<>> \/ buffers'[u].rows[z] = buffers[u].rows[z]
    <3>1. CASE u = w
      <4>1. buffers'[w].rows = [buffers[w].rows EXCEPT ![s] = <<>>]
        BY <1>1, <1>2
      <4>2. buffers[w].rows \in [Shards -> Seq(Row)]
        BY <1>2
      <4> QED
        BY <3>1, <4>1, <4>2
    <3>2. CASE u # w
      BY <1>1, <1>2, <3>2
    <3> QED
      BY <3>1, <3>2
  <2> QED
    BY <2>2, <2>3
<1>6. TypeInv'
  BY <1>1, <1>4, <1>5 DEF TableInv, TypeInv, table, MergeType, Shards, Idle
<1>7. CurrentInv'
  <2>1. \A u \in Writers : \A z \in Shards : Current(buffers'[u].rows[z])
    BY <1>5, NothingStaged DEF TableInv, CurrentInv
  <2> QED
    BY <1>1, <1>4, <2>1 DEF CurrentInv, Current, Shards
<1> QED
  BY <1>1, <1>6, <1>7, Frame DEF TableInv, StoreInv

\* Live rows and offsets that are not later than t are not later than t + 1.
LEMMA Later ==
  ASSUME NEW d \in Seq(EntryType), NEW o \in Seq(OffsetType), NEW t \in Nat, Sorted(d, t), Placed(d, o, t)
  PROVE  Sorted(d, t + 1) /\ Placed(d, o, t + 1)
<1>1. \A i \in 1..Len(d) : d[i].row.ts \in Nat
  <2>1. \A i \in 1..Len(d) : d[i] \in EntryType
    BY StaleFinite
  <2>2. \A e \in EntryType : e.row.ts \in Nat
    BY MaxTsPositive DEF EntryType, Row, Timestamps
  <2> QED
    BY <2>1, <2>2
<1>2. \A n \in 1..Len(o) : o[n].ts \in Nat
  <2>1. \A n \in 1..Len(o) : o[n] \in OffsetType
    OBVIOUS
  <2> QED
    BY <2>1 DEF OffsetType
<1>3. \A m \in Nat : m <= t => m <= t + 1
  OBVIOUS
<1>4. Sorted(d, t + 1)
  BY <1>1, <1>3 DEF Sorted
<1>5. Placed(d, o, t + 1)
  BY <1>2, <1>3 DEF Placed
<1> QED
  BY <1>4, <1>5

\* The clock moves on when nothing is staged.
LEMMA TickKeeps ==
  ASSUME TableInv, Tick
  PROVE  TableInv'
<1>1. /\ UNCHANGED <<table, queue, removals, buffers, merge, index>> /\ clock' = clock + 1
      /\ clock < MaxTs /\ merge.phase = "idle"
      /\ \A s \in Shards : queue[s] = <<>>
      /\ \A w \in Writers : \A s \in Shards : buffers[w].rows[s] = <<>>
  BY DEF Tick, EmptyBuffer
<1>2. clock \in Nat /\ clock' \in Timestamps
  BY <1>1, MaxTsPositive DEF TableInv, TypeInv, Timestamps
<1>3. TypeInv'
  BY <1>1, <1>2 DEF TableInv, TypeInv, table, MergeType, Shards, Idle
<1>4. CurrentInv'
  BY <1>1 DEF CurrentInv, Current, Shards
<1>5. StagedInv'
  <2>1. \A s \in Shards : merge'.staged[s] = <<>>
    BY <1>1, IdleFacts DEF TableInv, TypeInv
  <2> QED
    BY <2>1 DEF StagedInv, UniqueKeys, Fresh, Shards
<1>6. Linked(data, hash)' /\ StaleInv' /\ IndexInv'
  BY <1>1 DEF TableInv, StaleInv, IndexInv, table
<1>7. OffsetInv'
  <2>1. /\ data \in Seq(EntryType) /\ offsets \in Seq(OffsetType) /\ Sorted(data, clock) /\ Placed(data, offsets, clock)
        /\ Listed(data, offsets, NextRow)
    BY <1>1 DEF TableInv, TypeInv, OffsetInv
  <2>2. Sorted(data, clock + 1) /\ Placed(data, offsets, clock + 1)
    BY <1>2, <2>1, Later
  <2> QED
    BY <1>1, <2>1, <2>2 DEF OffsetInv, NextRow, table
<1> QED
  BY <1>3, <1>4, <1>5, <1>6, <1>7 DEF TableInv

\* Clearing leaves an empty table of a new major version, or the empty one it was.
LEMMA ClearKeeps ==
  ASSUME TableInv, Clear
  PROVE  TableInv'
<1>1. /\ merge.phase = "idle" /\ queue' = [s \in Shards |-> <<>>] /\ removals' = {}
      /\ index' = [index EXCEPT !.updated = FALSE]
      /\ buffers' = buffers /\ clock' = clock /\ merge' = merge
  BY DEF Clear
<1>2. /\ data \in Seq(EntryType) /\ hash \in [Keys -> Nat] /\ offsets \in Seq(OffsetType) /\ staleRows \in Nat
      /\ generation \in Nat /\ clock \in Nat /\ merge = Idle
  BY <1>1, ClockIsNat DEF TableInv, TypeInv
<1>3. \/ data = <<>> /\ UNCHANGED table
      \/ data' = <<>> /\ hash' = [k \in Keys |-> 0] /\ offsets' = <<>> /\ staleRows' = 0 /\ generation' = generation + 1
  BY DEF Clear
<1>4. data' \in Seq(EntryType) /\ hash' \in [Keys -> Nat] /\ offsets' \in Seq(OffsetType) /\ staleRows' \in Nat /\ generation' \in Nat
  <2>1. CASE UNCHANGED table
    BY <1>2, <2>1 DEF table
  <2>2. CASE data' = <<>> /\ hash' = [k \in Keys |-> 0] /\ offsets' = <<>> /\ staleRows' = 0 /\ generation' = generation + 1
    <3>1. <<>> \in Seq(EntryType) /\ <<>> \in Seq(OffsetType) /\ [k \in Keys |-> 0] \in [Keys -> Nat]
      OBVIOUS
    <3> QED
      BY <1>2, <2>2, <3>1
  <2> QED
    BY <1>3, <2>1, <2>2
<1>5. TypeInv'
  BY <1>1, <1>4 DEF TableInv, TypeInv, MergeType, Shards, Idle
<1>6. CurrentInv'
  <2>1. \A s \in Shards : Current(queue'[s])
    BY <1>1, NothingStaged
  <2>2. \A w \in Writers : \A s \in Shards : Current(buffers'[w].rows[s])
    BY <1>1 DEF TableInv, CurrentInv
  <2> QED
    BY <1>1, <2>1, <2>2 DEF CurrentInv, Current, Shards
<1>7. StagedInv'
  BY <1>1 DEF TableInv, StagedInv, Shards
<1>8. Linked(data, hash)' /\ StaleInv' /\ OffsetInv'
  <2>1. CASE UNCHANGED table
    BY <1>1, <2>1 DEF TableInv, StaleInv, OffsetInv, NextRow, table
  <2>2. CASE data' = <<>> /\ hash' = [k \in Keys |-> 0] /\ offsets' = <<>> /\ staleRows' = 0
    <3>1. /\ Linked(<<>>, [k \in Keys |-> 0]) /\ StaleIn(<<>>) = 0 /\ Sorted(<<>>, clock)
          /\ Placed(<<>>, <<>>, clock) /\ Listed(<<>>, <<>>, 1) /\ Len(<<>>) + 1 = 1
      BY <1>2, EmptyTable
    <3>2. merge'.phase = "idle"
      BY <1>1
    <3>3. Linked(data', hash')
      BY <2>2, <3>1
    <3>4. StaleIn(data') = 0
      BY <2>2, <3>1
    <3>5. Sorted(data', clock') /\ Placed(data', offsets', clock') /\ Listed(data', offsets', Len(data') + 1)
      BY <1>1, <2>2, <3>1
    <3> QED
      BY <2>2, <3>2, <3>3, <3>4, <3>5 DEF StaleInv, OffsetInv, NextRow
  <2> QED
    BY <1>3, <2>1, <2>2
<1>9. IndexInv'
  <2>1. index' \in [updated : BOOLEAN, major : Nat, minor : Nat, entries : SUBSET (Values \X Nat)]
        /\ ~index'.updated /\ index'.major = index.major /\ index'.minor = index.minor /\ index'.entries = index.entries
        /\ index.major \in Nat /\ index.major <= generation
    BY <1>1 DEF TableInv, IndexInv
  <2>2. CASE data = <<>> /\ UNCHANGED table
    <3>1. generation' = generation /\ data' = data
      BY <2>2 DEF table
    <3> QED
      BY <2>1, <3>1 DEF TableInv, IndexInv, Finds
  <2>3. CASE generation' = generation + 1
    BY <1>2, <2>1, <2>3 DEF IndexInv
  <2> QED
    BY <1>3, <2>2, <2>3
<1> QED
  BY <1>5, <1>6, <1>7, <1>8, <1>9 DEF TableInv

\* A step of a merge that only moves its phase.
LEMMA PhaseKeeps ==
  ASSUME TableInv, UNCHANGED <<table, inbox, index>>, merge' \in MergeType, merge'.phase \notin {"idle", "parallel"},
         merge.phase # "parallel", merge'.phase = "delete" => merge'.stale = 0 /\ merge'.ts = 0,
         \A s \in Shards : merge'.staged[s] = <<>> \/ merge'.staged[s] = merge.staged[s]
  PROVE  TableInv'
<1>1. data' = data /\ hash' = hash /\ offsets' = offsets /\ staleRows' = staleRows /\ generation' = generation
      /\ queue' = queue /\ removals' = removals /\ buffers' = buffers /\ clock' = clock /\ index' = index
  BY DEF table, inbox
<1>2. TypeInv'
  BY <1>1 DEF TableInv, TypeInv, MergeType, Shards, Idle
<1>3. CurrentInv'
  BY <1>1 DEF TableInv, CurrentInv, Current, Shards
<1>4. StagedInv'
  <2> SUFFICES ASSUME NEW s \in Shards PROVE UniqueKeys(merge'.staged[s]) /\ Fresh(merge'.staged[s], clock)
    BY <1>1 DEF StagedInv, Shards
  <2>1. CASE merge'.staged[s] = <<>>
    BY <2>1 DEF UniqueKeys, Fresh
  <2>2. CASE merge'.staged[s] = merge.staged[s]
    BY <2>2 DEF TableInv, StagedInv
  <2> QED
    BY <2>1, <2>2
<1>5. Linked(data, hash)' /\ StaleInv'
  BY <1>1 DEF TableInv, StaleInv
<1>6. OffsetInv' /\ IndexInv'
  BY <1>1 DEF TableInv, OffsetInv, IndexInv, NextRow
<1> QED
  BY <1>2, <1>3, <1>4, <1>5, <1>6 DEF TableInv

\* A merge starts without touching the table.
LEMMA StartMergeKeeps ==
  ASSUME TableInv, StartMerge
  PROVE  TableInv'
<1> DEFINE owed == [s \in Shards |-> Len(queue[s])]
<1>1. owed \in [Shards -> Nat]
  BY DEF TableInv, TypeInv
<1>2. merge.phase = "idle" /\ UNCHANGED <<table, inbox, index>> /\ merge' = [Idle EXCEPT !.phase = "delete", !.owed = owed]
  BY DEF StartMerge
<1> HIDE DEF owed
<1>3. /\ merge' \in MergeType /\ merge'.phase = "delete" /\ merge'.stale = Idle.stale /\ merge'.ts = Idle.ts
      /\ merge'.staged = Idle.staged
  BY <1>1, <1>2, IdleFacts DEF MergeType
<1>4. merge'.stale = 0 /\ merge'.ts = 0 /\ \A s \in Shards : merge'.staged[s] = <<>>
  BY <1>3, IdleFacts
<1> QED
  BY <1>2, <1>3, <1>4, PhaseKeeps

\* The serial insert goes on to the next shard, or ends.
LEMMA NextShardKeeps ==
  ASSUME TableInv, NextShard
  PROVE  TableInv'
<1>1. merge \in MergeType /\ merge.phase = "serial"
  BY DEF TableInv, TypeInv, NextShard
<1>2. UNCHANGED <<table, inbox, index>>
  BY DEF NextShard
<1>3. merge' = [merge EXCEPT !.shard = @ + 1] \/ merge' = [merge EXCEPT !.phase = "rehash"]
  BY DEF NextShard
<1>4. merge' \in MergeType /\ merge'.phase \in {"serial", "rehash"} /\ merge'.staged = merge.staged
  <2>1. CASE merge' = [merge EXCEPT !.shard = @ + 1]
    <3> DEFINE n == merge.shard + 1
    <3>1. n \in Nat
      BY <1>1 DEF MergeType
    <3>2. merge' = [merge EXCEPT !.shard = n]
      BY <2>1
    <3> HIDE DEF n
    <3> QED
      BY <1>1, <3>1, <3>2 DEF MergeType
  <2>2. CASE merge' = [merge EXCEPT !.phase = "rehash"]
    BY <1>1, <2>2 DEF MergeType
  <2> QED
    BY <1>3, <2>1, <2>2
<1> QED
  BY <1>1, <1>2, <1>4, PhaseKeeps

\* While a merge appends rows and marks others stale the cached index stays what it was.
LEMMA IndexKept ==
  ASSUME TableInv, Extends(data, data'), generation' = generation, index' = index, merge'.phase # "idle"
  PROVE  IndexInv'
<1>1. data \in Seq(EntryType)
  BY DEF TableInv, TypeInv
<1>2. index \in [updated : BOOLEAN, major : Nat, minor : Nat, entries : SUBSET (Values \X Nat)]
  BY DEF TableInv, IndexInv
<1>3. Finds(index, data) => Finds(index, data')
  <2>1. PICK x : x = index
    OBVIOUS
  <2>2. x.minor \in Nat
    BY <1>2, <2>1
  <2>3. PICK d : d = data
    OBVIOUS
  <2>4. PICK c : c = data'
    OBVIOUS
  <2>5. Finds(x, d) => Finds(x, c)
    BY <1>1, <2>2, <2>3, <2>4, StillFinds
  <2> QED
    BY <2>1, <2>3, <2>4, <2>5
<1> QED
  BY <1>2, <1>3 DEF TableInv, IndexInv

\* Removals unlink keys and mark their rows as stale, each counted once.
LEMMA DeleteKeeps ==
  ASSUME TableInv, Delete
  PROVE  TableInv' /\ Extends(data, data')
<1> DEFINE gone == {hash[k] : k \in removals} \ {0}
<1>1. /\ merge.phase = "delete" /\ data' = Retired(data, gone) /\ staleRows' = staleRows + Cardinality(gone)
      /\ hash' = [k \in Keys |-> IF k \in removals THEN 0 ELSE hash[k]] /\ removals' = {}
      /\ UNCHANGED <<offsets, generation, queue, buffers, clock, index>>
  BY DEF Delete
<1>2. PICK path \in {"serial", "parallel"} :
        merge' = [merge EXCEPT !.phase = path, !.shard = 1, !.working = Shards, !.start = NextRow]
  BY DEF Delete
<1>3. /\ data \in Seq(EntryType) /\ hash \in [Keys -> Nat] /\ offsets \in Seq(OffsetType) /\ staleRows \in Nat
      /\ removals \in SUBSET Keys /\ merge \in MergeType /\ clock \in Nat /\ Linked(data, hash)
      /\ merge.stale = 0 /\ merge.ts = 0 /\ StaleIn(data) = staleRows
      /\ Sorted(data, clock) /\ Placed(data, offsets, clock) /\ Listed(data, offsets, NextRow)
  BY <1>1, ClockIsNat DEF TableInv, TypeInv, StaleInv, OffsetInv
<1>4. Len(data) \in Nat /\ NextRow \in Nat /\ NextRow = Len(data) + 1
  BY <1>3 DEF NextRow
<1>5. /\ merge' \in MergeType /\ merge'.phase = path /\ merge'.start = NextRow /\ merge'.ts = 0 /\ merge'.stale = 0
      /\ merge'.staged = merge.staged
  BY <1>2, <1>3, <1>4 DEF MergeType
<1>6. /\ Linked(data', hash') /\ Extends(data, data')
      /\ StaleIn(data') = StaleIn(data) + Cardinality(gone) /\ Len(data') = Len(data) /\ Cardinality(gone) \in Nat
  <2>1. PICK d \in Seq(EntryType) : d = data
    BY <1>3
  <2>2. PICK h \in [Keys -> Nat] : h = hash
    BY <1>3
  <2>3. PICK ks \in SUBSET Keys : ks = removals
    BY <1>3
  <2> DEFINE lost == {h[k] : k \in ks} \ {0}
  <2>4. lost = gone
    BY <2>2, <2>3
  <2>5. Linked(d, h)
    BY <1>3, <2>1, <2>2
  <2>6. /\ Linked(Retired(d, lost), [k \in Keys |-> IF k \in ks THEN 0 ELSE h[k]])
        /\ Extends(d, Retired(d, lost)) /\ StaleIn(Retired(d, lost)) = StaleIn(d) + Cardinality(lost)
        /\ Len(Retired(d, lost)) = Len(d) /\ Cardinality(lost) \in Nat
    BY <2>5, Removed, Zenon
  <2> HIDE DEF lost, gone
  <2> QED
    BY <1>1, <2>1, <2>2, <2>3, <2>4, <2>6
<1> HIDE DEF gone
<1>7. data' \in Seq(EntryType)
  BY <1>6 DEF Extends
<1>8. TypeInv'
  <2>1. hash' \in [Keys -> Nat]
    BY <1>1, <1>3
  <2>2. staleRows' \in Nat
    BY <1>1, <1>3, <1>6
  <2> QED
    BY <1>1, <1>2, <1>5, <1>7, <2>1, <2>2 DEF TableInv, TypeInv, MergeType, Shards
<1>9. CurrentInv' /\ StagedInv'
  BY <1>1, <1>5 DEF TableInv, CurrentInv, StagedInv, Current, Shards
<1>10. StaleInv'
  BY <1>1, <1>3, <1>5, <1>6 DEF StaleInv
<1>11. OffsetInv'
  <2>1. \A i \in 1..Len(data') : i \in 1..Len(data)
    BY <1>6
  <2>2. Sorted(data', clock) /\ Placed(data', offsets, clock)
    BY <1>3, <1>6, <2>1, StillPlaced
  <2>3. Listed(data', offsets, NextRow)
    <3>1. NextRow \in 1..(Len(data) + 1)
      BY <1>4
    <3> QED
      BY <1>3, <1>6, <3>1, StillListed
  <2>4. NextRow' = NextRow
    BY <1>6 DEF NextRow
  <2>5. \A i \in 1..Len(data') : ~(NextRow <= i)
    BY <1>4, <2>1
  <2>6. NextRow \in 1..NextRow
    BY <1>4
  <2> QED
    BY <1>1, <1>5, <2>2, <2>3, <2>4, <2>5, <2>6 DEF OffsetInv
<1>12. IndexInv'
  BY <1>1, <1>2, <1>5, <1>6, IndexKept
<1> QED
  BY <1>6, <1>8, <1>9, <1>10, <1>11, <1>12 DEF TableInv

\* When all tasks are done their rows get an offset and their stale rows are counted.
LEMMA JoinTasksKeeps ==
  ASSUME TableInv, JoinTasks
  PROVE  TableInv'
<1>1. /\ merge.phase = "parallel" /\ offsets' = IF merge.ts = 0 THEN offsets ELSE Entered(merge.ts, merge.start)
      /\ staleRows' = staleRows + merge.stale /\ merge' = [merge EXCEPT !.phase = "rehash"]
      /\ UNCHANGED <<data, hash, generation, queue, removals, buffers, clock, index>>
  BY DEF JoinTasks, inbox
<1>2. /\ data \in Seq(EntryType) /\ offsets \in Seq(OffsetType) /\ staleRows \in Nat /\ merge \in MergeType
      /\ clock \in Nat /\ clock >= 1 /\ StaleIn(data) = staleRows + merge.stale
      /\ Sorted(data, clock) /\ Placed(data, offsets, clock) /\ Listed(data, offsets, merge.start)
      /\ merge.start \in 1..NextRow /\ merge.ts \in {0, clock}
      /\ \A i \in 1..Len(data) : data[i].live /\ merge.start <= i => data[i].row.ts = merge.ts
  BY <1>1, ClockIsNat DEF TableInv, TypeInv, StaleInv, OffsetInv
<1>3. merge' \in MergeType /\ merge'.phase = "rehash" /\ merge'.staged = merge.staged /\ merge.stale \in Nat
  BY <1>1, <1>2 DEF MergeType
<1>4. offsets' \in Seq(OffsetType) /\ Placed(data, offsets', clock) /\ Listed(data, offsets', Len(data) + 1)
  <2>1. CASE merge.ts = 0
    <3>1. \A i \in 1..Len(data) : data[i].row.ts # 0
      <4>1. \A i \in 1..Len(data) : data[i] \in EntryType
        BY <1>2
      <4>2. \A e \in EntryType : e.row.ts # 0
        BY MaxTsPositive DEF EntryType, Row, Timestamps
      <4> QED
        BY <4>1, <4>2
    <3>2. \A i \in 1..Len(data) : data[i].live => i < merge.start
      <4>1. merge.start \in Nat
        BY <1>2 DEF NextRow
      <4> QED
        BY <1>2, <2>1, <3>1, <4>1
    <3>3. Listed(data, offsets, Len(data) + 1)
      BY <1>2, <3>2 DEF Listed
    <3> QED
      BY <1>1, <1>2, <2>1, <3>3
  <2>2. CASE merge.ts # 0
    <3>1. merge.ts = clock
      BY <1>2, <2>2
    <3>2. PICK d \in Seq(EntryType) : d = data
      BY <1>2
    <3>3. PICK o \in Seq(OffsetType) : o = offsets
      BY <1>2
    <3>4. PICK u \in Nat : u = clock
      BY <1>2
    <3>5. PICK at \in 1..(Len(d) + 1) : at = merge.start
      BY <1>2, <3>2 DEF NextRow
    <3> DEFINE p == IF o = <<>> \/ u > Last(o).ts THEN Append(o, [ts |-> u, first |-> at]) ELSE o
    <3>6. Sorted(d, u) /\ Placed(d, o, u) /\ Listed(d, o, at)
          /\ \A i \in 1..Len(d) : d[i].live /\ at <= i => d[i].row.ts = u
      BY <1>2, <3>1, <3>2, <3>3, <3>4, <3>5
    <3>7. p \in Seq(OffsetType) /\ Placed(d, p, u) /\ Listed(d, p, Len(d) + 1)
      BY <3>6, Enter, Zenon
    <3>8. offsets' = p
      BY <1>1, <2>2, <3>1, <3>3, <3>4, <3>5 DEF Entered
    <3> HIDE DEF p
    <3> QED
      BY <3>2, <3>4, <3>7, <3>8
  <2> QED
    BY <2>1, <2>2
<1>5. TypeInv'
  <2>1. staleRows' \in Nat
    BY <1>1, <1>2, <1>3
  <2> QED
    BY <1>1, <1>3, <1>4, <2>1 DEF TableInv, TypeInv, MergeType, Shards
<1>6. CurrentInv' /\ StagedInv' /\ Linked(data, hash)'
  BY <1>1, <1>3 DEF TableInv, CurrentInv, StagedInv, Current, Shards
<1>7. StaleInv'
  BY <1>1, <1>2, <1>3 DEF StaleInv
<1>8. OffsetInv'
  BY <1>1, <1>2, <1>3, <1>4 DEF OffsetInv, NextRow
<1>9. IndexInv'
  BY <1>1, <1>3 DEF TableInv, IndexInv
<1> QED
  BY <1>5, <1>6, <1>7, <1>8, <1>9 DEF TableInv

\* A refresh finds every live row, from scratch when rows were renumbered.
LEMMA RefreshIndexKeeps ==
  ASSUME TableInv, RefreshIndex
  PROVE  TableInv'
<1> DEFINE full == index.major # generation
           new  == {i \in LiveRows : full \/ i > index.minor}
           kept == IF full THEN {} ELSE index.entries
           all  == kept \union {<<data[i].row.val, i>> : i \in new}
<1>1. /\ merge.phase = "idle" /\ UNCHANGED <<table, inbox, merge>>
      /\ index' = [updated |-> TRUE, major |-> generation, minor |-> Len(data), entries |-> all]
  BY DEF RefreshIndex
<1>2. data' = data /\ hash' = hash /\ offsets' = offsets /\ staleRows' = staleRows /\ generation' = generation
      /\ queue' = queue /\ removals' = removals /\ buffers' = buffers /\ clock' = clock /\ merge' = merge
  BY <1>1 DEF table, inbox
<1>3. TypeInv' /\ CurrentInv' /\ StagedInv'
  BY <1>2 DEF TableInv, TypeInv, CurrentInv, StagedInv, Current, MergeType, Shards, Idle
<1>4. Linked(data, hash)' /\ StaleInv' /\ OffsetInv'
  BY <1>2 DEF TableInv, StaleInv, OffsetInv, NextRow
<1>5. Len(data) \in Nat /\ DOMAIN data = 1..Len(data) /\ \A i \in 1..Len(data) : data[i].row.val \in Values
  <2>1. data \in Seq(EntryType)
    BY DEF TableInv, TypeInv
  <2>2. \A i \in 1..Len(data) : data[i] \in EntryType
    BY <2>1
  <2>3. \A e \in EntryType : e.row.val \in Values
    BY DEF EntryType, Row
  <2> QED
    BY <2>1, <2>2, <2>3
<1>6. \A i \in new : i \in 1..Len(data) /\ data[i].live
  BY <1>5 DEF LiveRows
<1>7. /\ index \in [updated : BOOLEAN, major : Nat, minor : Nat, entries : SUBSET (Values \X Nat)]
      /\ generation \in Nat
  BY DEF TableInv, IndexInv, TypeInv
<1>8. kept \in SUBSET (Values \X Nat) /\ (kept # {} => Finds(index, data)) /\ index.minor \in Nat
      /\ (~full => Finds(index, data) /\ kept = index.entries)
  BY <1>7 DEF TableInv, IndexInv
<1>9. ASSUME NEW e \in all PROVE e \in Values \X Nat /\ e[2] \in 1..Len(data) /\ e[1] = data[e[2]].row.val
  <2>1. CASE e \in kept
    <3>1. e \in index.entries /\ Finds(index, data)
      BY <1>8, <2>1
    <3>2. e[2] \in 1..index.minor /\ e[1] = data[e[2]].row.val /\ index.minor <= Len(data)
      BY <3>1 DEF Finds
    <3> QED
      BY <1>5, <1>8, <2>1, <3>2
  <2>2. CASE e \in {<<data[i].row.val, i>> : i \in new}
    <3>1. PICK i \in new : e = <<data[i].row.val, i>>
      BY <2>2
    <3>2. e[1] = data[i].row.val /\ e[2] = i /\ i \in 1..Len(data) /\ data[i].row.val \in Values
      BY <1>5, <1>6, <3>1
    <3> QED
      BY <1>5, <3>1, <3>2
  <2> QED
    BY <2>1, <2>2
<1>10. ASSUME NEW i \in 1..Len(data), data[i].live PROVE <<data[i].row.val, i>> \in all
  <2>1. CASE full \/ i > index.minor
    <3>1. i \in new
      BY <1>5, <1>10, <2>1 DEF LiveRows
    <3> QED
      BY <3>1
  <2>2. CASE ~(full \/ i > index.minor)
    <3>1. i \in 1..index.minor
      BY <1>5, <1>8, <2>2
    <3>2. <<data[i].row.val, i>> \in index.entries
      BY <1>8, <1>10, <2>2, <3>1 DEF Finds
    <3> QED
      BY <1>8, <2>2, <3>2
  <2> QED
    BY <2>1, <2>2
<1> HIDE DEF all, kept, new, full
<1>11. IndexInv'
  <2>1. all \in SUBSET (Values \X Nat)
    BY <1>9
  <2>2. index'.entries = all /\ index'.minor = Len(data) /\ index'.major = generation
        /\ index' \in [updated : BOOLEAN, major : Nat, minor : Nat, entries : SUBSET (Values \X Nat)]
    BY <1>1, <1>5, <1>7, <2>1
  <2>3. Finds(index', data)
    BY <1>5, <1>9, <1>10, <2>2 DEF Finds
  <2> QED
    BY <1>2, <1>7, <2>2, <2>3 DEF IndexInv
<1> QED
  BY <1>3, <1>4, <1>11 DEF TableInv

\* The serial path takes a row of the current timestamp from a queue.
LEMMA Popped ==
  ASSUME TableInv, NEW s \in Shards, queue[s] # <<>>, Pop(s)
  PROVE  /\ Head(queue[s]) \in Row /\ Head(queue[s]).ts = clock
         /\ queue' \in [Shards -> Seq(Row)]
         /\ \A z \in Shards : Current(queue'[z])
         /\ OwedAfterPop(s) \in [Shards -> Nat]
<1>1. queue \in [Shards -> Seq(Row)] /\ merge \in MergeType
  BY DEF TableInv, TypeInv
<1>2. PICK q \in Seq(Row) : q = queue[s]
  BY <1>1
<1>3. \A n \in 1..Len(q) : q[n].ts = clock
  BY <1>2 DEF TableInv, CurrentInv, Current
<1>4. Head(q) = q[1] /\ 1 \in 1..Len(q) /\ q[1] \in Row
  BY <1>2
<1>5. Tail(q) \in Seq(Row) /\ \A n \in 1..Len(Tail(q)) : n + 1 \in 1..Len(q) /\ Tail(q)[n] = q[n + 1]
  BY <1>2
<1>6. Current(Tail(q))
  BY <1>3, <1>5 DEF Current
<1>7. queue' = [queue EXCEPT ![s] = Tail(q)]
  BY <1>2 DEF Pop
<1>8. queue' \in [Shards -> Seq(Row)] /\ \A z \in Shards : queue'[z] = IF z = s THEN Tail(q) ELSE queue[z]
  BY <1>1, <1>5, <1>7
<1>9. \A z \in Shards : Current(queue'[z])
  BY <1>6, <1>8 DEF TableInv, CurrentInv
<1>10. OwedAfterPop(s) \in [Shards -> Nat]
  <2>1. merge.owed \in [Shards -> Nat]
    BY <1>1 DEF MergeType
  <2> QED
    BY <2>1 DEF OwedAfterPop
<1> QED
  BY <1>2, <1>3, <1>4, <1>8, <1>9, <1>10

\* The serial path writes row e, over the row of its key or over none.
Writes(s, e) ==
  /\ Serial(s)
  /\ e.ts = clock
  /\ data' = Retired(data, {hash[e.key]} \ {0}) \o <<Entry(e)>>
  /\ hash' = [hash EXCEPT ![e.key] = NextRow]
  /\ offsets' = Entered(clock, NextRow)
  /\ staleRows' = staleRows + (IF hash[e.key] = 0 THEN 0 ELSE 1)
  /\ merge' = [merge EXCEPT !.added = TRUE, !.owed = OwedAfterPop(s)]

\* What it writes keeps the table in order.
LEMMA SerialKeeps ==
  ASSUME TableInv, NEW s \in Shards, NEW e \in Row, Writes(s, e)
  PROVE  TableInv' /\ Extends(data, data')
<1>1. /\ merge.phase = "serial" /\ queue[s] # <<>> /\ Pop(s)
      /\ UNCHANGED <<generation, removals, buffers, clock, ops, index>>
  BY DEF Serial, Writes
<1>2. /\ data \in Seq(EntryType) /\ hash \in [Keys -> Nat] /\ offsets \in Seq(OffsetType) /\ staleRows \in Nat
      /\ merge \in MergeType /\ clock \in Nat /\ Linked(data, hash) /\ StaleIn(data) = staleRows
      /\ Sorted(data, clock) /\ Placed(data, offsets, clock) /\ Listed(data, offsets, NextRow)
  BY <1>1, ClockIsNat DEF TableInv, TypeInv, StaleInv, OffsetInv
<1>3. queue' \in [Shards -> Seq(Row)] /\ (\A z \in Shards : Current(queue'[z])) /\ OwedAfterPop(s) \in [Shards -> Nat]
  BY <1>1, Popped
<1>4. merge' \in MergeType /\ merge'.phase = "serial" /\ merge'.staged = merge.staged
  <2>1. PICK owed \in [Shards -> Nat] : owed = OwedAfterPop(s)
    BY <1>3
  <2>2. merge' = [merge EXCEPT !.added = TRUE, !.owed = owed]
    BY <2>1 DEF Writes
  <2> QED
    BY <1>1, <1>2, <2>2 DEF MergeType
<1>5. /\ data' \in Seq(EntryType) /\ hash' \in [Keys -> Nat] /\ offsets' \in Seq(OffsetType)
      /\ Linked(data', hash') /\ Extends(data, data')
      /\ StaleIn(data') = StaleIn(data) + (IF hash[e.key] = 0 THEN 0 ELSE 1)
      /\ Sorted(data', clock) /\ Placed(data', offsets', clock) /\ Listed(data', offsets', Len(data') + 1)
  <2>1. PICK d \in Seq(EntryType) : d = data
    BY <1>2
  <2>2. PICK h \in [Keys -> Nat] : h = hash
    BY <1>2
  <2>3. PICK o \in Seq(OffsetType) : o = offsets
    BY <1>2
  <2>4. PICK t \in Nat : t = clock
    BY <1>2
  <2>5. PICK x \in Row : x = e
    OBVIOUS
  <2>6. InOrder(d, h, o, t) /\ x.ts = t
    BY <1>2, <2>1, <2>2, <2>3, <2>4, <2>5 DEF NextRow, Writes, InOrder
  <2>7. PICK c : c = data'
    OBVIOUS
  <2>8. PICK g : g = hash'
    OBVIOUS
  <2>9. PICK p : p = offsets'
    OBVIOUS
  <2>10. Makes(d, h, o, t, x, c, g, p)
    BY <2>1, <2>2, <2>3, <2>4, <2>5, <2>7, <2>8, <2>9, Zenon DEF Makes, Writes, NextRow, Entered
  <2>11. /\ c \in Seq(EntryType) /\ g \in [Keys -> Nat] /\ p \in Seq(OffsetType)
         /\ Extends(d, c) /\ InOrder(c, g, p, t)
         /\ StaleIn(c) = StaleIn(d) + (IF h[x.key] = 0 THEN 0 ELSE 1)
    BY <2>6, <2>10, Inserted
  <2> QED
    BY <2>1, <2>2, <2>4, <2>5, <2>7, <2>8, <2>9, <2>11 DEF InOrder
<1>6. TypeInv'
  <2>1. staleRows' \in Nat
    BY <1>2 DEF Writes
  <2> QED
    BY <1>1, <1>3, <1>4, <1>5, <2>1 DEF TableInv, TypeInv, MergeType, Shards
<1>7. CurrentInv' /\ StagedInv'
  BY <1>1, <1>3, <1>4 DEF TableInv, CurrentInv, StagedInv, Current, Shards
<1>8. StaleInv' /\ OffsetInv'
  <2>4. PICK m \in {0, 1} : m = IF hash[e.key] = 0 THEN 0 ELSE 1
    OBVIOUS
  <2>5. StaleIn(data') = StaleIn(data) + m
    BY <1>5, <2>4
  <2>6. staleRows' = staleRows + m
    BY <2>4 DEF Writes
  <2>7. StaleIn(data) = staleRows /\ staleRows \in Nat
    BY <1>2
  <2>8. PICK a : a = StaleIn(data')
    OBVIOUS
  <2>1. a = staleRows' /\ staleRows' \in Nat
    BY <2>5, <2>6, <2>7, <2>8
  <2>3. StaleInv'
    BY <1>4, <2>1, <2>8 DEF StaleInv
  <2>2. OffsetInv'
    BY <1>1, <1>4, <1>5 DEF OffsetInv, NextRow
  <2> QED
    BY <2>2, <2>3
<1>9. IndexInv'
  BY <1>1, <1>4, <1>5, IndexKept
<1> QED
  BY <1>5, <1>6, <1>7, <1>8, <1>9 DEF TableInv

\* A lookup of a key that has a row gives a row.
LEMMA LookupIsRow ==
  ASSUME TableInv, NEW k \in Keys
  PROVE  /\ hash[k] = 0 => Lookup(k) = NoRow
         /\ hash[k] # 0 => Lookup(k) = data[hash[k]].row /\ Lookup(k) \in Row /\ hash[k] \in 1..Len(data)
<1>1. data \in Seq(EntryType) /\ Linked(data, hash)
  BY DEF TableInv, TypeInv
<1>2. hash[k] # 0 => hash[k] \in 1..Len(data)
  BY <1>1 DEF Linked
<1>3. \A i \in 1..Len(data) : data[i] \in EntryType
  BY <1>1
<1>4. \A i \in 1..Len(data) : data[i].row \in Row
  BY <1>3 DEF EntryType
<1> QED
  BY <1>2, <1>4 DEF Lookup

\* A row of a new key is appended and linked.
LEMMA InsertNewKeeps ==
  ASSUME TableInv, NEW s \in Shards, InsertNew(s)
  PROVE  TableInv' /\ Extends(data, data')
<1>1. Serial(s) /\ hash[Head(queue[s]).key] = 0 /\ data' = Append(data, Entry(Head(queue[s])))
      /\ hash' = [hash EXCEPT ![Head(queue[s]).key] = NextRow]
      /\ offsets' = Entered(Head(queue[s]).ts, NextRow)
      /\ merge' = [merge EXCEPT !.added = TRUE, !.owed = OwedAfterPop(s)] /\ staleRows' = staleRows
  BY DEF InsertNew
<1>2. PICK e : e = Head(queue[s])
  OBVIOUS
<1>3. e \in Row /\ e.ts = clock
  BY <1>1, <1>2, Popped DEF Serial
<1>4. data \in Seq(EntryType) /\ staleRows \in Nat
  BY DEF TableInv, TypeInv
<1>5. data' = Retired(data, {hash[e.key]} \ {0}) \o <<Entry(e)>>
  <2>1. {hash[e.key]} \ {0} = {}
    BY <1>1, <1>2
  <2>2. PICK d \in Seq(EntryType) : d = data
    BY <1>4
  <2>3. Retired(d, {}) = d
    BY RetiredNone
  <2>4. Append(d, Entry(e)) = d \o <<Entry(e)>>
    BY <1>3, OneRow
  <2> QED
    BY <1>1, <1>2, <2>1, <2>2, <2>3, <2>4
<1>6. Writes(s, e)
  <2>1. staleRows' = staleRows + (IF hash[e.key] = 0 THEN 0 ELSE 1)
    BY <1>1, <1>2, <1>4
  <2>2. hash' = [hash EXCEPT ![e.key] = NextRow]
    BY <1>1, <1>2
  <2>3. offsets' = Entered(clock, NextRow)
    BY <1>1, <1>2, <1>3
  <2> QED
    BY <1>1, <1>3, <1>5, <2>1, <2>2, <2>3, Zenon DEF Writes
<1> QED
  BY <1>3, <1>6, SerialKeeps

\* A row that the merge function changed is appended in the place of the old one.
LEMMA InsertMergedKeeps ==
  ASSUME TableInv, NEW s \in Shards, InsertMerged(s)
  PROVE  TableInv' /\ Extends(data, data')
<1> DEFINE row == Head(queue[s])
           cur == Lookup(row.key)
           new == Applied(cur, row)
<1>1. Serial(s) /\ hash[row.key] # 0 /\ new # cur /\ data' = Append(Retired(data, {hash[row.key]}), Entry(new))
      /\ hash' = [hash EXCEPT ![row.key] = NextRow]
      /\ offsets' = Entered(row.ts, NextRow)
      /\ merge' = [merge EXCEPT !.added = TRUE, !.owed = OwedAfterPop(s)] /\ staleRows' = staleRows + 1
  BY DEF InsertMerged
<1>2. row \in Row /\ row.ts = clock /\ row.key \in Keys
  BY <1>1, Popped DEF Serial, Row
<1>3. cur \in Row
  BY <1>1, <1>2, LookupIsRow
<1>4. new \in Row /\ new.key = row.key /\ new.ts = row.ts
  BY <1>1, <1>2, <1>3, AppliedFacts
<1>5. data \in Seq(EntryType) /\ staleRows \in Nat
  BY DEF TableInv, TypeInv
<1> HIDE DEF row, cur, new
<1>6. PICK e \in Row : e = new
  BY <1>4
<1>7. data' = Retired(data, {hash[e.key]} \ {0}) \o <<Entry(e)>>
  <2>1. {hash[e.key]} \ {0} = {hash[row.key]}
    BY <1>1, <1>4, <1>6
  <2>2. PICK d \in Seq(EntryType) : d = data
    BY <1>5
  <2>3. PICK old : old = {hash[row.key]}
    OBVIOUS
  <2>4. Retired(d, old) \in Seq(EntryType)
    BY RetiredFacts
  <2>5. Append(Retired(d, old), Entry(e)) = Retired(d, old) \o <<Entry(e)>>
    BY <2>4, OneRow
  <2> QED
    BY <1>1, <1>6, <2>1, <2>2, <2>3, <2>5
<1>8. Writes(s, e)
  BY <1>1, <1>2, <1>4, <1>5, <1>6, <1>7 DEF Writes
<1> QED
  BY <1>8, SerialKeeps

\* A row that changes nothing is dropped.
LEMMA InsertUnchangedKeeps ==
  ASSUME TableInv, NEW s \in Shards, InsertUnchanged(s)
  PROVE  TableInv'
<1>1. /\ merge.phase = "serial" /\ queue[s] # <<>> /\ Pop(s)
      /\ UNCHANGED <<data, hash, offsets, staleRows, generation, removals, buffers, clock, index>>
      /\ merge' = [merge EXCEPT !.owed = OwedAfterPop(s)]
  BY DEF Serial, InsertUnchanged
<1>2. queue' \in [Shards -> Seq(Row)] /\ (\A z \in Shards : Current(queue'[z])) /\ OwedAfterPop(s) \in [Shards -> Nat]
  BY <1>1, Popped
<1>3. merge' \in MergeType /\ merge'.phase = "serial" /\ merge'.staged = merge.staged
  <2>1. PICK owed \in [Shards -> Nat] : owed = OwedAfterPop(s)
    BY <1>2
  <2>2. merge' = [merge EXCEPT !.owed = owed] /\ merge \in MergeType
    BY <1>1, <2>1 DEF TableInv, TypeInv
  <2> QED
    BY <1>1, <2>2 DEF MergeType
<1>4. TypeInv'
  BY <1>1, <1>2, <1>3 DEF TableInv, TypeInv, MergeType, Shards
<1>5. CurrentInv' /\ StagedInv'
  BY <1>1, <1>2, <1>3 DEF TableInv, CurrentInv, StagedInv, Current, Shards
<1>6. Linked(data, hash)' /\ StaleInv' /\ OffsetInv' /\ IndexInv'
  BY <1>1, <1>3 DEF TableInv, StaleInv, OffsetInv, IndexInv, NextRow
<1> QED
  BY <1>4, <1>5, <1>6 DEF TableInv

\* StagedOutputs::insert leaves at most one live row of the current timestamp for a key.
LEMMA GatherKeeps ==
  ASSUME TableInv, NEW s \in Shards, Gather(s)
  PROVE  TableInv'
<1> DEFINE row == Head(queue[s])
<1>1. /\ merge.phase = "parallel" /\ queue[s] # <<>> /\ Pop(s)
      /\ UNCHANGED <<table, removals, buffers, clock, index>>
      /\ merge' = [merge EXCEPT !.staged[s] = StagedWith(s, row), !.owed = OwedAfterPop(s)]
  BY DEF Gather
<1>2. queue' \in [Shards -> Seq(Row)] /\ (\A z \in Shards : Current(queue'[z])) /\ OwedAfterPop(s) \in [Shards -> Nat]
      /\ row \in Row /\ row.ts = clock
  BY <1>1, Popped
<1>3. merge \in MergeType /\ merge.staged \in [Shards -> Seq(EntryType)]
  BY DEF TableInv, TypeInv, MergeType
<1> HIDE DEF row
<1>4. PICK b \in Seq(EntryType) : b = merge.staged[s]
  BY <1>3
<1>5. UniqueKeys(b) /\ Fresh(b, clock)
  BY <1>4 DEF TableInv, StagedInv
<1>6. StagedWith(s, row) \in Seq(EntryType) /\ UniqueKeys(StagedWith(s, row)) /\ Fresh(StagedWith(s, row), clock)
  <2> DEFINE old == StagedAt(s, row.key)
             cur == IF old = {} THEN NoRow ELSE b[CHOOSE i \in old : TRUE].row
             new == Applied(cur, row)
  <2>1. StagedWith(s, row) = IF new = cur THEN b ELSE Append(Retired(b, old), Entry(new))
    BY <1>4 DEF StagedWith
  <2>2. old = {i \in 1..Len(b) : b[i].live /\ b[i].row.key = row.key}
    BY <1>4 DEF StagedAt
  <2> HIDE DEF old
  <2>3. cur \in Row \cup {NoRow}
    <3>1. CASE old = {}
      BY <3>1
    <3>2. CASE old # {}
      <4>1. PICK i \in old : i = CHOOSE j \in old : TRUE
        BY <3>2
      <4>2. i \in 1..Len(b)
        BY <2>2
      <4>3. b[i] \in EntryType
        BY <4>2
      <4>4. b[i].row \in Row
        BY <4>3 DEF EntryType
      <4> QED
        BY <3>2, <4>1, <4>4
    <3> QED
      BY <3>1, <3>2
  <2> HIDE DEF cur
  <2>4. PICK r \in Row : r = row
    BY <1>2
  <2>5. PICK c \in Row \cup {NoRow} : c = cur
    BY <2>3
  <2>6. CASE new = cur
    BY <1>5, <2>1, <2>6
  <2>7. CASE new # cur
    <3>1. Applied(c, r) \in Row /\ Applied(c, r).key = r.key /\ Applied(c, r).ts = r.ts
      BY <2>4, <2>5, <2>7, AppliedFacts
    <3>2. PICK e \in Row : e = new
      BY <2>4, <2>5, <3>1
    <3>3. e.key = row.key /\ e.ts = clock
      BY <1>2, <2>4, <2>5, <3>1, <3>2
    <3>4. PICK at : at = old
      OBVIOUS
    <3>5. PICK t : t = clock
      OBVIOUS
    <3>6. at = {i \in 1..Len(b) : b[i].live /\ b[i].row.key = e.key}
      BY <2>2, <3>3, <3>4
    <3> DEFINE z == Append(Retired(b, at), Entry(e))
    <3>7. z \in Seq(EntryType) /\ UniqueKeys(z) /\ Fresh(z, t)
      BY <1>5, <3>3, <3>5, <3>6, StagedOne
    <3>8. StagedWith(s, row) = z
      BY <2>1, <2>7, <3>2, <3>4
    <3> HIDE DEF z
    <3> QED
      BY <3>5, <3>7, <3>8
  <2> QED
    BY <2>6, <2>7
<1>7. PICK g \in Seq(EntryType) : g = StagedWith(s, row)
  BY <1>6
<1>8. PICK owed \in [Shards -> Nat] : owed = OwedAfterPop(s)
  BY <1>2
<1>9. /\ merge' \in MergeType /\ merge'.phase = "parallel" /\ merge'.staged = [merge.staged EXCEPT ![s] = g]
      /\ merge'.start = merge.start /\ merge'.ts = merge.ts /\ merge'.stale = merge.stale
  <2>1. merge' = [merge EXCEPT !.staged = [merge.staged EXCEPT ![s] = g], !.owed = owed]
    BY <1>1, <1>7, <1>8
  <2>2. [merge.staged EXCEPT ![s] = g] \in [Shards -> Seq(EntryType)]
    BY <1>3
  <2>3. PICK staged \in [Shards -> Seq(EntryType)] : staged = [merge.staged EXCEPT ![s] = g]
    BY <2>2
  <2>4. merge' = [merge EXCEPT !.staged = staged, !.owed = owed]
    BY <2>1, <2>3
  <2>5. merge' \in MergeType /\ merge'.phase = merge.phase /\ merge'.staged = staged
        /\ merge'.start = merge.start /\ merge'.ts = merge.ts /\ merge'.stale = merge.stale
    BY <1>3, <2>4 DEF MergeType
  <2> QED
    BY <1>1, <2>3, <2>5
<1>10. TypeInv'
  BY <1>1, <1>2, <1>9 DEF TableInv, TypeInv, MergeType, Shards, table
<1>11. CurrentInv'
  BY <1>1, <1>2 DEF TableInv, CurrentInv, Current, Shards
<1>12. StagedInv'
  <2>1. \A z \in Shards : merge'.staged[z] = IF z = s THEN g ELSE merge.staged[z]
    BY <1>3, <1>9
  <2>2. \A z \in Shards : UniqueKeys(merge'.staged[z]) /\ Fresh(merge'.staged[z], clock)
    BY <1>6, <1>7, <2>1 DEF TableInv, StagedInv
  <2> QED
    BY <1>1, <2>2 DEF StagedInv, Shards
<1>13. Linked(data, hash)' /\ StaleInv' /\ OffsetInv' /\ IndexInv'
  BY <1>1, <1>9 DEF TableInv, StaleInv, OffsetInv, IndexInv, NextRow, table
<1> QED
  BY <1>10, <1>11, <1>12, <1>13 DEF TableInv

\* A task remembers the timestamp of what it has written.
LEMMA LatestTs ==
  ASSUME NEW t \in Nat, NEW u \in {0, t}, NEW b \in Seq(EntryType), Fresh(b, t),
         NEW live, \A i \in live : i \in 1..Len(b) /\ b[i].live
  PROVE  Max({u} \cup {b[i].row.ts : i \in live}) = IF live = {} THEN u ELSE t
<1> DEFINE S == {u} \cup {b[i].row.ts : i \in live}
<1>1. \A i \in live : b[i].row.ts = t
  BY DEF Fresh
<1>2. \A x \in S : x = u \/ (x = t /\ live # {})
  BY <1>1
<1>3. u \in S /\ (live # {} => t \in S)
  BY <1>1
<1> HIDE DEF S
<1>4. S \in SUBSET Nat /\ S # {} /\ \A x \in S : x <= t
  BY <1>2, <1>3
<1>5. Max(S) \in S /\ \A x \in S : x <= Max(S)
  BY <1>4, BoundedMax
<1>6. CASE live = {}
  BY <1>2, <1>5, <1>6
<1>7. CASE live # {}
  <2>1. PICK m : m = Max(S)
    OBVIOUS
  <2>2. m \in Nat /\ m <= t /\ t <= m
    BY <1>3, <1>4, <1>5, <1>7, <2>1
  <2>3. m = t
    BY <2>2
  <2> QED
    BY <1>7, <2>1, <2>3 DEF S
<1> QED
  BY <1>6, <1>7 DEF S

\* The row that a block b has gathered for a key.
RowFor(b, k) ==
  LET at == {i \in 1..Len(b) : b[i].live /\ b[i].row.key = k}
  IN  IF at = {} THEN NoRow ELSE b[CHOOSE i \in at : TRUE].row

\* It is the one live row of the key, if there is one.
LEMMA OnlyRowFor ==
  ASSUME NEW b \in Seq(EntryType), UniqueKeys(b), NEW k
  PROVE  /\ \A i \in 1..Len(b) : b[i].live /\ b[i].row.key = k => RowFor(b, k) = b[i].row
         /\ \/ RowFor(b, k) = NoRow /\ \A i \in 1..Len(b) : b[i].live => b[i].row.key # k
            \/ \E i \in 1..Len(b) : b[i].live /\ b[i].row.key = k /\ RowFor(b, k) = b[i].row /\ RowFor(b, k) \in Row
<1> DEFINE at == {i \in 1..Len(b) : b[i].live /\ b[i].row.key = k}
<1>1. \A i \in 1..Len(b) : b[i].row \in Row
  <2>1. \A i \in 1..Len(b) : b[i] \in EntryType
    OBVIOUS
  <2> QED
    BY <2>1 DEF EntryType
<1>2. CASE at = {}
  BY <1>2 DEF RowFor
<1>3. CASE at # {}
  <2>1. PICK j : j = CHOOSE i \in at : TRUE
    OBVIOUS
  <2>2. j \in at
    BY <1>3, <2>1
  <2>3. RowFor(b, k) = b[j].row
    BY <1>3, <2>1 DEF RowFor
  <2>4. \A i \in at : i = j
    BY <2>2 DEF UniqueKeys
  <2> QED
    BY <1>1, <2>2, <2>3, <2>4
<1> QED
  BY <1>2, <1>3

\* The row that the hash map h gives for a key, in the rows d.
RowAt(d, h, k) == IF h[k] = 0 THEN NoRow ELSE d[h[k]].row

\* A task that writes out block b leaves, for a key it has a row for, that row if the
\* merge function would change the old one, and the old one otherwise.
Blended(d, h, b, c, g) ==
  \A k \in Keys : RowAt(c, g, k) =
    IF RowFor(b, k) = NoRow \/ Applied(RowAt(d, h, k), RowFor(b, k)) = RowAt(d, h, k)
    THEN RowAt(d, h, k) ELSE RowFor(b, k)

\* Writing a block blends it with the table.
LEMMA BlockBlends ==
  ASSUME NEW d \in Seq(EntryType), NEW h \in [Keys -> Nat], NEW g \in [Keys -> Nat], Linked(d, h),
         NEW b \in Seq(EntryType), UniqueKeys(b), NEW live, NEW occupied, NEW kept, NEW old,
         Replaces(d, h, b, live, occupied, kept, old, g),
         \A i \in occupied : i \in kept <=>
           Applied(RowAt(d, h, b[i].row.key), b[i].row) = RowAt(d, h, b[i].row.key),
         NEW c, Extends(d, c), \A i \in 1..Len(b) : c[Len(d) + i].row = b[i].row
  PROVE  Blended(d, h, b, c, g)
<1> SUFFICES ASSUME NEW k \in Keys
             PROVE  RowAt(c, g, k) =
                      IF RowFor(b, k) = NoRow \/ Applied(RowAt(d, h, k), RowFor(b, k)) = RowAt(d, h, k)
                      THEN RowAt(d, h, k) ELSE RowFor(b, k)
  BY DEF Blended
<1>1. Len(d) \in Nat /\ Len(b) \in Nat
  OBVIOUS
<1>2. h[k] # 0 => h[k] \in 1..Len(d)
  BY DEF Linked
<1>3. \A i \in 1..Len(d) : c[i].row = d[i].row
  BY DEF Extends
<1>4. g[k] = h[k] => RowAt(c, g, k) = RowAt(d, h, k)
  BY <1>2, <1>3 DEF RowAt
<1>5. CASE RowFor(b, k) = NoRow
  <2>1. \A i \in live : b[i].row.key # k
    <3>1. \A i \in live : i \in 1..Len(b) /\ b[i].live /\ b[i] \in EntryType
      BY DEF Replaces
    <3>2. \A i \in 1..Len(b) : b[i].live /\ b[i].row.key = k => RowFor(b, k) = b[i].row
      BY OnlyRowFor
    <3>3. \A e \in EntryType : e.row # NoRow
      BY NoRowIsNoRow DEF EntryType
    <3> QED
      BY <1>5, <3>1, <3>2, <3>3
  <2>2. g[k] = h[k]
    BY <2>1 DEF Replaces
  <2> QED
    BY <1>4, <1>5, <2>2
<1>6. CASE RowFor(b, k) # NoRow
  <2>1. PICK i \in 1..Len(b) : b[i].live /\ b[i].row.key = k /\ RowFor(b, k) = b[i].row
    BY <1>6, OnlyRowFor
  <2>2. i \in live
    BY <2>1 DEF Replaces
  <2>3. \A j \in live : b[j].row.key = k => j = i
    BY <2>1 DEF Replaces, UniqueKeys
  <2>4. CASE i \in kept
    <3>1. i \in occupied
      BY <2>4 DEF Replaces
    <3>2. g[k] = h[k]
      BY <2>3, <2>4 DEF Replaces
    <3> QED
      BY <1>4, <2>1, <2>4, <3>1, <3>2
  <2>5. CASE i \notin kept
    <3>1. g[k] = Len(d) + i
      BY <2>1, <2>2, <2>5 DEF Replaces
    <3>2. g[k] # 0 /\ c[g[k]].row = b[i].row
      BY <1>1, <3>1
    <3>3. RowAt(c, g, k) = RowFor(b, k)
      BY <2>1, <3>2 DEF RowAt
    <3>4. CASE h[k] # 0
      <4>1. i \in occupied
        BY <2>1, <2>2, <3>4 DEF Replaces
      <4>2. Applied(RowAt(d, h, k), RowFor(b, k)) # RowAt(d, h, k)
        BY <2>1, <2>5, <4>1
      <4> QED
        BY <1>6, <3>3, <4>2
    <3>5. CASE h[k] = 0
      <4>1. RowAt(d, h, k) = NoRow
        BY <3>5 DEF RowAt
      <4>2. Applied(RowAt(d, h, k), RowFor(b, k)) = RowFor(b, k)
        BY <4>1 DEF Applied
      <4> QED
        BY <1>6, <3>3, <4>1, <4>2
    <3> QED
      BY <3>4, <3>5
  <2> QED
    BY <2>4, <2>5
<1> QED
  BY <1>5, <1>6

\* A task appends its block, links what is new and marks the rest as stale.
LEMMA FlushBatchKeeps ==
  ASSUME TableInv, NEW s \in Shards, FlushBatch(s)
  PROVE  TableInv' /\ Extends(data, data') /\ Blended(data, hash, merge.staged[s], data', hash')
<1> DEFINE block    == merge.staged[s]
           busy     == {i \in LiveStaged(s) : hash[block[i].row.key] # 0}
           same     == {i \in busy : Applied(Lookup(block[i].row.key), block[i].row) = Lookup(block[i].row.key)}
           replaced == {hash[block[i].row.key] : i \in busy \ same}
           latest   == Max({merge.ts} \union {block[i].row.ts : i \in LiveStaged(s)})
           left     == IF queue[s] = <<>> THEN merge.working \ {s} ELSE merge.working
           counted  == merge.stale + StaleIn(block) + Cardinality(busy)
           reported == merge.added \/ LiveStaged(s) # {}
<1>1. /\ merge.phase = "parallel"
      /\ data' = Retired(data, replaced) \o Retired(block, same)
      /\ hash' = LinkMap(data, hash, block, LiveStaged(s) \ same)
      /\ UNCHANGED <<offsets, staleRows, generation, queue, removals, buffers, clock, index>>
  BY Zenon DEF FlushBatch, Flush, LinkMap, inbox
<1>2. merge' = [merge EXCEPT !.staged[s] = <<>>, !.stale = counted, !.added = reported,
                             !.ts = latest, !.working = left]
  BY Zenon DEF FlushBatch, Flush
<1>3. /\ data \in Seq(EntryType) /\ hash \in [Keys -> Nat] /\ offsets \in Seq(OffsetType) /\ staleRows \in Nat
      /\ merge \in MergeType /\ clock \in Nat /\ clock >= 1 /\ Linked(data, hash)
      /\ StaleIn(data) = staleRows + merge.stale
      /\ Sorted(data, clock) /\ Placed(data, offsets, clock) /\ Listed(data, offsets, merge.start)
      /\ merge.start \in 1..NextRow /\ merge.ts \in {0, clock}
      /\ \A i \in 1..Len(data) : data[i].live /\ merge.start <= i => data[i].row.ts = merge.ts
  BY <1>1, ClockIsNat DEF TableInv, TypeInv, StaleInv, OffsetInv
<1>4. /\ merge.staged \in [Shards -> Seq(EntryType)] /\ merge.stale \in Nat /\ merge.working \in SUBSET Shards
      /\ merge.added \in BOOLEAN
  BY <1>3 DEF MergeType
<1>5. PICK b \in Seq(EntryType) : b = block
  BY <1>4
<1>6. UniqueKeys(b) /\ Fresh(b, clock)
  BY <1>5 DEF TableInv, StagedInv
<1>7. PICK d \in Seq(EntryType) : d = data
  BY <1>3
<1>8. PICK h \in [Keys -> Nat] : h = hash
  BY <1>3
<1>9. PICK live : live = LiveStaged(s)
  OBVIOUS
<1>10. PICK occupied : occupied = busy
  OBVIOUS
<1>11. PICK kept : kept = same
  OBVIOUS
<1>12. PICK old : old = replaced
  OBVIOUS
<1>13. live = {i \in 1..Len(b) : b[i].live}
  BY <1>5, <1>9 DEF LiveStaged
<1>14. occupied = {i \in live : h[b[i].row.key] # 0} /\ kept \in SUBSET occupied
       /\ old = {h[b[i].row.key] : i \in occupied \ kept}
  BY <1>5, <1>8, <1>9, <1>10, <1>11, <1>12
<1>15. PICK g : g = hash'
  OBVIOUS
<1>16. g = LinkMap(d, h, b, live \ kept)
  BY <1>1, <1>5, <1>7, <1>8, <1>9, <1>11, <1>15
<1> HIDE DEF block, busy, same, replaced, latest, left, counted, reported
<1>17. live \ kept \in SUBSET (1..Len(b)) /\ \A i \in live \ kept : b[i].live
  BY <1>13
<1>18. /\ g \in [Keys -> Nat]
       /\ \A i \in live \ kept : g[b[i].row.key] = Len(d) + i
       /\ \A k \in Keys : (\E i \in live \ kept : b[i].row.key = k) \/ g[k] = h[k]
  <2>1. PICK linked : linked = live \ kept
    OBVIOUS
  <2>2. /\ g \in [Keys -> Nat]
        /\ \A i \in linked : g[b[i].row.key] = Len(d) + i
        /\ \A k \in Keys : (\E i \in linked : b[i].row.key = k) \/ g[k] = h[k]
    <3>1. g = LinkMap(d, h, b, linked)
      BY <1>16, <2>1
    <3>2. linked \in SUBSET (1..Len(b))
      BY <1>17, <2>1
    <3>3. UniqueKeys(b)
      BY <1>6
    <3>4. \A i \in linked : b[i].live
      BY <1>17, <2>1
    <3>5. LeadsTo(d, h, b, linked, LinkMap(d, h, b, linked))
      BY <3>2, <3>3, <3>4, BlockLinks
    <3> HIDE DEF block, busy, same, replaced, latest, left, counted, reported
    <3> QED
      BY <3>1, <3>2, <3>5, Zenon DEF LeadsTo
  <2> QED
    BY <2>1, <2>2
<1>19. Replaces(d, h, b, live, occupied, kept, old, g)
  BY <1>13, <1>14, <1>18 DEF Replaces
<1>20. PICK c : c = data'
  OBVIOUS
<1>21. c = Retired(d, old) \o Retired(b, kept)
  BY <1>1, <1>5, <1>7, <1>11, <1>12, <1>20
<1>22. /\ Linked(c, g) /\ Extends(d, c)
       /\ StaleIn(c) = StaleIn(d) + StaleIn(b) + Cardinality(occupied)
       /\ Cardinality(occupied) \in Nat
       /\ Len(c) = Len(d) + Len(b)
       /\ \A i \in 1..Len(b) : c[Len(d) + i].row = b[i].row /\ (c[Len(d) + i].live => b[i].live)
  <2> DEFINE z == Retired(d, old) \o Retired(b, kept)
  <2>1. /\ Linked(z, g) /\ Extends(d, z)
        /\ StaleIn(z) = StaleIn(d) + StaleIn(b) + Cardinality(occupied)
        /\ Cardinality(occupied) \in Nat
        /\ Len(z) = Len(d) + Len(b)
        /\ \A i \in 1..Len(b) : z[Len(d) + i].row = b[i].row /\ (z[Len(d) + i].live => b[i].live)
    <3>1. Linked(d, h) /\ UniqueKeys(b) /\ g \in [Keys -> Nat]
      BY <1>3, <1>6, <1>7, <1>8, <1>18
    <3> QED
      BY <1>19, <3>1, BlockWritten
  <2> HIDE DEF z
  <2>2. c = z
    BY <1>21 DEF z
  <2> QED
    BY <2>1, <2>2
<1>23. c \in Seq(EntryType)
  BY <1>22 DEF Extends
<1>24. latest = IF live = {} THEN merge.ts ELSE clock
  <2>1. PICK t \in Nat : t = clock
    BY <1>3
  <2>2. PICK u \in {0, t} : u = merge.ts
    BY <1>3, <2>1
  <2>3. \A i \in live : i \in 1..Len(b) /\ b[i].live
    BY <1>13
  <2>4. Max({u} \cup {b[i].row.ts : i \in live}) = IF live = {} THEN u ELSE t
    <3>1. Fresh(b, t)
      BY <1>6, <2>1
    <3> QED
      BY <2>3, <3>1, LatestTs, SMTT(20)
  <2>5. latest = Max({u} \cup {b[i].row.ts : i \in live})
    BY <1>5, <1>9, <2>2 DEF latest
  <2> QED
    BY <2>1, <2>2, <2>4, <2>5
<1>25. counted = merge.stale + StaleIn(b) + Cardinality(occupied) /\ counted \in Nat /\ StaleIn(b) \in Nat
  <2>1. StaleIn(b) \in Nat
    BY StaleFinite
  <2> QED
    BY <1>4, <1>5, <1>10, <1>22, <2>1 DEF counted
<1>26. /\ merge' \in MergeType /\ merge'.phase = "parallel" /\ merge'.start = merge.start /\ merge'.ts = latest
       /\ merge'.stale = counted /\ merge'.staged = [merge.staged EXCEPT ![s] = <<>>]
  <2>1. latest \in Nat /\ left \in SUBSET Shards /\ reported \in BOOLEAN
    BY <1>3, <1>4, <1>24 DEF left, reported
  <2>2. [merge.staged EXCEPT ![s] = <<>>] \in [Shards -> Seq(EntryType)]
    <3>1. <<>> \in Seq(EntryType)
      OBVIOUS
    <3> QED
      BY <1>4, <3>1
  <2>3. PICK staged \in [Shards -> Seq(EntryType)] : staged = [merge.staged EXCEPT ![s] = <<>>]
    BY <2>2
  <2>4. merge' = [merge EXCEPT !.staged = staged, !.stale = counted, !.added = reported, !.ts = latest, !.working = left]
    BY <1>2, <2>3
  <2>5. /\ merge' \in MergeType /\ merge'.phase = merge.phase /\ merge'.start = merge.start /\ merge'.ts = latest
        /\ merge'.stale = counted /\ merge'.staged = staged
    BY <1>3, <1>25, <2>1, <2>4 DEF MergeType
  <2> QED
    BY <1>1, <2>3, <2>5
<1>27. TypeInv'
  BY <1>1, <1>15, <1>18, <1>20, <1>23, <1>26 DEF TableInv, TypeInv, MergeType, Shards
<1>28. CurrentInv'
  BY <1>1 DEF TableInv, CurrentInv, Current, Shards
<1>29. StagedInv'
  <2>1. \A z \in Shards : merge'.staged[z] = IF z = s THEN <<>> ELSE merge.staged[z]
    BY <1>4, <1>26
  <2>2. UniqueKeys(<<>>) /\ Fresh(<<>>, clock)
    BY DEF UniqueKeys, Fresh
  <2>3. \A z \in Shards : UniqueKeys(merge'.staged[z]) /\ Fresh(merge'.staged[z], clock)
    BY <2>1, <2>2 DEF TableInv, StagedInv
  <2> QED
    BY <1>1, <2>3 DEF StagedInv, Shards
<1>30. StaleInv'
  <2>1. PICK a : a = StaleIn(c)
    OBVIOUS
  <2>2. PICK m : m = merge'.stale
    OBVIOUS
  <2>3. StaleIn(d) = staleRows + merge.stale
    BY <1>3, <1>7
  <2>4. a = staleRows + m
    BY <1>3, <1>4, <1>22, <1>25, <1>26, <2>1, <2>2, <2>3, SMTT(20)
  <2> QED
    BY <1>1, <1>20, <1>26, <2>1, <2>2, <2>4 DEF StaleInv
<1>31. \A i \in 1..Len(c) : i \notin 1..Len(d) => i - Len(d) \in 1..Len(b) /\ i = Len(d) + (i - Len(d))
  <2>1. Len(d) \in Nat /\ Len(b) \in Nat
    OBVIOUS
  <2> QED
    BY <1>22, <2>1
<1>32. \A i \in 1..Len(c) : i \notin 1..Len(d) /\ c[i].live => c[i].row.ts = clock /\ live # {}
  <2> SUFFICES ASSUME NEW i \in 1..Len(c), i \notin 1..Len(d), c[i].live PROVE c[i].row.ts = clock /\ live # {}
    OBVIOUS
  <2>1. PICK j \in 1..Len(b) : i = Len(d) + j
    BY <1>31
  <2>2. c[i].row = b[j].row /\ b[j].live
    BY <1>22, <2>1
  <2> QED
    BY <1>6, <1>13, <2>2 DEF Fresh
<1>33. Sorted(c, clock) /\ Placed(c, offsets, clock)
  <2>1. PICK t \in Nat : t = clock
    BY <1>3
  <2>2. PICK o \in Seq(OffsetType) : o = offsets
    BY <1>3
  <2>3. Sorted(d, t) /\ Placed(d, o, t)
    BY <1>3, <1>7, <2>1, <2>2
  <2>4. \A i \in 1..Len(c) : i \notin 1..Len(d) /\ c[i].live => c[i].row.ts = t
    BY <1>32, <2>1
  <2>5. Sorted(c, t) /\ Placed(c, o, t)
    BY <1>22, <2>3, <2>4, StillPlaced
  <2> QED
    BY <2>1, <2>2, <2>5
<1>34. merge.start \in 1..(Len(d) + 1) /\ Len(d) \in Nat /\ Len(b) \in Nat
  BY <1>3, <1>7 DEF NextRow
<1>35. Listed(c, offsets, merge.start)
  <2>1. PICK o : o = offsets
    OBVIOUS
  <2>2. PICK at \in 1..(Len(d) + 1) : at = merge.start
    BY <1>34
  <2>3. Listed(d, o, at)
    BY <1>3, <1>7, <2>1, <2>2
  <2>4. Listed(c, o, at)
    BY <1>22, <2>3, StillListed
  <2> QED
    BY <2>1, <2>2, <2>4
<1>36. ASSUME NEW i \in 1..Len(c), c[i].live, merge.start <= i PROVE c[i].row.ts = latest
  <2>1. CASE i \in 1..Len(d)
    <3>1. d[i].live /\ c[i].row = d[i].row
      BY <1>22, <1>36, <2>1 DEF Extends
    <3>2. d[i].row.ts = merge.ts
      BY <1>3, <1>7, <1>36, <2>1, <3>1
    <3>3. d[i] \in EntryType
      BY <2>1
    <3>4. d[i].row.ts # 0
      BY <3>3, MaxTsPositive DEF EntryType, Row, Timestamps
    <3> QED
      BY <1>3, <1>24, <3>1, <3>2, <3>4
  <2>2. CASE i \notin 1..Len(d)
    BY <1>24, <1>32, <1>36, <2>2
  <2> QED
    BY <2>1, <2>2
<1>37. OffsetInv'
  <2>1. NextRow' = Len(c) + 1
    BY <1>20 DEF NextRow
  <2>2. merge'.start \in 1..NextRow'
    BY <1>22, <1>26, <1>34, <2>1
  <2>3. merge'.ts \in {0, clock}
    BY <1>3, <1>24, <1>26
  <2> QED
    BY <1>1, <1>20, <1>26, <1>33, <1>35, <1>36, <2>2, <2>3 DEF OffsetInv
<1>38. Extends(data, data')
  BY <1>7, <1>20, <1>22
<1>39. IndexInv'
  BY <1>1, <1>26, <1>38, IndexKept
<1>40. Blended(data, hash, merge.staged[s], data', hash')
  <2>1. ASSUME NEW i \in occupied
        PROVE  i \in kept <=> Applied(RowAt(d, h, b[i].row.key), b[i].row) = RowAt(d, h, b[i].row.key)
    <3>1. i \in busy /\ h[b[i].row.key] # 0
      BY <1>10, <1>14, <2>1
    <3>2. Lookup(b[i].row.key) = RowAt(d, h, b[i].row.key)
      BY <1>7, <1>8 DEF Lookup, RowAt
    <3>3. i \in kept <=> Applied(Lookup(b[i].row.key), b[i].row) = Lookup(b[i].row.key)
      BY <1>5, <1>11, <3>1 DEF same, block
    <3> QED
      BY <3>2, <3>3
  <2>2. Linked(d, h)
    BY <1>3, <1>7, <1>8
  <2>3. Blended(d, h, b, c, g)
    BY <1>6, <1>18, <1>19, <1>22, <2>1, <2>2, BlockBlends
  <2> QED
    BY <1>5, <1>7, <1>8, <1>15, <1>20, <2>3 DEF block
<1> QED
  BY <1>15, <1>20, <1>22, <1>27, <1>28, <1>29, <1>30, <1>37, <1>38, <1>39, <1>40 DEF TableInv

-----------------------------------------------------------------------------
(* Rehashing. *)

CopiedRows(d, live, order) == [i \in 1..Cardinality(live) |-> d[order[i]]]
CopiedMap(h, live, order) ==
  [k \in Keys |-> IF h[k] = 0 THEN 0 ELSE CHOOSE i \in 1..Cardinality(live) : order[i] = h[k]]

\* Copying the live rows in an order that keeps timestamps ascending, and
\* leading each key to the copy of its row, makes such a table.
LEMMA CopyOfLive ==
  ASSUME NEW d \in Seq(EntryType), NEW h \in [Keys -> Nat], NEW t \in Nat, NEW live,
         NEW order \in [1..Cardinality(live) -> live], NEW c, NEW g,
         Linked(d, h), Sorted(d, t), Numbered(d, live, order),
         c = CopiedRows(d, live, order), g = CopiedMap(h, live, order)
  PROVE  Rehashed(d, h, t, c, g)
<1>0. /\ Cardinality(live) \in Nat
      /\ \A x \in live : \E i \in 1..Cardinality(live) : order[i] = x
  BY OrderIsOnto
<1>1. PICK n \in Nat : n = Cardinality(live)
  BY <1>0
<1>2. \A x \in live : \E i \in 1..n : order[i] = x
  BY <1>0, <1>1
<1>3. \A i \in 1..Len(d) : d[i] \in EntryType
  BY StaleFinite
<1>4. \A i \in 1..n : order[i] \in live /\ order[i] \in 1..Len(d) /\ d[order[i]].live /\ d[order[i]] \in EntryType
  BY <1>1, <1>3 DEF Numbered
<1>5. c = [i \in 1..n |-> d[order[i]]]
  BY <1>1 DEF CopiedRows
<1>6. c \in Seq(EntryType) /\ Len(c) = n
  <2>1. PICK m \in Nat : m = n
    BY <1>1
  <2>2. PICK f \in [1..m -> EntryType] : f = c
    BY <1>4, <1>5, <2>1, Zenon
  <2>3. f \in Seq(EntryType) /\ Len(f) = m
    OBVIOUS
  <2> QED
    BY <2>1, <2>2, <2>3
<1>7. \A i \in 1..n : c[i] = d[order[i]]
  BY <1>5
<1>8. ASSUME NEW k \in Keys, h[k] # 0 PROVE g[k] \in 1..n /\ order[g[k]] = h[k]
  <2> DEFINE i == CHOOSE i \in 1..n : order[i] = h[k]
  <2>1. h[k] \in live
    BY <1>8 DEF Linked, Numbered
  <2>2. \E x \in 1..n : order[x] = h[k]
    BY <1>2, <2>1
  <2>3. i \in 1..n /\ order[i] = h[k]
    BY <2>2
  <2>4. g[k] = i
    BY <1>1, <1>8, Zenon DEF CopiedMap
  <2> HIDE DEF i
  <2> QED
    BY <2>3, <2>4
<1>9. \A k \in Keys : h[k] = 0 => g[k] = 0
  BY Zenon DEF CopiedMap
<1>10. g \in [Keys -> Nat]
  <2>1. \A k \in Keys : g[k] \in 1..n \/ g[k] = 0
    BY <1>8, <1>9, Zenon
  <2>4. \A x \in 1..n : x \in Nat
    BY <1>1
  <2>5. 0 \in Nat
    OBVIOUS
  <2>3. \A k \in Keys : g[k] \in Nat
    BY <2>1, <2>4, <2>5, Zenon
  <2>2. g = [k \in Keys |-> g[k]]
    BY DEF CopiedMap
  <2> QED
    BY <2>2, <2>3, Zenon
<1>11. \A i \in 1..Len(c) : order[i] \in 1..Len(d) /\ d[order[i]].live /\ c[i] = d[order[i]]
  BY <1>4, <1>6, <1>7
<1>12. \A i, j \in 1..Len(c) : order[i] = order[j] => i = j
  BY <1>1, <1>6 DEF Numbered
<1>13. \A i, j \in 1..Len(c) : i < j => d[order[i]].row.ts <= d[order[j]].row.ts
  BY <1>1, <1>6 DEF Numbered
<1>14. \A k \in Keys : h[k] # 0 => g[k] \in 1..Len(c) /\ order[g[k]] = h[k]
  BY <1>6, <1>8, Zenon
<1>15. Copies(d, h, order, c, g)
  BY <1>9, <1>11, <1>12, <1>13, <1>14, Zenon DEF Copies
<1> QED
  BY <1>6, <1>10, <1>15, Compacted

\* A merge that ends without a rehash leaves the rows as they are.
LEMMA EndKeeps ==
  ASSUME TableInv, merge.phase = "rehash", UNCHANGED <<table, inbox>>, merge' = Idle,
         index' = [index EXCEPT !.updated = FALSE]
  PROVE  TableInv'
<1>1. UNCHANGED <<data, hash, offsets, staleRows, generation, queue, removals, buffers, clock>>
  BY DEF table, inbox
<1>2. TypeInv'
  BY <1>1, IdleFacts DEF TableInv, TypeInv, MergeType, Shards
<1>3. CurrentInv'
  BY <1>1 DEF TableInv, CurrentInv, Current, Shards
<1>4. StagedInv'
  BY IdleFacts DEF StagedInv, UniqueKeys, Fresh, Shards
<1>5. Linked(data, hash)'
  BY <1>1 DEF TableInv
<1>6. StaleInv'
  BY <1>1, IdleFacts DEF TableInv, StaleInv
<1>7. OffsetInv'
  BY <1>1, IdleFacts DEF TableInv, OffsetInv, NextRow
<1>8. IndexInv'
  <2>1. index'.updated = FALSE /\ index'.major = index.major /\ index'.minor = index.minor /\ index'.entries = index.entries
        /\ index' \in [updated : BOOLEAN, major : Nat, minor : Nat, entries : SUBSET (Values \X Nat)]
    BY DEF TableInv, IndexInv
  <2>2. Finds(index, data) => Finds(index', data)
    BY <2>1 DEF Finds
  <2> QED
    BY <1>1, <2>1, <2>2 DEF TableInv, IndexInv
<1> QED
  BY <1>2, <1>3, <1>4, <1>5, <1>6, <1>7, <1>8 DEF TableInv

\* A rehash in an order that keeps timestamps ascending leaves the live rows.
LEMMA CompactKeeps ==
  ASSUME TableInv, merge.phase = "rehash", NEW o \in Orders, Compact(o),
         \A i, j \in DOMAIN o : i < j => data[o[i]].row.ts <= data[o[j]].row.ts,
         UNCHANGED inbox, merge' = Idle, index' = [index EXCEPT !.updated = FALSE]
  PROVE  TableInv' /\ Rehashed(data, hash, clock, data', hash')
<1>1. /\ data \in Seq(EntryType) /\ hash \in [Keys -> Nat] /\ generation \in Nat /\ clock \in Nat
      /\ Linked(data, hash) /\ Sorted(data, clock)
  BY ClockIsNat DEF TableInv, TypeInv, OffsetInv
<1>2. PICK live : live = LiveRows
  OBVIOUS
<1>3. live = {i \in 1..Len(data) : data[i].live}
  BY <1>1, <1>2 DEF LiveRows
<1>4. o \in [1..Cardinality(live) -> live] /\ \A i, j \in DOMAIN o : o[i] = o[j] => i = j
  BY <1>2 DEF Orders, IsInjective
<1>5. DOMAIN o = 1..Cardinality(live)
  BY <1>4
<1>6. Numbered(data, live, o)
  BY <1>3, <1>4, <1>5 DEF Numbered
<1>7. /\ data' = CopiedRows(data, live, o) /\ hash' = CopiedMap(hash, live, o)
      /\ offsets' = OffsetsOf(data') /\ staleRows' = 0 /\ generation' = generation + 1
  <2>1. /\ data' = [i \in DOMAIN o |-> data[o[i]]]
        /\ hash' = [k \in Keys |-> IF hash[k] = 0 THEN 0 ELSE CHOOSE i \in DOMAIN o : o[i] = hash[k]]
        /\ offsets' = OffsetsOf(data') /\ staleRows' = 0 /\ generation' = generation + 1
    BY Zenon DEF Compact
  <2>2. data' = CopiedRows(data, live, o)
    BY <1>5, <2>1, Zenon DEF CopiedRows
  <2>3. hash' = CopiedMap(hash, live, o)
    <3> DEFINE led(D) == [k \in Keys |-> IF hash[k] = 0 THEN 0 ELSE CHOOSE i \in D : o[i] = hash[k]]
    <3>1. hash' = led(DOMAIN o)
      BY <2>1
    <3>2. CopiedMap(hash, live, o) = led(1..Cardinality(live))
      BY DEF CopiedMap
    <3> HIDE DEF led
    <3> QED
      BY <1>5, <3>1, <3>2, Zenon
  <2> QED
    BY <2>1, <2>2, <2>3
<1>8. Rehashed(data, hash, clock, data', hash')
  <2>1. PICK d \in Seq(EntryType) : d = data
    BY <1>1
  <2>2. PICK h \in [Keys -> Nat] : h = hash
    BY <1>1
  <2>3. PICK t \in Nat : t = clock
    BY <1>1
  <2>4. PICK c : c = data'
    OBVIOUS
  <2>5. PICK g : g = hash'
    OBVIOUS
  <2>6. Linked(d, h) /\ Sorted(d, t) /\ Numbered(d, live, o) /\ c = CopiedRows(d, live, o) /\ g = CopiedMap(h, live, o)
    BY <1>1, <1>6, <1>7, <2>1, <2>2, <2>3, <2>4, <2>5
  <2>7. Rehashed(d, h, t, c, g)
    BY <1>4, <2>6, CopyOfLive
  <2> QED
    BY <2>1, <2>2, <2>3, <2>4, <2>5, <2>7
<1>9. /\ data' \in Seq(EntryType) /\ hash' \in [Keys -> Nat] /\ Linked(data', hash') /\ StaleIn(data') = 0
      /\ Sorted(data', clock) /\ \A i \in 1..Len(data') : data'[i].live
  BY <1>8 DEF Rehashed
<1>10. /\ offsets' \in Seq(OffsetType) /\ Placed(data', offsets', clock) /\ Listed(data', offsets', Len(data') + 1)
  <2>1. PICK c \in Seq(EntryType) : c = data'
    BY <1>9
  <2>2. PICK t \in Nat : t = clock
    BY <1>1
  <2>3. Sorted(c, t) /\ \A i \in 1..Len(c) : c[i].live
    BY <1>9, <2>1, <2>2
  <2>4. OffsetsOf(c) \in Seq(OffsetType) /\ Placed(c, OffsetsOf(c), t) /\ Listed(c, OffsetsOf(c), Len(c) + 1)
    BY <2>3, FreshOffsets
  <2> QED
    BY <1>7, <2>1, <2>2, <2>4
<1>11. UNCHANGED <<queue, removals, buffers, clock>>
  BY DEF inbox
<1>12. TypeInv'
  <2>1. data' \in Seq(EntryType) /\ hash' \in [Keys -> Nat] /\ offsets' \in Seq(OffsetType) /\ staleRows' \in Nat
        /\ generation' \in Nat
    BY <1>1, <1>7, <1>9, <1>10
  <2>2. merge' \in MergeType /\ merge' = Idle /\ merge'.phase = "idle"
    BY IdleFacts
  <2>3. /\ queue' \in [Shards -> Seq(Row)] /\ removals' \in SUBSET Keys /\ clock' \in Timestamps
        /\ buffers' \in [Writers -> [rows : [Shards -> Seq(Row)], removals : SUBSET Keys]]
    BY <1>11 DEF TableInv, TypeInv
  <2> QED
    BY <2>1, <2>2, <2>3, Zenon DEF TypeInv, MergeType, Shards
<1>13. CurrentInv'
  BY <1>11 DEF TableInv, CurrentInv, Current, Shards
<1>14. StagedInv'
  BY IdleFacts DEF StagedInv, UniqueKeys, Fresh, Shards
<1>15. StaleInv'
  BY <1>7, <1>9, IdleFacts DEF StaleInv
<1>16. OffsetInv'
  BY <1>9, <1>10, <1>11, IdleFacts DEF OffsetInv, NextRow
<1>17. IndexInv'
  <2>1. index'.updated = FALSE /\ index'.major = index.major /\ index.major \in Nat /\ index.major <= generation
        /\ index' \in [updated : BOOLEAN, major : Nat, minor : Nat, entries : SUBSET (Values \X Nat)]
    BY DEF TableInv, IndexInv
  <2>2. index'.major <= generation' /\ index'.major # generation'
    BY <1>1, <1>7, <2>1
  <2> QED
    BY <2>1, <2>2 DEF IndexInv
<1>18. Linked(data, hash)'
  BY <1>9
<1> QED
  BY <1>8, <1>12, <1>13, <1>14, <1>15, <1>16, <1>17, <1>18 DEF TableInv

\* Both orders of a rehash keep timestamps ascending.
LEMMA OrdersAscend ==
  ASSUME TableInv, NEW o, o \in SerialOrders \/ o \in ShardOrders
  PROVE  o \in Orders /\ \A i, j \in DOMAIN o : i < j => data[o[i]].row.ts <= data[o[j]].row.ts
<1>1. o \in Orders
  BY DEF SerialOrders, ShardOrders
<1>2. \A i \in DOMAIN o : o[i] \in 1..Len(data) /\ data[o[i]].live /\ data[o[i]].row.ts \in Nat
  <2>1. data \in Seq(EntryType)
    BY DEF TableInv, TypeInv
  <2>2. \A i \in 1..Len(data) : data[i] \in EntryType
    BY <2>1
  <2>3. \A e \in EntryType : e.row.ts \in Nat
    BY MaxTsPositive DEF EntryType, Row, Timestamps
  <2>4. o \in [1..Cardinality(LiveRows) -> LiveRows]
    BY <1>1 DEF Orders
  <2>5. \A i \in LiveRows : i \in 1..Len(data) /\ data[i].live
    BY <2>1 DEF LiveRows
  <2> QED
    BY <2>2, <2>3, <2>4, <2>5
<1>3. CASE o \in SerialOrders
  <2> SUFFICES ASSUME NEW i \in DOMAIN o, NEW j \in DOMAIN o, i < j PROVE data[o[i]].row.ts <= data[o[j]].row.ts
    BY <1>1
  <2>1. o[i] < o[j]
    BY <1>3 DEF SerialOrders
  <2>2. Sorted(data, clock)
    BY DEF TableInv, OffsetInv
  <2>3. o[i] \in Nat /\ o[j] \in Nat
    BY <1>2
  <2> QED
    BY <1>2, <2>1, <2>2, <2>3 DEF Sorted
<1>4. CASE o \in ShardOrders
  <2> SUFFICES ASSUME NEW i \in DOMAIN o, NEW j \in DOMAIN o, i < j PROVE data[o[i]].row.ts <= data[o[j]].row.ts
    BY <1>1
  <2>1. data[o[i]].row.ts < data[o[j]].row.ts \/ data[o[i]].row.ts = data[o[j]].row.ts
    BY <1>4, Zenon DEF ShardOrders
  <2> QED
    BY <1>2, <2>1
<1> QED
  BY <1>3, <1>4

\* The end of a merge, with a rehash or without, by either path.
LEMMA EndMergeKeeps ==
  ASSUME TableInv, EndMerge(SerialOrders) \/ EndMerge(ShardOrders)
  PROVE  TableInv' /\ (UNCHANGED table \/ Rehashed(data, hash, clock, data', hash'))
<1>1. /\ merge.phase = "rehash" /\ merge' = Idle /\ index' = [index EXCEPT !.updated = FALSE] /\ UNCHANGED inbox
      /\ \/ UNCHANGED table
         \/ \E o \in SerialOrders : Compact(o)
         \/ \E o \in ShardOrders : Compact(o)
  BY Zenon DEF EndMerge
<1>2. CASE UNCHANGED table
  BY <1>1, <1>2, EndKeeps
<1>3. ASSUME NEW o, o \in SerialOrders \/ o \in ShardOrders, Compact(o)
      PROVE  TableInv' /\ Rehashed(data, hash, clock, data', hash')
  <2>1. o \in Orders /\ \A i, j \in DOMAIN o : i < j => data[o[i]].row.ts <= data[o[j]].row.ts
    BY <1>3, OrdersAscend
  <2> QED
    BY <1>1, <1>3, <2>1, CompactKeeps
<1> QED
  BY <1>1, <1>2, <1>3

-----------------------------------------------------------------------------
(* Every step. *)

\* No step breaks the invariant.
LEMMA NextKeeps ==
  ASSUME TableInv, [Next]_vars
  PROVE  TableInv'
<1>1. ASSUME NEW w \in Writers, NEW k \in Keys, NEW v \in Values, StageInsert(w, k, v) PROVE TableInv'
  BY <1>1, StageInsertKeeps
<1>2. ASSUME NEW w \in Writers, NEW k \in Keys, StageRemove(w, k) PROVE TableInv'
  BY <1>2, StageRemoveKeeps
<1>3. ASSUME NEW w \in Writers, DropBuffer(w) PROVE TableInv'
  BY <1>3, DropBufferKeeps
<1>4. ASSUME NEW w \in Writers, NEW s \in Shards, DropShard(w, s) PROVE TableInv'
  BY <1>4, DropShardKeeps
<1>5. ASSUME Tick PROVE TableInv'
  BY <1>5, TickKeeps
<1>6. ASSUME Clear PROVE TableInv'
  BY <1>6, ClearKeeps
<1>7. ASSUME StartMerge PROVE TableInv'
  BY <1>7, StartMergeKeeps
<1>8. ASSUME Delete PROVE TableInv'
  BY <1>8, DeleteKeeps
<1>9. ASSUME NEW s \in Shards, InsertNew(s) PROVE TableInv'
  BY <1>9, InsertNewKeeps
<1>10. ASSUME NEW s \in Shards, InsertMerged(s) PROVE TableInv'
  BY <1>10, InsertMergedKeeps
<1>11. ASSUME NEW s \in Shards, InsertUnchanged(s) PROVE TableInv'
  BY <1>11, InsertUnchangedKeeps
<1>12. ASSUME NextShard PROVE TableInv'
  BY <1>12, NextShardKeeps
<1>13. ASSUME NEW s \in Shards, Gather(s) PROVE TableInv'
  BY <1>13, GatherKeeps
<1>14. ASSUME NEW s \in Shards, FlushBatch(s) PROVE TableInv'
  BY <1>14, FlushBatchKeeps
<1>15. ASSUME JoinTasks PROVE TableInv'
  BY <1>15, JoinTasksKeeps
<1>16. ASSUME EndMerge(SerialOrders) \/ EndMerge(ShardOrders) PROVE TableInv'
  BY <1>16, EndMergeKeeps
<1>17. ASSUME RefreshIndex PROVE TableInv'
  BY <1>17, RefreshIndexKeeps
<1>18. ASSUME UNCHANGED vars PROVE TableInv'
  <2>1. UNCHANGED <<data, hash, offsets, staleRows, generation, queue, removals, buffers, merge, index, clock>>
    BY <1>18 DEF vars, table, inbox
  <2>2. StoreInv'
    BY <2>1, Frame DEF table
  <2>3. TypeInv'
    BY <2>1 DEF TableInv, TypeInv, MergeType, Shards
  <2>4. CurrentInv'
    BY <2>1 DEF TableInv, CurrentInv, Current, Shards
  <2> QED
    BY <2>2, <2>3, <2>4 DEF TableInv, StoreInv
<1> QED
  BY <1>1, <1>2, <1>3, <1>4, <1>5, <1>6, <1>7, <1>8, <1>9, <1>10, <1>11, <1>12, <1>13, <1>14, <1>15,
     <1>16, <1>17, <1>18, Zenon DEF Next

\* The row buffer, the hash map, the offsets and the cached index stay in step,
\* whatever is staged, merged, rehashed and cleared.
THEOREM Invariant == Spec => []TableInv
<1>1. Init => TableInv
  BY InitInv
<1>2. TableInv /\ [Next]_vars => TableInv'
  BY NextKeeps
<1> QED
  BY <1>1, <1>2, PTL DEF Spec

-----------------------------------------------------------------------------
(* What readers rely on. *)

\* The hash map leads from a key to its one live row, and stale rows are
\* counted: what a lookup, a scan without checks and the rehash threshold use.
THEOREM HashIsExact == Spec => []HashExact
<1>1. TableInv => HashExact
  <2> SUFFICES ASSUME TableInv PROVE HashExact
    OBVIOUS
  <2>1. data \in Seq(EntryType) /\ hash \in [Keys -> Nat] /\ staleRows \in Nat /\ Linked(data, hash) /\ StaleInv
    BY DEF TableInv, TypeInv
  <2>2. Len(data) \in Nat /\ DOMAIN data = 1..Len(data)
    BY <2>1
  <2>3. ASSUME NEW k \in Keys PROVE {i \in LiveRows : data[i].row.key = k} = {hash[k]} \ {0}
    <3>1. ASSUME NEW i \in LiveRows, data[i].row.key = k PROVE i \in {hash[k]} \ {0}
      BY <2>1, <2>2, <3>1 DEF LiveRows, Linked
    <3>2. ASSUME hash[k] # 0 PROVE hash[k] \in LiveRows /\ data[hash[k]].row.key = k
      BY <2>1, <2>2, <3>2 DEF LiveRows, Linked
    <3> QED
      BY <3>1, <3>2
  <2>4. merge.phase # "parallel" => staleRows = StaleIn(data)
    <3>1. PICK n : n = StaleIn(data)
      OBVIOUS
    <3>2. merge.phase # "parallel" => n = staleRows + 0
      BY <2>1, <3>1 DEF StaleInv
    <3> QED
      BY <2>1, <3>1, <3>2
  <2> QED
    BY <2>3, <2>4 DEF HashExact
<1> QED
  BY <1>1, Invariant, PTL

\* The cached index finds the live rows with a value and no others, whatever
\* happened to the table since it was refreshed.
THEOREM IndexIsExact == Spec => []IndexExact
<1>1. TableInv => IndexExact
  <2> SUFFICES ASSUME TableInv, merge.phase = "idle", index.updated, NEW v \in Values
               PROVE  ScanAll(Indexed(v) \intersect DOMAIN data) = {i \in LiveRows : data[i].row.val = v}
    BY DEF IndexExact
  <2>1. data \in Seq(EntryType) /\ DOMAIN data = 1..Len(data) /\ Len(data) \in Nat
    BY DEF TableInv, TypeInv
  <2>2. index.minor = Len(data) /\ Finds(index, data)
    BY DEF TableInv, IndexInv
  <2>3. ASSUME NEW i \in 1..Len(data), data[i].live PROVE i \in Indexed(v) <=> data[i].row.val = v
    <3>1. CASE i \in Indexed(v)
      <4>1. PICK e \in index.entries : e[1] = v /\ e[2] = i
        BY <3>1 DEF Indexed
      <4> QED
        BY <2>2, <3>1, <4>1 DEF Finds
    <3>2. CASE data[i].row.val = v
      <4>1. PICK e : e = <<data[i].row.val, i>>
        OBVIOUS
      <4>2. e \in index.entries
        BY <2>2, <2>3, <4>1 DEF Finds
      <4>3. e[1] = v /\ e[2] = i
        BY <3>2, <4>1
      <4>4. i \in Indexed(v)
        BY <4>2, <4>3 DEF Indexed
      <4> QED
        BY <3>2, <4>4
    <3> QED
      BY <3>1, <3>2
  <2> QED
    BY <2>1, <2>3 DEF ScanAll, LiveRows
<1> QED
  BY <1>1, Invariant, PTL

\* The offsets before number p are those before the timestamp u.
Splits(o, p, u) == p \in 1..(Len(o) + 1) /\ \A n \in 1..Len(o) : n < p <=> o[n].ts < u

\* From where such an offset points the rows are of timestamp u or later.
LEMMA SplitRows ==
  ASSUME NEW d \in Seq(EntryType), NEW o \in Seq(OffsetType), NEW t \in Nat, NEW p \in Nat, NEW u \in Nat,
         Placed(d, o, t), Listed(d, o, Len(d) + 1), Splits(o, p, u),
         NEW at, at = IF p \in 1..Len(o) THEN o[p].first ELSE Len(d) + 1
  PROVE  at \in 1..(Len(d) + 1) /\ \A i \in 1..Len(d) : d[i].live => (at <= i <=> u <= d[i].row.ts)
<1>1. Len(d) \in Nat /\ Len(o) \in Nat /\ \A n \in 1..Len(o) : o[n].ts \in Nat /\ o[n].first \in Nat
  <2>1. Len(d) \in Nat /\ Len(o) \in Nat /\ \A n \in 1..Len(o) : o[n] \in OffsetType
    OBVIOUS
  <2>2. \A x \in OffsetType : x.ts \in Nat /\ x.first \in Nat
    BY DEF OffsetType
  <2> QED
    BY <2>1, <2>2
<1>2. \A i \in 1..Len(d) : d[i].row.ts \in Nat
  <2>1. \A i \in 1..Len(d) : d[i] \in EntryType
    BY StaleFinite
  <2>2. \A e \in EntryType : e.row.ts \in Nat
    BY MaxTsPositive DEF EntryType, Row, Timestamps
  <2> QED
    BY <2>1, <2>2
<1>3. CASE p \in 1..Len(o)
  <2>1. at = o[p].first /\ ~(o[p].ts < u)
    BY <1>1, <1>3 DEF Splits
  <2>2. at \in 1..(Len(d) + 1) /\ \A i \in 1..Len(d) : d[i].live => (at <= i <=> o[p].ts <= d[i].row.ts)
    BY <1>3, <2>1 DEF Placed
  <2>3. ASSUME NEW i \in 1..Len(d), d[i].live, u <= d[i].row.ts PROVE o[p].ts <= d[i].row.ts
    <3>1. PICK n \in 1..Len(o) : o[n].ts = d[i].row.ts
      BY <1>1, <2>3 DEF Listed
    <3>2. ~(n < p)
      BY <1>1, <1>2, <2>3, <3>1 DEF Splits
    <3>3. CASE n = p
      BY <1>1, <3>1, <3>3
    <3>4. CASE p < n
      BY <1>1, <1>3, <3>1, <3>4 DEF Placed
    <3> QED
      BY <1>3, <3>2, <3>3, <3>4
  <2>4. ASSUME NEW i \in 1..Len(d), d[i].live, o[p].ts <= d[i].row.ts PROVE u <= d[i].row.ts
    BY <1>1, <1>2, <1>3, <2>1, <2>4
  <2> QED
    BY <2>2, <2>3, <2>4
<1>4. CASE p \notin 1..Len(o)
  <2>1. at = Len(d) + 1 /\ \A n \in 1..Len(o) : o[n].ts < u
    BY <1>1, <1>4 DEF Splits
  <2>2. ASSUME NEW i \in 1..Len(d), d[i].live PROVE d[i].row.ts < u
    <3>1. i < Len(d) + 1
      BY <1>1
    <3>2. PICK n \in 1..Len(o) : o[n].ts = d[i].row.ts
      BY <2>2, <3>1 DEF Listed
    <3> QED
      BY <2>1, <3>2
  <2> QED
    BY <1>1, <1>2, <2>1, <2>2
<1> QED
  BY <1>3, <1>4

\* Binary search finds the offset that splits at a timestamp.
LEMMA PositionSplits ==
  ASSUME NEW o \in Seq(OffsetType), \A m, n \in 1..Len(o) : m < n => o[m].ts < o[n].ts, NEW t \in Nat,
         NEW p, p = Cardinality({n \in 1..Len(o) : o[n].ts < t}) + 1
  PROVE  /\ p \in Nat /\ Splits(o, p, t)
         /\ IF p \in 1..Len(o) /\ o[p].ts = t THEN Splits(o, p + 1, t + 1) ELSE Splits(o, p, t + 1)
<1> DEFINE before == {n \in 1..Len(o) : o[n].ts < t}
<1>1. Len(o) \in Nat /\ \A n \in 1..Len(o) : o[n].ts \in Nat
  <2>1. Len(o) \in Nat /\ \A n \in 1..Len(o) : o[n] \in OffsetType
    OBVIOUS
  <2>2. \A x \in OffsetType : x.ts \in Nat
    BY DEF OffsetType
  <2> QED
    BY <2>1, <2>2
<1>2. ASSUME NEW n \in before, NEW m \in 1..Len(o), m <= n PROVE m \in before
  <2>1. CASE m = n
    BY <2>1
  <2>2. CASE m < n
    BY <1>1, <2>2
  <2> QED
    BY <1>1, <1>2, <2>1, <2>2
<1>3. PICK D \in SUBSET (1..Len(o)) : D = before
  OBVIOUS
<1>4. PICK k \in Nat : k = Len(o)
  BY <1>1
<1>5. Cardinality(D) \in 0..k /\ D = 1..Cardinality(D)
  <2>1. D \in SUBSET (1..k) /\ \A n \in D, m \in 1..k : m <= n => m \in D
    BY <1>2, <1>3, <1>4
  <2> QED
    BY <2>1, PrefixLength
<1>6. PICK c \in Nat : c = Cardinality(D)
  BY <1>5
<1>7. p = c + 1
  BY <1>3, <1>6
<1>8. c <= Len(o) /\ \A n \in 1..Len(o) : o[n].ts < t <=> n <= c
  <2>1. D = 1..c /\ c <= k
    BY <1>5, <1>6
  <2>2. \A n \in 1..Len(o) : n \in D <=> o[n].ts < t
    BY <1>3
  <2> QED
    BY <1>1, <1>4, <2>1, <2>2
<1> HIDE DEF before
<1>9. p \in Nat /\ p \in 1..(Len(o) + 1) /\ \A n \in 1..Len(o) : n < p <=> o[n].ts < t
  <2>1. p \in Nat /\ p \in 1..(Len(o) + 1)
    BY <1>1, <1>7, <1>8
  <2>2. \A n \in 1..Len(o) : n < p <=> n <= c
    BY <1>1, <1>7
  <2> QED
    BY <1>8, <2>1, <2>2, Zenon
<1>10. CASE p \in 1..Len(o) /\ o[p].ts = t
  <2>1. ASSUME NEW n \in 1..Len(o) PROVE n < p + 1 <=> o[n].ts < t + 1
    <3>1. CASE n < p
      BY <1>1, <1>9, <3>1
    <3>2. CASE n = p
      BY <1>1, <1>10, <3>2
    <3>3. CASE p < n
      <4>1. t < o[n].ts
        BY <1>10, <3>3
      <4> QED
        BY <1>1, <1>9, <3>3, <4>1
    <3> QED
      BY <1>9, <3>1, <3>2, <3>3
  <2>2. p + 1 \in 1..(Len(o) + 1)
    BY <1>1, <1>10
  <2> QED
    BY <1>9, <1>10, <2>1, <2>2 DEF Splits
<1>11. CASE ~(p \in 1..Len(o) /\ o[p].ts = t)
  <2>1. ASSUME NEW n \in 1..Len(o) PROVE n < p <=> o[n].ts < t + 1
    <3>1. CASE n < p
      BY <1>1, <1>9, <3>1
    <3>2. CASE n = p
      BY <1>1, <1>9, <1>11, <3>2
    <3>3. CASE p < n
      <4>1. o[p].ts < o[n].ts /\ ~(o[p].ts < t) /\ o[p].ts \in Nat
        BY <1>1, <1>9, <3>3
      <4> QED
        BY <1>1, <1>9, <3>3, <4>1
    <3> QED
      BY <1>9, <3>1, <3>2, <3>3
  <2> QED
    BY <1>9, <1>11, <2>1 DEF Splits
<1> QED
  BY <1>9, <1>10, <1>11 DEF Splits

\* A constraint on the timestamp is answered by a range of rows whose live rows
\* are those asked for: seminaive evaluation misses none and repeats none.
THEOREM OffsetsAreExact == Spec => []OffsetsExact
<1>1. TableInv => OffsetsExact
  <2> SUFFICES ASSUME TableInv, merge.phase \in {"idle", "rehash"}, NEW t \in 0..(MaxTs + 1),
                      NEW op \in {"eq", "lt", "le", "ge", "gt"}
               PROVE  FastSubset(op, t) \intersect LiveRows = {i \in LiveRows : Satisfies(data[i].row.ts, op, t)}
    BY Zenon DEF OffsetsExact
  <2>1. PICK d \in Seq(EntryType) : d = data
    BY DEF TableInv, TypeInv
  <2>2. PICK o \in Seq(OffsetType) : o = offsets
    BY DEF TableInv, TypeInv
  <2>3. PICK last \in Nat : last = clock
    BY ClockIsNat DEF TableInv, TypeInv
  <2>4. Placed(d, o, last) /\ Listed(d, o, Len(d) + 1)
    BY <2>1, <2>2, <2>3 DEF TableInv, OffsetInv, NextRow
  <2>5. t \in Nat /\ t + 1 \in Nat
    BY MaxTsPositive
  <2>6. PICK p : p = Position(t)
    OBVIOUS
  <2>7. Len(d) \in Nat /\ Len(o) \in Nat /\ DOMAIN data = 1..Len(d) /\ DOMAIN offsets = 1..Len(o) /\ NextRow = Len(d) + 1
    BY <2>1, <2>2 DEF NextRow
  <2>8. p = Cardinality({n \in 1..Len(o) : o[n].ts < t}) + 1
    BY <2>2, <2>6, <2>7 DEF Position
  <2>9. /\ p \in Nat /\ Splits(o, p, t)
        /\ IF p \in 1..Len(o) /\ o[p].ts = t THEN Splits(o, p + 1, t + 1) ELSE Splits(o, p, t + 1)
    <3>1. \A m, n \in 1..Len(o) : m < n => o[m].ts < o[n].ts
      BY <2>4 DEF Placed
    <3> QED
      BY <2>5, <2>8, <3>1, PositionSplits
  <2>10. PICK q \in Nat : q = IF p \in 1..Len(o) /\ o[p].ts = t THEN p + 1 ELSE p
    BY <2>9
  <2>11. Splits(o, q, t + 1)
    BY <2>9, <2>10
  <2>12. PICK from : from = IF p \in 1..Len(o) THEN o[p].first ELSE Len(d) + 1
    OBVIOUS
  <2>13. PICK to : to = IF q \in 1..Len(o) THEN o[q].first ELSE Len(d) + 1
    OBVIOUS
  <2>14. from \in 1..(Len(d) + 1) /\ \A i \in 1..Len(d) : d[i].live => (from <= i <=> t <= d[i].row.ts)
    BY <2>4, <2>5, <2>9, <2>12, SplitRows
  <2>15. to \in 1..(Len(d) + 1) /\ \A i \in 1..Len(d) : d[i].live => (to <= i <=> t + 1 <= d[i].row.ts)
    BY <2>4, <2>5, <2>11, <2>13, SplitRows
  <2>16. Begin(t) = from
    BY <2>2, <2>6, <2>7, <2>12 DEF Begin, FirstAt
  <2>17. End(t) = to
    BY <2>2, <2>6, <2>7, <2>9, <2>10, <2>13, <2>16 DEF End, Known, Begin, FirstAt
  <2>18. \A i \in 1..Len(d) : d[i].row.ts \in Nat
    <3>1. \A i \in 1..Len(d) : d[i] \in EntryType
      BY StaleFinite
    <3>2. \A e \in EntryType : e.row.ts \in Nat
      BY MaxTsPositive DEF EntryType, Row, Timestamps
    <3> QED
      BY <3>1, <3>2
  <2>19. LiveRows = {i \in 1..Len(d) : d[i].live}
    BY <2>1, <2>7 DEF LiveRows
  <2>20. ASSUME NEW i \in 1..Len(d), d[i].live PROVE i \in FastSubset(op, t) <=> Satisfies(d[i].row.ts, op, t)
    <3>1. PICK x \in Nat : x = d[i].row.ts
      BY <2>18
    <3>2. (from <= i <=> t <= x) /\ (to <= i <=> t + 1 <= x) /\ i \in 1..Len(d) /\ from \in Nat /\ to \in Nat
      BY <2>7, <2>14, <2>15, <2>20, <3>1
    <3>3. FastSubset(op, t) = CASE op = "eq" -> from..(to - 1)
                                [] op = "lt" -> 1..(from - 1)
                                [] op = "le" -> 1..(to - 1)
                                [] op = "ge" -> from..Len(d)
                                [] op = "gt" -> to..Len(d)
      BY <2>7, <2>16, <2>17 DEF FastSubset
    <3>4. CASE op = "eq"
      BY <2>5, <2>7, <3>1, <3>2, <3>3, <3>4 DEF Satisfies
    <3>5. CASE op = "lt"
      BY <2>5, <2>7, <3>1, <3>2, <3>3, <3>5 DEF Satisfies
    <3>6. CASE op = "le"
      BY <2>5, <2>7, <3>1, <3>2, <3>3, <3>6 DEF Satisfies
    <3>7. CASE op = "ge"
      BY <2>5, <2>7, <3>1, <3>2, <3>3, <3>7 DEF Satisfies
    <3>8. CASE op = "gt"
      BY <2>5, <2>7, <3>1, <3>2, <3>3, <3>8 DEF Satisfies
    <3> QED
      BY <3>4, <3>5, <3>6, <3>7, <3>8
  <2> QED
    BY <2>1, <2>19, <2>20
<1> QED
  BY <1>1, Invariant, PTL

\* Rows stay what they are: a key that leads to the row it led to, or to none,
\* has the row it had, or none.
LEMMA RowsStay ==
  ASSUME TableInv, Extends(data, data'), \A k \in Keys : hash'[k] \in {0, hash[k]}
  PROVE  \A k \in Keys : Lookup(k)' \in {Lookup(k), NoRow}
<1> SUFFICES ASSUME NEW k \in Keys PROVE Lookup(k)' \in {Lookup(k), NoRow}
  OBVIOUS
<1>1. CASE hash'[k] = 0
  BY <1>1 DEF Lookup
<1>2. CASE hash'[k] # 0
  <2>1. hash'[k] = hash[k]
    BY <1>2
  <2>2. hash[k] \in 1..Len(data)
    BY <1>2, <2>1 DEF TableInv, Linked
  <2>3. data'[hash[k]].row = data[hash[k]].row
    BY <2>2 DEF Extends
  <2> QED
    BY <1>2, <2>1, <2>3 DEF Lookup
<1> QED
  BY <1>1, <1>2

\* Nothing written, nothing new.
LEMMA Untouched ==
  ASSUME UNCHANGED <<data, hash>>
  PROVE  \A k \in Keys : Lookup(k)' = Lookup(k)
BY DEF Lookup

\* A merge that gives a key a row it did not have reports it, so the loops that
\* run until nothing is added do not stop early.
THEOREM ChangeIsReported == Spec => ChangeReported
<1> DEFINE Reported == \A k \in Keys : Lookup(k)' \notin {Lookup(k), NoRow} => merge'.added
<1>1. ASSUME TableInv, [Next]_vars PROVE [Reported]_vars
  <2>1. ASSUME UNCHANGED table PROVE Reported
    BY <2>1, Untouched DEF table
  <2>2. ASSUME NEW w \in Writers, \/ \E k \in Keys, v \in Values : StageInsert(w, k, v)
                                  \/ \E k \in Keys : StageRemove(w, k)
                                  \/ DropBuffer(w)
                                  \/ \E s \in Shards : DropShard(w, s)
        PROVE  Reported
    <3>1. UNCHANGED table
      BY <2>2, Zenon DEF StageInsert, StageRemove, DropBuffer, DropShard
    <3> QED
      BY <2>1, <3>1
  <2>3. ASSUME Tick \/ StartMerge \/ NextShard \/ RefreshIndex PROVE Reported
    <3>1. UNCHANGED table
      BY <2>3, Zenon DEF Tick, StartMerge, NextShard, RefreshIndex
    <3> QED
      BY <2>1, <3>1
  <2>4. ASSUME Clear PROVE Reported
    <3>1. UNCHANGED table \/ hash' = [k \in Keys |-> 0]
      BY <2>4 DEF Clear
    <3>2. CASE UNCHANGED table
      BY <2>1, <3>2
    <3>3. CASE hash' = [k \in Keys |-> 0]
      BY <3>3 DEF Lookup
    <3> QED
      BY <3>1, <3>2, <3>3
  <2>5. ASSUME Delete PROVE Reported
    <3>1. hash' = [k \in Keys |-> IF k \in removals THEN 0 ELSE hash[k]]
      BY <2>5 DEF Delete
    <3>2. \A k \in Keys : hash'[k] \in {0, hash[k]}
      BY <3>1
    <3> QED
      BY <1>1, <2>5, <3>2, DeleteKeeps, RowsStay
  <2>6. ASSUME NEW s \in Shards, InsertNew(s) \/ InsertMerged(s) PROVE Reported
    <3>1. merge' = [merge EXCEPT !.added = TRUE, !.owed = OwedAfterPop(s)]
      BY <2>6 DEF InsertNew, InsertMerged
    <3>2. merge \in MergeType
      BY <1>1 DEF TableInv, TypeInv
    <3>3. merge'.added
      BY <3>1, <3>2 DEF MergeType
    <3> QED
      BY <3>3
  <2>7. ASSUME NEW s \in Shards, InsertUnchanged(s) PROVE Reported
    BY <2>7, Untouched DEF InsertUnchanged
  <2>8. ASSUME NEW s \in Shards, Gather(s) PROVE Reported
    BY <2>1, <2>8 DEF Gather
  <2>9. ASSUME NEW s \in Shards, FlushBatch(s) PROVE Reported
    <3>1. CASE LiveStaged(s) = {}
      <4>1. PICK kept : hash' = LinkMap(data, hash, merge.staged[s], LiveStaged(s) \ kept)
        BY <2>9, Zenon DEF FlushBatch, Flush, LinkMap
      <4>2. LiveStaged(s) \ kept = {}
        BY <3>1
      <4>3. hash' = LinkMap(data, hash, merge.staged[s], {})
        BY <4>1, <4>2
      <4>4. \A k \in Keys : hash'[k] = hash[k]
        BY <4>3 DEF LinkMap
      <4> QED
        BY <1>1, <2>9, <4>4, FlushBatchKeeps, RowsStay
    <3>2. CASE LiveStaged(s) # {}
      <4>1. PICK stale, ts, working :
              merge' = [merge EXCEPT !.staged[s] = <<>>, !.stale = stale, !.added = @ \/ LiveStaged(s) # {},
                                     !.ts = ts, !.working = working]
        BY <2>9, Zenon DEF FlushBatch, Flush
      <4>2. merge \in MergeType
        BY <1>1 DEF TableInv, TypeInv
      <4>3. merge'.added = (merge.added \/ LiveStaged(s) # {})
        BY <4>1, <4>2 DEF MergeType
      <4> QED
        BY <3>2, <4>3
    <3> QED
      BY <3>1, <3>2
  <2>10. ASSUME JoinTasks PROVE Reported
    BY <2>10, Untouched DEF JoinTasks
  <2>11. ASSUME EndMerge(SerialOrders) \/ EndMerge(ShardOrders) PROVE Reported
    <3>1. UNCHANGED table \/ Rehashed(data, hash, clock, data', hash')
      BY <1>1, <2>11, EndMergeKeeps
    <3>2. CASE Rehashed(data, hash, clock, data', hash')
      <4>1. ASSUME NEW k \in Keys PROVE Lookup(k)' = Lookup(k)
        BY <3>2 DEF Lookup, Rehashed
      <4> QED
        BY <4>1
    <3> QED
      BY <2>1, <3>1, <3>2
  <2> HIDE DEF Reported
  <2>12. Next => Reported
    BY <2>2, <2>3, <2>4, <2>5, <2>6, <2>7, <2>8, <2>9, <2>10, <2>11, Zenon DEF Next
  <2> QED
    BY <1>1, <2>12
<1>2. TableInv /\ [Next]_vars => [\A k \in Keys : Lookup(k)' \notin {Lookup(k), NoRow} => merge'.added]_vars
  BY <1>1
<1> QED
  BY <1>2, Invariant, PTL DEF Spec, ChangeReported

-----------------------------------------------------------------------------
(* The table implements KeyedTable. *)

\* Where a row is in a queue.
Places(q, r) == {n \in 1..Len(q) : q[n] = r}

\* Queues are finite, and a row is in them a number of times.
LEMMA CountFacts ==
  ASSUME NEW q \in Seq(Row), NEW r
  PROVE  /\ Count(q, r) = Cardinality(Places(q, r)) /\ IsFiniteSet(Places(q, r)) /\ Count(q, r) \in Nat
         /\ Len(q) \in Nat /\ (q = <<>> => Count(q, r) = 0)
<1>1. Len(q) \in Nat /\ DOMAIN q = 1..Len(q)
  OBVIOUS
<1>2. IsFiniteSet(Places(q, r))
  <2>1. IsFiniteSet(1..Len(q))
    BY <1>1, FS_Interval
  <2>2. Places(q, r) \subseteq 1..Len(q)
    BY DEF Places
  <2> QED
    BY <2>1, <2>2, FS_Subset
<1>3. Count(q, r) = Cardinality(Places(q, r))
  BY <1>1 DEF Count, Places
<1>4. Cardinality(Places(q, r)) \in Nat
  BY <1>2, FS_CardinalityType
<1>5. ASSUME q = <<>> PROVE Cardinality(Places(q, r)) = 0
  <2>1. Places(q, r) = {}
    BY <1>5 DEF Places
  <2> QED
    BY <2>1, FS_EmptySet
<1> QED
  BY <1>1, <1>2, <1>3, <1>4, <1>5

\* Rows behind others take none of them away.
LEMMA CountJoined ==
  ASSUME NEW p \in Seq(Row), NEW q \in Seq(Row), NEW r
  PROVE  Count(p \o q, r) >= Count(p, r)
<1>0. p \o q \in Seq(Row)
  OBVIOUS
<1>1. PICK z \in Seq(Row) : z = p \o q
  BY <1>0
<1>2. Len(z) = Len(p) + Len(q) /\ Len(p) \in Nat /\ Len(q) \in Nat /\ \A n \in 1..Len(p) : z[n] = p[n]
  BY <1>1
<1>3. Places(p, r) \subseteq Places(z, r)
  BY <1>2 DEF Places
<1>4. Cardinality(Places(p, r)) <= Cardinality(Places(z, r))
  BY <1>3, CountFacts, FS_Subset
<1> QED
  BY <1>1, <1>4, CountFacts

\* The first row of a queue counts once.
LEMMA CountTail ==
  ASSUME NEW q \in Seq(Row), q # <<>>, NEW r
  PROVE  Count(q, r) = Count(Tail(q), r) + (IF r = Head(q) THEN 1 ELSE 0)
<1>0. Tail(q) \in Seq(Row)
  OBVIOUS
<1>1. PICK t \in Seq(Row) : t = Tail(q)
  BY <1>0
<1>2. /\ Len(q) \in Nat /\ Len(t) \in Nat /\ Len(q) = Len(t) + 1 /\ Head(q) = q[1]
      /\ \A n \in 1..Len(t) : t[n] = q[n + 1]
  BY <1>1
<1> DEFINE S == Places(t, r)
           T == Places(q, r) \ {1}
           f == [n \in S |-> n + 1]
<1>3. f \in [S -> T] /\ \A x, y \in S : f[x] = f[y] => x = y
  BY <1>2 DEF Places
<1>4. ASSUME NEW y \in T PROVE \E x \in S : f[x] = y
  <2>1. y \in 2..Len(q) /\ q[y] = r
    BY <1>2 DEF Places
  <2>2. y - 1 \in 1..Len(t) /\ (y - 1) + 1 = y
    BY <1>2, <2>1
  <2>3. t[y - 1] = r
    BY <1>2, <2>1, <2>2
  <2>4. y - 1 \in S /\ f[y - 1] = y
    BY <2>2, <2>3 DEF Places
  <2> QED
    BY <2>4
<1>5. IsFiniteSet(S) /\ Cardinality(S) = Count(t, r) /\ IsFiniteSet(Places(q, r)) /\ Count(q, r) = Cardinality(Places(q, r))
      /\ Count(q, r) \in Nat /\ Count(t, r) \in Nat
  BY CountFacts
<1>6. Cardinality(T) = Count(t, r)
  <2> HIDE DEF S, T, f
  <2> QED
    BY <1>3, <1>4, <1>5, SameSize
<1>7. CASE r = Head(q)
  <2>1. 1 \in Places(q, r)
    BY <1>2, <1>7 DEF Places
  <2>2. Cardinality(T) = Cardinality(Places(q, r)) - 1
    BY <1>5, <2>1, FS_RemoveElement
  <2> QED
    BY <1>1, <1>5, <1>6, <1>7, <2>2
<1>8. CASE r # Head(q)
  <2>1. T = Places(q, r)
    BY <1>2, <1>8 DEF Places
  <2> HIDE DEF T
  <2> QED
    BY <1>1, <1>5, <1>6, <1>8, <2>1
<1> QED
  BY <1>7, <1>8

\* The rows a merge owes are at the head of a queue: they stay what they are when
\* others are queued, and the first of them is the first of the queue.
LEMMA OwedRows ==
  ASSUME NEW q \in Seq(Row), NEW n \in 0..Len(q)
  PROVE  /\ SubSeq(q, 1, n) \in Seq(Row)
         /\ n = 0 => SubSeq(q, 1, n) = <<>>
         /\ n = Len(q) => SubSeq(q, 1, n) = q
         /\ \A p \in Seq(Row) : SubSeq(q \o p, 1, n) = SubSeq(q, 1, n)
         /\ n > 0 => /\ SubSeq(q, 1, n) # <<>> /\ Head(SubSeq(q, 1, n)) = Head(q)
                     /\ Tail(SubSeq(q, 1, n)) = SubSeq(Tail(q), 1, n - 1)
<1>1. Len(q) \in Nat /\ n \in Nat /\ n <= Len(q)
  OBVIOUS
<1>2. ASSUME NEW z \in Seq(Row), NEW m \in Nat, m <= Len(z)
      PROVE  SubSeq(z, 1, m) \in Seq(Row) /\ Len(SubSeq(z, 1, m)) = m /\ \A i \in 1..m : SubSeq(z, 1, m)[i] = z[i]
  BY <1>2
<1>3. ASSUME NEW u \in Seq(Row), NEW v \in Seq(Row), Len(u) = Len(v), \A i \in 1..Len(u) : u[i] = v[i]
      PROVE  u = v
  BY <1>3
<1>4. SubSeq(q, 1, n) \in Seq(Row) /\ Len(SubSeq(q, 1, n)) = n /\ \A i \in 1..n : SubSeq(q, 1, n)[i] = q[i]
  BY <1>1, <1>2
<1>5. PICK s \in Seq(Row) : s = SubSeq(q, 1, n)
  BY <1>4
<1>6. Len(s) = n /\ \A i \in 1..n : s[i] = q[i]
  BY <1>4, <1>5
<1>7. n = 0 => s = <<>>
  BY <1>6
<1>8. n = Len(q) => s = q
  BY <1>1, <1>3, <1>6
<1>9. ASSUME NEW p \in Seq(Row) PROVE SubSeq(q \o p, 1, n) = s
  <2>1. q \o p \in Seq(Row) /\ Len(q \o p) = Len(q) + Len(p) /\ Len(p) \in Nat /\ \A i \in 1..Len(q) : (q \o p)[i] = q[i]
    OBVIOUS
  <2>2. PICK z \in Seq(Row) : z = q \o p
    BY <2>1
  <2>3. n <= Len(z) /\ \A i \in 1..n : z[i] = q[i]
    BY <1>1, <2>1, <2>2
  <2>4. SubSeq(z, 1, n) \in Seq(Row) /\ Len(SubSeq(z, 1, n)) = n /\ \A i \in 1..n : SubSeq(z, 1, n)[i] = z[i]
    BY <1>1, <1>2, <2>3
  <2>5. PICK t \in Seq(Row) : t = SubSeq(z, 1, n)
    BY <2>4
  <2>6. Len(t) = n /\ \A i \in 1..n : t[i] = s[i]
    BY <1>6, <2>3, <2>4, <2>5
  <2>7. t = s
    BY <1>3, <1>6, <2>6
  <2> QED
    BY <2>2, <2>5, <2>7
<1>10. ASSUME n > 0 PROVE s # <<>> /\ Head(s) = Head(q) /\ Tail(s) = SubSeq(Tail(q), 1, n - 1)
  <2>1. s # <<>> /\ q # <<>> /\ 1 \in 1..n
    BY <1>1, <1>6, <1>10
  <2>2. Head(s) = Head(q)
    BY <1>6, <2>1
  <2>3. Tail(q) \in Seq(Row) /\ Len(Tail(q)) = Len(q) - 1 /\ \A i \in 1..(Len(q) - 1) : Tail(q)[i] = q[i + 1]
    BY <2>1
  <2>4. Tail(s) \in Seq(Row) /\ Len(Tail(s)) = n - 1 /\ \A i \in 1..(n - 1) : Tail(s)[i] = s[i + 1]
    BY <1>6, <2>1
  <2>5. PICK t \in Seq(Row) : t = Tail(q)
    BY <2>3
  <2>6. PICK u \in Seq(Row) : u = Tail(s)
    BY <2>4
  <2>7. PICK m \in Nat : m = n - 1
    BY <1>1, <1>10
  <2>8. m <= Len(t)
    BY <1>1, <2>3, <2>5, <2>7
  <2>9. SubSeq(t, 1, m) \in Seq(Row) /\ Len(SubSeq(t, 1, m)) = m /\ \A i \in 1..m : SubSeq(t, 1, m)[i] = t[i]
    BY <1>2, <2>8
  <2>10. PICK v \in Seq(Row) : v = SubSeq(t, 1, m)
    BY <2>9
  <2>11. Len(v) = m /\ Len(u) = m
    BY <2>4, <2>6, <2>7, <2>9, <2>10
  <2>12. ASSUME NEW i \in 1..m PROVE u[i] = v[i]
    <3>1. i + 1 \in 1..n /\ i \in 1..(n - 1) /\ i \in 1..(Len(q) - 1)
      BY <1>1, <2>7
    <3>2. u[i] = s[i + 1] /\ s[i + 1] = q[i + 1]
      BY <1>6, <2>4, <2>6, <3>1
    <3>3. v[i] = t[i] /\ t[i] = q[i + 1]
      BY <2>3, <2>5, <2>9, <2>10, <3>1
    <3> QED
      BY <3>2, <3>3
  <2>13. u = v
    BY <1>3, <2>11, <2>12
  <2> QED
    BY <2>1, <2>2, <2>5, <2>6, <2>7, <2>10, <2>13
<1> QED
  BY <1>5, <1>7, <1>8, <1>9, <1>10

\* A merge function that lets one of two values win.  A value that wins over a winner
\* wins over what that one has beaten, and one that loses to a loser loses too:
\* minimum, maximum and keeping the old value are such functions.
Beats(w, v) == Combine(v, w) # v
Chooses ==
  /\ \A v, w \in Values : Combine(v, w) \in {v, w}
  /\ \A u, v, w \in Values : Beats(v, u) /\ Beats(w, v) => Beats(w, u)
  /\ \A u, v, w \in Values : ~Beats(v, u) /\ ~Beats(w, v) => ~Beats(w, u)

\* Such a function leaves one of the two rows.
LEMMA OneOfTwo ==
  ASSUME Chooses, NEW cur \in Row, NEW row \in Row
  PROVE  Applied(cur, row) = IF Beats(row.val, cur.val) THEN row ELSE cur
<1> DEFINE v == Combine(cur.val, row.val)
<1>1. cur.val \in Values /\ row.val \in Values /\ cur # NoRow
  BY NoRowIsNoRow DEF Row
<1>2. v \in {cur.val, row.val}
  BY <1>1 DEF Chooses
<1>3. Applied(cur, row) = IF v = cur.val THEN cur ELSE [row EXCEPT !.val = v]
  BY <1>1 DEF Applied
<1>4. Beats(row.val, cur.val) <=> v # cur.val
  BY DEF Beats
<1> HIDE DEF v
<1>5. v = row.val => [row EXCEPT !.val = v] = row
  BY DEF Row
<1> QED
  BY <1>2, <1>3, <1>4, <1>5

\* It does not matter whether two rows are merged with each other before they are
\* merged with the row of the table.
LEMMA BatchedMerge ==
  ASSUME Chooses, NEW cur \in Row \cup {NoRow}, NEW g \in Row, NEW row \in Row
  PROVE  /\ Applied(cur, g) \in {cur, g}
         /\ Applied(cur, g) \in Row
         /\ Applied(cur, Applied(g, row)) = Applied(Applied(cur, g), row)
<1>1. Applied(g, row) = IF Beats(row.val, g.val) THEN row ELSE g
  BY OneOfTwo
<1>2. CASE cur = NoRow
  <2>1. \A r \in Row : Applied(cur, r) = r
    BY <1>2 DEF Applied
  <2> QED
    BY <1>1, <2>1
<1>3. CASE cur \in Row
  <2>1. \A r \in Row : Applied(cur, r) = IF Beats(r.val, cur.val) THEN r ELSE cur
    BY <1>3, OneOfTwo
  <2>2. Applied(cur, row) = IF Beats(row.val, cur.val) THEN row ELSE cur
    BY <2>1
  <2>3. Applied(cur, g) = IF Beats(g.val, cur.val) THEN g ELSE cur
    BY <2>1
  <2>4. cur.val \in Values /\ g.val \in Values /\ row.val \in Values
    BY <1>3 DEF Row
  <2>5. /\ Beats(g.val, cur.val) /\ Beats(row.val, g.val) => Beats(row.val, cur.val)
        /\ ~Beats(g.val, cur.val) /\ ~Beats(row.val, g.val) => ~Beats(row.val, cur.val)
    BY <2>4 DEF Chooses
  <2>6. CASE Beats(row.val, g.val)
    BY <1>1, <1>3, <2>2, <2>3, <2>5, <2>6
  <2>7. CASE ~Beats(row.val, g.val)
    BY <1>1, <1>3, <2>2, <2>3, <2>5, <2>7
  <2> QED
    BY <2>6, <2>7
<1> QED
  BY <1>2, <1>3

\* The block c is b with row e gathered, in the place of what b had for its key.
Gathers(b, e, c) ==
  /\ Len(c) = Len(b) + 1
  /\ c[Len(b) + 1] = Entry(e)
  /\ \A i \in 1..Len(b) : c[i].row = b[i].row /\ (c[i].live <=> b[i].live /\ b[i].row.key # e.key)

\* StagedOutputs::insert makes such a block.
LEMMA GatheredBlock ==
  ASSUME NEW b \in Seq(EntryType), NEW e \in Row,
         NEW at, at = {i \in 1..Len(b) : b[i].live /\ b[i].row.key = e.key}
  PROVE  Gathers(b, e, Append(Retired(b, at), Entry(e)))
<1> DEFINE r == Retired(b, at)
           c == Append(r, Entry(e))
           n == Len(b)
<1>1. /\ r \in Seq(EntryType) /\ Len(r) = n /\ n \in Nat
      /\ \A i \in 1..n : r[i].row = b[i].row /\ (r[i].live <=> b[i].live /\ i \notin at)
  BY RetiredFacts
<1>2. Entry(e) \in EntryType
  BY OneRow
<1> HIDE DEF r, n
<1>3. Len(c) = n + 1 /\ c[n + 1] = Entry(e) /\ \A i \in 1..n : c[i] = r[i]
  BY <1>1, <1>2
<1>4. \A i \in 1..n : i \in at <=> b[i].live /\ b[i].row.key = e.key
  BY DEF n
<1> HIDE DEF c
<1>5. \A i \in 1..n : c[i].row = b[i].row /\ (c[i].live <=> b[i].live /\ b[i].row.key # e.key)
  BY <1>1, <1>3, <1>4
<1> QED
  BY <1>3, <1>5 DEF Gathers, n, c, r

\* It replaces what was gathered for the key and nothing else.
LEMMA GatheredNext ==
  ASSUME NEW b \in Seq(EntryType), UniqueKeys(b), NEW e \in Row,
         NEW c \in Seq(EntryType), UniqueKeys(c), Gathers(b, e, c)
  PROVE  /\ RowFor(c, e.key) = e
         /\ \A k : k # e.key => RowFor(c, k) = RowFor(b, k)
         /\ \A i \in 1..Len(c) : c[i].live => c[i].row = e \/ \E j \in 1..Len(b) : b[j].live /\ b[j].row = c[i].row
<1>1. PICK n \in Nat : n = Len(b)
  OBVIOUS
<1>2. /\ Len(c) = n + 1 /\ c[n + 1] = Entry(e)
      /\ \A i \in 1..n : c[i].row = b[i].row /\ (c[i].live <=> b[i].live /\ b[i].row.key # e.key)
  BY <1>1 DEF Gathers
<1>3. c[n + 1].live /\ c[n + 1].row = e
  BY <1>2 DEF Entry
<1>4. n + 1 \in 1..Len(c) /\ \A i \in 1..Len(c) : i \in 1..n \/ i = n + 1
  BY <1>2
<1>5. RowFor(c, e.key) = e
  BY <1>3, <1>4, OnlyRowFor
<1>6. ASSUME NEW k, k # e.key PROVE RowFor(c, k) = RowFor(b, k)
  <2>1. ASSUME NEW i \in 1..n, b[i].live, b[i].row.key = k PROVE RowFor(c, k) = b[i].row
    <3>1. c[i].live /\ c[i].row = b[i].row /\ i \in 1..Len(c)
      BY <1>2, <1>6, <2>1
    <3> QED
      BY <2>1, <3>1, OnlyRowFor
  <2>2. ASSUME \A i \in 1..n : b[i].live => b[i].row.key # k PROVE RowFor(c, k) = NoRow
    <3>1. \A i \in 1..Len(c) : c[i].live => c[i].row.key # k
      BY <1>2, <1>3, <1>4, <1>6, <2>2
    <3> QED
      BY <3>1, OnlyRowFor
  <2> QED
    BY <1>1, <2>1, <2>2, OnlyRowFor
<1>7. ASSUME NEW i \in 1..Len(c), c[i].live PROVE c[i].row = e \/ \E j \in 1..Len(b) : b[j].live /\ b[j].row = c[i].row
  BY <1>1, <1>2, <1>3, <1>4, <1>7
<1> QED
  BY <1>5, <1>6, <1>7

\* Rows are queued, staged and gathered with the shard of their key.
OfShard(q, s) == \A n \in 1..Len(q) : ShardOf[q[n].key] = s
InPlace(q, b, staged) ==
  /\ \A s \in Shards : OfShard(q[s], s)
  /\ \A w \in Writers, s \in Shards : OfShard(b[w].rows[s], s)
  /\ \A s \in Shards : \A i \in 1..Len(staged[s]) : staged[s][i].live => ShardOf[staged[s][i].row.key] = s

\* How far a merge has come: what it owes is queued, and a shard that it is done
\* with is owed nothing.
Progress(phase, shard, staged, working, owed, q) ==
  /\ \A s \in Shards : owed[s] <= Len(q[s])
  /\ phase # "parallel" => \A s \in Shards : staged[s] = <<>>
  /\ phase \in {"idle", "rehash"} => \A s \in Shards : owed[s] = 0
  /\ phase = "serial" => shard \in Shards /\ \A s \in Shards : s < shard => owed[s] = 0
  /\ phase = "parallel" => \A s \in Shards : s \in working \/ (owed[s] = 0 /\ staged[s] = <<>>)

ShardInv ==
  /\ InPlace(queue, buffers, merge.staged)
  /\ Progress(merge.phase, merge.shard, merge.staged, merge.working, merge.owed, queue)

\* Nothing is out of place in an empty queue.
LEMMA NothingOut == ASSUME NEW s PROVE OfShard(<<>>, s) /\ Len(<<>>) = 0
BY DEF OfShard

\* Rows of a shard after rows of the same shard.
LEMMA JoinedShard ==
  ASSUME NEW p \in Seq(Row), NEW q \in Seq(Row), NEW s, OfShard(p, s), OfShard(q, s)
  PROVE  p \o q \in Seq(Row) /\ OfShard(p \o q, s) /\ Len(p \o q) = Len(p) + Len(q)
<1> DEFINE z == p \o q
<1>1. /\ z \in Seq(Row) /\ Len(z) = Len(p) + Len(q) /\ Len(p) \in Nat /\ Len(q) \in Nat
      /\ \A n \in 1..Len(p) : z[n] = p[n]
      /\ \A n \in 1..Len(q) : z[Len(p) + n] = q[n]
  OBVIOUS
<1> HIDE DEF z
<1>2. ASSUME NEW n \in 1..Len(z) PROVE ShardOf[z[n].key] = s
  <2>1. CASE n \in 1..Len(p)
    BY <1>1, <2>1 DEF OfShard
  <2>2. CASE n \notin 1..Len(p)
    <3>1. n - Len(p) \in 1..Len(q) /\ n = Len(p) + (n - Len(p))
      BY <1>1, <2>2
    <3>2. PICK m \in 1..Len(q) : n = Len(p) + m
      BY <3>1
    <3> QED
      BY <1>1, <3>2 DEF OfShard
  <2> QED
    BY <2>1, <2>2
<1>3. OfShard(z, s)
  BY <1>2 DEF OfShard
<1> QED
  BY <1>1, <1>3 DEF z

\* Taking the first row of a queue.
LEMMA TakenFrom ==
  ASSUME NEW q \in Seq(Row), q # <<>>, NEW s, OfShard(q, s)
  PROVE  /\ Tail(q) \in Seq(Row) /\ OfShard(Tail(q), s) /\ Len(q) \in Nat /\ Len(Tail(q)) = Len(q) - 1
         /\ Head(q) \in Row /\ ShardOf[Head(q).key] = s
<1>1. /\ Tail(q) \in Seq(Row) /\ Len(q) \in Nat /\ Len(Tail(q)) = Len(q) - 1 /\ Head(q) = q[1] /\ 1 \in 1..Len(q)
      /\ \A n \in 1..Len(Tail(q)) : n + 1 \in 1..Len(q) /\ Tail(q)[n] = q[n + 1]
  OBVIOUS
<1>2. OfShard(Tail(q), s)
  BY <1>1 DEF OfShard
<1> QED
  BY <1>1, <1>2 DEF OfShard

\* Both hold of an empty table.
LEMMA ShardInvInit ==
  ASSUME Init
  PROVE  ShardInv
<1>1. \A s \in Shards : queue[s] = <<>> /\ merge.staged[s] = <<>> /\ merge.owed[s] = 0
  BY DEF Init, Idle
<1>2. \A w \in Writers, s \in Shards : buffers[w].rows[s] = <<>>
  BY DEF Init, EmptyBuffer
<1>3. merge.phase = "idle"
  BY DEF Init, Idle
<1> QED
  BY <1>1, <1>2, <1>3, NothingOut DEF ShardInv, InPlace, Progress

\* A step that changes neither the queues, the buffers nor the merge.
LEMMA ShardFrame ==
  ASSUME ShardInv, UNCHANGED <<queue, buffers, merge>>
  PROVE  ShardInv'
BY DEF ShardInv, InPlace, Progress, OfShard, Shards

\* Staging puts a row where its key belongs.
LEMMA StageInsertInPlace ==
  ASSUME TableInv, ShardInv, NEW w \in Writers, NEW k \in Keys, NEW v \in Values, StageInsert(w, k, v)
  PROVE  ShardInv'
<1> DEFINE row == [key |-> k, val |-> v, ts |-> clock]
           s == ShardOf[k]
<1>1. merge' = merge /\ queue' = queue /\ buffers' = [buffers EXCEPT ![w].rows[s] = Append(@, row)]
  BY DEF StageInsert
<1>2. s \in Shards
  BY TableConstants DEF Shards
<1>3. row \in Row /\ row.key = k
  BY DEF TableInv, TypeInv, Row
<1>4. buffers \in [Writers -> [rows : [Shards -> Seq(Row)], removals : SUBSET Keys]]
  BY DEF TableInv, TypeInv
<1> HIDE DEF row
<1>5. PICK q \in Seq(Row) : q = buffers[w].rows[s]
  BY <1>2, <1>4
<1>6. \A u \in Writers, z \in Shards :
        buffers'[u].rows[z] = IF u = w /\ z = s THEN Append(q, row) ELSE buffers[u].rows[z]
  BY <1>1, <1>2, <1>4, <1>5
<1>7. OfShard(q, s)
  BY <1>2, <1>5 DEF ShardInv, InPlace
<1>8. OfShard(Append(q, row), s)
  <2>1. Len(Append(q, row)) = Len(q) + 1 /\ Append(q, row)[Len(q) + 1] = row /\ Len(q) \in Nat
        /\ \A m \in 1..Len(q) : Append(q, row)[m] = q[m]
    BY <1>3
  <2>2. \A n \in 1..Len(Append(q, row)) : n \in 1..Len(q) \/ n = Len(q) + 1
    BY <2>1
  <2>3. ASSUME NEW n \in 1..Len(Append(q, row)) PROVE ShardOf[Append(q, row)[n].key] = s
    BY <1>3, <1>7, <2>1, <2>2 DEF OfShard
  <2> QED
    BY <2>3 DEF OfShard
<1>9. \A u \in Writers, z \in Shards : OfShard(buffers'[u].rows[z], z)
  BY <1>6, <1>8 DEF ShardInv, InPlace
<1>10. InPlace(queue', buffers', merge'.staged)
  BY <1>1, <1>9 DEF ShardInv, InPlace
<1> QED
  BY <1>1, <1>10 DEF ShardInv, InPlace, Progress, OfShard, Shards

\* Buffered rows are handed over shard by shard, behind what is owed.
LEMMA DropBufferInPlace ==
  ASSUME TableInv, ShardInv, NEW w \in Writers, DropBuffer(w)
  PROVE  ShardInv'
<1>1. /\ merge' = merge
      /\ queue' = [s \in Shards |-> queue[s] \o buffers[w].rows[s]]
      /\ buffers' = [buffers EXCEPT ![w] = EmptyBuffer]
  BY DEF DropBuffer
<1>2. /\ buffers \in [Writers -> [rows : [Shards -> Seq(Row)], removals : SUBSET Keys]]
      /\ queue \in [Shards -> Seq(Row)] /\ merge \in MergeType
  BY DEF TableInv, TypeInv
<1>3. ASSUME NEW s \in Shards PROVE OfShard(queue'[s], s) /\ merge.owed[s] <= Len(queue'[s])
  <2>1. PICK p \in Seq(Row) : p = queue[s]
    BY <1>2
  <2>2. PICK q \in Seq(Row) : q = buffers[w].rows[s]
    BY <1>2
  <2>3. OfShard(p, s) /\ OfShard(q, s) /\ merge.owed[s] <= Len(p)
    BY <2>1, <2>2 DEF ShardInv, InPlace, Progress
  <2>4. OfShard(p \o q, s) /\ Len(p \o q) = Len(p) + Len(q) /\ Len(p) \in Nat /\ Len(q) \in Nat
    BY <2>3, JoinedShard
  <2>5. merge.owed[s] \in Nat
    BY <1>2 DEF MergeType
  <2>6. queue'[s] = p \o q
    BY <1>1, <2>1, <2>2
  <2> QED
    BY <2>3, <2>4, <2>5, <2>6
<1>4. ASSUME NEW u \in Writers, NEW s \in Shards PROVE OfShard(buffers'[u].rows[s], s)
  <2>1. CASE u = w
    <3>1. buffers'[u].rows[s] = <<>>
      BY <1>1, <1>2, <2>1 DEF EmptyBuffer
    <3> QED
      BY <3>1, NothingOut
  <2>2. CASE u # w
    BY <1>1, <1>2, <2>2 DEF ShardInv, InPlace
  <2> QED
    BY <2>1, <2>2
<1>5. InPlace(queue', buffers', merge'.staged)
  BY <1>1, <1>3, <1>4 DEF ShardInv, InPlace
<1>6. Progress(merge'.phase, merge'.shard, merge'.staged, merge'.working, merge'.owed, queue')
  BY <1>1, <1>3 DEF ShardInv, Progress
<1> QED
  BY <1>5, <1>6 DEF ShardInv, InPlace, Progress, OfShard, Shards

\* So are those of one shard, during a merge.
LEMMA DropShardInPlace ==
  ASSUME TableInv, ShardInv, NEW w \in Writers, NEW s \in Shards, DropShard(w, s)
  PROVE  ShardInv'
<1>1. /\ merge' = merge
      /\ queue' = [queue EXCEPT ![s] = @ \o buffers[w].rows[s]]
      /\ buffers' = [buffers EXCEPT ![w].rows[s] = <<>>]
  BY DEF DropShard
<1>2. /\ buffers \in [Writers -> [rows : [Shards -> Seq(Row)], removals : SUBSET Keys]]
      /\ queue \in [Shards -> Seq(Row)] /\ merge \in MergeType
  BY DEF TableInv, TypeInv
<1>3. PICK p \in Seq(Row) : p = queue[s]
  BY <1>2
<1>4. PICK q \in Seq(Row) : q = buffers[w].rows[s]
  BY <1>2
<1>5. OfShard(p, s) /\ OfShard(q, s) /\ merge.owed[s] <= Len(p) /\ merge.owed[s] \in Nat
  BY <1>2, <1>3, <1>4 DEF ShardInv, InPlace, Progress, MergeType
<1>6. OfShard(p \o q, s) /\ Len(p \o q) = Len(p) + Len(q) /\ Len(p) \in Nat /\ Len(q) \in Nat
  BY <1>5, JoinedShard
<1>7. \A z \in Shards : queue'[z] = IF z = s THEN p \o q ELSE queue[z]
  BY <1>1, <1>2, <1>3, <1>4
<1>8. \A z \in Shards : OfShard(queue'[z], z) /\ merge.owed[z] <= Len(queue'[z])
  <2> SUFFICES ASSUME NEW z \in Shards PROVE OfShard(queue'[z], z) /\ merge.owed[z] <= Len(queue'[z])
    OBVIOUS
  <2>1. CASE z = s
    <3>1. queue'[z] = p \o q
      BY <1>7, <2>1
    <3>2. merge.owed[s] <= Len(p \o q)
      BY <1>5, <1>6
    <3> QED
      BY <1>6, <2>1, <3>1, <3>2
  <2>2. CASE z # s
    BY <1>7, <2>2 DEF ShardInv, InPlace, Progress
  <2> QED
    BY <2>1, <2>2
<1>9. \A u \in Writers, z \in Shards : buffers'[u].rows[z] = IF u = w /\ z = s THEN <<>> ELSE buffers[u].rows[z]
  BY <1>1, <1>2
<1>10. \A u \in Writers, z \in Shards : OfShard(buffers'[u].rows[z], z)
  BY <1>9, NothingOut DEF ShardInv, InPlace
<1>11. InPlace(queue', buffers', merge'.staged)
  BY <1>1, <1>8, <1>10 DEF ShardInv, InPlace
<1>12. Progress(merge'.phase, merge'.shard, merge'.staged, merge'.working, merge'.owed, queue')
  BY <1>1, <1>8 DEF ShardInv, Progress
<1> QED
  BY <1>11, <1>12 DEF ShardInv, InPlace, Progress, OfShard, Shards

\* The parts of ShardInv in the new state, from what the new state is.
LEMMA ShardNext ==
  ASSUME InPlace(queue', buffers', merge'.staged),
         Progress(merge'.phase, merge'.shard, merge'.staged, merge'.working, merge'.owed, queue')
  PROVE  ShardInv'
BY DEF ShardInv, InPlace, Progress, OfShard, Shards

\* A cleared table has empty queues.
LEMMA ClearInPlace ==
  ASSUME TableInv, ShardInv, Clear
  PROVE  ShardInv'
<1>1. merge' = merge /\ buffers' = buffers /\ queue' = [s \in Shards |-> <<>>] /\ merge.phase = "idle"
  BY DEF Clear
<1>2. \A s \in Shards : queue'[s] = <<>> /\ OfShard(queue'[s], s) /\ Len(queue'[s]) = 0
  BY <1>1, NothingOut
<1>3. InPlace(queue', buffers', merge'.staged)
  BY <1>1, <1>2 DEF ShardInv, InPlace
<1>4. Progress(merge'.phase, merge'.shard, merge'.staged, merge'.working, merge'.owed, queue')
  BY <1>1, <1>2 DEF ShardInv, Progress
<1> QED
  BY <1>3, <1>4, ShardNext

\* A merge owes what is queued when it starts.
LEMMA StartMergeInPlace ==
  ASSUME TableInv, ShardInv, StartMerge
  PROVE  /\ ShardInv'
         /\ merge'.phase = "delete" /\ (\A s \in Shards : merge'.owed[s] = Len(queue[s])) /\ merge'.staged = merge.staged
<1>1. /\ merge.phase = "idle" /\ queue' = queue /\ buffers' = buffers
      /\ merge' = [Idle EXCEPT !.phase = "delete", !.owed = [s \in Shards |-> Len(queue[s])]]
  BY DEF StartMerge, inbox
<1>2. merge = Idle
  BY <1>1 DEF TableInv, TypeInv
<1>3. merge'.phase = "delete" /\ merge'.staged = Idle.staged /\ \A s \in Shards : merge'.owed[s] = Len(queue[s])
  BY <1>1 DEF Idle
<1>4. \A s \in Shards : merge'.staged[s] = <<>>
  BY <1>3 DEF Idle
<1>5. InPlace(queue', buffers', merge'.staged)
  BY <1>1, <1>2, <1>3 DEF ShardInv, InPlace
<1>6. \A s \in Shards : Len(queue[s]) \in Nat
  BY DEF TableInv, TypeInv
<1>7. Progress(merge'.phase, merge'.shard, merge'.staged, merge'.working, merge'.owed, queue')
  BY <1>1, <1>3, <1>4, <1>6 DEF Progress
<1> QED
  BY <1>2, <1>3, <1>5, <1>7, ShardNext

\* Removals leave queues alone; the insertions begin with the first shard, or with all.
LEMMA DeleteInPlace ==
  ASSUME TableInv, ShardInv, Delete
  PROVE  ShardInv' /\ merge'.owed = merge.owed /\ merge'.staged = merge.staged /\ merge'.phase \in {"serial", "parallel"}
<1>1. merge.phase = "delete" /\ queue' = queue /\ buffers' = buffers
  BY DEF Delete
<1>2. PICK path \in {"serial", "parallel"} :
        merge' = [merge EXCEPT !.phase = path, !.shard = 1, !.working = Shards, !.start = NextRow]
  BY DEF Delete
<1>3. merge \in MergeType
  BY DEF TableInv, TypeInv
<1>4. /\ merge'.phase = path /\ merge'.shard = 1 /\ merge'.working = Shards
      /\ merge'.staged = merge.staged /\ merge'.owed = merge.owed
  BY <1>2, <1>3 DEF MergeType
<1>5. 1 \in Shards /\ \A s \in Shards : ~(s < 1)
  BY TableConstants DEF Shards
<1>6. \A s \in Shards : merge.staged[s] = <<>> /\ merge.owed[s] <= Len(queue[s])
  BY <1>1 DEF ShardInv, Progress
<1>7. InPlace(queue', buffers', merge'.staged)
  BY <1>1, <1>4 DEF ShardInv, InPlace
<1>8. Progress(merge'.phase, merge'.shard, merge'.staged, merge'.working, merge'.owed, queue')
  BY <1>1, <1>4, <1>5, <1>6 DEF Progress
<1> QED
  BY <1>4, <1>7, <1>8, ShardNext

\* A row that is taken from its queue is no longer owed.
LEMMA PopInPlace ==
  ASSUME TableInv, ShardInv, NEW s \in Shards, queue[s] # <<>>, Pop(s)
  PROVE  /\ Head(queue[s]) \in Row /\ ShardOf[Head(queue[s]).key] = s
         /\ \A z \in Shards : /\ OfShard(queue'[z], z)
                              /\ OwedAfterPop(s)[z] <= Len(queue'[z])
                              /\ OwedAfterPop(s)[z] = IF z = s /\ merge.owed[s] # 0 THEN merge.owed[s] - 1 ELSE merge.owed[z]
                              /\ queue'[z] = IF z = s THEN Tail(queue[s]) ELSE queue[z]
<1>1. queue \in [Shards -> Seq(Row)] /\ merge.owed \in [Shards -> Nat]
  BY DEF TableInv, TypeInv, MergeType
<1>2. PICK q \in Seq(Row) : q = queue[s]
  BY <1>1
<1>3. OfShard(q, s) /\ q # <<>> /\ merge.owed[s] <= Len(q)
  BY <1>2 DEF ShardInv, InPlace, Progress
<1>4. /\ OfShard(Tail(q), s) /\ Len(q) \in Nat /\ Len(Tail(q)) = Len(q) - 1
      /\ Head(q) \in Row /\ ShardOf[Head(q).key] = s
  BY <1>3, TakenFrom
<1>5. \A z \in Shards : queue'[z] = IF z = s THEN Tail(q) ELSE queue[z]
  BY <1>1, <1>2 DEF Pop
<1>6. \A z \in Shards : OwedAfterPop(s)[z] = IF z = s /\ merge.owed[s] # 0 THEN merge.owed[s] - 1 ELSE merge.owed[z]
  BY <1>1 DEF OwedAfterPop
<1>7. ASSUME NEW z \in Shards PROVE OfShard(queue'[z], z) /\ OwedAfterPop(s)[z] <= Len(queue'[z])
  <2>1. CASE z = s
    <3>1. merge.owed[s] \in Nat
      BY <1>1
    <3>2. PICK m \in Nat : m = merge.owed[s]
      BY <3>1
    <3>3. PICK l \in Nat : l = Len(q)
      BY <1>4
    <3>4. m <= l /\ l - 1 = Len(Tail(q)) /\ l # 0
      BY <1>3, <1>4, <3>2, <3>3
    <3>5. OwedAfterPop(s)[s] = IF m # 0 THEN m - 1 ELSE m
      BY <1>6, <3>2
    <3>6. OwedAfterPop(s)[s] <= l - 1
      BY <3>4, <3>5
    <3>7. queue'[s] = Tail(q)
      BY <1>5
    <3> QED
      BY <1>4, <2>1, <3>4, <3>6, <3>7
  <2>2. CASE z # s
    BY <1>5, <1>6, <2>2 DEF ShardInv, InPlace, Progress
  <2> QED
    BY <2>1, <2>2
<1> QED
  BY <1>2, <1>4, <1>5, <1>6, <1>7

\* The serial path takes rows shard by shard.
LEMMA SerialInPlace ==
  ASSUME TableInv, ShardInv, NEW s \in Shards, Serial(s), NEW added \in BOOLEAN,
         merge' = [merge EXCEPT !.added = added, !.owed = OwedAfterPop(s)]
  PROVE  ShardInv' /\ merge'.owed = OwedAfterPop(s) /\ merge'.staged = merge.staged /\ merge'.phase = "serial"
<1>1. merge.phase = "serial" /\ merge.shard = s /\ queue[s] # <<>> /\ Pop(s) /\ buffers' = buffers
  BY DEF Serial
<1>2. merge \in MergeType
  BY DEF TableInv, TypeInv
<1>3. /\ merge'.phase = "serial" /\ merge'.shard = s /\ merge'.working = merge.working
      /\ merge'.staged = merge.staged /\ merge'.owed = OwedAfterPop(s)
  BY <1>1, <1>2 DEF MergeType
<1>4. \A z \in Shards : /\ OfShard(queue'[z], z)
                        /\ OwedAfterPop(s)[z] <= Len(queue'[z])
                        /\ merge.owed[z] = 0 => OwedAfterPop(s)[z] = 0
  BY <1>1, PopInPlace
<1>5. InPlace(queue', buffers', merge'.staged)
  BY <1>1, <1>3, <1>4 DEF ShardInv, InPlace
<1>6. Progress(merge'.phase, merge'.shard, merge'.staged, merge'.working, merge'.owed, queue')
  BY <1>1, <1>3, <1>4 DEF ShardInv, Progress
<1> QED
  BY <1>3, <1>5, <1>6, ShardNext

\* It goes on to the next shard when the queue is empty, so when nothing is owed.
LEMMA NextShardInPlace ==
  ASSUME TableInv, ShardInv, NextShard
  PROVE  ShardInv' /\ merge'.owed = merge.owed /\ merge'.staged = merge.staged /\ merge'.phase \in {"serial", "rehash"}
<1>1. /\ merge.phase = "serial" /\ queue[merge.shard] = <<>> /\ queue' = queue /\ buffers' = buffers
      /\ merge' = IF merge.shard < NumShards THEN [merge EXCEPT !.shard = @ + 1] ELSE [merge EXCEPT !.phase = "rehash"]
  BY DEF NextShard, inbox
<1>2. merge \in MergeType /\ merge.owed \in [Shards -> Nat]
  BY DEF TableInv, TypeInv, MergeType
<1>3. merge.shard \in Shards /\ (\A s \in Shards : s < merge.shard => merge.owed[s] = 0)
      /\ \A s \in Shards : merge.owed[s] <= Len(queue[s]) /\ merge.staged[s] = <<>>
  BY <1>1 DEF ShardInv, Progress
<1>4. merge.owed[merge.shard] = 0
  BY <1>1, <1>2, <1>3
<1>5. merge'.owed = merge.owed /\ merge'.staged = merge.staged
  BY <1>1, <1>2 DEF MergeType
<1>6. InPlace(queue', buffers', merge'.staged)
  BY <1>1, <1>5 DEF ShardInv, InPlace
<1>7. CASE merge.shard < NumShards
  <2>1. merge'.phase = "serial" /\ merge'.shard = merge.shard + 1
    BY <1>1, <1>2, <1>7 DEF MergeType
  <2>2. merge.shard + 1 \in Shards /\ \A s \in Shards : s < merge.shard + 1 => s < merge.shard \/ s = merge.shard
    BY <1>3, <1>7, TableConstants DEF Shards
  <2>3. Progress(merge'.phase, merge'.shard, merge'.staged, merge'.working, merge'.owed, queue')
    BY <1>1, <1>3, <1>4, <1>5, <2>1, <2>2 DEF Progress
  <2> QED
    BY <1>5, <1>6, <2>1, <2>3, ShardNext
<1>8. CASE ~(merge.shard < NumShards)
  <2>1. merge'.phase = "rehash"
    BY <1>1, <1>2, <1>8 DEF MergeType
  <2>2. \A s \in Shards : s < merge.shard \/ s = merge.shard
    BY <1>3, <1>8, TableConstants DEF Shards
  <2>3. Progress(merge'.phase, merge'.shard, merge'.staged, merge'.working, merge'.owed, queue')
    BY <1>1, <1>3, <1>4, <1>5, <2>1, <2>2 DEF Progress
  <2> QED
    BY <1>5, <1>6, <2>1, <2>3, ShardNext
<1> QED
  BY <1>7, <1>8

\* What StagedOutputs::insert makes of a block b: the row of the key becomes what
\* the merge function makes of the gathered and the incoming row.
LEMMA StagedWithFacts ==
  ASSUME NEW s, NEW b \in Seq(EntryType), b = merge.staged[s], UniqueKeys(b), NEW row \in Row,
         NEW c \in Seq(EntryType), c = StagedWith(s, row), UniqueKeys(c)
  PROVE  /\ RowFor(c, row.key) = Applied(RowFor(b, row.key), row)
         /\ \A k : k # row.key => RowFor(c, k) = RowFor(b, k)
         /\ \A i \in 1..Len(c) : c[i].live =>
              c[i].row.key = row.key \/ \E j \in 1..Len(b) : b[j].live /\ b[j].row = c[i].row
<1> DEFINE at  == StagedAt(s, row.key)
           new == Applied(RowFor(b, row.key), row)
<1>1. at = {i \in 1..Len(b) : b[i].live /\ b[i].row.key = row.key}
  BY DEF StagedAt
<1>2. RowFor(b, row.key) = IF at = {} THEN NoRow ELSE b[CHOOSE i \in at : TRUE].row
  BY <1>1 DEF RowFor
<1>3. c = IF new = RowFor(b, row.key) THEN b ELSE Append(Retired(b, at), Entry(new))
  BY <1>2 DEF StagedWith
<1> HIDE DEF at
<1>4. CASE new = RowFor(b, row.key)
  BY <1>3, <1>4
<1>5. CASE new # RowFor(b, row.key)
  <2>1. RowFor(b, row.key) \in Row \cup {NoRow}
    BY OnlyRowFor
  <2>2. PICK g \in Row \cup {NoRow} : g = RowFor(b, row.key)
    BY <2>1
  <2>3. Applied(g, row) # g
    BY <1>5, <2>2
  <2>4. Applied(g, row) \in Row /\ Applied(g, row).key = row.key
    BY <2>3, AppliedFacts
  <2>5. PICK e \in Row : e = Applied(g, row)
    BY <2>4
  <2>6. e.key = row.key /\ e = new
    BY <2>2, <2>4, <2>5
  <2>7. at = {i \in 1..Len(b) : b[i].live /\ b[i].row.key = e.key}
    BY <1>1, <2>6
  <2>8. Gathers(b, e, Append(Retired(b, at), Entry(e)))
    BY <2>7, GatheredBlock
  <2>9. c = Append(Retired(b, at), Entry(e))
    BY <1>3, <1>5, <2>6
  <2>10. Gathers(b, e, c)
    BY <2>8, <2>9
  <2>11. /\ RowFor(c, e.key) = e
         /\ \A k : k # e.key => RowFor(c, k) = RowFor(b, k)
         /\ \A i \in 1..Len(c) : c[i].live => c[i].row = e \/ \E j \in 1..Len(b) : b[j].live /\ b[j].row = c[i].row
    BY <2>10, GatheredNext
  <2> HIDE DEF new
  <2>12. \A i \in 1..Len(c) : c[i].live =>
              c[i].row.key = row.key \/ \E j \in 1..Len(b) : b[j].live /\ b[j].row = c[i].row
    BY <2>6, <2>11
  <2>13. RowFor(c, row.key) = new
    BY <2>6, <2>11
  <2>14. \A k : k # row.key => RowFor(c, k) = RowFor(b, k)
    BY <2>6, <2>11
  <2> QED
    BY <2>12, <2>13, <2>14 DEF new
<1> QED
  BY <1>4, <1>5

\* A task that takes a row gathers it where its key belongs.
LEMMA GatherStep ==
  ASSUME TableInv, ShardInv, NEW s \in Shards, Gather(s)
  PROVE  /\ ShardInv' /\ TableInv'
         /\ merge'.phase = "parallel" /\ merge'.owed = OwedAfterPop(s)
         /\ Head(queue[s]) \in Row /\ ShardOf[Head(queue[s]).key] = s
         /\ RowFor(merge'.staged[s], Head(queue[s]).key)
              = Applied(RowFor(merge.staged[s], Head(queue[s]).key), Head(queue[s]))
         /\ \A k : k # Head(queue[s]).key => RowFor(merge'.staged[s], k) = RowFor(merge.staged[s], k)
         /\ \A z \in Shards : z # s => merge'.staged[z] = merge.staged[z]
<1>1. /\ merge.phase = "parallel" /\ s \in merge.working /\ queue[s] # <<>> /\ Pop(s) /\ buffers' = buffers
      /\ merge' = [merge EXCEPT !.staged[s] = StagedWith(s, Head(queue[s])), !.owed = OwedAfterPop(s)]
  BY DEF Gather
<1>2. TableInv'
  BY GatherKeeps
<1>3. merge \in MergeType /\ merge.staged \in [Shards -> Seq(EntryType)] /\ merge'.staged \in [Shards -> Seq(EntryType)]
  BY <1>2 DEF TableInv, TypeInv, MergeType, Shards
<1>4. /\ merge'.phase = "parallel" /\ merge'.owed = OwedAfterPop(s) /\ merge'.working = merge.working
      /\ merge'.staged = [merge.staged EXCEPT ![s] = StagedWith(s, Head(queue[s]))]
  BY <1>1, <1>3 DEF MergeType
<1>5. /\ Head(queue[s]) \in Row /\ ShardOf[Head(queue[s]).key] = s
      /\ \A z \in Shards : /\ OfShard(queue'[z], z)
                           /\ OwedAfterPop(s)[z] <= Len(queue'[z])
                           /\ merge.owed[z] = 0 => OwedAfterPop(s)[z] = 0
  BY <1>1, PopInPlace
<1>6. PICK row \in Row : row = Head(queue[s])
  BY <1>5
<1>7. PICK b \in Seq(EntryType) : b = merge.staged[s]
  BY <1>3
<1>8. merge'.staged[s] = StagedWith(s, row) /\ \A z \in Shards : z # s => merge'.staged[z] = merge.staged[z]
  BY <1>3, <1>4, <1>6
<1>9. PICK c \in Seq(EntryType) : c = merge'.staged[s]
  BY <1>3
<1>10. UniqueKeys(b) /\ UniqueKeys(c)
  BY <1>2, <1>7, <1>9 DEF TableInv, StagedInv, Shards
<1>11. /\ RowFor(c, row.key) = Applied(RowFor(b, row.key), row)
       /\ \A k : k # row.key => RowFor(c, k) = RowFor(b, k)
       /\ \A i \in 1..Len(c) : c[i].live =>
            c[i].row.key = row.key \/ \E j \in 1..Len(b) : b[j].live /\ b[j].row = c[i].row
  BY <1>7, <1>8, <1>9, <1>10, StagedWithFacts
<1>12. \A i \in 1..Len(b) : b[i].live => ShardOf[b[i].row.key] = s
  BY <1>7 DEF ShardInv, InPlace
<1>13. \A i \in 1..Len(c) : c[i].live => ShardOf[c[i].row.key] = s
  BY <1>5, <1>6, <1>11, <1>12
<1>14. InPlace(queue', buffers', merge'.staged)
  BY <1>1, <1>5, <1>8, <1>9, <1>13 DEF ShardInv, InPlace
<1>15. Progress(merge'.phase, merge'.shard, merge'.staged, merge'.working, merge'.owed, queue')
  BY <1>1, <1>4, <1>5, <1>8 DEF ShardInv, Progress
<1> QED
  BY <1>2, <1>4, <1>5, <1>6, <1>7, <1>8, <1>9, <1>11, <1>14, <1>15, ShardNext

\* Nothing is gathered in an empty block.
LEMMA NothingGathered == ASSUME NEW k PROVE RowFor(<<>>, k) = NoRow
BY DEF RowFor

\* A task that has written out its block goes on until its queue is empty.
LEMMA FlushBatchStep ==
  ASSUME TableInv, ShardInv, NEW s \in Shards, FlushBatch(s)
  PROVE  /\ ShardInv' /\ merge'.phase = "parallel" /\ merge'.owed = merge.owed
         /\ \A z \in Shards : merge'.staged[z] = IF z = s THEN <<>> ELSE merge.staged[z]
<1> DEFINE block    == merge.staged[s]
           busy     == {i \in LiveStaged(s) : hash[block[i].row.key] # 0}
           same     == {i \in busy : Applied(Lookup(block[i].row.key), block[i].row) = Lookup(block[i].row.key)}
           latest   == Max({merge.ts} \union {block[i].row.ts : i \in LiveStaged(s)})
           left     == IF queue[s] = <<>> THEN merge.working \ {s} ELSE merge.working
           counted  == merge.stale + StaleIn(block) + Cardinality(busy)
           reported == merge.added \/ LiveStaged(s) # {}
<1>1. merge.phase = "parallel" /\ queue' = queue /\ buffers' = buffers
  BY Zenon DEF FlushBatch, Flush, inbox
<1>2. merge' = [merge EXCEPT !.staged[s] = <<>>, !.stale = counted, !.added = reported,
                             !.ts = latest, !.working = left]
  BY Zenon DEF FlushBatch, Flush
<1> HIDE DEF counted, reported, latest
<1>3. /\ merge \in MergeType /\ merge.staged \in [Shards -> Seq(EntryType)] /\ merge.owed \in [Shards -> Nat]
      /\ queue \in [Shards -> Seq(Row)]
  BY DEF TableInv, TypeInv, MergeType
<1>4. /\ merge'.phase = "parallel" /\ merge'.owed = merge.owed /\ merge'.working = left
      /\ merge'.staged = [merge.staged EXCEPT ![s] = <<>>]
  BY <1>1, <1>2, <1>3 DEF MergeType
<1>5. \A z \in Shards : merge'.staged[z] = IF z = s THEN <<>> ELSE merge.staged[z]
  BY <1>3, <1>4
<1>6. InPlace(queue', buffers', merge'.staged)
  BY <1>1, <1>5 DEF ShardInv, InPlace
<1>7. ASSUME NEW z \in Shards PROVE z \in left \/ (merge.owed[z] = 0 /\ merge'.staged[z] = <<>>)
  <2>1. CASE z # s
    BY <1>1, <1>5, <2>1 DEF ShardInv, Progress, left
  <2>2. CASE z = s /\ queue[s] # <<>>
    BY <1>1, <1>5, <2>2 DEF ShardInv, Progress, left
  <2>3. CASE z = s /\ queue[s] = <<>>
    <3>1. merge.owed[s] <= Len(queue[s]) /\ merge.owed[s] \in Nat
      BY <1>3 DEF ShardInv, Progress
    <3>2. Len(queue[s]) = 0
      BY <2>3
    <3>3. merge.owed[s] = 0
      BY <3>1, <3>2
    <3> QED
      BY <1>5, <2>3, <3>3
  <2> QED
    BY <2>1, <2>2, <2>3
<1>8. Progress(merge'.phase, merge'.shard, merge'.staged, merge'.working, merge'.owed, queue')
  BY <1>1, <1>4, <1>7 DEF ShardInv, Progress
<1> QED
  BY <1>4, <1>5, <1>6, <1>8, ShardNext

\* When every task is done, nothing is owed and nothing gathered.
LEMMA JoinTasksStep ==
  ASSUME TableInv, ShardInv, JoinTasks
  PROVE  /\ ShardInv' /\ merge.phase = "parallel" /\ merge'.phase = "rehash"
         /\ merge'.owed = merge.owed /\ merge'.staged = merge.staged
<1>1. /\ merge.phase = "parallel" /\ merge.working = {} /\ queue' = queue /\ buffers' = buffers
      /\ merge' = [merge EXCEPT !.phase = "rehash"]
  BY DEF JoinTasks, inbox
<1>2. merge \in MergeType
  BY DEF TableInv, TypeInv
<1>3. merge'.phase = "rehash" /\ merge'.owed = merge.owed /\ merge'.staged = merge.staged
  BY <1>1, <1>2 DEF MergeType
<1>4. InPlace(queue', buffers', merge'.staged)
  BY <1>1, <1>3 DEF ShardInv, InPlace
<1>5. \A z \in Shards : merge.owed[z] = 0 /\ merge.staged[z] = <<>>
  BY <1>1 DEF ShardInv, Progress
<1>6. Progress(merge'.phase, merge'.shard, merge'.staged, merge'.working, merge'.owed, queue')
  BY <1>1, <1>3, <1>5 DEF ShardInv, Progress
<1> QED
  BY <1>1, <1>3, <1>4, <1>6, ShardNext

\* A merge that ends owes nothing and has nothing gathered, before and after.
LEMMA EndMergeStep ==
  ASSUME TableInv, ShardInv, NEW orders, EndMerge(orders)
  PROVE  /\ ShardInv' /\ merge.phase = "rehash" /\ merge'.phase = "idle"
         /\ \A s \in Shards : merge.owed[s] = 0 /\ merge'.owed[s] = 0
         /\ \A s \in Shards : merge.staged[s] = <<>> /\ merge'.staged[s] = <<>>
<1>1. merge.phase = "rehash" /\ merge' = Idle /\ queue' = queue /\ buffers' = buffers
  BY DEF EndMerge, inbox
<1>2. merge'.phase = "idle" /\ \A s \in Shards : merge'.owed[s] = 0 /\ merge'.staged[s] = <<>>
  BY <1>1 DEF Idle
<1>3. \A s \in Shards : merge.owed[s] = 0 /\ merge.staged[s] = <<>>
  BY <1>1 DEF ShardInv, Progress
<1>4. InPlace(queue', buffers', merge'.staged)
  BY <1>1, <1>2, <1>3 DEF ShardInv, InPlace
<1>5. Progress(merge'.phase, merge'.shard, merge'.staged, merge'.working, merge'.owed, queue')
  BY <1>1, <1>2, <1>3 DEF ShardInv, Progress
<1> QED
  BY <1>1, <1>2, <1>3, <1>4, <1>5, ShardNext

\* The serial path inserts new rows, merged rows and rows that change nothing.
LEMMA SerialStep ==
  ASSUME TableInv, ShardInv, NEW s \in Shards, InsertNew(s) \/ InsertMerged(s) \/ InsertUnchanged(s)
  PROVE  /\ ShardInv' /\ Serial(s) /\ merge.phase = "serial"
         /\ merge'.owed = OwedAfterPop(s) /\ merge'.staged = merge.staged /\ merge'.phase = "serial"
<1>1. Serial(s) /\ merge.phase = "serial"
  BY DEF InsertNew, InsertMerged, InsertUnchanged, Serial
<1>2. merge \in MergeType
  BY DEF TableInv, TypeInv
<1>3. CASE merge' = [merge EXCEPT !.added = TRUE, !.owed = OwedAfterPop(s)]
  BY <1>1, <1>3, SerialInPlace
<1>4. CASE merge' = [merge EXCEPT !.owed = OwedAfterPop(s)]
  <2>1. merge.added \in BOOLEAN
    BY <1>2 DEF MergeType
  <2>2. merge' = [merge EXCEPT !.added = merge.added, !.owed = OwedAfterPop(s)]
    BY <1>2, <1>4 DEF MergeType
  <2> QED
    BY <1>1, <2>1, <2>2, SerialInPlace
<1> QED
  BY <1>3, <1>4 DEF InsertNew, InsertMerged, InsertUnchanged

\* Every step keeps rows in their shards and what a merge owes queued.
LEMMA ShardNextKeeps ==
  ASSUME TableInv, ShardInv, [Next]_vars
  PROVE  ShardInv'
<1>1. ASSUME NEW w \in Writers, NEW k \in Keys, NEW v \in Values, StageInsert(w, k, v) PROVE ShardInv'
  BY <1>1, StageInsertInPlace
<1>2. ASSUME NEW w \in Writers, NEW k \in Keys, StageRemove(w, k) PROVE ShardInv'
  <2>1. /\ queue' = queue /\ merge' = merge /\ buffers' = [buffers EXCEPT ![w].removals = @ \union {k}]
    BY <1>2 DEF StageRemove
  <2>2. buffers \in [Writers -> [rows : [Shards -> Seq(Row)], removals : SUBSET Keys]]
    BY DEF TableInv, TypeInv
  <2>3. \A u \in Writers : buffers'[u].rows = buffers[u].rows
    BY <2>1, <2>2
  <2>4. InPlace(queue', buffers', merge'.staged)
    BY <2>1, <2>3 DEF ShardInv, InPlace
  <2>5. Progress(merge'.phase, merge'.shard, merge'.staged, merge'.working, merge'.owed, queue')
    BY <2>1 DEF ShardInv, Progress
  <2> QED
    BY <2>4, <2>5, ShardNext
<1>3. ASSUME NEW w \in Writers, DropBuffer(w) PROVE ShardInv'
  BY <1>3, DropBufferInPlace
<1>4. ASSUME NEW w \in Writers, NEW s \in Shards, DropShard(w, s) PROVE ShardInv'
  BY <1>4, DropShardInPlace
<1>5. ASSUME Tick \/ RefreshIndex \/ UNCHANGED vars PROVE ShardInv'
  <2>1. UNCHANGED <<queue, buffers, merge>>
    BY <1>5 DEF Tick, RefreshIndex, vars, inbox, table
  <2> QED
    BY <2>1, ShardFrame
<1>6. ASSUME Clear PROVE ShardInv'
  BY <1>6, ClearInPlace
<1>7. ASSUME StartMerge PROVE ShardInv'
  BY <1>7, StartMergeInPlace
<1>8. ASSUME Delete PROVE ShardInv'
  BY <1>8, DeleteInPlace
<1>9. ASSUME NEW s \in Shards, InsertNew(s) \/ InsertMerged(s) \/ InsertUnchanged(s) PROVE ShardInv'
  BY <1>9, SerialStep
<1>10. ASSUME NextShard PROVE ShardInv'
  BY <1>10, NextShardInPlace
<1>11. ASSUME NEW s \in Shards, Gather(s) PROVE ShardInv'
  BY <1>11, GatherStep
<1>12. ASSUME NEW s \in Shards, FlushBatch(s) PROVE ShardInv'
  BY <1>12, FlushBatchStep
<1>13. ASSUME JoinTasks PROVE ShardInv'
  BY <1>13, JoinTasksStep
<1>14. ASSUME EndMerge(SerialOrders) \/ EndMerge(ShardOrders) PROVE ShardInv'
  BY <1>14, EndMergeStep
<1> QED
  BY <1>1, <1>2, <1>3, <1>4, <1>5, <1>6, <1>7, <1>8, <1>9, <1>10, <1>11, <1>12, <1>13, <1>14, Zenon DEF Next

\* Rows are queued, staged and gathered with the shard of their key, and what a
\* merge owes is queued: DropBuffer and DropShard put rows behind those it owes, and
\* the serial and the parallel path take them from the front.
THEOREM RowsInTheirShards == Spec => []ShardInv
<1>1. Init => ShardInv
  BY ShardInvInit
<1>2. TableInv /\ ShardInv /\ [Next]_vars => ShardInv'
  BY ShardNextKeeps
<1> QED
  BY <1>1, <1>2, Invariant, PTL DEF Spec

\* What a key has when g was gathered for it and it had cur.
Blend(cur, g) == IF g = NoRow THEN cur ELSE Applied(cur, g)

\* The contents of the table, key by key.
LEMMA ContentsNow ==
  ASSUME TableInv
  PROVE  Contents = [k \in Keys |-> Blend(Lookup(k), RowFor(merge.staged[ShardOf[k]], k))]
<1>1. merge.staged \in [Shards -> Seq(EntryType)] /\ ShardOf \in [Keys -> Shards]
  BY TableConstants DEF TableInv, TypeInv, MergeType, Shards
<1>2. ASSUME NEW k \in Keys PROVE GatheredRow(k) = RowFor(merge.staged[ShardOf[k]], k)
  <2>1. PICK b \in Seq(EntryType) : b = merge.staged[ShardOf[k]]
    BY <1>1
  <2>2. DOMAIN b = 1..Len(b)
    OBVIOUS
  <2> QED
    BY <2>1, <2>2 DEF GatheredRow, StagedAt, RowFor
<1>3. \A k \in Keys : Contents[k] = Blend(Lookup(k), RowFor(merge.staged[ShardOf[k]], k))
  BY <1>2 DEF Contents, Blend
<1>4. Contents = [k \in Keys |-> Contents[k]]
  BY DEF Contents
<1> HIDE DEF Contents
<1> QED
  BY <1>3, <1>4

\* The new contents follow from the new state in the same way.
LEMMA ContentsNext ==
  ASSUME TableInv'
  PROVE  Contents' = [k \in Keys |-> Blend(Lookup(k)', RowFor(merge'.staged[ShardOf[k]], k))]
<1>1. merge'.staged \in [Shards -> Seq(EntryType)] /\ ShardOf \in [Keys -> Shards]
  BY TableConstants DEF TableInv, TypeInv, MergeType, Shards
<1>2. ASSUME NEW k \in Keys PROVE GatheredRow(k)' = RowFor(merge'.staged[ShardOf[k]], k)
  <2>1. PICK b \in Seq(EntryType) : b = merge'.staged[ShardOf[k]]
    BY <1>1
  <2>2. DOMAIN b = 1..Len(b)
    OBVIOUS
  <2> QED
    BY <2>1, <2>2 DEF GatheredRow, StagedAt, RowFor
<1>3. \A k \in Keys : Contents'[k] = Blend(Lookup(k)', RowFor(merge'.staged[ShardOf[k]], k))
  BY <1>2 DEF Contents, Blend
<1>4. Contents' = [k \in Keys |-> Contents'[k]]
  BY DEF Contents
<1> QED
  BY <1>3, <1>4, Zenon

\* A step that leaves every key its row and what is gathered leaves the contents.
LEMMA SameContents ==
  ASSUME TableInv, TableInv', \A k \in Keys : Lookup(k)' = Lookup(k),
         \A s \in Shards : merge'.staged[s] = merge.staged[s]
  PROVE  Contents' = Contents
<1>1. \A k \in Keys : ShardOf[k] \in Shards
  BY TableConstants DEF Shards
<1>2. \A k \in Keys : Blend(Lookup(k)', RowFor(merge'.staged[ShardOf[k]], k))
                    = Blend(Lookup(k), RowFor(merge.staged[ShardOf[k]], k))
  BY <1>1
<1> QED
  BY <1>2, ContentsNow, ContentsNext

\* When nothing is gathered, the contents are what a lookup finds.
LEMMA PlainContents ==
  ASSUME TableInv, \A s \in Shards : merge.staged[s] = <<>>
  PROVE  Contents = [k \in Keys |-> Lookup(k)]
<1>1. \A k \in Keys : ShardOf[k] \in Shards
  BY TableConstants DEF Shards
<1>2. \A k \in Keys : Blend(Lookup(k), RowFor(merge.staged[ShardOf[k]], k)) = Lookup(k)
  BY <1>1, NothingGathered DEF Blend
<1> QED
  BY <1>2, ContentsNow

\* The same of the new contents, when nothing is gathered after a step.
LEMMA PlainContentsNext ==
  ASSUME TableInv', \A s \in Shards : merge'.staged[s] = <<>>
  PROVE  Contents' = [k \in Keys |-> Lookup(k)']
<1>1. \A k \in Keys : ShardOf[k] \in Shards
  BY TableConstants DEF Shards
<1>2. \A k \in Keys : Blend(Lookup(k)', RowFor(merge'.staged[ShardOf[k]], k)) = Lookup(k)'
  BY <1>1, NothingGathered DEF Blend
<1> QED
  BY <1>2, ContentsNext

\* How often a row is queued and owed, in its shard.
LEMMA QueuedAndDue ==
  ASSUME NEW r \in Row
  PROVE  /\ ShardOf[r.key] \in Shards
         /\ Queued[r] = Count(queue[ShardOf[r.key]], r)
         /\ Queued'[r] = Count(queue'[ShardOf[r.key]], r)
         /\ Due[r] = Count(SubSeq(queue[ShardOf[r.key]], 1, merge.owed[ShardOf[r.key]]), r)
         /\ Due'[r] = Count(SubSeq(queue'[ShardOf[r.key]], 1, merge'.owed[ShardOf[r.key]]), r)
<1>1. ShardOf[r.key] \in Shards
  BY TableConstants DEF Row, Shards
<1>2. Queued = [x \in Row |-> Queued[x]] /\ Due = [x \in Row |-> Due[x]]
  BY DEF Queued, Due
<1>3. Queued[r] = Count(queue[ShardOf[r.key]], r) /\ Queued'[r] = Count(queue'[ShardOf[r.key]], r)
  BY DEF Queued
<1>4. /\ Due[r] = Count(SubSeq(queue[ShardOf[r.key]], 1, merge.owed[ShardOf[r.key]]), r)
      /\ Due'[r] = Count(SubSeq(queue'[ShardOf[r.key]], 1, merge'.owed[ShardOf[r.key]]), r)
  BY DEF Due
<1> QED
  BY <1>1, <1>3, <1>4

\* They are functions on the rows.
LEMMA QueuedIsFunction ==
  /\ Queued = [r \in Row |-> Queued[r]] /\ Queued' = [r \in Row |-> Queued'[r]]
  /\ Due = [r \in Row |-> Due[r]] /\ Due' = [r \in Row |-> Due'[r]]
BY DEF Queued, Due

\* What is queued and what is owed follow from the queues and the merge.
LEMMA SameQueued ==
  ASSUME \A s \in Shards : queue'[s] = queue[s] /\ merge'.owed[s] = merge.owed[s]
  PROVE  Queued' = Queued /\ Due' = Due
<1>1. \A r \in Row : Queued'[r] = Queued[r] /\ Due'[r] = Due[r]
  BY QueuedAndDue
<1> QED
  BY <1>1, QueuedIsFunction, Zenon

\* A row taken from its queue is queued once less, and owed once less if at all.
LEMMA Taken ==
  ASSUME TableInv, ShardInv, NEW s \in Shards, queue[s] # <<>>, Pop(s), merge'.owed = OwedAfterPop(s)
  PROVE  /\ Head(queue[s]) \in Row
         /\ Queued[Head(queue[s])] > 0
         /\ Queued' = [Queued EXCEPT ![Head(queue[s])] = @ - 1]
         /\ Due' = [Due EXCEPT ![Head(queue[s])] = IF @ = 0 THEN 0 ELSE @ - 1]
<1>1. queue \in [Shards -> Seq(Row)] /\ merge.owed \in [Shards -> Nat]
  BY DEF TableInv, TypeInv, MergeType
<1>2. PICK q \in Seq(Row) : q = queue[s]
  BY <1>1
<1>3. PICK n \in Nat : n = merge.owed[s]
  BY <1>1
<1>4. q # <<>> /\ n <= Len(q) /\ Len(q) \in Nat /\ Tail(q) \in Seq(Row) /\ Len(Tail(q)) = Len(q) - 1
  BY <1>2, <1>3 DEF ShardInv, Progress
<1>5. /\ Head(q) \in Row /\ ShardOf[Head(q).key] = s
      /\ \A z \in Shards : /\ queue'[z] = IF z = s THEN Tail(q) ELSE queue[z]
                           /\ merge'.owed[z] = IF z = s /\ n # 0 THEN n - 1 ELSE merge.owed[z]
  BY <1>2, <1>3, PopInPlace
<1>6. PICK top \in Row : top = Head(q)
  BY <1>5
<1>7. ASSUME NEW r \in Row, ShardOf[r.key] # s PROVE Queued'[r] = Queued[r] /\ Due'[r] = Due[r] /\ r # top
  BY <1>5, <1>6, <1>7, QueuedAndDue
<1>8. ASSUME NEW r \in Row, ShardOf[r.key] = s
      PROVE  /\ Queued[r] = Queued'[r] + (IF r = top THEN 1 ELSE 0) /\ Queued'[r] \in Nat
             /\ Due[r] \in Nat /\ Due'[r] \in Nat
             /\ n = 0 => Due[r] = 0 /\ Due'[r] = 0
             /\ n # 0 => Due[r] = Due'[r] + (IF r = top THEN 1 ELSE 0)
  <2>1. Queued[r] = Count(q, r) /\ Queued'[r] = Count(Tail(q), r)
    BY <1>2, <1>5, <1>8, QueuedAndDue
  <2>2. Count(q, r) = Count(Tail(q), r) + (IF r = top THEN 1 ELSE 0) /\ Count(Tail(q), r) \in Nat
    BY <1>4, <1>6, CountTail, CountFacts
  <2>3. CASE n = 0
    <3>0. merge.owed[s] = 0 /\ merge'.owed[s] = 0 /\ queue'[s] = Tail(q)
      BY <1>3, <1>5, <2>3
    <3>1. Due[r] = Count(SubSeq(q, 1, 0), r) /\ Due'[r] = Count(SubSeq(Tail(q), 1, 0), r)
      BY <1>2, <1>8, <3>0, QueuedAndDue
    <3>2. 0 \in 0..Len(q) /\ 0 \in 0..Len(Tail(q))
      BY <1>4
    <3>3. SubSeq(q, 1, 0) = <<>> /\ SubSeq(Tail(q), 1, 0) = <<>>
      BY <1>4, <3>2, OwedRows
    <3>4. <<>> \in Seq(Row)
      OBVIOUS
    <3>5. Count(<<>>, r) = 0
      BY <3>4, CountFacts
    <3> QED
      BY <2>1, <2>2, <2>3, <3>1, <3>3, <3>5
  <2>4. CASE n # 0
    <3>1. Due[r] = Count(SubSeq(q, 1, n), r) /\ Due'[r] = Count(SubSeq(Tail(q), 1, n - 1), r)
      BY <1>2, <1>3, <1>5, <1>8, <2>4, QueuedAndDue
    <3>2. n \in 0..Len(q) /\ n > 0
      BY <1>4, <2>4
    <3>3. /\ SubSeq(q, 1, n) \in Seq(Row) /\ SubSeq(q, 1, n) # <<>> /\ Head(SubSeq(q, 1, n)) = top
          /\ Tail(SubSeq(q, 1, n)) = SubSeq(Tail(q), 1, n - 1)
      BY <1>6, <3>2, OwedRows
    <3>4. PICK u \in Seq(Row) : u = SubSeq(q, 1, n)
      BY <3>3
    <3>5. Count(u, r) = Count(Tail(u), r) + (IF r = Head(u) THEN 1 ELSE 0)
      BY <3>3, <3>4, CountTail
    <3>6. Count(u, r) \in Nat
      BY CountFacts
    <3>7. Count(Tail(u), r) \in Nat
      <4>1. u # <<>>
        BY <3>3, <3>4
      <4>2. Tail(u) \in Seq(Row)
        BY <4>1
      <4> QED
        BY <4>2, CountFacts
    <3>8. Due[r] = Count(u, r) /\ Due'[r] = Count(Tail(u), r) /\ Head(u) = top
      BY <3>1, <3>3, <3>4
    <3> QED
      BY <2>1, <2>2, <2>4, <3>5, <3>6, <3>7, <3>8
  <2> QED
    BY <2>3, <2>4
<1>9. ShardOf[top.key] = s
  BY <1>5, <1>6
<1>10. Queued[top] > 0 /\ Queued'[top] = Queued[top] - 1 /\ Due'[top] = IF Due[top] = 0 THEN 0 ELSE Due[top] - 1
  <2>1. Queued[top] = Queued'[top] + 1 /\ Queued'[top] \in Nat
    BY <1>8, <1>9
  <2>2. n = 0 => Due[top] = 0 /\ Due'[top] = 0
    BY <1>8, <1>9
  <2>3. n # 0 => Due[top] = Due'[top] + 1
    BY <1>8, <1>9
  <2>4. Due'[top] \in Nat
    BY <1>8, <1>9
  <2> QED
    BY <2>1, <2>2, <2>3, <2>4
<1>11. ASSUME NEW r \in Row, r # top PROVE Queued'[r] = Queued[r] /\ Due'[r] = Due[r]
  <2>1. CASE ShardOf[r.key] # s
    BY <1>7, <2>1
  <2>2. CASE ShardOf[r.key] = s
    BY <1>8, <1>11, <2>2
  <2> QED
    BY <2>1, <2>2
<1>12. Queued' = [Queued EXCEPT ![top] = @ - 1]
  BY <1>10, <1>11, QueuedIsFunction
<1>13. Due' = [Due EXCEPT ![top] = IF @ = 0 THEN 0 ELSE @ - 1]
  BY <1>10, <1>11, QueuedIsFunction
<1> QED
  BY <1>2, <1>6, <1>10, <1>12, <1>13

\* Rows queued behind others add to what is queued and to nothing that is owed.
LEMMA Joined ==
  ASSUME TableInv, ShardInv, merge' = merge,
         \A s \in Shards : queue'[s] = queue[s] \/ \E p \in Seq(Row) : queue'[s] = queue[s] \o p
  PROVE  Due' = Due /\ \A r \in Row : Queued'[r] >= Queued[r]
<1>1. queue \in [Shards -> Seq(Row)] /\ merge.owed \in [Shards -> Nat]
  BY DEF TableInv, TypeInv, MergeType
<1>2. ASSUME NEW r \in Row PROVE Queued'[r] >= Queued[r] /\ Due'[r] = Due[r]
  <2>1. PICK s \in Shards : s = ShardOf[r.key]
    BY QueuedAndDue
  <2>2. PICK q \in Seq(Row) : q = queue[s]
    BY <1>1
  <2>3. PICK n \in Nat : n = merge.owed[s]
    BY <1>1
  <2>4. n \in 0..Len(q)
    BY <2>2, <2>3 DEF ShardInv, Progress
  <2>5. /\ Queued[r] = Count(q, r) /\ Queued'[r] = Count(queue'[s], r)
        /\ Due[r] = Count(SubSeq(q, 1, n), r) /\ Due'[r] = Count(SubSeq(queue'[s], 1, n), r)
    BY <2>1, <2>2, <2>3, QueuedAndDue
  <2>6. CASE queue'[s] = q
    <3>1. Count(q, r) \in Nat
      BY CountFacts
    <3> QED
      BY <2>5, <2>6, <3>1
  <2>7. CASE queue'[s] # q
    <3>1. PICK p \in Seq(Row) : queue'[s] = q \o p
      BY <2>2, <2>7
    <3>2. Count(q \o p, r) >= Count(q, r)
      BY CountJoined
    <3>3. SubSeq(q \o p, 1, n) = SubSeq(q, 1, n)
      BY <2>4, OwedRows
    <3> QED
      BY <2>5, <3>1, <3>2, <3>3
  <2> QED
    BY <2>6, <2>7
<1>3. Due' = Due
  BY <1>2, QueuedIsFunction, Zenon
<1> QED
  BY <1>2, <1>3

\* KeyedTable's rows and its merge are this module's.
LEMMA SameRows ==
  /\ Abstract!Row = Row
  /\ \A cur, row : Abstract!Applied(cur, row) = Applied(cur, row)
  /\ Abstract!Nothing = [r \in Row |-> 0]
BY DEF Abstract!Row, Abstract!Timestamps, Row, Timestamps, Abstract!Applied, Applied, Abstract!Nothing

\* What KeyedTable sees of the table.
Seen == <<Contents, Queued, removals, Due, Phase>>

\* A table starts empty.
LEMMA StartsEmpty ==
  ASSUME Init, TableInv
  PROVE  Abstract!Init
<1>1. /\ \A s \in Shards : queue[s] = <<>> /\ merge.staged[s] = <<>> /\ merge.owed[s] = 0
      /\ \A k \in Keys : Lookup(k) = NoRow
      /\ removals = {} /\ merge.phase = "idle"
  BY DEF Init, Idle, Lookup
<1>2. Contents = [k \in Keys |-> Lookup(k)]
  BY <1>1, PlainContents
<1>3. DOMAIN Contents = Keys /\ \A k \in Keys : Contents[k] = NoRow
  BY <1>1, <1>2
<1>4. <<>> \in Seq(Row) /\ 0 \in 0..Len(<<>>)
  OBVIOUS
<1>5. SubSeq(<<>>, 1, 0) = <<>> /\ \A r \in Row : Count(<<>>, r) = 0
  BY <1>4, OwedRows, CountFacts
<1>6. ASSUME NEW r \in Row PROVE Queued[r] = 0 /\ Due[r] = 0
  <2>1. PICK s \in Shards : s = ShardOf[r.key]
    BY QueuedAndDue
  <2>2. Queued[r] = Count(queue[s], r) /\ Due[r] = Count(SubSeq(queue[s], 1, merge.owed[s]), r)
    BY <2>1, QueuedAndDue
  <2>3. queue[s] = <<>> /\ merge.owed[s] = 0
    BY <1>1
  <2> QED
    BY <1>5, <2>2, <2>3
<1>7. Queued = [r \in Row |-> 0] /\ Due = [r \in Row |-> 0]
  BY <1>6, QueuedIsFunction
<1>8. Phase = "idle"
  BY <1>1 DEF Phase
<1> QED
  BY <1>1, <1>3, <1>7, <1>8, SameRows DEF Abstract!Init

\* Staging, the clock, the index and the control of a merge are not seen.
LEMMA UnseenStep ==
  ASSUME TableInv, ShardInv, TableInv',
         \/ \E w \in Writers, k \in Keys, v \in Values : StageInsert(w, k, v)
         \/ \E w \in Writers, k \in Keys : StageRemove(w, k)
         \/ Tick \/ NextShard \/ JoinTasks \/ RefreshIndex
  PROVE  UNCHANGED Seen
<1>1. UNCHANGED <<data, hash, queue, removals>>
  BY Zenon DEF StageInsert, StageRemove, Tick, NextShard, JoinTasks, RefreshIndex, table, inbox
<1>2. \/ merge' = merge
      \/ merge'.owed = merge.owed /\ merge'.staged = merge.staged
         /\ merge.phase \in {"serial", "parallel"} /\ merge'.phase \in {"serial", "rehash"}
  <2>1. ASSUME NextShard PROVE merge'.owed = merge.owed /\ merge'.staged = merge.staged
                               /\ merge.phase = "serial" /\ merge'.phase \in {"serial", "rehash"}
    BY <2>1, NextShardInPlace DEF NextShard
  <2>2. ASSUME JoinTasks PROVE merge'.owed = merge.owed /\ merge'.staged = merge.staged
                               /\ merge.phase = "parallel" /\ merge'.phase = "rehash"
    BY <2>2, JoinTasksStep
  <2>3. ASSUME NEW w \in Writers, NEW k \in Keys, NEW v \in Values, StageInsert(w, k, v) PROVE merge' = merge
    BY <2>3 DEF StageInsert
  <2>4. ASSUME NEW w \in Writers, NEW k \in Keys, StageRemove(w, k) PROVE merge' = merge
    BY <2>4 DEF StageRemove
  <2>5. ASSUME Tick \/ RefreshIndex PROVE merge' = merge
    BY <2>5 DEF Tick, RefreshIndex
  <2> QED
    BY <2>1, <2>2, <2>3, <2>4, <2>5
<1>3. Contents' = Contents
  BY <1>1, <1>2, SameContents, Untouched
<1>4. Queued' = Queued /\ Due' = Due
  BY <1>1, <1>2, SameQueued
<1>5. Phase' = Phase
  BY <1>2 DEF Phase
<1> QED
  BY <1>1, <1>3, <1>4, <1>5 DEF Seen

\* Dropping a buffer, or a shard of it, queues.
LEMMA QueueStep ==
  ASSUME TableInv, ShardInv, TableInv',
         \/ \E w \in Writers : DropBuffer(w)
         \/ \E w \in Writers, s \in Shards : DropShard(w, s)
  PROVE  Abstract!Queue
<1>1. UNCHANGED <<data, hash, merge>>
  BY Zenon DEF DropBuffer, DropShard, table
<1>2. removals \subseteq removals' /\ (removals' # removals => merge.phase = "idle")
  BY DEF DropBuffer, DropShard
<1>3. buffers \in [Writers -> [rows : [Shards -> Seq(Row)], removals : SUBSET Keys]] /\ queue \in [Shards -> Seq(Row)]
  BY DEF TableInv, TypeInv
<1>4. \A s \in Shards : queue'[s] = queue[s] \/ \E p \in Seq(Row) : queue'[s] = queue[s] \o p
  <2>1. ASSUME NEW w \in Writers, DropBuffer(w), NEW s \in Shards PROVE \E p \in Seq(Row) : queue'[s] = queue[s] \o p
    <3>1. queue' = [z \in Shards |-> queue[z] \o buffers[w].rows[z]]
      BY <2>1 DEF DropBuffer
    <3>2. buffers[w].rows[s] \in Seq(Row)
      BY <1>3
    <3>3. queue'[s] = queue[s] \o buffers[w].rows[s]
      BY <3>1
    <3> QED
      BY <3>2, <3>3, Zenon
  <2>2. ASSUME NEW w \in Writers, NEW z \in Shards, DropShard(w, z), NEW s \in Shards
        PROVE  queue'[s] = queue[s] \/ \E p \in Seq(Row) : queue'[s] = queue[s] \o p
    <3>1. queue' = [queue EXCEPT ![z] = @ \o buffers[w].rows[z]]
      BY <2>2 DEF DropShard
    <3>2. buffers[w].rows[s] \in Seq(Row)
      BY <1>3
    <3>3. queue'[s] = IF s = z THEN queue[s] \o buffers[w].rows[s] ELSE queue[s]
      BY <1>3, <3>1
    <3> QED
      BY <3>2, <3>3, Zenon
  <2> QED
    BY <2>1, <2>2
<1>5. Due' = Due /\ \A r \in Row : Queued'[r] >= Queued[r]
  BY <1>1, <1>4, Joined
<1>6. Contents' = Contents
  BY <1>1, SameContents, Untouched
<1>7. Phase' = Phase /\ (merge.phase = "idle" => Phase = "idle")
  BY <1>1 DEF Phase
<1> QED
  BY <1>2, <1>5, <1>6, <1>7, SameRows DEF Abstract!Queue

\* A merge owes what is queued when it begins.
LEMMA StartMergeStep ==
  ASSUME TableInv, ShardInv, TableInv', StartMerge
  PROVE  Abstract!StartMerge
<1>1. /\ merge.phase = "idle" /\ UNCHANGED <<data, hash, queue, removals>>
      /\ merge'.phase = "delete" /\ merge'.staged = merge.staged
      /\ \A s \in Shards : merge'.owed[s] = Len(queue[s])
  BY StartMergeInPlace DEF StartMerge, table, inbox
<1>2. queue \in [Shards -> Seq(Row)]
  BY DEF TableInv, TypeInv
<1>3. ASSUME NEW r \in Row PROVE Due'[r] = Queued[r] /\ Queued'[r] = Queued[r]
  <2>1. PICK s \in Shards : s = ShardOf[r.key]
    BY QueuedAndDue
  <2>2. PICK q \in Seq(Row) : q = queue[s]
    BY <1>2
  <2>3. SubSeq(q, 1, Len(q)) = q
    <3>1. Len(q) \in 0..Len(q)
      OBVIOUS
    <3> QED
      BY <3>1, OwedRows
  <2>4. Queued[r] = Count(q, r) /\ Queued'[r] = Count(q, r) /\ Due'[r] = Count(SubSeq(q, 1, Len(q)), r)
    BY <1>1, <2>1, <2>2, QueuedAndDue
  <2> QED
    BY <2>3, <2>4
<1>4. Due' = Queued /\ Queued' = Queued
  BY <1>3, QueuedIsFunction, Zenon
<1>5. Contents' = Contents
  BY <1>1, SameContents, Untouched
<1>6. Phase = "idle" /\ Phase' = "removing"
  BY <1>1 DEF Phase
<1> QED
  BY <1>1, <1>4, <1>5, <1>6 DEF Abstract!StartMerge

\* Marking the rows of the removed keys stale removes them.
LEMMA RemoveStep ==
  ASSUME TableInv, ShardInv, TableInv', Delete
  PROVE  Abstract!Remove
<1>1. /\ merge.phase = "delete" /\ queue' = queue /\ removals' = {}
      /\ hash' = [k \in Keys |-> IF k \in removals THEN 0 ELSE hash[k]]
  BY DEF Delete
<1>2. merge'.owed = merge.owed /\ merge'.staged = merge.staged /\ merge'.phase \in {"serial", "parallel"}
  BY DeleteInPlace
<1>3. \A s \in Shards : merge.staged[s] = <<>> /\ merge'.staged[s] = <<>>
  BY <1>1, <1>2 DEF ShardInv, Progress
<1>4. Extends(data, data')
  BY DeleteKeeps
<1>5. ASSUME NEW k \in Keys PROVE Lookup(k)' = IF k \in removals THEN NoRow ELSE Lookup(k)
  <2>1. hash[k] # 0 => hash[k] \in 1..Len(data)
    BY DEF TableInv, Linked
  <2>2. hash[k] # 0 => data'[hash[k]].row = data[hash[k]].row
    BY <1>4, <2>1 DEF Extends
  <2>3. hash'[k] = IF k \in removals THEN 0 ELSE hash[k]
    BY <1>1
  <2> QED
    BY <2>2, <2>3 DEF Lookup
<1>6. Contents = [k \in Keys |-> Lookup(k)] /\ Contents' = [k \in Keys |-> Lookup(k)']
  BY <1>3, PlainContents, PlainContentsNext
<1>7. Contents' = [k \in Keys |-> IF k \in removals THEN NoRow ELSE Contents[k]]
  BY <1>5, <1>6
<1>8. Queued' = Queued /\ Due' = Due
  BY <1>1, <1>2, SameQueued
<1>9. Phase = "removing" /\ Phase' = "inserting"
  BY <1>1, <1>2 DEF Phase
<1> QED
  BY <1>1, <1>7, <1>8, <1>9 DEF Abstract!Remove

\* A table that the serial path writes to.
LEMMA SerialInsert ==
  ASSUME TableInv, ShardInv, TableInv', NEW s \in Shards,
         InsertNew(s) \/ InsertMerged(s) \/ InsertUnchanged(s)
  PROVE  Contents' = [Contents EXCEPT ![Head(queue[s]).key] = Applied(@, Head(queue[s]))]
<1>1. /\ Serial(s) /\ merge.phase = "serial" /\ queue[s] # <<>> /\ Pop(s) /\ merge'.staged = merge.staged
  BY SerialStep DEF Serial
<1>2. PICK row \in Row : row = Head(queue[s])
  BY <1>1, PopInPlace
<1>3. \A z \in Shards : merge.staged[z] = <<>> /\ merge'.staged[z] = <<>>
  BY <1>1 DEF ShardInv, Progress
<1>4. Contents = [k \in Keys |-> Lookup(k)] /\ Contents' = [k \in Keys |-> Lookup(k)']
  BY <1>3, PlainContents, PlainContentsNext
<1>5. row.key \in Keys /\ row # NoRow
  BY NoRowIsNoRow DEF Row
<1>6. /\ data \in Seq(EntryType) /\ hash \in [Keys -> Nat] /\ NextRow # 0
      /\ \A k \in Keys : hash[k] # 0 => hash[k] \in 1..Len(data)
  <2>1. data \in Seq(EntryType) /\ hash \in [Keys -> Nat] /\ Linked(data, hash)
    BY DEF TableInv, TypeInv
  <2>2. Len(data) \in Nat
    BY <2>1
  <2> QED
    BY <2>1, <2>2 DEF Linked, NextRow
<1>7. ASSUME InsertNew(s) PROVE Lookup(row.key)' = Applied(Lookup(row.key), row) /\ Extends(data, data')
                                /\ \A k \in Keys : k # row.key => hash'[k] = hash[k]
  <2>1. /\ hash[row.key] = 0 /\ data' = Append(data, Entry(row))
        /\ hash' = [hash EXCEPT ![row.key] = NextRow]
    BY <1>2, <1>7 DEF InsertNew
  <2>2. hash'[row.key] = NextRow /\ \A k \in Keys : k # row.key => hash'[k] = hash[k]
    BY <1>5, <1>6, <2>1
  <2>3. data'[NextRow] = Entry(row)
    BY <1>6, <2>1 DEF NextRow
  <2>4. Lookup(row.key)' = row
    BY <1>6, <2>2, <2>3 DEF Lookup, Entry
  <2>5. Lookup(row.key) = NoRow
    BY <2>1 DEF Lookup
  <2> QED
    BY <1>7, <2>2, <2>4, <2>5, InsertNewKeeps DEF Applied
<1>8. ASSUME InsertMerged(s) PROVE Lookup(row.key)' = Applied(Lookup(row.key), row) /\ Extends(data, data')
                                   /\ \A k \in Keys : k # row.key => hash'[k] = hash[k]
  <2> DEFINE new == Applied(Lookup(row.key), row)
             old == hash[row.key]
  <2>1. /\ data' = Append(Retired(data, {old}), Entry(new))
        /\ hash' = [hash EXCEPT ![row.key] = NextRow]
    BY <1>2, <1>8 DEF InsertMerged
  <2> HIDE DEF new, old
  <2>2. hash'[row.key] = NextRow /\ \A k \in Keys : k # row.key => hash'[k] = hash[k]
    BY <1>5, <1>6, <2>1
  <2>3. data'[NextRow] = Entry(new)
    <3>1. Retired(data, {old}) \in Seq(EntryType) /\ Len(Retired(data, {old})) = Len(data)
      BY <1>6, RetiredFacts
    <3>2. PICK z \in Seq(EntryType) : z = Retired(data, {old})
      BY <3>1
    <3>3. Append(z, Entry(new))[Len(z) + 1] = Entry(new)
      OBVIOUS
    <3> QED
      BY <2>1, <3>1, <3>2, <3>3 DEF NextRow
  <2>4. Lookup(row.key)' = new
    BY <1>6, <2>2, <2>3 DEF Lookup, Entry
  <2> QED
    BY <1>8, <2>2, <2>4, InsertMergedKeeps DEF new
<1>9. ASSUME InsertUnchanged(s) PROVE Lookup(row.key)' = Applied(Lookup(row.key), row)
                                      /\ \A k \in Keys : Lookup(k)' = Lookup(k)
  <2>1. Applied(Lookup(row.key), row) = Lookup(row.key) /\ UNCHANGED <<data, hash>>
    BY <1>2, <1>9 DEF InsertUnchanged
  <2> QED
    BY <1>5, <2>1, Untouched
<1>10. ASSUME Extends(data, data'), \A k \in Keys : k # row.key => hash'[k] = hash[k]
       PROVE  \A k \in Keys : k # row.key => Lookup(k)' = Lookup(k)
  BY <1>6, <1>10 DEF Lookup, Extends
<1>11. Lookup(row.key)' = Applied(Lookup(row.key), row) /\ \A k \in Keys : k # row.key => Lookup(k)' = Lookup(k)
  BY <1>7, <1>8, <1>9, <1>10
<1>12. Contents' = [Contents EXCEPT ![row.key] = Applied(@, row)]
  BY <1>4, <1>5, <1>11
<1> QED
  BY <1>2, <1>12

\* A row that is gathered counts as inserted.
LEMMA GatherInsert ==
  ASSUME Chooses, TableInv, ShardInv, NEW s \in Shards, Gather(s)
  PROVE  Contents' = [Contents EXCEPT ![Head(queue[s]).key] = Applied(@, Head(queue[s]))]
<1>1. /\ TableInv'
      /\ Head(queue[s]) \in Row /\ ShardOf[Head(queue[s]).key] = s
      /\ RowFor(merge'.staged[s], Head(queue[s]).key)
           = Applied(RowFor(merge.staged[s], Head(queue[s]).key), Head(queue[s]))
      /\ \A k : k # Head(queue[s]).key => RowFor(merge'.staged[s], k) = RowFor(merge.staged[s], k)
      /\ \A z \in Shards : z # s => merge'.staged[z] = merge.staged[z]
  BY GatherStep
<1>2. PICK row \in Row : row = Head(queue[s])
  BY <1>1
<1>3. row.key \in Keys /\ \A k \in Keys : ShardOf[k] \in Shards
  BY TableConstants DEF Row, Shards
<1>4. \A k \in Keys : Lookup(k)' = Lookup(k)
  <2>1. UNCHANGED <<data, hash>>
    BY DEF Gather, table
  <2> QED
    BY <2>1, Untouched
<1>5. ASSUME NEW k \in Keys, k # row.key
      PROVE  RowFor(merge'.staged[ShardOf[k]], k) = RowFor(merge.staged[ShardOf[k]], k)
  <2>1. CASE ShardOf[k] = s
    BY <1>1, <1>2, <1>5, <2>1
  <2>2. CASE ShardOf[k] # s
    BY <1>1, <1>3, <2>2
  <2> QED
    BY <2>1, <2>2
<1>6. PICK cur \in Row \cup {NoRow} : cur = Lookup(row.key)
  BY <1>3, LookupIsRow
<1>7. PICK g \in Row \cup {NoRow} : g = RowFor(merge.staged[s], row.key)
  <2>1. merge.staged \in [Shards -> Seq(EntryType)] /\ UniqueKeys(merge.staged[s])
    BY DEF TableInv, TypeInv, MergeType, StagedInv
  <2>2. PICK b \in Seq(EntryType) : b = merge.staged[s]
    BY <2>1
  <2>3. RowFor(b, row.key) \in Row \cup {NoRow}
    BY <2>1, <2>2, OnlyRowFor
  <2> QED
    BY <2>2, <2>3
<1>8. RowFor(merge'.staged[s], row.key) = Applied(g, row)
  BY <1>1, <1>2, <1>7
<1>9. Blend(cur, Applied(g, row)) = Applied(Blend(cur, g), row)
  <2>1. CASE g = NoRow
    <3>1. Applied(g, row) = row /\ row # NoRow
      BY <2>1, NoRowIsNoRow DEF Applied
    <3> QED
      BY <2>1, <3>1 DEF Blend
  <2>2. CASE g \in Row
    <3>1. Applied(g, row) \in Row /\ Applied(cur, Applied(g, row)) = Applied(Applied(cur, g), row)
      BY <2>2, BatchedMerge
    <3>2. Applied(g, row) # NoRow /\ g # NoRow
      BY <2>2, <3>1, NoRowIsNoRow
    <3> QED
      BY <3>1, <3>2 DEF Blend
  <2> QED
    BY <2>1, <2>2
<1>10. Contents[row.key] = Blend(cur, g) /\ Contents'[row.key] = Blend(cur, Applied(g, row))
  BY <1>1, <1>2, <1>3, <1>4, <1>6, <1>7, <1>8, ContentsNow, ContentsNext
<1>11. \A k \in Keys : k # row.key => Contents'[k] = Contents[k]
  BY <1>1, <1>4, <1>5, ContentsNow, ContentsNext
<1>12. Contents = [k \in Keys |-> Contents[k]] /\ Contents' = [k \in Keys |-> Contents'[k]]
  BY DEF Contents
<1> HIDE DEF Contents
<1>13. Contents' = [Contents EXCEPT ![row.key] = Applied(@, row)]
  <2>1. Contents'[row.key] = Applied(Contents[row.key], row)
    BY <1>9, <1>10
  <2> QED
    BY <1>3, <1>11, <1>12, <2>1
<1> QED
  BY <1>2, <1>13

\* Each row that is taken from a queue is inserted.
LEMMA InsertStep ==
  ASSUME Chooses, TableInv, ShardInv, TableInv', NEW s \in Shards,
         InsertNew(s) \/ InsertMerged(s) \/ InsertUnchanged(s) \/ Gather(s)
  PROVE  Abstract!Next
<1>1. /\ queue[s] # <<>> /\ Pop(s) /\ merge'.owed = OwedAfterPop(s) /\ removals' = removals
      /\ merge.phase \in {"serial", "parallel"} /\ merge'.phase \in {"serial", "parallel"}
  <2>1. CASE InsertNew(s) \/ InsertMerged(s) \/ InsertUnchanged(s)
    BY <2>1, SerialStep DEF Serial
  <2>2. CASE Gather(s)
    BY <2>2, GatherStep DEF Gather
  <2> QED
    BY <2>1, <2>2
<1>2. PICK row \in Row : row = Head(queue[s])
  BY <1>1, Taken
<1>3. Contents' = [Contents EXCEPT ![row.key] = Applied(@, row)]
  BY <1>2, SerialInsert, GatherInsert
<1>4. /\ Queued[row] > 0
      /\ Queued' = [Queued EXCEPT ![row] = @ - 1]
      /\ Due' = [Due EXCEPT ![row] = IF @ = 0 THEN 0 ELSE @ - 1]
  BY <1>1, <1>2, Taken
<1>5. Phase = "inserting" /\ Phase' = "inserting"
  BY <1>1 DEF Phase
<1>6. Contents' = [Contents EXCEPT ![row.key] = Abstract!Applied(@, row)]
  BY <1>3, SameRows, Zenon
<1>7. Abstract!Insert(row)
  BY <1>1, <1>4, <1>5, <1>6 DEF Abstract!Insert
<1> QED
  BY <1>7, SameRows DEF Abstract!Next

\* A row that is written out was inserted when it was gathered.
LEMMA FlushUnseen ==
  ASSUME Chooses, TableInv, ShardInv, NEW s \in Shards, FlushBatch(s)
  PROVE  UNCHANGED Seen
<1>1. /\ merge.phase = "parallel" /\ removals' = removals /\ queue' = queue
  BY Zenon DEF FlushBatch, Flush, inbox
<1>2. /\ merge'.phase = "parallel" /\ merge'.owed = merge.owed
      /\ \A z \in Shards : merge'.staged[z] = IF z = s THEN <<>> ELSE merge.staged[z]
  BY FlushBatchStep
<1>3. TableInv' /\ Blended(data, hash, merge.staged[s], data', hash')
  BY FlushBatchKeeps
<1>4. PICK b \in Seq(EntryType) : b = merge.staged[s]
  <2>1. merge.staged \in [Shards -> Seq(EntryType)]
    BY DEF TableInv, TypeInv, MergeType
  <2> QED
    BY <2>1
<1>5. UniqueKeys(b) /\ \A i \in 1..Len(b) : b[i].live => ShardOf[b[i].row.key] = s
  BY <1>4 DEF TableInv, StagedInv, ShardInv, InPlace
<1>6. ASSUME NEW k \in Keys
      PROVE  Blend(Lookup(k)', RowFor(merge'.staged[ShardOf[k]], k)) = Blend(Lookup(k), RowFor(merge.staged[ShardOf[k]], k))
  <2>1. PICK cur \in Row \cup {NoRow} : cur = Lookup(k)
    BY LookupIsRow
  <2>2. PICK g \in Row \cup {NoRow} : g = RowFor(b, k)
    BY <1>5, OnlyRowFor
  <2>3. Lookup(k)' = IF g = NoRow \/ Applied(cur, g) = cur THEN cur ELSE g
    BY <1>3, <1>4, <2>1, <2>2 DEF Blended, RowAt, Lookup
  <2>4. ShardOf[k] \in Shards
    BY TableConstants DEF Shards
  <2>5. CASE ShardOf[k] # s
    <3>1. g = NoRow
      BY <1>5, <2>2, <2>5, OnlyRowFor
    <3>2. merge'.staged[ShardOf[k]] = merge.staged[ShardOf[k]]
      BY <1>2, <2>4, <2>5
    <3> QED
      BY <2>1, <2>3, <3>1, <3>2
  <2>6. CASE ShardOf[k] = s
    <3>1. RowFor(merge'.staged[ShardOf[k]], k) = NoRow
      BY <1>2, <2>6, NothingGathered
    <3>2. RowFor(merge.staged[ShardOf[k]], k) = g
      BY <1>4, <2>2, <2>6
    <3>3. g # NoRow => Applied(cur, g) \in {cur, g}
      BY BatchedMerge
    <3> QED
      BY <2>1, <2>3, <3>1, <3>2, <3>3 DEF Blend
  <2> QED
    BY <2>5, <2>6
<1>7. Contents' = Contents
  BY <1>3, <1>6, ContentsNow, ContentsNext
<1>8. Queued' = Queued /\ Due' = Due
  BY <1>1, <1>2, SameQueued
<1>9. Phase' = Phase
  BY <1>1, <1>2 DEF Phase
<1> QED
  BY <1>1, <1>7, <1>8, <1>9 DEF Seen

\* Nothing is owed where the merge owes no shard anything.
LEMMA NothingDue ==
  ASSUME TableInv, \A s \in Shards : merge.owed[s] = 0
  PROVE  Due = [r \in Row |-> 0]
<1>1. ASSUME NEW r \in Row PROVE Due[r] = 0
  <2>1. PICK s \in Shards : s = ShardOf[r.key]
    BY QueuedAndDue
  <2>2. queue \in [Shards -> Seq(Row)]
    BY DEF TableInv, TypeInv
  <2>3. PICK q \in Seq(Row) : q = queue[s]
    BY <2>2
  <2>4. Due[r] = Count(SubSeq(q, 1, 0), r)
    BY <2>1, <2>3, QueuedAndDue
  <2>5. 0 \in 0..Len(q) /\ <<>> \in Seq(Row)
    OBVIOUS
  <2>6. SubSeq(q, 1, 0) = <<>> /\ Count(<<>>, r) = 0
    BY <2>5, OwedRows, CountFacts
  <2> QED
    BY <2>4, <2>6
<1> QED
  BY <1>1, QueuedIsFunction

\* A merge ends when nothing is owed, and a rehash keeps every row.
LEMMA EndStep ==
  ASSUME TableInv, ShardInv, TableInv', EndMerge(SerialOrders) \/ EndMerge(ShardOrders)
  PROVE  Abstract!EndMerge
<1>1. /\ merge.phase = "rehash" /\ merge'.phase = "idle"
      /\ \A s \in Shards : merge.owed[s] = 0 /\ merge'.owed[s] = 0
      /\ \A s \in Shards : merge.staged[s] = <<>> /\ merge'.staged[s] = <<>>
  BY EndMergeStep
<1>2. UNCHANGED inbox
  BY Zenon DEF EndMerge
<1>3. queue' = queue /\ removals' = removals
  BY <1>2 DEF inbox
<1>4. UNCHANGED table \/ Rehashed(data, hash, clock, data', hash')
  BY EndMergeKeeps
<1>5. ASSUME NEW k \in Keys PROVE Lookup(k)' = Lookup(k)
  <2>1. CASE UNCHANGED table
    BY <2>1, Untouched DEF table
  <2>2. CASE Rehashed(data, hash, clock, data', hash')
    BY <2>2 DEF Lookup, Rehashed
  <2> QED
    BY <1>4, <2>1, <2>2
<1>6. Contents' = Contents
  BY <1>1, <1>5, SameContents
<1>7. Queued' = Queued /\ Due' = Due
  BY <1>1, <1>3, SameQueued
<1>8. Due = [r \in Row |-> 0]
  BY <1>1, NothingDue
<1>9. Phase = "inserting" /\ Phase' = "idle"
  BY <1>1 DEF Phase
<1> QED
  BY <1>3, <1>6, <1>7, <1>8, <1>9, SameRows DEF Abstract!EndMerge

\* A cleared table is empty and has nothing queued.
LEMMA ClearStep ==
  ASSUME TableInv, ShardInv, TableInv', Clear
  PROVE  Abstract!Clear
<1>1. /\ merge.phase = "idle" /\ merge' = merge /\ removals' = {} /\ queue' = [s \in Shards |-> <<>>]
      /\ (UNCHANGED table /\ data = <<>>) \/ hash' = [k \in Keys |-> 0]
  BY DEF Clear
<1>2. \A s \in Shards : merge.staged[s] = <<>> /\ merge.owed[s] = 0 /\ merge'.staged[s] = <<>>
  BY <1>1 DEF ShardInv, Progress
<1>3. ASSUME NEW k \in Keys PROVE Lookup(k)' = NoRow
  <2>1. CASE UNCHANGED table /\ data = <<>>
    <3>1. hash' = hash
      BY <2>1 DEF table
    <3>2. hash[k] # 0 => hash[k] \in 1..Len(data)
      BY DEF TableInv, Linked
    <3>3. Len(data) = 0
      BY <2>1
    <3>4. hash'[k] = 0
      BY <3>1, <3>2, <3>3
    <3> QED
      BY <3>4 DEF Lookup
  <2>2. CASE hash' = [z \in Keys |-> 0]
    BY <2>2 DEF Lookup
  <2> QED
    BY <1>1, <2>1, <2>2
<1>4. Contents' = [k \in Keys |-> NoRow]
  BY <1>2, <1>3, PlainContentsNext
<1>5. Due = [r \in Row |-> 0]
  BY <1>2, NothingDue
<1>6. ASSUME NEW r \in Row PROVE Queued'[r] = 0 /\ Due'[r] = 0
  <2>1. PICK s \in Shards : s = ShardOf[r.key]
    BY QueuedAndDue
  <2>2. Queued'[r] = Count(queue'[s], r) /\ Due'[r] = Count(SubSeq(queue'[s], 1, merge'.owed[s]), r)
    BY <2>1, QueuedAndDue
  <2>3. queue'[s] = <<>> /\ merge'.owed[s] = 0
    BY <1>1, <1>2
  <2>4. <<>> \in Seq(Row) /\ 0 \in 0..Len(<<>>)
    OBVIOUS
  <2>5. SubSeq(<<>>, 1, 0) = <<>> /\ Count(<<>>, r) = 0
    BY <2>4, OwedRows, CountFacts
  <2> QED
    BY <2>2, <2>3, <2>5
<1>7. Queued' = [r \in Row |-> 0] /\ Due' = [r \in Row |-> 0]
  BY <1>6, QueuedIsFunction
<1>8. Phase = "idle" /\ Phase' = "idle"
  BY <1>1 DEF Phase
<1> QED
  BY <1>1, <1>4, <1>5, <1>7, <1>8, SameRows DEF Abstract!Clear

\* The stored table keeps the promise of KeyedTable: with buffers dropped in the middle
\* of a merge, insertions by one thread or by a task per shard that merges rows with
\* each other first, stale rows and rehashes, a lookup finds what a map would that
\* applies the insertions one by one.  For a merge function that does not choose one
\* of its arguments the parallel path leaves something else.
THEOREM KeepsPromise == ASSUME Chooses PROVE Spec => ImplementsKeyedTable
<1>1. Init /\ TableInv => Abstract!Init
  BY StartsEmpty
<1>2. ASSUME TableInv, ShardInv, TableInv', [Next]_vars PROVE [Abstract!Next]_Seen
  <2>1. ASSUME UNCHANGED vars PROVE UNCHANGED Seen
    BY <2>1 DEF vars, table, inbox, Seen, Contents, GatheredRow, StagedAt, Lookup, Queued, Due, Phase
  <2>2. ASSUME \/ \E w \in Writers, k \in Keys, v \in Values : StageInsert(w, k, v)
               \/ \E w \in Writers, k \in Keys : StageRemove(w, k)
               \/ Tick \/ NextShard \/ JoinTasks \/ RefreshIndex
        PROVE  UNCHANGED Seen
    BY <1>2, <2>2, UnseenStep
  <2>3. ASSUME \/ \E w \in Writers : DropBuffer(w)
               \/ \E w \in Writers, s \in Shards : DropShard(w, s)
        PROVE  Abstract!Next
    BY <1>2, <2>3, QueueStep DEF Abstract!Next
  <2>4. ASSUME StartMerge PROVE Abstract!Next
    BY <1>2, <2>4, StartMergeStep DEF Abstract!Next
  <2>5. ASSUME Delete PROVE Abstract!Next
    BY <1>2, <2>5, RemoveStep DEF Abstract!Next
  <2>6. ASSUME NEW s \in Shards, InsertNew(s) \/ InsertMerged(s) \/ InsertUnchanged(s) \/ Gather(s)
        PROVE  Abstract!Next
    BY <1>2, <2>6, InsertStep
  <2>7. ASSUME NEW s \in Shards, FlushBatch(s) PROVE UNCHANGED Seen
    BY <1>2, <2>7, FlushUnseen
  <2>8. ASSUME EndMerge(SerialOrders) \/ EndMerge(ShardOrders) PROVE Abstract!Next
    BY <1>2, <2>8, EndStep DEF Abstract!Next
  <2>9. ASSUME Clear PROVE Abstract!Next
    BY <1>2, <2>9, ClearStep DEF Abstract!Next
  <2>10. Next => Abstract!Next \/ UNCHANGED Seen
    BY <2>2, <2>3, <2>4, <2>5, <2>6, <2>7, <2>8, <2>9, Zenon DEF Next
  <2> QED
    BY <1>2, <2>1, <2>10
<1>3. TableInv /\ ShardInv /\ TableInv' /\ [Next]_vars => [Abstract!Next]_Seen
  BY <1>2
<1> QED
  BY <1>1, <1>3, Invariant, RowsInTheirShards, PTL DEF Spec, ImplementsKeyedTable, Abstract!Spec, Abstract!vars, Seen
=============================================================================
