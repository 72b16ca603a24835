------------------------- MODULE DisplacedTableProofs -------------------------
(* Proofs about DisplacedTable, for every set of ids, of writers, and every   *)
(* bound: the rows are exact, fast_subset and the cached index give exactly   *)
(* the rows asked for, the rebuild's hint is complete, and the table          *)
(* implements Leaders.                                                        *)
EXTENDS DisplacedTable, FiniteSetTheorems, WellFoundedInduction, TLAPS

-----------------------------------------------------------------------------
(* Sets of numbers. *)

\* A set of naturals that is not empty has a least element.
LEMMA LeastNatural ==
    ASSUME NEW S \in SUBSET Nat, S # {}
    PROVE  \E m \in S : \A n \in S : m <= n
<1>1. \E x \in S : \A y \in S : ~(<<y, x>> \in OpToRel(<, Nat))
  BY NatLessThanWellFounded, WFMin, Zenon
<1>2. \A x, y \in S : <<y, x>> \in OpToRel(<, Nat) <=> y < x
  BY DEF OpToRel
<1>3. \A x, y \in S : y < x \/ x <= y
  OBVIOUS
<1> QED
  BY <1>1, <1>2, <1>3

\* Min gives the least element of a set of naturals.
LEMMA MinFacts ==
    ASSUME NEW S \in SUBSET Nat, S # {}
    PROVE  Min(S) \in S /\ \A x \in S : Min(S) <= x
BY LeastNatural DEF Min

\* Max gives the greatest element of a set that has a bound.
LEMMA BoundedMax ==
    ASSUME NEW S \in SUBSET Nat, S # {}, NEW b \in Nat, \A x \in S : x <= b
    PROVE  Max(S) \in S /\ \A x \in S : x <= Max(S)
<1> DEFINE Gaps == {n \in Nat : \E x \in S : x + n = b}
<1>1. \A x \in S : b - x \in Gaps
  OBVIOUS
<1>2. PICK g \in Gaps : \A n \in Gaps : g <= n
  BY <1>1, LeastNatural
<1>3. PICK u \in S : u + g = b
  OBVIOUS
<1>4. \A y \in S : u >= y
  BY <1>1, <1>2, <1>3
<1> QED
  BY <1>4 DEF Max

\* A set of numbers that has all lesser ones is as large as its greatest element.
LEMMA PrefixLength ==
    ASSUME NEW k \in Nat, NEW D \in SUBSET (1..k), \A n \in D, m \in 1..k : m <= n => m \in D
    PROVE  Cardinality(D) \in 0..k /\ D = 1..Cardinality(D)
<1> DEFINE Gaps == {n \in Nat : n + 1 \notin D}
<1>1. k \in Gaps
  OBVIOUS
<1>2. PICK j \in Gaps : \A n \in Gaps : j <= n
  BY <1>1, LeastNatural
<1>3. j \in Nat /\ j <= k
  BY <1>1, <1>2
<1>4. ASSUME NEW n \in 1..j PROVE n \in D
  <2>1. n - 1 \in Nat /\ n - 1 < j
    BY <1>3
  <2>2. n - 1 \notin Gaps
    BY <1>2, <1>3, <2>1
  <2> QED
    BY <2>1, <2>2
<1>5. ASSUME NEW n \in D PROVE n \in 1..j
  BY <1>2, <1>3
<1>6. D = 1..j
  BY <1>4, <1>5
<1>7. Cardinality(1..j) = j
  BY <1>3, FS_Interval
<1> QED
  BY <1>3, <1>6, <1>7

-----------------------------------------------------------------------------
(* The forest. *)

Forest(p) == p \in [Ids -> Ids] /\ \A i \in Ids : p[i] <= i

\* g gives every id the end of its walk in p.
Leads(g, p) == g = [i \in Ids |-> IF p[i] = i THEN i ELSE g[p[i]]]

\* The roots that lie in every set of ids that has i and is closed under p.
Ends(p, i) ==
  {r \in Ids : /\ p[r] = r
               /\ \A S \in SUBSET Ids : i \in S /\ (\A k \in S : p[k] \in S) => r \in S}

\* An id that is no root has the same walk as its parent, but for itself.
LEMMA EndsOfParent ==
  ASSUME NEW p \in [Ids -> Ids], NEW i \in Ids, p[i] # i
  PROVE  Ends(p, i) = Ends(p, p[i])
<1>1. ASSUME NEW r \in Ends(p, i), NEW S \in SUBSET Ids, p[i] \in S, \A k \in S : p[k] \in S
      PROVE  r \in S
  <2>1. S \cup {i} \in SUBSET Ids /\ \A k \in S \cup {i} : p[k] \in S \cup {i}
    BY <1>1
  <2>2. r \in S \cup {i} /\ r # i
    BY <2>1 DEF Ends
  <2> QED
    BY <2>2
<1>2. ASSUME NEW r \in Ends(p, p[i]), NEW S \in SUBSET Ids, i \in S, \A k \in S : p[k] \in S
      PROVE  r \in S
  BY <1>2 DEF Ends
<1> QED
  BY <1>1, <1>2 DEF Ends

\* The recursive definition of the leader is one: a function satisfies it.
LEMMA LeaderLeads ==
  ASSUME NEW p \in [Ids -> Ids]
  PROVE  Leads(LeaderIn(p), p)
<1> DEFINE g == [i \in Ids |-> CHOOSE r : r \in Ends(p, i)]
<1>1. ASSUME NEW i \in Ids, p[i] = i PROVE g[i] = i
  <2>1. Ends(p, i) = {i}
    <3>1. i \in Ends(p, i)
      BY <1>1 DEF Ends
    <3>2. ASSUME NEW r \in Ends(p, i) PROVE r = i
      <4>1. {i} \in SUBSET Ids /\ \A k \in {i} : p[k] \in {i}
        BY <1>1
      <4> QED
        BY <4>1 DEF Ends
    <3> QED
      BY <3>1, <3>2
  <2> QED
    BY <2>1
<1>2. ASSUME NEW i \in Ids, p[i] # i PROVE g[i] = g[p[i]]
  <2>1. p[i] \in Ids /\ Ends(p, i) = Ends(p, p[i])
    BY <1>2, EndsOfParent
  <2> QED
    BY <2>1
<1>3. g = [i \in Ids |-> IF p[i] = i THEN i ELSE g[p[i]]]
  <2>1. \A i \in Ids : g[i] = IF p[i] = i THEN i ELSE g[p[i]]
    BY <1>1, <1>2
  <2> QED
    BY <2>1
<1> HIDE DEF g
<1> QED
  BY <1>3 DEF LeaderIn, Leads

\* In a forest only one function gives every id the end of its walk.
LEMMA LeaderUnique ==
  ASSUME NEW p, Forest(p), NEW g, NEW h, Leads(g, p), Leads(h, p)
  PROVE  g = h
<1>1. \A i \in Ids : g[i] = h[i]
  <2> DEFINE Out == {i \in Ids : g[i] # h[i]}
  <2> SUFFICES ASSUME Out # {} PROVE FALSE
    OBVIOUS
  <2>1. PICK i \in Out : \A k \in Out : i <= k
    BY LeastNatural, DisplacedConstants
  <2>2. i \in Ids /\ i \in Nat /\ p[i] \in Ids /\ p[i] \in Nat /\ p[i] <= i
    BY <2>1, DisplacedConstants DEF Forest
  <2>3. p[i] # i
    BY <2>1, <2>2 DEF Leads
  <2>4. p[i] \notin Out
    BY <2>1, <2>2, <2>3
  <2>5. g[i] = g[p[i]] /\ h[i] = h[p[i]]
    BY <2>2, <2>3 DEF Leads
  <2> QED
    BY <2>1, <2>2, <2>4, <2>5
<1>2. g = [i \in Ids |-> g[i]] /\ h = [i \in Ids |-> h[i]]
  BY DEF Leads
<1> QED
  BY <1>1, <1>2

\* The leader of an id is a root, not greater than the id, and its parent's too.
LEMMA LeaderFacts ==
  ASSUME NEW p, Forest(p)
  PROVE  /\ Leads(LeaderIn(p), p)
         /\ LeaderIn(p) \in [Ids -> Ids]
         /\ \A i \in Ids : /\ LeaderIn(p)[i] <= i
                           /\ p[LeaderIn(p)[i]] = LeaderIn(p)[i]
                           /\ LeaderIn(p)[p[i]] = LeaderIn(p)[i]
                           /\ LeaderIn(p)[i] = i <=> p[i] = i
<1> DEFINE L == LeaderIn(p)
<1>1. Leads(L, p)
  BY LeaderLeads DEF Forest
<1> HIDE DEF L
<1>2. \A i \in Ids : L[i] = IF p[i] = i THEN i ELSE L[p[i]]
  BY <1>1 DEF Leads
<1>3. \A i \in Ids : L[i] \in Ids /\ L[i] <= i /\ p[L[i]] = L[i]
  <2> DEFINE Out == {i \in Ids : ~(L[i] \in Ids /\ L[i] <= i /\ p[L[i]] = L[i])}
  <2> SUFFICES ASSUME Out # {} PROVE FALSE
    OBVIOUS
  <2>1. PICK i \in Out : \A k \in Out : i <= k
    BY LeastNatural, DisplacedConstants
  <2>2. i \in Ids /\ i \in Nat /\ p[i] \in Ids /\ p[i] \in Nat /\ p[i] <= i
    BY <2>1, DisplacedConstants DEF Forest
  <2>3. p[i] # i
    BY <1>2, <2>1, <2>2
  <2>4. L[p[i]] \in Ids /\ L[p[i]] <= p[i] /\ p[L[p[i]]] = L[p[i]]
    BY <2>1, <2>2, <2>3
  <2>5. L[p[i]] \in Nat
    BY <2>4, DisplacedConstants
  <2> QED
    BY <1>2, <2>1, <2>2, <2>3, <2>4, <2>5
<1>4. L \in [Ids -> Ids]
  <2>1. L = [i \in Ids |-> L[i]]
    BY <1>1 DEF Leads
  <2> QED
    BY <1>3, <2>1
<1>5. \A i \in Ids : L[p[i]] = L[i] /\ (L[i] = i <=> p[i] = i)
  BY <1>2, <1>3 DEF Forest
<1> QED
  BY <1>1, <1>3, <1>4, <1>5 DEF L

\* Path compression: whichever ids are hung under their grandparents, leaders stay.
LEMMA CompressedFacts ==
  ASSUME NEW p, Forest(p), NEW id
  PROVE  Forest(Compressed(p, id)) /\ LeaderIn(Compressed(p, id)) = LeaderIn(p)
<1> DEFINE path == Walked(p)[id]
           q == [i \in Ids |-> IF i \in path THEN p[p[i]] ELSE p[i]]
           L == LeaderIn(p)
<1>1. Compressed(p, id) = q
  BY DEF Compressed
<1> HIDE DEF path
<1>2. \A i \in Ids : /\ i \in Nat /\ p[i] \in Ids /\ p[i] \in Nat /\ p[i] <= i
                     /\ p[p[i]] \in Ids /\ p[p[i]] \in Nat /\ p[p[i]] <= p[i]
  BY DisplacedConstants DEF Forest
<1>3. \A i \in Ids : q[i] \in {p[i], p[p[i]]}
  OBVIOUS
<1>4. Forest(q)
  <2>1. q \in [Ids -> Ids]
    BY <1>2
  <2> HIDE DEF q
  <2>2. \A i \in Ids : q[i] <= i
    BY <1>2, <1>3
  <2> QED
    BY <2>1, <2>2 DEF Forest
<1> HIDE DEF q
<1>5. \A i \in Ids : q[i] = i <=> p[i] = i
  BY <1>2, <1>3
<1>6. L = LeaderIn(p)
  OBVIOUS
<1> HIDE DEF L
<1>7. L \in [Ids -> Ids] /\ \A i \in Ids : L[p[i]] = L[i] /\ (L[i] = i <=> p[i] = i)
  BY <1>6, LeaderFacts
<1>8. \A i \in Ids : L[q[i]] = L[i]
  BY <1>2, <1>3, <1>7
<1>9. Leads(L, q)
  <2>1. \A i \in Ids : L[i] = IF q[i] = i THEN i ELSE L[q[i]]
    BY <1>5, <1>7, <1>8
  <2> QED
    BY <1>7, <2>1 DEF Leads
<1>10. LeaderIn(q) = L
  BY <1>4, <1>9, LeaderFacts, LeaderUnique
<1> QED
  BY <1>1, <1>4, <1>6, <1>10

\* Hanging a root under a lesser one gives its class that leader.
LEMMA LinkFacts ==
  ASSUME NEW p, Forest(p), NEW c \in Ids, NEW d \in Ids, p[c] = c, p[d] = d, d < c
  PROVE  /\ Forest([p EXCEPT ![c] = d])
         /\ LeaderIn([p EXCEPT ![c] = d]) = [i \in Ids |-> IF LeaderIn(p)[i] = c THEN d ELSE LeaderIn(p)[i]]
<1> DEFINE q == [p EXCEPT ![c] = d]
           L == LeaderIn(p)
           g == [i \in Ids |-> IF L[i] = c THEN d ELSE L[i]]
<1>1. p \in [Ids -> Ids] /\ c \in Nat /\ d \in Nat /\ \A i \in Ids : p[i] <= i
  BY DisplacedConstants DEF Forest
<1>2. q \in [Ids -> Ids] /\ q[c] = d /\ \A i \in Ids : i # c => q[i] = p[i]
  BY <1>1
<1>3. Forest(q)
  <2> HIDE DEF q
  <2> QED
    BY <1>1, <1>2 DEF Forest
<1>4. L = LeaderIn(p)
  OBVIOUS
<1> HIDE DEF L
<1>5. L \in [Ids -> Ids] /\ \A i \in Ids : L[p[i]] = L[i] /\ (L[i] = i <=> p[i] = i)
  BY <1>4, LeaderFacts
<1>6. \A i \in Ids : g[i] = IF L[i] = c THEN d ELSE L[i]
  OBVIOUS
<1>7. g = [i \in Ids |-> g[i]]
  OBVIOUS
<1> HIDE DEF g, q
<1>8. Leads(g, q)
  <2>1. g[c] = d /\ g[d] = d /\ q[c] # c
    BY <1>1, <1>2, <1>5, <1>6
  <2>2. \A i \in Ids : i # c => g[i] = IF q[i] = i THEN i ELSE g[q[i]]
    <3>1. ASSUME NEW i \in Ids, i # c, p[i] = i PROVE g[i] = i
      BY <1>5, <1>6, <3>1
    <3>2. ASSUME NEW i \in Ids, i # c PROVE g[i] = g[p[i]]
      <4>1. p[i] \in Ids /\ L[p[i]] = L[i]
        BY <1>1, <1>5
      <4> QED
        BY <1>6, <4>1
    <3> QED
      BY <1>2, <3>1, <3>2
  <2>3. \A i \in Ids : g[i] = IF q[i] = i THEN i ELSE g[q[i]]
    BY <1>2, <2>1, <2>2
  <2> QED
    BY <1>7, <2>3 DEF Leads
<1>9. LeaderIn(q) = g
  BY <1>3, <1>8, LeaderFacts, LeaderUnique
<1> QED
  BY <1>3, <1>4, <1>9 DEF g, q

-----------------------------------------------------------------------------
(* The inductive invariant. *)

Row == [id : Ids, ts : Timestamps]

TypeInv ==
  /\ Forest(parents)
  /\ displaced \in Seq(Row)
  /\ lookup \in [Ids -> 0..Len(displaced)]
  /\ queue \in Seq(Write)
  /\ buffers \in [Writers -> Seq(Write)]
  /\ merging \in BOOLEAN
  /\ index = [updated |-> index.updated, minor |-> index.minor, entries |-> index.entries]
  /\ index.updated \in BOOLEAN
  /\ index.minor \in 0..Len(displaced)
  /\ tracker.minor \in 0..Len(displaced)
  /\ clock \in Timestamps
  /\ ops \in 0..MaxOps

\* Row numbers and rows point to each other, and just the leaders have none.
RowInv ==
  /\ \A n \in 1..Len(displaced) : lookup[displaced[n].id] = n
  /\ \A i \in Ids : lookup[i] # 0 => displaced[lookup[i]].id = i
  /\ \A i \in Ids : lookup[i] = 0 <=> Leader[i] = i

\* What waits to be merged has the current timestamp, so that rows are sorted.
TimeInv ==
  /\ \A n \in 1..Len(queue) : queue[n].ts = clock
  /\ \A w \in Writers : \A n \in 1..Len(buffers[w]) : buffers[w][n].ts = clock
  /\ \A n \in 1..Len(displaced) : displaced[n].ts <= clock
  /\ \A m, n \in 1..Len(displaced) : m <= n => displaced[m].ts <= displaced[n].ts

\* The index has the rows up to its version, and only a merge leaves it behind.
Column(n, c) == IF c = "id" THEN displaced[n].id ELSE displaced[n].ts
IndexInv ==
  /\ \A e : e \in index.entries <=>
              \E c \in {"id", "ts"}, n \in 1..index.minor : e = <<c, Column(n, c), n>>
  /\ index.updated /\ ~merging => index.minor = Len(displaced)

\* The ids that led when the rebuild last ran are those without an older row.
TrackInv ==
  \A i \in Ids : tracker.leader[i] = i <=> lookup[i] = 0 \/ lookup[i] > tracker.minor

TableInv == TypeInv /\ RowInv /\ TimeInv /\ IndexInv /\ TrackInv

-----------------------------------------------------------------------------
(* One union. *)

\* The loser of a union: the greater of the two leaders.
Loser(row)  == IF Leader[row.l] < Leader[row.r] THEN Leader[row.r] ELSE Leader[row.l]
Winner(row) == IF Leader[row.l] < Leader[row.r] THEN Leader[row.l] ELSE Leader[row.r]

\* What insert_impl does, in terms of leaders; the searches on the way do not matter.
LEMMA DisplaceFacts ==
  ASSUME Forest(parents), NEW row \in Write, Displace(row)
  PROVE  /\ Forest(parents')
         /\ Loser(row) \in Ids /\ Winner(row) \in Ids /\ Leader \in [Ids -> Ids]
         /\ Leader[row.l] = Leader[row.r] => Leader' = Leader /\ UNCHANGED <<displaced, lookup>>
         /\ Leader[row.l] # Leader[row.r] =>
              /\ Winner(row) < Loser(row)
              /\ Leader[Loser(row)] = Loser(row) /\ Leader[Winner(row)] = Winner(row)
              /\ Leader' = [i \in Ids |-> IF Leader[i] = Loser(row) THEN Winner(row) ELSE Leader[i]]
              /\ displaced' = Append(displaced, [id |-> Loser(row), ts |-> row.ts])
              /\ lookup' = [lookup EXCEPT ![Loser(row)] = Len(displaced')]
<1> DEFINE Search(p) == Compressed(Compressed(p, row.l), row.r)
           found == Search(parents)
           again == Search(found)
           a == Leader[row.l]
           b == Leader[row.r]
<1>1. \A p : Forest(p) => Forest(Search(p)) /\ LeaderIn(Search(p)) = LeaderIn(p)
  BY CompressedFacts
<1> HIDE DEF Search
<1>2. Forest(found) /\ LeaderIn(found) = Leader /\ Forest(again) /\ LeaderIn(again) = Leader
  BY <1>1 DEF Leader
<1>3. row.l \in Ids /\ row.r \in Ids
  BY DEF Write
<1>4. /\ Leader \in [Ids -> Ids]
      /\ \A i \in Ids : Leader[Leader[i]] = Leader[i]
  BY LeaderFacts DEF Leader
<1>5. a \in Ids /\ b \in Ids /\ a \in Nat /\ b \in Nat /\ Leader[a] = a /\ Leader[b] = b
  BY <1>3, <1>4, DisplacedConstants
<1>6. Sides(found, row) = <<a, b>>
  BY <1>2 DEF Sides
<1>7. Ordered(<<a, b>>) = [parent |-> Winner(row), child |-> Loser(row)]
  BY <1>5 DEF Ordered, Winner, Loser
<1>8. Loser(row) \in {a, b} /\ Winner(row) \in {a, b} /\ (a # b => Winner(row) < Loser(row))
  BY <1>5 DEF Winner, Loser
<1>9. IF a = b
      THEN parents' = found /\ UNCHANGED <<displaced, lookup>>
      ELSE /\ parents' = [again EXCEPT ![Loser(row)] = Winner(row)]
           /\ displaced' = Append(displaced, [id |-> Loser(row), ts |-> row.ts])
           /\ lookup' = [lookup EXCEPT ![Loser(row)] = Len(displaced')]
  <2>1. IF Sides(found, row)[1] = Sides(found, row)[2]
        THEN parents' = found /\ UNCHANGED <<displaced, lookup>>
        ELSE LET new == Ordered(Sides(found, row))
             IN  /\ parents' = [again EXCEPT ![new.child] = new.parent]
                 /\ displaced' = Append(displaced, [id |-> new.child, ts |-> row.ts])
                 /\ lookup' = [lookup EXCEPT ![new.child] = Len(displaced')]
    BY Zenon DEF Displace, Search
  <2>2. <<a, b>>[1] = a /\ <<a, b>>[2] = b
    OBVIOUS
  <2>3. Ordered(Sides(found, row)).parent = Winner(row) /\ Ordered(Sides(found, row)).child = Loser(row)
    BY <1>6, <1>7
  <2> HIDE DEF found, again, a, b
  <2> QED
    BY <1>6, <2>1, <2>2, <2>3
<1>10. CASE a = b
  <2>1. Forest(parents') /\ Leader' = Leader
    BY <1>2, <1>9, <1>10 DEF Leader
  <2> QED
    BY <1>4, <1>5, <1>8, <1>9, <1>10, <2>1
<1>11. CASE a # b
  <2>1. again[Loser(row)] = Loser(row) /\ again[Winner(row)] = Winner(row)
    <3>1. \A i \in Ids : LeaderIn(again)[i] = i <=> again[i] = i
      BY <1>2, LeaderFacts
    <3> QED
      BY <1>2, <1>5, <1>8, <3>1
  <2>2. /\ Forest([again EXCEPT ![Loser(row)] = Winner(row)])
        /\ LeaderIn([again EXCEPT ![Loser(row)] = Winner(row)])
             = [i \in Ids |-> IF LeaderIn(again)[i] = Loser(row) THEN Winner(row) ELSE LeaderIn(again)[i]]
    BY <1>2, <1>5, <1>8, <1>11, <2>1, LinkFacts
  <2>3. Leader' = LeaderIn(parents')
    BY DEF Leader
  <2>4. /\ Forest(parents')
        /\ Leader' = [i \in Ids |-> IF Leader[i] = Loser(row) THEN Winner(row) ELSE Leader[i]]
    BY <1>2, <1>9, <1>11, <2>2, <2>3
  <2> QED
    BY <1>4, <1>5, <1>8, <1>9, <1>11, <2>4
<1> QED
  BY <1>10, <1>11

-----------------------------------------------------------------------------
(* Every action keeps the invariant. *)

\* The new table has no rows, and everybody leads.
LEMMA InitTable == Init => TableInv
<1> SUFFICES ASSUME Init PROVE TableInv
  OBVIOUS
<1> USE DEF Init
<1>1. Forest(parents) /\ \A i \in Ids : parents[i] = i
  BY DisplacedConstants DEF Forest
<1>2. \A i \in Ids : Leader[i] = i
  BY <1>1, LeaderFacts DEF Leader
<1>3. Len(displaced) = 0
  OBVIOUS
<1>4. TypeInv
  <2>1. /\ displaced \in Seq(Row) /\ queue \in Seq(Write) /\ merging \in BOOLEAN
        /\ lookup \in [Ids -> 0..Len(displaced)] /\ buffers \in [Writers -> Seq(Write)]
    <3>1. \A S : <<>> \in Seq(S)
      OBVIOUS
    <3>2. displaced \in Seq(Row) /\ queue \in Seq(Write) /\ buffers \in [Writers -> Seq(Write)]
      BY <3>1, Zenon
    <3>3. lookup \in [Ids -> 0..Len(displaced)]
      BY <1>3
    <3> QED
      BY <3>2, <3>3
  <2>2. /\ index = [updated |-> index.updated, minor |-> index.minor, entries |-> index.entries]
        /\ index.updated \in BOOLEAN
        /\ index.minor \in 0..Len(displaced) /\ tracker.minor \in 0..Len(displaced)
    BY <1>3
  <2>3. clock \in Timestamps /\ ops \in 0..MaxOps
    BY DisplacedConstants DEF Timestamps
  <2> QED
    BY <1>1, <2>1, <2>2, <2>3 DEF TypeInv
<1>5. RowInv /\ TrackInv
  BY <1>2, <1>3 DEF RowInv, TrackInv
<1>6. TimeInv
  BY <1>3 DEF TimeInv
<1>7. IndexInv
  BY <1>3 DEF IndexInv
<1> QED
  BY <1>4, <1>5, <1>6, <1>7 DEF TableInv

\* Whatever leaves the table alone keeps what is said of the table alone.
LEMMA KeepsRows ==
  ASSUME TableInv, UNCHANGED table
  PROVE  RowInv' /\ Forest(parents') /\ displaced' \in Seq(Row) /\ lookup' \in [Ids -> 0..Len(displaced')]
<1>1. Leader' = Leader /\ parents' = parents /\ displaced' = displaced /\ lookup' = lookup
  BY DEF table, Leader
<1> QED
  BY <1>1 DEF TableInv, RowInv, TypeInv

\* Staging: the new union has the current timestamp.
LEMMA KeepsStage ==
  ASSUME TableInv, NEW w \in Writers, NEW l \in Ids, NEW r \in Ids, Stage(w, l, r)
  PROVE  TableInv'
<1> DEFINE row == [l |-> l, r |-> r, ts |-> clock]
<1>1. /\ UNCHANGED <<table, parents, displaced, lookup, queue, clock, merging, index, tracker>>
      /\ ops' \in 0..MaxOps
      /\ buffers' = [buffers EXCEPT ![w] = Append(@, row)]
  BY DisplacedConstants DEF Stage, table, TableInv, TypeInv
<1>2. row \in Write /\ row.ts = clock
  BY DEF TableInv, TypeInv, Write
<1>3. buffers \in [Writers -> Seq(Write)]
  BY DEF TableInv, TypeInv
<1> HIDE DEF row
<1>4. buffers' \in [Writers -> Seq(Write)]
  BY <1>1, <1>2, <1>3
<1>5. \A v \in Writers : \A n \in 1..Len(buffers'[v]) : buffers'[v][n].ts = clock
  BY <1>1, <1>2, <1>3 DEF TableInv, TimeInv
<1>6. TypeInv' /\ RowInv'
  BY <1>1, <1>4, KeepsRows DEF TableInv, TypeInv
<1>7. TimeInv'
  BY <1>1, <1>5 DEF TableInv, TimeInv
<1>8. IndexInv' /\ TrackInv'
  BY <1>1 DEF TableInv, IndexInv, TrackInv, Column
<1> QED
  BY <1>6, <1>7, <1>8 DEF TableInv

\* Handing a buffer over keeps its timestamps.
LEMMA KeepsDrop ==
  ASSUME TableInv, NEW w \in Writers, DropBuffer(w)
  PROVE  TableInv'
<1>1. /\ UNCHANGED <<table, parents, displaced, lookup, clock, ops, merging, index, tracker>>
      /\ queue' = queue \o buffers[w]
      /\ buffers' = [buffers EXCEPT ![w] = <<>>]
  BY DEF DropBuffer, table
<1>2. queue \in Seq(Write) /\ buffers \in [Writers -> Seq(Write)] /\ buffers[w] \in Seq(Write)
  BY DEF TableInv, TypeInv
<1>3. buffers' \in [Writers -> Seq(Write)] /\ queue' \in Seq(Write)
  BY <1>1, <1>2
<1>4. \A v \in Writers : \A n \in 1..Len(buffers'[v]) : buffers'[v][n].ts = clock
  <2>1. \A v \in Writers : v # w => buffers'[v] = buffers[v]
    BY <1>1, <1>2
  <2>2. Len(buffers'[w]) = 0
    BY <1>1, <1>2
  <2> QED
    BY <2>1, <2>2 DEF TableInv, TimeInv
<1>5. \A n \in 1..Len(queue') : queue'[n].ts = clock
  <2>1. ASSUME NEW n \in 1..Len(queue')
        PROVE  \/ n \in 1..Len(queue) /\ queue'[n] = queue[n]
               \/ n - Len(queue) \in 1..Len(buffers[w]) /\ queue'[n] = buffers[w][n - Len(queue)]
    BY <1>1, <1>2
  <2> QED
    BY <2>1 DEF TableInv, TimeInv
<1>6. TypeInv' /\ RowInv'
  BY <1>1, <1>3, KeepsRows DEF TableInv, TypeInv
<1>7. TimeInv'
  BY <1>1, <1>4, <1>5 DEF TableInv, TimeInv
<1>8. IndexInv' /\ TrackInv'
  BY <1>1 DEF TableInv, IndexInv, TrackInv, Column
<1> QED
  BY <1>6, <1>7, <1>8 DEF TableInv

\* The clock moves when nothing waits that would have the old time.
LEMMA KeepsTick ==
  ASSUME TableInv, Tick
  PROVE  TableInv'
<1>1. /\ UNCHANGED <<table, parents, displaced, lookup, queue, buffers, ops, merging, index, tracker>>
      /\ clock' = clock + 1 /\ clock < MaxTs /\ queue = <<>>
      /\ \A w \in Writers : buffers[w] = <<>>
  BY DEF Tick, table
<1>2. clock \in Timestamps /\ clock' \in Timestamps /\ clock \in Nat
  BY <1>1, DisplacedConstants DEF TableInv, TypeInv, Timestamps
<1>3. TypeInv' /\ RowInv'
  BY <1>1, <1>2, KeepsRows DEF TableInv, TypeInv
<1>4. TimeInv'
  <2>1. \A n \in 1..Len(displaced) : displaced[n].ts \in Nat /\ displaced[n].ts <= clock
    <3>1. \A n \in 1..Len(displaced) : displaced[n] \in Row
      BY DEF TableInv, TypeInv
    <3>2. \A x \in Row : x.ts \in Nat
      BY DisplacedConstants DEF Row, Timestamps
    <3> QED
      BY <3>1, <3>2 DEF TableInv, TimeInv
  <2>2. \A n \in 1..Len(displaced') : displaced'[n].ts <= clock'
    BY <1>1, <1>2, <2>1
  <2>3. \A n \in 1..Len(queue') : queue'[n].ts = clock'
    BY <1>1
  <2>4. \A w \in Writers : \A n \in 1..Len(buffers'[w]) : buffers'[w][n].ts = clock'
    BY <1>1
  <2> QED
    BY <1>1, <2>2, <2>3, <2>4 DEF TableInv, TimeInv
<1>5. IndexInv' /\ TrackInv'
  BY <1>1 DEF TableInv, IndexInv, TrackInv, Column
<1> QED
  BY <1>3, <1>4, <1>5 DEF TableInv

\* A merge begins, or ends and leaves the index to be refreshed.
LEMMA KeepsMerge ==
  ASSUME TableInv, StartMerge \/ EndMerge
  PROVE  TableInv'
<1>1. /\ UNCHANGED <<table, parents, displaced, lookup, queue, buffers, clock, ops, tracker>>
      /\ merging' \in BOOLEAN
      /\ index'.minor = index.minor /\ index'.entries = index.entries /\ index'.updated \in BOOLEAN
      /\ index' = [updated |-> index'.updated, minor |-> index'.minor, entries |-> index'.entries]
      /\ merging' \/ ~index'.updated
  <2>1. CASE StartMerge
    BY <2>1 DEF StartMerge, table, inbox, TableInv, TypeInv
  <2>2. CASE EndMerge
    <3>1. index' = [updated |-> FALSE, minor |-> index.minor, entries |-> index.entries]
      BY <2>2 DEF EndMerge, TableInv, TypeInv
    <3> QED
      BY <2>2, <3>1 DEF EndMerge, table, inbox
  <2> QED
    BY <2>1, <2>2
<1>2. TypeInv' /\ RowInv'
  BY <1>1, KeepsRows DEF TableInv, TypeInv
<1>3. TimeInv' /\ TrackInv'
  BY <1>1 DEF TableInv, TimeInv, TrackInv
<1>4. IndexInv'
  BY <1>1 DEF TableInv, IndexInv, Column
<1> QED
  BY <1>2, <1>3, <1>4 DEF TableInv

\* A union of the queue: if it displaces an id, the row comes last in every order.
LEMMA KeepsInsert ==
  ASSUME TableInv, Insert
  PROVE  TableInv'
<1> DEFINE row == Head(queue)
           c == Loser(row)
           w == Winner(row)
           new == Len(displaced) + 1
<1>1. /\ UNCHANGED <<buffers, clock, ops, merging, index, tracker>>
      /\ merging /\ queue # <<>> /\ queue' = Tail(queue) /\ Displace(row)
  BY DEF Insert
<1>2. /\ row \in Write /\ row.ts = clock
      /\ queue' \in Seq(Write) /\ \A n \in 1..Len(queue') : queue'[n].ts = clock
  <2>1. queue \in Seq(Write) /\ \A n \in 1..Len(queue) : queue[n].ts = clock
    BY DEF TableInv, TypeInv, TimeInv
  <2>2. Len(queue) \in Nat /\ Len(queue) > 0 /\ row = queue[1] /\ 1 \in 1..Len(queue)
    BY <1>1, <2>1
  <2>3. \A n \in 1..Len(queue') : n + 1 \in 1..Len(queue) /\ queue'[n] = queue[n + 1]
    BY <1>1, <2>1, <2>2
  <2> QED
    BY <1>1, <2>1, <2>2, <2>3
<1> HIDE DEF row
<1>3. Forest(parents)
  BY DEF TableInv, TypeInv
<1>4. CASE Leader[row.l] = Leader[row.r]
  <2>1. Forest(parents') /\ Leader' = Leader /\ UNCHANGED <<displaced, lookup>>
    BY <1>1, <1>2, <1>3, <1>4, DisplaceFacts
  <2>2. TypeInv'
    BY <1>1, <1>2, <2>1 DEF TableInv, TypeInv
  <2>3. RowInv' /\ TrackInv'
    BY <1>1, <2>1 DEF TableInv, RowInv, TrackInv
  <2>4. TimeInv'
    BY <1>1, <1>2, <2>1 DEF TableInv, TimeInv
  <2>5. IndexInv'
    BY <1>1, <2>1 DEF TableInv, IndexInv, Column
  <2> QED
    BY <2>2, <2>3, <2>4, <2>5 DEF TableInv
<1>5. CASE Leader[row.l] # Leader[row.r]
  <2>1. /\ Forest(parents') /\ c \in Ids /\ w \in Ids /\ w < c
        /\ Leader[c] = c /\ Leader[w] = w
        /\ Leader' = [i \in Ids |-> IF Leader[i] = c THEN w ELSE Leader[i]]
        /\ displaced' = Append(displaced, [id |-> c, ts |-> row.ts])
        /\ lookup' = [lookup EXCEPT ![c] = Len(displaced')]
    BY <1>1, <1>2, <1>3, <1>5, DisplaceFacts
  <2> HIDE DEF c, w
  <2>2. /\ displaced \in Seq(Row) /\ lookup \in [Ids -> 0..Len(displaced)]
        /\ Len(displaced) \in Nat /\ new \in Nat
    BY DEF TableInv, TypeInv
  <2>3. [id |-> c, ts |-> row.ts] \in Row
    BY <1>2, <2>1 DEF Row, Write
  <2>4. /\ displaced' \in Seq(Row) /\ Len(displaced') = new
        /\ \A n \in 1..Len(displaced) : displaced'[n] = displaced[n]
        /\ displaced'[new].id = c /\ displaced'[new].ts = clock
    BY <1>2, <2>1, <2>2, <2>3
  <2>5. \A n \in 1..Len(displaced') : n \in 1..Len(displaced) \/ n = new
    BY <2>2, <2>4
  <2>6. lookup[c] = 0 /\ lookup'[c] = new /\ \A i \in Ids : i # c => lookup'[i] = lookup[i]
    BY <2>1, <2>2, <2>4 DEF TableInv, RowInv
  <2>7. lookup' \in [Ids -> 0..Len(displaced')]
    <3>1. \A i \in Ids : lookup[i] \in 0..Len(displaced') /\ new \in 0..Len(displaced')
      BY <2>2, <2>4
    <3> QED
      BY <2>1, <2>2, <2>4, <3>1
  <2>8. TypeInv'
    <3>1. index.minor \in 0..Len(displaced') /\ tracker.minor \in 0..Len(displaced')
      BY <2>2, <2>4 DEF TableInv, TypeInv
    <3> QED
      BY <1>1, <1>2, <2>1, <2>4, <2>7, <3>1 DEF TableInv, TypeInv
  <2>9. RowInv'
    <3>1. \A n \in 1..Len(displaced) : displaced[n].id \in Ids /\ displaced[n].id # c
      <4>1. \A n \in 1..Len(displaced) : displaced[n] \in Row /\ n # 0
        BY <2>2
      <4>2. \A x \in Row : x.id \in Ids
        BY DEF Row
      <4>3. \A n \in 1..Len(displaced) : lookup[displaced[n].id] = n
        BY DEF TableInv, RowInv
      <4> QED
        BY <2>6, <4>1, <4>2, <4>3
    <3>2. \A n \in 1..Len(displaced') : lookup'[displaced'[n].id] = n
      BY <2>4, <2>5, <2>6, <3>1 DEF TableInv, RowInv
    <3>3. \A i \in Ids : lookup'[i] # 0 => displaced'[lookup'[i]].id = i
      <4>1. ASSUME NEW i \in Ids, i # c, lookup[i] # 0
            PROVE  lookup[i] \in 1..Len(displaced) /\ displaced[lookup[i]].id = i
        BY <2>2, <4>1 DEF TableInv, RowInv
      <4> QED
        BY <2>4, <2>6, <4>1
    <3>4. \A i \in Ids : lookup'[i] = 0 <=> Leader'[i] = i
      <4>1. \A i \in Ids : i # c => (lookup'[i] = 0 <=> Leader[i] = i)
        BY <2>6 DEF TableInv, RowInv
      <4>2. c \in Nat /\ w \in Nat /\ w # c
        BY <2>1, DisplacedConstants
      <4>3. \A i \in Ids : i # c => (Leader[i] = i <=> Leader'[i] = i)
        BY <2>1, <4>2
      <4>4. lookup'[c] # 0 /\ Leader'[c] # c
        BY <2>1, <2>2, <2>6, <4>2
      <4> QED
        BY <4>1, <4>3, <4>4
    <3> QED
      BY <3>2, <3>3, <3>4 DEF RowInv
  <2>10. TimeInv'
    <3>1. \A n \in 1..Len(displaced) : displaced[n].ts <= clock
      BY DEF TableInv, TimeInv
    <3>2. clock <= clock
      BY DEF TableInv, TypeInv, Timestamps
    <3>3. \A n \in 1..Len(displaced') : displaced'[n].ts <= clock'
      BY <1>1, <2>4, <2>5, <3>1, <3>2
    <3>4. \A m, n \in 1..Len(displaced') : m <= n => displaced'[m].ts <= displaced'[n].ts
      <4>1. SUFFICES ASSUME NEW m \in 1..Len(displaced'), NEW n \in 1..Len(displaced'), m <= n
                     PROVE  displaced'[m].ts <= displaced'[n].ts
        OBVIOUS
      <4>2. CASE n = new
        BY <1>1, <2>4, <3>3, <4>2
      <4>3. CASE n # new
        <5>1. m \in 1..Len(displaced) /\ n \in 1..Len(displaced)
          BY <2>2, <2>5, <4>1, <4>3
        <5> QED
          BY <2>4, <4>1, <5>1 DEF TableInv, TimeInv
      <4> QED
        BY <4>2, <4>3
    <3> QED
      BY <1>1, <1>2, <3>3, <3>4 DEF TableInv, TimeInv
  <2>11. IndexInv'
    <3>1. \A n \in 1..index.minor : n \in 1..Len(displaced)
      BY <2>2 DEF TableInv, TypeInv
    <3>2. \A n \in 1..index.minor, k \in {"id", "ts"} : Column(n, k)' = Column(n, k)
      BY <2>4, <3>1 DEF Column
    <3> QED
      BY <1>1, <3>2 DEF TableInv, IndexInv
  <2>12. TrackInv'
    <3>1. tracker.leader[c] = c /\ new > tracker.minor
      BY <2>1, <2>2, <2>6 DEF TableInv, TrackInv, TypeInv
    <3> QED
      BY <1>1, <2>6, <3>1 DEF TableInv, TrackInv
  <2> QED
    BY <2>8, <2>9, <2>10, <2>11, <2>12 DEF TableInv
<1> QED
  BY <1>4, <1>5

\* The columns that are cached do not depend on the forest.
LEMMA ColumnsCached ==
  /\ Cacheable = {"id", "ts"}
  /\ \A n : \A c \in Cacheable : Expand(n)[c] = Column(n, c)
BY DEF Cacheable, Expand, Column

\* Refreshing: the rows from the index's version on are entered.
LEMMA KeepsRefresh ==
  ASSUME TableInv, RefreshIndex
  PROVE  TableInv'
<1> DEFINE added == {<<c, Column(n, c), n>> : c \in Cacheable, n \in UpdatesSince(index.minor)}
<1>1. /\ UNCHANGED <<table, parents, displaced, lookup, queue, buffers, clock, ops, merging, tracker>>
      /\ index' = [updated |-> TRUE, minor |-> Len(displaced), entries |-> index.entries \union added]
  <2> DEFINE entered == {<<c, Expand(n)[c], n>> : c \in Cacheable, n \in UpdatesSince(index.minor)}
  <2>1. entered = added
    <3>1. \A c \in Cacheable, n \in UpdatesSince(index.minor) :
             <<c, Expand(n)[c], n>> = <<c, Column(n, c), n>>
      BY ColumnsCached
    <3> QED
      BY <3>1, SMT
  <2>2. index' = [updated |-> TRUE, minor |-> Len(displaced), entries |-> index.entries \union entered]
    BY DEF RefreshIndex
  <2>3. UNCHANGED <<table, parents, displaced, lookup, queue, buffers, clock, ops, merging, tracker>>
    BY DEF RefreshIndex, table, inbox
  <2> HIDE DEF entered, added
  <2> QED
    BY <2>1, <2>2, <2>3
<1>2. /\ Len(displaced) \in Nat /\ index.minor \in Nat /\ index.minor <= Len(displaced)
  BY DEF TableInv, TypeInv
<1>3. TypeInv' /\ RowInv'
  BY <1>1, <1>2, KeepsRows DEF TableInv, TypeInv
<1>4. TimeInv' /\ TrackInv'
  BY <1>1 DEF TableInv, TimeInv, TrackInv
<1>5. IndexInv'
  <2>1. \A n : n \in 1..Len(displaced) <=> n \in 1..index.minor \/ n \in UpdatesSince(index.minor)
    BY <1>2 DEF UpdatesSince
  <2>2. \A e : e \in added <=> \E c \in {"id", "ts"}, n \in UpdatesSince(index.minor) : e = <<c, Column(n, c), n>>
    BY ColumnsCached
  <2>3. \A e : e \in index.entries <=> \E c \in {"id", "ts"}, n \in 1..index.minor : e = <<c, Column(n, c), n>>
    BY DEF TableInv, IndexInv
  <2> HIDE DEF added
  <2>4. \A e : e \in index'.entries <=> \E c \in {"id", "ts"}, n \in 1..Len(displaced) : e = <<c, Column(n, c), n>>
    <3>1. index'.entries = index.entries \union added
      BY <1>1
    <3> QED
      BY <2>1, <2>2, <2>3, <3>1, Zenon
  <2>5. \A n, c : Column(n, c)' = Column(n, c)
    BY <1>1 DEF Column
  <2>6. index'.minor = Len(displaced') /\ displaced' = displaced
    BY <1>1
  <2> QED
    BY <2>4, <2>5, <2>6 DEF IndexInv
<1> QED
  BY <1>3, <1>4, <1>5 DEF TableInv

\* Rebuilding takes the leaders over.
LEMMA KeepsRebuild ==
  ASSUME TableInv, Rebuild
  PROVE  TableInv'
<1>1. /\ UNCHANGED <<table, parents, displaced, lookup, queue, buffers, clock, ops, merging, index>>
      /\ tracker'.minor = Len(displaced) /\ tracker'.leader = Leader
  BY DEF Rebuild, table, inbox
<1>2. Len(displaced) \in Nat
  BY DEF TableInv, TypeInv
<1>3. TypeInv' /\ RowInv'
  BY <1>1, <1>2, KeepsRows DEF TableInv, TypeInv
<1>4. TimeInv' /\ IndexInv'
  BY <1>1 DEF TableInv, TimeInv, IndexInv, Column
<1>5. TrackInv'
  <2>1. \A i \in Ids : lookup[i] \in 0..Len(displaced) /\ (lookup[i] = 0 <=> Leader[i] = i)
    BY DEF TableInv, TypeInv, RowInv
  <2>2. \A i \in Ids : ~(lookup[i] > Len(displaced))
    BY <1>2, <2>1
  <2> QED
    BY <1>1, <2>1, <2>2 DEF TrackInv
<1> QED
  BY <1>3, <1>4, <1>5 DEF TableInv

\* The invariant holds of the engine's union-find table.
LEMMA TableInvHolds == Spec => []TableInv
<1>1. Init => TableInv
  BY InitTable
<1>2. TableInv /\ [Next]_vars => TableInv'
  <2> SUFFICES ASSUME TableInv, [Next]_vars PROVE TableInv'
    OBVIOUS
  <2>1. ASSUME NEW w \in Writers, NEW l \in Ids, NEW r \in Ids, Stage(w, l, r) PROVE TableInv'
    BY <2>1, KeepsStage
  <2>2. ASSUME NEW w \in Writers, DropBuffer(w) PROVE TableInv'
    BY <2>2, KeepsDrop
  <2>3. CASE Tick
    BY <2>3, KeepsTick
  <2>4. CASE StartMerge \/ EndMerge
    BY <2>4, KeepsMerge
  <2>5. CASE Insert
    BY <2>5, KeepsInsert
  <2>6. CASE RefreshIndex
    BY <2>6, KeepsRefresh
  <2>7. CASE Rebuild
    BY <2>7, KeepsRebuild
  <2>8. CASE UNCHANGED vars
    <3>1. /\ UNCHANGED <<table, parents, displaced, lookup, queue, buffers, clock, ops, merging>>
          /\ UNCHANGED <<index, tracker>>
      BY <2>8 DEF vars, table, inbox
    <3>2. TypeInv' /\ RowInv'
      BY <3>1, KeepsRows DEF TableInv, TypeInv
    <3> QED
      BY <3>1, <3>2 DEF TableInv, TimeInv, IndexInv, TrackInv, Column
  <2> QED
    BY <2>1, <2>2, <2>3, <2>4, <2>5, <2>6, <2>7, <2>8 DEF Next
<1> QED
  BY <1>1, <1>2, PTL DEF Spec

-----------------------------------------------------------------------------
(* What the invariant gives. *)

\* timestamp_bounds separates the rows before, at and after a timestamp.
LEMMA BoundsExact ==
  ASSUME TableInv, NEW t \in Nat
  PROVE  /\ Begin(t) \in 1..(Len(displaced) + 1) /\ End(t) \in 1..(Len(displaced) + 1)
         /\ \A n \in 1..Len(displaced) : displaced[n].ts \in Nat
         /\ \A n \in 1..Len(displaced) : n < Begin(t) <=> displaced[n].ts < t
         /\ \A n \in 1..Len(displaced) : n < End(t) <=> displaced[n].ts <= t
<1> DEFINE k == Len(displaced)
           ts(n) == displaced[n].ts
<1>1. k \in Nat /\ Rows = 1..k /\ \A n \in 1..k : ts(n) \in Nat
  <2>1. displaced \in Seq(Row)
    BY DEF TableInv, TypeInv
  <2>2. \A x \in Row : x.ts \in Nat
    BY DisplacedConstants DEF Row, Timestamps
  <2> QED
    BY <2>1, <2>2 DEF Rows
<1>2. \A m, n \in 1..k : m <= n => ts(m) <= ts(n)
  BY DEF TableInv, TimeInv
<1>3. At(t) = {n \in 1..k : ts(n) = t} /\ Place(t) = Cardinality({n \in 1..k : ts(n) < t}) + 1
  BY <1>1 DEF At, Place
<1> HIDE DEF k, ts
<1>4. CASE At(t) = {}
  <2> DEFINE D == {n \in 1..k : ts(n) < t}
  <2>1. D \in SUBSET (1..k) /\ \A n \in D, m \in 1..k : m <= n => m \in D
    BY <1>1, <1>2
  <2>2. \A n \in 1..k : n \in D <=> ts(n) < t
    OBVIOUS
  <2>3. Begin(t) = Cardinality(D) + 1 /\ End(t) = Cardinality(D) + 1
    BY <1>3, <1>4 DEF Begin, End
  <2> HIDE DEF D
  <2>4. Cardinality(D) \in 0..k /\ D = 1..Cardinality(D)
    BY <1>1, <2>1, PrefixLength
  <2>5. \A n \in 1..k : n < Cardinality(D) + 1 <=> ts(n) < t
    BY <1>1, <2>2, <2>4
  <2>6. \A n \in 1..k : ts(n) <= t <=> ts(n) < t
    BY <1>1, <1>3, <1>4
  <2>7. Cardinality(D) + 1 \in 1..(k + 1)
    BY <1>1, <2>4
  <2> QED
    BY <1>1, <2>3, <2>5, <2>6, <2>7 DEF k, ts
<1>5. CASE At(t) # {}
  <2> DEFINE a == Min(At(t))
             b == Max(At(t))
  <2>1. At(t) \in SUBSET Nat /\ \A x \in At(t) : x <= k
    BY <1>1, <1>3
  <2>2. a \in At(t) /\ \A x \in At(t) : a <= x
    BY <1>5, <2>1, MinFacts
  <2>3. b \in At(t) /\ \A x \in At(t) : x <= b
    BY <1>1, <1>5, <2>1, BoundedMax
  <2>4. Begin(t) = a /\ End(t) = b + 1
    BY <1>5 DEF Begin, End
  <2> HIDE DEF a, b
  <2>5. a \in 1..k /\ b \in 1..k /\ ts(a) = t /\ ts(b) = t
    BY <1>3, <2>2, <2>3
  <2>6. \A n \in 1..k : ts(n) = t => a <= n /\ n <= b
    BY <1>3, <2>2, <2>3
  <2>7. \A n \in 1..k : n < a <=> ts(n) < t
    BY <1>1, <1>2, <2>5, <2>6
  <2>8. \A n \in 1..k : n < b + 1 <=> ts(n) <= t
    BY <1>1, <1>2, <2>5, <2>6
  <2>9. a \in 1..(k + 1) /\ b + 1 \in 1..(k + 1)
    BY <1>1, <2>5
  <2> QED
    BY <1>1, <2>4, <2>7, <2>8, <2>9 DEF k, ts
<1> QED
  BY <1>4, <1>5

\* fast_subset on a timestamp gives the rows that satisfy the constraint.
LEMMA FastSubsetExact ==
  ASSUME TableInv, NEW t \in Nat, NEW op \in {"eq", "lt", "le", "ge", "gt"}
  PROVE  FastSubset(op, t) = {n \in Rows : Satisfies(displaced[n].ts, op, t)}
<1> DEFINE k == Len(displaced)
           ts(n) == displaced[n].ts
           from == Begin(t)
           to == End(t)
<1>1. k \in Nat /\ Rows = 1..k
  BY DEF TableInv, TypeInv, Rows
<1>2. /\ from \in 1..(k + 1) /\ to \in 1..(k + 1)
      /\ \A n \in 1..k : /\ ts(n) \in Nat
                         /\ n < from <=> ts(n) < t
                         /\ n < to <=> ts(n) <= t
  BY BoundsExact
<1>3. /\ op = "eq" => FastSubset(op, t) = from..(to - 1)
      /\ op = "lt" => FastSubset(op, t) = 1..(from - 1)
      /\ op = "le" => FastSubset(op, t) = 1..(to - 1)
      /\ op = "gt" => FastSubset(op, t) = to..k
      /\ op = "ge" => FastSubset(op, t) = from..k
  BY DEF FastSubset
<1>4. \A x \in Nat : /\ op = "eq" => (Satisfies(x, op, t) <=> x = t)
                     /\ op = "lt" => (Satisfies(x, op, t) <=> x < t)
                     /\ op = "le" => (Satisfies(x, op, t) <=> x <= t)
                     /\ op = "gt" => (Satisfies(x, op, t) <=> x > t)
                     /\ op = "ge" => (Satisfies(x, op, t) <=> x >= t)
  BY DEF Satisfies
<1> HIDE DEF k, ts, from, to
<1> SUFFICES FastSubset(op, t) = {n \in 1..k : Satisfies(ts(n), op, t)}
  BY <1>1 DEF ts
<1>5. CASE op = "eq"
  <2>1. from..(to - 1) = {n \in 1..k : ts(n) = t}
    BY <1>1, <1>2
  <2> QED
    BY <1>2, <1>3, <1>4, <1>5, <2>1
<1>6. CASE op = "lt"
  <2>1. 1..(from - 1) = {n \in 1..k : ts(n) < t}
    BY <1>1, <1>2
  <2> QED
    BY <1>2, <1>3, <1>4, <1>6, <2>1
<1>7. CASE op = "le"
  <2>1. 1..(to - 1) = {n \in 1..k : ts(n) <= t}
    BY <1>1, <1>2
  <2> QED
    BY <1>2, <1>3, <1>4, <1>7, <2>1
<1>8. CASE op = "gt"
  <2>1. to..k = {n \in 1..k : ts(n) > t}
    BY <1>1, <1>2
  <2> QED
    BY <1>2, <1>3, <1>4, <1>8, <2>1
<1>9. CASE op = "ge"
  <2>1. from..k = {n \in 1..k : ts(n) >= t}
    BY <1>1, <1>2
  <2> QED
    BY <1>2, <1>3, <1>4, <1>9, <2>1
<1> QED
  BY <1>5, <1>6, <1>7, <1>8, <1>9

\* Types hold in every state (TypeOK of DisplacedTable), in particular parents are
\* never greater than their children, so that every search of the forest ends.
THEOREM TypeCorrect == Spec => []TypeOK
<1>1. TableInv => TypeOK
  <2> SUFFICES ASSUME TableInv PROVE TypeOK
    OBVIOUS
  <2>1. \A n \in Rows : displaced[n] \in [id : Ids, ts : Timestamps]
    <3>1. \A n \in DOMAIN displaced : displaced[n] \in Row
      BY DEF TableInv, TypeInv
    <3> QED
      BY <3>1, Zenon DEF Rows, Row
  <2>2. \A n \in DOMAIN queue : queue[n] \in Write
    BY DEF TableInv, TypeInv
  <2>3. \A w \in Writers : \A n \in DOMAIN buffers[w] : buffers[w][n] \in Write
    BY DEF TableInv, TypeInv
  <2> QED
    BY <2>1, <2>2, <2>3 DEF TableInv, TypeInv, TypeOK, Forest
<1> QED
  BY <1>1, TableInvHolds, PTL

\* Every displaced id has exactly one row, found by id (get_row), leaders have none,
\* and fast_subset answers every constraint on the timestamp exactly (RowsExact).
THEOREM RowsAreExact == Spec => []RowsExact
<1>1. TableInv => RowsExact
  <2> SUFFICES ASSUME TableInv PROVE RowsExact
    OBVIOUS
  <2>1. /\ Rows = 1..Len(displaced) /\ Len(displaced) \in Nat
        /\ lookup \in [Ids -> 0..Len(displaced)]
    BY DEF TableInv, TypeInv, Rows
  <2>2. /\ \A n \in 1..Len(displaced) : lookup[displaced[n].id] = n
        /\ \A i \in Ids : lookup[i] # 0 => displaced[lookup[i]].id = i
        /\ \A i \in Ids : lookup[i] = 0 <=> Leader[i] = i
    BY DEF TableInv, RowInv
  <2>3. ASSUME NEW i \in Ids PROVE {n \in Rows : displaced[n].id = i} = RowsOf(i)
    <3>1. \A n \in 1..Len(displaced) : displaced[n].id = i <=> n = lookup[i]
      BY <2>1, <2>2
    <3>2. lookup[i] # 0 => lookup[i] \in 1..Len(displaced)
      BY <2>1
    <3>3. 0 \notin 1..Len(displaced)
      BY <2>1
    <3> QED
      BY <2>1, <3>1, <3>2, <3>3 DEF RowsOf
  <2>4. \A i \in Ids : RowsOf(i) = {} <=> Leader[i] = i
    BY <2>2 DEF RowsOf
  <2>5. \A t \in 0..(MaxTs + 1), op \in {"eq", "lt", "le", "ge", "gt"} :
          FastSubset(op, t) = {n \in Rows : Satisfies(displaced[n].ts, op, t)}
    BY FastSubsetExact, DisplacedConstants
  <2> QED
    BY <2>3, <2>4, <2>5 DEF RowsExact
<1> QED
  BY <1>1, TableInvHolds, PTL

\* A cached index that counts as updated gives exactly the rows with a value in a
\* cacheable column, although it is only ever appended to (IndexExact).
THEOREM IndexIsExact == Spec => []IndexExact
<1>1. TableInv => IndexExact
  <2> SUFFICES ASSUME TableInv, index.updated, ~merging,
                      NEW c \in Cacheable, NEW v \in Ids \union Timestamps
               PROVE  Indexed(c, v) = {n \in Rows : Expand(n)[c] = v}
    BY DEF IndexExact
  <2>1. index.minor = Len(displaced) /\ Rows = 1..Len(displaced)
    BY DEF TableInv, IndexInv, TypeInv, Rows
  <2>2. \A e : e \in index.entries <=> \E d \in Cacheable, n \in Rows : e = <<d, Column(n, d), n>>
    BY <2>1, ColumnsCached DEF TableInv, IndexInv
  <2>3. ASSUME NEW n \in Indexed(c, v) PROVE n \in Rows /\ Column(n, c) = v
    <3>1. PICK e \in index.entries : e[1] = c /\ e[2] = v /\ e[3] = n
      BY DEF Indexed
    <3>2. PICK d \in Cacheable, m \in Rows : e = <<d, Column(m, d), m>>
      BY <2>2, <3>1
    <3> QED
      BY <3>1, <3>2
  <2>4. ASSUME NEW n \in Rows, Column(n, c) = v PROVE n \in Indexed(c, v)
    <3> DEFINE e == <<c, Column(n, c), n>>
    <3>1. e \in index.entries
      BY <2>2
    <3>2. e[1] = c /\ e[2] = v /\ e[3] = n
      BY <2>4
    <3> HIDE DEF e
    <3> QED
      BY <3>1, <3>2 DEF Indexed
  <2> QED
    BY <2>3, <2>4, ColumnsCached
<1> QED
  BY <1>1, TableInvHolds, PTL

\* The rows since an incremental rebuild last ran name exactly the ids that led then
\* and do not now (HintComplete).
THEOREM HintIsComplete == Spec => []HintComplete
<1>1. TableInv => HintComplete
  <2> SUFFICES ASSUME TableInv
               PROVE  RecentlyDisplaced = {i \in Ids : tracker.leader[i] = i /\ Leader[i] # i}
    BY DEF HintComplete
  <2>1. /\ Len(displaced) \in Nat /\ lookup \in [Ids -> 0..Len(displaced)]
        /\ tracker.minor \in 0..Len(displaced)
        /\ \A n \in 1..Len(displaced) : displaced[n].id \in Ids
    <3>1. \A x \in Row : x.id \in Ids
      BY DEF Row
    <3> QED
      BY <3>1 DEF TableInv, TypeInv
  <2>2. /\ \A n \in 1..Len(displaced) : lookup[displaced[n].id] = n
        /\ \A i \in Ids : lookup[i] # 0 => displaced[lookup[i]].id = i
        /\ \A i \in Ids : lookup[i] = 0 <=> Leader[i] = i
    BY DEF TableInv, RowInv
  <2>3. \A i \in Ids : tracker.leader[i] = i <=> lookup[i] = 0 \/ lookup[i] > tracker.minor
    BY DEF TableInv, TrackInv
  <2>4. \A n \in UpdatesSince(tracker.minor) : n \in 1..Len(displaced) /\ n > tracker.minor
    BY <2>1 DEF UpdatesSince
  <2>5. ASSUME NEW n \in UpdatesSince(tracker.minor)
        PROVE  /\ displaced[n].id \in Ids /\ tracker.leader[displaced[n].id] = displaced[n].id
               /\ Leader[displaced[n].id] # displaced[n].id
    BY <2>1, <2>2, <2>3, <2>4
  <2>6. ASSUME NEW i \in Ids, tracker.leader[i] = i, Leader[i] # i
        PROVE  lookup[i] \in UpdatesSince(tracker.minor) /\ displaced[lookup[i]].id = i
    BY <2>1, <2>2, <2>3, <2>6 DEF UpdatesSince
  <2> QED
    BY <2>5, <2>6 DEF RecentlyDisplaced
<1> QED
  BY <1>1, TableInvHolds, PTL

\* The timestamps that Leaders sees.
Stamp == [i \in Ids |-> IF RowsOf(i) = {} THEN 0 ELSE displaced[lookup[i]].ts]

\* Rows displaced so far have no later timestamp than the clock.
LEMMA StampFacts ==
  ASSUME TableInv
  PROVE  \A i \in Ids : Stamp[i] <= clock
<1>1. clock \in Nat /\ lookup \in [Ids -> 0..Len(displaced)] /\ Len(displaced) \in Nat
  BY DisplacedConstants DEF TableInv, TypeInv, Timestamps
<1>2. ASSUME NEW i \in Ids, RowsOf(i) # {} PROVE displaced[lookup[i]].ts <= clock
  <2>1. lookup[i] \in 1..Len(displaced)
    BY <1>1, <1>2 DEF RowsOf
  <2> QED
    BY <2>1 DEF TableInv, TimeInv
<1> QED
  BY <1>1, <1>2 DEF Stamp

\* The table implements Leaders: whatever the staging, the buffers and the searches,
\* leaders and the timestamps of the displaced change only by a union of two classes,
\* in which the lesser leader stays (ImplementsLeaders).
THEOREM TableImplementsLeaders == Spec => ImplementsLeaders
<1>1. Init => Abstract!Init
  <2> SUFFICES ASSUME Init PROVE Abstract!Init
    OBVIOUS
  <2>1. TableInv
    BY InitTable
  <2>2. \A i \in Ids : lookup[i] = 0
    BY DEF Init
  <2>3. \A i \in Ids : Leader[i] = i /\ RowsOf(i) = {}
    BY <2>1, <2>2 DEF TableInv, RowInv, RowsOf
  <2>4. Leader \in [Ids -> Ids]
    BY <2>1, LeaderFacts DEF TableInv, TypeInv, Leader
  <2> QED
    BY <2>3, <2>4 DEF Abstract!Init
<1>2. TableInv /\ TableInv' /\ [Next]_vars => [Abstract!Next]_<<Leader, Stamp>>
  <2> SUFFICES ASSUME TableInv, TableInv', [Next]_vars
               PROVE  [Abstract!Next]_<<Leader, Stamp>>
    OBVIOUS
  <2>1. CASE UNCHANGED table
    <3>1. Leader' = Leader /\ displaced' = displaced /\ lookup' = lookup
      BY <2>1 DEF table, Leader
    <3>2. Stamp' = Stamp
      BY <3>1 DEF Stamp, RowsOf
    <3> QED
      BY <3>1, <3>2
  <2>2. CASE Insert
    <3> DEFINE row == Head(queue)
               c == Loser(row)
               w == Winner(row)
    <3>1. row \in Write /\ row.ts = clock /\ Displace(row)
      <4>1. queue \in Seq(Write) /\ \A n \in 1..Len(queue) : queue[n].ts = clock /\ queue # <<>>
        BY <2>2 DEF TableInv, TypeInv, TimeInv, Insert
      <4> QED
        BY <2>2, <4>1 DEF Insert
    <3> HIDE DEF row
    <3>2. Forest(parents)
      BY DEF TableInv, TypeInv
    <3>3. CASE Leader[row.l] = Leader[row.r]
      <4>1. Leader' = Leader /\ displaced' = displaced /\ lookup' = lookup
        BY <3>1, <3>2, <3>3, DisplaceFacts
      <4>2. Stamp' = Stamp
        BY <4>1 DEF Stamp, RowsOf
      <4> QED
        BY <4>1, <4>2
    <3>4. CASE Leader[row.l] # Leader[row.r]
      <4>1. /\ c \in Ids /\ w \in Ids /\ w < c
            /\ Leader' = [i \in Ids |-> IF Leader[i] = c THEN w ELSE Leader[i]]
            /\ displaced' = Append(displaced, [id |-> c, ts |-> row.ts])
            /\ lookup' = [lookup EXCEPT ![c] = Len(displaced')]
        BY <3>1, <3>2, <3>4, DisplaceFacts
      <4>2. /\ c = IF Leader[row.l] < Leader[row.r] THEN Leader[row.r] ELSE Leader[row.l]
            /\ w = IF Leader[row.l] < Leader[row.r] THEN Leader[row.l] ELSE Leader[row.r]
        BY DEF Loser, Winner
      <4> HIDE DEF c, w
      <4>3. /\ displaced \in Seq(Row) /\ Len(displaced) \in Nat
            /\ lookup \in [Ids -> 0..Len(displaced)]
        BY DEF TableInv, TypeInv
      <4>4. /\ Len(displaced') = Len(displaced) + 1
            /\ displaced'[Len(displaced) + 1] = [id |-> c, ts |-> row.ts]
            /\ \A n \in 1..Len(displaced) : displaced'[n] = displaced[n]
        BY <4>1, <4>3
      <4>5. lookup'[c] = Len(displaced) + 1 /\ \A i \in Ids : i # c => lookup'[i] = lookup[i]
        BY <4>1, <4>3, <4>4
      <4>6. Stamp' = [Stamp EXCEPT ![c] = row.ts]
        <5>1. Stamp' = [i \in Ids |-> IF lookup'[i] = 0 THEN 0 ELSE displaced'[lookup'[i]].ts]
          BY DEF Stamp, RowsOf
        <5>2. Stamp = [i \in Ids |-> IF lookup[i] = 0 THEN 0 ELSE displaced[lookup[i]].ts]
          BY DEF Stamp, RowsOf
        <5>3. lookup'[c] # 0 /\ displaced'[lookup'[c]].ts = row.ts
          BY <4>3, <4>4, <4>5
        <5>4. \A i \in Ids : i # c /\ lookup'[i] # 0 => displaced'[lookup'[i]] = displaced[lookup[i]]
          BY <4>3, <4>4, <4>5
        <5>5. \A i \in Ids : Stamp'[i] = IF i = c THEN row.ts ELSE Stamp[i]
          BY <4>5, <5>1, <5>2, <5>3, <5>4
        <5> QED
          BY <4>1, <5>1, <5>2, <5>5, ZenonT(40)
      <4>7. row.l \in Ids /\ row.r \in Ids /\ row.ts \in 1..MaxTs
        BY <3>1 DEF Write, Timestamps
      <4>8. \A i \in Ids : Stamp[i] <= row.ts
        BY <3>1, StampFacts
      <4>9. PICK l \in Ids, r \in Ids, t \in 1..MaxTs : l = row.l /\ r = row.r /\ t = row.ts
        BY <4>7
      <4>10. Abstract!Next
        <5>1. Abstract!Union(l, r, t)
          BY <3>4, <4>1, <4>2, <4>6, <4>8, <4>9, Zenon DEF Abstract!Union, Stamp
        <5> QED
          BY <5>1, Zenon DEF Abstract!Next
      <4> QED
        BY <4>10
    <3> QED
      BY <3>3, <3>4
  <2>3. ASSUME NEW w \in Writers, NEW l \in Ids, NEW r \in Ids, Stage(w, l, r)
        PROVE  UNCHANGED table
    BY <2>3 DEF Stage
  <2>4. ASSUME NEW w \in Writers, DropBuffer(w) PROVE UNCHANGED table
    BY <2>4 DEF DropBuffer
  <2>5. CASE Tick \/ StartMerge \/ EndMerge \/ RefreshIndex \/ Rebuild
    <3>1. UNCHANGED table
      BY <2>5 DEF Tick, StartMerge, EndMerge, RefreshIndex, Rebuild
    <3> QED
      BY <2>1, <3>1
  <2>6. CASE UNCHANGED vars
    BY <2>1, <2>6 DEF vars
  <2> QED
    BY <2>1, <2>2, <2>3, <2>4, <2>5, <2>6 DEF Next
<1> QED
  BY <1>1, <1>2, TableInvHolds, PTL DEF Spec, ImplementsLeaders, Abstract!Spec, Stamp
=============================================================================
