------------------------ MODULE DuckTermEncodingProofs ------------------------
(* Proofs about DuckTermEncoding, for every number of ids, set of            *)
(* constructors and length of the program: with or without the fast rebuild, *)
(* the tables that a rebuild leaves are exactly the congruence closure of    *)
(* the unions asked for, and the steps of the rules are those of an e-graph. *)
EXTENDS DuckTermEncoding, FiniteSetTheorems, WellFoundedInduction, TLAPS

-----------------------------------------------------------------------------
(* Sets of numbers. *)

\* A set of naturals that is not empty has a least element.
LEMMA LeastNatural ==
    ASSUME NEW S \in SUBSET Nat, S # {}
    PROVE  \E m \in S : \A n \in S : m <= n
<1>1. \E x \in S : \A y \in S : ~(<<y, x>> \in OpToRel(<, Nat))
  BY NatLessThanWellFounded, WFMin, Zenon
<1>2. \A x, y \in S : <<y, x>> \in OpToRel(<, Nat) <=> y < x
  BY DEF OpToRel
<1>3. \A x, y \in S : y < x \/ x <= y
  OBVIOUS
<1> QED
  BY <1>1, <1>2, <1>3

\* Min gives the least element of a set of naturals.
LEMMA MinFacts ==
    ASSUME NEW S \in SUBSET Nat, S # {}
    PROVE  Min(S) \in S /\ \A x \in S : Min(S) <= x
BY LeastNatural DEF Min

\* A set that has 0 and with every number its successor has all of them.
LEMMA InductiveSet ==
    ASSUME NEW S, 0 \in S, \A n \in Nat : n \in S => n + 1 \in S
    PROVE  \A n \in Nat : n \in S
<1> DEFINE Out == {n \in Nat : n \notin S}
<1> SUFFICES ASSUME Out # {} PROVE FALSE
  OBVIOUS
<1>1. PICK m \in Out : \A n \in Out : m <= n
  BY LeastNatural
<1>2. m # 0 /\ m - 1 \in Nat /\ m - 1 \notin Out
  BY <1>1
<1> QED
  BY <1>1, <1>2

\* Max gives the greatest element of a set that has a bound.
LEMMA BoundedMax ==
    ASSUME NEW S \in SUBSET Nat, S # {}, NEW b \in Nat, \A x \in S : x <= b
    PROVE  Max(S) \in S /\ \A x \in S : x <= Max(S)
<1> DEFINE Gaps == {n \in Nat : \E x \in S : x + n = b}
<1>1. \A x \in S : b - x \in Gaps
  OBVIOUS
<1>2. PICK g \in Gaps : \A n \in Gaps : g <= n
  BY <1>1, LeastNatural
<1>3. PICK u \in S : u + g = b
  OBVIOUS
<1>4. \A y \in S : u >= y
  BY <1>1, <1>2, <1>3
<1> QED
  BY <1>4 DEF Max

-----------------------------------------------------------------------------
(* Rows. *)

\* The rows of a constructor over the ids of a set, and their arguments.
RowsOf(f, S) == [1..(Arity[f] + 1) -> S]
ArgsOf(f, S) == [1..Arity[f] -> S]
LastColumn(f) == Arity[f] + 1

\* Two functions are the same if they have the same values.
LEMMA SameFunction ==
  ASSUME NEW D, NEW S, NEW g \in [D -> S], NEW h \in [D -> S], \A x \in D : g[x] = h[x]
  PROVE  g = h
OBVIOUS

\* A constructor takes a number of arguments.
LEMMA Columns ==
  ASSUME NEW f \in Names
  PROVE  /\ Arity[f] \in Nat /\ LastColumn(f) \in Nat /\ LastColumn(f) \in 1..LastColumn(f)
         /\ \A k \in 1..Arity[f] : k \in 1..LastColumn(f)
         /\ \A k \in 1..LastColumn(f) : k \in 1..Arity[f] \/ k = LastColumn(f)
<1>1. Arity[f] \in Nat
  BY CongruenceAssumption
<1> QED
  BY <1>1 DEF LastColumn

\* The parts of a row.
LEMMA RowParts ==
  ASSUME NEW f \in Names, NEW S, NEW r \in RowsOf(f, S)
  PROVE  /\ DOMAIN r = 1..LastColumn(f) /\ r \in Seq(S) /\ Len(r) = LastColumn(f)
         /\ Args(r) \in ArgsOf(f, S) /\ \A k \in 1..Arity[f] : Args(r)[k] = r[k]
         /\ Class(r) = r[LastColumn(f)] /\ Class(r) \in S
<1>1. PICK n \in Nat : n = Arity[f]
  BY CongruenceAssumption
<1>2. r \in Seq(S) /\ Len(r) = n + 1 /\ DOMAIN r = 1..(n + 1)
  <2>1. n + 1 \in Nat /\ r \in [1..(n + 1) -> S]
    BY <1>1 DEF RowsOf
  <2> QED
    BY <2>1
<1>3. Args(r) = SubSeq(r, 1, n)
  BY <1>2 DEF Args, Front
<1>4. Args(r) \in [1..n -> S] /\ \A k \in 1..n : Args(r)[k] = r[k]
  <2> DEFINE a == SubSeq(r, 1, n)
  <2>1. Len(a) = n /\ a \in Seq(S) /\ \A k \in 1..n : a[k] = r[k]
    BY <1>1, <1>2
  <2> HIDE DEF a
  <2>2. a \in [1..n -> S] /\ \A k \in 1..n : a[k] = r[k]
    BY <1>1, <2>1
  <2> QED
    BY <1>3, <2>2 DEF a
<1>5. Class(r) = r[n + 1] /\ Class(r) \in S
  BY <1>1, <1>2 DEF Class, Last
<1> QED
  BY <1>1, <1>2, <1>4, <1>5 DEF RowsOf, ArgsOf, LastColumn

\* A row has the arguments and the id it was made of.
LEMMA RowMade ==
  ASSUME NEW f \in Names, NEW S, NEW a \in ArgsOf(f, S), NEW c \in S
  PROVE  /\ Row(a, c) \in RowsOf(f, S) /\ Args(Row(a, c)) = a /\ Class(Row(a, c)) = c
         /\ \A k \in 1..LastColumn(f) : Row(a, c)[k] = IF k = LastColumn(f) THEN c ELSE a[k]
<1>1. PICK n \in Nat : n = Arity[f]
  BY CongruenceAssumption
<1> DEFINE r == Row(a, c)
<1>2. a \in Seq(S) /\ Len(a) = n
  BY <1>1 DEF ArgsOf
<1>3. /\ r \in Seq(S) /\ Len(r) = n + 1
      /\ \A k \in 1..(n + 1) : r[k] = IF k = n + 1 THEN c ELSE a[k]
  BY <1>1, <1>2 DEF Row
<1> HIDE DEF r
<1>4. r \in RowsOf(f, S)
  BY <1>1, <1>3 DEF RowsOf
<1>5. /\ Args(r) \in ArgsOf(f, S) /\ \A k \in 1..Arity[f] : Args(r)[k] = r[k]
      /\ Class(r) = r[LastColumn(f)]
  BY <1>4, RowParts
<1>6. Args(r) = a
  <2>1. \A k \in 1..n : Args(r)[k] = a[k]
    BY <1>1, <1>3, <1>5
  <2> QED
    BY <1>1, <1>5, <2>1, SameFunction DEF ArgsOf
<1> QED
  BY <1>1, <1>3, <1>4, <1>5, <1>6 DEF r, LastColumn

\* Rows with the same arguments and the same id are the same.
LEMMA RowsEqual ==
  ASSUME NEW f \in Names, NEW S, NEW r \in RowsOf(f, S), NEW q \in RowsOf(f, S),
         Args(r) = Args(q), Class(r) = Class(q)
  PROVE  r = q
<1>1. /\ \A k \in 1..Arity[f] : Args(r)[k] = r[k] /\ Args(q)[k] = q[k]
      /\ Class(r) = r[LastColumn(f)] /\ Class(q) = q[LastColumn(f)]
  BY RowParts
<1>2. \A k \in 1..LastColumn(f) : r[k] = q[k]
  BY <1>1, Columns
<1> QED
  <2> DEFINE D == 1..LastColumn(f)
  <2>1. r \in [D -> S] /\ q \in [D -> S]
    BY DEF RowsOf, LastColumn
  <2>2. \A k \in D : r[k] = q[k]
    BY <1>2
  <2> HIDE DEF D
  <2> QED
    BY <2>1, <2>2

\* Renaming commutes with taking the arguments and the id.
LEMMA RenamedParts ==
  ASSUME NEW f \in Names, NEW S, NEW T, NEW r \in RowsOf(f, S), NEW l,
         \A i \in S : l[i] \in T
  PROVE  /\ Renamed(l, r) \in RowsOf(f, T) /\ \A k \in 1..LastColumn(f) : Renamed(l, r)[k] = l[r[k]]
         /\ Renamed(l, Args(r)) \in ArgsOf(f, T)
         /\ \A k \in 1..Arity[f] : Renamed(l, Args(r))[k] = l[r[k]]
         /\ Args(Renamed(l, r)) = Renamed(l, Args(r)) /\ Class(Renamed(l, r)) = l[Class(r)]
<1> DEFINE q == Renamed(l, r)
<1>1. q \in RowsOf(f, T) /\ \A k \in 1..LastColumn(f) : q[k] = l[r[k]]
  BY DEF Renamed, RowsOf, LastColumn
<1>2. /\ Args(r) \in ArgsOf(f, S) /\ \A k \in 1..Arity[f] : Args(r)[k] = r[k]
      /\ Class(r) = r[LastColumn(f)]
  BY RowParts
<1> HIDE DEF q
<1>3. /\ Args(q) \in ArgsOf(f, T) /\ \A k \in 1..Arity[f] : Args(q)[k] = q[k]
      /\ Class(q) = q[LastColumn(f)]
  BY <1>1, RowParts
<1>4. /\ Renamed(l, Args(r)) \in ArgsOf(f, T)
      /\ \A k \in 1..Arity[f] : Renamed(l, Args(r))[k] = l[r[k]]
  BY <1>2 DEF Renamed, ArgsOf
<1>5. \A k \in 1..Arity[f] : k \in 1..LastColumn(f)
  BY Columns
<1>6. LastColumn(f) \in 1..LastColumn(f)
  BY Columns
<1>7. Args(q) = Renamed(l, Args(r))
  <2>1. \A k \in 1..Arity[f] : Args(q)[k] = Renamed(l, Args(r))[k]
    BY <1>1, <1>3, <1>4, <1>5
  <2> QED
    <3> DEFINE D == 1..Arity[f]
    <3>1. Args(q) \in [D -> T] /\ Renamed(l, Args(r)) \in [D -> T]
      BY <1>3, <1>4 DEF ArgsOf
    <3>2. \A k \in D : Args(q)[k] = Renamed(l, Args(r))[k]
      BY <2>1
    <3> HIDE DEF D
    <3> QED
      BY <3>1, <3>2, SameFunction
<1> QED
  BY <1>1, <1>2, <1>3, <1>4, <1>6, <1>7 DEF q

-----------------------------------------------------------------------------
(* The least congruence (Closure). *)

\* Ids are positive numbers.
LEMMA IdsAreNumbers == MaxId \in Nat /\ 1 \in Ids /\ \A i : i \in Ids <=> i \in Nat /\ 1 <= i /\ i <= MaxId
<1>1. MaxId \in Nat \ {0}
  BY CongruenceAssumption
<1> QED
  BY <1>1 DEF Ids

Graph(pairs, rows) ==
  pairs \subseteq Ids \X Ids /\ \A f \in Names : rows[f] \subseteq RowsOf(f, Ids)

\* l is a congruence of the rows that makes the pairs equal.
IsCongruence(l, pairs, rows) ==
  /\ \A p \in pairs : l[p[1]] = l[p[2]]
  /\ \A f \in Names : \A r, q \in rows[f] :
        Renamed(l, Args(r)) = Renamed(l, Args(q)) => l[Class(r)] = l[Class(q)]

\* k makes equal whatever l does.
Includes(k, l) == \A i \in Ids : k[l[i]] = k[i]

Labels(l) == {l[i] : i \in Ids}
Equated(l, pairs, rows) == {<<l[p[1]], l[p[2]]>> : p \in pairs \cup Congruent(l, rows)}

\* What a round equates are labels.
LEMMA EquatedLabels ==
  ASSUME NEW pairs, NEW rows, Graph(pairs, rows), NEW l \in [Ids -> Ids]
  PROVE  /\ Congruent(l, rows) \subseteq Ids \X Ids
         /\ \A e \in Equated(l, pairs, rows) : e \in Ids \X Ids /\ e[1] \in Labels(l) /\ e[2] \in Labels(l)
<1>1. ASSUME NEW p \in Congruent(l, rows) PROVE p \in Ids \X Ids
  <2>0. PICK f \in Names : \E w \in rows[f] \X rows[f] : p = <<Class(w[1]), Class(w[2])>>
    BY <1>1 DEF Congruent
  <2>1. PICK w \in rows[f] \X rows[f] : p = <<Class(w[1]), Class(w[2])>>
    BY <2>0
  <2>2. w[1] \in RowsOf(f, Ids) /\ w[2] \in RowsOf(f, Ids)
    BY <2>1 DEF Graph
  <2>3. Class(w[1]) \in Ids /\ Class(w[2]) \in Ids
    BY <2>2, RowParts
  <2> QED
    BY <2>1, <2>3
<1>2. ASSUME NEW e \in Equated(l, pairs, rows)
      PROVE  e \in Ids \X Ids /\ e[1] \in Labels(l) /\ e[2] \in Labels(l)
  <2>1. PICK p \in pairs \cup Congruent(l, rows) : e = <<l[p[1]], l[p[2]]>>
    BY <1>2 DEF Equated
  <2>2. p \in Ids \X Ids
    BY <1>1 DEF Graph
  <2> QED
    BY <2>1, <2>2 DEF Labels
<1> QED
  BY <1>1, <1>2

\* A congruence that includes l makes equal what a round from l equates.
LEMMA EquatedIncluded ==
  ASSUME NEW pairs, NEW rows, Graph(pairs, rows), NEW l \in [Ids -> Ids],
         NEW k \in [Ids -> Ids], IsCongruence(k, pairs, rows), Includes(k, l)
  PROVE  \A e \in Equated(l, pairs, rows) : k[e[1]] = k[e[2]]
<1> SUFFICES ASSUME NEW e \in Equated(l, pairs, rows) PROVE k[e[1]] = k[e[2]]
  OBVIOUS
<1>1. PICK p \in pairs \cup Congruent(l, rows) : e = <<l[p[1]], l[p[2]]>>
  BY DEF Equated
<1>2. p \in Ids \X Ids
  BY EquatedLabels DEF Graph
<1>3. k[p[1]] = k[p[2]]
  <2>1. CASE p \in pairs
    BY <2>1 DEF IsCongruence
  <2>2. CASE p \in Congruent(l, rows)
    <3>0. PICK f \in Names : \E w \in rows[f] \X rows[f] :
             p = <<Class(w[1]), Class(w[2])>> /\ Renamed(l, Args(w[1])) = Renamed(l, Args(w[2]))
      BY <2>2 DEF Congruent
    <3>1. PICK w \in rows[f] \X rows[f] :
             p = <<Class(w[1]), Class(w[2])>> /\ Renamed(l, Args(w[1])) = Renamed(l, Args(w[2]))
      BY <3>0
    <3>2. PICK r \in rows[f], q \in rows[f] : w = <<r, q>>
      OBVIOUS
    <3>3. r \in RowsOf(f, Ids) /\ q \in RowsOf(f, Ids)
      BY <3>2 DEF Graph
    <3>4. Renamed(l, Args(r)) = Renamed(l, Args(q))
      BY <3>1, <3>2
    <3>5. \A i \in Ids : l[i] \in Ids /\ k[i] \in Ids /\ k[l[i]] = k[i]
      BY DEF Includes
    <3>6. \A j \in 1..Arity[f] : Renamed(k, Args(r))[j] = Renamed(k, Args(q))[j]
      <4> SUFFICES ASSUME NEW j \in 1..Arity[f] PROVE Renamed(k, Args(r))[j] = Renamed(k, Args(q))[j]
        OBVIOUS
      <4>1. /\ Renamed(k, Args(r))[j] = k[r[j]] /\ Renamed(k, Args(q))[j] = k[q[j]]
            /\ Renamed(l, Args(r))[j] = l[r[j]] /\ Renamed(l, Args(q))[j] = l[q[j]]
        BY <3>3, <3>5, RenamedParts
      <4>2. r[j] \in Ids /\ q[j] \in Ids
        BY <3>3, Columns DEF RowsOf, LastColumn
      <4> QED
        BY <3>4, <3>5, <4>1, <4>2
    <3>7. Renamed(k, Args(r)) \in ArgsOf(f, Ids) /\ Renamed(k, Args(q)) \in ArgsOf(f, Ids)
      BY <3>3, <3>5, RenamedParts
    <3>8. Renamed(k, Args(r)) = Renamed(k, Args(q))
      <4> DEFINE D == 1..Arity[f]
      <4>1. Renamed(k, Args(r)) \in [D -> Ids] /\ Renamed(k, Args(q)) \in [D -> Ids]
        BY <3>7 DEF ArgsOf
      <4>2. \A j \in D : Renamed(k, Args(r))[j] = Renamed(k, Args(q))[j]
        BY <3>6
      <4> HIDE DEF D
      <4> QED
        BY <4>1, <4>2, SameFunction
    <3> QED
      BY <3>1, <3>2, <3>8 DEF IsCongruence
  <2> QED
    BY <2>1, <2>2
<1> QED
  BY <1>1, <1>2, <1>3 DEF Includes

\* A round replaces a label by the least that is equated with it.
LEMMA RoundFacts ==
  ASSUME NEW pairs, NEW rows, Graph(pairs, rows), NEW l \in [Ids -> Ids]
  PROVE  LET m == Round(l, pairs, rows)
             equated == Equated(l, pairs, rows)
         IN  /\ m \in [Ids -> Ids]
             /\ \A i \in Ids : m[i] <= l[i]
             /\ \A i \in Ids : \/ m[i] = l[i]
                               \/ \E e \in equated : \/ e[1] = l[i] /\ e[2] = m[i]
                                                     \/ e[2] = l[i] /\ e[1] = m[i]
             /\ \A i \in Ids : \A e \in equated : /\ e[1] = l[i] => m[i] <= e[2]
                                                  /\ e[2] = l[i] => m[i] <= e[1]
<1> DEFINE m == Round(l, pairs, rows)
           equated == Equated(l, pairs, rows)
           near(x) == {x} \cup {e[1] : e \in {e \in equated : e[2] = x}}
                          \cup {e[2] : e \in {e \in equated : e[1] = x}}
<1>1. m = [i \in Ids |-> Min(near(l[i]))]
  BY DEF Round, Equated
<1>2. \A e \in equated : e[1] \in Ids /\ e[2] \in Ids
  BY EquatedLabels
<1>3. ASSUME NEW i \in Ids
      PROVE  /\ near(l[i]) \in SUBSET Ids /\ l[i] \in near(l[i])
             /\ \A y \in near(l[i]) : \/ y = l[i]
                                      \/ \E e \in equated : e[1] = l[i] /\ e[2] = y
                                      \/ \E e \in equated : e[2] = l[i] /\ e[1] = y
             /\ \A e \in equated : (e[1] = l[i] => e[2] \in near(l[i])) /\ (e[2] = l[i] => e[1] \in near(l[i]))
  <2> HIDE DEF equated
  <2> QED
    BY <1>2
<1> HIDE DEF m, near, equated
<1>4. ASSUME NEW i \in Ids
      PROVE  Min(near(l[i])) \in near(l[i]) /\ \A y \in near(l[i]) : Min(near(l[i])) <= y
  <2>1. near(l[i]) \in SUBSET Nat /\ near(l[i]) # {}
    BY <1>3 DEF Ids
  <2> QED
    BY <2>1, MinFacts
<1>5. \A i \in Ids : m[i] \in near(l[i]) /\ \A y \in near(l[i]) : m[i] <= y
  BY <1>1, <1>4
<1>6. m \in [Ids -> Ids]
  BY <1>1, <1>3, <1>4
<1> QED
  BY <1>3, <1>5, <1>6 DEF m, equated

\* A round that changes nothing has found a congruence.
LEMMA RoundFixpoint ==
  ASSUME NEW pairs, NEW rows, Graph(pairs, rows), NEW l \in [Ids -> Ids],
         \A e \in Equated(l, pairs, rows) : e[1] = e[2]
  PROVE  IsCongruence(l, pairs, rows)
<1>1. ASSUME NEW p \in pairs PROVE l[p[1]] = l[p[2]]
  <2>1. <<l[p[1]], l[p[2]]>> \in Equated(l, pairs, rows)
    BY <1>1 DEF Equated
  <2> QED
    BY <2>1
<1>2. ASSUME NEW f \in Names, NEW r \in rows[f], NEW q \in rows[f],
             Renamed(l, Args(r)) = Renamed(l, Args(q))
      PROVE  l[Class(r)] = l[Class(q)]
  <2>1. <<r, q>> \in rows[f] \X rows[f]
    OBVIOUS
  <2>2. <<Class(r), Class(q)>> \in Congruent(l, rows)
    BY <1>2, <2>1 DEF Congruent
  <2>3. <<l[Class(r)], l[Class(q)]>> \in Equated(l, pairs, rows)
    BY <2>2 DEF Equated
  <2> QED
    BY <2>3
<1> QED
  BY <1>1, <1>2 DEF IsCongruence

\* A round keeps the labels of a congruence, and otherwise uses fewer of them.
LEMMA RoundProgress ==
  ASSUME NEW pairs, NEW rows, Graph(pairs, rows), NEW l \in [Ids -> Ids]
  PROVE  LET m == Round(l, pairs, rows)
         IN  /\ Labels(m) \subseteq Labels(l)
             /\ Labels(m) = Labels(l) => m = l /\ IsCongruence(l, pairs, rows)
<1> DEFINE m == Round(l, pairs, rows)
           equated == Equated(l, pairs, rows)
           X == {x \in Labels(l) : \E e \in equated : e[1] # e[2] /\ (e[1] = x \/ e[2] = x)}
<1>1. /\ m \in [Ids -> Ids]
      /\ \A i \in Ids : m[i] <= l[i]
      /\ \A i \in Ids : \/ m[i] = l[i]
                        \/ \E e \in equated : \/ e[1] = l[i] /\ e[2] = m[i]
                                              \/ e[2] = l[i] /\ e[1] = m[i]
      /\ \A i \in Ids : \A e \in equated : /\ e[1] = l[i] => m[i] <= e[2]
                                           /\ e[2] = l[i] => m[i] <= e[1]
  BY RoundFacts
<1>2. \A e \in equated : e[1] \in Labels(l) /\ e[2] \in Labels(l)
  BY EquatedLabels
<1> HIDE DEF m, equated
<1>3. Labels(m) \subseteq Labels(l)
  BY <1>1, <1>2 DEF Labels
<1>4. CASE X = {}
  <2>1. \A e \in equated : e[1] = e[2]
    BY <1>2, <1>4
  <2>2. \A i \in Ids : m[i] = l[i]
    BY <1>1, <2>1
  <2>3. m = l
    BY <1>1, <2>2, SameFunction
  <2>4. IsCongruence(l, pairs, rows)
    BY <2>1, RoundFixpoint DEF equated
  <2> QED
    BY <1>3, <2>3, <2>4 DEF m
<1>5. CASE X # {}
  <2>1. MaxId \in Nat /\ Ids = 1..MaxId /\ Labels(l) \subseteq Ids
    BY CongruenceAssumption DEF Ids, Labels
  <2>2. X \in SUBSET Nat /\ X \subseteq Labels(l) /\ \A x \in X : x <= MaxId
    BY <2>1
  <2>3. PICK x \in X : \A y \in X : y <= x
    <3> HIDE DEF X
    <3> QED
      BY <1>5, <2>1, <2>2, BoundedMax
  <2>4. PICK e \in equated : e[1] # e[2] /\ (e[1] = x \/ e[2] = x)
    BY <2>3
  <2>5. e[1] \in X /\ e[2] \in X
    BY <1>2, <2>4
  <2>6. e[1] \in Nat /\ e[2] \in Nat /\ x \in Nat
    BY <2>2, <2>5
  <2>7. ASSUME NEW j \in Ids, m[j] = x PROVE FALSE
    <3>1. m[j] \in Nat /\ l[j] \in Nat
      <4>1. m[j] \in Ids
        BY <1>1
      <4>2. l[j] \in Ids
        OBVIOUS
      <4> QED
        BY <4>1, <4>2, IdsAreNumbers
    <3>2. CASE l[j] = x
      <4>1. m[j] <= e[1] /\ m[j] <= e[2]
        <5>1. (e[1] = l[j] => m[j] <= e[2]) /\ (e[2] = l[j] => m[j] <= e[1])
          BY <1>1
        <5>2. e[1] <= x /\ e[2] <= x
          BY <2>3, <2>5
        <5> QED
          BY <2>4, <2>6, <2>7, <3>2, <5>1, <5>2
      <4>2. e[1] <= x /\ e[2] <= x
        BY <2>3, <2>5
      <4> QED
        BY <2>4, <2>6, <2>7, <4>1, <4>2
    <3>3. CASE l[j] # x
      <4>1. PICK d \in equated : \/ d[1] = l[j] /\ d[2] = m[j]
                                 \/ d[2] = l[j] /\ d[1] = m[j]
        BY <1>1, <2>7, <3>3
      <4>2. l[j] \in X
        BY <1>2, <2>7, <3>3, <4>1
      <4>3. l[j] <= x /\ x <= l[j]
        BY <1>1, <2>3, <2>7, <4>2
      <4> QED
        BY <2>6, <3>1, <3>3, <4>3
    <3> QED
      BY <3>2, <3>3
  <2>8. x \notin Labels(m) /\ x \in Labels(l)
    BY <2>2, <2>3, <2>7 DEF Labels
  <2> QED
    BY <1>3, <2>8 DEF m
<1> QED
  BY <1>4, <1>5

\* g has the labels of each round (Closure).
Rounds(g, pairs, rows) ==
  g = [n \in 0..(MaxId - 1) |-> IF n = 0 THEN [i \in Ids |-> i] ELSE Round(g[n - 1], pairs, rows)]

\* The recursive definition is one: a round needs only the one before.
LEMMA RoundsExist == ASSUME NEW pairs, NEW rows PROVE \E g : Rounds(g, pairs, rows)
<1> DEFINE N == MaxId - 1
           Step(g, n) == IF n = 0 THEN [i \in Ids |-> i] ELSE Round(g[n - 1], pairs, rows)
           First(d) == {n \in 0..N : n <= d}
           Part(g, d) == g = [n \in First(d) |-> Step(g, n)]
           Good == {d \in Nat : \E g : Part(g, d)}
<1>1. N \in Nat
  BY CongruenceAssumption
<1> HIDE DEF N
<1>2. 0 \in Good
  <2> DEFINE g == [n \in First(0) |-> [i \in Ids |-> i]]
  <2>1. \A n \in First(0) : n = 0
    BY <1>1
  <2>2. g = [n \in First(0) |-> Step(g, n)]
    BY <2>1
  <2> HIDE DEF g
  <2> QED
    BY <2>2
<1>3. ASSUME NEW d \in Nat, d \in Good PROVE d + 1 \in Good
  <2>1. PICK g : Part(g, d)
    BY <1>3
  <2> DEFINE h == [n \in First(d + 1) |-> Step(g, n)]
  <2>2. \A n \in First(d + 1) : ~(n = 0) => n - 1 \in First(d) /\ n - 1 \in First(d + 1)
    BY <1>1
  <2>3. \A n \in First(d) : n \in First(d + 1)
    BY <1>1
  <2>4. \A n \in First(d) : g[n] = Step(g, n)
    BY <2>1, Zenon
  <2>5. \A n \in First(d) : h[n] = g[n]
    <3>1. \A n \in First(d + 1) : h[n] = Step(g, n)
      BY Zenon
    <3> HIDE DEF h, Step, First
    <3> QED
      BY <2>3, <2>4, <3>1
  <2>6. \A n \in First(d + 1) : Step(g, n) = Step(h, n)
    <3>1. \A n \in First(d + 1) : ~(n = 0) => g[n - 1] = h[n - 1]
      <4> HIDE DEF h, First
      <4> QED
        BY <2>2, <2>5
    <3> HIDE DEF h, First
    <3> QED
      BY <3>1, Zenon
  <2>7. Part(h, d + 1)
    <3>1. h = [n \in First(d + 1) |-> Step(g, n)]
      OBVIOUS
    <3> HIDE DEF h, First, Step
    <3> QED
      BY <2>6, <3>1, Zenon
  <2> HIDE DEF h, Part
  <2> QED
    BY <2>7
<1>4. N \in Good
  <2> HIDE DEF Good
  <2>1. \A d \in Nat : d \in Good
    BY <1>2, <1>3, InductiveSet
  <2> QED
    BY <1>1, <2>1
<1>5. First(N) = 0..N
  BY <1>1
<1>6. PICK g : g = [n \in 0..N |-> Step(g, n)]
  BY <1>4, <1>5
<1> QED
  BY <1>6 DEF Rounds, N

\* MaxId - 1 rounds suffice: the closure is a congruence of the rows that makes the pairs
\* equal, every other one includes it, and each id is mapped to the least of its class,
\* which is the id that a rebuild must lead it to.
THEOREM ClosureIsLeastCongruence ==
  ASSUME NEW pairs, NEW rows, Graph(pairs, rows)
  PROVE  LET c == Closure(pairs, rows)
         IN  /\ c \in [Ids -> Ids] /\ \A i \in Ids : c[i] <= i /\ c[c[i]] = c[i]
             /\ IsCongruence(c, pairs, rows)
             /\ \A k \in [Ids -> Ids] : IsCongruence(k, pairs, rows) => Includes(k, c)
<1> DEFINE g == CHOOSE g : Rounds(g, pairs, rows)
           N == MaxId - 1
           Stage(n) == /\ g[n] \in [Ids -> Ids] /\ \A i \in Ids : g[n][i] <= i
                       /\ \A k \in [Ids -> Ids] : IsCongruence(k, pairs, rows) => Includes(k, g[n])
                       /\ \/ IsCongruence(g[n], pairs, rows)
                          \/ Cardinality(Labels(g[n])) + n <= MaxId
           Good == {n \in Nat : n <= N => Stage(n)}
<1>1. Closure(pairs, rows) = g[N]
  BY DEF Closure, Rounds
<1>2. Rounds(g, pairs, rows)
  BY RoundsExist
<1> HIDE DEF g
<1>3. MaxId \in Nat /\ N \in Nat /\ MaxId = N + 1 /\ 1 \in Ids /\ Ids = 1..MaxId
  BY CongruenceAssumption DEF Ids
<1> HIDE DEF N
<1>4. /\ g[0] = [i \in Ids |-> i]
      /\ \A n \in 0..N : n # 0 => g[n] = Round(g[n - 1], pairs, rows)
  <2>1. g = [n \in 0..N |-> IF n = 0 THEN [i \in Ids |-> i] ELSE Round(g[n - 1], pairs, rows)]
    BY <1>2 DEF Rounds, N
  <2>2. \A n \in 0..N : g[n] = IF n = 0 THEN [i \in Ids |-> i] ELSE Round(g[n - 1], pairs, rows)
    BY <2>1, Zenon
  <2>3. 0 \in 0..N
    BY <1>3
  <2> QED
    BY <2>2, <2>3, Zenon
<1>5. \A l \in [Ids -> Ids] : IsFiniteSet(Labels(l)) /\ Cardinality(Labels(l)) \in Nat
  <2> SUFFICES ASSUME NEW l \in [Ids -> Ids] PROVE IsFiniteSet(Labels(l)) /\ Cardinality(Labels(l)) \in Nat
    OBVIOUS
  <2>1. IsFiniteSet(Ids)
    BY <1>3, FS_Interval
  <2>2. Labels(l) \in SUBSET Ids
    BY DEF Labels
  <2>3. IsFiniteSet(Labels(l))
    BY <2>1, <2>2, FS_Subset
  <2> QED
    BY <2>3, FS_CardinalityType
<1>6. Stage(0)
  <2> DEFINE id == [i \in Ids |-> i]
  <2>1. id \in [Ids -> Ids] /\ \A i \in Ids : id[i] = i /\ i \in Nat
    BY <1>3
  <2>2. Labels(id) = Ids
    BY <2>1 DEF Labels
  <2>3. Cardinality(Ids) = MaxId
    BY <1>3, FS_Interval
  <2> HIDE DEF id
  <2>4. \A k \in [Ids -> Ids] : Includes(k, id)
    BY <2>1 DEF Includes
  <2>5. \A i \in Ids : id[i] <= i
    BY <2>1
  <2>6. Cardinality(Labels(id)) + 0 <= MaxId
    BY <1>3, <2>2, <2>3
  <2>7. g[0] = id
    BY <1>4 DEF id
  <2> QED
    BY <2>1, <2>4, <2>5, <2>6, <2>7
<1>7. ASSUME NEW n \in Nat, n \in Good PROVE n + 1 \in Good
  <2> SUFFICES ASSUME n + 1 <= N PROVE Stage(n + 1)
    OBVIOUS
  <2>1. Stage(n)
    <3>1. n \in Good => (n <= N => Stage(n))
      BY Zenon
    <3>2. n <= N
      BY <1>3
    <3> QED
      BY <1>7, <3>1, <3>2, Zenon
  <2> DEFINE l == g[n]
             m == g[n + 1]
  <2>2. m = Round(l, pairs, rows)
    <3>1. n + 1 \in 0..N /\ n + 1 # 0 /\ (n + 1) - 1 = n
      BY <1>3
    <3> QED
      BY <1>4, <3>1
  <2>3. l \in [Ids -> Ids] /\ \A i \in Ids : l[i] <= i
    BY <2>1
  <2> HIDE DEF l, m
  <2>4. /\ m \in [Ids -> Ids]
        /\ \A i \in Ids : m[i] <= l[i]
        /\ \A i \in Ids : \/ m[i] = l[i]
                          \/ \E e \in Equated(l, pairs, rows) : \/ e[1] = l[i] /\ e[2] = m[i]
                                                                \/ e[2] = l[i] /\ e[1] = m[i]
    BY <2>2, <2>3, RoundFacts
  <2>5. \A i \in Ids : m[i] <= i
    <3> SUFFICES ASSUME NEW i \in Ids PROVE m[i] <= i
      OBVIOUS
    <3>0. m[i] \in Ids /\ l[i] \in Ids
      BY <2>3, <2>4
    <3>1. m[i] \in Nat /\ l[i] \in Nat /\ i \in Nat
      BY <1>3, <3>0
    <3>2. m[i] <= l[i] /\ l[i] <= i
      BY <2>3, <2>4
    <3> QED
      BY <3>1, <3>2
  <2>6. ASSUME NEW k \in [Ids -> Ids], IsCongruence(k, pairs, rows) PROVE Includes(k, m)
    <3>1. Includes(k, l)
      BY <2>1, <2>6 DEF l
    <3>2. \A e \in Equated(l, pairs, rows) : k[e[1]] = k[e[2]]
      BY <2>3, <2>6, <3>1, EquatedIncluded
    <3>3. \A i \in Ids : k[m[i]] = k[l[i]]
      BY <2>4, <3>2
    <3> QED
      BY <3>1, <3>3 DEF Includes
  <2>7. Labels(m) \subseteq Labels(l) /\ (Labels(m) = Labels(l) => m = l /\ IsCongruence(l, pairs, rows))
    BY <2>2, <2>3, RoundProgress
  <2>8. IsCongruence(m, pairs, rows) \/ Cardinality(Labels(m)) + (n + 1) <= MaxId
    <3>1. CASE Labels(m) = Labels(l)
      BY <2>7, <3>1
    <3>2. CASE IsCongruence(l, pairs, rows)
      <4>1. Includes(l, l)
        BY <2>1, <2>3, <3>2 DEF l
      <4>2. \A e \in Equated(l, pairs, rows) : l[e[1]] = l[e[2]] /\ e[1] \in Labels(l) /\ e[2] \in Labels(l)
        BY <2>3, <3>2, <4>1, EquatedIncluded, EquatedLabels
      <4>3. \A x \in Labels(l) : l[x] = x
        BY <4>1 DEF Includes, Labels
      <4>4. \A i \in Ids : m[i] = l[i]
        BY <2>4, <4>2, <4>3
      <4>5. m = l
        BY <2>3, <2>4, <4>4, SameFunction
      <4> QED
        BY <3>2, <4>5
    <3>3. CASE Labels(m) # Labels(l) /\ Cardinality(Labels(l)) + n <= MaxId
      <4>1. IsFiniteSet(Labels(l)) /\ Cardinality(Labels(l)) \in Nat /\ Cardinality(Labels(m)) \in Nat
        BY <1>5, <2>3, <2>4
      <4>2. Cardinality(Labels(m)) <= Cardinality(Labels(l)) /\ Cardinality(Labels(m)) # Cardinality(Labels(l))
        BY <2>7, <3>3, <4>1, FS_Subset
      <4> QED
        BY <1>3, <3>3, <4>1, <4>2
    <3> QED
      BY <2>1, <3>1, <3>2, <3>3 DEF l
  <2> QED
    BY <2>4, <2>5, <2>6, <2>8 DEF m
<1>8. Stage(N)
  <2>1. 0 \in Good
    BY <1>6
  <2> HIDE DEF Good, Stage
  <2>2. \A n \in Nat : n \in Good
    BY <1>7, <2>1, InductiveSet
  <2>3. N \in Good /\ N <= N
    BY <1>3, <2>2
  <2> QED
    BY <2>3 DEF Good
<1> DEFINE c == g[N]
<1>9. c \in [Ids -> Ids] /\ \A i \in Ids : c[i] <= i
  BY <1>8
<1>10. ASSUME NEW k \in [Ids -> Ids], IsCongruence(k, pairs, rows) PROVE Includes(k, c)
  BY <1>8, <1>10
<1>11. IsCongruence(c, pairs, rows)
  <2>1. CASE Cardinality(Labels(c)) + N <= MaxId
    <3> HIDE DEF c
    <3>1. Cardinality(Labels(c)) <= 1 /\ Cardinality(Labels(c)) \in Nat /\ IsFiniteSet(Labels(c))
      BY <1>3, <1>5, <1>9, <2>1
    <3>2. c[1] = 1
      BY <1>3, <1>9
    <3>3. {1} \subseteq Labels(c)
      BY <1>3, <3>2 DEF Labels
    <3>4. IsFiniteSet({1}) /\ Cardinality({1}) = 1
      BY FS_Singleton
    <3>5. Cardinality({1}) <= Cardinality(Labels(c))
      BY <3>1, <3>3, FS_Subset
    <3>6. Cardinality({1}) = Cardinality(Labels(c))
      BY <3>1, <3>4, <3>5
    <3>7. Labels(c) = {1}
      BY <3>1, <3>3, <3>6, FS_Subset
    <3>8. \A i \in Ids : c[i] = 1
      BY <3>7 DEF Labels
    <3>9. \A e \in Equated(c, pairs, rows) : e[1] = e[2]
      BY <1>9, <3>7, EquatedLabels
    <3> QED
      BY <1>9, <3>9, RoundFixpoint
  <2> QED
    BY <1>8, <2>1
<1>12. \A i \in Ids : c[c[i]] = c[i]
  <2>1. Includes(c, c)
    BY <1>9, <1>10, <1>11
  <2> QED
    BY <2>1 DEF Includes
<1> QED
  BY <1>1, <1>9, <1>10, <1>11, <1>12

\* Labellings by least ids that include each other are the same.
LEMMA SameLabels ==
  ASSUME NEW c \in [Ids -> Ids], NEW d \in [Ids -> Ids], Includes(c, d), Includes(d, c),
         \A i \in Ids : c[i] <= i /\ d[i] <= i
  PROVE  c = d
<1>1. ASSUME NEW i \in Ids PROVE c[i] = d[i]
  <2>1. c[i] \in Ids /\ d[i] \in Ids
    OBVIOUS
  <2>2. c[i] \in Nat /\ d[i] \in Nat
    BY <2>1, IdsAreNumbers
  <2>3. c[d[i]] = c[i] /\ d[c[i]] = d[i]
    BY DEF Includes
  <2>4. c[d[i]] <= d[i] /\ d[c[i]] <= c[i]
    BY <2>1
  <2> QED
    BY <2>2, <2>3, <2>4
<1> QED
  BY <1>1, SameFunction

\* A labelling by least ids that is a congruence, and that every other includes, is
\* the closure.
LEMMA ClosureIs ==
  ASSUME NEW pairs, NEW rows, Graph(pairs, rows), NEW c \in [Ids -> Ids],
         \A i \in Ids : c[i] <= i, IsCongruence(c, pairs, rows),
         \A k \in [Ids -> Ids] : IsCongruence(k, pairs, rows) => Includes(k, c)
  PROVE  Closure(pairs, rows) = c
<1> DEFINE d == Closure(pairs, rows)
<1>1. /\ d \in [Ids -> Ids] /\ \A i \in Ids : d[i] <= i
      /\ IsCongruence(d, pairs, rows)
      /\ \A k \in [Ids -> Ids] : IsCongruence(k, pairs, rows) => Includes(k, d)
  BY ClosureIsLeastCongruence
<1> HIDE DEF d
<1>2. Includes(c, d) /\ Includes(d, c)
  BY <1>1
<1>3. c = d
  BY <1>1, <1>2, SameLabels
<1> QED
  BY <1>3 DEF d

\* Graphs with the same congruences have the same closure.
LEMMA SameClosure ==
  ASSUME NEW pairs, NEW rows, Graph(pairs, rows), NEW pairs2, NEW rows2, Graph(pairs2, rows2),
         \A k \in [Ids -> Ids] : IsCongruence(k, pairs, rows) <=> IsCongruence(k, pairs2, rows2)
  PROVE  Closure(pairs, rows) = Closure(pairs2, rows2)
<1> DEFINE c == Closure(pairs2, rows2)
<1>1. /\ c \in [Ids -> Ids] /\ \A i \in Ids : c[i] <= i
      /\ IsCongruence(c, pairs2, rows2)
      /\ \A k \in [Ids -> Ids] : IsCongruence(k, pairs2, rows2) => Includes(k, c)
  BY ClosureIsLeastCongruence
<1> HIDE DEF c
<1>2. IsCongruence(c, pairs, rows) /\ \A k \in [Ids -> Ids] : IsCongruence(k, pairs, rows) => Includes(k, c)
  BY <1>1
<1>3. Closure(pairs, rows) = c
  BY <1>1, <1>2, ClosureIs
<1> QED
  BY <1>3 DEF c

-----------------------------------------------------------------------------
(* The tables' conflict clauses and the seminaive queries. *)

\* DO NOTHING keeps what is there.
LEMMA InsertIgnoreFacts ==
  ASSUME NEW t, NEW new, NEW now
  PROVE  LET u == InsertIgnore(t, new, now)
         IN  /\ DOMAIN u = DOMAIN t \cup new
             /\ \A r \in DOMAIN t : u[r] = t[r]
             /\ \A r \in new : r \notin DOMAIN t => u[r] = now
BY DEF InsertIgnore

\* Nothing new to insert, and the table is as it was.
LEMMA InsertIgnoreSame ==
  ASSUME NEW S, NEW T, NEW t \in [S -> T], NEW new \in SUBSET S, NEW now
  PROVE  InsertIgnore(t, new, now) = t
<1>1. S \cup new = S /\ DOMAIN t = S
  OBVIOUS
<1>2. InsertIgnore(t, new, now) = [r \in S |-> t[r]]
  BY <1>1 DEF InsertIgnore
<1> QED
  BY <1>2

\* Rows are deleted, the others stay as they are.
LEMMA DeleteRowsFacts ==
  ASSUME NEW t, NEW old
  PROVE  LET u == DeleteRows(t, old)
         IN  /\ DOMAIN u = DOMAIN t \ old
             /\ \A r \in DOMAIN u : u[r] = t[r]
BY DEF DeleteRows, Restrict

\* u is the index t after what came was inserted with LEAST: an output is no greater
\* than the old one and any that came, and is one of them.
Lowered(t, new, now, u) ==
  /\ DOMAIN u = DOMAIN t \cup {e[1] : e \in new}
  /\ \A k \in DOMAIN t : (\A e \in new : e[1] # k) => u[k] = t[k]
  /\ \A e \in new : u[e[1]].ts = now /\ u[e[1]].out <= e[2]
  /\ \A k \in DOMAIN t : u[k].out \in Nat /\ u[k].out <= t[k].out
  /\ \A e \in new : \/ e[1] \in DOMAIN t /\ u[e[1]].out = t[e[1]].out
                    \/ \E d \in new : d[1] = e[1] /\ u[e[1]].out = d[2]

\* Inserting into the index keeps the lesser leader of every id.
LEMMA InsertLeastFacts ==
  ASSUME NEW t, NEW new, NEW now, \A e \in new : e[2] \in Nat, \A k \in DOMAIN t : t[k].out \in Nat
  PROVE  Lowered(t, new, now, InsertLeast(t, new, now))
<1> DEFINE u == InsertLeast(t, new, now)
           outs(k) == {e[2] : e \in {e \in new : e[1] = k}}
           old(k) == IF k \in DOMAIN t THEN {t[k].out} ELSE {}
           D == DOMAIN t \cup {e[1] : e \in new}
<1>1. u = [k \in D |-> IF outs(k) = {} THEN t[k] ELSE [out |-> Min(outs(k) \cup old(k)), ts |-> now]]
  BY DEF InsertLeast, Incoming
<1>2. \A k : outs(k) = {} <=> \A e \in new : e[1] # k
  OBVIOUS
<1>3. \A e \in new : e[2] \in outs(e[1]) /\ e[1] \in D
  OBVIOUS
<1>4. \A k \in DOMAIN t : k \in D /\ t[k].out \in old(k)
  OBVIOUS
<1>5. ASSUME NEW k, outs(k) # {}
      PROVE  /\ Min(outs(k) \cup old(k)) \in outs(k) \cup old(k) /\ Min(outs(k) \cup old(k)) \in Nat
             /\ \A x \in outs(k) \cup old(k) : Min(outs(k) \cup old(k)) <= x
  <2>1. outs(k) \cup old(k) \in SUBSET Nat /\ outs(k) \cup old(k) # {}
    BY <1>5
  <2> HIDE DEF outs, old
  <2> QED
    BY <2>1, MinFacts
<1>6. \A k : \A x \in outs(k) : \E d \in new : d[1] = k /\ d[2] = x
  OBVIOUS
<1>7. \A k : \A x \in old(k) : k \in DOMAIN t /\ x = t[k].out
  OBVIOUS
<1>8. DOMAIN u = D
  BY <1>1
<1>9. \A k \in D : u[k] = IF outs(k) = {} THEN t[k] ELSE [out |-> Min(outs(k) \cup old(k)), ts |-> now]
  BY <1>1
<1> HIDE DEF u, outs, old, D
<1>10. \A k \in DOMAIN t : (\A e \in new : e[1] # k) => u[k] = t[k]
  BY <1>2, <1>4, <1>9
<1>11. ASSUME NEW e \in new
       PROVE  /\ u[e[1]].ts = now /\ u[e[1]].out <= e[2]
              /\ \/ e[1] \in DOMAIN t /\ u[e[1]].out = t[e[1]].out
                 \/ \E d \in new : d[1] = e[1] /\ u[e[1]].out = d[2]
  <2>1. PICK k : k = e[1]
    OBVIOUS
  <2>2. outs(k) # {} /\ k \in D /\ e[2] \in outs(k)
    BY <1>3, <2>1
  <2>3. u[k] = [out |-> Min(outs(k) \cup old(k)), ts |-> now]
    BY <1>9, <2>2, Zenon
  <2>4. u[k].ts = now /\ u[k].out = Min(outs(k) \cup old(k))
    BY <2>3
  <2>5. PICK m : m = Min(outs(k) \cup old(k))
    OBVIOUS
  <2>6. m \in outs(k) \cup old(k) /\ m <= e[2]
    BY <1>5, <2>2, <2>5
  <2>7. (k \in DOMAIN t /\ m = t[k].out) \/ \E d \in new : d[1] = k /\ d[2] = m
    BY <1>6, <1>7, <2>6
  <2> QED
    BY <2>1, <2>4, <2>5, <2>6, <2>7
<1>12. ASSUME NEW k \in DOMAIN t PROVE u[k].out \in Nat /\ u[k].out <= t[k].out
  <2>1. CASE outs(k) = {}
    <3>1. u[k] = t[k]
      BY <1>4, <1>9, <2>1
    <3> QED
      BY <3>1
  <2>2. CASE outs(k) # {}
    <3>1. u[k] = [out |-> Min(outs(k) \cup old(k)), ts |-> now]
      BY <1>4, <1>9, <2>2, Zenon
    <3>2. u[k].out = Min(outs(k) \cup old(k))
      BY <3>1
    <3> QED
      BY <1>4, <1>5, <2>2, <3>2
  <2> QED
    BY <2>1, <2>2
<1>13. Lowered(t, new, now, u)
  BY <1>8, <1>10, <1>11, <1>12 DEF D, Lowered
<1> QED
  BY <1>13 DEF u

\* A branch finds what has one part that is new and no part of this iteration.
LEMMA DeltaFacts ==
  ASSUME NEW n \in Nat, NEW stamps, DOMAIN stamps = 1..n, \A k \in 1..n : stamps[k] \in Nat,
         NEW last \in Nat, NEW cur \in Nat, last <= cur
  PROVE  Delta(stamps, last, cur) <=> /\ \A k \in 1..n : stamps[k] < cur
                                      /\ \E k \in 1..n : stamps[k] >= last
<1>1. ASSUME Delta(stamps, last, cur)
      PROVE  (\A k \in 1..n : stamps[k] < cur) /\ \E k \in 1..n : stamps[k] >= last
  <2>1. PICK focus \in 1..n :
           /\ stamps[focus] >= last /\ stamps[focus] < cur
           /\ \A k \in 1..n : k < focus => stamps[k] < last
           /\ \A k \in 1..n : k > focus => stamps[k] < cur
    BY <1>1 DEF Delta
  <2>2. ASSUME NEW k \in 1..n PROVE stamps[k] < cur
    <3>1. k < focus \/ k = focus \/ k > focus
      OBVIOUS
    <3> QED
      BY <2>1, <3>1
  <2> QED
    BY <2>1, <2>2
<1>2. ASSUME \A k \in 1..n : stamps[k] < cur, NEW j \in 1..n, stamps[j] >= last
      PROVE  Delta(stamps, last, cur)
  <2> DEFINE Fresh == {k \in 1..n : stamps[k] >= last}
  <2>0. j \in Fresh
    BY <1>2
  <2>1. Fresh \in SUBSET Nat
    OBVIOUS
  <2>2. PICK focus \in Fresh : \A k \in Fresh : focus <= k
    BY <2>0, <2>1, LeastNatural
  <2>3. \A k \in 1..n : k < focus => stamps[k] < last
    BY <2>2
  <2> QED
    BY <1>2, <2>2, <2>3 DEF Delta
<1> QED
  BY <1>1, <1>2

\* Of a rule with one atom and with two.
LEMMA DeltaOne ==
  ASSUME NEW a \in Nat, NEW last \in Nat, NEW cur \in Nat, last <= cur
  PROVE  Delta(<<a>>, last, cur) <=> a < cur /\ a >= last
<1> DEFINE s == <<a>>
<1>1. DOMAIN s = 1..1 /\ s[1] = a /\ \A k \in 1..1 : k = 1
  OBVIOUS
<1> HIDE DEF s
<1>2. Delta(s, last, cur) <=> (\A k \in 1..1 : s[k] < cur) /\ \E k \in 1..1 : s[k] >= last
  BY <1>1, DeltaFacts
<1> QED
  BY <1>1, <1>2 DEF s

\* The windows of a rule with two atoms: both rows are old enough and one of them is new.
LEMMA DeltaTwo ==
  ASSUME NEW a \in Nat, NEW b \in Nat, NEW last \in Nat, NEW cur \in Nat, last <= cur
  PROVE  Delta(<<a, b>>, last, cur) <=> a < cur /\ b < cur /\ (a >= last \/ b >= last)
<1> DEFINE s == <<a, b>>
<1>1. DOMAIN s = 1..2 /\ s[1] = a /\ s[2] = b
  OBVIOUS
<1> HIDE DEF s
<1>2. \A k \in 1..2 : k = 1 \/ k = 2
  OBVIOUS
<1>3. Delta(s, last, cur) <=> (\A k \in 1..2 : s[k] < cur) /\ \E k \in 1..2 : s[k] >= last
  <2>1. \A k \in 1..2 : s[k] \in Nat
    BY <1>1, <1>2
  <2> QED
    BY <1>1, <2>1, DeltaFacts
<1> QED
  BY <1>1, <1>2, <1>3 DEF s

-----------------------------------------------------------------------------
(* Rules, rulesets and tables. *)

ParentRule == Rule("singleparent", "")
CompressRule == Rule("uf_update", "")
IndexRule == Rule("uf_function_index", "")
CongruenceOf(f) == Rule("congruence_rule", f)
RebuildOf(f) == Rule("rebuild_rule", f)
DeleteOf(f) == Rule("delete_rule", f)

\* The rulesets of the schedule.
LEMMA RulesetFacts ==
  /\ DOMAIN Rulesets = {"single_parent", "path_compress", "uf_function_index", "rebuilding", "delete_subsume"}
  /\ Rulesets["single_parent"] = <<ParentRule>>
  /\ Rulesets["path_compress"] = <<CompressRule>>
  /\ Rulesets["uf_function_index"] = <<IndexRule>>
  /\ Rulesets["rebuilding"] = Rebuilders
  /\ Rulesets["delete_subsume"] = Deleters
BY DEF Rulesets, ParentRule, CompressRule, IndexRule

\* The maintenance rules of the constructors.
LEMMA CtorRules ==
  /\ Rebuilders \in Seq(Range(Rebuilders)) /\ Deleters \in Seq(Range(Deleters))
  /\ Range(Rebuilders) = {CongruenceOf(f) : f \in Names} \cup {RebuildOf(f) : f \in Names}
  /\ Range(Deleters) = {DeleteOf(f) : f \in Names}
<1> DEFINE L == Len(Ctors)
<1>1. L \in Nat /\ DOMAIN Ctors = 1..L /\ \A j \in 1..L : Ctors[j] \in Names
  BY CongruenceAssumption
<1>2. \A f \in Names : \E j \in 1..L : Ctors[j] = f
  BY <1>1 DEF Names, Range
<1> HIDE DEF L
<1>3. /\ Deleters = [n \in 1..L |-> DeleteOf(Ctors[n])]
      /\ Rebuilders = [n \in 1..(2 * L) |-> IF n % 2 = 1 THEN CongruenceOf(Ctors[(n + 1) \div 2])
                                                         ELSE RebuildOf(Ctors[(n + 1) \div 2])]
  BY DEF Deleters, Rebuilders, DeleteOf, CongruenceOf, RebuildOf, Rule, L
<1>4. Deleters \in Seq(Range(Deleters)) /\ Rebuilders \in Seq(Range(Rebuilders))
  <2>1. 2 * L \in Nat
    BY <1>1
  <2>2. Deleters \in [1..L -> Range(Deleters)] /\ Rebuilders \in [1..(2 * L) -> Range(Rebuilders)]
    BY <1>3 DEF Range
  <2> QED
    BY <1>1, <2>1, <2>2
<1>5. Range(Deleters) = {DeleteOf(f) : f \in Names}
  BY <1>1, <1>2, <1>3 DEF Range
<1>6. ASSUME NEW n \in 1..(2 * L)
      PROVE  (n + 1) \div 2 \in 1..L
  BY <1>1
<1>7. ASSUME NEW j \in 1..L
      PROVE  /\ 2 * j \in 1..(2 * L) /\ (2 * j) % 2 # 1 /\ (2 * j + 1) \div 2 = j
             /\ 2 * j - 1 \in 1..(2 * L) /\ (2 * j - 1) % 2 = 1 /\ ((2 * j - 1) + 1) \div 2 = j
  BY <1>1
<1>8. ASSUME NEW r \in Range(Rebuilders)
      PROVE  r \in {CongruenceOf(f) : f \in Names} \cup {RebuildOf(f) : f \in Names}
  <2>1. PICK n \in 1..(2 * L) : r = Rebuilders[n]
    BY <1>3, <1>8 DEF Range
  <2>2. Ctors[(n + 1) \div 2] \in Names
    BY <1>1, <1>6
  <2> QED
    BY <1>3, <2>1, <2>2
<1>9. ASSUME NEW f \in Names PROVE CongruenceOf(f) \in Range(Rebuilders) /\ RebuildOf(f) \in Range(Rebuilders)
  <2>1. PICK j \in 1..L : Ctors[j] = f
    BY <1>2
  <2>2. Rebuilders[2 * j] = RebuildOf(f) /\ Rebuilders[2 * j - 1] = CongruenceOf(f)
    BY <1>3, <1>7, <2>1
  <2> QED
    BY <1>3, <1>7, <2>2 DEF Range
<1> QED
  BY <1>4, <1>5, <1>8, <1>9

\* The rules of the rulesets are the ones that the runner keeps a timestamp for.
LEMMA RuleFacts ==
  /\ ParentRule \in Rules /\ CompressRule \in Rules /\ IndexRule \in Rules
  /\ \A f \in Names : CongruenceOf(f) \in Rules /\ RebuildOf(f) \in Rules /\ DeleteOf(f) \in Rules
  /\ \A s \in DOMAIN Rulesets : \A r \in Range(Rulesets[s]) : r \in Rules
<1>1. \A s \in DOMAIN Rulesets : \A r \in Range(Rulesets[s]) : r \in Rules
  BY DEF Rules
<1>2. ParentRule \in Range(<<ParentRule>>) /\ CompressRule \in Range(<<CompressRule>>) /\ IndexRule \in Range(<<IndexRule>>)
  BY DEF Range
<1>3. ParentRule \in Rules /\ CompressRule \in Rules /\ IndexRule \in Rules
  BY <1>1, <1>2, RulesetFacts
<1>4. ASSUME NEW f \in Names PROVE CongruenceOf(f) \in Rules /\ RebuildOf(f) \in Rules /\ DeleteOf(f) \in Rules
  <2>1. /\ CongruenceOf(f) \in Range(Rulesets["rebuilding"]) /\ RebuildOf(f) \in Range(Rulesets["rebuilding"])
        /\ DeleteOf(f) \in Range(Rulesets["delete_subsume"])
    BY RulesetFacts, CtorRules
  <2> QED
    BY <1>1, <2>1, RulesetFacts
<1> QED
  BY <1>1, <1>3, <1>4

\* Tables of different kinds, and of different constructors, are different.
LEMMA TableFacts ==
  /\ UFTable \in Tables /\ UFfTable \in Tables /\ UFTable # UFfTable
  /\ \A f \in Names : /\ View(f) \in Tables /\ ToDelete(f) \in Tables
                      /\ View(f) # UFTable /\ View(f) # UFfTable /\ View(f) # ToDelete(f)
                      /\ ToDelete(f) # UFTable /\ ToDelete(f) # UFfTable
  /\ \A f, g \in Names : View(f) # ToDelete(g) /\ (View(f) = View(g) => f = g) /\ (ToDelete(f) = ToDelete(g) => f = g)
BY DEF UFTable, UFfTable, View, ToDelete, Tables

-----------------------------------------------------------------------------
(* The inductive invariant. *)

\* The ids made so far.
Known == 1..(seq - 1)
\* The rulesets of one rule.
Alone == {"single_parent", "path_compress", "uf_function_index"}

Numbers ==
  /\ seq \in Nat /\ 1 <= seq /\ seq <= MaxId + 1
  /\ Leaves \subseteq Known
  /\ ts \in Nat /\ 1 <= ts
EdgeTypes == uf \in [DOMAIN uf -> Nat] /\ \A e \in DOMAIN uf : e \in Known \X Known /\ uf[e] \in 1..ts
IndexTypes == \A i \in DOMAIN ufi : i \in Known /\ ufi[i].out \in 1..i /\ ufi[i].ts \in 1..ts
RowTypes ==
  /\ DOMAIN term = Names /\ DOMAIN view = Names /\ DOMAIN todel = Names
  /\ \A f \in Names :
       /\ \A r \in DOMAIN term[f] : r \in RowsOf(f, Known)
       /\ \A r \in DOMAIN view[f] : r \in RowsOf(f, Known) /\ view[f][r] \in 1..ts
       /\ \A a \in DOMAIN todel[f] : a \in ArgsOf(f, Known) /\ todel[f][a] \in 1..ts
RunTypes ==
  /\ lastRun \in [Rules -> Nat] /\ \A r \in Rules : lastRun[r] <= ts
  /\ watermark \in [Tables -> Nat]
  /\ updated \in BOOLEAN /\ outer \in BOOLEAN /\ rebuilt \in BOOLEAN
ClassTypes == classes \in [Ids -> Ids]
Types == Numbers /\ EdgeTypes /\ IndexTypes /\ RowTypes /\ RunTypes /\ ClassTypes

\* What is left of the iteration: a rule of the ruleset has run in it or has still to.
TodoInv ==
  /\ at \in {"idle", "actions"} \cup DOMAIN Rulesets
  /\ at \in {"idle", "actions"} => todo = <<>>
  /\ at = "actions" => ~rebuilt
  /\ at \in DOMAIN Rulesets =>
       /\ todo \in Seq(Range(Rulesets[at]))
       /\ \A r \in Range(Rulesets[at]) : r \in Range(todo) \/ lastRun[r] = ts
  /\ at \in Alone => todo = Rulesets[at] /\ ~updated

\* Until an iteration of a ruleset changes something, all rows are older than it.
Older ==
  /\ at \in DOMAIN Rulesets => \A i \in DOMAIN ufi : ufi[i].ts < ts
  /\ at \in DOMAIN Rulesets /\ (at = "rebuilding" => ~updated) =>
       /\ \A e \in DOMAIN uf : uf[e] < ts
       /\ \A f \in Names : \A r \in DOMAIN view[f] : view[f][r] < ts
  /\ at \in DOMAIN Rulesets => \A f \in Names : \A a \in DOMAIN todel[f] : todel[f][a] < ts
  /\ at = "delete_subsume" => \A f \in Names : \A r \in DOMAIN view[f] : view[f][r] < ts
  /\ at = "rebuilding" => \A f \in Names : \A r \in Stale(f) : view[f][r] < ts

\* No row is newer than what is known of its table's last change.
Marked ==
  /\ \A e \in DOMAIN uf : uf[e] <= watermark[UFTable]
  /\ \A i \in DOMAIN ufi : ufi[i].ts <= watermark[UFfTable]
  /\ \A f \in Names : \A r \in DOMAIN view[f] : view[f][r] <= watermark[View(f)]
  /\ \A f \in Names : \A a \in DOMAIN todel[f] : todel[f][a] <= watermark[ToDelete(f)]

\* The index has the ids up to some, and after it was brought up to date all of them.
Indexed ==
  /\ \A i \in DOMAIN ufi : \A j \in 1..i : j \in DOMAIN ufi
  /\ at \in {"rebuilding", "delete_subsume"} => \A i \in Known : i \in DOMAIN ufi

\* Every id has an edge, an edge leads down unless singleparent has still to turn it,
\* and an entry of the index is an edge unless path compression has shortened it.
Rooted == \A i \in Known : \E j \in Known : <<i, j>> \in DOMAIN uf
Descending ==
  \A e \in DOMAIN uf : e[2] <= e[1] \/ (at = "single_parent" /\ e[1] \in DOMAIN ufi /\ e[2] \in DOMAIN ufi)
LowEdges == \A i \in DOMAIN ufi : \E j \in Known : <<i, j>> \in DOMAIN uf /\ j <= ufi[i].out
Entries ==
  at \notin {"path_compress", "uf_function_index"} => \A i \in DOMAIN ufi : <<i, ufi[i].out>> \in DOMAIN uf
Leads == at \notin Alone => \A i \in DOMAIN ufi : ufi[ufi[i].out].out = ufi[i].out
Forest == Rooted /\ Descending /\ LowEdges /\ Entries /\ Leads

\* A rule of the union-find has nothing to do.
ParentDone == \A e \in DOMAIN uf : e[1] \in DOMAIN ufi => ufi[e[1]].out = e[2]
CompressDone == \A p, q \in DOMAIN uf : p[2] = q[1] => q[1] = q[2]
IndexDone == \A e \in DOMAIN uf : e[1] \in DOMAIN ufi /\ ufi[e[1]].out <= e[2]

\* What the rulesets before this one have reached in a pass that changed nothing.
Quiet ==
  /\ at \in {"path_compress", "uf_function_index", "rebuilding"} /\ ~updated /\ ~outer => ParentDone
  /\ at = "uf_function_index" => CompressDone
  /\ at = "rebuilding" /\ ~updated => CompressDone /\ IndexDone

\* Whatever makes the ends of all edges equal makes x and y equal.
Respects(l) == \A e \in DOMAIN uf : l[e[1]] = l[e[2]]
Linked(x, y) == \A l \in [Ids -> Ids] : Respects(l) => l[x] = l[y]

\* What a rule would match and has not, is new since it last ran.
ParentPending ==
  \A e \in DOMAIN uf : e[1] \in DOMAIN ufi /\ ufi[e[1]].out # e[2] =>
     uf[e] >= lastRun[ParentRule] \/ ufi[e[1]].ts >= lastRun[ParentRule]
CompressPending ==
  \A p, q \in DOMAIN uf : p[2] = q[1] /\ q[1] # q[2] =>
     uf[p] >= lastRun[CompressRule] \/ uf[q] >= lastRun[CompressRule]
IndexPending ==
  \A e \in DOMAIN uf : uf[e] >= lastRun[IndexRule] \/ (e[1] \in DOMAIN ufi /\ ufi[e[1]].out <= e[2])
CongruencePending(f) ==
  \A r, q \in DOMAIN view[f] : Args(r) = Args(q) =>
     \/ view[f][r] >= lastRun[CongruenceOf(f)] \/ view[f][q] >= lastRun[CongruenceOf(f)]
     \/ Linked(Class(r), Class(q))
RebuildPending(f) == \A r \in Stale(f) : \E k \in DOMAIN r : ufi[r[k]].ts >= lastRun[RebuildOf(f)]
DeletePending(f) ==
  \A r \in DOMAIN view[f] : Args(r) \in DOMAIN todel[f] =>
     view[f][r] >= lastRun[DeleteOf(f)] \/ todel[f][Args(r)] >= lastRun[DeleteOf(f)]
Pending ==
  /\ ParentPending /\ CompressPending /\ IndexPending
  /\ \A f \in Names : CongruencePending(f) /\ RebuildPending(f) /\ DeletePending(f)

\* The classes are the least congruence that has the edges.
Sound ==
  /\ \A i \in Ids : classes[i] <= i
  /\ IsCongruence(classes, DOMAIN uf, ViewRows)
  /\ \A i \in DOMAIN ufi : classes[ufi[i].out] = classes[i]
Least == \A k \in [Ids -> Ids] : IsCongruence(k, DOMAIN uf, ViewRows) => Includes(k, classes)

\* What a rebuild leaves (RebuiltExact).
Exact ==
  /\ \A i \in 1..(seq - 1) : i \in DOMAIN ufi /\ ufi[i].out = classes[i]
  /\ \A e \in DOMAIN uf : e[2] = classes[e[1]]
  /\ \A f \in Names : \A r, q \in DOMAIN view[f] :
        Renamed(classes, r) = r /\ (Args(r) = Args(q) => r = q)
Rebuilt == at = "delete_subsume" \/ (at = "idle" /\ rebuilt) => Exact

EncodingInv ==
  /\ Types /\ TodoInv /\ Older /\ Marked /\ Indexed /\ Forest /\ Quiet
  /\ Pending /\ Sound /\ Least /\ Rebuilt

-----------------------------------------------------------------------------
(* The initial state. *)

\* At the start there are the leaves, and nothing is left to run.
LEMMA InitTypes == Init => Types /\ TodoInv
<1> SUFFICES ASSUME Init PROVE Types /\ TodoInv
  OBVIOUS
<1>1. PICK n \in 0..MaxId : Leaves = 1..n
  BY CongruenceAssumption
<1>2. n \in Nat /\ n <= MaxId /\ MaxId \in Nat
  BY <1>1, IdsAreNumbers
<1>3. seq = n + 1 /\ Known = 1..n
  <2>1. Cardinality(1..n) = n
    BY <1>2, FS_Interval
  <2> QED
    BY <1>1, <1>2, <2>1 DEF Init, Known
<1>4. Numbers
  BY <1>1, <1>2, <1>3 DEF Numbers, Init
<1>5. EdgeTypes
  <2>1. DOMAIN uf = {<<i, i>> : i \in Leaves} /\ \A e \in DOMAIN uf : uf[e] = 1
    BY DEF Init
  <2>2. uf \in [DOMAIN uf -> Nat]
    BY DEF Init
  <2> QED
    BY <1>1, <1>3, <2>1, <2>2 DEF EdgeTypes, Init
<1>6. IndexTypes
  <2>1. DOMAIN ufi = 1..n /\ \A i \in DOMAIN ufi : ufi[i].out = i /\ ufi[i].ts = 4
    BY <1>1 DEF Init
  <2>2. \A i \in 1..n : i \in Nat /\ i \in 1..i
    BY <1>2
  <2>3. 4 \in 1..11 /\ ts = 11
    BY DEF Init
  <2> QED
    BY <1>3, <2>1, <2>2, <2>3 DEF IndexTypes
<1>7. RowTypes
  BY DEF RowTypes, Init
<1>8. RunTypes
  <2>1. ASSUME NEW r \in Rules PROVE lastRun[r] \in {7, 8, 9, 10, 11}
    BY DEF Init
  <2>2. ASSUME NEW t \in Tables PROVE watermark[t] \in {0, 1, 4}
    BY DEF Init
  <2>3. ts = 11 /\ updated = FALSE /\ outer = FALSE /\ rebuilt = TRUE
    BY DEF Init
  <2>4. \A r \in Rules : lastRun[r] \in Nat /\ lastRun[r] <= ts
    BY <2>1, <2>3
  <2>5. \A t \in Tables : watermark[t] \in Nat
    BY <2>2
  <2>6. lastRun \in [Rules -> Nat]
    <3>1. lastRun = [r \in Rules |-> lastRun[r]]
      BY DEF Init
    <3> QED
      BY <2>4, <3>1
  <2>7. watermark \in [Tables -> Nat]
    <3>1. watermark = [t \in Tables |-> watermark[t]]
      BY DEF Init
    <3> QED
      BY <2>5, <3>1
  <2> QED
    BY <2>3, <2>4, <2>6, <2>7 DEF RunTypes
<1>9. ClassTypes
  BY DEF ClassTypes, Init
<1>10. TodoInv
  BY RulesetFacts DEF TodoInv, Init, Alone
<1> QED
  BY <1>4, <1>5, <1>6, <1>7, <1>8, <1>9, <1>10 DEF Types

\* The invariant holds after the first command.
LEMMA InitInv == Init => EncodingInv
<1> SUFFICES ASSUME Init PROVE EncodingInv
  OBVIOUS
<1>1. Types /\ TodoInv
  BY InitTypes
<1>2. /\ DOMAIN uf = {<<i, i>> : i \in Leaves} /\ \A e \in DOMAIN uf : uf[e] = 1
      /\ DOMAIN ufi = Leaves /\ \A i \in Leaves : ufi[i].out = i /\ ufi[i].ts = 4
      /\ \A f \in Names : DOMAIN view[f] = {} /\ DOMAIN todel[f] = {} /\ ViewRows[f] = {}
      /\ at = "idle" /\ ts = 11 /\ \A i \in Ids : classes[i] = i
  BY DEF Init, ViewRows
<1>3. PICK n \in Nat : Leaves = 1..n /\ n <= MaxId /\ seq = n + 1
  <2>1. PICK n \in 0..MaxId : Leaves = 1..n
    BY CongruenceAssumption
  <2>2. n \in Nat /\ n <= MaxId
    BY <2>1, IdsAreNumbers
  <2>3. Cardinality(1..n) = n
    BY <2>2, FS_Interval
  <2> QED
    BY <2>1, <2>2, <2>3 DEF Init
<1>4. Known = Leaves /\ Leaves \subseteq Ids /\ Leaves \subseteq Nat
  BY <1>3, IdsAreNumbers DEF Known
<1>5. at \notin DOMAIN Rulesets /\ at \notin Alone /\ at \notin {"path_compress", "uf_function_index", "rebuilding", "delete_subsume", "single_parent"}
  BY <1>2, RulesetFacts DEF Alone
<1>6. Older
  BY <1>5 DEF Older
<1>7. Marked
  <2>1. watermark[UFTable] = 1 /\ watermark[UFfTable] = 4
    BY TableFacts DEF Init
  <2> QED
    BY <1>2, <2>1 DEF Marked
<1>8. Indexed
  BY <1>2, <1>3, <1>5 DEF Indexed
<1>9. Forest
  <2>1. \A i \in Leaves : <<i, i>> \in DOMAIN uf
    BY <1>2
  <2>2. \A e \in DOMAIN uf : e[2] = e[1] /\ e[2] \in Nat
    BY <1>2, <1>4
  <2>3. \A i \in Leaves : i \in Nat /\ i <= i
    BY <1>4
  <2>4. Rooted
    BY <1>4, <2>1 DEF Rooted
  <2>5. Descending
    BY <2>2 DEF Descending
  <2>6. LowEdges /\ Entries /\ Leads
    <3>1. \A i \in DOMAIN ufi : i \in Known /\ ufi[i].out = i /\ i <= i /\ <<i, i>> \in DOMAIN uf
      BY <1>2, <1>4, <2>1, <2>3
    <3> QED
      BY <3>1 DEF LowEdges, Entries, Leads
  <2> QED
    BY <2>4, <2>5, <2>6 DEF Forest
<1>10. Quiet
  BY <1>5 DEF Quiet
<1>11. Pending
  <2>1. \A e \in DOMAIN uf : e[1] \in DOMAIN ufi /\ ufi[e[1]].out = e[2] /\ e[1] = e[2] /\ e[2] \in Nat
    BY <1>2, <1>4
  <2>2. ParentPending /\ CompressPending /\ IndexPending
    BY <2>1 DEF ParentPending, CompressPending, IndexPending
  <2>3. \A f \in Names : CongruencePending(f) /\ RebuildPending(f) /\ DeletePending(f)
    BY <1>2 DEF CongruencePending, RebuildPending, DeletePending, Stale
  <2> QED
    BY <2>2, <2>3 DEF Pending
<1>12. Sound
  <2>1. \A e \in DOMAIN uf : e[2] = e[1]
    BY <1>2, <1>4
  <2>2. \A i \in Ids : i \in Nat /\ i <= i
    BY IdsAreNumbers
  <2>3. IsCongruence(classes, DOMAIN uf, ViewRows)
    BY <1>2, <2>1 DEF IsCongruence
  <2> QED
    BY <1>2, <1>4, <2>2, <2>3 DEF Sound
<1>13. Least
  BY <1>2 DEF Least, Includes
<1>14. Rebuilt
  <2>1. \A i \in 1..(seq - 1) : i \in DOMAIN ufi /\ ufi[i].out = classes[i]
    BY <1>2, <1>4 DEF Known
  <2>2. \A e \in DOMAIN uf : e[2] = classes[e[1]]
    BY <1>2, <1>4
  <2>3. Exact
    BY <1>2, <2>1, <2>2 DEF Exact
  <2> QED
    BY <2>3 DEF Rebuilt
<1> QED
  BY <1>1, <1>6, <1>7, <1>8, <1>9, <1>10, <1>11, <1>12, <1>13, <1>14 DEF EncodingInv

-----------------------------------------------------------------------------
(* Steps of the schedule alone. *)

\* What does not mention the schedule stays when the tables do.
LEMMA TablesKept ==
  ASSUME EncodingInv, UNCHANGED <<db, lastRun, watermark, classes>>, ts' \in {ts, ts + 1},
         updated' \in BOOLEAN, outer' \in BOOLEAN, rebuilt' \in BOOLEAN
  PROVE  /\ Types' /\ Marked' /\ Pending' /\ Sound' /\ Least'
         /\ Known' = Known /\ (Rooted /\ LowEdges)' /\ (ParentDone => ParentDone') /\ (Exact => Exact')
         /\ ts' \in Nat /\ ts <= ts'
<1>1. UNCHANGED <<uf, ufi, term, view, todel, seq, lastRun, watermark, classes>>
  BY DEF db
<1>2. Known' = Known
  BY <1>1 DEF Known
<1>3. Types /\ Numbers /\ ts \in Nat /\ ts' \in Nat /\ ts <= ts' /\ 1 <= ts
  BY DEF EncodingInv, Types, Numbers
<1>4. Types'
  <2>1. Numbers' /\ ClassTypes'
    BY <1>1, <1>2, <1>3 DEF Types, Numbers, ClassTypes
  <2>2. EdgeTypes'
    BY <1>1, <1>2, <1>3 DEF Types, EdgeTypes
  <2>3. IndexTypes'
    BY <1>1, <1>2, <1>3 DEF Types, IndexTypes
  <2>4. RowTypes'
    BY <1>1, <1>2, <1>3 DEF Types, RowTypes
  <2>5. RunTypes'
    BY <1>1, <1>3 DEF Types, RunTypes
  <2> QED
    BY <2>1, <2>2, <2>3, <2>4, <2>5 DEF Types
<1>5. Marked'
  BY <1>1 DEF EncodingInv, Marked
<1>6. Pending'
  <2>1. (ParentPending /\ CompressPending /\ IndexPending)'
    BY <1>1 DEF EncodingInv, Pending, ParentPending, CompressPending, IndexPending
  <2>2. ASSUME NEW f \in Names PROVE (CongruencePending(f) /\ RebuildPending(f) /\ DeletePending(f))'
    BY <1>1 DEF EncodingInv, Pending, CongruencePending, Linked, Respects, RebuildPending, Stale, DeletePending
  <2> QED
    BY <2>1, <2>2 DEF Pending
<1>7. Sound' /\ Least'
  <2>1. ViewRows' = ViewRows
    BY <1>1 DEF ViewRows
  <2> QED
    BY <1>1, <2>1 DEF EncodingInv, Sound, Least
<1>8. (Rooted /\ LowEdges)' /\ (ParentDone => ParentDone') /\ (Exact => Exact')
  BY <1>1, <1>2 DEF EncodingInv, Forest, Rooted, LowEdges, ParentDone, Exact
<1> QED
  BY <1>2, <1>3, <1>4, <1>5, <1>6, <1>7, <1>8

\* The next command begins.
LEMMA BeginStep == EncodingInv /\ Begin => EncodingInv'
<1> SUFFICES ASSUME EncodingInv, Begin PROVE EncodingInv'
  OBVIOUS
<1>1. /\ at = "idle" /\ ts' = ts + 1 /\ at' = "actions" /\ rebuilt' = FALSE
      /\ UNCHANGED <<db, lastRun, watermark, classes, todo, updated, outer>>
  BY DEF Begin
<1>2. updated \in BOOLEAN /\ outer \in BOOLEAN
  BY DEF EncodingInv, Types, RunTypes
<1>3. /\ Types' /\ Marked' /\ Pending' /\ Sound' /\ Least'
      /\ Known' = Known /\ (Rooted /\ LowEdges)'
  BY <1>1, <1>2, TablesKept
<1>4. /\ at' \notin DOMAIN Rulesets /\ at' \notin Alone /\ at \notin Alone
      /\ at' \notin {"single_parent", "path_compress", "uf_function_index", "rebuilding", "delete_subsume"}
      /\ at \notin {"single_parent", "path_compress", "uf_function_index", "rebuilding", "delete_subsume"}
  BY <1>1, RulesetFacts DEF Alone
<1>5. (DOMAIN Rulesets)' = DOMAIN Rulesets /\ (\A s : Rulesets[s]' = Rulesets[s])
  OBVIOUS
<1>6. TodoInv'
  BY <1>1, <1>4 DEF EncodingInv, TodoInv
<1>7. Older' /\ Quiet' /\ Rebuilt'
  BY <1>1, <1>4 DEF Older, Quiet, Rebuilt
<1>8. UNCHANGED <<uf, ufi>>
  BY <1>1 DEF db
<1>9. Indexed'
  BY <1>3, <1>4, <1>8 DEF EncodingInv, Indexed
<1>10. Forest'
  BY <1>3, <1>4, <1>8 DEF EncodingInv, Forest, Descending, Entries, Leads
<1> QED
  BY <1>3, <1>6, <1>7, <1>9, <1>10 DEF EncodingInv

\* An action fails, and the command ends without a rebuild.
LEMMA FailStep == EncodingInv /\ Fail => EncodingInv'
<1> SUFFICES ASSUME EncodingInv, Fail PROVE EncodingInv'
  OBVIOUS
<1>1. /\ at = "actions" /\ at' = "idle"
      /\ UNCHANGED <<db, lastRun, watermark, classes, todo, updated, outer, ts, rebuilt>>
  BY DEF Fail, runner
<1>2. updated \in BOOLEAN /\ outer \in BOOLEAN /\ rebuilt \in BOOLEAN /\ ~rebuilt
  BY <1>1 DEF EncodingInv, Types, RunTypes, TodoInv
<1>3. /\ Types' /\ Marked' /\ Pending' /\ Sound' /\ Least'
      /\ Known' = Known /\ (Rooted /\ LowEdges)'
  BY <1>1, <1>2, TablesKept
<1>4. /\ at' \notin DOMAIN Rulesets /\ at' \notin Alone /\ at \notin Alone
      /\ at' \notin {"single_parent", "path_compress", "uf_function_index", "rebuilding", "delete_subsume"}
      /\ at \notin {"single_parent", "path_compress", "uf_function_index", "rebuilding", "delete_subsume"}
  BY <1>1, RulesetFacts DEF Alone
<1>6. TodoInv'
  BY <1>1, <1>4 DEF EncodingInv, TodoInv
<1>7. Older' /\ Quiet' /\ Rebuilt'
  BY <1>1, <1>2, <1>4 DEF Older, Quiet, Rebuilt
<1>8. UNCHANGED <<uf, ufi>>
  BY <1>1 DEF db
<1>9. Indexed'
  BY <1>3, <1>4, <1>8 DEF EncodingInv, Indexed
<1>10. Forest'
  BY <1>3, <1>4, <1>8 DEF EncodingInv, Forest, Descending, Entries, Leads
<1> QED
  BY <1>3, <1>6, <1>7, <1>9, <1>10 DEF EncodingInv

\* The actions of the command are done: the rebuild begins.
LEMMA EndActionsStep == EncodingInv /\ EndActions => EncodingInv'
<1> SUFFICES ASSUME EncodingInv, EndActions PROVE EncodingInv'
  OBVIOUS
<1>1. outer \in BOOLEAN
  BY DEF EncodingInv, Types, RunTypes
<1>2. /\ at = "actions" /\ at' = "single_parent" /\ todo' = <<ParentRule>> /\ ts' = ts + 1
      /\ updated' = FALSE /\ outer' \in BOOLEAN /\ rebuilt' = FALSE
      /\ UNCHANGED <<db, lastRun, watermark, classes>>
  BY RulesetFacts DEF EndActions, Continue, After
<1>3. /\ Types' /\ Marked' /\ Pending' /\ Sound' /\ Least'
      /\ Known' = Known /\ (Rooted /\ LowEdges)'
  BY <1>2, TablesKept
<1>4. /\ at' \in DOMAIN Rulesets /\ at' \in Alone /\ at \notin Alone
      /\ at' \notin {"path_compress", "uf_function_index", "rebuilding", "delete_subsume", "idle", "actions"}
      /\ at \notin {"single_parent", "path_compress", "uf_function_index", "rebuilding", "delete_subsume"}
  BY <1>2, RulesetFacts DEF Alone
<1>5. Range(<<ParentRule>>) = {ParentRule} /\ <<ParentRule>> \in Seq({ParentRule})
  BY DEF Range
<1>6. TodoInv'
  BY <1>2, <1>4, <1>5, RulesetFacts DEF TodoInv
<1>7. UNCHANGED <<uf, ufi, view, todel>>
  BY <1>2 DEF db
<1>8. Older'
  BY <1>2, <1>4, <1>7 DEF EncodingInv, Types, Numbers, EdgeTypes, IndexTypes, RowTypes, Older
<1>9. Quiet' /\ Rebuilt'
  BY <1>4 DEF Quiet, Rebuilt
<1>10. Indexed'
  BY <1>3, <1>4, <1>7 DEF EncodingInv, Indexed
<1>11. Forest'
  BY <1>3, <1>4, <1>7 DEF EncodingInv, Forest, Descending, Entries, Leads
<1> QED
  BY <1>3, <1>6, <1>8, <1>9, <1>10, <1>11 DEF EncodingInv

-----------------------------------------------------------------------------
(* A rule runs: the schedule. *)

\* The rule that runs is one of the ruleset's.
LEMMA RunningFacts ==
  ASSUME EncodingInv, NEW kind, Running(kind)
  PROVE  /\ at \in DOMAIN Rulesets /\ todo # <<>> /\ todo \in Seq(Range(Rulesets[at]))
         /\ Head(todo) \in Range(Rulesets[at]) /\ Head(todo) \in Rules
         /\ Since \in Nat /\ Since <= ts /\ ts \in Nat /\ 1 <= ts
         /\ kind = "singleparent" => at = "single_parent" /\ Head(todo) = ParentRule
         /\ kind = "uf_update" => at = "path_compress" /\ Head(todo) = CompressRule
         /\ kind = "uf_function_index" => at = "uf_function_index" /\ Head(todo) = IndexRule
         /\ kind = "congruence_rule" => at = "rebuilding" /\ Fn \in Names /\ Head(todo) = CongruenceOf(Fn)
         /\ kind = "rebuild_rule" => at = "rebuilding" /\ Fn \in Names /\ Head(todo) = RebuildOf(Fn)
         /\ kind = "delete_rule" => at = "delete_subsume" /\ Fn \in Names /\ Head(todo) = DeleteOf(Fn)
<1>1. at \in DOMAIN Rulesets /\ todo # <<>> /\ Head(todo)[1] = kind
  BY DEF EncodingInv, TodoInv, Running
<1>2. todo \in Seq(Range(Rulesets[at]))
  BY <1>1 DEF EncodingInv, TodoInv
<1>3. PICK r : r = Head(todo)
  OBVIOUS
<1>4. r \in Range(Rulesets[at])
  BY <1>1, <1>2, <1>3
<1>5. r \in Rules
  BY <1>1, <1>4, RuleFacts
<1>6. lastRun[r] \in Nat /\ lastRun[r] <= ts /\ ts \in Nat /\ 1 <= ts
  BY <1>5 DEF EncodingInv, Types, Numbers, RunTypes
<1>7. \/ at = "single_parent" /\ r = ParentRule
      \/ at = "path_compress" /\ r = CompressRule
      \/ at = "uf_function_index" /\ r = IndexRule
      \/ at = "rebuilding" /\ \E f \in Names : r = CongruenceOf(f) \/ r = RebuildOf(f)
      \/ at = "delete_subsume" /\ \E f \in Names : r = DeleteOf(f)
  <2>1. \A x : Range(<<x>>) = {x}
    BY DEF Range
  <2>2. CASE at = "rebuilding"
    <3>1. r \in Range(Rebuilders)
      BY <1>4, <2>2, RulesetFacts
    <3> QED
      BY <2>2, <3>1, CtorRules
  <2>3. CASE at = "delete_subsume"
    <3>1. r \in Range(Deleters)
      BY <1>4, <2>3, RulesetFacts
    <3> QED
      BY <2>3, <3>1, CtorRules
  <2>4. CASE at \in {"single_parent", "path_compress", "uf_function_index"}
    BY <1>4, <2>1, <2>4, RulesetFacts
  <2> QED
    BY <1>1, <2>2, <2>3, <2>4, RulesetFacts
<1>8. /\ r[1] = kind /\ Fn = r[2] /\ Since = lastRun[r]
  BY <1>1, <1>3 DEF Fn, Since
<1>9. /\ ParentRule[1] = "singleparent" /\ CompressRule[1] = "uf_update" /\ IndexRule[1] = "uf_function_index"
      /\ \A f : /\ CongruenceOf(f)[1] = "congruence_rule" /\ CongruenceOf(f)[2] = f
                /\ RebuildOf(f)[1] = "rebuild_rule" /\ RebuildOf(f)[2] = f
                /\ DeleteOf(f)[1] = "delete_rule" /\ DeleteOf(f)[2] = f
  BY DEF ParentRule, CompressRule, IndexRule, CongruenceOf, RebuildOf, DeleteOf, Rule
<1>10. /\ kind = "singleparent" => at = "single_parent" /\ r = ParentRule
       /\ kind = "uf_update" => at = "path_compress" /\ r = CompressRule
       /\ kind = "uf_function_index" => at = "uf_function_index" /\ r = IndexRule
       /\ kind = "congruence_rule" => at = "rebuilding" /\ Fn \in Names /\ r = CongruenceOf(Fn)
       /\ kind = "rebuild_rule" => at = "rebuilding" /\ Fn \in Names /\ r = RebuildOf(Fn)
       /\ kind = "delete_rule" => at = "delete_subsume" /\ Fn \in Names /\ r = DeleteOf(Fn)
  <2>1. CASE at = "single_parent" /\ r = ParentRule
    BY <1>8, <1>9, <2>1
  <2>2. CASE at = "path_compress" /\ r = CompressRule
    BY <1>8, <1>9, <2>2
  <2>3. CASE at = "uf_function_index" /\ r = IndexRule
    BY <1>8, <1>9, <2>3
  <2>4. ASSUME at = "rebuilding", NEW f \in Names, r = CongruenceOf(f) \/ r = RebuildOf(f)
        PROVE  /\ r[2] \in Names
               /\ \/ r[1] = "congruence_rule" /\ r = CongruenceOf(r[2])
                  \/ r[1] = "rebuild_rule" /\ r = RebuildOf(r[2])
    <3>1. CASE r = CongruenceOf(f)
      <4>1. r[1] = "congruence_rule" /\ r[2] = f
        BY <1>9, <3>1
      <4> QED
        BY <3>1, <4>1
    <3>2. CASE r = RebuildOf(f)
      <4>1. r[1] = "rebuild_rule" /\ r[2] = f
        BY <1>9, <3>2
      <4> QED
        BY <3>2, <4>1
    <3> QED
      BY <2>4, <3>1, <3>2
  <2>5. ASSUME at = "delete_subsume", NEW f \in Names, r = DeleteOf(f)
        PROVE  r[1] = "delete_rule" /\ r = DeleteOf(r[2]) /\ r[2] \in Names
    BY <1>9, <2>5
  <2> QED
    BY <1>7, <1>8, <2>1, <2>2, <2>3, <2>4, <2>5
<1> QED
  BY <1>1, <1>2, <1>3, <1>4, <1>5, <1>6, <1>8, <1>10

\* The iteration goes on with the next rule of the ruleset.
Staying(tables) ==
  /\ at \in {"rebuilding", "delete_subsume"} /\ at' = at /\ ts' = ts /\ rebuilt' = rebuilt
  /\ updated' = (updated \/ tables # {}) /\ outer' = outer

\* It was the last: the next iteration begins, or the command ends.
Moving(tables) ==
  /\ \A r \in Range(Rulesets[at]) : lastRun'[r] = ts
  /\ at' = After(updated \/ tables # {}, outer \/ updated \/ tables # {})
  /\ ts' = IF at' = "idle" THEN ts ELSE ts + 1
  /\ updated' = FALSE
  /\ outer' = ((outer \/ updated \/ tables # {}) /\ at # "rebuilding" /\ at' # "idle")
  /\ rebuilt' = (at' = "idle")

\* What the end of a rule does to the runner and the schedule (Ran).
LEMMA RanFacts ==
  ASSUME EncodingInv, NEW kind, Running(kind), NEW tables \in SUBSET Tables, Ran(tables)
  PROVE  /\ ts' \in Nat /\ ts <= ts' /\ classes' = classes
         /\ lastRun'[Head(todo)] = ts
         /\ \A r \in Rules : /\ r # Head(todo) => lastRun'[r] = lastRun[r]
                             /\ lastRun'[r] \in Nat /\ lastRun'[r] <= ts
         /\ \A t \in Tables : watermark'[t] = IF t \in tables THEN ts ELSE watermark[t]
         /\ RunTypes' /\ TodoInv'
         /\ Staying(tables) \/ Moving(tables)
         /\ at \in Alone => Moving(tables)
<1>1. /\ at \in DOMAIN Rulesets /\ todo # <<>> /\ todo \in Seq(Range(Rulesets[at]))
      /\ Head(todo) \in Range(Rulesets[at]) /\ Head(todo) \in Rules /\ ts \in Nat
  BY RunningFacts
<1>2. /\ lastRun \in [Rules -> Nat] /\ \A r \in Rules : lastRun[r] <= ts
      /\ watermark \in [Tables -> Nat] /\ updated \in BOOLEAN /\ outer \in BOOLEAN /\ rebuilt \in BOOLEAN
  BY DEF EncodingInv, Types, RunTypes
<1>3. PICK h : h = Head(todo)
  OBVIOUS
<1>4. lastRun' = [lastRun EXCEPT ![h] = ts] /\ classes' = classes
  BY <1>3 DEF Ran
<1>5. h \in Rules
  BY <1>1, <1>3
<1>6. /\ lastRun'[h] = ts
      /\ \A r \in Rules : /\ r # h => lastRun'[r] = lastRun[r]
                          /\ lastRun'[r] \in Nat /\ lastRun'[r] <= ts
      /\ lastRun' \in [Rules -> Nat]
  BY <1>1, <1>2, <1>4, <1>5
<1>7. /\ watermark' \in [Tables -> Nat]
      /\ \A t \in Tables : watermark'[t] = IF t \in tables THEN ts ELSE watermark[t]
  <2>1. watermark' = [t \in Tables |-> IF t \in tables THEN ts ELSE watermark[t]]
    BY DEF Ran, Written
  <2> QED
    BY <1>1, <1>2, <2>1
<1> DEFINE S == Range(Rulesets[at])
<1>8. /\ \A r \in S : r \in Range(todo) \/ lastRun[r] = ts
      /\ at \in Alone => todo = Rulesets[at] /\ ~updated
      /\ \A r \in S : r \in Rules
  BY <1>1, RuleFacts DEF EncodingInv, TodoInv
<1>9. \A s : at \in Alone => Len(todo) = 1
  <2>1. at \in Alone => \E x : todo = <<x>>
    BY <1>8, RulesetFacts DEF Alone
  <2> QED
    BY <2>1
<1>10. CASE Len(todo) # 1
  <2>1. /\ todo' = Tail(todo) /\ updated' = (updated \/ tables # {}) /\ ts' = ts /\ at' = at
        /\ outer' = outer /\ rebuilt' = rebuilt
    BY <1>10 DEF Ran
  <2>2. at \notin Alone /\ at \in {"rebuilding", "delete_subsume"}
    BY <1>1, <1>9, <1>10, RulesetFacts DEF Alone
  <2>3. Staying(tables)
    BY <2>1, <2>2 DEF Staying
  <2>4. RunTypes'
    BY <1>2, <1>6, <1>7, <2>1 DEF RunTypes
  <2>5. TodoInv'
    <3> HIDE DEF S
    <3>1. Tail(todo) \in Seq(S)
      BY <1>1 DEF S
    <3>2. \A r \in Range(todo) : r = h \/ r \in Range(Tail(todo))
      <4> SUFFICES ASSUME NEW k \in DOMAIN todo PROVE todo[k] = h \/ todo[k] \in Range(Tail(todo))
        BY DEF Range
      <4>1. Len(todo) \in Nat /\ DOMAIN todo = 1..Len(todo) /\ Len(Tail(todo)) = Len(todo) - 1
        BY <1>1
      <4>2. CASE k = 1
        BY <1>1, <1>3, <4>2
      <4>3. CASE k # 1
        <5>1. k - 1 \in 1..Len(Tail(todo)) /\ Tail(todo)[k - 1] = todo[k]
          BY <1>1, <4>1, <4>3
        <5>2. k - 1 \in DOMAIN Tail(todo)
          BY <3>1, <5>1
        <5> QED
          BY <5>1, <5>2 DEF Range
      <4> QED
        BY <4>2, <4>3
    <3>3. \A r \in S : r \in Range(todo') \/ lastRun'[r] = ts
      BY <1>6, <1>8, <2>1, <3>2
    <3>4. at' \in DOMAIN Rulesets /\ at' \notin Alone /\ at' \notin {"idle", "actions"}
      BY <1>1, <2>1, <2>2
    <3> QED
      BY <2>1, <3>1, <3>3, <3>4 DEF TodoInv, S
  <2> QED
    BY <1>1, <1>3, <1>4, <1>6, <1>7, <2>1, <2>2, <2>3, <2>4, <2>5
<1>11. CASE Len(todo) = 1
  <2> DEFINE changed == updated \/ tables # {}
             s == After(changed, outer \/ changed)
  <2>1. /\ at' = s /\ todo' = (IF s = "idle" THEN <<>> ELSE Rulesets[s])
        /\ ts' = (IF s = "idle" THEN ts ELSE ts + 1) /\ updated' = FALSE
        /\ outer' = ((outer \/ changed) /\ at # "rebuilding" /\ s # "idle")
        /\ rebuilt' = (s = "idle")
    BY <1>11, Zenon DEF Ran, Continue
  <2>2. s \in DOMAIN Rulesets \cup {"idle"} /\ s # "actions"
    BY <1>1, RulesetFacts DEF After
  <2>3. \A r \in S : lastRun'[r] = ts
    <3>1. \A r \in Range(todo) : r = h
      BY <1>1, <1>3, <1>11 DEF Range
    <3> QED
      BY <1>6, <1>8, <3>1
  <2> HIDE DEF s
  <2>4. Moving(tables)
    <3>1. s = After(updated \/ tables # {}, outer \/ updated \/ tables # {})
      BY DEF s
    <3> QED
      BY <2>1, <2>3, <3>1, Zenon DEF Moving
  <2>5. RunTypes'
    <3>1. updated' \in BOOLEAN /\ outer' \in BOOLEAN /\ rebuilt' \in BOOLEAN
      BY <2>1
    <3>2. ts' \in Nat /\ ts <= ts'
      BY <1>1, <2>1
    <3> QED
      BY <1>1, <1>6, <1>7, <3>1, <3>2 DEF RunTypes
  <2>6. TodoInv'
    <3>1. ASSUME s \in DOMAIN Rulesets PROVE Rulesets[s] \in Seq(Range(Rulesets[s]))
      <4>1. \A x : <<x>> \in Seq(Range(<<x>>))
        BY DEF Range
      <4> QED
        BY <3>1, <4>1, RulesetFacts, CtorRules
    <3>2. CASE s = "idle"
      BY <2>1, <3>2, RulesetFacts DEF TodoInv, Alone
    <3>3. CASE s # "idle"
      <4>1. at' \in DOMAIN Rulesets /\ at' \notin {"idle", "actions"} /\ todo' = Rulesets[at'] /\ ~updated'
        BY <2>1, <2>2, <3>3, RulesetFacts
      <4>2. todo' \in Seq(Range(Rulesets[at']))
        BY <2>1, <2>2, <3>1, <3>3
      <4> QED
        BY <4>1, <4>2 DEF TodoInv
    <3> QED
      BY <3>2, <3>3
  <2> QED
    BY <1>1, <1>3, <1>4, <1>6, <1>7, <2>1, <2>4, <2>5, <2>6
<1> QED
  BY <1>10, <1>11

-----------------------------------------------------------------------------
(* What every step keeps: rows are stamped with the iteration that writes them. *)

EdgesStamped == \A e \in DOMAIN uf' : uf'[e] = ts \/ (e \in DOMAIN uf /\ uf'[e] = uf[e])
IndexStamped ==
  /\ \A i \in DOMAIN ufi' : ufi'[i].ts = ts \/ (i \in DOMAIN ufi /\ ufi'[i] = ufi[i])
  /\ \A i \in DOMAIN ufi : i \in DOMAIN ufi' /\ ufi'[i].out <= ufi[i].out
RowsStamped ==
  \A f \in Names :
    /\ \A r \in DOMAIN view'[f] : view'[f][r] = ts \/ (r \in DOMAIN view[f] /\ view'[f][r] = view[f][r])
    /\ \A a \in DOMAIN todel'[f] : todel'[f][a] = ts \/ (a \in DOMAIN todel[f] /\ todel'[f][a] = todel[f][a])
    /\ \A r \in DOMAIN view'[f] : r \in Stale(f)' => r \in DOMAIN view[f]
Stamped == EdgesStamped /\ IndexStamped /\ RowsStamped

\* No equality that edges stand for is lost.
LinksKept == \A l \in [Ids -> Ids] : Respects(l)' => Respects(l)

\* Ids are numbers, and so are the stamps.
LEMMA TypeFacts ==
  ASSUME EncodingInv
  PROVE  /\ seq \in Nat /\ ts \in Nat /\ 1 <= ts /\ Leaves \subseteq Known
         /\ \A i : i \in Known <=> i \in Nat /\ 1 <= i /\ i < seq
         /\ \A i \in Known : i \in Nat /\ i \in Ids
         /\ \A e \in DOMAIN uf : /\ e \in Known \X Known /\ e[1] \in Known /\ e[2] \in Known
                                 /\ uf[e] \in Nat /\ uf[e] <= ts
         /\ \A i \in DOMAIN ufi : /\ i \in Known /\ ufi[i].out \in Known /\ ufi[i].out \in Nat /\ ufi[i].out <= i
                                  /\ ufi[i].ts \in Nat /\ ufi[i].ts <= ts
         /\ \A f \in Names :
              /\ \A r \in DOMAIN view[f] : /\ r \in RowsOf(f, Known) /\ r \in RowsOf(f, Ids)
                                           /\ view[f][r] \in Nat /\ view[f][r] <= ts
              /\ \A a \in DOMAIN todel[f] : a \in ArgsOf(f, Known) /\ todel[f][a] \in Nat /\ todel[f][a] <= ts
         /\ \A r \in Rules : lastRun[r] \in Nat /\ lastRun[r] <= ts
         /\ \A t \in Tables : watermark[t] \in Nat
         /\ classes \in [Ids -> Ids]
<1>1. /\ seq \in Nat /\ seq <= MaxId + 1 /\ ts \in Nat /\ 1 <= ts /\ Leaves \subseteq Known /\ MaxId \in Nat
  BY IdsAreNumbers DEF EncodingInv, Types, Numbers
<1>2. \A i : i \in Known <=> i \in Nat /\ 1 <= i /\ i < seq
  BY <1>1 DEF Known
<1>3. \A i \in Known : i \in Nat /\ i \in Ids
  BY <1>1, <1>2, IdsAreNumbers
<1>4. \A e \in DOMAIN uf : /\ e \in Known \X Known /\ e[1] \in Known /\ e[2] \in Known
                           /\ uf[e] \in Nat /\ uf[e] <= ts
  <2> HIDE DEF Known
  <2> QED
    BY <1>1 DEF EncodingInv, Types, EdgeTypes
<1>5. \A i \in DOMAIN ufi : /\ i \in Known /\ ufi[i].out \in Known /\ ufi[i].out \in Nat /\ ufi[i].out <= i
                            /\ ufi[i].ts \in Nat /\ ufi[i].ts <= ts
  BY <1>1, <1>2 DEF EncodingInv, Types, IndexTypes
<1>6. ASSUME NEW f \in Names
      PROVE  /\ \A r \in DOMAIN view[f] : /\ r \in RowsOf(f, Known) /\ r \in RowsOf(f, Ids)
                                          /\ view[f][r] \in Nat /\ view[f][r] <= ts
             /\ \A a \in DOMAIN todel[f] : a \in ArgsOf(f, Known) /\ todel[f][a] \in Nat /\ todel[f][a] <= ts
  <2>1. \A r : r \in RowsOf(f, Known) => r \in RowsOf(f, Ids)
    BY <1>3 DEF RowsOf
  <2>2. /\ \A r \in DOMAIN view[f] : r \in RowsOf(f, Known) /\ view[f][r] \in 1..ts
        /\ \A a \in DOMAIN todel[f] : a \in ArgsOf(f, Known) /\ todel[f][a] \in 1..ts
    BY DEF EncodingInv, Types, RowTypes
  <2> QED
    BY <1>1, <2>1, <2>2
<1>7. /\ \A r \in Rules : lastRun[r] \in Nat /\ lastRun[r] <= ts
      /\ \A t \in Tables : watermark[t] \in Nat
      /\ classes \in [Ids -> Ids]
  BY DEF EncodingInv, Types, RunTypes, ClassTypes
<1> QED
  BY <1>1, <1>2, <1>3, <1>4, <1>5, <1>6, <1>7

\* The stamps of the next state.
LEMMA StampBounds ==
  ASSUME EncodingInv, Stamped
  PROVE  /\ \A e \in DOMAIN uf' : uf'[e] \in Nat /\ 1 <= uf'[e] /\ uf'[e] <= ts
         /\ \A i \in DOMAIN ufi' : ufi'[i].ts \in Nat /\ 1 <= ufi'[i].ts /\ ufi'[i].ts <= ts
         /\ \A f \in Names :
              /\ \A r \in DOMAIN view'[f] : view'[f][r] \in Nat /\ 1 <= view'[f][r] /\ view'[f][r] <= ts
              /\ \A a \in DOMAIN todel'[f] : todel'[f][a] \in Nat /\ 1 <= todel'[f][a] /\ todel'[f][a] <= ts
<1>1. ts \in Nat /\ 1 <= ts
  BY TypeFacts
<1>2. /\ \A e \in DOMAIN uf : uf[e] \in 1..ts
      /\ \A i \in DOMAIN ufi : ufi[i].ts \in 1..ts
      /\ \A f \in Names : /\ \A r \in DOMAIN view[f] : view[f][r] \in 1..ts
                          /\ \A a \in DOMAIN todel[f] : todel[f][a] \in 1..ts
  BY DEF EncodingInv, Types, EdgeTypes, IndexTypes, RowTypes
<1>3. \A n : n \in 1..ts \/ n = ts => n \in Nat /\ 1 <= n /\ n <= ts
  BY <1>1
<1>4. \A e \in DOMAIN uf' : uf'[e] \in 1..ts \/ uf'[e] = ts
  BY <1>2 DEF Stamped, EdgesStamped
<1>5. \A i \in DOMAIN ufi' : ufi'[i].ts \in 1..ts \/ ufi'[i].ts = ts
  BY <1>2 DEF Stamped, IndexStamped
<1>6. ASSUME NEW f \in Names
      PROVE  /\ \A r \in DOMAIN view'[f] : view'[f][r] \in 1..ts \/ view'[f][r] = ts
             /\ \A a \in DOMAIN todel'[f] : todel'[f][a] \in 1..ts \/ todel'[f][a] = ts
  BY <1>2 DEF Stamped, RowsStamped
<1> QED
  BY <1>3, <1>4, <1>5, <1>6

\* Types hold after a step that writes rows of known ids.
LEMMA TypesKept ==
  ASSUME EncodingInv, Stamped, ts' \in Nat, ts <= ts',
         Numbers', RunTypes', ClassTypes',
         uf' \in [DOMAIN uf' -> Nat], \A e \in DOMAIN uf' : e \in Known' \X Known',
         \A i \in DOMAIN ufi' : i \in Known' /\ ufi'[i].out \in 1..i,
         DOMAIN term' = Names /\ DOMAIN view' = Names /\ DOMAIN todel' = Names,
         \A f \in Names : /\ \A r \in DOMAIN term'[f] : r \in RowsOf(f, Known')
                          /\ \A r \in DOMAIN view'[f] : r \in RowsOf(f, Known')
                          /\ \A a \in DOMAIN todel'[f] : a \in ArgsOf(f, Known')
  PROVE  Types'
<1>0. ts \in Nat
  BY TypeFacts
<1>1. \A n \in Nat : 1 <= n /\ n <= ts => n \in 1..ts'
  BY <1>0
<1>2. EdgeTypes'
  BY <1>1, StampBounds DEF EdgeTypes
<1>3. IndexTypes'
  BY <1>1, StampBounds DEF IndexTypes
<1>4. RowTypes'
  <2>1. \A f \in Names : /\ \A r \in DOMAIN view'[f] : view'[f][r] \in 1..ts'
                         /\ \A a \in DOMAIN todel'[f] : todel'[f][a] \in 1..ts'
    BY <1>1, StampBounds
  <2> QED
    BY <2>1 DEF RowTypes
<1> QED
  BY <1>2, <1>3, <1>4 DEF Types

\* What is known of a table's last change is kept up to date.
LEMMA MarkedKept ==
  ASSUME EncodingInv, Stamped, NEW tables,
         \A t \in Tables : watermark'[t] = IF t \in tables THEN ts ELSE watermark[t],
         UFTable \notin tables => \A e \in DOMAIN uf' : e \in DOMAIN uf /\ uf'[e] = uf[e],
         UFfTable \notin tables => \A i \in DOMAIN ufi' : i \in DOMAIN ufi /\ ufi'[i] = ufi[i],
         \A f \in Names : View(f) \notin tables =>
            \A r \in DOMAIN view'[f] : r \in DOMAIN view[f] /\ view'[f][r] = view[f][r],
         \A f \in Names : ToDelete(f) \notin tables =>
            \A a \in DOMAIN todel'[f] : a \in DOMAIN todel[f] /\ todel'[f][a] = todel[f][a]
  PROVE  Marked'
<1>1. \A e \in DOMAIN uf' : uf'[e] <= watermark'[UFTable]
  BY StampBounds, TableFacts DEF EncodingInv, Marked
<1>2. \A i \in DOMAIN ufi' : ufi'[i].ts <= watermark'[UFfTable]
  BY StampBounds, TableFacts DEF EncodingInv, Marked
<1>3. ASSUME NEW f \in Names
      PROVE  /\ \A r \in DOMAIN view'[f] : view'[f][r] <= watermark'[View(f)]
             /\ \A a \in DOMAIN todel'[f] : todel'[f][a] <= watermark'[ToDelete(f)]
  <2>1. View(f) \in Tables /\ ToDelete(f) \in Tables
    BY TableFacts
  <2>2. /\ \A r \in DOMAIN view[f] : view[f][r] <= watermark[View(f)]
        /\ \A a \in DOMAIN todel[f] : todel[f][a] <= watermark[ToDelete(f)]
    BY DEF EncodingInv, Marked
  <2> QED
    BY <2>1, <2>2, StampBounds
<1> QED
  BY <1>1, <1>2, <1>3 DEF Marked

\* A rule that has not run in the step has no less to find.
LEMMA PendingKept ==
  ASSUME EncodingInv, Stamped, LinksKept, IndexTypes', \A r \in Rules : lastRun'[r] \in Nat /\ lastRun'[r] <= ts
  PROVE  /\ lastRun'[ParentRule] = lastRun[ParentRule] => ParentPending'
         /\ lastRun'[CompressRule] = lastRun[CompressRule] => CompressPending'
         /\ lastRun'[IndexRule] = lastRun[IndexRule] => IndexPending'
         /\ \A f \in Names : /\ lastRun'[CongruenceOf(f)] = lastRun[CongruenceOf(f)] => CongruencePending(f)'
                             /\ lastRun'[RebuildOf(f)] = lastRun[RebuildOf(f)] => RebuildPending(f)'
                             /\ lastRun'[DeleteOf(f)] = lastRun[DeleteOf(f)] => DeletePending(f)'
<1>1. \A e \in DOMAIN uf' : uf'[e] = ts \/ (e \in DOMAIN uf /\ uf'[e] = uf[e])
  BY DEF Stamped, EdgesStamped
<1>2. /\ \A i \in DOMAIN ufi' : ufi'[i].ts = ts \/ (i \in DOMAIN ufi /\ ufi'[i] = ufi[i])
      /\ \A i \in DOMAIN ufi : i \in DOMAIN ufi' /\ ufi'[i].out <= ufi[i].out
  BY DEF Stamped, IndexStamped
<1>3. /\ lastRun'[ParentRule] <= ts /\ lastRun'[CompressRule] <= ts /\ lastRun'[IndexRule] <= ts
      /\ \A f \in Names : /\ lastRun'[CongruenceOf(f)] <= ts /\ lastRun'[RebuildOf(f)] <= ts
                          /\ lastRun'[DeleteOf(f)] <= ts
  BY RuleFacts
<1>3a. /\ lastRun'[ParentRule] \in Nat /\ lastRun'[CompressRule] \in Nat /\ lastRun'[IndexRule] \in Nat
       /\ ts \in Nat
       /\ \A f \in Names : /\ lastRun'[CongruenceOf(f)] \in Nat /\ lastRun'[RebuildOf(f)] \in Nat
                           /\ lastRun'[DeleteOf(f)] \in Nat
  BY RuleFacts, TypeFacts
<1>4. ASSUME lastRun'[ParentRule] = lastRun[ParentRule] PROVE ParentPending'
  <2> SUFFICES ASSUME NEW e \in DOMAIN uf', e[1] \in DOMAIN ufi', ufi'[e[1]].out # e[2]
               PROVE  uf'[e] >= lastRun'[ParentRule] \/ ufi'[e[1]].ts >= lastRun'[ParentRule]
    BY DEF ParentPending
  <2>1. PICK i : i = e[1]
    OBVIOUS
  <2>2. CASE uf'[e] = ts \/ ufi'[i].ts = ts
    BY <1>3, <1>3a, <2>1, <2>2
  <2>3. CASE e \in DOMAIN uf /\ uf'[e] = uf[e] /\ i \in DOMAIN ufi /\ ufi'[i] = ufi[i]
    BY <1>4, <2>1, <2>3 DEF EncodingInv, Pending, ParentPending
  <2> QED
    BY <1>1, <1>2, <2>1, <2>2, <2>3
<1>5. ASSUME lastRun'[CompressRule] = lastRun[CompressRule] PROVE CompressPending'
  BY <1>1, <1>3, <1>3a, <1>5 DEF EncodingInv, Pending, CompressPending
<1>6. ASSUME lastRun'[IndexRule] = lastRun[IndexRule] PROVE IndexPending'
  <2> SUFFICES ASSUME NEW e \in DOMAIN uf'
               PROVE  uf'[e] >= lastRun'[IndexRule] \/ (e[1] \in DOMAIN ufi' /\ ufi'[e[1]].out <= e[2])
    BY DEF IndexPending
  <2>1. CASE uf'[e] = ts
    BY <1>3, <1>3a, <2>1
  <2>2. CASE e \in DOMAIN uf /\ uf'[e] = uf[e]
    <3>1. PICK i, j : i = e[1] /\ j = e[2] /\ j \in Nat
      BY <2>2, TypeFacts
    <3>2. uf[e] >= lastRun[IndexRule] \/ (i \in DOMAIN ufi /\ ufi[i].out <= j)
      BY <2>2, <3>1 DEF EncodingInv, Pending, IndexPending
    <3>3. ASSUME i \in DOMAIN ufi, ufi[i].out <= j PROVE i \in DOMAIN ufi' /\ ufi'[i].out <= j
      <4>1. i \in DOMAIN ufi' /\ ufi'[i].out <= ufi[i].out /\ ufi[i].out \in Nat /\ i \in Nat
        BY <1>2, <3>3, TypeFacts
      <4>2. ufi'[i].out \in Nat
        BY <4>1 DEF IndexTypes
      <4> QED
        BY <3>1, <3>3, <4>1, <4>2
    <3> QED
      BY <1>6, <2>2, <3>1, <3>2, <3>3
  <2> QED
    BY <1>1, <2>1, <2>2
<1>7. ASSUME NEW f \in Names
      PROVE  /\ \A r \in DOMAIN view'[f] : view'[f][r] = ts \/ (r \in DOMAIN view[f] /\ view'[f][r] = view[f][r])
             /\ \A a \in DOMAIN todel'[f] : todel'[f][a] = ts \/ (a \in DOMAIN todel[f] /\ todel'[f][a] = todel[f][a])
             /\ \A r \in DOMAIN view'[f] : r \in Stale(f)' => r \in DOMAIN view[f]
  BY DEF Stamped, RowsStamped
<1>8. ASSUME NEW f \in Names, lastRun'[CongruenceOf(f)] = lastRun[CongruenceOf(f)] PROVE CongruencePending(f)'
  <2> SUFFICES ASSUME NEW r \in DOMAIN view'[f], NEW q \in DOMAIN view'[f], Args(r) = Args(q)
               PROVE  \/ view'[f][r] >= lastRun'[CongruenceOf(f)] \/ view'[f][q] >= lastRun'[CongruenceOf(f)]
                      \/ Linked(Class(r), Class(q))'
    BY DEF CongruencePending
  <2>1. CASE view'[f][r] = ts \/ view'[f][q] = ts
    BY <1>3, <1>3a, <2>1
  <2>2. CASE /\ r \in DOMAIN view[f] /\ view'[f][r] = view[f][r]
             /\ q \in DOMAIN view[f] /\ view'[f][q] = view[f][q]
    <3>1. \/ view[f][r] >= lastRun[CongruenceOf(f)] \/ view[f][q] >= lastRun[CongruenceOf(f)]
          \/ Linked(Class(r), Class(q))
      BY <2>2 DEF EncodingInv, Pending, CongruencePending
    <3>2. Linked(Class(r), Class(q)) => Linked(Class(r), Class(q))'
      BY DEF Linked, LinksKept
    <3> QED
      BY <1>8, <2>2, <3>1, <3>2
  <2> QED
    BY <1>7, <2>1, <2>2
<1>9. ASSUME NEW f \in Names, lastRun'[RebuildOf(f)] = lastRun[RebuildOf(f)] PROVE RebuildPending(f)'
  <2> SUFFICES ASSUME NEW r \in Stale(f)' PROVE \E k \in DOMAIN r : ufi'[r[k]].ts >= lastRun'[RebuildOf(f)]
    BY DEF RebuildPending
  <2>1. /\ r \in DOMAIN view'[f] /\ \A k \in DOMAIN r : r[k] \in DOMAIN ufi'
        /\ \E k \in DOMAIN r : r[k] # ufi'[r[k]].out
    BY DEF Stale, Range
  <2>2. r \in DOMAIN view[f]
    BY <1>7, <2>1
  <2>3. CASE \E k \in DOMAIN r : ufi'[r[k]].ts = ts
    BY <1>3, <1>3a, <2>3
  <2>4. CASE \A k \in DOMAIN r : r[k] \in DOMAIN ufi /\ ufi'[r[k]] = ufi[r[k]]
    <3>1. r \in Stale(f)
      BY <2>1, <2>2, <2>4 DEF Stale, Range
    <3>2. PICK k \in DOMAIN r : ufi[r[k]].ts >= lastRun[RebuildOf(f)]
      BY <3>1 DEF EncodingInv, Pending, RebuildPending
    <3> QED
      BY <1>9, <2>4, <3>2
  <2> QED
    BY <1>2, <2>1, <2>3, <2>4
<1>10. ASSUME NEW f \in Names, lastRun'[DeleteOf(f)] = lastRun[DeleteOf(f)] PROVE DeletePending(f)'
  <2> SUFFICES ASSUME NEW r \in DOMAIN view'[f], Args(r) \in DOMAIN todel'[f]
               PROVE  view'[f][r] >= lastRun'[DeleteOf(f)] \/ todel'[f][Args(r)] >= lastRun'[DeleteOf(f)]
    BY DEF DeletePending
  <2>1. CASE view'[f][r] = ts \/ todel'[f][Args(r)] = ts
    BY <1>3, <1>3a, <2>1
  <2>2. CASE /\ r \in DOMAIN view[f] /\ view'[f][r] = view[f][r]
             /\ Args(r) \in DOMAIN todel[f] /\ todel'[f][Args(r)] = todel[f][Args(r)]
    BY <1>10, <2>2 DEF EncodingInv, Pending, DeletePending
  <2> QED
    BY <1>7, <2>1, <2>2
<1> QED
  BY <1>4, <1>5, <1>6, <1>8, <1>9, <1>10

\* A step that loses no link and adds none between the classes changes neither.
LEMMA ClassesKept ==
  ASSUME EncodingInv, UNCHANGED <<view, classes>>, LinksKept, Respects(classes)',
         \A i \in DOMAIN ufi' : classes[ufi'[i].out] = classes[i]
  PROVE  Sound' /\ Least'
<1>1. ViewRows' = ViewRows
  BY DEF ViewRows
<1>2. Sound'
  <2>1. IsCongruence(classes', DOMAIN uf', ViewRows')
    BY <1>1 DEF EncodingInv, Sound, IsCongruence, Respects
  <2> QED
    BY <1>1, <2>1 DEF EncodingInv, Sound
<1>3. Least'
  <2>1. ASSUME NEW k \in [Ids -> Ids], IsCongruence(k, DOMAIN uf', ViewRows')
        PROVE  IsCongruence(k, DOMAIN uf, ViewRows)
    <3>1. Respects(k)'
      BY <2>1 DEF IsCongruence, Respects
    <3>2. Respects(k)
      BY <3>1 DEF LinksKept
    <3> QED
      BY <1>1, <2>1, <3>2 DEF IsCongruence, Respects
  <2> QED
    BY <2>1 DEF EncodingInv, Least
<1> QED
  BY <1>2, <1>3

\* A ruleset of one rule runs again if it changed something, the next one otherwise.
LEMMA AloneNext ==
  ASSUME EncodingInv, at \in Alone, NEW tables, Moving(tables)
  PROVE  /\ tables # {} => at' = at
         /\ tables = {} /\ at = "single_parent" => at' = "path_compress"
         /\ tables = {} /\ at = "path_compress" => at' = "uf_function_index"
         /\ tables = {} /\ at = "uf_function_index" => at' = "rebuilding"
         /\ ts' = ts + 1 /\ updated' = FALSE
<1>1. updated = FALSE
  BY DEF EncodingInv, TodoInv, Types, RunTypes
<1>2. /\ at' = After(updated \/ tables # {}, outer \/ updated \/ tables # {})
      /\ ts' = (IF at' = "idle" THEN ts ELSE ts + 1) /\ updated' = FALSE
  BY DEF Moving
<1>3. /\ tables # {} => at' = at
      /\ tables = {} /\ at = "single_parent" => at' = "path_compress"
      /\ tables = {} /\ at = "path_compress" => at' = "uf_function_index"
      /\ tables = {} /\ at = "uf_function_index" => at' = "rebuilding"
  BY <1>1, <1>2 DEF After, Alone
<1>4. at' # "idle"
  BY <1>3 DEF Alone
<1> QED
  BY <1>2, <1>3, <1>4

\* At the start of an iteration all rows are older.
LEMMA OlderNext ==
  ASSUME EncodingInv, Stamped, ts' = (IF at' = "idle" THEN ts ELSE ts + 1)
  PROVE  Older'
<1>1. ts \in Nat /\ "idle" \notin DOMAIN Rulesets
  BY TypeFacts, RulesetFacts
<1>2. CASE at' \notin DOMAIN Rulesets
  BY <1>2, RulesetFacts DEF Older
<1>3. CASE at' \in DOMAIN Rulesets
  <2>1. ts' = ts + 1
    BY <1>1, <1>3
  <2>2. \A n \in Nat : n <= ts => n < ts'
    BY <1>1, <2>1
  <2>3. /\ \A e \in DOMAIN uf' : uf'[e] < ts'
        /\ \A i \in DOMAIN ufi' : ufi'[i].ts < ts'
        /\ \A f \in Names : /\ \A r \in DOMAIN view'[f] : view'[f][r] < ts'
                            /\ \A a \in DOMAIN todel'[f] : todel'[f][a] < ts'
    BY <2>2, StampBounds
  <2>4. \A f \in Names : \A r \in Stale(f)' : view'[f][r] < ts'
    <3> SUFFICES ASSUME NEW f \in Names, NEW r \in Stale(f)' PROVE view'[f][r] < ts'
      OBVIOUS
    <3>1. r \in DOMAIN view'[f]
      BY DEF Stale
    <3> QED
      BY <2>3, <3>1
  <2> QED
    BY <2>3, <2>4 DEF Older
<1> QED
  BY <1>2, <1>3

\* A rule of the union-find leaves the rest as it is.
LEMMA UnionFindTypes ==
  ASSUME EncodingInv, UNCHANGED <<term, view, todel, seq, classes>>, EdgesStamped, IndexStamped, RunTypes',
         ts' \in Nat, ts <= ts',
         uf' \in [DOMAIN uf' -> Nat], \A e \in DOMAIN uf' : e \in Known \X Known,
         \A i \in DOMAIN ufi' : i \in Known /\ ufi'[i].out \in 1..i
  PROVE  Types' /\ Stamped /\ Known' = Known
<1>1. RowsStamped
  BY DEF RowsStamped
<1>2. Stamped
  BY <1>1 DEF Stamped
<1>3. Known' = Known
  BY DEF Known
<1>4. Numbers' /\ ClassTypes'
  <2>1. 1 <= ts' /\ ts \in Nat
    BY TypeFacts
  <2> QED
    BY <1>3, <2>1 DEF EncodingInv, Types, Numbers, ClassTypes
<1>5. /\ DOMAIN term' = Names /\ DOMAIN view' = Names /\ DOMAIN todel' = Names
      /\ \A f \in Names : /\ \A r \in DOMAIN term'[f] : r \in RowsOf(f, Known')
                          /\ \A r \in DOMAIN view'[f] : r \in RowsOf(f, Known')
                          /\ \A a \in DOMAIN todel'[f] : a \in ArgsOf(f, Known')
  BY <1>3 DEF EncodingInv, Types, RowTypes
<1>6. Types'
  <2>1. \A e \in DOMAIN uf' : e \in Known' \X Known'
    BY <1>3
  <2>2. \A i \in DOMAIN ufi' : i \in Known' /\ ufi'[i].out \in 1..i
    BY <1>3
  <2> QED
    BY <1>2, <1>4, <1>5, <2>1, <2>2, TypesKept
<1> QED
  BY <1>2, <1>3, <1>6

\* Tables of timestamps stay that.
LEMMA StampedTable ==
  ASSUME NEW t, \A r \in DOMAIN t : t[r] \in Nat, NEW new, NEW now \in Nat
  PROVE  InsertIgnore(t, new, now) \in [DOMAIN InsertIgnore(t, new, now) -> Nat]
BY DEF InsertIgnore

\* u is the relation t after rows went and others came.
Replaced(t, old, new, now, u) ==
  /\ DOMAIN u = (DOMAIN t \ old) \cup new
  /\ \A r \in DOMAIN t \ old : u[r] = t[r]
  /\ \A r \in new : r \in DOMAIN t \ old \/ u[r] = now
  /\ u \in [DOMAIN u -> Nat]

\* Edges are deleted and others inserted, with the timestamp of the iteration.
LEMMA EdgesReplaced ==
  ASSUME NEW S, NEW t \in [S -> Nat], NEW old, NEW new, NEW now \in Nat, NEW u,
         u = InsertIgnore(DeleteRows(t, old), new, now)
  PROVE  Replaced(t, old, new, now, u)
BY DEF InsertIgnore, DeleteRows, Restrict, Replaced

-----------------------------------------------------------------------------
(* singleparent. *)

\* The edges that are not where the index leads.
Astray == {e \in DOMAIN uf : e[1] \in DOMAIN ufi /\ ufi[e[1]].out # e[2]}
\* Where they lead instead.
Turned == {<<e[2], ufi[e[1]].out>> : e \in Astray}

\* The rule finds them all.
LEMMA ParentMatches ==
  ASSUME EncodingInv, SingleParent
  PROVE  /\ uf' = InsertIgnore(DeleteRows(uf, Astray), Turned, ts)
         /\ ufi' = InsertLeast(ufi, Turned, ts)
         /\ Ran(If(Astray, {UFTable, UFfTable}))
         /\ Running("singleparent") /\ UNCHANGED <<term, view, todel, seq>>
<1> DEFINE Found(e) == /\ Open({UFTable, UFfTable})
                       /\ e[1] \in DOMAIN ufi
                       /\ ufi[e[1]].out # e[2]
                       /\ New(<<uf[e], ufi[e[1]].ts>>)
           F == {e \in DOMAIN uf : Found(e)}
           matches == {<<e, ufi[e[1]].out>> : e \in F}
           moved == {<<m[1][2], m[2]>> : m \in matches}
<1>1. /\ Running("singleparent")
      /\ uf' = InsertIgnore(DeleteRows(uf, {m[1] : m \in matches}), moved, ts)
      /\ ufi' = InsertLeast(ufi, moved, ts)
      /\ Ran(If(matches, {UFTable, UFfTable})) /\ UNCHANGED <<term, view, todel, seq>>
  BY Zenon DEF SingleParent
<1>2. at = "single_parent" /\ Since = lastRun[ParentRule] /\ Since \in Nat /\ Since <= ts /\ ts \in Nat
  BY <1>1, RunningFacts DEF Since
<1>3. ASSUME NEW e \in Astray PROVE Found(e)
  <2>1. PICK i : i = e[1] /\ e \in DOMAIN uf /\ i \in DOMAIN ufi /\ ufi[i].out # e[2]
    BY DEF Astray
  <2>2. uf[e] >= Since \/ ufi[i].ts >= Since
    BY <1>2, <2>1 DEF EncodingInv, Pending, ParentPending
  <2>3. uf[e] < ts /\ ufi[i].ts < ts
    BY <1>2, <2>1, RulesetFacts DEF EncodingInv, Older
  <2>4. uf[e] \in Nat /\ ufi[i].ts \in Nat
    BY <2>1, TypeFacts
  <2>5. New(<<uf[e], ufi[i].ts>>)
    BY <1>2, <2>2, <2>3, <2>4, DeltaTwo DEF New
  <2>6. watermark[UFTable] >= Since \/ watermark[UFfTable] >= Since
    <3>1. /\ uf[e] <= watermark[UFTable] /\ ufi[i].ts <= watermark[UFfTable]
          /\ watermark[UFTable] \in Nat /\ watermark[UFfTable] \in Nat
      BY <2>1, TypeFacts, TableFacts DEF EncodingInv, Marked
    <3> QED
      BY <1>2, <2>2, <2>4, <3>1
  <2>7. Open({UFTable, UFfTable})
    BY <2>6 DEF Open
  <2> QED
    BY <2>1, <2>5, <2>7
<1>4. F = Astray
  <2> HIDE DEF Found
  <2>1. \A e : Found(e) => e[1] \in DOMAIN ufi /\ ufi[e[1]].out # e[2]
    BY DEF Found
  <2> QED
    BY <1>3, <2>1 DEF Astray
<1>5. {m[1] : m \in matches} = Astray /\ moved = Turned
  <2> HIDE DEF F
  <2>1. matches = {<<e, ufi[e[1]].out>> : e \in Astray}
    BY <1>4, Zenon
  <2> HIDE DEF matches
  <2>2. \A m \in matches : \E e \in Astray : m = <<e, ufi[e[1]].out>>
    BY <2>1
  <2>3. \A e \in Astray : <<e, ufi[e[1]].out>> \in matches
    BY <2>1
  <2>4. {m[1] : m \in matches} = Astray
    <3>1. \A m \in matches : m[1] \in Astray
      BY <2>2
    <3>2. ASSUME NEW e \in Astray PROVE \E m \in matches : m[1] = e
      <4>1. PICK m \in matches : m = <<e, ufi[e[1]].out>>
        BY <2>3
      <4> QED
        BY <4>1
    <3> QED
      BY <3>1, <3>2
  <2>5. ASSUME NEW m \in matches PROVE <<m[1][2], m[2]>> \in Turned
    <3>1. PICK e \in Astray : m = <<e, ufi[e[1]].out>>
      BY <2>2
    <3> QED
      BY <3>1 DEF Turned
  <2>6. ASSUME NEW e \in Astray PROVE <<e[2], ufi[e[1]].out>> \in moved
    <3>1. PICK m : m = <<e, ufi[e[1]].out>>
      OBVIOUS
    <3>2. m \in matches /\ <<m[1][2], m[2]>> = <<e[2], ufi[e[1]].out>>
      BY <2>3, <3>1
    <3> QED
      BY <3>2
  <2>7. moved = Turned
    <3>1. \A x \in moved : x \in Turned
      BY <2>5
    <3>2. \A x \in Turned : x \in moved
      BY <2>6 DEF Turned
    <3> HIDE DEF moved
    <3> QED
      BY <3>1, <3>2
  <2> QED
    BY <2>4, <2>7
<1>6. If(matches, {UFTable, UFfTable}) = If(Astray, {UFTable, UFfTable})
  <2>1. matches = {} <=> Astray = {}
    <3> HIDE DEF F
    <3> QED
      BY <1>4
  <2> QED
    BY <2>1, Zenon DEF If
<1> HIDE DEF moved, matches
<1> QED
  BY <1>1, <1>5, <1>6

\* The tables after the rule.
LEMMA ParentTables ==
  ASSUME EncodingInv, at = "single_parent",
         uf' = InsertIgnore(DeleteRows(uf, Astray), Turned, ts),
         ufi' = InsertLeast(ufi, Turned, ts)
  PROVE  /\ EdgesStamped /\ IndexStamped /\ uf' \in [DOMAIN uf' -> Nat]
         /\ DOMAIN uf' = (DOMAIN uf \ Astray) \cup Turned
         /\ \A e \in DOMAIN uf' : e \in DOMAIN uf \ Astray \/ uf'[e] = ts
         /\ DOMAIN ufi' = DOMAIN ufi /\ \A i \in DOMAIN ufi' : <<i, ufi'[i].out>> \in DOMAIN uf'
         /\ \A e \in Astray : e[2] \in DOMAIN ufi /\ ufi[e[1]].out \in DOMAIN ufi
         /\ \A i \in DOMAIN ufi' : i \in Known /\ ufi'[i].out \in 1..i
         /\ Astray = {} => uf' = uf /\ \A i \in DOMAIN ufi : ufi'[i] = ufi[i]
<1>1. \A e \in Astray : e \in DOMAIN uf /\ e[1] \in DOMAIN ufi /\ ufi[e[1]].out # e[2]
  BY DEF Astray
<1>2. \A e \in Astray : e[2] \in DOMAIN ufi /\ ufi[e[1]].out \in DOMAIN ufi
  <2> SUFFICES ASSUME NEW e \in Astray PROVE e[2] \in DOMAIN ufi /\ ufi[e[1]].out \in DOMAIN ufi
    OBVIOUS
  <2>1. PICK a, b : a = e[1] /\ b = e[2] /\ e \in DOMAIN uf /\ a \in DOMAIN ufi
    BY <1>1
  <2>2. a \in Known /\ b \in Known /\ ufi[a].out \in Known /\ ufi[a].out <= a
    BY <2>1, TypeFacts
  <2>3. a \in Nat /\ b \in Nat /\ 1 <= b /\ ufi[a].out \in Nat /\ 1 <= ufi[a].out
    BY <2>2, TypeFacts
  <2>4. \A j \in 1..a : j \in DOMAIN ufi
    BY <2>1 DEF EncodingInv, Indexed
  <2>5. b <= a \/ b \in DOMAIN ufi
    BY <2>1 DEF EncodingInv, Forest, Descending
  <2> QED
    BY <2>1, <2>2, <2>3, <2>4, <2>5
<1>3. \A m \in Turned : m[1] \in DOMAIN ufi /\ m[2] \in DOMAIN ufi /\ m[2] \in Nat /\ m = <<m[1], m[2]>>
  <2>1. \A i \in DOMAIN ufi : i \in Nat
    BY TypeFacts
  <2> QED
    BY <1>2, <2>1 DEF Turned
<1>6. /\ DOMAIN uf' = (DOMAIN uf \ Astray) \cup Turned
      /\ \A e \in DOMAIN uf \ Astray : uf'[e] = uf[e]
      /\ \A e \in Turned : e \in DOMAIN uf \ Astray \/ uf'[e] = ts
      /\ uf' \in [DOMAIN uf' -> Nat]
  <2>1. uf \in [DOMAIN uf -> Nat] /\ ts \in Nat
    BY TypeFacts DEF EncodingInv, Types, EdgeTypes
  <2>2. Replaced(uf, Astray, Turned, ts, uf')
    BY <2>1, EdgesReplaced
  <2> QED
    BY <2>2 DEF Replaced
<1>7. /\ \A e \in Turned : e[2] \in Nat
      /\ \A k \in DOMAIN ufi : ufi[k].out \in Nat
  BY <1>3, TypeFacts
<1>8. /\ DOMAIN ufi' = DOMAIN ufi \cup {e[1] : e \in Turned}
      /\ \A k \in DOMAIN ufi : (\A e \in Turned : e[1] # k) => ufi'[k] = ufi[k]
      /\ \A e \in Turned : ufi'[e[1]].ts = ts
      /\ \A k \in DOMAIN ufi : ufi'[k].out \in Nat /\ ufi'[k].out <= ufi[k].out
      /\ \A e \in Turned : \/ ufi'[e[1]].out = ufi[e[1]].out
                          \/ \E d \in Turned : d[1] = e[1] /\ ufi'[e[1]].out = d[2]
  <2>1. ufi' = InsertLeast(ufi, Turned, ts)
    OBVIOUS
  <2>2. Lowered(ufi, Turned, ts, ufi')
    BY <1>7, <2>1, InsertLeastFacts
  <2> QED
    BY <2>2 DEF Lowered
<1>9. DOMAIN ufi' = DOMAIN ufi
  BY <1>3, <1>8
<1>10. EdgesStamped /\ \A e \in DOMAIN uf' : e \in DOMAIN uf \ Astray \/ uf'[e] = ts
  BY <1>6 DEF EdgesStamped
<1>11. IndexStamped
  BY <1>8, <1>9 DEF IndexStamped
<1>12. ASSUME NEW i \in DOMAIN ufi' PROVE <<i, ufi'[i].out>> \in DOMAIN uf' /\ i \in Known /\ ufi'[i].out \in 1..i
  <2>1. i \in DOMAIN ufi
    BY <1>9
  <2>2. i \in Known /\ i \in Nat /\ ufi[i].out \in Nat /\ ufi[i].out <= i /\ ufi[i].out \in Known
    BY <2>1, TypeFacts
  <2>3. <<i, ufi[i].out>> \in DOMAIN uf
    BY <2>1 DEF EncodingInv, Forest, Entries
  <2>4. <<i, ufi[i].out>> \notin Astray
    BY DEF Astray
  <2>5. ufi'[i].out = ufi[i].out \/ \E d \in Turned : d[1] = i /\ ufi'[i].out = d[2]
    <3>1. CASE \A e \in Turned : e[1] # i
      <4>1. ufi'[i] = ufi[i]
        BY <1>8, <2>1, <3>1
      <4> QED
        BY <4>1
    <3>2. ASSUME NEW e \in Turned, e[1] = i
          PROVE  ufi'[i].out = ufi[i].out \/ \E d \in Turned : d[1] = i /\ ufi'[i].out = d[2]
      <4>1. \/ ufi'[e[1]].out = ufi[e[1]].out
            \/ \E d \in Turned : d[1] = e[1] /\ ufi'[e[1]].out = d[2]
        BY <1>8
      <4> QED
        BY <3>2, <4>1
    <3> QED
      BY <3>1, <3>2
  <2>6. <<i, ufi'[i].out>> \in DOMAIN uf'
    BY <1>3, <1>6, <2>3, <2>4, <2>5
  <2>7. ufi'[i].out \in Known
    BY <1>3, <2>2, <2>5, TypeFacts
  <2>8. ufi'[i].out \in Nat /\ ufi'[i].out <= ufi[i].out /\ 1 <= ufi'[i].out
    BY <1>8, <2>1, <2>7, TypeFacts
  <2> QED
    BY <2>2, <2>6, <2>8
<1>13. ASSUME Astray = {} PROVE uf' = uf /\ \A i \in DOMAIN ufi : ufi'[i] = ufi[i]
  <2>1. Turned = {} /\ \A i : \A e \in Turned : e[1] # i
    BY <1>13 DEF Turned
  <2>2. DeleteRows(uf, Astray) = uf
    <3>1. DOMAIN uf \ Astray = DOMAIN uf
      BY <1>13
    <3>2. DeleteRows(uf, Astray) = [e \in DOMAIN uf |-> uf[e]]
      BY <3>1 DEF DeleteRows, Restrict
    <3>3. uf \in [DOMAIN uf -> Nat]
      BY DEF EncodingInv, Types, EdgeTypes
    <3> QED
      BY <3>2, <3>3
  <2>3. uf' = uf
    <3>1. uf \in [DOMAIN uf -> Nat] /\ Turned \in SUBSET DOMAIN uf /\ uf' = InsertIgnore(uf, Turned, ts)
      BY <2>1, <2>2 DEF EncodingInv, Types, EdgeTypes
    <3> QED
      BY <3>1, InsertIgnoreSame
  <2>4. \A i \in DOMAIN ufi : ufi'[i] = ufi[i]
    BY <1>8, <2>1
  <2> QED
    BY <2>3, <2>4
<1> QED
  BY <1>2, <1>6, <1>9, <1>10, <1>11, <1>12, <1>13

\* singleparent keeps the invariant: an edge that the index contradicts is turned to
\* what the index says, which leaves what it links linked.
LEMMA SingleParentStep == EncodingInv /\ SingleParent => EncodingInv'
<1> SUFFICES ASSUME EncodingInv, SingleParent PROVE EncodingInv'
  OBVIOUS
<1> DEFINE tables == If(Astray, {UFTable, UFfTable})
<1>1. /\ uf' = InsertIgnore(DeleteRows(uf, Astray), Turned, ts)
      /\ ufi' = InsertLeast(ufi, Turned, ts)
      /\ Ran(tables) /\ Running("singleparent") /\ UNCHANGED <<term, view, todel, seq>>
  BY ParentMatches
<1>2. at = "single_parent" /\ Head(todo) = ParentRule /\ at \in Alone
  BY <1>1, RunningFacts DEF Alone
<1>3. tables \subseteq {UFTable, UFfTable} /\ (Astray = {} <=> tables = {})
      /\ (Astray # {} => UFTable \in tables /\ UFfTable \in tables)
  BY DEF If
<1>4. tables \in SUBSET Tables
  BY <1>3, TableFacts
<1> HIDE DEF tables
<1>5. /\ ts' \in Nat /\ ts <= ts' /\ classes' = classes
      /\ lastRun'[ParentRule] = ts
      /\ \A r \in Rules : /\ r # ParentRule => lastRun'[r] = lastRun[r]
                          /\ lastRun'[r] \in Nat /\ lastRun'[r] <= ts
      /\ \A t \in Tables : watermark'[t] = IF t \in tables THEN ts ELSE watermark[t]
      /\ RunTypes' /\ TodoInv' /\ Moving(tables)
  BY <1>1, <1>2, <1>4, RanFacts
<1>6. /\ tables # {} => at' = "single_parent"
      /\ tables = {} => at' = "path_compress"
      /\ ts' = ts + 1 /\ updated' = FALSE
  BY <1>2, <1>5, AloneNext
<1>7. /\ EdgesStamped /\ IndexStamped /\ uf' \in [DOMAIN uf' -> Nat]
      /\ DOMAIN uf' = (DOMAIN uf \ Astray) \cup Turned
      /\ \A e \in DOMAIN uf' : e \in DOMAIN uf \ Astray \/ uf'[e] = ts
      /\ DOMAIN ufi' = DOMAIN ufi /\ \A i \in DOMAIN ufi' : <<i, ufi'[i].out>> \in DOMAIN uf'
      /\ \A e \in Astray : e[2] \in DOMAIN ufi /\ ufi[e[1]].out \in DOMAIN ufi
      /\ \A i \in DOMAIN ufi' : i \in Known /\ ufi'[i].out \in 1..i
      /\ Astray = {} => uf' = uf /\ \A i \in DOMAIN ufi : ufi'[i] = ufi[i]
  BY <1>1, <1>2, ParentTables
<1>8. \A e \in Turned : e[1] \in DOMAIN ufi /\ e[2] \in DOMAIN ufi /\ e = <<e[1], e[2]>>
  BY <1>7 DEF Turned
<1>9. Types' /\ Stamped /\ Known' = Known
  <2>1. \A e \in DOMAIN uf' : e \in Known \X Known
    <3>1. \A i \in DOMAIN ufi : i \in Known
      BY TypeFacts
    <3>2. \A e \in Turned : e \in Known \X Known
      BY <1>8, <3>1
    <3>3. \A e \in DOMAIN uf : e \in Known \X Known
      BY TypeFacts
    <3> QED
      BY <1>7, <3>2, <3>3
  <2> QED
    BY <1>1, <1>5, <1>7, <2>1, UnionFindTypes
<1>10. Older'
  <2>1. at' # "idle"
    BY <1>6
  <2> QED
    BY <1>6, <1>9, <2>1, OlderNext
<1>11. Marked'
  <2>1. UFTable \notin tables => \A e \in DOMAIN uf' : e \in DOMAIN uf /\ uf'[e] = uf[e]
    BY <1>3, <1>7
  <2>2. UFfTable \notin tables => \A i \in DOMAIN ufi' : i \in DOMAIN ufi /\ ufi'[i] = ufi[i]
    BY <1>3, <1>7
  <2> QED
    BY <1>1, <1>5, <1>9, <2>1, <2>2, MarkedKept
<1>12. Indexed'
  <2>1. at' \notin {"rebuilding", "delete_subsume"}
    BY <1>6
  <2> QED
    BY <1>7, <2>1 DEF EncodingInv, Indexed
<1>13. Forest'
  <2>1. \A i \in DOMAIN ufi' : <<i, ufi'[i].out>> \in DOMAIN uf' /\ i \in Nat /\ ufi'[i].out \in Nat /\ ufi'[i].out \in Known'
    <3>1. \A i \in DOMAIN ufi' : i \in Nat /\ 1 <= i /\ i < seq /\ seq \in Nat /\ ufi'[i].out \in 1..i
      BY <1>7, TypeFacts
    <3>2. \A i \in DOMAIN ufi' : ufi'[i].out \in Nat /\ ufi'[i].out \in Known
      BY <3>1, TypeFacts
    <3> QED
      BY <1>7, <1>9, <3>1, <3>2
  <2>2. Rooted'
    <3> SUFFICES ASSUME NEW i \in Known PROVE \E j \in Known : <<i, j>> \in DOMAIN uf'
      BY <1>9 DEF Rooted
    <3>1. CASE i \in DOMAIN ufi'
      BY <1>9, <2>1, <3>1
    <3>2. CASE i \notin DOMAIN ufi'
      <4>1. PICK j \in Known : <<i, j>> \in DOMAIN uf
        BY DEF EncodingInv, Forest, Rooted
      <4>2. <<i, j>> \notin Astray
        BY <1>7, <3>2 DEF Astray
      <4> QED
        BY <1>7, <4>1, <4>2
    <3> QED
      BY <3>1, <3>2
  <2>3. Descending'
    <3>1. CASE tables # {}
      <4> SUFFICES ASSUME NEW e \in DOMAIN uf' PROVE e[2] <= e[1] \/ (e[1] \in DOMAIN ufi' /\ e[2] \in DOMAIN ufi')
        BY <1>6, <3>1 DEF Descending
      <4>1. CASE e \in DOMAIN uf
        BY <1>7, <4>1 DEF EncodingInv, Forest, Descending
      <4>2. CASE e \in Turned
        BY <1>7, <1>8, <4>2
      <4> QED
        BY <1>7, <4>1, <4>2
    <3>2. CASE tables = {}
      <4> SUFFICES ASSUME NEW e \in DOMAIN uf PROVE e[2] <= e[1]
        BY <1>3, <1>7, <3>2 DEF Descending
      <4>1. PICK a, b : a = e[1] /\ b = e[2]
        OBVIOUS
      <4>2. b <= a \/ a \in DOMAIN ufi
        BY <4>1 DEF EncodingInv, Forest, Descending
      <4>3. a \in DOMAIN ufi => ufi[a].out = b /\ ufi[a].out <= a
        BY <1>3, <3>2, <4>1, TypeFacts DEF Astray
      <4> QED
        BY <4>1, <4>2, <4>3
    <3> QED
      BY <3>1, <3>2
  <2>4. LowEdges' /\ Entries'
    <3>1. \A n \in Nat : n <= n
      OBVIOUS
    <3> QED
      BY <2>1, <3>1 DEF LowEdges, Entries
  <2>5. Leads'
    BY <1>6 DEF Leads, Alone
  <2> QED
    BY <2>2, <2>3, <2>4, <2>5 DEF Forest
<1>14. Quiet'
  <2>1. CASE tables # {}
    BY <1>6, <2>1 DEF Quiet
  <2>2. CASE tables = {}
    <3>1. ParentDone'
      BY <1>3, <1>7, <2>2 DEF ParentDone, Astray
    <3> QED
      BY <1>6, <2>2, <3>1 DEF Quiet
  <2> QED
    BY <2>1, <2>2
<1>15. LinksKept
  <2> SUFFICES ASSUME NEW l \in [Ids -> Ids], Respects(l)', NEW e \in DOMAIN uf PROVE l[e[1]] = l[e[2]]
    BY DEF LinksKept, Respects
  <2>1. CASE e \notin Astray
    BY <1>7, <2>1 DEF Respects
  <2>2. CASE e \in Astray
    <3>1. PICK a, b, c : a = e[1] /\ b = e[2] /\ c = ufi[a].out /\ a \in DOMAIN ufi
      BY <2>2 DEF Astray
    <3>2. <<b, c>> \in DOMAIN uf'
      BY <1>7, <2>2, <3>1 DEF Turned
    <3>3. <<a, c>> \in DOMAIN uf
      BY <1>2, <3>1 DEF EncodingInv, Forest, Entries
    <3>4. <<a, c>> \notin Astray
      BY <3>1 DEF Astray
    <3>5. l[b] = l[c] /\ l[a] = l[c]
      BY <1>7, <3>2, <3>3, <3>4 DEF Respects
    <3> QED
      BY <3>1, <3>5
  <2> QED
    BY <2>1, <2>2
<1>16. Respects(classes)'
  <2> SUFFICES ASSUME NEW e \in DOMAIN uf' PROVE classes[e[1]] = classes[e[2]]
    BY <1>5 DEF Respects
  <2>1. \A d \in DOMAIN uf : classes[d[1]] = classes[d[2]]
    BY DEF EncodingInv, Sound, IsCongruence
  <2>2. CASE e \in Turned
    <3>1. PICK d \in Astray : e = <<d[2], ufi[d[1]].out>>
      BY <2>2 DEF Turned
    <3>2. PICK a : a = d[1]
      OBVIOUS
    <3>3. d \in DOMAIN uf /\ a \in DOMAIN ufi
      BY <3>2 DEF Astray
    <3>4. classes[ufi[a].out] = classes[a] /\ classes[a] = classes[d[2]]
      BY <2>1, <3>2, <3>3 DEF EncodingInv, Sound
    <3> QED
      BY <3>1, <3>2, <3>4
  <2> QED
    BY <1>7, <2>1, <2>2
<1>17. Sound' /\ Least'
  <2>1. \A i \in DOMAIN ufi' : classes[ufi'[i].out] = classes[i]
    <3> SUFFICES ASSUME NEW i \in DOMAIN ufi' PROVE classes[ufi'[i].out] = classes[i]
      OBVIOUS
    <3>1. PICK j : j = ufi'[i].out
      OBVIOUS
    <3>2. <<i, j>> \in DOMAIN uf'
      BY <1>7, <3>1
    <3>3. classes[i] = classes[j]
      BY <1>5, <1>16, <3>2 DEF Respects
    <3> QED
      BY <3>1, <3>3
  <2> QED
    BY <1>1, <1>5, <1>15, <1>16, <2>1, ClassesKept
<1>18. Pending'
  <2>1. ParentPending'
    <3> SUFFICES ASSUME NEW e \in DOMAIN uf', e[1] \in DOMAIN ufi', ufi'[e[1]].out # e[2]
                 PROVE  uf'[e] = ts \/ ufi'[e[1]].ts = ts
      <4>1. ts <= ts /\ lastRun'[ParentRule] = ts
        BY <1>5, TypeFacts
      <4> QED
        BY <4>1 DEF ParentPending
    <3>1. PICK i : i = e[1]
      OBVIOUS
    <3>2. CASE e \in DOMAIN uf \ Astray /\ ufi'[i] = ufi[i]
      <4>1. i \in DOMAIN ufi /\ ufi[i].out = e[2]
        BY <1>7, <3>1, <3>2 DEF Astray
      <4> QED
        BY <3>1, <3>2, <4>1
    <3> QED
      BY <1>7, <3>1, <3>2 DEF IndexStamped
  <2>2. IndexTypes'
    BY <1>9 DEF Types
  <2>3. /\ CompressRule # ParentRule /\ IndexRule # ParentRule
        /\ \A f : CongruenceOf(f) # ParentRule /\ RebuildOf(f) # ParentRule /\ DeleteOf(f) # ParentRule
    BY DEF CompressRule, IndexRule, ParentRule, CongruenceOf, RebuildOf, DeleteOf, Rule
  <2>4. /\ lastRun'[CompressRule] = lastRun[CompressRule] /\ lastRun'[IndexRule] = lastRun[IndexRule]
        /\ \A f \in Names : /\ lastRun'[CongruenceOf(f)] = lastRun[CongruenceOf(f)]
                            /\ lastRun'[RebuildOf(f)] = lastRun[RebuildOf(f)]
                            /\ lastRun'[DeleteOf(f)] = lastRun[DeleteOf(f)]
    BY <1>5, <2>3, RuleFacts
  <2> QED
    BY <1>5, <1>9, <1>15, <2>1, <2>2, <2>4, PendingKept DEF Pending
<1>19. Rebuilt'
  BY <1>6 DEF Rebuilt
<1> QED
  BY <1>5, <1>9, <1>10, <1>11, <1>12, <1>13, <1>14, <1>17, <1>18, <1>19 DEF EncodingInv

-----------------------------------------------------------------------------
(* uf_update. *)

\* The pairs of edges that could be one, the first edges of them, and what they become.
Hops == {p \in (DOMAIN uf) \X (DOMAIN uf) : Hop(p)}
Detours == {p[1] : p \in Hops}
Shortcuts == {<<p[1][1], p[2][2]>> : p \in Hops}

\* The rule finds them all.
LEMMA CompressMatches ==
  ASSUME EncodingInv, PathCompress
  PROVE  /\ uf' = InsertIgnore(DeleteRows(uf, Detours), Shortcuts, ts)
         /\ Ran(If(Hops, {UFTable}))
         /\ Running("uf_update") /\ UNCHANGED <<ufi, term, view, todel, seq>>
<1> DEFINE Found(p) == Open({UFTable}) /\ Hop(p) /\ New(<<uf[p[1]], uf[p[2]]>>)
           matches == {p \in (DOMAIN uf) \X (DOMAIN uf) : Found(p)}
<1>1. /\ Running("uf_update")
      /\ uf' = InsertIgnore(DeleteRows(uf, {p[1] : p \in matches}),
                            {<<p[1][1], p[2][2]>> : p \in matches}, ts)
      /\ Ran(If(matches, {UFTable})) /\ UNCHANGED <<ufi, term, view, todel, seq>>
  BY Zenon DEF PathCompress
<1>2. at = "path_compress" /\ Since = lastRun[CompressRule] /\ Since \in Nat /\ Since <= ts /\ ts \in Nat
  BY <1>1, RunningFacts DEF Since
<1>3. ASSUME NEW p \in Hops PROVE Found(p)
  <2>1. PICK e, d : e = p[1] /\ d = p[2] /\ e \in DOMAIN uf /\ d \in DOMAIN uf /\ e[2] = d[1] /\ d[1] # d[2] /\ Hop(p)
    BY DEF Hops, Hop
  <2>2. uf[e] >= Since \/ uf[d] >= Since
    BY <1>2, <2>1 DEF EncodingInv, Pending, CompressPending
  <2>3. uf[e] < ts /\ uf[d] < ts
    BY <1>2, <2>1, RulesetFacts DEF EncodingInv, Older
  <2>4. uf[e] \in Nat /\ uf[d] \in Nat
    BY <2>1, TypeFacts
  <2>5. New(<<uf[e], uf[d]>>)
    BY <1>2, <2>2, <2>3, <2>4, DeltaTwo DEF New
  <2>6. watermark[UFTable] >= Since
    <3>1. uf[e] <= watermark[UFTable] /\ uf[d] <= watermark[UFTable] /\ watermark[UFTable] \in Nat
      BY <2>1, TypeFacts, TableFacts DEF EncodingInv, Marked
    <3> QED
      BY <1>2, <2>2, <2>4, <3>1
  <2>7. Open({UFTable})
    BY <2>6 DEF Open
  <2> QED
    BY <2>1, <2>5, <2>7
<1>4. matches = Hops
  <2> HIDE DEF Found
  <2>1. \A p : Found(p) => Hop(p)
    BY DEF Found
  <2> QED
    BY <1>3, <2>1 DEF Hops
<1> HIDE DEF matches
<1> QED
  BY <1>1, <1>4 DEF Detours, Shortcuts

\* A hop is two edges down.
LEMMA HopFacts ==
  ASSUME EncodingInv, at = "path_compress"
  PROVE  /\ \A e \in DOMAIN uf : /\ e = <<e[1], e[2]>> /\ e[1] \in Known /\ e[2] \in Known
                                 /\ e[1] \in Nat /\ e[2] \in Nat /\ e[2] <= e[1]
         /\ \A e \in Detours : e \in DOMAIN uf /\ \E c \in Known : /\ <<e[2], c>> \in DOMAIN uf /\ c \in Nat /\ c < e[2]
                                                                   /\ <<e[1], c>> \in Shortcuts
         /\ \A e \in Shortcuts : \E b \in Known : <<e[1], b>> \in DOMAIN uf /\ <<b, e[2]>> \in DOMAIN uf /\ e = <<e[1], e[2]>>
         /\ \A e, d \in DOMAIN uf : e[2] = d[1] /\ d[1] # d[2] => e \in Detours
         /\ Hops = {} => Detours = {} /\ Shortcuts = {}
<1>1. \A e \in DOMAIN uf : /\ e = <<e[1], e[2]>> /\ e[1] \in Known /\ e[2] \in Known
                           /\ e[1] \in Nat /\ e[2] \in Nat /\ e[2] <= e[1]
  <2>1. \A e \in DOMAIN uf : e \in Known \X Known /\ e[1] \in Known /\ e[2] \in Known
    BY TypeFacts
  <2>2. \A i \in Known : i \in Nat
    BY TypeFacts
  <2>3. \A e \in DOMAIN uf : e[2] <= e[1]
    BY DEF EncodingInv, Forest, Descending
  <2> QED
    BY <2>1, <2>2, <2>3
<1>2. ASSUME NEW p \in Hops
      PROVE  /\ p[1] \in DOMAIN uf /\ p[2] \in DOMAIN uf /\ p[1][2] = p[2][1] /\ p[2][1] # p[2][2]
             /\ p[2] = <<p[1][2], p[2][2]>> /\ p[1] = <<p[1][1], p[1][2]>>
  BY <1>1 DEF Hops, Hop
<1>3. ASSUME NEW e \in Detours
      PROVE  e \in DOMAIN uf /\ \E c \in Known : /\ <<e[2], c>> \in DOMAIN uf /\ c \in Nat /\ c < e[2]
                                                 /\ <<e[1], c>> \in Shortcuts
  <2>1. PICK p \in Hops : e = p[1]
    BY DEF Detours
  <2>2. PICK d, c : d = p[2] /\ c = d[2] /\ d \in DOMAIN uf /\ d = <<e[2], c>> /\ e[2] # c /\ e \in DOMAIN uf
    BY <1>2, <2>1
  <2>3. c \in Known /\ c \in Nat /\ e[2] \in Nat /\ c <= e[2]
    BY <1>1, <2>2
  <2>4. <<e[1], c>> \in Shortcuts
    BY <2>1, <2>2 DEF Shortcuts
  <2> QED
    BY <2>2, <2>3, <2>4
<1>4. ASSUME NEW e \in Shortcuts
      PROVE  \E b \in Known : <<e[1], b>> \in DOMAIN uf /\ <<b, e[2]>> \in DOMAIN uf /\ e = <<e[1], e[2]>>
  <2>1. PICK p \in Hops : e = <<p[1][1], p[2][2]>>
    BY DEF Shortcuts
  <2>2. e[1] = p[1][1] /\ e[2] = p[2][2]
    BY <2>1
  <2> QED
    BY <1>1, <1>2, <2>1, <2>2
<1>5. ASSUME NEW e \in DOMAIN uf, NEW d \in DOMAIN uf, e[2] = d[1], d[1] # d[2] PROVE e \in Detours
  <2>1. PICK p : p = <<e, d>>
    OBVIOUS
  <2>2. p \in Hops /\ p[1] = e
    BY <1>5, <2>1 DEF Hops, Hop
  <2> QED
    BY <2>2 DEF Detours
<1> QED
  BY <1>1, <1>3, <1>4, <1>5 DEF Detours, Shortcuts

\* The links of a hop are those of its shortcut and its second edge, which leads lower.
LEMMA CompressLinks ==
  ASSUME EncodingInv, at = "path_compress", DOMAIN uf' = (DOMAIN uf \ Detours) \cup Shortcuts
  PROVE  LinksKept
<1> SUFFICES ASSUME NEW l \in [Ids -> Ids], Respects(l)' PROVE Respects(l)
  BY DEF LinksKept
<1> DEFINE Bad == {b \in Nat : \E e \in DOMAIN uf : e[2] = b /\ l[e[1]] # l[b]}
<1>1. ASSUME NEW b \in Bad, \A c \in Bad : b <= c PROVE FALSE
  <2>1. PICK e \in DOMAIN uf : e[2] = b /\ l[e[1]] # l[b]
    OBVIOUS
  <2>2. PICK a : a = e[1]
    OBVIOUS
  <2>3. e \in Detours
    <3>1. e \notin Detours => l[e[1]] = l[e[2]]
      BY DEF Respects
    <3> QED
      BY <2>1, <3>1
  <2>4. PICK c \in Known : <<b, c>> \in DOMAIN uf /\ c \in Nat /\ c < b /\ <<a, c>> \in Shortcuts
    BY <2>1, <2>2, <2>3, HopFacts
  <2>5. l[a] = l[c]
    BY <2>4 DEF Respects
  <2>6. c \notin Bad
    <3>1. b \in Nat /\ ~(b <= c)
      BY <2>4
    <3> HIDE DEF Bad
    <3> QED
      BY <1>1, <3>1
  <2>7. l[b] = l[c]
    <3>1. PICK d : d = <<b, c>>
      OBVIOUS
    <3>2. d \in DOMAIN uf /\ d[1] = b /\ d[2] = c
      BY <2>4, <3>1
    <3> QED
      BY <2>4, <2>6, <3>2
  <2> QED
    BY <2>1, <2>2, <2>5, <2>7
<1>2. Bad = {}
  <2>1. Bad \in SUBSET Nat
    OBVIOUS
  <2> HIDE DEF Bad
  <2> QED
    BY <1>1, <2>1, LeastNatural
<1>3. \A e \in DOMAIN uf : e[2] \in Nat
  BY HopFacts
<1> QED
  BY <1>2, <1>3 DEF Respects

\* Path compression keeps the invariant: shortcuts link what the edges linked.
LEMMA PathCompressStep == EncodingInv /\ PathCompress => EncodingInv'
<1> SUFFICES ASSUME EncodingInv, PathCompress PROVE EncodingInv'
  OBVIOUS
<1> DEFINE tables == If(Hops, {UFTable})
<1>1. /\ uf' = InsertIgnore(DeleteRows(uf, Detours), Shortcuts, ts)
      /\ Ran(tables) /\ Running("uf_update") /\ UNCHANGED <<ufi, term, view, todel, seq>>
  BY CompressMatches
<1>2. at = "path_compress" /\ Head(todo) = CompressRule /\ at \in Alone
  BY <1>1, RunningFacts DEF Alone
<1>3. tables \subseteq {UFTable} /\ (Hops = {} <=> tables = {}) /\ (Hops # {} => UFTable \in tables)
  BY DEF If
<1>4. tables \in SUBSET Tables
  BY <1>3, TableFacts
<1> HIDE DEF tables
<1>5. /\ ts' \in Nat /\ ts <= ts' /\ classes' = classes
      /\ lastRun'[CompressRule] = ts
      /\ \A r \in Rules : /\ r # CompressRule => lastRun'[r] = lastRun[r]
                          /\ lastRun'[r] \in Nat /\ lastRun'[r] <= ts
      /\ \A t \in Tables : watermark'[t] = IF t \in tables THEN ts ELSE watermark[t]
      /\ RunTypes' /\ TodoInv' /\ Moving(tables)
  BY <1>1, <1>2, <1>4, RanFacts
<1>6. /\ tables # {} => at' = "path_compress"
      /\ tables = {} => at' = "uf_function_index"
      /\ ts' = ts + 1 /\ updated' = FALSE
  BY <1>2, <1>5, AloneNext
<1>7. tables # {} \/ outer => outer'
  BY <1>2, <1>5, <1>6 DEF Moving
<1>8. /\ DOMAIN uf' = (DOMAIN uf \ Detours) \cup Shortcuts
      /\ \A e \in DOMAIN uf \ Detours : uf'[e] = uf[e]
      /\ \A e \in Shortcuts : e \in DOMAIN uf \ Detours \/ uf'[e] = ts
      /\ uf' \in [DOMAIN uf' -> Nat]
  <2>1. uf \in [DOMAIN uf -> Nat] /\ ts \in Nat
    BY TypeFacts DEF EncodingInv, Types, EdgeTypes
  <2>2. Replaced(uf, Detours, Shortcuts, ts, uf')
    BY <1>1, <2>1, EdgesReplaced
  <2> QED
    BY <2>2 DEF Replaced
<1>9. /\ \A e \in DOMAIN uf : /\ e = <<e[1], e[2]>> /\ e[1] \in Known /\ e[2] \in Known
                              /\ e[1] \in Nat /\ e[2] \in Nat /\ e[2] <= e[1]
      /\ \A e \in Detours : e \in DOMAIN uf /\ \E c \in Known : /\ <<e[2], c>> \in DOMAIN uf /\ c \in Nat /\ c < e[2]
                                                                /\ <<e[1], c>> \in Shortcuts
      /\ \A e \in Shortcuts : \E b \in Known : <<e[1], b>> \in DOMAIN uf /\ <<b, e[2]>> \in DOMAIN uf /\ e = <<e[1], e[2]>>
      /\ \A e, d \in DOMAIN uf : e[2] = d[1] /\ d[1] # d[2] => e \in Detours
      /\ Hops = {} => Detours = {} /\ Shortcuts = {}
  BY <1>2, HopFacts
<1>10. ASSUME NEW e \in Shortcuts
       PROVE  e \in Known \X Known /\ e[2] <= e[1] /\ classes[e[1]] = classes[e[2]]
  <2>1. PICK b \in Known : <<e[1], b>> \in DOMAIN uf /\ <<b, e[2]>> \in DOMAIN uf /\ e = <<e[1], e[2]>>
    BY <1>9
  <2>2. PICK d, h : d = <<e[1], b>> /\ h = <<b, e[2]>>
    OBVIOUS
  <2>3. d[1] = e[1] /\ d[2] = b /\ h[1] = b /\ h[2] = e[2] /\ d \in DOMAIN uf /\ h \in DOMAIN uf
    BY <2>1, <2>2
  <2>4. e[1] \in Known /\ e[2] \in Known /\ e[1] \in Nat /\ b \in Nat /\ e[2] \in Nat /\ b <= e[1] /\ e[2] <= b
    BY <1>9, <2>3
  <2>5. classes[e[1]] = classes[b] /\ classes[b] = classes[e[2]]
    BY <2>3 DEF EncodingInv, Sound, IsCongruence
  <2> QED
    BY <2>1, <2>4, <2>5
<1>11. EdgesStamped /\ IndexStamped
  <2>1. \A i \in DOMAIN ufi : ufi[i].out <= ufi[i].out
    BY TypeFacts
  <2> QED
    BY <1>1, <1>8, <2>1 DEF EdgesStamped, IndexStamped
<1>12. Types' /\ Stamped /\ Known' = Known
  <2>1. \A e \in DOMAIN uf' : e \in Known \X Known
    <3>1. \A e \in DOMAIN uf : e \in Known \X Known
      BY TypeFacts
    <3> QED
      BY <1>8, <1>10, <3>1
  <2>2. \A i \in DOMAIN ufi' : i \in Known /\ ufi'[i].out \in 1..i
    BY <1>1 DEF EncodingInv, Types, IndexTypes
  <2> QED
    BY <1>1, <1>5, <1>8, <1>11, <2>1, <2>2, UnionFindTypes
<1>13. Older'
  <2>1. at' # "idle"
    BY <1>6
  <2> QED
    BY <1>6, <1>12, <2>1, OlderNext
<1>14. Marked'
  <2>1. UFTable \notin tables => \A e \in DOMAIN uf' : e \in DOMAIN uf /\ uf'[e] = uf[e]
    BY <1>3, <1>8, <1>9
  <2> QED
    BY <1>1, <1>5, <1>12, <2>1, MarkedKept
<1>15. Indexed'
  <2>1. at' \notin {"rebuilding", "delete_subsume"}
    BY <1>6
  <2> QED
    BY <1>1, <2>1 DEF EncodingInv, Indexed
<1>16. Forest'
  <2>1. Rooted'
    <3> SUFFICES ASSUME NEW i \in Known PROVE \E j \in Known : <<i, j>> \in DOMAIN uf'
      BY <1>12 DEF Rooted
    <3>1. PICK j \in Known : <<i, j>> \in DOMAIN uf
      BY DEF EncodingInv, Forest, Rooted
    <3>2. CASE <<i, j>> \notin Detours
      BY <1>8, <3>1, <3>2
    <3>3. ASSUME NEW e, e = <<i, j>>, e \in Detours PROVE \E c \in Known : <<i, c>> \in DOMAIN uf'
      BY <1>8, <1>9, <3>3
    <3> QED
      BY <3>2, <3>3
  <2>2. Descending'
    BY <1>8, <1>9, <1>10 DEF Descending
  <2>3. LowEdges'
    <3> SUFFICES ASSUME NEW i \in DOMAIN ufi PROVE \E j \in Known : <<i, j>> \in DOMAIN uf' /\ j <= ufi[i].out
      BY <1>1, <1>12 DEF LowEdges
    <3>1. PICK j \in Known : <<i, j>> \in DOMAIN uf /\ j <= ufi[i].out
      BY DEF EncodingInv, Forest, LowEdges
    <3>2. CASE <<i, j>> \notin Detours
      BY <1>8, <3>1, <3>2
    <3>3. CASE <<i, j>> \in Detours
      <4>1. PICK e : e = <<i, j>>
        OBVIOUS
      <4>2. e \in Detours /\ e[1] = i /\ e[2] = j
        BY <3>3, <4>1
      <4>3. PICK c \in Known : c \in Nat /\ c < j /\ <<i, c>> \in Shortcuts
        BY <1>9, <4>2
      <4>4. j \in Nat /\ ufi[i].out \in Nat
        BY TypeFacts
      <4>5. c <= ufi[i].out
        BY <3>1, <4>3, <4>4
      <4> QED
        BY <1>8, <4>3, <4>5
    <3> QED
      BY <3>2, <3>3
  <2>4. Entries' /\ Leads'
    BY <1>6 DEF Entries, Leads, Alone
  <2> QED
    BY <2>1, <2>2, <2>3, <2>4 DEF Forest
<1>17. Quiet'
  <2>1. CASE tables # {}
    BY <1>6, <1>7, <2>1 DEF Quiet
  <2>2. CASE tables = {}
    <3>1. DOMAIN uf' = DOMAIN uf /\ Hops = {}
      BY <1>3, <1>8, <1>9, <2>2
    <3>2. CompressDone'
      BY <1>9, <3>1 DEF CompressDone
    <3>3. ~outer' => ParentDone
      <4>1. ~outer' => ~outer /\ ~updated
        BY <1>2, <1>7 DEF EncodingInv, TodoInv
      <4> QED
        BY <1>2, <4>1 DEF EncodingInv, Quiet
    <3>4. ~outer' => ParentDone'
      BY <1>1, <3>1, <3>3 DEF ParentDone
    <3> QED
      BY <1>6, <2>2, <3>2, <3>4 DEF Quiet
  <2> QED
    BY <2>1, <2>2
<1>18. LinksKept
  BY <1>2, <1>8, CompressLinks
<1>19. Sound' /\ Least'
  <2>1. Respects(classes)'
    <3>1. \A e \in DOMAIN uf : classes[e[1]] = classes[e[2]]
      BY DEF EncodingInv, Sound, IsCongruence
    <3> QED
      BY <1>5, <1>8, <1>10, <3>1 DEF Respects
  <2>2. \A i \in DOMAIN ufi' : classes[ufi'[i].out] = classes[i]
    BY <1>1 DEF EncodingInv, Sound
  <2> QED
    BY <1>1, <1>5, <1>18, <2>1, <2>2, ClassesKept
<1>20. Pending'
  <2>1. CompressPending'
    <3> SUFFICES ASSUME NEW p \in DOMAIN uf', NEW q \in DOMAIN uf', p[2] = q[1], q[1] # q[2]
                 PROVE  uf'[p] = ts \/ uf'[q] = ts
      <4>1. ts <= ts /\ lastRun'[CompressRule] = ts
        BY <1>5, TypeFacts
      <4> QED
        BY <4>1 DEF CompressPending
    <3> QED
      BY <1>8, <1>9
  <2>2. IndexTypes'
    BY <1>12 DEF Types
  <2>3. /\ ParentRule # CompressRule /\ IndexRule # CompressRule
        /\ \A f : CongruenceOf(f) # CompressRule /\ RebuildOf(f) # CompressRule /\ DeleteOf(f) # CompressRule
    BY DEF CompressRule, IndexRule, ParentRule, CongruenceOf, RebuildOf, DeleteOf, Rule
  <2>4. /\ lastRun'[ParentRule] = lastRun[ParentRule] /\ lastRun'[IndexRule] = lastRun[IndexRule]
        /\ \A f \in Names : /\ lastRun'[CongruenceOf(f)] = lastRun[CongruenceOf(f)]
                            /\ lastRun'[RebuildOf(f)] = lastRun[RebuildOf(f)]
                            /\ lastRun'[DeleteOf(f)] = lastRun[DeleteOf(f)]
    BY <1>5, <2>3, RuleFacts
  <2> QED
    BY <1>5, <1>12, <1>18, <2>1, <2>2, <2>4, PendingKept DEF Pending
<1>21. Rebuilt'
  BY <1>6 DEF Rebuilt
<1> QED
  BY <1>5, <1>12, <1>13, <1>14, <1>15, <1>16, <1>17, <1>19, <1>20, <1>21 DEF EncodingInv

-----------------------------------------------------------------------------
(* uf_function_index. *)

\* The edges that are new to the rule.
Recent == {e \in DOMAIN uf : uf[e] >= lastRun[IndexRule]}

\* The rule finds them all.
LEMMA IndexMatches ==
  ASSUME EncodingInv, FunctionIndex
  PROVE  /\ ufi' = InsertLeast(ufi, Recent, ts)
         /\ Ran(If(Recent, {UFfTable}))
         /\ Running("uf_function_index") /\ UNCHANGED <<uf, term, view, todel, seq>>
<1> DEFINE Found(e) == Open({UFTable}) /\ New(<<uf[e]>>)
           matches == {e \in DOMAIN uf : Found(e)}
<1>1. /\ Running("uf_function_index")
      /\ ufi' = InsertLeast(ufi, matches, ts)
      /\ Ran(If(matches, {UFfTable})) /\ UNCHANGED <<uf, term, view, todel, seq>>
  BY Zenon DEF FunctionIndex
<1>2. at = "uf_function_index" /\ Since = lastRun[IndexRule] /\ Since \in Nat /\ Since <= ts /\ ts \in Nat
  BY <1>1, RunningFacts DEF Since
<1>3. ASSUME NEW e \in DOMAIN uf PROVE Found(e) <=> e \in Recent
  <2>1. uf[e] < ts
    BY <1>2, RulesetFacts DEF EncodingInv, Older
  <2>2. uf[e] \in Nat
    BY TypeFacts
  <2>3. New(<<uf[e]>>) <=> uf[e] >= Since
    BY <1>2, <2>1, <2>2, DeltaOne DEF New
  <2>4. uf[e] >= Since => watermark[UFTable] >= Since
    <3>1. uf[e] <= watermark[UFTable] /\ watermark[UFTable] \in Nat
      BY TypeFacts, TableFacts DEF EncodingInv, Marked
    <3> QED
      BY <1>2, <2>2, <3>1
  <2> QED
    BY <1>2, <2>3, <2>4 DEF Recent, Open
<1>4. matches = Recent
  <2> HIDE DEF Found
  <2> QED
    BY <1>3 DEF Recent
<1> HIDE DEF matches
<1> QED
  BY <1>1, <1>4

\* The index after the rule.
LEMMA IndexTables ==
  ASSUME EncodingInv, at = "uf_function_index", ufi' = InsertLeast(ufi, Recent, ts), uf' = uf
  PROVE  /\ IndexStamped /\ DOMAIN ufi' = Known
         /\ \A i \in Known : ufi'[i].out \in Known /\ ufi'[i].out \in 1..i /\ <<i, ufi'[i].out>> \in DOMAIN uf
         /\ \A e \in DOMAIN uf : e[1] \in DOMAIN ufi' /\ ufi'[e[1]].out <= e[2]
         /\ Recent = {} => DOMAIN ufi = Known /\ \A i \in Known : ufi'[i] = ufi[i]
<1>1. /\ \A e \in DOMAIN uf : /\ e = <<e[1], e[2]>> /\ e[1] \in Known /\ e[2] \in Known
                              /\ e[1] \in Nat /\ e[2] \in Nat /\ e[2] <= e[1]
      /\ \A e \in Recent : e \in DOMAIN uf
  <2>1. \A e \in DOMAIN uf : e \in Known \X Known /\ e[1] \in Known /\ e[2] \in Known
    BY TypeFacts
  <2>2. \A i \in Known : i \in Nat
    BY TypeFacts
  <2>3. \A e \in DOMAIN uf : e[2] <= e[1]
    BY DEF EncodingInv, Forest, Descending
  <2> QED
    BY <2>1, <2>2, <2>3 DEF Recent
<1>2. /\ DOMAIN ufi' = DOMAIN ufi \cup {e[1] : e \in Recent}
      /\ \A k \in DOMAIN ufi : (\A e \in Recent : e[1] # k) => ufi'[k] = ufi[k]
      /\ \A e \in Recent : ufi'[e[1]].ts = ts /\ ufi'[e[1]].out <= e[2]
      /\ \A k \in DOMAIN ufi : ufi'[k].out \in Nat /\ ufi'[k].out <= ufi[k].out
      /\ \A e \in Recent : \/ e[1] \in DOMAIN ufi /\ ufi'[e[1]].out = ufi[e[1]].out
                           \/ \E d \in Recent : d[1] = e[1] /\ ufi'[e[1]].out = d[2]
  <2>1. \A e \in Recent : e[2] \in Nat
    BY <1>1
  <2>2. \A k \in DOMAIN ufi : ufi[k].out \in Nat
    BY TypeFacts
  <2>3. Lowered(ufi, Recent, ts, ufi')
    BY <2>1, <2>2, InsertLeastFacts
  <2> QED
    BY <2>3 DEF Lowered
<1>3. \A e \in DOMAIN uf : e \in Recent \/ (e[1] \in DOMAIN ufi /\ ufi[e[1]].out <= e[2])
  BY DEF EncodingInv, Pending, IndexPending, Recent
<1>4. ASSUME NEW i \in Known
      PROVE  /\ i \in DOMAIN ufi' /\ (Recent = {} => i \in DOMAIN ufi)
             /\ \E j \in Known : <<i, j>> \in DOMAIN uf /\ j <= ufi'[i].out
             /\ ufi'[i].out \in Known
  <2>1. PICK j \in Known : <<i, j>> \in DOMAIN uf
    BY DEF EncodingInv, Forest, Rooted
  <2>2. PICK e : e = <<i, j>>
    OBVIOUS
  <2>3. e \in DOMAIN uf /\ e[1] = i
    BY <2>1, <2>2
  <2>4. i \in DOMAIN ufi' /\ (e \in Recent \/ i \in DOMAIN ufi)
    BY <1>2, <1>3, <2>3
  <2>5. \/ i \in DOMAIN ufi /\ ufi'[i].out = ufi[i].out
        \/ \E d \in Recent : d[1] = i /\ ufi'[i].out = d[2]
    <3>1. CASE \A d \in Recent : d[1] # i
      <4>1. i \in DOMAIN ufi /\ ufi'[i] = ufi[i]
        BY <1>2, <2>3, <2>4, <3>1
      <4> QED
        BY <4>1
    <3>2. ASSUME NEW d \in Recent, d[1] = i
          PROVE  \/ i \in DOMAIN ufi /\ ufi'[i].out = ufi[i].out
                 \/ \E c \in Recent : c[1] = i /\ ufi'[i].out = c[2]
      <4>1. \/ d[1] \in DOMAIN ufi /\ ufi'[d[1]].out = ufi[d[1]].out
            \/ \E c \in Recent : c[1] = d[1] /\ ufi'[d[1]].out = c[2]
        BY <1>2
      <4> QED
        BY <3>2, <4>1
    <3> QED
      BY <3>1, <3>2
  <2>6. CASE i \in DOMAIN ufi /\ ufi'[i].out = ufi[i].out
    <3>1. \E k \in Known : <<i, k>> \in DOMAIN uf /\ k <= ufi[i].out
      BY <2>6 DEF EncodingInv, Forest, LowEdges
    <3>2. ufi[i].out \in Known
      BY <2>6, TypeFacts
    <3> QED
      BY <2>4, <2>6, <3>1, <3>2
  <2>7. ASSUME NEW d \in Recent, d[1] = i, ufi'[i].out = d[2]
        PROVE  (\E k \in Known : <<i, k>> \in DOMAIN uf /\ k <= ufi'[i].out) /\ ufi'[i].out \in Known
    <3>1. d = <<i, d[2]>> /\ d[2] \in Known /\ d[2] \in Nat /\ d \in DOMAIN uf
      BY <1>1, <2>7
    <3>2. d[2] <= d[2]
      BY <3>1
    <3> QED
      BY <2>7, <3>1, <3>2
  <2> QED
    BY <2>4, <2>5, <2>6, <2>7
<1>5. DOMAIN ufi' = Known
  <2>1. \A i \in DOMAIN ufi' : i \in Known
    <3>1. \A i \in DOMAIN ufi : i \in Known
      BY TypeFacts
    <3> QED
      BY <1>1, <1>2, <3>1
  <2> QED
    BY <1>4, <2>1
<1>6. ASSUME NEW e \in DOMAIN uf PROVE ufi'[e[1]].out <= e[2]
  <2>1. CASE e \in Recent
    BY <1>2, <2>1
  <2>2. ASSUME e[1] \in DOMAIN ufi, ufi[e[1]].out <= e[2] PROVE ufi'[e[1]].out <= e[2]
    <3>1. PICK i : i = e[1]
      OBVIOUS
    <3>2. ufi'[i].out <= ufi[i].out /\ ufi'[i].out \in Nat /\ ufi[i].out \in Nat /\ e[2] \in Nat
      BY <1>1, <1>2, <2>2, <3>1, TypeFacts
    <3> QED
      BY <2>2, <3>1, <3>2
  <2> QED
    BY <1>3, <2>1, <2>2
<1>7. ASSUME NEW i \in Known PROVE ufi'[i].out \in 1..i /\ <<i, ufi'[i].out>> \in DOMAIN uf
  <2>1. PICK j \in Known : <<i, j>> \in DOMAIN uf /\ j <= ufi'[i].out
    BY <1>4
  <2>2. PICK e : e = <<i, j>>
    OBVIOUS
  <2>3. e \in DOMAIN uf /\ e[1] = i /\ e[2] = j
    BY <2>1, <2>2
  <2>4. ufi'[i].out <= j /\ j <= i /\ j \in Nat /\ i \in Nat /\ ufi'[i].out \in Known
    BY <1>1, <1>4, <1>6, <2>3
  <2>5. ufi'[i].out \in Nat /\ 1 <= ufi'[i].out
    BY <2>4, TypeFacts
  <2>6. ufi'[i].out = j
    BY <2>1, <2>4, <2>5
  <2> QED
    BY <2>1, <2>4, <2>5, <2>6
<1>8. IndexStamped
  <2>1. ASSUME NEW i \in DOMAIN ufi' PROVE ufi'[i].ts = ts \/ (i \in DOMAIN ufi /\ ufi'[i] = ufi[i])
    BY <1>2
  <2> QED
    BY <1>2, <2>1 DEF IndexStamped
<1>9. ASSUME Recent = {} PROVE DOMAIN ufi = Known /\ \A i \in Known : ufi'[i] = ufi[i]
  <2>1. DOMAIN ufi = Known
    BY <1>2, <1>5, <1>9
  <2> QED
    BY <1>2, <1>9, <2>1
<1> QED
  BY <1>1, <1>4, <1>5, <1>6, <1>7, <1>8, <1>9

\* The index rule keeps the invariant: the edges it has not seen are new to it, so
\* that afterwards the index has the least edge of every id.
LEMMA FunctionIndexStep == EncodingInv /\ FunctionIndex => EncodingInv'
<1> SUFFICES ASSUME EncodingInv, FunctionIndex PROVE EncodingInv'
  OBVIOUS
<1> DEFINE tables == If(Recent, {UFfTable})
<1>1. /\ ufi' = InsertLeast(ufi, Recent, ts) /\ uf' = uf
      /\ Ran(tables) /\ Running("uf_function_index") /\ UNCHANGED <<term, view, todel, seq>>
  BY IndexMatches
<1>2. at = "uf_function_index" /\ Head(todo) = IndexRule /\ at \in Alone
  BY <1>1, RunningFacts DEF Alone
<1>3. tables \subseteq {UFfTable} /\ (Recent = {} <=> tables = {}) /\ (Recent # {} => UFfTable \in tables)
  BY DEF If
<1>4. tables \in SUBSET Tables
  BY <1>3, TableFacts
<1> HIDE DEF tables
<1>5. /\ ts' \in Nat /\ ts <= ts' /\ classes' = classes
      /\ lastRun'[IndexRule] = ts
      /\ \A r \in Rules : /\ r # IndexRule => lastRun'[r] = lastRun[r]
                          /\ lastRun'[r] \in Nat /\ lastRun'[r] <= ts
      /\ \A t \in Tables : watermark'[t] = IF t \in tables THEN ts ELSE watermark[t]
      /\ RunTypes' /\ TodoInv' /\ Moving(tables)
  BY <1>1, <1>2, <1>4, RanFacts
<1>6. /\ tables # {} => at' = "uf_function_index"
      /\ tables = {} => at' = "rebuilding"
      /\ ts' = ts + 1 /\ updated' = FALSE
  BY <1>2, <1>5, AloneNext
<1>7. tables # {} \/ outer => outer'
  BY <1>2, <1>5, <1>6 DEF Moving
<1>8. /\ IndexStamped /\ DOMAIN ufi' = Known
      /\ \A i \in Known : ufi'[i].out \in Known /\ ufi'[i].out \in 1..i /\ <<i, ufi'[i].out>> \in DOMAIN uf
      /\ \A e \in DOMAIN uf : e[1] \in DOMAIN ufi' /\ ufi'[e[1]].out <= e[2]
      /\ Recent = {} => DOMAIN ufi = Known /\ \A i \in Known : ufi'[i] = ufi[i]
  BY <1>1, <1>2, IndexTables
<1>9. CompressDone
  BY <1>2 DEF EncodingInv, Quiet
<1>10. Types' /\ Stamped /\ Known' = Known
  <2>1. EdgesStamped
    BY <1>1 DEF EdgesStamped
  <2>2. uf' \in [DOMAIN uf' -> Nat] /\ \A e \in DOMAIN uf' : e \in Known \X Known
    BY <1>1 DEF EncodingInv, Types, EdgeTypes
  <2> QED
    BY <1>1, <1>5, <1>8, <2>1, <2>2, UnionFindTypes
<1>11. Older'
  <2>1. at' # "idle"
    BY <1>6
  <2> QED
    BY <1>6, <1>10, <2>1, OlderNext
<1>12. Marked'
  <2>1. UFfTable \notin tables => \A i \in DOMAIN ufi' : i \in DOMAIN ufi /\ ufi'[i] = ufi[i]
    BY <1>3, <1>8
  <2> QED
    BY <1>1, <1>5, <1>10, <2>1, MarkedKept
<1>13. Indexed'
  <2>1. \A i \in Known : \A j \in 1..i : j \in Known
    BY TypeFacts
  <2> QED
    BY <1>8, <1>10, <2>1 DEF Indexed
<1>14. Forest'
  <2>1. Rooted'
    BY <1>1, <1>10 DEF EncodingInv, Forest, Rooted
  <2>2. Descending'
    BY <1>1, <1>2 DEF EncodingInv, Forest, Descending
  <2>3. LowEdges' /\ Entries'
    <3>1. \A i \in Known : ufi'[i].out <= ufi'[i].out
      BY <1>8, TypeFacts
    <3> QED
      BY <1>1, <1>8, <1>10, <3>1 DEF LowEdges, Entries
  <2>4. Leads'
    <3> SUFFICES ASSUME NEW i \in Known PROVE ufi'[ufi'[i].out].out = ufi'[i].out
      BY <1>8 DEF Leads
    <3>1. PICK c, d, p, q : c = ufi'[i].out /\ d = ufi'[c].out /\ p = <<i, c>> /\ q = <<c, d>>
      OBVIOUS
    <3>2. p \in DOMAIN uf /\ q \in DOMAIN uf /\ p[2] = c /\ q[1] = c /\ q[2] = d
      BY <1>8, <3>1
    <3> QED
      BY <1>9, <3>1, <3>2 DEF CompressDone
  <2> QED
    BY <2>1, <2>2, <2>3, <2>4 DEF Forest
<1>15. Quiet'
  <2>1. CompressDone' /\ IndexDone'
    BY <1>1, <1>8, <1>9 DEF CompressDone, IndexDone
  <2>2. CASE tables # {}
    BY <1>6, <1>7, <2>1, <2>2 DEF Quiet
  <2>3. CASE tables = {}
    <3>1. ~outer' => ParentDone
      <4>1. ~outer' => ~outer /\ ~updated
        BY <1>2, <1>7 DEF EncodingInv, TodoInv
      <4> QED
        BY <1>2, <4>1 DEF EncodingInv, Quiet
    <3>2. ~outer' => ParentDone'
      BY <1>1, <1>3, <1>8, <2>3, <3>1 DEF ParentDone
    <3> QED
      BY <1>6, <2>1, <2>3, <3>2 DEF Quiet
  <2> QED
    BY <2>2, <2>3
<1>16. LinksKept
  BY <1>1 DEF LinksKept, Respects
<1>17. Sound' /\ Least'
  <2>1. Respects(classes)'
    BY <1>1, <1>5 DEF EncodingInv, Sound, IsCongruence, Respects
  <2>2. \A i \in DOMAIN ufi' : classes[ufi'[i].out] = classes[i]
    <3> SUFFICES ASSUME NEW i \in Known PROVE classes[ufi'[i].out] = classes[i]
      BY <1>8
    <3>1. PICK j, e : j = ufi'[i].out /\ e = <<i, j>>
      OBVIOUS
    <3>2. e \in DOMAIN uf' /\ e[1] = i /\ e[2] = j
      BY <1>1, <1>8, <3>1
    <3> QED
      BY <1>5, <2>1, <3>1, <3>2 DEF Respects
  <2> QED
    BY <1>1, <1>5, <1>16, <2>1, <2>2, ClassesKept
<1>18. Pending'
  <2>1. IndexPending'
    BY <1>1, <1>8 DEF IndexPending
  <2>2. IndexTypes'
    BY <1>10 DEF Types
  <2>3. /\ ParentRule # IndexRule /\ CompressRule # IndexRule
        /\ \A f : CongruenceOf(f) # IndexRule /\ RebuildOf(f) # IndexRule /\ DeleteOf(f) # IndexRule
    BY DEF CompressRule, IndexRule, ParentRule, CongruenceOf, RebuildOf, DeleteOf, Rule
  <2>4. /\ lastRun'[ParentRule] = lastRun[ParentRule] /\ lastRun'[CompressRule] = lastRun[CompressRule]
        /\ \A f \in Names : /\ lastRun'[CongruenceOf(f)] = lastRun[CongruenceOf(f)]
                            /\ lastRun'[RebuildOf(f)] = lastRun[RebuildOf(f)]
                            /\ lastRun'[DeleteOf(f)] = lastRun[DeleteOf(f)]
    BY <1>5, <2>3, RuleFacts
  <2> QED
    BY <1>5, <1>10, <1>16, <2>1, <2>2, <2>4, PendingKept DEF Pending
<1>19. Rebuilt'
  BY <1>6 DEF Rebuilt
<1> QED
  BY <1>5, <1>10, <1>11, <1>12, <1>13, <1>14, <1>15, <1>17, <1>18, <1>19 DEF EncodingInv

-----------------------------------------------------------------------------
(* The rebuilding ruleset. *)

\* An edge leads down between its two ids.
LEMMA EdgeFacts ==
  ASSUME NEW x \in Nat, NEW y \in Nat
  PROVE  /\ Edge(x, y) = <<x, y>> \/ Edge(x, y) = <<y, x>>
         /\ Edge(x, y)[2] <= Edge(x, y)[1]
         /\ Edge(x, y) = <<Edge(x, y)[1], Edge(x, y)[2]>>
<1> DEFINE S == {x, y}
<1>1. Min(S) \in S /\ \A i \in S : Min(S) <= i
  <2>1. S \in SUBSET Nat /\ S # {}
    OBVIOUS
  <2> HIDE DEF S
  <2> QED
    BY <2>1, MinFacts
<1>2. Max(S) \in S /\ \A i \in S : Max(S) >= i
  <2>1. \E m \in S : \A i \in S : m >= i
    <3>1. CASE x <= y
      BY <3>1
    <3>2. CASE y <= x
      BY <3>2
    <3> QED
      BY <3>1, <3>2
  <2> QED
    BY <2>1 DEF Max
<1>3. PICK a, b : a = Max(S) /\ b = Min(S)
  OBVIOUS
<1>4. Edge(x, y) = <<a, b>>
  BY <1>3 DEF Edge
<1>5. a \in {x, y} /\ b \in {x, y} /\ a >= x /\ a >= y /\ b <= x /\ b <= y
  BY <1>1, <1>2, <1>3
<1>6. (a = x /\ b = y) \/ (a = y /\ b = x)
  BY <1>5
<1> QED
  BY <1>4, <1>5, <1>6

\* What the congruence rule has left to equate is linked, no row is stale and no edge is
\* astray: then the index holds the classes.
LEMMA QuietExact ==
  ASSUME EncodingInv, at = "rebuilding", ParentDone, \A f \in Names : Stale(f) = {},
         \A f \in Names : \A r, q \in DOMAIN view[f] : Args(r) = Args(q) => Linked(Class(r), Class(q))
  PROVE  Exact
<1>1. DOMAIN ufi = Known /\ \A i \in Known : i \in Ids /\ ufi[i].out \in Known /\ ufi[i].out <= i /\ i \in Nat
  BY TypeFacts DEF EncodingInv, Indexed
<1> DEFINE l == [i \in Ids |-> IF i \in Known THEN ufi[i].out ELSE i]
<1>2. l \in [Ids -> Ids] /\ \A i \in Known : l[i] = ufi[i].out
  BY <1>1
<1> HIDE DEF l
<1>3. \A i \in Known : ufi[ufi[i].out].out = ufi[i].out
  BY <1>1 DEF EncodingInv, Forest, Leads, Alone
<1>4. \A e \in DOMAIN uf : e[1] \in Known /\ e[2] = ufi[e[1]].out
  BY <1>1, TypeFacts DEF ParentDone
<1>5. Respects(l)
  <2> SUFFICES ASSUME NEW e \in DOMAIN uf PROVE l[e[1]] = l[e[2]]
    BY DEF Respects
  <2>1. PICK a, b : a = e[1] /\ b = e[2]
    OBVIOUS
  <2>2. a \in Known /\ b = ufi[a].out /\ b \in Known
    BY <1>1, <1>4, <2>1
  <2> QED
    BY <1>2, <1>3, <2>1, <2>2
<1>6. ASSUME NEW f \in Names, NEW r \in DOMAIN view[f]
      PROVE  /\ r \in RowsOf(f, Known) /\ r \in RowsOf(f, Ids)
             /\ \A k \in 1..LastColumn(f) : r[k] \in Known /\ l[r[k]] = r[k] /\ ufi[r[k]].out = r[k]
  <2>1. r \in RowsOf(f, Known) /\ r \in RowsOf(f, Ids)
    BY TypeFacts
  <2>2. DOMAIN r = 1..LastColumn(f) /\ \A k \in 1..LastColumn(f) : r[k] \in Known
    BY <2>1 DEF RowsOf, LastColumn
  <2>3. r \notin Stale(f)
    OBVIOUS
  <2>4. \A k \in DOMAIN r : r[k] = ufi[r[k]].out
    BY <1>1, <2>2, <2>3 DEF Stale, Range
  <2> QED
    BY <1>2, <2>1, <2>2, <2>4
<1>7. ASSUME NEW f \in Names, NEW r \in DOMAIN view[f] PROVE Renamed(l, Args(r)) = Args(r)
  <2>1. r \in RowsOf(f, Known)
    BY <1>6
  <2>2. \A i \in Known : l[i] \in Ids
    BY <1>1, <1>2
  <2>3. /\ Renamed(l, Args(r)) \in ArgsOf(f, Ids)
        /\ \A k \in 1..Arity[f] : Renamed(l, Args(r))[k] = l[r[k]]
    BY <2>1, <2>2, RenamedParts
  <2>4. Args(r) \in ArgsOf(f, Ids) /\ \A k \in 1..Arity[f] : Args(r)[k] = r[k]
    BY <1>6, RowParts
  <2>5. \A k \in 1..Arity[f] : Renamed(l, Args(r))[k] = Args(r)[k]
    BY <1>6, <2>3, <2>4, Columns
  <2> DEFINE D == 1..Arity[f]
  <2>6. Renamed(l, Args(r)) \in [D -> Ids] /\ Args(r) \in [D -> Ids]
    BY <2>3, <2>4 DEF ArgsOf
  <2>7. \A k \in D : Renamed(l, Args(r))[k] = Args(r)[k]
    BY <2>5
  <2> HIDE DEF D
  <2> QED
    BY <2>6, <2>7, SameFunction
<1>8. IsCongruence(l, DOMAIN uf, ViewRows)
  <2>1. ASSUME NEW f \in Names, NEW r \in ViewRows[f], NEW q \in ViewRows[f],
               Renamed(l, Args(r)) = Renamed(l, Args(q))
        PROVE  l[Class(r)] = l[Class(q)]
    <3>1. r \in DOMAIN view[f] /\ q \in DOMAIN view[f]
      BY DEF ViewRows
    <3>2. Args(r) = Args(q)
      BY <1>7, <2>1, <3>1
    <3> QED
      BY <1>2, <1>5, <3>1, <3>2 DEF Linked
  <2> QED
    BY <1>5, <2>1 DEF IsCongruence, Respects
<1>9. Includes(l, classes)
  BY <1>2, <1>8 DEF EncodingInv, Least
<1>10. ASSUME NEW i \in Known PROVE ufi[i].out = classes[i]
  <2>1. PICK c, o : c = classes[i] /\ o = ufi[i].out
    OBVIOUS
  <2>2. i \in Ids /\ c \in Ids /\ c <= i /\ c \in Nat /\ 1 <= c /\ o \in Known /\ o \in Ids /\ o \in Nat
    BY <1>1, <2>1, TypeFacts, IdsAreNumbers DEF EncodingInv, Sound
  <2>3. c \in Known
    BY <1>1, <2>2, TypeFacts
  <2>4. l[c] = l[i]
    BY <1>9, <2>1, <2>2 DEF Includes
  <2>5. o <= c
    BY <1>1, <1>2, <2>1, <2>3, <2>4
  <2>6. classes[o] = c /\ classes[o] <= o
    BY <1>1, <2>1, <2>2 DEF EncodingInv, Sound
  <2> QED
    BY <2>1, <2>2, <2>5, <2>6
<1>11. \A i \in 1..(seq - 1) : i \in DOMAIN ufi /\ ufi[i].out = classes[i]
  BY <1>1, <1>10 DEF Known
<1>12. \A e \in DOMAIN uf : e[2] = classes[e[1]]
  BY <1>4, <1>10
<1>13. ASSUME NEW f \in Names, NEW r \in DOMAIN view[f] PROVE Renamed(classes, r) = r
  <2>1. r \in RowsOf(f, Ids) /\ \A i \in Ids : classes[i] \in Ids
    BY <1>6, TypeFacts
  <2>2. Renamed(classes, r) \in RowsOf(f, Ids) /\ \A k \in 1..LastColumn(f) : Renamed(classes, r)[k] = classes[r[k]]
    <3>1. PICK c : c = classes
      OBVIOUS
    <3>2. \A i \in Ids : c[i] \in Ids
      BY <2>1, <3>1
    <3>3. Renamed(c, r) \in RowsOf(f, Ids)
      BY <2>1, <3>2, RenamedParts
    <3>4. \A k \in 1..LastColumn(f) : Renamed(c, r)[k] = c[r[k]]
      BY <2>1 DEF Renamed, RowsOf, LastColumn
    <3> QED
      BY <3>1, <3>3, <3>4
  <2>3. \A k \in 1..LastColumn(f) : Renamed(classes, r)[k] = r[k]
    BY <1>6, <1>10, <2>2
  <2> DEFINE D == 1..LastColumn(f)
  <2>4. Renamed(classes, r) \in [D -> Ids] /\ r \in [D -> Ids]
    BY <2>1, <2>2 DEF RowsOf, LastColumn
  <2>5. \A k \in D : Renamed(classes, r)[k] = r[k]
    BY <2>3
  <2> HIDE DEF D
  <2> QED
    BY <2>4, <2>5, SameFunction
<1>14. ASSUME NEW f \in Names, NEW r \in DOMAIN view[f], NEW q \in DOMAIN view[f], Args(r) = Args(q) PROVE r = q
  <2>1. r \in RowsOf(f, Ids) /\ q \in RowsOf(f, Ids)
    BY <1>6
  <2>2. l[Class(r)] = l[Class(q)]
    BY <1>2, <1>5, <1>14 DEF Linked
  <2>3. Class(r) = r[LastColumn(f)] /\ Class(q) = q[LastColumn(f)] /\ LastColumn(f) \in 1..LastColumn(f)
    BY <2>1, RowParts, Columns
  <2>4. Class(r) = Class(q)
    BY <1>6, <2>2, <2>3
  <2> QED
    BY <1>14, <2>1, <2>4, RowsEqual
<1> QED
  BY <1>11, <1>12, <1>13, <1>14 DEF Exact

\* A step that changes only timestamps keeps the tables exact.
LEMMA ExactKept ==
  ASSUME Exact, UNCHANGED <<ufi, classes, seq>>, DOMAIN uf' = DOMAIN uf,
         \A f \in Names : DOMAIN view'[f] = DOMAIN view[f]
  PROVE  Exact'
<1>1. \A i \in 1..(seq' - 1) : i \in DOMAIN ufi' /\ ufi'[i].out = classes'[i]
  BY DEF Exact
<1>2. \A e \in DOMAIN uf' : e[2] = classes'[e[1]]
  BY DEF Exact
<1>3. ASSUME NEW f \in Names, NEW r \in DOMAIN view'[f], NEW q \in DOMAIN view'[f]
      PROVE  Renamed(classes', r) = r /\ (Args(r) = Args(q) => r = q)
  <2>1. r \in DOMAIN view[f] /\ q \in DOMAIN view[f]
    OBVIOUS
  <2> QED
    BY <2>1 DEF Exact
<1> QED
  BY <1>1, <1>2, <1>3 DEF Exact

\* After the rebuild rules: another pass if this one changed anything.
LEMMA RebuildingNext ==
  ASSUME EncodingInv, at = "rebuilding", NEW tables, Staying(tables) \/ Moving(tables)
  PROVE  \/ Staying(tables) /\ at' = "rebuilding" /\ ts' = ts /\ outer' = outer /\ updated' = (updated \/ tables # {})
         \/ Moving(tables) /\ at' = "single_parent" /\ ts' = ts + 1 /\ updated' = FALSE /\ outer' = FALSE
         \/ Moving(tables) /\ at' = "delete_subsume" /\ ts' = ts + 1 /\ ~updated /\ ~outer /\ tables = {}
BY DEF Staying, Moving, After

\* A pass of the rebuild rules that found nothing ends it.
LEMMA RebuildingEnd ==
  ASSUME EncodingInv, at = "rebuilding", Moving({}), ~updated, ~outer, UNCHANGED <<ufi, classes, seq>>,
         DOMAIN uf' = DOMAIN uf,
         \A f \in Names : /\ DOMAIN view'[f] = DOMAIN view[f]
                          /\ \A r \in DOMAIN view[f] : view'[f][r] = view[f][r],
         \A f \in Names : CongruencePending(f)' /\ RebuildPending(f)'
  PROVE  Exact'
<1>1. ParentDone
  BY DEF EncodingInv, Quiet
<1>2. ASSUME NEW f \in Names PROVE lastRun'[CongruenceOf(f)] = ts /\ lastRun'[RebuildOf(f)] = ts
  BY RulesetFacts, CtorRules DEF Moving
<1>3. /\ \A i \in DOMAIN ufi : ufi[i].ts < ts /\ ufi[i].ts \in Nat
      /\ \A f \in Names : \A r \in DOMAIN view[f] : view[f][r] < ts /\ view[f][r] \in Nat
      /\ ts \in Nat
  BY RulesetFacts, TypeFacts DEF EncodingInv, Older
<1>4. ASSUME NEW f \in Names, NEW r \in Stale(f) PROVE FALSE
  <2>1. r \in DOMAIN view[f] /\ \A k \in DOMAIN r : r[k] \in DOMAIN ufi
    BY DEF Stale, Range
  <2>2. r \in Stale(f)'
    BY <2>1 DEF Stale
  <2>3. PICK k \in DOMAIN r : ufi'[r[k]].ts >= lastRun'[RebuildOf(f)]
    BY <2>2 DEF RebuildPending
  <2> QED
    BY <1>2, <1>3, <2>1, <2>3
<1>5. ASSUME NEW f \in Names, NEW r \in DOMAIN view[f], NEW q \in DOMAIN view[f], Args(r) = Args(q)
      PROVE  Linked(Class(r), Class(q))
  <2>1. r \in DOMAIN view'[f] /\ q \in DOMAIN view'[f]
    OBVIOUS
  <2>2. \/ view'[f][r] >= lastRun'[CongruenceOf(f)] \/ view'[f][q] >= lastRun'[CongruenceOf(f)]
        \/ Linked(Class(r), Class(q))'
    BY <1>5, <2>1 DEF CongruencePending
  <2>3. Linked(Class(r), Class(q))'
    BY <1>2, <1>3, <2>2
  <2> QED
    BY <2>3 DEF Linked, Respects
<1>6. Exact
  BY <1>1, <1>4, <1>5, QuietExact
<1> QED
  BY <1>6, ExactKept

-----------------------------------------------------------------------------
(* congruence_rule. *)

\* The pairs of rows that the rule equates, and the edges it adds for them.
Twins(f) ==
  {p \in (DOMAIN view[f]) \X (DOMAIN view[f]) :
     /\ Args(p[1]) = Args(p[2]) /\ Class(p[1]) > Class(p[2])
     /\ view[f][p[1]] < ts /\ view[f][p[2]] < ts
     /\ view[f][p[1]] >= lastRun[CongruenceOf(f)] \/ view[f][p[2]] >= lastRun[CongruenceOf(f)]}
Merges(f) == {Edge(Class(p[1]), Class(p[2])) : p \in Twins(f)}

\* The congruence rule unites the twins; when it is skipped there are none.
LEMMA CongruenceMatches ==
  ASSUME EncodingInv, CongruenceRule
  PROVE  /\ uf' = InsertIgnore(uf, Merges(Fn), ts)
         /\ Ran(If(Merges(Fn) \ DOMAIN uf, {UFTable}))
         /\ Running("congruence_rule") /\ UNCHANGED <<ufi, term, view, todel, seq>>
<1> DEFINE v == view[Fn]
           Found(p) == /\ Open({View(Fn)})
                       /\ Args(p[1]) = Args(p[2]) /\ Class(p[1]) > Class(p[2])
                       /\ New(<<v[p[1]], v[p[2]]>>)
           matches == {p \in (DOMAIN v) \X (DOMAIN v) : Found(p)}
           edges == {Edge(Class(p[1]), Class(p[2])) : p \in matches}
<1>1. /\ Running("congruence_rule")
      /\ uf' = InsertIgnore(uf, edges, ts)
      /\ Ran(If(edges \ DOMAIN uf, {UFTable})) /\ UNCHANGED <<ufi, term, view, todel, seq>>
  BY Zenon DEF CongruenceRule
<1>2. PICK f \in Names : f = Fn
  BY <1>1, RunningFacts
<1>3. Since = lastRun[CongruenceOf(f)] /\ Since \in Nat /\ Since <= ts /\ ts \in Nat
  BY <1>1, <1>2, RunningFacts DEF Since
<1>4. ASSUME NEW p, p \in (DOMAIN v) \X (DOMAIN v) PROVE Found(p) <=> p \in Twins(f)
  <2>1. PICK r, q : r = p[1] /\ q = p[2] /\ r \in DOMAIN view[f] /\ q \in DOMAIN view[f]
    BY <1>2, <1>4
  <2>2. view[f][r] \in Nat /\ view[f][q] \in Nat
    BY <2>1, TypeFacts
  <2>3. New(<<view[f][r], view[f][q]>>) <=>
          view[f][r] < ts /\ view[f][q] < ts /\ (view[f][r] >= Since \/ view[f][q] >= Since)
    BY <1>3, <2>2, DeltaTwo DEF New
  <2>4. view[f][r] >= Since \/ view[f][q] >= Since => Open({View(f)})
    <3>1. view[f][r] <= watermark[View(f)] /\ view[f][q] <= watermark[View(f)] /\ watermark[View(f)] \in Nat
      BY <2>1, TypeFacts, TableFacts DEF EncodingInv, Marked
    <3>2. view[f][r] >= Since \/ view[f][q] >= Since => watermark[View(f)] >= Since
      BY <1>3, <2>2, <3>1
    <3> QED
      BY <3>2 DEF Open
  <2>5. Found(p) <=> /\ Open({View(f)}) /\ Args(r) = Args(q) /\ Class(r) > Class(q)
                     /\ New(<<view[f][r], view[f][q]>>)
    BY <1>2, <2>1
  <2>6. p \in Twins(f) <=> /\ Args(r) = Args(q) /\ Class(r) > Class(q)
                           /\ view[f][r] < ts /\ view[f][q] < ts
                           /\ view[f][r] >= lastRun[CongruenceOf(f)] \/ view[f][q] >= lastRun[CongruenceOf(f)]
    BY <1>2, <1>4, <2>1 DEF Twins
  <2> HIDE DEF Found
  <2> QED
    BY <1>3, <2>3, <2>4, <2>5, <2>6
<1>5. matches = Twins(f)
  <2>1. \A p \in Twins(f) : p \in (DOMAIN v) \X (DOMAIN v)
    BY <1>2 DEF Twins
  <2> HIDE DEF Found, v
  <2> QED
    BY <1>4, <2>1
<1>6. edges = Merges(f)
  <2> HIDE DEF matches
  <2> QED
    BY <1>5 DEF Merges
<1> HIDE DEF edges
<1> QED
  BY <1>1, <1>2, <1>6

\* What it adds: edges down between known ids that congruence equates.
LEMMA MergeFacts ==
  ASSUME EncodingInv, NEW f \in Names
  PROVE  /\ \A e \in Merges(f) : e \in Known \X Known /\ e[2] <= e[1] /\ classes[e[1]] = classes[e[2]]
         /\ \A p \in Twins(f) : \E e \in Merges(f) : \/ e[1] = Class(p[1]) /\ e[2] = Class(p[2])
                                                     \/ e[1] = Class(p[2]) /\ e[2] = Class(p[1])
<1>1. ASSUME NEW p \in Twins(f)
      PROVE  LET e == Edge(Class(p[1]), Class(p[2]))
             IN  /\ e \in Known \X Known /\ e[2] <= e[1] /\ classes[e[1]] = classes[e[2]]
                 /\ \/ e[1] = Class(p[1]) /\ e[2] = Class(p[2])
                    \/ e[1] = Class(p[2]) /\ e[2] = Class(p[1])
  <2>1. PICK r, q : r = p[1] /\ q = p[2]
    OBVIOUS
  <2>2. r \in DOMAIN view[f] /\ q \in DOMAIN view[f] /\ Args(r) = Args(q)
    BY <2>1 DEF Twins
  <2>3. PICK x, y : x = Class(r) /\ y = Class(q)
    OBVIOUS
  <2>4. x \in Known /\ y \in Known
    <3>1. r \in RowsOf(f, Known) /\ q \in RowsOf(f, Known)
      BY <2>2, TypeFacts
    <3> QED
      BY <2>3, <3>1, RowParts
  <2>5. x \in Nat /\ y \in Nat
    BY <2>4, TypeFacts
  <2>6. classes[x] = classes[y]
    <3>1. r \in ViewRows[f] /\ q \in ViewRows[f]
      BY <2>2 DEF ViewRows
    <3>2. Renamed(classes, Args(r)) = Renamed(classes, Args(q))
      BY <2>2
    <3> QED
      BY <2>3, <3>1, <3>2 DEF EncodingInv, Sound, IsCongruence
  <2>7. PICK e : e = Edge(x, y)
    OBVIOUS
  <2>8. (e = <<x, y>> \/ e = <<y, x>>) /\ e[2] <= e[1]
    BY <2>5, <2>7, EdgeFacts
  <2>9. /\ e \in Known \X Known /\ e[2] <= e[1] /\ classes[e[1]] = classes[e[2]]
        /\ (e[1] = x /\ e[2] = y) \/ (e[1] = y /\ e[2] = x)
    BY <2>4, <2>6, <2>8
  <2> QED
    BY <2>1, <2>3, <2>7, <2>9
<1>2. ASSUME NEW e \in Merges(f) PROVE e \in Known \X Known /\ e[2] <= e[1] /\ classes[e[1]] = classes[e[2]]
  <2>1. PICK p \in Twins(f) : e = Edge(Class(p[1]), Class(p[2]))
    BY DEF Merges
  <2> QED
    BY <1>1, <2>1
<1>3. ASSUME NEW p \in Twins(f)
      PROVE  \E e \in Merges(f) : \/ e[1] = Class(p[1]) /\ e[2] = Class(p[2])
                                  \/ e[1] = Class(p[2]) /\ e[2] = Class(p[1])
  <2>1. PICK e : e = Edge(Class(p[1]), Class(p[2]))
    OBVIOUS
  <2>2. e \in Merges(f)
    BY <2>1 DEF Merges
  <2> QED
    BY <1>1, <2>1, <2>2
<1> QED
  BY <1>2, <1>3

\* More edges down, and what the invariant says of the forest holds.
LEMMA ForestGrows ==
  ASSUME EncodingInv, UNCHANGED <<ufi, seq>>, at \notin Alone,
         \A e \in DOMAIN uf : e \in DOMAIN uf',
         \A e \in DOMAIN uf' : e \in DOMAIN uf \/ e[2] <= e[1]
  PROVE  Forest'
<1>1. Known' = Known
  BY DEF Known
<1>2. at \notin {"path_compress", "uf_function_index"} /\ at # "single_parent"
  BY DEF Alone
<1>3. Rooted' /\ LowEdges'
  BY <1>1 DEF EncodingInv, Forest, Rooted, LowEdges
<1>4. Descending'
  BY <1>2 DEF EncodingInv, Forest, Descending
<1>5. Entries' /\ Leads'
  BY <1>2 DEF EncodingInv, Forest, Entries, Leads
<1> QED
  BY <1>3, <1>4, <1>5 DEF Forest

\* The congruence rule keeps the invariant: it unites what is congruent.
LEMMA CongruenceRuleStep == EncodingInv /\ CongruenceRule => EncodingInv'
<1> SUFFICES ASSUME EncodingInv, CongruenceRule PROVE EncodingInv'
  OBVIOUS
<1>0. PICK f \in Names : f = Fn
  BY RunningFacts DEF CongruenceRule
<1> DEFINE tables == If(Merges(f) \ DOMAIN uf, {UFTable})
<1>1. /\ uf' = InsertIgnore(uf, Merges(f), ts)
      /\ Ran(tables) /\ Running("congruence_rule") /\ UNCHANGED <<ufi, term, view, todel, seq>>
  BY <1>0, CongruenceMatches
<1>2. at = "rebuilding" /\ Head(todo) = CongruenceOf(f) /\ at \notin Alone /\ ts \in Nat
  BY <1>0, <1>1, RunningFacts DEF Alone
<1>3. tables \subseteq {UFTable} /\ (tables = {} <=> Merges(f) \subseteq DOMAIN uf)
      /\ (tables # {} => UFTable \in tables)
  BY DEF If
<1>4. tables \in SUBSET Tables
  BY <1>3, TableFacts
<1> HIDE DEF tables
<1>5. /\ ts' \in Nat /\ ts <= ts' /\ classes' = classes
      /\ lastRun'[CongruenceOf(f)] = ts
      /\ \A r \in Rules : /\ r # CongruenceOf(f) => lastRun'[r] = lastRun[r]
                          /\ lastRun'[r] \in Nat /\ lastRun'[r] <= ts
      /\ \A t \in Tables : watermark'[t] = IF t \in tables THEN ts ELSE watermark[t]
      /\ RunTypes' /\ TodoInv' /\ (Staying(tables) \/ Moving(tables))
  BY <1>1, <1>2, <1>4, RanFacts
<1>6. \/ Staying(tables) /\ at' = "rebuilding" /\ ts' = ts /\ outer' = outer /\ updated' = (updated \/ tables # {})
      \/ Moving(tables) /\ at' = "single_parent" /\ ts' = ts + 1 /\ updated' = FALSE /\ outer' = FALSE
      \/ Moving(tables) /\ at' = "delete_subsume" /\ ts' = ts + 1 /\ ~updated /\ ~outer /\ tables = {}
  BY <1>2, <1>5, RebuildingNext
<1>7. /\ DOMAIN uf' = DOMAIN uf \cup Merges(f) /\ uf' \in [DOMAIN uf' -> Nat]
      /\ \A e \in DOMAIN uf' : uf'[e] = ts \/ (e \in DOMAIN uf /\ uf'[e] = uf[e])
      /\ tables = {} => uf' = uf
  <2>1. DOMAIN uf' = DOMAIN uf \cup Merges(f)
    BY <1>1 DEF InsertIgnore
  <2>2. \A e \in DOMAIN uf' : uf'[e] = ts \/ (e \in DOMAIN uf /\ uf'[e] = uf[e])
    BY <1>1 DEF InsertIgnore
  <2>3. uf' \in [DOMAIN uf' -> Nat]
    <3>1. \A e \in DOMAIN uf : uf[e] \in Nat
      BY TypeFacts
    <3> QED
      BY <1>1, <1>2, <3>1, StampedTable
  <2>4. ASSUME tables = {} PROVE uf' = uf
    <3>1. uf \in [DOMAIN uf -> Nat] /\ Merges(f) \in SUBSET DOMAIN uf
      BY <1>3, <2>4 DEF EncodingInv, Types, EdgeTypes
    <3> QED
      BY <1>1, <3>1, InsertIgnoreSame
  <2> QED
    BY <2>1, <2>2, <2>3, <2>4
<1>8. \A e \in Merges(f) : e \in Known \X Known /\ e[2] <= e[1] /\ classes[e[1]] = classes[e[2]]
  BY MergeFacts
<1>9. Types' /\ Stamped /\ Known' = Known
  <2>1. EdgesStamped /\ IndexStamped
    <3>1. \A i \in DOMAIN ufi : ufi[i].out <= ufi[i].out
      BY TypeFacts
    <3> QED
      BY <1>1, <1>7, <3>1 DEF EdgesStamped, IndexStamped
  <2>2. \A e \in DOMAIN uf' : e \in Known \X Known
    BY <1>7, <1>8, TypeFacts
  <2>3. \A i \in DOMAIN ufi' : i \in Known /\ ufi'[i].out \in 1..i
    BY <1>1 DEF EncodingInv, Types, IndexTypes
  <2> QED
    BY <1>1, <1>5, <1>7, <2>1, <2>2, <2>3, UnionFindTypes
<1>10. Older'
  <2>1. CASE at' = "rebuilding" /\ ts' = ts /\ updated' = (updated \/ tables # {})
    <3>1. /\ \A i \in DOMAIN ufi' : ufi'[i].ts < ts'
          /\ \A g \in Names : \A a \in DOMAIN todel'[g] : todel'[g][a] < ts'
      BY <1>1, <1>2, <2>1, RulesetFacts DEF EncodingInv, Older
    <3>2. \A g \in Names : \A r \in Stale(g)' : view'[g][r] < ts'
      <4>1. \A g \in Names : Stale(g)' = Stale(g)
        BY <1>1 DEF Stale
      <4>2. \A g \in Names : \A r \in Stale(g) : view[g][r] < ts
        BY <1>2 DEF EncodingInv, Older
      <4> QED
        BY <1>1, <2>1, <4>1, <4>2
    <3>3. ~updated' => /\ \A e \in DOMAIN uf' : uf'[e] < ts'
                       /\ \A g \in Names : \A r \in DOMAIN view'[g] : view'[g][r] < ts'
      <4>1. ~updated' => ~updated /\ tables = {}
        BY <2>1
      <4>2. ~updated => /\ \A e \in DOMAIN uf : uf[e] < ts
                        /\ \A g \in Names : \A r \in DOMAIN view[g] : view[g][r] < ts
        BY <1>2, RulesetFacts DEF EncodingInv, Older
      <4> QED
        BY <1>1, <1>7, <2>1, <4>1, <4>2
    <3> QED
      BY <2>1, <3>1, <3>2, <3>3 DEF Older
  <2>2. CASE at' # "idle" /\ ts' = ts + 1
    BY <1>9, <2>2, OlderNext
  <2> QED
    BY <1>6, <2>1, <2>2
<1>11. Marked'
  <2>1. UFTable \notin tables => \A e \in DOMAIN uf' : e \in DOMAIN uf /\ uf'[e] = uf[e]
    BY <1>3, <1>7
  <2> QED
    BY <1>1, <1>5, <1>9, <2>1, MarkedKept
<1>12. Indexed'
  BY <1>1, <1>2, <1>9 DEF EncodingInv, Indexed
<1>13. Forest'
  BY <1>1, <1>2, <1>7, <1>8, ForestGrows
<1>14. Quiet'
  <2>1. CASE at' = "rebuilding" /\ updated' = (updated \/ tables # {}) /\ outer' = outer
    <3>1. ~updated' => ~updated /\ uf' = uf
      BY <1>7, <2>1
    <3> QED
      BY <1>1, <1>2, <2>1, <3>1 DEF EncodingInv, Quiet, ParentDone, CompressDone, IndexDone
  <2>2. CASE at' \in {"single_parent", "delete_subsume"}
    BY <2>2 DEF Quiet
  <2> QED
    BY <1>6, <2>1, <2>2
<1>15. LinksKept
  BY <1>7 DEF LinksKept, Respects
<1>16. Sound' /\ Least'
  <2>1. Respects(classes)'
    <3>1. \A e \in DOMAIN uf : classes[e[1]] = classes[e[2]]
      BY DEF EncodingInv, Sound, IsCongruence
    <3> QED
      BY <1>5, <1>7, <1>8, <3>1 DEF Respects
  <2>2. \A i \in DOMAIN ufi' : classes[ufi'[i].out] = classes[i]
    BY <1>1 DEF EncodingInv, Sound
  <2> QED
    BY <1>1, <1>5, <1>15, <2>1, <2>2, ClassesKept
<1>17. CongruencePending(f)'
  <2> SUFFICES ASSUME NEW r \in DOMAIN view[f], NEW q \in DOMAIN view[f], Args(r) = Args(q),
                      view[f][r] < ts, view[f][q] < ts
               PROVE  Linked(Class(r), Class(q))'
    <3>1. \A s \in DOMAIN view[f] : view[f][s] < ts \/ view[f][s] >= ts
      BY <1>2, TypeFacts
    <3> QED
      BY <1>1, <1>5, <3>1 DEF CongruencePending
  <2>1. CASE view[f][r] >= lastRun[CongruenceOf(f)] \/ view[f][q] >= lastRun[CongruenceOf(f)]
    <3>1. PICK x, y : x = Class(r) /\ y = Class(q)
      OBVIOUS
    <3>2. x \in Nat /\ y \in Nat
      <4>1. r \in RowsOf(f, Known) /\ q \in RowsOf(f, Known)
        BY TypeFacts
      <4>2. x \in Known /\ y \in Known
        BY <3>1, <4>1, RowParts
      <4> QED
        BY <4>2, TypeFacts
    <3>3. CASE x = y
      BY <3>1, <3>3 DEF Linked
    <3>4. CASE x # y
      <4>1. <<r, q>> \in Twins(f) \/ <<q, r>> \in Twins(f)
        <5>1. x > y \/ y > x
          BY <3>2, <3>4
        <5> QED
          BY <2>1, <3>1, <5>1 DEF Twins
      <4>2. PICK p \in Twins(f) : p = <<r, q>> \/ p = <<q, r>>
        BY <4>1
      <4>3. PICK e \in Merges(f) : \/ e[1] = Class(p[1]) /\ e[2] = Class(p[2])
                                   \/ e[1] = Class(p[2]) /\ e[2] = Class(p[1])
        BY MergeFacts
      <4>4. (e[1] = x /\ e[2] = y) \/ (e[1] = y /\ e[2] = x)
        BY <3>1, <4>2, <4>3
      <4>5. e \in DOMAIN uf'
        BY <1>7
      <4> QED
        BY <3>1, <4>4, <4>5 DEF Linked, Respects
    <3> QED
      BY <3>3, <3>4
  <2>2. CASE Linked(Class(r), Class(q))
    BY <1>15, <2>2 DEF Linked, LinksKept
  <2> QED
    BY <2>1, <2>2 DEF EncodingInv, Pending, CongruencePending
<1>18. Pending'
  <2>1. IndexTypes'
    BY <1>9 DEF Types
  <2>2. /\ ParentRule # CongruenceOf(f) /\ IndexRule # CongruenceOf(f) /\ CompressRule # CongruenceOf(f)
        /\ \A g : /\ RebuildOf(g) # CongruenceOf(f) /\ DeleteOf(g) # CongruenceOf(f)
                  /\ g # f => CongruenceOf(g) # CongruenceOf(f)
    BY DEF CompressRule, IndexRule, ParentRule, CongruenceOf, RebuildOf, DeleteOf, Rule
  <2>3. /\ lastRun'[ParentRule] = lastRun[ParentRule] /\ lastRun'[IndexRule] = lastRun[IndexRule]
        /\ lastRun'[CompressRule] = lastRun[CompressRule]
        /\ \A g \in Names : /\ g # f => lastRun'[CongruenceOf(g)] = lastRun[CongruenceOf(g)]
                            /\ lastRun'[RebuildOf(g)] = lastRun[RebuildOf(g)]
                            /\ lastRun'[DeleteOf(g)] = lastRun[DeleteOf(g)]
    BY <1>5, <2>2, RuleFacts
  <2>4. /\ ParentPending' /\ CompressPending' /\ IndexPending'
        /\ \A g \in Names : (g # f => CongruencePending(g)') /\ RebuildPending(g)' /\ DeletePending(g)'
    BY <1>5, <1>9, <1>15, <2>1, <2>3, PendingKept
  <2> QED
    BY <1>17, <2>4 DEF Pending
<1>19. Rebuilt'
  <2>1. CASE at' \in {"rebuilding", "single_parent"}
    BY <2>1 DEF Rebuilt
  <2>2. CASE Moving(tables) /\ at' = "delete_subsume" /\ ~updated /\ ~outer /\ tables = {}
    <3>1. Moving({}) /\ uf' = uf
      BY <1>7, <2>2
    <3>2. \A g \in Names : CongruencePending(g)' /\ RebuildPending(g)'
      BY <1>18 DEF Pending
    <3>3. Exact'
      BY <1>1, <1>2, <1>5, <2>2, <3>1, <3>2, RebuildingEnd
    <3> QED
      BY <3>3 DEF Rebuilt
  <2> QED
    BY <1>6, <2>1, <2>2
<1> QED
  BY <1>5, <1>9, <1>10, <1>11, <1>12, <1>13, <1>14, <1>16, <1>18, <1>19 DEF EncodingInv

-----------------------------------------------------------------------------
(* rebuild_rule. *)

\* The rows that the rule writes for the stale ones.
Renewed(f) == {Leading(row) : row \in Stale(f)}

\* The timestamps of a view row and of the entries it is joined with.
LEMMA StampsJoined ==
  ASSUME NEW n \in Nat, NEW s \in [1..n -> Nat], NEW v \in Nat
  PROVE  LET w == <<v>> \o s
         IN  /\ w \in Seq(Nat) /\ Len(w) = n + 1 /\ DOMAIN w = 1..(n + 1) /\ w[1] = v
             /\ \A k \in 1..n : w[k + 1] = s[k]
             /\ Tail(w) = s
<1> DEFINE w == <<v>> \o s
<1>1. s \in Seq(Nat) /\ Len(s) = n
  OBVIOUS
<1>2. w \in Seq(Nat) /\ Len(w) = n + 1 /\ w[1] = v /\ \A k \in 1..n : w[k + 1] = s[k]
  BY <1>1
<1> HIDE DEF w
<1>3. DOMAIN w = 1..(n + 1)
  BY <1>2
<1>4. Tail(w) \in Seq(Nat) /\ Len(Tail(w)) = n /\ \A k \in 1..n : Tail(w)[k] = w[k + 1]
  BY <1>2
<1>5. Tail(w) = s
  BY <1>1, <1>2, <1>4
<1> QED
  BY <1>2, <1>3, <1>5 DEF w

\* Both versions of the rule find every stale row: its entries of the index say so.
LEMMA StaleFound ==
  ASSUME EncodingInv, at = "rebuilding", NEW f \in Names, NEW row \in Stale(f),
         Since = lastRun[RebuildOf(f)]
  PROVE  /\ \E k \in DOMAIN row : ufi[row[k]].ts >= Since
         /\ Open({View(f), UFfTable})
         /\ DeltaBesidesFirst(Stamps(f, row), Since, ts) /\ New(Stamps(f, row))
<1>1. row \in DOMAIN view[f] /\ \A k \in DOMAIN row : row[k] \in DOMAIN ufi
  BY DEF Stale, Range
<1>2. PICK k \in DOMAIN row : ufi[row[k]].ts >= Since
  BY DEF EncodingInv, Pending, RebuildPending
<1>3. Since \in Nat /\ Since <= ts /\ ts \in Nat
  BY TypeFacts, RuleFacts
<1>4. /\ view[f][row] \in Nat /\ view[f][row] < ts
      /\ \A i \in DOMAIN ufi : ufi[i].ts \in Nat /\ ufi[i].ts < ts
  BY <1>1, TypeFacts, RulesetFacts DEF EncodingInv, Older
<1>5. Open({View(f), UFfTable})
  <2>1. ufi[row[k]].ts <= watermark[UFfTable] /\ watermark[UFfTable] \in Nat
    BY <1>1, TypeFacts, TableFacts DEF EncodingInv, Marked
  <2>2. ufi[row[k]].ts \in Nat
    BY <1>1, <1>4
  <2>3. watermark[UFfTable] >= Since
    BY <1>2, <1>3, <2>1, <2>2
  <2> QED
    BY <2>3 DEF Open
<1>6. PICK n \in Nat : n = LastColumn(f)
  BY Columns
<1>7. DOMAIN row = 1..n
  BY <1>1, <1>6, TypeFacts DEF RowsOf, LastColumn
<1> DEFINE s == [j \in DOMAIN row |-> ufi[row[j]].ts]
<1>8. s \in [1..n -> Nat] /\ \A j \in 1..n : s[j] = ufi[row[j]].ts /\ s[j] < ts
  BY <1>1, <1>4, <1>7
<1>9. k \in 1..n /\ s[k] >= Since
  BY <1>2, <1>7
<1> HIDE DEF s
<1>10. PICK v \in Nat : v = view[f][row] /\ v < ts
  BY <1>4
<1>11. PICK w : w = Stamps(f, row)
  OBVIOUS
<1>12. /\ w \in Seq(Nat) /\ Len(w) = n + 1 /\ DOMAIN w = 1..(n + 1) /\ w[1] = v
       /\ \A j \in 1..n : w[j + 1] = s[j]
       /\ Tail(w) = s
  <2>1. w = <<v>> \o s
    BY <1>10, <1>11 DEF Stamps, s
  <2> QED
    BY <1>8, <2>1, StampsJoined
<1>13. Delta(s, Since, ts)
  <2>1. DOMAIN s = 1..n /\ \A j \in 1..n : s[j] \in Nat
    BY <1>8
  <2> QED
    BY <1>3, <1>8, <1>9, <2>1, DeltaFacts
<1>14. Delta(w, Since, ts)
  <2>1. PICK m \in Nat : m = n + 1
    OBVIOUS
  <2>2. DOMAIN w = 1..m /\ \A j \in 1..m : w[j] \in Nat
    BY <1>12, <2>1
  <2>3. \A j \in 1..m : w[j] < ts
    <3>1. ASSUME NEW j \in 1..m PROVE w[j] < ts
      <4>1. CASE j = 1
        BY <1>10, <1>12, <4>1
      <4>2. CASE j # 1
        <5>1. j - 1 \in 1..n /\ (j - 1) + 1 = j
          BY <2>1, <4>2
        <5>2. w[j] = s[j - 1]
          BY <1>12, <5>1
        <5> QED
          BY <1>8, <5>1, <5>2
      <4> QED
        BY <4>1, <4>2
    <3> QED
      BY <3>1
  <2>4. k + 1 \in 1..m /\ w[k + 1] >= Since
    <3>1. k + 1 \in 1..m
      BY <1>9, <2>1
    <3>2. w[k + 1] = s[k]
      BY <1>9, <1>12
    <3> QED
      BY <1>9, <3>1, <3>2
  <2> QED
    BY <1>3, <2>2, <2>3, <2>4, DeltaFacts
<1> QED
  BY <1>2, <1>5, <1>10, <1>11, <1>12, <1>13, <1>14 DEF DeltaBesidesFirst, New

\* The rebuild rule, fast or not, finds every stale row.
LEMMA RebuildMatches ==
  ASSUME EncodingInv, RebuildRule
  PROVE  /\ view' = [view EXCEPT ![Fn] = DeleteRows(InsertIgnore(view[Fn], Renewed(Fn), ts), Stale(Fn))]
         /\ Ran(If(Stale(Fn), {View(Fn)}))
         /\ Running("rebuild_rule") /\ UNCHANGED <<uf, ufi, term, todel, seq>>
<1> DEFINE Found(row) == /\ Open({View(Fn), UFfTable})
                         /\ IF fast THEN DeltaBesidesFirst(Stamps(Fn, row), Since, ts)
                                    ELSE New(Stamps(Fn, row))
           matches == {row \in Stale(Fn) : Found(row)}
<1>1. /\ Running("rebuild_rule")
      /\ view' = [view EXCEPT ![Fn] =
                    DeleteRows(InsertIgnore(view[Fn], {Leading(row) : row \in matches}, ts), matches)]
      /\ Ran(If(matches, {View(Fn)})) /\ UNCHANGED <<uf, ufi, term, todel, seq>>
  BY Zenon DEF RebuildRule
<1>2. Fn \in Names /\ at = "rebuilding" /\ Since = lastRun[RebuildOf(Fn)]
  BY <1>1, RunningFacts DEF Since
<1>3. ASSUME NEW row \in Stale(Fn) PROVE Found(row)
  <2>1. /\ Open({View(Fn), UFfTable})
        /\ DeltaBesidesFirst(Stamps(Fn, row), Since, ts) /\ New(Stamps(Fn, row))
    BY <1>2, StaleFound
  <2> QED
    BY <2>1
<1>4. matches = Stale(Fn)
  <2> HIDE DEF Found
  <2> QED
    BY <1>3
<1> HIDE DEF matches
<1> QED
  BY <1>1, <1>4 DEF Renewed

\* A congruence of some rows is one of others that it cannot tell from them.
LEMMA SameCongruence ==
  ASSUME NEW l, NEW pairs, NEW rows, NEW rows2, IsCongruence(l, pairs, rows),
         \A f \in Names : \A r \in rows2[f] : \E q \in rows[f] :
            Renamed(l, Args(r)) = Renamed(l, Args(q)) /\ l[Class(r)] = l[Class(q)]
  PROVE  IsCongruence(l, pairs, rows2)
<1>1. ASSUME NEW f \in Names, NEW r \in rows2[f], NEW q \in rows2[f],
             Renamed(l, Args(r)) = Renamed(l, Args(q))
      PROVE  l[Class(r)] = l[Class(q)]
  <2>1. PICK a \in rows[f] : Renamed(l, Args(r)) = Renamed(l, Args(a)) /\ l[Class(r)] = l[Class(a)]
    OBVIOUS
  <2>2. PICK b \in rows[f] : Renamed(l, Args(q)) = Renamed(l, Args(b)) /\ l[Class(q)] = l[Class(b)]
    OBVIOUS
  <2>3. l[Class(a)] = l[Class(b)]
    <3>1. Renamed(l, Args(a)) = Renamed(l, Args(b))
      BY <1>1, <2>1, <2>2, Zenon
    <3>2. \A c, d \in rows[f] : Renamed(l, Args(c)) = Renamed(l, Args(d)) => l[Class(c)] = l[Class(d)]
      BY DEF IsCongruence
    <3> QED
      BY <3>1, <3>2, Zenon
  <2> QED
    BY <2>1, <2>2, <2>3
<1> QED
  BY <1>1 DEF IsCongruence

\* Rows whose columns a labelling cannot tell apart.
LEMMA AlikeRows ==
  ASSUME NEW f \in Names, NEW r \in RowsOf(f, Ids), NEW q \in RowsOf(f, Ids), NEW l \in [Ids -> Ids],
         \A k \in 1..LastColumn(f) : l[r[k]] = l[q[k]]
  PROVE  Renamed(l, Args(r)) = Renamed(l, Args(q)) /\ l[Class(r)] = l[Class(q)]
<1>0. \A i \in Ids : l[i] \in Ids
  OBVIOUS
<1>1. /\ Renamed(l, Args(r)) \in ArgsOf(f, Ids) /\ Renamed(l, Args(q)) \in ArgsOf(f, Ids)
      /\ \A k \in 1..Arity[f] : Renamed(l, Args(r))[k] = l[r[k]] /\ Renamed(l, Args(q))[k] = l[q[k]]
  BY <1>0, RenamedParts
<1>2. \A k \in 1..Arity[f] : Renamed(l, Args(r))[k] = Renamed(l, Args(q))[k]
  BY <1>1, Columns
<1>3. Renamed(l, Args(r)) = Renamed(l, Args(q))
  <2> DEFINE D == 1..Arity[f]
  <2>1. Renamed(l, Args(r)) \in [D -> Ids] /\ Renamed(l, Args(q)) \in [D -> Ids]
    BY <1>1 DEF ArgsOf
  <2>2. \A k \in D : Renamed(l, Args(r))[k] = Renamed(l, Args(q))[k]
    BY <1>2
  <2> HIDE DEF D
  <2> QED
    BY <2>1, <2>2, SameFunction
<1>4. l[Class(r)] = l[Class(q)]
  <2>1. Class(r) = r[LastColumn(f)] /\ Class(q) = q[LastColumn(f)] /\ LastColumn(f) \in 1..LastColumn(f)
    BY RowParts, Columns
  <2> QED
    BY <2>1
<1> QED
  BY <1>3, <1>4

\* The row for a stale one is over leaders, and says the same.
LEMMA LeadingFacts ==
  ASSUME EncodingInv, at = "rebuilding", NEW f \in Names, NEW row \in Stale(f)
  PROVE  /\ Leading(row) \in RowsOf(f, Known) /\ Leading(row) \in RowsOf(f, Ids) /\ row \in RowsOf(f, Ids)
         /\ \A k \in 1..LastColumn(f) : /\ Leading(row)[k] \in DOMAIN ufi
                                        /\ ufi[Leading(row)[k]].out = Leading(row)[k]
         /\ \A l \in [Ids -> Ids] : Respects(l) =>
               /\ Renamed(l, Args(Leading(row))) = Renamed(l, Args(row))
               /\ l[Class(Leading(row))] = l[Class(row)]
<1>1. /\ row \in DOMAIN view[f] /\ \A k \in DOMAIN row : row[k] \in DOMAIN ufi
      /\ row \in RowsOf(f, Ids) /\ DOMAIN row = 1..LastColumn(f)
  BY TypeFacts DEF Stale, Range, RowsOf, LastColumn
<1>2. DOMAIN ufi = Known /\ \A i \in Known : i \in Ids
  BY TypeFacts DEF EncodingInv, Indexed
<1>3. /\ \A i \in DOMAIN ufi : ufi[i].out \in Known
      /\ \A i \in DOMAIN ufi : ufi[ufi[i].out].out = ufi[i].out /\ <<i, ufi[i].out>> \in DOMAIN uf
  BY TypeFacts DEF EncodingInv, Forest, Leads, Entries, Alone
<1>4. PICK q : q = Leading(row)
  OBVIOUS
<1>5. q \in RowsOf(f, Known) /\ \A k \in 1..LastColumn(f) : q[k] = ufi[row[k]].out
  BY <1>1, <1>3, <1>4 DEF Leading, RowsOf, LastColumn
<1>6. q \in RowsOf(f, Ids)
  BY <1>2, <1>5 DEF RowsOf
<1>7. \A k \in 1..LastColumn(f) : q[k] \in DOMAIN ufi /\ ufi[q[k]].out = q[k]
  BY <1>1, <1>2, <1>3, <1>5
<1>8. ASSUME NEW l \in [Ids -> Ids], Respects(l)
      PROVE  Renamed(l, Args(q)) = Renamed(l, Args(row)) /\ l[Class(q)] = l[Class(row)]
  <2>1. \A i \in DOMAIN ufi : l[ufi[i].out] = l[i]
    <3> SUFFICES ASSUME NEW i \in DOMAIN ufi PROVE l[ufi[i].out] = l[i]
      OBVIOUS
    <3>1. PICK e \in DOMAIN uf : e = <<i, ufi[i].out>>
      BY <1>3
    <3>2. l[e[1]] = l[e[2]]
      BY <1>8 DEF Respects
    <3> QED
      BY <3>1, <3>2
  <2>2. \A k \in 1..LastColumn(f) : l[q[k]] = l[row[k]]
    BY <1>1, <1>5, <2>1
  <2> QED
    BY <1>1, <1>6, <2>2, AlikeRows
<1> QED
  BY <1>1, <1>4, <1>5, <1>6, <1>7, <1>8

\* The tables after the rule.
LEMMA RebuildTables ==
  ASSUME EncodingInv, at = "rebuilding", NEW f \in Names, UNCHANGED <<uf, ufi, term, todel, seq>>,
         view' = [view EXCEPT ![f] = DeleteRows(InsertIgnore(view[f], Renewed(f), ts), Stale(f))]
  PROVE  /\ DOMAIN view' = Names /\ \A g \in Names : g # f => view'[g] = view[g]
         /\ DOMAIN view'[f] = (DOMAIN view[f] \ Stale(f)) \cup Renewed(f)
         /\ \A r \in DOMAIN view'[f] : /\ r \in RowsOf(f, Known)
                                       /\ view'[f][r] = ts \/ (r \in DOMAIN view[f] /\ view'[f][r] = view[f][r])
         /\ \A g \in Names : Stale(g)' = IF g = f THEN {} ELSE Stale(g)
         /\ Stale(f) = {} => \A r \in DOMAIN view[f] : view'[f][r] = view[f][r]
         /\ \A l \in [Ids -> Ids] : Respects(l) =>
              (IsCongruence(l, DOMAIN uf, ViewRows) <=> IsCongruence(l, DOMAIN uf, ViewRows'))
<1>1. DOMAIN view = Names /\ \A g \in Names : \A r \in DOMAIN view[g] : r \in RowsOf(g, Known) /\ r \in RowsOf(g, Ids)
  BY TypeFacts DEF EncodingInv, Types, RowTypes
<1>2. \A row \in Stale(f) : row \in DOMAIN view[f]
  BY DEF Stale
<1>3. \A q \in Renewed(f) : /\ q \in RowsOf(f, Known)
                            /\ \A k \in 1..LastColumn(f) : q[k] \in DOMAIN ufi /\ ufi[q[k]].out = q[k]
  BY LeadingFacts DEF Renewed
<1>4. \A q \in RowsOf(f, Known) : DOMAIN q = 1..LastColumn(f)
  BY DEF RowsOf, LastColumn
<1>5. \A q \in Renewed(f) : q \notin Stale(f)
  BY <1>3, <1>4 DEF Stale
<1> DEFINE w == DeleteRows(InsertIgnore(view[f], Renewed(f), ts), Stale(f))
<1>6. /\ DOMAIN w = (DOMAIN view[f] \ Stale(f)) \cup Renewed(f)
      /\ \A r \in DOMAIN w : r \in DOMAIN view[f] => w[r] = view[f][r]
      /\ \A r \in DOMAIN w : r \notin DOMAIN view[f] => w[r] = ts
  <2>1. PICK t : t = view[f]
    OBVIOUS
  <2>2. PICK new, old : new = Renewed(f) /\ old = Stale(f)
    OBVIOUS
  <2>3. \A q \in new : q \notin old
    BY <1>5, <2>2
  <2>4. w = DeleteRows(InsertIgnore(t, new, ts), old)
    BY <2>1, <2>2
  <2> HIDE DEF w
  <2>5. /\ DOMAIN w = (DOMAIN t \ old) \cup new
        /\ \A r \in DOMAIN w : r \in DOMAIN t => w[r] = t[r]
        /\ \A r \in DOMAIN w : r \notin DOMAIN t => w[r] = ts
    BY <2>3, <2>4 DEF InsertIgnore, DeleteRows, Restrict
  <2> QED
    BY <2>1, <2>2, <2>5
<1> HIDE DEF w
<1>7. view'[f] = w /\ DOMAIN view' = Names /\ \A g \in Names : g # f => view'[g] = view[g]
  BY <1>1 DEF w
<1>8. \A r \in DOMAIN view'[f] : r \in RowsOf(f, Known)
  BY <1>1, <1>3, <1>6, <1>7
<1>9. ASSUME NEW g \in Names PROVE Stale(g)' = IF g = f THEN {} ELSE Stale(g)
  <2>1. CASE g # f
    BY <1>7, <2>1 DEF Stale
  <2>2. CASE g = f
    <3> SUFFICES ASSUME NEW r, r \in Stale(f)' PROVE FALSE
      BY <2>2
    <3>1. /\ r \in DOMAIN view'[f] /\ Range(r) \subseteq DOMAIN ufi
          /\ \E k \in DOMAIN r : r[k] # ufi[r[k]].out
      BY DEF Stale
    <3>2. CASE r \in Renewed(f)
      BY <1>3, <1>4, <3>1, <3>2
    <3>3. CASE r \in DOMAIN view[f] \ Stale(f)
      BY <3>1, <3>3 DEF Stale
    <3> QED
      BY <1>6, <1>7, <3>1, <3>2, <3>3
  <2> QED
    BY <2>1, <2>2
<1>10. Stale(f) = {} => \A r \in DOMAIN view[f] : view'[f][r] = view[f][r]
  BY <1>6, <1>7
<1>11. ASSUME NEW l \in [Ids -> Ids], Respects(l)
       PROVE  IsCongruence(l, DOMAIN uf, ViewRows) <=> IsCongruence(l, DOMAIN uf, ViewRows')
  <2>1. \A g \in Names : ViewRows[g] = DOMAIN view[g] /\ ViewRows'[g] = DOMAIN view'[g]
    BY DEF ViewRows
  <2>2. ASSUME NEW row \in Stale(f)
        PROVE  /\ Leading(row) \in Renewed(f) /\ Renamed(l, Args(Leading(row))) = Renamed(l, Args(row))
               /\ l[Class(Leading(row))] = l[Class(row)]
    BY <1>11, LeadingFacts DEF Renewed
  <2>3. ASSUME NEW g \in Names, NEW r \in ViewRows'[g]
        PROVE  \E q \in ViewRows[g] : Renamed(l, Args(r)) = Renamed(l, Args(q)) /\ l[Class(r)] = l[Class(q)]
    <3>1. CASE r \in DOMAIN view[g]
      BY <2>1, <3>1
    <3>2. CASE g = f /\ r \in Renewed(f)
      <4>1. PICK row \in Stale(f) : r = Leading(row)
        BY <3>2 DEF Renewed
      <4> QED
        BY <1>2, <2>1, <2>2, <3>2, <4>1
    <3> QED
      BY <1>6, <1>7, <2>1, <3>1, <3>2
  <2>4. ASSUME NEW g \in Names, NEW r \in ViewRows[g]
        PROVE  \E q \in ViewRows'[g] : Renamed(l, Args(r)) = Renamed(l, Args(q)) /\ l[Class(r)] = l[Class(q)]
    <3>1. CASE r \in DOMAIN view'[g]
      BY <2>1, <3>1
    <3>2. CASE g = f /\ r \in Stale(f)
      <4>1. Leading(r) \in ViewRows'[g]
        BY <1>6, <1>7, <2>1, <2>2, <3>2
      <4> QED
        BY <2>2, <3>2, <4>1
    <3> QED
      BY <1>6, <1>7, <2>1, <3>1, <3>2
  <2>5. IsCongruence(l, DOMAIN uf, ViewRows) => IsCongruence(l, DOMAIN uf, ViewRows')
    BY <2>3, SameCongruence
  <2>6. IsCongruence(l, DOMAIN uf, ViewRows') => IsCongruence(l, DOMAIN uf, ViewRows)
    BY <2>4, SameCongruence
  <2> QED
    BY <2>5, <2>6
<1> QED
  BY <1>6, <1>7, <1>8, <1>9, <1>10, <1>11

\* The rebuild rule keeps the invariant: rows move to the leaders of the index.
LEMMA RebuildRuleStep == EncodingInv /\ RebuildRule => EncodingInv'
<1> SUFFICES ASSUME EncodingInv, RebuildRule PROVE EncodingInv'
  OBVIOUS
<1>0. PICK f \in Names : f = Fn
  BY RunningFacts DEF RebuildRule
<1> DEFINE tables == If(Stale(f), {View(f)})
<1>1. /\ view' = [view EXCEPT ![f] = DeleteRows(InsertIgnore(view[f], Renewed(f), ts), Stale(f))]
      /\ Ran(tables) /\ Running("rebuild_rule") /\ UNCHANGED <<uf, ufi, term, todel, seq>>
  BY <1>0, RebuildMatches
<1>2. at = "rebuilding" /\ Head(todo) = RebuildOf(f) /\ at \notin Alone /\ ts \in Nat
  BY <1>0, <1>1, RunningFacts DEF Alone
<1>3. tables \subseteq {View(f)} /\ (tables = {} <=> Stale(f) = {}) /\ (tables # {} => View(f) \in tables)
  BY DEF If
<1>4. tables \in SUBSET Tables
  BY <1>3, TableFacts
<1> HIDE DEF tables
<1>5. /\ ts' \in Nat /\ ts <= ts' /\ classes' = classes
      /\ lastRun'[RebuildOf(f)] = ts
      /\ \A r \in Rules : /\ r # RebuildOf(f) => lastRun'[r] = lastRun[r]
                          /\ lastRun'[r] \in Nat /\ lastRun'[r] <= ts
      /\ \A t \in Tables : watermark'[t] = IF t \in tables THEN ts ELSE watermark[t]
      /\ RunTypes' /\ TodoInv' /\ (Staying(tables) \/ Moving(tables))
  BY <1>1, <1>2, <1>4, RanFacts
<1>6. \/ Staying(tables) /\ at' = "rebuilding" /\ ts' = ts /\ outer' = outer /\ updated' = (updated \/ tables # {})
      \/ Moving(tables) /\ at' = "single_parent" /\ ts' = ts + 1 /\ updated' = FALSE /\ outer' = FALSE
      \/ Moving(tables) /\ at' = "delete_subsume" /\ ts' = ts + 1 /\ ~updated /\ ~outer /\ tables = {}
  BY <1>2, <1>5, RebuildingNext
<1>7. /\ DOMAIN view' = Names /\ \A g \in Names : g # f => view'[g] = view[g]
      /\ DOMAIN view'[f] = (DOMAIN view[f] \ Stale(f)) \cup Renewed(f)
      /\ \A r \in DOMAIN view'[f] : /\ r \in RowsOf(f, Known)
                                    /\ view'[f][r] = ts \/ (r \in DOMAIN view[f] /\ view'[f][r] = view[f][r])
      /\ \A g \in Names : Stale(g)' = IF g = f THEN {} ELSE Stale(g)
      /\ Stale(f) = {} => \A r \in DOMAIN view[f] : view'[f][r] = view[f][r]
      /\ \A l \in [Ids -> Ids] : Respects(l) =>
           (IsCongruence(l, DOMAIN uf, ViewRows) <=> IsCongruence(l, DOMAIN uf, ViewRows'))
  BY <1>1, <1>2, RebuildTables
<1>8. tables = {} => \A g \in Names : /\ DOMAIN view'[g] = DOMAIN view[g]
                                      /\ \A r \in DOMAIN view[g] : view'[g][r] = view[g][r]
  <2> SUFFICES ASSUME tables = {}, NEW g \in Names
               PROVE  /\ DOMAIN view'[g] = DOMAIN view[g]
                      /\ \A r \in DOMAIN view[g] : view'[g][r] = view[g][r]
    OBVIOUS
  <2>1. Stale(f) = {} /\ Renewed(f) = {}
    BY <1>3 DEF Renewed
  <2> QED
    BY <1>7, <2>1
<1>9. Types' /\ Stamped /\ Known' = Known
  <2>1. EdgesStamped /\ IndexStamped
    <3>1. \A i \in DOMAIN ufi : ufi[i].out <= ufi[i].out
      BY TypeFacts
    <3> QED
      BY <1>1, <3>1 DEF EdgesStamped, IndexStamped
  <2>2. RowsStamped
    <3> SUFFICES ASSUME NEW g \in Names
                 PROVE  /\ \A r \in DOMAIN view'[g] : view'[g][r] = ts \/ (r \in DOMAIN view[g] /\ view'[g][r] = view[g][r])
                        /\ \A r \in DOMAIN view'[g] : r \in Stale(g)' => r \in DOMAIN view[g]
      BY <1>1 DEF RowsStamped
    <3> QED
      BY <1>7
  <2>3. Stamped
    BY <2>1, <2>2 DEF Stamped
  <2>4. Known' = Known
    BY <1>1 DEF Known
  <2>5. Numbers' /\ ClassTypes'
    <3>1. 1 <= ts' /\ ts \in Nat
      BY <1>5, TypeFacts
    <3> QED
      BY <1>1, <1>5, <2>4, <3>1 DEF EncodingInv, Types, Numbers, ClassTypes
  <2>6. /\ DOMAIN term' = Names /\ DOMAIN view' = Names /\ DOMAIN todel' = Names
        /\ \A g \in Names : /\ \A r \in DOMAIN term'[g] : r \in RowsOf(g, Known')
                            /\ \A r \in DOMAIN view'[g] : r \in RowsOf(g, Known')
                            /\ \A a \in DOMAIN todel'[g] : a \in ArgsOf(g, Known')
    BY <1>1, <1>7, <2>4 DEF EncodingInv, Types, RowTypes
  <2>7. /\ uf' \in [DOMAIN uf' -> Nat] /\ \A e \in DOMAIN uf' : e \in Known' \X Known'
        /\ \A i \in DOMAIN ufi' : i \in Known' /\ ufi'[i].out \in 1..i
    BY <1>1, <2>4 DEF EncodingInv, Types, EdgeTypes, IndexTypes
  <2> QED
    BY <1>5, <2>3, <2>4, <2>5, <2>6, <2>7, TypesKept
<1>10. Older'
  <2>1. CASE at' = "rebuilding" /\ ts' = ts /\ updated' = (updated \/ tables # {})
    <3>1. /\ \A i \in DOMAIN ufi' : ufi'[i].ts < ts'
          /\ \A g \in Names : \A a \in DOMAIN todel'[g] : todel'[g][a] < ts'
      BY <1>1, <1>2, <2>1, RulesetFacts DEF EncodingInv, Older
    <3>2. \A g \in Names : \A r \in Stale(g)' : view'[g][r] < ts'
      <4>1. \A g \in Names : \A r \in Stale(g) : view[g][r] < ts
        BY <1>2 DEF EncodingInv, Older
      <4> QED
        BY <1>7, <2>1, <4>1
    <3>3. ~updated' => /\ \A e \in DOMAIN uf' : uf'[e] < ts'
                       /\ \A g \in Names : \A r \in DOMAIN view'[g] : view'[g][r] < ts'
      <4>1. ~updated' => ~updated /\ tables = {}
        BY <2>1
      <4>2. ~updated => /\ \A e \in DOMAIN uf : uf[e] < ts
                        /\ \A g \in Names : \A r \in DOMAIN view[g] : view[g][r] < ts
        BY <1>2, RulesetFacts DEF EncodingInv, Older
      <4> QED
        BY <1>1, <1>8, <2>1, <4>1, <4>2
    <3> QED
      BY <2>1, <3>1, <3>2, <3>3 DEF Older
  <2>2. CASE at' # "idle" /\ ts' = ts + 1
    BY <1>9, <2>2, OlderNext
  <2> QED
    BY <1>6, <2>1, <2>2
<1>11. Marked'
  <2>1. \A g \in Names : View(g) \notin tables =>
          \A r \in DOMAIN view'[g] : r \in DOMAIN view[g] /\ view'[g][r] = view[g][r]
    <3> SUFFICES ASSUME NEW g \in Names, View(g) \notin tables
                 PROVE  \A r \in DOMAIN view'[g] : r \in DOMAIN view[g] /\ view'[g][r] = view[g][r]
      OBVIOUS
    <3>1. CASE g # f
      BY <1>7, <3>1
    <3>2. CASE g = f
      BY <1>3, <1>8, <3>2
    <3> QED
      BY <3>1, <3>2
  <2> QED
    BY <1>1, <1>5, <1>9, <2>1, MarkedKept
<1>12. Indexed'
  BY <1>1, <1>2, <1>9 DEF EncodingInv, Indexed
<1>13. Forest'
  BY <1>1, <1>2, ForestGrows
<1>14. Quiet'
  <2>1. CASE at' = "rebuilding" /\ updated' = (updated \/ tables # {}) /\ outer' = outer
    BY <1>1, <1>2, <2>1 DEF EncodingInv, Quiet, ParentDone, CompressDone, IndexDone
  <2>2. CASE at' \in {"single_parent", "delete_subsume"}
    BY <2>2 DEF Quiet
  <2> QED
    BY <1>6, <2>1, <2>2
<1>15. LinksKept
  BY <1>1 DEF LinksKept, Respects
<1>16. Sound' /\ Least'
  <2>1. Respects(classes) /\ classes \in [Ids -> Ids]
    BY TypeFacts DEF EncodingInv, Sound, IsCongruence, Respects
  <2>2. IsCongruence(classes, DOMAIN uf, ViewRows')
    BY <1>7, <2>1 DEF EncodingInv, Sound
  <2>3. Sound'
    BY <1>1, <1>5, <2>2 DEF EncodingInv, Sound
  <2>4. ASSUME NEW k \in [Ids -> Ids], IsCongruence(k, DOMAIN uf, ViewRows') PROVE Includes(k, classes)
    <3>1. Respects(k)
      BY <2>4 DEF IsCongruence, Respects
    <3>2. IsCongruence(k, DOMAIN uf, ViewRows)
      BY <1>7, <2>4, <3>1
    <3> QED
      BY <3>2 DEF EncodingInv, Least
  <2> QED
    BY <1>1, <1>5, <2>3, <2>4 DEF Least
<1>17. RebuildPending(f)'
  BY <1>7 DEF RebuildPending
<1>18. Pending'
  <2>1. IndexTypes'
    BY <1>9 DEF Types
  <2>2. /\ ParentRule # RebuildOf(f) /\ IndexRule # RebuildOf(f) /\ CompressRule # RebuildOf(f)
        /\ \A g : /\ CongruenceOf(g) # RebuildOf(f) /\ DeleteOf(g) # RebuildOf(f)
                  /\ g # f => RebuildOf(g) # RebuildOf(f)
    BY DEF CompressRule, IndexRule, ParentRule, CongruenceOf, RebuildOf, DeleteOf, Rule
  <2>3. /\ lastRun'[ParentRule] = lastRun[ParentRule] /\ lastRun'[IndexRule] = lastRun[IndexRule]
        /\ lastRun'[CompressRule] = lastRun[CompressRule]
        /\ \A g \in Names : /\ lastRun'[CongruenceOf(g)] = lastRun[CongruenceOf(g)]
                            /\ g # f => lastRun'[RebuildOf(g)] = lastRun[RebuildOf(g)]
                            /\ lastRun'[DeleteOf(g)] = lastRun[DeleteOf(g)]
    BY <1>5, <2>2, RuleFacts
  <2>4. /\ ParentPending' /\ CompressPending' /\ IndexPending'
        /\ \A g \in Names : CongruencePending(g)' /\ (g # f => RebuildPending(g)') /\ DeletePending(g)'
    BY <1>5, <1>9, <1>15, <2>1, <2>3, PendingKept
  <2> QED
    BY <1>17, <2>4 DEF Pending
<1>19. Rebuilt'
  <2>1. CASE at' \in {"rebuilding", "single_parent"}
    BY <2>1 DEF Rebuilt
  <2>2. CASE Moving(tables) /\ at' = "delete_subsume" /\ ~updated /\ ~outer /\ tables = {}
    <3>1. Moving({})
      BY <2>2
    <3>2. \A g \in Names : CongruencePending(g)' /\ RebuildPending(g)'
      BY <1>18 DEF Pending
    <3>3. \A g \in Names : /\ DOMAIN view'[g] = DOMAIN view[g]
                           /\ \A r \in DOMAIN view[g] : view'[g][r] = view[g][r]
      BY <1>8, <2>2
    <3>4. Exact'
      BY <1>1, <1>2, <1>5, <2>2, <3>1, <3>2, <3>3, RebuildingEnd
    <3> QED
      BY <3>4 DEF Rebuilt
  <2> QED
    BY <1>6, <2>1, <2>2
<1> QED
  BY <1>5, <1>9, <1>10, <1>11, <1>12, <1>13, <1>14, <1>16, <1>18, <1>19 DEF EncodingInv

-----------------------------------------------------------------------------
(* delete_rule. *)

\* An id that has not been made is equal to no other.
LEMMA UnmadeAlone ==
  ASSUME EncodingInv
  PROVE  \A i \in Ids : i \notin Known => classes[i] = i
<1> SUFFICES ASSUME NEW i \in Ids, i \notin Known PROVE classes[i] = i
  OBVIOUS
<1> DEFINE l == [j \in Ids |-> IF j \in Known THEN 1 ELSE j]
<1>1. l \in [Ids -> Ids] /\ \A j \in Known : j \in Ids /\ l[j] = 1
  BY TypeFacts, IdsAreNumbers
<1>2. l[i] = i /\ \A j \in Ids : j \notin Known => l[j] = j
  OBVIOUS
<1> HIDE DEF l
<1>3. IsCongruence(l, DOMAIN uf, ViewRows)
  <2>1. ASSUME NEW e \in DOMAIN uf PROVE l[e[1]] = l[e[2]]
    <3>1. e[1] \in Known /\ e[2] \in Known
      BY TypeFacts
    <3> QED
      BY <1>1, <3>1
  <2>2. ASSUME NEW f \in Names, NEW r \in ViewRows[f] PROVE l[Class(r)] = 1
    <3>1. r \in RowsOf(f, Known)
      BY TypeFacts DEF ViewRows
    <3>2. Class(r) \in Known
      BY <3>1, RowParts
    <3> QED
      BY <1>1, <3>2
  <2> QED
    BY <2>1, <2>2 DEF IsCongruence
<1>4. l[classes[i]] = i
  BY <1>1, <1>2, <1>3 DEF EncodingInv, Least, Includes
<1>5. PICK c \in Ids : c = classes[i]
  BY TypeFacts
<1>6. CASE c \in Known
  <2>1. 1 \in Known
    BY <1>6, TypeFacts
  <2>2. i = 1
    BY <1>1, <1>4, <1>5, <1>6
  <2> QED
    BY <2>1, <2>2
<1>7. CASE c \notin Known
  BY <1>2, <1>4, <1>5, <1>7
<1> QED
  BY <1>6, <1>7

\* The applications to be deleted.
Condemned(f) == {row \in DOMAIN view[f] : Args(row) \in DOMAIN todel[f]}
Executed(f) == {Args(row) : row \in Condemned(f)}

\* The rule finds them all.
LEMMA DeleteMatches ==
  ASSUME EncodingInv, DeleteRule
  PROVE  /\ view' = [view EXCEPT ![Fn] = DeleteRows(view[Fn], Condemned(Fn))]
         /\ todel' = [todel EXCEPT ![Fn] = DeleteRows(todel[Fn], Executed(Fn))]
         /\ Ran(If(Condemned(Fn), {View(Fn), ToDelete(Fn)}))
         /\ Running("delete_rule") /\ UNCHANGED <<uf, ufi, term, seq>>
<1> DEFINE v == view[Fn]
           Found(row) == /\ Open({ToDelete(Fn), View(Fn)})
                         /\ Args(row) \in DOMAIN todel[Fn]
                         /\ New(<<todel[Fn][Args(row)], v[row]>>)
           matches == {row \in DOMAIN v : Found(row)}
<1>1. /\ Running("delete_rule")
      /\ view' = [view EXCEPT ![Fn] = DeleteRows(view[Fn], matches)]
      /\ todel' = [todel EXCEPT ![Fn] = DeleteRows(todel[Fn], {Args(row) : row \in matches})]
      /\ Ran(If(matches, {View(Fn), ToDelete(Fn)})) /\ UNCHANGED <<uf, ufi, term, seq>>
  BY Zenon DEF DeleteRule
<1>2. PICK f \in Names : f = Fn
  BY <1>1, RunningFacts
<1>3. /\ Since = lastRun[DeleteOf(f)] /\ Since \in Nat /\ Since <= ts /\ ts \in Nat
      /\ at = "delete_subsume"
  BY <1>1, <1>2, RunningFacts DEF Since
<1>4. ASSUME NEW row \in Condemned(f) PROVE Found(row)
  <2>1. PICK a : a = Args(row) /\ row \in DOMAIN view[f] /\ a \in DOMAIN todel[f]
    BY DEF Condemned
  <2>2. view[f][row] \in Nat /\ todel[f][a] \in Nat
    BY <2>1, TypeFacts
  <2>3. view[f][row] < ts /\ todel[f][a] < ts
    BY <1>3, <2>1, RulesetFacts DEF EncodingInv, Older
  <2>4. view[f][row] >= Since \/ todel[f][a] >= Since
    BY <1>3, <2>1 DEF EncodingInv, Pending, DeletePending
  <2>5. New(<<todel[f][a], view[f][row]>>)
    BY <1>3, <2>2, <2>3, <2>4, DeltaTwo DEF New
  <2>6. watermark[View(f)] >= Since \/ watermark[ToDelete(f)] >= Since
    <3>1. /\ view[f][row] <= watermark[View(f)] /\ todel[f][a] <= watermark[ToDelete(f)]
          /\ watermark[View(f)] \in Nat /\ watermark[ToDelete(f)] \in Nat
      BY <2>1, TypeFacts, TableFacts DEF EncodingInv, Marked
    <3> QED
      BY <1>3, <2>2, <2>4, <3>1
  <2>7. Open({ToDelete(f), View(f)})
    BY <2>6 DEF Open
  <2> QED
    BY <1>2, <2>1, <2>5, <2>7
<1>5. matches = Condemned(f)
  <2> HIDE DEF Found
  <2>1. \A row : Found(row) => Args(row) \in DOMAIN todel[f]
    BY <1>2 DEF Found
  <2> QED
    BY <1>2, <1>4, <2>1 DEF Condemned
<1> HIDE DEF matches
<1> QED
  BY <1>1, <1>2, <1>5 DEF Executed

\* The tables after the rule.
LEMMA DeleteTables ==
  ASSUME EncodingInv, NEW f \in Names,
         view' = [view EXCEPT ![f] = DeleteRows(view[f], Condemned(f))],
         todel' = [todel EXCEPT ![f] = DeleteRows(todel[f], Executed(f))]
  PROVE  /\ DOMAIN view' = Names /\ DOMAIN todel' = Names
         /\ \A g \in Names : g # f => view'[g] = view[g] /\ todel'[g] = todel[g]
         /\ DOMAIN view'[f] = DOMAIN view[f] \ Condemned(f) /\ DOMAIN todel'[f] = DOMAIN todel[f] \ Executed(f)
         /\ \A g \in Names :
              /\ \A r \in DOMAIN view'[g] : r \in DOMAIN view[g] /\ view'[g][r] = view[g][r]
              /\ \A a \in DOMAIN todel'[g] : a \in DOMAIN todel[g] /\ todel'[g][a] = todel[g][a]
<1>1. DOMAIN view = Names /\ DOMAIN todel = Names
  BY DEF EncodingInv, Types, RowTypes
<1>2. /\ view'[f] = DeleteRows(view[f], Condemned(f)) /\ todel'[f] = DeleteRows(todel[f], Executed(f))
      /\ DOMAIN view' = Names /\ DOMAIN todel' = Names
      /\ \A g \in Names : g # f => view'[g] = view[g] /\ todel'[g] = todel[g]
  BY <1>1
<1>4. /\ DOMAIN view'[f] = DOMAIN view[f] \ Condemned(f) /\ DOMAIN todel'[f] = DOMAIN todel[f] \ Executed(f)
      /\ \A r \in DOMAIN view[f] \ Condemned(f) : view'[f][r] = view[f][r]
      /\ \A a \in DOMAIN todel[f] \ Executed(f) : todel'[f][a] = todel[f][a]
  <2>1. PICK v, c : v = view[f] /\ c = Condemned(f)
    OBVIOUS
  <2>2. PICK d, x : d = todel[f] /\ x = Executed(f)
    OBVIOUS
  <2>3. view'[f] = DeleteRows(v, c) /\ todel'[f] = DeleteRows(d, x)
    BY <1>2, <2>1, <2>2
  <2>4. DOMAIN view'[f] = DOMAIN v \ c /\ \A r \in DOMAIN v \ c : view'[f][r] = v[r]
    BY <2>3 DEF DeleteRows, Restrict
  <2>5. DOMAIN todel'[f] = DOMAIN d \ x /\ \A a \in DOMAIN d \ x : todel'[f][a] = d[a]
    BY <2>3 DEF DeleteRows, Restrict
  <2> QED
    BY <2>1, <2>2, <2>4, <2>5
<1> QED
  BY <1>2, <1>4

\* The delete rule keeps the invariant: it runs when the tables are exact, and the
\* classes stay the least congruence without the rows that go, because every
\* id has an edge to its leader.
LEMMA DeleteRuleStep == EncodingInv /\ DeleteRule => EncodingInv'
<1> SUFFICES ASSUME EncodingInv, DeleteRule PROVE EncodingInv'
  OBVIOUS
<1>0. PICK f \in Names : f = Fn
  BY RunningFacts DEF DeleteRule
<1> DEFINE tables == If(Condemned(f), {View(f), ToDelete(f)})
<1>1. /\ view' = [view EXCEPT ![f] = DeleteRows(view[f], Condemned(f))]
      /\ todel' = [todel EXCEPT ![f] = DeleteRows(todel[f], Executed(f))]
      /\ Ran(tables) /\ Running("delete_rule") /\ UNCHANGED <<uf, ufi, term, seq>>
  BY <1>0, DeleteMatches
<1>2. at = "delete_subsume" /\ Head(todo) = DeleteOf(f) /\ at \notin Alone /\ ts \in Nat
  BY <1>0, <1>1, RunningFacts DEF Alone
<1>3. tables \in SUBSET Tables
  BY TableFacts DEF If
<1> HIDE DEF tables
<1>5. /\ ts' \in Nat /\ ts <= ts' /\ classes' = classes
      /\ lastRun'[DeleteOf(f)] = ts
      /\ \A r \in Rules : /\ r # DeleteOf(f) => lastRun'[r] = lastRun[r]
                          /\ lastRun'[r] \in Nat /\ lastRun'[r] <= ts
      /\ \A t \in Tables : watermark'[t] = IF t \in tables THEN ts ELSE watermark[t]
      /\ RunTypes' /\ TodoInv' /\ (Staying(tables) \/ Moving(tables))
  BY <1>1, <1>2, <1>3, RanFacts
<1>6. \/ at' = "delete_subsume" /\ ts' = ts
      \/ at' = "idle" /\ ts' = ts
  BY <1>2, <1>5 DEF Staying, Moving, After
<1>7. /\ DOMAIN view' = Names /\ DOMAIN todel' = Names
      /\ DOMAIN view'[f] = DOMAIN view[f] \ Condemned(f) /\ DOMAIN todel'[f] = DOMAIN todel[f] \ Executed(f)
      /\ \A g \in Names :
           /\ \A r \in DOMAIN view'[g] : r \in DOMAIN view[g] /\ view'[g][r] = view[g][r]
           /\ \A a \in DOMAIN todel'[g] : a \in DOMAIN todel[g] /\ todel'[g][a] = todel[g][a]
  BY <1>1, DeleteTables
<1>8. Exact
  BY <1>2 DEF EncodingInv, Rebuilt
<1>9. Types' /\ Stamped /\ Known' = Known
  <2>1. EdgesStamped /\ IndexStamped
    <3>1. \A i \in DOMAIN ufi : ufi[i].out <= ufi[i].out
      BY TypeFacts
    <3> QED
      BY <1>1, <3>1 DEF EdgesStamped, IndexStamped
  <2>2. RowsStamped
    BY <1>7 DEF RowsStamped
  <2>3. Stamped
    BY <2>1, <2>2 DEF Stamped
  <2>4. Known' = Known
    BY <1>1 DEF Known
  <2>5. Numbers' /\ ClassTypes'
    <3>1. 1 <= ts' /\ ts \in Nat
      BY <1>5, TypeFacts
    <3> QED
      BY <1>1, <1>5, <2>4, <3>1 DEF EncodingInv, Types, Numbers, ClassTypes
  <2>6. /\ DOMAIN term' = Names /\ DOMAIN view' = Names /\ DOMAIN todel' = Names
        /\ \A g \in Names : /\ \A r \in DOMAIN term'[g] : r \in RowsOf(g, Known')
                            /\ \A r \in DOMAIN view'[g] : r \in RowsOf(g, Known')
                            /\ \A a \in DOMAIN todel'[g] : a \in ArgsOf(g, Known')
    BY <1>1, <1>7, <2>4 DEF EncodingInv, Types, RowTypes
  <2>7. /\ uf' \in [DOMAIN uf' -> Nat] /\ \A e \in DOMAIN uf' : e \in Known' \X Known'
        /\ \A i \in DOMAIN ufi' : i \in Known' /\ ufi'[i].out \in 1..i
    BY <1>1, <2>4 DEF EncodingInv, Types, EdgeTypes, IndexTypes
  <2> QED
    BY <1>5, <2>3, <2>4, <2>5, <2>6, <2>7, TypesKept
<1>10. Older'
  <2>1. CASE at' = "delete_subsume" /\ ts' = ts
    <3>1. /\ \A i \in DOMAIN ufi' : ufi'[i].ts < ts'
          /\ \A e \in DOMAIN uf' : uf'[e] < ts'
      BY <1>1, <1>2, <2>1, RulesetFacts DEF EncodingInv, Older
    <3>2. /\ \A g \in Names : \A r \in DOMAIN view[g] : view[g][r] < ts
          /\ \A g \in Names : \A a \in DOMAIN todel[g] : todel[g][a] < ts
      BY <1>2, RulesetFacts DEF EncodingInv, Older
    <3>3. /\ \A g \in Names : \A r \in DOMAIN view'[g] : view'[g][r] < ts'
          /\ \A g \in Names : \A a \in DOMAIN todel'[g] : todel'[g][a] < ts'
      BY <1>7, <2>1, <3>2
    <3> QED
      BY <2>1, <3>1, <3>3 DEF Older
  <2>2. CASE at' = "idle" /\ ts' = ts
    BY <1>9, <2>2, OlderNext
  <2> QED
    BY <1>6, <2>1, <2>2
<1>11. Marked'
  BY <1>1, <1>5, <1>7, <1>9, MarkedKept
<1>12. Indexed'
  BY <1>1, <1>2, <1>9 DEF EncodingInv, Indexed
<1>13. Forest'
  BY <1>1, <1>2, ForestGrows
<1>14. Quiet'
  BY <1>6 DEF Quiet
<1>15. LinksKept
  BY <1>1 DEF LinksKept, Respects
<1>16. Sound' /\ Least'
  <2>1. \A g \in Names : ViewRows[g] = DOMAIN view[g] /\ ViewRows'[g] = DOMAIN view'[g]
    BY DEF ViewRows
  <2>2. IsCongruence(classes, DOMAIN uf, ViewRows')
    BY <1>7, <2>1 DEF EncodingInv, Sound, IsCongruence
  <2>3. Sound'
    BY <1>1, <1>5, <2>2 DEF EncodingInv, Sound
  <2>4. ASSUME NEW k \in [Ids -> Ids], IsCongruence(k, DOMAIN uf, ViewRows'), NEW i \in Ids
        PROVE  k[classes[i]] = k[i]
    <3>1. CASE i \in Known
      <4>1. i \in DOMAIN ufi /\ ufi[i].out = classes[i]
        BY <1>8, <3>1 DEF Exact, Known
      <4>2. PICK e \in DOMAIN uf : e = <<i, classes[i]>>
        BY <1>2, <4>1 DEF EncodingInv, Forest, Entries
      <4>3. k[e[1]] = k[e[2]]
        BY <2>4 DEF IsCongruence
      <4> QED
        BY <4>2, <4>3
    <3>2. CASE i \notin Known
      BY <3>2, UnmadeAlone
    <3> QED
      BY <3>1, <3>2
  <2>5. Least'
    BY <1>1, <1>5, <2>4 DEF Least, Includes
  <2> QED
    BY <2>3, <2>5
<1>17. DeletePending(f)'
  <2> SUFFICES ASSUME NEW r \in DOMAIN view'[f], Args(r) \in DOMAIN todel'[f] PROVE FALSE
    BY DEF DeletePending
  <2>1. r \in DOMAIN view[f] /\ Args(r) \in DOMAIN todel[f] /\ r \notin Condemned(f)
    BY <1>7
  <2> QED
    BY <2>1 DEF Condemned
<1>18. Pending'
  <2>1. IndexTypes'
    BY <1>9 DEF Types
  <2>2. /\ ParentRule # DeleteOf(f) /\ IndexRule # DeleteOf(f) /\ CompressRule # DeleteOf(f)
        /\ \A g : /\ CongruenceOf(g) # DeleteOf(f) /\ RebuildOf(g) # DeleteOf(f)
                  /\ g # f => DeleteOf(g) # DeleteOf(f)
    BY DEF CompressRule, IndexRule, ParentRule, CongruenceOf, RebuildOf, DeleteOf, Rule
  <2>3. /\ lastRun'[ParentRule] = lastRun[ParentRule] /\ lastRun'[IndexRule] = lastRun[IndexRule]
        /\ lastRun'[CompressRule] = lastRun[CompressRule]
        /\ \A g \in Names : /\ lastRun'[CongruenceOf(g)] = lastRun[CongruenceOf(g)]
                            /\ lastRun'[RebuildOf(g)] = lastRun[RebuildOf(g)]
                            /\ g # f => lastRun'[DeleteOf(g)] = lastRun[DeleteOf(g)]
    BY <1>5, <2>2, RuleFacts
  <2>4. /\ ParentPending' /\ CompressPending' /\ IndexPending'
        /\ \A g \in Names : CongruencePending(g)' /\ RebuildPending(g)' /\ (g # f => DeletePending(g)')
    BY <1>5, <1>9, <1>15, <2>1, <2>3, PendingKept
  <2> QED
    BY <1>17, <2>4 DEF Pending
<1>19. Rebuilt'
  <2>1. \A i \in 1..(seq' - 1) : i \in DOMAIN ufi' /\ ufi'[i].out = classes'[i]
    BY <1>1, <1>5, <1>8 DEF Exact
  <2>2. \A e \in DOMAIN uf' : e[2] = classes'[e[1]]
    BY <1>1, <1>5, <1>8 DEF Exact
  <2>3. ASSUME NEW g \in Names, NEW r \in DOMAIN view'[g], NEW q \in DOMAIN view'[g]
        PROVE  Renamed(classes', r) = r /\ (Args(r) = Args(q) => r = q)
    <3>1. r \in DOMAIN view[g] /\ q \in DOMAIN view[g]
      BY <1>7
    <3> QED
      BY <1>5, <1>8, <3>1 DEF Exact
  <2> QED
    BY <2>1, <2>2, <2>3 DEF Rebuilt, Exact
<1> QED
  BY <1>5, <1>9, <1>10, <1>11, <1>12, <1>13, <1>14, <1>16, <1>18, <1>19 DEF EncodingInv

-----------------------------------------------------------------------------
(* The actions of a command. *)

\* What a rule can bind has been made.
LEMMA BoundKnown == EncodingInv => Bound \cup Made \subseteq Known
<1> SUFFICES ASSUME EncodingInv PROVE Bound \cup Made \subseteq Known
  OBVIOUS
<1>1. \A i \in Leaves : i \in Known
  BY TypeFacts
<1>2. ASSUME NEW f \in Names, NEW r \in DOMAIN view[f] PROVE Range(r) \subseteq Known /\ Class(r) \in Known
  <2>1. r \in RowsOf(f, Known)
    BY TypeFacts
  <2>2. Class(r) \in Known
    BY <2>1, RowParts
  <2>3. Range(r) \subseteq Known
    BY <2>1 DEF RowsOf, Range
  <2> QED
    BY <2>2, <2>3
<1>3. ASSUME NEW i \in Bound PROVE i \in Known
  <2>1. CASE i \in Leaves
    BY <1>1, <2>1
  <2>2. CASE i \notin Leaves
    <3>1. PICK f \in Names : i \in UNION {Range(r) : r \in {r \in DOMAIN view[f] : view[f][r] < ts}}
      BY <2>2 DEF Bound
    <3>2. PICK r \in DOMAIN view[f] : i \in Range(r)
      BY <3>1
    <3> QED
      BY <1>2, <3>2
  <2> QED
    BY <2>1, <2>2
<1>4. ASSUME NEW i \in Made PROVE i \in Known
  <2>1. PICK f \in Names : i \in {Class(r) : r \in {r \in DOMAIN view[f] : view[f][r] = ts}}
    BY DEF Made
  <2>2. PICK r \in DOMAIN view[f] : i = Class(r)
    BY <2>1
  <2> QED
    BY <1>2, <2>2
<1> QED
  BY <1>3, <1>4

\* The classes c are the least congruence of the edges and rows, and extend the old ones.
Learned(c, edges, rows) ==
  /\ c \in [Ids -> Ids] /\ \A i \in Ids : c[i] <= i /\ c[classes[i]] = c[i]
  /\ IsCongruence(c, edges, rows)
  /\ \A k \in [Ids -> Ids] : IsCongruence(k, edges, rows) => Includes(k, c)
  /\ \A i \in DOMAIN ufi : c[ufi[i].out] = c[i]

\* The closure of the classes with new pairs and rows is the least congruence of the
\* new edges and rows.
LEMMA LearnFacts ==
  ASSUME EncodingInv, NEW pairs, pairs \subseteq Ids \X Ids, NEW rows,
         \A f \in Names : ViewRows[f] \subseteq rows[f] /\ rows[f] \subseteq RowsOf(f, Ids),
         NEW edges, \A e \in DOMAIN uf : e \in edges,
         \A l \in [Ids -> Ids] : Respects(l) =>
            ((\A p \in pairs : l[p[1]] = l[p[2]]) <=> \A e \in edges : l[e[1]] = l[e[2]]),
         NEW c, c = Closure({<<i, classes[i]>> : i \in Ids} \cup pairs, rows)
  PROVE  Learned(c, edges, rows)
<1> DEFINE P == {<<i, classes[i]>> : i \in Ids} \cup pairs
<1>0. classes \in [Ids -> Ids]
  BY TypeFacts
<1>1. Graph(P, rows)
  BY <1>0 DEF Graph
<1>2. \A i \in Ids : <<i, classes[i]>> \in P
  OBVIOUS
<1>3. \A l : (\A p \in P : l[p[1]] = l[p[2]]) <=>
             (\A i \in Ids : l[i] = l[classes[i]]) /\ \A p \in pairs : l[p[1]] = l[p[2]]
  <2> SUFFICES ASSUME NEW l
               PROVE  (\A p \in P : l[p[1]] = l[p[2]]) <=>
                        (\A i \in Ids : l[i] = l[classes[i]]) /\ \A p \in pairs : l[p[1]] = l[p[2]]
    OBVIOUS
  <2>1. ASSUME \A p \in P : l[p[1]] = l[p[2]], NEW i \in Ids PROVE l[i] = l[classes[i]]
    <3>1. PICK p \in P : p = <<i, classes[i]>>
      BY <1>2
    <3> QED
      BY <2>1, <3>1
  <2>2. ASSUME \A i \in Ids : l[i] = l[classes[i]], NEW i \in Ids, NEW p, p = <<i, classes[i]>>
        PROVE  l[p[1]] = l[p[2]]
    BY <2>2
  <2> QED
    BY <2>1, <2>2
<1> HIDE DEF P
<1>4. /\ c \in [Ids -> Ids] /\ \A i \in Ids : c[i] <= i /\ c[c[i]] = c[i]
      /\ IsCongruence(c, P, rows)
      /\ \A k \in [Ids -> Ids] : IsCongruence(k, P, rows) => Includes(k, c)
  <2>1. c = Closure(P, rows)
    BY DEF P
  <2>2. PICK d : d = Closure(P, rows)
    OBVIOUS
  <2>3. d \in [Ids -> Ids] /\ \A i \in Ids : d[i] <= i /\ d[d[i]] = d[i]
    BY <1>1, <2>2, ClosureIsLeastCongruence
  <2>4. IsCongruence(d, P, rows)
    BY <1>1, <2>2, ClosureIsLeastCongruence
  <2>5. \A k \in [Ids -> Ids] : IsCongruence(k, P, rows) => Includes(k, d)
    BY <1>1, <2>2, ClosureIsLeastCongruence
  <2>6. c = d
    BY <2>1, <2>2
  <2> QED
    BY <2>3, <2>4, <2>5, <2>6
<1>5. (\A i \in Ids : c[i] = c[classes[i]]) /\ \A p \in pairs : c[p[1]] = c[p[2]]
  BY <1>3, <1>4 DEF IsCongruence
<1>6. Respects(c)
  <2> SUFFICES ASSUME NEW e \in DOMAIN uf PROVE c[e[1]] = c[e[2]]
    BY DEF Respects
  <2>1. classes[e[1]] = classes[e[2]]
    BY DEF EncodingInv, Sound, IsCongruence
  <2>2. e[1] \in Ids /\ e[2] \in Ids
    BY TypeFacts
  <2> QED
    BY <1>5, <2>1, <2>2
<1>7. IsCongruence(c, edges, rows)
  <2>1. \A e \in edges : c[e[1]] = c[e[2]]
    BY <1>4, <1>5, <1>6
  <2> QED
    BY <1>4, <2>1 DEF IsCongruence
<1>8. ASSUME NEW k \in [Ids -> Ids], IsCongruence(k, edges, rows) PROVE Includes(k, c)
  <2>1. Respects(k)
    BY <1>8 DEF IsCongruence, Respects
  <2>2. IsCongruence(k, DOMAIN uf, ViewRows)
    BY <1>8, <2>1 DEF IsCongruence, Respects
  <2>3. \A i \in Ids : k[i] = k[classes[i]]
    BY <2>2 DEF EncodingInv, Least, Includes
  <2>4. \A p \in pairs : k[p[1]] = k[p[2]]
    BY <1>8, <2>1 DEF IsCongruence
  <2>5. IsCongruence(k, P, rows)
    <3>1. \A p \in P : k[p[1]] = k[p[2]]
      BY <1>3, <2>3, <2>4
    <3> QED
      BY <1>8, <3>1 DEF IsCongruence
  <2> QED
    BY <1>4, <2>5
<1>9. ASSUME NEW i \in DOMAIN ufi PROVE c[ufi[i].out] = c[i]
  <2>1. classes[ufi[i].out] = classes[i]
    BY DEF EncodingInv, Sound
  <2>2. i \in Ids /\ ufi[i].out \in Ids
    BY TypeFacts
  <2> QED
    BY <1>5, <2>1, <2>2
<1> QED
  BY <1>4, <1>5, <1>7, <1>8, <1>9 DEF Learned

\* An action leaves the schedule as it is.
LEMMA ActSchedule ==
  ASSUME EncodingInv, Act, NEW tables \in SUBSET Tables, Written(tables)
  PROVE  /\ at = "actions" /\ at' = "actions" /\ at \notin Alone /\ ts' = ts /\ ts' \in Nat /\ ts <= ts' /\ 1 <= ts'
         /\ \A r \in Rules : lastRun'[r] = lastRun[r] /\ lastRun'[r] \in Nat /\ lastRun'[r] <= ts
         /\ \A t \in Tables : watermark'[t] = IF t \in tables THEN ts ELSE watermark[t]
         /\ RunTypes' /\ TodoInv' /\ Older' /\ Quiet' /\ Rebuilt'
<1>1. at = "actions" /\ UNCHANGED <<ts, lastRun, at, todo, updated, outer, rebuilt>>
  BY DEF Act
<1>2. at' = "actions" /\ at \notin Alone /\ at' \notin Alone /\ at' \notin DOMAIN Rulesets
  BY <1>1, RulesetFacts DEF Alone
<1>3. ts \in Nat /\ ts <= ts /\ 1 <= ts /\ \A r \in Rules : lastRun[r] \in Nat /\ lastRun[r] <= ts
  BY TypeFacts
<1>4. /\ watermark' \in [Tables -> Nat]
      /\ \A t \in Tables : watermark'[t] = IF t \in tables THEN ts ELSE watermark[t]
  <2>1. watermark' = [t \in Tables |-> IF t \in tables THEN ts ELSE watermark[t]]
    BY DEF Written
  <2>2. \A t \in Tables : watermark[t] \in Nat
    BY TypeFacts
  <2> QED
    BY <1>3, <2>1, <2>2
<1>5. RunTypes'
  BY <1>1, <1>4 DEF EncodingInv, Types, RunTypes
<1>6. TodoInv'
  BY <1>1, <1>2 DEF EncodingInv, TodoInv
<1>7. Older'
  BY <1>2, RulesetFacts DEF Older
<1>8. Quiet'
  BY <1>2 DEF Quiet
<1>9. Rebuilt'
  BY <1>1, <1>2 DEF EncodingInv, TodoInv, Rebuilt
<1> QED
  BY <1>1, <1>2, <1>3, <1>4, <1>5, <1>6, <1>7, <1>8, <1>9

\* What the maintenance rules have to find stays, or is more.
LEMMA ActPending ==
  ASSUME EncodingInv, Stamped, LinksKept, Types',
         \A r \in Rules : lastRun'[r] = lastRun[r] /\ lastRun'[r] \in Nat /\ lastRun'[r] <= ts
  PROVE  Pending'
<1>1. IndexTypes'
  BY DEF Types
<1>2. /\ lastRun'[ParentRule] = lastRun[ParentRule] /\ lastRun'[IndexRule] = lastRun[IndexRule]
      /\ lastRun'[CompressRule] = lastRun[CompressRule]
      /\ \A g \in Names : /\ lastRun'[CongruenceOf(g)] = lastRun[CongruenceOf(g)]
                          /\ lastRun'[RebuildOf(g)] = lastRun[RebuildOf(g)]
                          /\ lastRun'[DeleteOf(g)] = lastRun[DeleteOf(g)]
  BY RuleFacts
<1>3. /\ ParentPending' /\ CompressPending' /\ IndexPending'
      /\ \A g \in Names : CongruencePending(g)' /\ RebuildPending(g)' /\ DeletePending(g)'
  BY <1>1, <1>2, PendingKept
<1> QED
  BY <1>3 DEF Pending

\* An edge is added between two known ids.
LEMMA EdgeInserted ==
  ASSUME EncodingInv, NEW e, uf' = InsertIgnore(uf, {e}, ts)
  PROVE  /\ DOMAIN uf' = DOMAIN uf \cup {e} /\ uf' \in [DOMAIN uf' -> Nat] /\ EdgesStamped
         /\ e \in DOMAIN uf => \A d \in DOMAIN uf' : d \in DOMAIN uf /\ uf'[d] = uf[d]
         /\ LinksKept
<1>1. /\ DOMAIN uf' = DOMAIN uf \cup {e}
      /\ \A d \in DOMAIN uf : uf'[d] = uf[d]
      /\ \A d \in DOMAIN uf' : d \notin DOMAIN uf => uf'[d] = ts
  BY DEF InsertIgnore
<1>2. uf' \in [DOMAIN uf' -> Nat]
  <2>1. ts \in Nat /\ \A d \in DOMAIN uf : uf[d] \in Nat
    BY TypeFacts
  <2> QED
    BY <2>1, StampedTable
<1>3. EdgesStamped
  BY <1>1 DEF EdgesStamped
<1>4. LinksKept
  BY <1>1 DEF LinksKept, Respects
<1> QED
  BY <1>1, <1>2, <1>3, <1>4

\* The classes after two ids are made equal.
LEMMA UnionClasses ==
  ASSUME EncodingInv, NEW x \in Known, NEW y \in Known,
         uf' = InsertIgnore(uf, {Edge(x, y)}, ts), Learn({<<x, y>>}, ViewRows)
  PROVE  Learned(classes', DOMAIN uf', ViewRows)
<1>1. x \in Nat /\ y \in Nat /\ x \in Ids /\ y \in Ids
  BY TypeFacts
<1>2. PICK e : e = Edge(x, y)
  OBVIOUS
<1>3. e = <<x, y>> \/ e = <<y, x>>
  BY <1>1, <1>2, EdgeFacts
<1>4. DOMAIN uf' = DOMAIN uf \cup {e}
  BY <1>2, EdgeInserted
<1>5. PICK p : p = <<x, y>>
  OBVIOUS
<1>6. PICK pairs, edges : pairs = {p} /\ edges = DOMAIN uf'
  OBVIOUS
<1>7. PICK c, rows : c = classes' /\ rows = ViewRows
  OBVIOUS
<1>8. pairs \subseteq Ids \X Ids /\ p[1] = x /\ p[2] = y
  BY <1>1, <1>5, <1>6
<1>9. \A f \in Names : ViewRows[f] \subseteq rows[f] /\ rows[f] \subseteq RowsOf(f, Ids)
  BY <1>7, TypeFacts DEF ViewRows
<1>10. c = Closure({<<i, classes[i]>> : i \in Ids} \cup pairs, rows)
  BY <1>5, <1>6, <1>7 DEF Learn
<1>11. ASSUME NEW l \in [Ids -> Ids], Respects(l)
       PROVE  (\A q \in pairs : l[q[1]] = l[q[2]]) <=> \A d \in edges : l[d[1]] = l[d[2]]
  <2>1. \A d \in DOMAIN uf : l[d[1]] = l[d[2]]
    BY <1>11 DEF Respects
  <2>2. (l[e[1]] = l[e[2]]) <=> (l[x] = l[y])
    BY <1>3
  <2> QED
    BY <1>4, <1>6, <1>8, <2>1, <2>2
<1>12. \A d \in DOMAIN uf : d \in edges
  BY <1>4, <1>6
<1>13. Learned(c, edges, rows)
  BY <1>8, <1>9, <1>10, <1>11, <1>12, LearnFacts
<1> QED
  BY <1>6, <1>7, <1>13

\* A union keeps the invariant.
LEMMA UnionStep == EncodingInv /\ Union => EncodingInv'
<1> SUFFICES ASSUME EncodingInv, Union PROVE EncodingInv'
  OBVIOUS
<1>1. PICK x, y \in Bound \cup Made :
        /\ x < y
        /\ uf' = InsertIgnore(uf, {Edge(x, y)}, ts)
        /\ Written(IF Edge(x, y) \in DOMAIN uf THEN {} ELSE {UFTable})
        /\ Learn({<<x, y>>}, ViewRows)
  BY DEF Union
<1>2. Act /\ UNCHANGED <<ufi, term, view, todel, seq>>
  BY DEF Union
<1>3. x \in Known /\ y \in Known /\ x \in Nat /\ y \in Nat /\ x \in Ids /\ y \in Ids
  BY BoundKnown, TypeFacts
<1>4. PICK e : e = Edge(x, y)
  OBVIOUS
<1>5. (e = <<x, y>> \/ e = <<y, x>>) /\ e[2] <= e[1]
  BY <1>3, <1>4, EdgeFacts
<1> DEFINE tables == IF e \in DOMAIN uf THEN {} ELSE {UFTable}
<1>6. /\ at = "actions" /\ at' = "actions" /\ at \notin Alone /\ ts' = ts /\ ts' \in Nat /\ ts <= ts' /\ 1 <= ts'
      /\ \A r \in Rules : lastRun'[r] = lastRun[r] /\ lastRun'[r] \in Nat /\ lastRun'[r] <= ts
      /\ \A t \in Tables : watermark'[t] = IF t \in tables THEN ts ELSE watermark[t]
      /\ RunTypes' /\ TodoInv' /\ Older' /\ Quiet' /\ Rebuilt'
  <2>1. tables \in SUBSET Tables
    BY TableFacts
  <2>2. Written(tables)
    BY <1>1, <1>4
  <2> HIDE DEF tables
  <2> QED
    BY <1>2, <2>1, <2>2, ActSchedule
<1>7. UFTable \notin tables => e \in DOMAIN uf
  OBVIOUS
<1> HIDE DEF tables
<1>8. /\ DOMAIN uf' = DOMAIN uf \cup {e} /\ uf' \in [DOMAIN uf' -> Nat] /\ EdgesStamped
      /\ e \in DOMAIN uf => \A d \in DOMAIN uf' : d \in DOMAIN uf /\ uf'[d] = uf[d]
      /\ LinksKept
  BY <1>1, <1>4, EdgeInserted
<1>9. Learned(classes', DOMAIN uf', ViewRows)
  BY <1>1, <1>3, UnionClasses
<1>10. ViewRows' = ViewRows /\ Known' = Known
  BY <1>2 DEF ViewRows, Known
<1>11. Types' /\ Stamped
  <2>1. IndexStamped /\ RowsStamped
    <3>1. \A i \in DOMAIN ufi : ufi[i].out <= ufi[i].out
      BY TypeFacts
    <3> QED
      BY <1>2, <3>1 DEF IndexStamped, RowsStamped
  <2>2. Stamped
    BY <1>8, <2>1 DEF Stamped
  <2>3. Numbers' /\ ClassTypes'
    BY <1>2, <1>6, <1>9, <1>10 DEF EncodingInv, Types, Numbers, ClassTypes, Learned
  <2>4. /\ DOMAIN term' = Names /\ DOMAIN view' = Names /\ DOMAIN todel' = Names
        /\ \A g \in Names : /\ \A r \in DOMAIN term'[g] : r \in RowsOf(g, Known')
                            /\ \A r \in DOMAIN view'[g] : r \in RowsOf(g, Known')
                            /\ \A a \in DOMAIN todel'[g] : a \in ArgsOf(g, Known')
    BY <1>2, <1>10 DEF EncodingInv, Types, RowTypes
  <2>5. \A d \in DOMAIN uf' : d \in Known' \X Known'
    BY <1>3, <1>5, <1>8, <1>10, TypeFacts
  <2>6. \A i \in DOMAIN ufi' : i \in Known' /\ ufi'[i].out \in 1..i
    BY <1>2, <1>10 DEF EncodingInv, Types, IndexTypes
  <2> QED
    BY <1>6, <1>8, <2>2, <2>3, <2>4, <2>5, <2>6, TypesKept
<1>12. Marked'
  BY <1>2, <1>6, <1>7, <1>8, <1>11, MarkedKept
<1>13. Indexed'
  BY <1>2, <1>6 DEF EncodingInv, Indexed
<1>14. Forest'
  BY <1>2, <1>5, <1>6, <1>8, ForestGrows
<1>15. Pending'
  BY <1>6, <1>8, <1>11, ActPending
<1>16. Sound'
  BY <1>2, <1>9, <1>10 DEF Sound, Learned
<1>17. Least'
  BY <1>9, <1>10 DEF Least, Learned
<1> QED
  BY <1>6, <1>11, <1>12, <1>13, <1>14, <1>15, <1>16, <1>17 DEF EncodingInv

\* A request to delete keeps the invariant.
LEMMA DeleteStep == EncodingInv /\ Delete => EncodingInv'
<1> SUFFICES ASSUME EncodingInv, Delete PROVE EncodingInv'
  OBVIOUS
<1>1. PICK f \in Names : \E args \in [1..Arity[f] -> Bound \cup Made] :
        /\ todel' = [todel EXCEPT ![f] = InsertIgnore(DeleteRows(todel[f], {args}), {args}, ts)]
        /\ Written({ToDelete(f)})
  BY DEF Delete
<1>2. PICK args \in [1..Arity[f] -> Bound \cup Made] :
        /\ todel' = [todel EXCEPT ![f] = InsertIgnore(DeleteRows(todel[f], {args}), {args}, ts)]
        /\ Written({ToDelete(f)})
  BY <1>1
<1>3. Act /\ UNCHANGED <<uf, ufi, term, view, seq, classes>>
  BY DEF Delete
<1>4. args \in ArgsOf(f, Known)
  BY BoundKnown DEF ArgsOf
<1>5. /\ at = "actions" /\ at' = "actions" /\ at \notin Alone /\ ts' = ts /\ ts' \in Nat /\ ts <= ts' /\ 1 <= ts'
      /\ \A r \in Rules : lastRun'[r] = lastRun[r] /\ lastRun'[r] \in Nat /\ lastRun'[r] <= ts
      /\ \A t \in Tables : watermark'[t] = IF t \in {ToDelete(f)} THEN ts ELSE watermark[t]
      /\ RunTypes' /\ TodoInv' /\ Older' /\ Quiet' /\ Rebuilt'
  <2>1. {ToDelete(f)} \in SUBSET Tables
    BY TableFacts
  <2> QED
    BY <1>2, <1>3, <2>1, ActSchedule
<1>6. DOMAIN todel = Names
  BY DEF EncodingInv, Types, RowTypes
<1>7. /\ DOMAIN todel' = Names /\ \A g \in Names : g # f => todel'[g] = todel[g]
      /\ DOMAIN todel'[f] = DOMAIN todel[f] \cup {args}
      /\ \A a \in DOMAIN todel'[f] : todel'[f][a] = ts \/ (a \in DOMAIN todel[f] /\ todel'[f][a] = todel[f][a])
  <2> DEFINE w == InsertIgnore(DeleteRows(todel[f], {args}), {args}, ts)
  <2>1. PICK t : t = todel[f]
    OBVIOUS
  <2>2. w = InsertIgnore(DeleteRows(t, {args}), {args}, ts)
    BY <2>1
  <2> HIDE DEF w
  <2>6. /\ DOMAIN w = DOMAIN t \cup {args}
        /\ \A a \in DOMAIN w : w[a] = ts \/ (a \in DOMAIN t /\ w[a] = t[a])
    BY <2>2 DEF InsertIgnore, DeleteRows, Restrict
  <2>7. DOMAIN todel' = Names /\ todel'[f] = w /\ \A g \in Names : g # f => todel'[g] = todel[g]
    BY <1>2, <1>6 DEF w
  <2> QED
    BY <2>1, <2>6, <2>7
<1>8. ViewRows' = ViewRows /\ Known' = Known
  BY <1>3 DEF ViewRows, Known
<1>9. Types' /\ Stamped
  <2>1. EdgesStamped /\ IndexStamped
    <3>1. \A i \in DOMAIN ufi : ufi[i].out <= ufi[i].out
      BY TypeFacts
    <3> QED
      BY <1>3, <3>1 DEF EdgesStamped, IndexStamped
  <2>2. RowsStamped
    BY <1>3, <1>7 DEF RowsStamped
  <2>3. Stamped
    BY <2>1, <2>2 DEF Stamped
  <2>4. Numbers' /\ ClassTypes'
    BY <1>3, <1>5, <1>8 DEF EncodingInv, Types, Numbers, ClassTypes
  <2>5. /\ DOMAIN term' = Names /\ DOMAIN view' = Names /\ DOMAIN todel' = Names
        /\ \A g \in Names : /\ \A r \in DOMAIN term'[g] : r \in RowsOf(g, Known')
                            /\ \A r \in DOMAIN view'[g] : r \in RowsOf(g, Known')
                            /\ \A a \in DOMAIN todel'[g] : a \in ArgsOf(g, Known')
    BY <1>3, <1>4, <1>7, <1>8 DEF EncodingInv, Types, RowTypes
  <2>6. /\ uf' \in [DOMAIN uf' -> Nat] /\ \A e \in DOMAIN uf' : e \in Known' \X Known'
        /\ \A i \in DOMAIN ufi' : i \in Known' /\ ufi'[i].out \in 1..i
    BY <1>3, <1>8 DEF EncodingInv, Types, EdgeTypes, IndexTypes
  <2> QED
    BY <1>5, <2>3, <2>4, <2>5, <2>6, TypesKept
<1>10. Marked'
  <2>1. \A g \in Names : ToDelete(g) \notin {ToDelete(f)} =>
          \A a \in DOMAIN todel'[g] : a \in DOMAIN todel[g] /\ todel'[g][a] = todel[g][a]
    BY <1>7
  <2> QED
    BY <1>3, <1>5, <1>9, <2>1, MarkedKept
<1>11. Indexed'
  BY <1>3, <1>5 DEF EncodingInv, Indexed
<1>12. Forest'
  BY <1>3, <1>5, ForestGrows
<1>13. LinksKept
  BY <1>3 DEF LinksKept, Respects
<1>14. Pending'
  BY <1>5, <1>9, <1>13, ActPending
<1>15. Sound' /\ Least'
  BY <1>3, <1>8 DEF EncodingInv, Sound, Least
<1> QED
  BY <1>5, <1>9, <1>10, <1>11, <1>12, <1>14, <1>15 DEF EncodingInv

\* What the index leads to has been made and leads to itself.
Settled(i) == i \in DOMAIN ufi => ufi[i].out = i

\* Find gives a known id that the index does not lead away from.
LEMMA FindFacts ==
  ASSUME EncodingInv, at \notin Alone
  PROVE  /\ \A i \in Known : Find(i) \in Known /\ Settled(Find(i))
         /\ seq \notin DOMAIN ufi /\ Find(seq) = seq /\ Settled(seq)
<1>1. \A i \in DOMAIN ufi : ufi[i].out \in Known /\ ufi[ufi[i].out].out = ufi[i].out
  BY TypeFacts DEF EncodingInv, Forest, Leads
<1>2. seq \notin DOMAIN ufi
  BY TypeFacts
<1> QED
  BY <1>1, <1>2 DEF Find, Settled

\* An application is made: canon are its arguments' leaders, id its id.
Makes(f, canon, id) ==
  /\ canon \in ArgsOf(f, Known) /\ \A k \in 1..Arity[f] : Settled(canon[k])
  /\ \/ id = seq /\ seq \in Ids /\ seq' = seq + 1
     \/ id \in Existing(f, canon) /\ seq' = seq
  /\ term' = [term EXCEPT ![f] = InsertIgnore(@, {Row(canon, id)}, ts)]
  /\ view' = [view EXCEPT ![f] = InsertIgnore(@, {Row(canon, Find(id))}, ts)]
  /\ uf' = InsertIgnore(uf, {Edge(id, id)}, ts)
  /\ Written((IF Row(canon, Find(id)) \in DOMAIN view[f] THEN {} ELSE {View(f)})
               \cup (IF Edge(id, id) \in DOMAIN uf THEN {} ELSE {UFTable}))
  /\ Learn({}, ViewRows')

\* The rows that exist have ids that are known.
LEMMA ExistingFacts ==
  ASSUME EncodingInv, NEW f \in Names, NEW args
  PROVE  /\ \A i \in Existing(f, args) : i \in Known /\ \E r \in DOMAIN view[f] : Args(r) = args /\ Class(r) = i
         /\ Existing(f, args) # {} => Min(Existing(f, args)) \in Existing(f, args)
<1>1. \A r \in DOMAIN view[f] : Class(r) \in Known
  BY RowParts, TypeFacts
<1>2. \A i \in Existing(f, args) : i \in Known /\ \E r \in DOMAIN view[f] : Args(r) = args /\ Class(r) = i
  BY <1>1 DEF Existing
<1>3. PICK S : S = Existing(f, args)
  OBVIOUS
<1>4. S \in SUBSET Nat
  BY <1>2, <1>3, TypeFacts
<1>5. S # {} => Min(S) \in S
  BY <1>4, MinFacts
<1> QED
  BY <1>2, <1>3, <1>5

\* What the action Make does to the tables (Makes).
LEMMA MakeFacts ==
  ASSUME EncodingInv, Make
  PROVE  /\ at = "actions" /\ Act /\ UNCHANGED <<ufi, todel>>
         /\ \E f \in Names : \E canon, id : Makes(f, canon, id)
<1>1. Act /\ UNCHANGED <<ufi, todel>>
  BY DEF Make
<1>2. at = "actions" /\ at \notin Alone
  BY <1>1 DEF Act, Alone
<1>3. PICK f \in Names, new \in BOOLEAN : \E args \in [1..Arity[f] -> Bound \cup Made] :
       LET canon == [k \in DOMAIN args |-> Find(args[k])]
           id    == IF new THEN seq ELSE Min(Existing(f, canon))
           row   == Row(canon, Find(id))
       IN  /\ IF new THEN seq \in Ids ELSE Existing(f, canon) # {} /\ Range(args) \subseteq Bound
           /\ seq' = IF new THEN seq + 1 ELSE seq
           /\ term' = [term EXCEPT ![f] = InsertIgnore(@, {Row(canon, id)}, ts)]
           /\ view' = [view EXCEPT ![f] = InsertIgnore(@, {row}, ts)]
           /\ uf' = InsertIgnore(uf, {Edge(id, id)}, ts)
           /\ Written((IF row \in DOMAIN view[f] THEN {} ELSE {View(f)})
                        \cup (IF Edge(id, id) \in DOMAIN uf THEN {} ELSE {UFTable}))
           /\ Learn({}, ViewRows')
  BY Zenon DEF Make
<1>4. PICK args \in [1..Arity[f] -> Bound \cup Made] :
       LET canon == [k \in DOMAIN args |-> Find(args[k])]
           id    == IF new THEN seq ELSE Min(Existing(f, canon))
           row   == Row(canon, Find(id))
       IN  /\ IF new THEN seq \in Ids ELSE Existing(f, canon) # {} /\ Range(args) \subseteq Bound
           /\ seq' = IF new THEN seq + 1 ELSE seq
           /\ term' = [term EXCEPT ![f] = InsertIgnore(@, {Row(canon, id)}, ts)]
           /\ view' = [view EXCEPT ![f] = InsertIgnore(@, {row}, ts)]
           /\ uf' = InsertIgnore(uf, {Edge(id, id)}, ts)
           /\ Written((IF row \in DOMAIN view[f] THEN {} ELSE {View(f)})
                        \cup (IF Edge(id, id) \in DOMAIN uf THEN {} ELSE {UFTable}))
           /\ Learn({}, ViewRows')
  BY <1>3, Zenon
<1> DEFINE canon == [k \in DOMAIN args |-> Find(args[k])]
           id == IF new THEN seq ELSE Min(Existing(f, canon))
<1>5. /\ IF new THEN seq \in Ids ELSE Existing(f, canon) # {}
      /\ seq' = IF new THEN seq + 1 ELSE seq
      /\ term' = [term EXCEPT ![f] = InsertIgnore(@, {Row(canon, id)}, ts)]
      /\ view' = [view EXCEPT ![f] = InsertIgnore(@, {Row(canon, Find(id))}, ts)]
      /\ uf' = InsertIgnore(uf, {Edge(id, id)}, ts)
      /\ Written((IF Row(canon, Find(id)) \in DOMAIN view[f] THEN {} ELSE {View(f)})
                   \cup (IF Edge(id, id) \in DOMAIN uf THEN {} ELSE {UFTable}))
      /\ Learn({}, ViewRows')
  BY <1>4, Zenon
<1>6. args \in [1..Arity[f] -> Known]
  BY BoundKnown
<1>7. canon \in ArgsOf(f, Known) /\ \A k \in 1..Arity[f] : Settled(canon[k])
  <2>1. \A i \in Known : Find(i) \in Known /\ Settled(Find(i))
    BY <1>2, FindFacts
  <2> QED
    BY <1>6, <2>1 DEF ArgsOf
<1> HIDE DEF canon
<1>8. \/ id = seq /\ seq \in Ids /\ seq' = seq + 1
      \/ id \in Existing(f, canon) /\ seq' = seq
  <2>1. CASE new
    BY <1>5, <2>1
  <2>2. CASE ~new
    BY <1>5, <2>2, ExistingFacts
  <2> QED
    BY <2>1, <2>2
<1> HIDE DEF id
<1>9. Makes(f, canon, id)
  BY <1>5, <1>7, <1>8, Zenon DEF Makes
<1> QED
  BY <1>1, <1>2, <1>9

\* The ids after an application was made, and its row.
LEMMA MadeFacts ==
  ASSUME EncodingInv, at \notin Alone, NEW f \in Names, NEW canon, NEW id, Makes(f, canon, id)
  PROVE  /\ seq' \in Nat /\ 1 <= seq' /\ seq' <= MaxId + 1
         /\ \A i \in Known : i \in Known'
         /\ id \in Known' /\ \A i \in Known' : i \in Nat /\ i \in Ids /\ (i \in Known \/ i = id)
         /\ Find(id) \in Known' /\ Settled(Find(id)) /\ id # seq => id \in Known
         /\ Row(canon, id) \in RowsOf(f, Known') /\ Row(canon, Find(id)) \in RowsOf(f, Known')
         /\ \A k \in 1..LastColumn(f) : Settled(Row(canon, Find(id))[k])
         /\ Edge(id, id) = <<id, id>>
<1>1. /\ seq \in Nat /\ 1 <= seq /\ seq <= MaxId + 1 /\ MaxId \in Nat
      /\ \A i : i \in Known <=> i \in Nat /\ 1 <= i /\ i < seq
  BY IdsAreNumbers, TypeFacts DEF EncodingInv, Types, Numbers
<1>2. \/ id = seq /\ seq <= MaxId /\ seq' = seq + 1
      \/ id \in Known /\ seq' = seq
  BY ExistingFacts, IdsAreNumbers DEF Makes
<1>3. Known' = 1..(seq' - 1)
  BY DEF Known
<1>4. seq' \in Nat /\ 1 <= seq' /\ seq' <= MaxId + 1
  BY <1>1, <1>2
<1>5. \A i : i \in Known' <=> i \in Nat /\ 1 <= i /\ i < seq'
  BY <1>3, <1>4
<1>6. /\ \A i \in Known : i \in Known'
      /\ id \in Known' /\ \A i \in Known' : i \in Nat /\ (i \in Known \/ i = id)
      /\ id # seq => id \in Known
  BY <1>1, <1>2, <1>5
<1>7. \A i \in Known' : i \in Ids
  BY <1>1, <1>4, <1>5, IdsAreNumbers
<1>8. Find(id) \in Known' /\ Settled(Find(id))
  <2>1. CASE id = seq
    BY <1>6, <2>1, FindFacts
  <2>2. CASE id \in Known
    BY <1>6, <2>2, FindFacts
  <2> QED
    BY <1>6, <2>1, <2>2
<1>9. canon \in ArgsOf(f, Known') /\ \A k \in 1..Arity[f] : Settled(canon[k])
  BY <1>6 DEF Makes, ArgsOf
<1>10. /\ Row(canon, id) \in RowsOf(f, Known') /\ Row(canon, Find(id)) \in RowsOf(f, Known')
       /\ \A k \in 1..LastColumn(f) : Row(canon, Find(id))[k] = IF k = LastColumn(f) THEN Find(id) ELSE canon[k]
  BY <1>6, <1>8, <1>9, RowMade
<1>11. \A k \in 1..LastColumn(f) : Settled(Row(canon, Find(id))[k])
  BY <1>8, <1>9, <1>10, Columns
<1>12. Edge(id, id) = <<id, id>>
  BY <1>6, EdgeFacts
<1> QED
  BY <1>4, <1>6, <1>7, <1>8, <1>10, <1>11, <1>12

\* The tables after it.
LEMMA MadeTables ==
  ASSUME EncodingInv, at \notin Alone, UNCHANGED <<ufi, todel>>,
         NEW f \in Names, NEW canon, NEW id, Makes(f, canon, id)
  PROVE  LET row == Row(canon, Find(id))
         IN  /\ DOMAIN term' = Names /\ DOMAIN view' = Names
             /\ \A g \in Names : g # f => view'[g] = view[g]
             /\ DOMAIN view'[f] = DOMAIN view[f] \cup {row}
             /\ \A r \in DOMAIN view[f] : view'[f][r] = view[f][r]
             /\ \A r \in DOMAIN view'[f] : view'[f][r] = ts \/ (r \in DOMAIN view[f] /\ view'[f][r] = view[f][r])
             /\ \A g \in Names : /\ \A r \in DOMAIN term'[g] : r \in RowsOf(g, Known')
                                 /\ \A r \in DOMAIN view'[g] : r \in RowsOf(g, Known')
             /\ \A g \in Names : \A r \in DOMAIN view'[g] : r \in Stale(g)' => r \in DOMAIN view[g]
             /\ \A g \in Names : ViewRows[g] \subseteq ViewRows'[g] /\ ViewRows'[g] \subseteq RowsOf(g, Ids)
             /\ DOMAIN uf' = DOMAIN uf \cup {<<id, id>>} /\ uf' \in [DOMAIN uf' -> Nat] /\ EdgesStamped
             /\ <<id, id>> \in DOMAIN uf => \A d \in DOMAIN uf' : d \in DOMAIN uf /\ uf'[d] = uf[d]
             /\ LinksKept
<1> DEFINE row == Row(canon, Find(id))
<1>1. /\ \A i \in Known : i \in Known'
      /\ \A i \in Known' : i \in Ids
      /\ Row(canon, id) \in RowsOf(f, Known') /\ row \in RowsOf(f, Known')
      /\ \A k \in 1..LastColumn(f) : Settled(row[k])
      /\ Edge(id, id) = <<id, id>>
  BY MadeFacts
<1>2. /\ term' = [term EXCEPT ![f] = InsertIgnore(@, {Row(canon, id)}, ts)]
      /\ view' = [view EXCEPT ![f] = InsertIgnore(@, {row}, ts)]
      /\ uf' = InsertIgnore(uf, {<<id, id>>}, ts)
  BY <1>1 DEF Makes
<1> HIDE DEF row
<1>3. /\ DOMAIN term = Names /\ DOMAIN view = Names
      /\ \A g \in Names : /\ \A r \in DOMAIN term[g] : r \in RowsOf(g, Known)
                          /\ \A r \in DOMAIN view[g] : r \in RowsOf(g, Known)
  BY DEF EncodingInv, Types, RowTypes
<1>4. \A g \in Names : \A r \in RowsOf(g, Known) : r \in RowsOf(g, Known')
  BY <1>1 DEF RowsOf
<1>5. \A g \in Names : \A r \in RowsOf(g, Known') : r \in RowsOf(g, Ids) /\ DOMAIN r = 1..LastColumn(g)
  BY <1>1 DEF RowsOf, LastColumn
<1>6. /\ DOMAIN term' = Names /\ \A g \in Names : g # f => term'[g] = term[g]
      /\ DOMAIN term'[f] = DOMAIN term[f] \cup {Row(canon, id)}
  BY <1>2, <1>3 DEF InsertIgnore
<1>7. /\ DOMAIN view' = Names /\ \A g \in Names : g # f => view'[g] = view[g]
      /\ DOMAIN view'[f] = DOMAIN view[f] \cup {row}
      /\ \A r \in DOMAIN view[f] : view'[f][r] = view[f][r]
      /\ \A r \in DOMAIN view'[f] : r \notin DOMAIN view[f] => view'[f][r] = ts
  BY <1>2, <1>3 DEF InsertIgnore
<1>8. \A g \in Names : /\ \A r \in DOMAIN term'[g] : r \in RowsOf(g, Known')
                       /\ \A r \in DOMAIN view'[g] : r \in RowsOf(g, Known')
  <2> SUFFICES ASSUME NEW g \in Names
               PROVE  /\ \A r \in DOMAIN term'[g] : r \in RowsOf(g, Known')
                      /\ \A r \in DOMAIN view'[g] : r \in RowsOf(g, Known')
    OBVIOUS
  <2>1. CASE g # f
    BY <1>3, <1>4, <1>6, <1>7, <2>1
  <2>2. CASE g = f
    BY <1>1, <1>3, <1>4, <1>6, <1>7, <2>2
  <2> QED
    BY <2>1, <2>2
<1>9. ASSUME NEW g \in Names, NEW r \in DOMAIN view'[g], r \in Stale(g)' PROVE r \in DOMAIN view[g]
  <2>1. \E k \in DOMAIN r : r[k] \in DOMAIN ufi /\ r[k] # ufi[r[k]].out
    BY <1>9 DEF Stale, Range
  <2>2. CASE g = f /\ r = row
    BY <1>1, <1>5, <2>1, <2>2 DEF Settled
  <2> QED
    BY <1>7, <2>2
<1>10. \A g \in Names : ViewRows[g] \subseteq ViewRows'[g] /\ ViewRows'[g] \subseteq RowsOf(g, Ids)
  <2>1. \A g \in Names : ViewRows[g] = DOMAIN view[g] /\ ViewRows'[g] = DOMAIN view'[g]
    BY DEF ViewRows
  <2> QED
    BY <1>5, <1>7, <1>8, <2>1
<1>11. /\ DOMAIN uf' = DOMAIN uf \cup {<<id, id>>} /\ uf' \in [DOMAIN uf' -> Nat] /\ EdgesStamped
       /\ <<id, id>> \in DOMAIN uf => \A d \in DOMAIN uf' : d \in DOMAIN uf /\ uf'[d] = uf[d]
       /\ LinksKept
  BY <1>2, EdgeInserted
<1> QED
  BY <1>6, <1>7, <1>8, <1>9, <1>10, <1>11 DEF row

\* The classes after it.
LEMMA MadeClasses ==
  ASSUME EncodingInv, at \notin Alone, UNCHANGED <<ufi, todel>>,
         NEW f \in Names, NEW canon, NEW id, Makes(f, canon, id)
  PROVE  Learned(classes', DOMAIN uf', ViewRows')
<1>1. DOMAIN uf' = DOMAIN uf \cup {<<id, id>>}
  BY MadeTables
<1>2. \A g \in Names : ViewRows[g] \subseteq ViewRows'[g] /\ ViewRows'[g] \subseteq RowsOf(g, Ids)
  BY MadeTables
<1>3. PICK rows : rows = ViewRows'
  OBVIOUS
<1>4. PICK c : c = classes'
  OBVIOUS
<1>5. PICK edges : edges = DOMAIN uf'
  OBVIOUS
<1>6. PICK pairs : pairs = {}
  OBVIOUS
<1>7. c = Closure({<<i, classes[i]>> : i \in Ids} \cup pairs, rows)
  BY <1>3, <1>4, <1>6 DEF Makes, Learn
<1>8. /\ pairs \subseteq Ids \X Ids /\ \A e \in DOMAIN uf : e \in edges
      /\ \A g \in Names : ViewRows[g] \subseteq rows[g] /\ rows[g] \subseteq RowsOf(g, Ids)
  BY <1>1, <1>2, <1>3, <1>5, <1>6
<1>9. ASSUME NEW l \in [Ids -> Ids], Respects(l)
      PROVE  (\A p \in pairs : l[p[1]] = l[p[2]]) <=> \A e \in edges : l[e[1]] = l[e[2]]
  <2>1. \A e \in edges : e \in DOMAIN uf \/ e[1] = e[2]
    BY <1>1, <1>5
  <2> QED
    BY <1>6, <1>9, <2>1 DEF Respects
<1>10. Learned(c, edges, rows)
  BY <1>7, <1>8, <1>9, LearnFacts
<1> QED
  BY <1>3, <1>4, <1>5, <1>10

\* Making an application keeps the invariant.
LEMMA MakeStep == EncodingInv /\ Make => EncodingInv'
<1> SUFFICES ASSUME EncodingInv, Make PROVE EncodingInv'
  OBVIOUS
<1>1. at = "actions" /\ at \notin Alone /\ Act /\ UNCHANGED <<ufi, todel>>
  BY MakeFacts DEF Alone
<1>2. PICK f \in Names : \E canon, id : Makes(f, canon, id)
  BY MakeFacts
<1>3. PICK canon, id : Makes(f, canon, id)
  BY <1>2
<1>4. PICK row : row = Row(canon, Find(id))
  OBVIOUS
<1> DEFINE tables == (IF row \in DOMAIN view[f] THEN {} ELSE {View(f)})
                       \cup (IF Edge(id, id) \in DOMAIN uf THEN {} ELSE {UFTable})
<1>5. tables \in SUBSET Tables /\ Written(tables)
  <2>1. tables \in SUBSET Tables
    BY TableFacts
  <2> QED
    BY <1>3, <1>4, <2>1 DEF Makes
<1>6. /\ seq' \in Nat /\ 1 <= seq' /\ seq' <= MaxId + 1
      /\ \A i \in Known : i \in Known'
      /\ id \in Known' /\ \A i \in Known' : i \in Nat /\ i \in Ids /\ (i \in Known \/ i = id)
      /\ Edge(id, id) = <<id, id>>
  BY <1>1, <1>3, MadeFacts
<1>7. (View(f) \notin tables => row \in DOMAIN view[f]) /\ (UFTable \notin tables => <<id, id>> \in DOMAIN uf)
  BY <1>6
<1> HIDE DEF tables
<1>8. /\ at' = "actions" /\ ts' = ts /\ ts' \in Nat /\ ts <= ts' /\ 1 <= ts'
      /\ \A r \in Rules : lastRun'[r] = lastRun[r] /\ lastRun'[r] \in Nat /\ lastRun'[r] <= ts
      /\ \A t \in Tables : watermark'[t] = IF t \in tables THEN ts ELSE watermark[t]
      /\ RunTypes' /\ TodoInv' /\ Older' /\ Quiet' /\ Rebuilt'
  BY <1>1, <1>5, ActSchedule
<1>9. /\ DOMAIN term' = Names /\ DOMAIN view' = Names
      /\ \A g \in Names : g # f => view'[g] = view[g]
      /\ DOMAIN view'[f] = DOMAIN view[f] \cup {row}
      /\ \A r \in DOMAIN view[f] : view'[f][r] = view[f][r]
      /\ \A r \in DOMAIN view'[f] : view'[f][r] = ts \/ (r \in DOMAIN view[f] /\ view'[f][r] = view[f][r])
      /\ \A g \in Names : /\ \A r \in DOMAIN term'[g] : r \in RowsOf(g, Known')
                          /\ \A r \in DOMAIN view'[g] : r \in RowsOf(g, Known')
      /\ \A g \in Names : \A r \in DOMAIN view'[g] : r \in Stale(g)' => r \in DOMAIN view[g]
      /\ DOMAIN uf' = DOMAIN uf \cup {<<id, id>>} /\ uf' \in [DOMAIN uf' -> Nat] /\ EdgesStamped
      /\ <<id, id>> \in DOMAIN uf => \A d \in DOMAIN uf' : d \in DOMAIN uf /\ uf'[d] = uf[d]
      /\ LinksKept
  BY <1>1, <1>3, <1>4, MadeTables
<1>10. Learned(classes', DOMAIN uf', ViewRows')
  BY <1>1, <1>3, MadeClasses
<1>11. Types' /\ Stamped
  <2>1. IndexStamped
    <3>1. \A i \in DOMAIN ufi : ufi[i].out <= ufi[i].out
      BY TypeFacts
    <3> QED
      BY <1>1, <3>1 DEF IndexStamped
  <2>2. RowsStamped
    BY <1>1, <1>9 DEF RowsStamped
  <2>3. Stamped
    BY <1>9, <2>1, <2>2 DEF Stamped
  <2>4. Numbers'
    BY <1>6, <1>8, TypeFacts DEF Numbers
  <2>5. ClassTypes'
    BY <1>10 DEF ClassTypes, Learned
  <2>6. /\ DOMAIN term' = Names /\ DOMAIN view' = Names /\ DOMAIN todel' = Names
        /\ \A g \in Names : /\ \A r \in DOMAIN term'[g] : r \in RowsOf(g, Known')
                            /\ \A r \in DOMAIN view'[g] : r \in RowsOf(g, Known')
                            /\ \A a \in DOMAIN todel'[g] : a \in ArgsOf(g, Known')
    <3>1. DOMAIN todel = Names /\ \A g \in Names : \A a \in DOMAIN todel[g] : a \in ArgsOf(g, Known)
      BY DEF EncodingInv, Types, RowTypes
    <3>2. \A g \in Names : \A a \in ArgsOf(g, Known) : a \in ArgsOf(g, Known')
      BY <1>6 DEF ArgsOf
    <3> QED
      BY <1>1, <1>9, <3>1, <3>2
  <2>7. \A d \in DOMAIN uf' : d \in Known' \X Known'
    <3>1. \A d \in DOMAIN uf : d \in Known \X Known
      BY TypeFacts
    <3> QED
      BY <1>6, <1>9, <3>1
  <2>8. \A i \in DOMAIN ufi' : i \in Known' /\ ufi'[i].out \in 1..i
    BY <1>1, <1>6 DEF EncodingInv, Types, IndexTypes
  <2> QED
    BY <1>8, <1>9, <2>3, <2>4, <2>5, <2>6, <2>7, <2>8, TypesKept
<1>12. Marked'
  <2>1. \A g \in Names : View(g) \notin tables =>
          \A r \in DOMAIN view'[g] : r \in DOMAIN view[g] /\ view'[g][r] = view[g][r]
    <3> SUFFICES ASSUME NEW g \in Names, View(g) \notin tables
                 PROVE  \A r \in DOMAIN view'[g] : r \in DOMAIN view[g] /\ view'[g][r] = view[g][r]
      OBVIOUS
    <3>1. CASE g # f
      BY <1>9, <3>1
    <3>2. CASE g = f
      BY <1>7, <1>9, <3>2
    <3> QED
      BY <3>1, <3>2
  <2>2. UFTable \notin tables => \A e \in DOMAIN uf' : e \in DOMAIN uf /\ uf'[e] = uf[e]
    BY <1>7, <1>9
  <2> QED
    BY <1>1, <1>8, <1>11, <2>1, <2>2, MarkedKept
<1>13. Indexed'
  BY <1>1, <1>8 DEF EncodingInv, Indexed
<1>14. Forest'
  <2>1. /\ \A i \in Known : \E j \in Known : <<i, j>> \in DOMAIN uf
        /\ \A e \in DOMAIN uf : e[2] <= e[1]
        /\ \A i \in DOMAIN ufi : \E j \in Known : <<i, j>> \in DOMAIN uf /\ j <= ufi[i].out
        /\ \A i \in DOMAIN ufi : <<i, ufi[i].out>> \in DOMAIN uf
        /\ \A i \in DOMAIN ufi : ufi[ufi[i].out].out = ufi[i].out
    BY <1>1 DEF EncodingInv, Forest, Rooted, Descending, LowEdges, Entries, Leads
  <2>2. Rooted'
    <3> SUFFICES ASSUME NEW i \in Known' PROVE \E j \in Known' : <<i, j>> \in DOMAIN uf'
      BY DEF Rooted
    <3>1. CASE i \in Known
      BY <1>6, <1>9, <2>1, <3>1
    <3>2. CASE i = id
      BY <1>6, <1>9, <3>2
    <3> QED
      BY <1>6, <3>1, <3>2
  <2>3. Descending'
    <3>1. PICK d : d = <<id, id>>
      OBVIOUS
    <3>2. d[2] <= d[1]
      BY <1>6, <3>1
    <3> QED
      BY <1>9, <2>1, <3>1, <3>2 DEF Descending
  <2>4. LowEdges'
    BY <1>1, <1>6, <1>9, <2>1 DEF LowEdges
  <2>5. Entries' /\ Leads'
    BY <1>1, <1>9, <2>1 DEF Entries, Leads
  <2> QED
    BY <2>2, <2>3, <2>4, <2>5 DEF Forest
<1>15. Pending'
  BY <1>8, <1>9, <1>11, ActPending
<1>16. Sound' /\ Least'
  BY <1>1, <1>10 DEF Sound, Least, Learned
<1> QED
  BY <1>8, <1>11, <1>12, <1>13, <1>14, <1>15, <1>16 DEF EncodingInv

-----------------------------------------------------------------------------
(* The invariant. *)

\* Every step keeps the invariant.
LEMMA NextStep == EncodingInv /\ [Next]_vars => EncodingInv'
<1> SUFFICES ASSUME EncodingInv, [Next]_vars PROVE EncodingInv'
  OBVIOUS
<1>1. CASE Begin
  BY <1>1, BeginStep
<1>2. CASE Union
  BY <1>2, UnionStep
<1>3. CASE Make
  BY <1>3, MakeStep
<1>4. CASE Delete
  BY <1>4, DeleteStep
<1>5. CASE Fail
  BY <1>5, FailStep
<1>6. CASE EndActions
  BY <1>6, EndActionsStep
<1>7. CASE SingleParent
  BY <1>7, SingleParentStep
<1>8. CASE PathCompress
  BY <1>8, PathCompressStep
<1>9. CASE FunctionIndex
  BY <1>9, FunctionIndexStep
<1>10. CASE CongruenceRule
  BY <1>10, CongruenceRuleStep
<1>11. CASE RebuildRule
  BY <1>11, RebuildRuleStep
<1>12. CASE DeleteRule
  BY <1>12, DeleteRuleStep
<1>13. CASE UNCHANGED vars
  <2>1. UNCHANGED <<db, lastRun, watermark, classes, ts, fast, at, todo, updated, outer, rebuilt>>
    BY <1>13 DEF vars, runner, schedule
  <2>2. updated' \in BOOLEAN /\ outer' \in BOOLEAN /\ rebuilt' \in BOOLEAN
    BY <2>1 DEF EncodingInv, Types, RunTypes
  <2>3. Types' /\ Marked' /\ Pending' /\ Sound' /\ Least' /\ Known' = Known /\ (Rooted /\ LowEdges)' /\ (Exact => Exact')
    BY <2>1, <2>2, TablesKept
  <2>4. UNCHANGED <<uf, ufi, view, todel>>
    BY <2>1 DEF db
  <2>5. TodoInv'
    BY <2>1 DEF EncodingInv, TodoInv
  <2>6. Older'
    BY <2>1, <2>4 DEF EncodingInv, Older, Stale
  <2>7. Indexed'
    BY <2>1, <2>3, <2>4 DEF EncodingInv, Indexed
  <2>8. Forest'
    BY <2>1, <2>3, <2>4 DEF EncodingInv, Forest, Descending, Entries, Leads
  <2>9. Quiet'
    BY <2>1, <2>4 DEF EncodingInv, Quiet, ParentDone, CompressDone, IndexDone
  <2>10. Rebuilt'
    BY <2>1, <2>3 DEF EncodingInv, Rebuilt
  <2> QED
    BY <2>3, <2>5, <2>6, <2>7, <2>8, <2>9, <2>10 DEF EncodingInv
<1> QED
  BY <1>1, <1>2, <1>3, <1>4, <1>5, <1>6, <1>7, <1>8, <1>9, <1>10, <1>11, <1>12, <1>13 DEF Next, RunRule

\* The invariant: in every state of the program, whatever failed before, a maintenance
\* rule that has still something to do finds it new since it last ran (Pending), the
\* history's classes are the least congruence of the edges and rows of the tables
\* (Sound, Least), and a rebuild that has ended left them exact (Rebuilt).
THEOREM EncodingInvariant == Spec => []EncodingInv
<1>1. Init => EncodingInv
  BY InitInv
<1>2. EncodingInv /\ [Next]_vars => EncodingInv'
  BY NextStep
<1> QED
  BY <1>1, <1>2, PTL DEF Spec

\* Tables hold rows of ids that the sequence has given, stamped by iterations that ran,
\* and the index leads from an id to itself or a smaller one (TypeOK).
THEOREM TypesHold == Spec => []TypeOK
<1>1. EncodingInv => TypeOK
  <2> SUFFICES ASSUME EncodingInv PROVE TypeOK
    OBVIOUS
  <2>1. seq \in 1..(MaxId + 1)
    BY IdsAreNumbers DEF EncodingInv, Types, Numbers
  <2>2. \A e \in DOMAIN uf : {e[1], e[2]} \subseteq Known /\ uf[e] \in 1..ts
    BY TypeFacts DEF EncodingInv, Types, EdgeTypes
  <2>3. \A i \in DOMAIN ufi : i \in Known /\ ufi[i].out \in 1..i /\ ufi[i].ts \in 1..ts
    BY DEF EncodingInv, Types, IndexTypes
  <2>4. \A f \in Names : DOMAIN view[f] \cup DOMAIN term[f] \subseteq RowsOf(f, Known)
    BY DEF EncodingInv, Types, RowTypes
  <2>5. \A f \in Names : DOMAIN todel[f] \subseteq ArgsOf(f, Known)
    BY DEF EncodingInv, Types, RowTypes
  <2> QED
    BY <2>1, <2>2, <2>3, <2>4, <2>5 DEF TypeOK, Known, RowsOf, ArgsOf
<1> QED
  BY <1>1, EncodingInvariant, PTL

\* When a command has ended with its rebuild, the tables that the schedule's saturated
\* rulesets leave are the congruence closure of the unions asked for: no equality is
\* lost or made up, and views are over leaders with one row for their arguments.
THEOREM RebuildsAreExact == Spec => []RebuiltExact
<1>1. EncodingInv => RebuiltExact
  BY DEF EncodingInv, Rebuilt, Exact, RebuiltExact
<1> QED
  BY <1>1, EncodingInvariant, PTL

\* The branch of the rebuild rule's query that the fast rebuild drops would find nothing,
\* whenever the rule runs: a stale row that is new since then has a new entry of UFf.
THEOREM FastRebuildIsSafe == Spec => []DroppedBranchEmpty
<1>1. EncodingInv => DroppedBranchEmpty
  <2> SUFFICES ASSUME EncodingInv, Running("rebuild_rule"), NEW row \in Stale(Fn)
               PROVE  \E k \in DOMAIN row : ufi[row[k]].ts >= Since
    BY DEF DroppedBranchEmpty
  <2>1. at = "rebuilding" /\ Fn \in Names /\ Since = lastRun[RebuildOf(Fn)]
    BY RunningFacts DEF Since
  <2> QED
    BY <2>1, StaleFound
<1> QED
  BY <1>1, EncodingInvariant, PTL

-----------------------------------------------------------------------------
(* The e-graph that the tables implement (ImplementsCongruentTerms). *)

\* The abstract specification's operators are those of the model.
LEMMA PromiseOperators ==
  /\ Promise!Names = Names /\ Promise!Ids = Ids
  /\ \A args, id : Promise!Row(args, id) = Row(args, id)
  /\ \A row : Promise!Args(row) = Args(row)
  /\ \A l, rows : Promise!Canonical(l, rows) = Canonical(l, rows)
  /\ \A pairs, rows : Promise!Closure(pairs, rows) = Closure(pairs, rows)
<1>1. Promise!Names = Names /\ Promise!Ids = Ids
  BY DEF Promise!Names, Names, Promise!Ids, Ids, Promise!Range, Range
<1>2. \A args, id : Promise!Row(args, id) = Row(args, id)
  BY DEF Promise!Row, Row
<1>3. \A row : Promise!Args(row) = Args(row) /\ Promise!Class(row) = Class(row)
  BY DEF Promise!Args, Args, Promise!Front, Front, Promise!Class, Class, Promise!Last, Last
<1>4. \A l, ids : Promise!Renamed(l, ids) = Renamed(l, ids)
  BY DEF Promise!Renamed, Renamed
<1>5. \A l, rows : Promise!Canonical(l, rows) = Canonical(l, rows)
  BY <1>1, <1>4 DEF Promise!Canonical, Canonical
<1>6. \A l, rows : Promise!Congruent(l, rows) = Congruent(l, rows)
  BY <1>1, <1>3, <1>4 DEF Promise!Congruent, Congruent
<1>7. \A l, pairs, rows : Promise!Round(l, pairs, rows) = Round(l, pairs, rows)
  <2>1. \A S : Promise!Min(S) = Min(S)
    BY DEF Promise!Min, Min
  <2> QED
    BY <1>1, <1>6, <2>1 DEF Promise!Round, Round
<1>8. \A pairs, rows : Promise!Closure(pairs, rows) = Closure(pairs, rows)
  BY <1>1, <1>7 DEF Promise!Closure, Closure
<1> QED
  BY <1>1, <1>2, <1>3, <1>5, <1>8

Apps == Canonical(classes, ViewRows)
Dooms == [f \in Names |-> DOMAIN todel[f]]
ClassPairs == {<<i, classes[i]>> : i \in Ids}

\* c cannot tell a row of the first from one of the second.
Covered(c, rows, rows2) ==
  \A f \in Names : \A r \in rows[f] : \E q \in rows2[f] : \A k \in 1..LastColumn(f) : c[r[k]] = c[q[k]]
OverIds(rows) == DOMAIN rows = Names /\ \A f \in Names : \A r \in rows[f] : r \in RowsOf(f, Ids)

\* A congruence of some rows is one of rows it cannot tell from them.
LEMMA CoveredCongruence ==
  ASSUME NEW c \in [Ids -> Ids], NEW pairs, NEW rows, NEW rows2, OverIds(rows), OverIds(rows2),
         Covered(c, rows, rows2), IsCongruence(c, pairs, rows2)
  PROVE  IsCongruence(c, pairs, rows)
<1>1. ASSUME NEW f \in Names, NEW r \in rows[f]
      PROVE  \E q \in rows2[f] : Renamed(c, Args(r)) = Renamed(c, Args(q)) /\ c[Class(r)] = c[Class(q)]
  <2>1. PICK q \in rows2[f] : \A k \in 1..LastColumn(f) : c[r[k]] = c[q[k]]
    BY DEF Covered
  <2>2. r \in RowsOf(f, Ids) /\ q \in RowsOf(f, Ids)
    BY DEF OverIds
  <2> QED
    BY <2>1, <2>2, AlikeRows
<1> QED
  BY <1>1, SameCongruence

\* Rows that a labelling cannot tell apart are the same over its labels.
LEMMA CoveredCanonical ==
  ASSUME NEW c \in [Ids -> Ids], NEW rows, NEW rows2, OverIds(rows), OverIds(rows2),
         Covered(c, rows, rows2), Covered(c, rows2, rows)
  PROVE  Canonical(c, rows) = Canonical(c, rows2)
<1>1. ASSUME NEW f \in Names, NEW r \in RowsOf(f, Ids), NEW q \in RowsOf(f, Ids),
             \A k \in 1..LastColumn(f) : c[r[k]] = c[q[k]]
      PROVE  Renamed(c, r) = Renamed(c, q)
  <2> DEFINE D == 1..LastColumn(f)
  <2>1. \A i \in Ids : c[i] \in Ids
    OBVIOUS
  <2>2. /\ Renamed(c, r) \in RowsOf(f, Ids) /\ Renamed(c, q) \in RowsOf(f, Ids)
        /\ \A k \in 1..LastColumn(f) : Renamed(c, r)[k] = c[r[k]] /\ Renamed(c, q)[k] = c[q[k]]
    BY <2>1, RenamedParts
  <2>3. Renamed(c, r) \in [D -> Ids] /\ Renamed(c, q) \in [D -> Ids]
    BY <2>2 DEF RowsOf, LastColumn
  <2>4. \A k \in D : Renamed(c, r)[k] = Renamed(c, q)[k]
    BY <1>1, <2>2
  <2> HIDE DEF D
  <2> QED
    BY <2>3, <2>4, SameFunction
<1>2. ASSUME NEW f \in Names PROVE {Renamed(c, row) : row \in rows[f]} = {Renamed(c, row) : row \in rows2[f]}
  <2>1. ASSUME NEW r \in rows[f] PROVE \E q \in rows2[f] : Renamed(c, r) = Renamed(c, q)
    <3>1. PICK q \in rows2[f] : \A k \in 1..LastColumn(f) : c[r[k]] = c[q[k]]
      BY DEF Covered
    <3>2. r \in RowsOf(f, Ids) /\ q \in RowsOf(f, Ids)
      BY DEF OverIds
    <3> QED
      BY <1>1, <3>1, <3>2
  <2>2. ASSUME NEW r \in rows2[f] PROVE \E q \in rows[f] : Renamed(c, r) = Renamed(c, q)
    <3>1. PICK q \in rows[f] : \A k \in 1..LastColumn(f) : c[r[k]] = c[q[k]]
      BY DEF Covered
    <3>2. r \in RowsOf(f, Ids) /\ q \in RowsOf(f, Ids)
      BY DEF OverIds
    <3> QED
      BY <1>1, <3>1, <3>2
  <2> QED
    BY <2>1, <2>2
<1> QED
  BY <1>2 DEF Canonical

\* The rows over leaders are those of the view to any labelling that extends the classes.
LEMMA AppsCovered ==
  ASSUME EncodingInv, NEW c \in [Ids -> Ids], \A i \in Ids : c[classes[i]] = c[i]
  PROVE  Covered(c, ViewRows, Apps) /\ Covered(c, Apps, ViewRows) /\ OverIds(ViewRows) /\ OverIds(Apps)
<1>0. classes \in [Ids -> Ids]
  BY TypeFacts
<1>1. PICK l : l = classes
  OBVIOUS
<1>2. \A i \in Ids : l[i] \in Ids /\ c[l[i]] = c[i]
  BY <1>0, <1>1
<1>3. ASSUME NEW f \in Names, NEW r \in ViewRows[f]
      PROVE  /\ r \in RowsOf(f, Ids) /\ Renamed(l, r) \in RowsOf(f, Ids)
             /\ \A k \in 1..LastColumn(f) : c[r[k]] = c[Renamed(l, r)[k]]
  <2>1. r \in RowsOf(f, Ids)
    BY TypeFacts DEF ViewRows
  <2>0. \A i \in Ids : l[i] \in Ids
    BY <1>2
  <2>2a. Renamed(l, r) \in RowsOf(f, Ids)
    BY <2>0, <2>1, RenamedParts
  <2>2b. \A k \in 1..LastColumn(f) : Renamed(l, r)[k] = l[r[k]]
    BY <2>1 DEF Renamed, RowsOf, LastColumn
  <2>3. \A k \in 1..LastColumn(f) : r[k] \in Ids
    BY <2>1 DEF RowsOf, LastColumn
  <2> QED
    BY <1>2, <2>1, <2>2a, <2>2b, <2>3
<1>4. DOMAIN Apps = Names /\ \A f \in Names : Apps[f] = {Renamed(l, r) : r \in ViewRows[f]}
  BY <1>1 DEF Apps, Canonical
<1>5. OverIds(ViewRows) /\ OverIds(Apps)
  <2>1. DOMAIN ViewRows = Names
    BY DEF ViewRows
  <2> QED
    BY <1>3, <1>4, <2>1 DEF OverIds
<1>6. Covered(c, ViewRows, Apps)
  BY <1>3, <1>4 DEF Covered
<1>7. Covered(c, Apps, ViewRows)
  <2> SUFFICES ASSUME NEW f \in Names, NEW q \in Apps[f]
               PROVE  \E r \in ViewRows[f] : \A k \in 1..LastColumn(f) : c[q[k]] = c[r[k]]
    BY DEF Covered
  <2>1. PICK r \in ViewRows[f] : q = Renamed(l, r)
    BY <1>4
  <2> QED
    BY <1>3, <2>1
<1> QED
  BY <1>5, <1>6, <1>7

\* The same ids are to be equal, and the same rows to whatever keeps the classes.
SamePairs(pairs, pairs2) ==
  \A k : (\A p \in pairs : k[p[1]] = k[p[2]]) <=> (\A p \in pairs2 : k[p[1]] = k[p[2]])
SameRows(rows, rows2) ==
  \A k \in [Ids -> Ids] : (\A i \in Ids : k[classes[i]] = k[i]) =>
     Covered(k, rows, rows2) /\ Covered(k, rows2, rows)

\* Learning over the rows of the view or over leaders comes to the same.
LEMMA LearnedAlike ==
  ASSUME EncodingInv, NEW pairs, pairs \subseteq Ids \X Ids, NEW pairs2, pairs2 \subseteq Ids \X Ids,
         SamePairs(pairs, pairs2),
         NEW rows, NEW rows2, OverIds(rows), OverIds(rows2), SameRows(rows, rows2)
  PROVE  Closure(ClassPairs \cup pairs, rows) = Closure(ClassPairs \cup pairs2, rows2)
<1>0. classes \in [Ids -> Ids]
  BY TypeFacts
<1>1. ClassPairs \subseteq Ids \X Ids
  BY <1>0 DEF ClassPairs
<1>2. PICK P : P = ClassPairs \cup pairs
  OBVIOUS
<1>3. PICK Q : Q = ClassPairs \cup pairs2
  OBVIOUS
<1>4. Graph(P, rows) /\ Graph(Q, rows2)
  BY <1>1, <1>2, <1>3 DEF Graph, OverIds
<1>5. ASSUME NEW k, \/ \A p \in P : k[p[1]] = k[p[2]]
                    \/ \A p \in Q : k[p[1]] = k[p[2]]
      PROVE  \A i \in Ids : k[classes[i]] = k[i]
  <2> SUFFICES ASSUME NEW i \in Ids PROVE k[classes[i]] = k[i]
    OBVIOUS
  <2>1. PICK p : p = <<i, classes[i]>>
    OBVIOUS
  <2>2. p \in P /\ p \in Q
    BY <1>2, <1>3, <2>1 DEF ClassPairs
  <2>3. k[p[1]] = k[p[2]]
    BY <1>5, <2>2
  <2> QED
    BY <2>1, <2>3
<1>6. ASSUME NEW k PROVE (\A p \in P : k[p[1]] = k[p[2]]) <=> (\A p \in Q : k[p[1]] = k[p[2]])
  <2>1. (\A p \in pairs : k[p[1]] = k[p[2]]) <=> (\A p \in pairs2 : k[p[1]] = k[p[2]])
    BY DEF SamePairs
  <2> QED
    BY <1>2, <1>3, <2>1
<1>7. ASSUME NEW k \in [Ids -> Ids] PROVE IsCongruence(k, P, rows) <=> IsCongruence(k, Q, rows2)
  <2>1. ASSUME IsCongruence(k, P, rows) PROVE IsCongruence(k, Q, rows2)
    <3>1. \A p \in P : k[p[1]] = k[p[2]]
      BY <2>1 DEF IsCongruence
    <3>2. \A p \in Q : k[p[1]] = k[p[2]]
      BY <1>6, <3>1
    <3>3. Covered(k, rows2, rows)
      BY <1>5, <3>1 DEF SameRows
    <3>4. IsCongruence(k, P, rows2)
      BY <2>1, <3>3, CoveredCongruence
    <3> QED
      BY <3>2, <3>4 DEF IsCongruence
  <2>2. ASSUME IsCongruence(k, Q, rows2) PROVE IsCongruence(k, P, rows)
    <3>1. \A p \in Q : k[p[1]] = k[p[2]]
      BY <2>2 DEF IsCongruence
    <3>2. \A p \in P : k[p[1]] = k[p[2]]
      BY <1>6, <3>1
    <3>3. Covered(k, rows, rows2)
      BY <1>5, <3>1 DEF SameRows
    <3>4. IsCongruence(k, Q, rows)
      BY <2>2, <3>3, CoveredCongruence
    <3> QED
      BY <3>2, <3>4 DEF IsCongruence
  <2> QED
    BY <2>1, <2>2
<1>8. Closure(P, rows) = Closure(Q, rows2)
  BY <1>4, <1>7, SameClosure
<1> QED
  BY <1>2, <1>3, <1>8

\* What the abstract variables stand for.
LEMMA PromiseState ==
  /\ Apps = [f \in Names |-> {Renamed(classes, r) : r \in DOMAIN view[f]}]
  /\ Dooms = [f \in Names |-> DOMAIN todel[f]]
  /\ Apps' = [f \in Names |-> {Renamed(classes', r) : r \in DOMAIN view'[f]}]
  /\ Dooms' = [f \in Names |-> DOMAIN todel'[f]]
BY DEF Apps, Dooms, Canonical, ViewRows

\* When the four abstract variables stay, nothing happens to the abstract e-graph.
LEMMA PromiseStutter ==
  ASSUME Apps' = Apps, Dooms' = Dooms, UNCHANGED <<classes, seq>>
  PROVE  UNCHANGED Promise!vars
<1>1. Promise!Canonical(classes, ViewRows) = Apps /\ Promise!Canonical(classes, ViewRows)' = Apps'
  BY PromiseOperators DEF Apps
<1> QED
  BY <1>1 DEF Promise!vars, Apps, Dooms

\* A step that leaves views, requests, ids and classes alone is no step of it.
LEMMA PromiseUnchanged ==
  ASSUME UNCHANGED <<view, todel, seq, classes>>
  PROVE  UNCHANGED Promise!vars
<1>1. ViewRows' = ViewRows /\ Dooms' = Dooms
  BY DEF ViewRows, Dooms
<1>2. Apps' = Apps
  BY <1>1 DEF Apps, Canonical
<1> QED
  BY <1>1, <1>2, PromiseStutter

\* What a step must do to be the abstract union.
LEMMA PromiseUnion ==
  ASSUME NEW x \in Known, NEW y \in Known, classes[x] < classes[y], classes'[x] = classes'[y],
         classes' = Closure(ClassPairs \cup {<<x, y>>}, Apps), Apps' = Canonical(classes', Apps),
         Dooms' = Dooms, seq' = seq
  PROVE  Promise!Union
<1>1. Promise!Learn({<<x, y>>}, Canonical(classes, ViewRows))
  BY PromiseOperators DEF Promise!Learn, Apps, ClassPairs
<1> QED
  BY <1>1 DEF Promise!Union, Known, Dooms, Apps

\* What a step must do to be the abstract make.
LEMMA PromiseMake ==
  ASSUME NEW f \in Names, NEW args \in ArgsOf(f, Known), seq \in Ids, seq' = seq + 1, Dooms' = Dooms,
         classes' = Closure(ClassPairs, [Apps EXCEPT ![f] = @ \cup {Row(args, seq)}]),
         Apps' = Canonical(classes', [Apps EXCEPT ![f] = @ \cup {Row(args, seq)}])
  PROVE  Promise!Make
<1>1. PICK added : added = [Apps EXCEPT ![f] = @ \cup {Row(args, seq)}]
  OBVIOUS
<1>2. Promise!Learn({}, added)
  <2>1. ClassPairs \cup {} = ClassPairs
    OBVIOUS
  <2>2. classes' = Closure(ClassPairs, added) /\ Apps' = Canonical(classes', added)
    BY <1>1
  <2> QED
    BY <2>1, <2>2, PromiseOperators DEF Promise!Learn, Apps, ClassPairs
<1>3. added = [Canonical(classes, ViewRows) EXCEPT ![f] = @ \cup {Promise!Row(args, seq)}]
  BY <1>1, PromiseOperators DEF Apps
<1>4. Promise!Names = Names /\ Promise!Ids = Ids
  BY PromiseOperators
<1>5. args \in [1..Arity[f] -> 1..(seq - 1)]
  BY DEF ArgsOf, Known
<1> QED
  BY <1>2, <1>3, <1>4, <1>5 DEF Promise!Make, Dooms

\* What a step must do to be the abstract request to delete.
LEMMA PromiseDoom ==
  ASSUME NEW f \in Names, NEW args \in ArgsOf(f, Known), Dooms' = [Dooms EXCEPT ![f] = @ \cup {args}],
         Apps' = Apps, UNCHANGED <<classes, seq>>
  PROVE  Promise!Doom
<1>1. Promise!Names = Names
  BY PromiseOperators
<1>2. args \in [1..Arity[f] -> 1..(seq - 1)]
  BY DEF ArgsOf, Known
<1> QED
  BY <1>1, <1>2 DEF Promise!Doom, Dooms, Apps

\* What a step must do to be the abstract delete.
LEMMA PromisePurge ==
  ASSUME NEW f \in Names, NEW gone, gone = {r \in Apps[f] : Args(r) \in Dooms[f]}, gone # {},
         Apps' = [Apps EXCEPT ![f] = @ \ gone],
         Dooms' = [Dooms EXCEPT ![f] = @ \ {Args(r) : r \in gone}],
         UNCHANGED <<classes, seq>>
  PROVE  Promise!Purge
<1>1. Promise!Names = Names /\ \A r : Promise!Args(r) = Args(r)
  BY PromiseOperators
<1>2. {r \in Apps[f] : Promise!Args(r) \in Dooms[f]} = gone
  BY <1>1
<1>3. {Promise!Args(r) : r \in gone} = {Args(r) : r \in gone}
  BY <1>1
<1>4. Dooms' = [Dooms EXCEPT ![f] = Dooms[f] \ {Promise!Args(r) : r \in gone}]
  BY <1>3
<1> QED
  BY <1>1, <1>2, <1>4 DEF Promise!Purge, Dooms, Apps

\* After the first command both e-graphs are empty but for the leaves.
LEMMA PromiseInit == Init => Promise!Init
<1> SUFFICES ASSUME Init PROVE Promise!Init
  OBVIOUS
<1>1. Promise!Names = Names /\ Promise!Ids = Ids
  BY PromiseOperators
<1>2. DOMAIN <<>> = {}
  OBVIOUS
<1>3. \A f \in Names : DOMAIN view[f] = {} /\ DOMAIN todel[f] = {}
  BY <1>2 DEF Init
<1>4. Canonical(classes, ViewRows) = [f \in Names |-> {}]
  BY <1>3 DEF Canonical, ViewRows
<1>5. [f \in Names |-> DOMAIN todel[f]] = [f \in Names |-> {}]
  BY <1>3
<1>6. classes = [i \in Ids |-> i] /\ seq = Cardinality(Leaves) + 1
  BY DEF Init
<1>7. Promise!Cardinality(Leaves) = Cardinality(Leaves)
  BY DEF Promise!Cardinality, Cardinality
<1> QED
  BY <1>1, <1>4, <1>5, <1>6, <1>7 DEF Promise!Init

\* A rule that changes neither view nor todel.
LEMMA RuleUnseen ==
  ASSUME EncodingInv, \/ SingleParent \/ PathCompress \/ FunctionIndex \/ CongruenceRule
  PROVE  UNCHANGED Promise!vars
<1>1. CASE SingleParent
  <2>1. Running("singleparent") /\ Ran(If(Astray, {UFTable, UFfTable})) /\ UNCHANGED <<view, todel, seq>>
    BY <1>1, ParentMatches
  <2> QED
    BY <2>1, PromiseUnchanged DEF Ran
<1>2. CASE PathCompress
  <2>1. Ran(If(Hops, {UFTable})) /\ UNCHANGED <<view, todel, seq>>
    BY <1>2, CompressMatches
  <2> QED
    BY <2>1, PromiseUnchanged DEF Ran
<1>3. CASE FunctionIndex
  <2>1. Ran(If(Recent, {UFfTable})) /\ UNCHANGED <<view, todel, seq>>
    BY <1>3, IndexMatches
  <2> QED
    BY <2>1, PromiseUnchanged DEF Ran
<1>4. CASE CongruenceRule
  <2>1. Ran(If(Merges(Fn) \ DOMAIN uf, {UFTable})) /\ UNCHANGED <<view, todel, seq>>
    BY <1>4, CongruenceMatches
  <2> QED
    BY <2>1, PromiseUnchanged DEF Ran
<1> QED
  BY <1>1, <1>2, <1>3, <1>4

\* A row moved to the leaders of UFf stands for the same application.
LEMMA RebuildUnseen ==
  ASSUME EncodingInv, RebuildRule
  PROVE  UNCHANGED Promise!vars
<1>1. /\ view' = [view EXCEPT ![Fn] = DeleteRows(InsertIgnore(view[Fn], Renewed(Fn), ts), Stale(Fn))]
      /\ Running("rebuild_rule") /\ UNCHANGED <<uf, ufi, term, todel, seq>> /\ classes' = classes
  BY RebuildMatches DEF Ran
<1>2. at = "rebuilding" /\ Fn \in Names
  BY <1>1, RunningFacts
<1>3. PICK f \in Names : f = Fn
  BY <1>2
<1>4. /\ \A g \in Names : g # f => view'[g] = view[g]
      /\ DOMAIN view'[f] = (DOMAIN view[f] \ Stale(f)) \cup Renewed(f)
      /\ \A r \in DOMAIN view'[f] : r \in RowsOf(f, Known)
  BY <1>1, <1>2, <1>3, RebuildTables
<1>5. PICK l : l = classes
  OBVIOUS
<1>6. l \in [Ids -> Ids] /\ \A i \in DOMAIN ufi : l[ufi[i].out] = l[i]
  BY <1>5, TypeFacts DEF EncodingInv, Sound
<1>7. ASSUME NEW row \in Stale(f)
      PROVE  \A k \in 1..LastColumn(f) : l[Leading(row)[k]] = l[row[k]]
  <2>1. row \in RowsOf(f, Known)
    BY TypeFacts DEF Stale
  <2>2. DOMAIN row = 1..LastColumn(f) /\ \A k \in DOMAIN row : row[k] \in DOMAIN ufi
    BY <2>1, <1>7 DEF Stale, RowsOf, LastColumn, Range
  <2> QED
    BY <1>6, <2>2 DEF Leading
<1>8. /\ DOMAIN ViewRows = Names /\ DOMAIN ViewRows' = Names
      /\ \A g \in Names : ViewRows[g] = DOMAIN view[g] /\ ViewRows'[g] = DOMAIN view'[g]
  BY DEF ViewRows
<1>9. PICK old, new : old = ViewRows /\ new = ViewRows'
  OBVIOUS
<1>10. OverIds(old)
  BY <1>8, <1>9, TypeFacts DEF OverIds
<1>11. OverIds(new)
  <2>1. \A r \in RowsOf(f, Known) : r \in RowsOf(f, Ids)
    <3>1. Known \subseteq Ids
      BY TypeFacts
    <3> QED
      BY <3>1 DEF RowsOf
  <2> QED
    BY <1>4, <1>8, <1>9, <2>1, TypeFacts DEF OverIds
<1>12. \A row \in Stale(f) : row \in DOMAIN view[f] /\ Leading(row) \in Renewed(f)
  BY DEF Stale, Renewed
<1>13. \A r \in Renewed(f) : \E row \in Stale(f) : r = Leading(row)
  BY DEF Renewed
<1>14. Covered(l, old, new)
  <2> SUFFICES ASSUME NEW g \in Names, NEW r \in DOMAIN view[g]
               PROVE  \E q \in DOMAIN view'[g] : \A k \in 1..LastColumn(g) : l[r[k]] = l[q[k]]
    BY <1>8, <1>9 DEF Covered
  <2>1. CASE g = f /\ r \in Stale(f)
    <3>1. Leading(r) \in DOMAIN view'[g]
      BY <1>4, <1>12, <2>1
    <3> QED
      BY <1>7, <2>1, <3>1
  <2>2. CASE g # f \/ r \notin Stale(f)
    BY <1>4, <2>2
  <2> QED
    BY <2>1, <2>2
<1>15. Covered(l, new, old)
  <2> SUFFICES ASSUME NEW g \in Names, NEW r \in DOMAIN view'[g]
               PROVE  \E q \in DOMAIN view[g] : \A k \in 1..LastColumn(g) : l[r[k]] = l[q[k]]
    BY <1>8, <1>9 DEF Covered
  <2>1. CASE g = f /\ r \in Renewed(f)
    <3>1. PICK row \in Stale(f) : r = Leading(row)
      BY <1>13, <2>1
    <3> QED
      BY <1>7, <1>12, <2>1, <3>1
  <2>2. CASE g # f \/ r \notin Renewed(f)
    BY <1>4, <2>2
  <2> QED
    BY <2>1, <2>2
<1>16. Canonical(l, old) = Canonical(l, new)
  BY <1>6, <1>10, <1>11, <1>14, <1>15, CoveredCanonical
<1>17. Apps' = Apps
  BY <1>1, <1>5, <1>9, <1>16 DEF Apps
<1>18. Dooms' = Dooms
  BY <1>1 DEF Dooms
<1> QED
  BY <1>1, <1>17, <1>18, PromiseStutter

\* The delete rule finds the view over leaders: what it removes is what was to go.
LEMMA DeleteSeen ==
  ASSUME EncodingInv, DeleteRule
  PROVE  Promise!Next \/ UNCHANGED Promise!vars
<1>1. /\ view' = [view EXCEPT ![Fn] = DeleteRows(view[Fn], Condemned(Fn))]
      /\ todel' = [todel EXCEPT ![Fn] = DeleteRows(todel[Fn], Executed(Fn))]
      /\ Running("delete_rule") /\ UNCHANGED <<uf, ufi, term, seq>> /\ classes' = classes
  BY DeleteMatches DEF Ran
<1>2. at = "delete_subsume" /\ Fn \in Names
  BY <1>1, RunningFacts
<1>3. PICK f \in Names : f = Fn
  BY <1>2
<1>4. /\ \A g \in Names : g # f => view'[g] = view[g] /\ todel'[g] = todel[g]
      /\ DOMAIN view'[f] = DOMAIN view[f] \ Condemned(f) /\ DOMAIN todel'[f] = DOMAIN todel[f] \ Executed(f)
  BY <1>1, <1>3, DeleteTables
<1>5. \A g \in Names : \A r \in DOMAIN view[g] : Renamed(classes, r) = r
  BY <1>2 DEF EncodingInv, Rebuilt, Exact
<1>6. Apps = [g \in Names |-> DOMAIN view[g]]
  <2>1. \A g \in Names : {Renamed(classes, r) : r \in DOMAIN view[g]} = DOMAIN view[g]
    BY <1>5
  <2> QED
    BY <2>1, PromiseState
<1>7. Apps' = [g \in Names |-> DOMAIN view'[g]]
  <2>1. \A g \in Names : \A r \in DOMAIN view'[g] : Renamed(classes', r) = r
    BY <1>1, <1>4, <1>5
  <2>2. \A g \in Names : {Renamed(classes', r) : r \in DOMAIN view'[g]} = DOMAIN view'[g]
    BY <2>1
  <2> QED
    BY <2>2, PromiseState
<1>9. Dooms = [g \in Names |-> DOMAIN todel[g]] /\ Dooms' = [g \in Names |-> DOMAIN todel'[g]]
  BY PromiseState
<1>10. PICK gone : gone = {r \in Apps[f] : Args(r) \in Dooms[f]}
  OBVIOUS
<1>11. gone = Condemned(f) /\ {Args(r) : r \in gone} = Executed(f)
  BY <1>6, <1>9, <1>10 DEF Condemned, Executed
<1>12. Apps' = [Apps EXCEPT ![f] = @ \ gone]
  BY <1>4, <1>6, <1>7, <1>11
<1>13. Dooms' = [Dooms EXCEPT ![f] = @ \ {Args(r) : r \in gone}]
  BY <1>4, <1>9, <1>11
<1>14. CASE gone # {}
  <2>1. Promise!Purge
    BY <1>1, <1>10, <1>12, <1>13, <1>14, PromisePurge
  <2> QED
    BY <2>1 DEF Promise!Next
<1>15. CASE gone = {}
  <2>1. Apps' = Apps
    BY <1>6, <1>12, <1>15
  <2>2. Dooms' = Dooms
    <3>1. PICK args : args = {Args(r) : r \in gone}
      OBVIOUS
    <3>2. args = {}
      BY <1>15, <3>1
    <3>3. Dooms' = [Dooms EXCEPT ![f] = @ \ args]
      BY <1>13, <3>1
    <3> QED
      BY <1>9, <3>2, <3>3
  <2> QED
    BY <1>1, <2>1, <2>2, PromiseStutter
<1> QED
  BY <1>14, <1>15

\* What is learnt keeps the classes there were.
LEMMA NothingLearned ==
  ASSUME EncodingInv, NEW c, NEW edges, NEW rows, Learned(c, edges, rows), IsCongruence(classes, edges, rows)
  PROVE  c = classes
<1>1. PICK l : l = classes
  OBVIOUS
<1>2. l \in [Ids -> Ids] /\ \A i \in Ids : l[i] <= i
  BY <1>1, TypeFacts DEF EncodingInv, Sound
<1>3. c \in [Ids -> Ids] /\ \A i \in Ids : c[i] <= i
  BY DEF Learned
<1>4. Includes(l, c)
  BY <1>1, <1>2 DEF Learned
<1>5. Includes(c, l)
  BY <1>1 DEF Learned, Includes
<1>6. c = l
  BY <1>2, <1>3, <1>4, <1>5, SameLabels
<1> QED
  BY <1>1, <1>6

\* Two ids that are not equal yet: the abstract union.
LEMMA UnionApart ==
  ASSUME EncodingInv, NEW x \in Known, NEW y \in Known, NEW a \in Known, NEW b \in Known,
         (a = x /\ b = y) \/ (a = y /\ b = x), classes[a] < classes[b],
         Learn({<<x, y>>}, ViewRows), NEW edges, Learned(classes', edges, ViewRows), classes'[x] = classes'[y],
         UNCHANGED <<view, todel, seq>>
  PROVE  Promise!Union
<1>1. PICK c, rows, apps : c = classes' /\ rows = ViewRows /\ apps = Apps
  OBVIOUS
<1>2. c \in [Ids -> Ids] /\ \A i \in Ids : c[classes[i]] = c[i]
  BY <1>1 DEF Learned
<1>3. SameRows(rows, apps)
  BY <1>1, AppsCovered DEF SameRows
<1>4. Covered(c, rows, apps) /\ Covered(c, apps, rows) /\ OverIds(rows) /\ OverIds(apps)
  BY <1>1, <1>2, AppsCovered
<1>5. PICK pairs, pairs2 : pairs = {<<x, y>>} /\ pairs2 = {<<a, b>>}
  OBVIOUS
<1>6. pairs \subseteq Ids \X Ids /\ pairs2 \subseteq Ids \X Ids
  BY <1>5, TypeFacts
<1>7. SamePairs(pairs, pairs2)
  <2>1. PICK p, q : p = <<x, y>> /\ q = <<a, b>>
    OBVIOUS
  <2>2. p[1] = x /\ p[2] = y /\ q[1] = a /\ q[2] = b /\ pairs = {p} /\ pairs2 = {q}
    BY <1>5, <2>1
  <2> QED
    BY <2>2 DEF SamePairs
<1>8. Closure(ClassPairs \cup pairs, rows) = Closure(ClassPairs \cup pairs2, apps)
  BY <1>3, <1>4, <1>6, <1>7, LearnedAlike
<1>9. classes' = Closure(ClassPairs \cup {<<a, b>>}, Apps)
  BY <1>1, <1>5, <1>8 DEF Learn, ClassPairs
<1>10. Canonical(c, rows) = Canonical(c, apps)
  BY <1>2, <1>4, CoveredCanonical
<1>11. ViewRows' = ViewRows /\ Dooms' = Dooms
  BY DEF ViewRows, Dooms
<1>12. Apps' = Canonical(classes', Apps)
  BY <1>1, <1>10, <1>11 DEF Apps
<1>13. classes'[a] = classes'[b]
  OBVIOUS
<1> QED
  BY <1>9, <1>11, <1>12, <1>13, PromiseUnion

\* A union of ids that are equal already is no step, any other is the abstract union.
LEMMA UnionSeen ==
  ASSUME EncodingInv, Union
  PROVE  Promise!Next \/ UNCHANGED Promise!vars
<1>1. PICK x, y \in Bound \cup Made :
        /\ x < y
        /\ uf' = InsertIgnore(uf, {Edge(x, y)}, ts)
        /\ Written(IF Edge(x, y) \in DOMAIN uf THEN {} ELSE {UFTable})
        /\ Learn({<<x, y>>}, ViewRows)
  BY DEF Union
<1>2. UNCHANGED <<ufi, term, view, todel, seq>>
  BY DEF Union
<1>3. x \in Known /\ y \in Known /\ x \in Ids /\ y \in Ids /\ x \in Nat /\ y \in Nat
  BY BoundKnown, TypeFacts
<1>4. Learned(classes', DOMAIN uf', ViewRows)
  BY <1>1, <1>3, UnionClasses
<1>5. PICK e : e = Edge(x, y)
  OBVIOUS
<1>6. DOMAIN uf' = DOMAIN uf \cup {e} /\ (e = <<x, y>> \/ e = <<y, x>>)
  BY <1>1, <1>3, <1>5, EdgeInserted, EdgeFacts
<1>7. PICK c, l, edges, rows : c = classes' /\ l = classes /\ edges = DOMAIN uf' /\ rows = ViewRows
  OBVIOUS
<1>8. l \in [Ids -> Ids] /\ IsCongruence(l, DOMAIN uf, rows)
  BY <1>7, TypeFacts DEF EncodingInv, Sound
<1>9. c[x] = c[y]
  <2>1. IsCongruence(c, edges, rows)
    BY <1>4, <1>7 DEF Learned
  <2>2. c[e[1]] = c[e[2]]
    BY <1>6, <1>7, <2>1 DEF IsCongruence
  <2> QED
    BY <1>6, <2>2
<1>10. CASE l[x] = l[y]
  <2>1. l[e[1]] = l[e[2]]
    BY <1>6, <1>10
  <2>2. IsCongruence(l, edges, rows)
    BY <1>6, <1>7, <1>8, <2>1 DEF IsCongruence
  <2>3. Learned(c, edges, rows) /\ IsCongruence(classes, edges, rows)
    BY <1>4, <1>7, <2>2
  <2>4. c = classes
    BY <2>3, NothingLearned
  <2> QED
    BY <1>2, <1>7, <2>4, PromiseUnchanged
<1>11. CASE l[x] # l[y]
  <2>1. l[x] \in Nat /\ l[y] \in Nat
    BY <1>3, <1>8, IdsAreNumbers
  <2>2. CASE l[x] < l[y]
    <3>1. Promise!Union
      BY <1>1, <1>2, <1>3, <1>4, <1>7, <1>9, <2>2, UnionApart
    <3> QED
      BY <3>1 DEF Promise!Next
  <2>3. CASE l[y] < l[x]
    <3>1. Promise!Union
      BY <1>1, <1>2, <1>3, <1>4, <1>7, <1>9, <2>3, UnionApart
    <3> QED
      BY <3>1 DEF Promise!Next
  <2> QED
    BY <1>11, <2>1, <2>2, <2>3
<1> QED
  BY <1>10, <1>11

\* A request to delete is the abstract one.
LEMMA DeleteDooms ==
  ASSUME EncodingInv, Delete
  PROVE  Promise!Next
<1>1. PICK f \in Names : \E args \in [1..Arity[f] -> Bound \cup Made] :
        /\ todel' = [todel EXCEPT ![f] = InsertIgnore(DeleteRows(todel[f], {args}), {args}, ts)]
        /\ Written({ToDelete(f)})
  BY DEF Delete
<1>2. PICK args \in [1..Arity[f] -> Bound \cup Made] :
        todel' = [todel EXCEPT ![f] = InsertIgnore(DeleteRows(todel[f], {args}), {args}, ts)]
  BY <1>1
<1>3. UNCHANGED <<view, seq, classes>>
  BY DEF Delete
<1>4. args \in ArgsOf(f, Known)
  BY BoundKnown DEF ArgsOf
<1>5. DOMAIN todel = Names
  BY DEF EncodingInv, Types, RowTypes
<1>6. PICK t, w : t = todel[f] /\ w = InsertIgnore(DeleteRows(t, {args}), {args}, ts)
  OBVIOUS
<1>7. DOMAIN w = DOMAIN t \cup {args}
  BY <1>6 DEF InsertIgnore, DeleteRows, Restrict
<1>8. todel'[f] = w /\ \A g \in Names : g # f => todel'[g] = todel[g]
  BY <1>2, <1>5, <1>6
<1>9. Dooms' = [Dooms EXCEPT ![f] = @ \cup {args}]
  <2>1. Dooms = [g \in Names |-> DOMAIN todel[g]] /\ Dooms' = [g \in Names |-> DOMAIN todel'[g]]
    BY PromiseState
  <2> QED
    BY <1>6, <1>7, <1>8, <2>1
<1>10. Apps' = Apps
  BY <1>3, PromiseState
<1>11. Promise!Doom
  BY <1>3, <1>4, <1>9, <1>10, PromiseDoom
<1> QED
  BY <1>11 DEF Promise!Next

\* A row for a new application: the abstract make.
LEMMA MakeNew ==
  ASSUME EncodingInv, at \notin Alone, UNCHANGED <<ufi, todel>>,
         NEW f \in Names, NEW canon, NEW id, Makes(f, canon, id), id = seq, seq \in Ids, seq' = seq + 1
  PROVE  Promise!Make
<1>1. canon \in ArgsOf(f, Known) /\ Find(id) = seq
  BY FindFacts DEF Makes
<1>2. PICK row : row = Row(canon, Find(id))
  OBVIOUS
<1>3. PICK c, rows, apps, more : /\ c = classes' /\ rows = ViewRows' /\ apps = Apps
                                 /\ more = [Apps EXCEPT ![f] = @ \cup {row}]
  OBVIOUS
<1>4. /\ DOMAIN rows = Names /\ rows[f] = ViewRows[f] \cup {row}
      /\ \A g \in Names : g # f => rows[g] = ViewRows[g]
      /\ \A g \in Names : rows[g] \subseteq RowsOf(g, Ids)
  <2>1. /\ \A g \in Names : g # f => view'[g] = view[g]
        /\ DOMAIN view'[f] = DOMAIN view[f] \cup {row}
        /\ \A g \in Names : ViewRows'[g] \subseteq RowsOf(g, Ids)
    BY <1>2, MadeTables
  <2> QED
    BY <1>3, <2>1 DEF ViewRows
<1>5. DOMAIN more = Names /\ more[f] = apps[f] \cup {row} /\ \A g \in Names : g # f => more[g] = apps[g]
  BY <1>3, PromiseState
<1>6. ASSUME NEW k \in [Ids -> Ids], \A i \in Ids : k[classes[i]] = k[i]
      PROVE  Covered(k, rows, more) /\ Covered(k, more, rows) /\ OverIds(rows) /\ OverIds(more)
  <2>1. Covered(k, ViewRows, apps) /\ Covered(k, apps, ViewRows) /\ OverIds(ViewRows) /\ OverIds(apps)
    BY <1>3, <1>6, AppsCovered
  <2>2. OverIds(rows)
    BY <1>4 DEF OverIds
  <2>3. row \in RowsOf(f, Ids)
    BY <1>4
  <2>4. OverIds(more)
    BY <1>5, <2>1, <2>3 DEF OverIds
  <2>5. Covered(k, rows, more)
    BY <1>4, <1>5, <2>1 DEF Covered
  <2>6. Covered(k, more, rows)
    BY <1>4, <1>5, <2>1 DEF Covered
  <2> QED
    BY <2>2, <2>4, <2>5, <2>6
<1>7. Learned(c, DOMAIN uf', rows)
  BY <1>3, MadeClasses
<1>8. c \in [Ids -> Ids] /\ \A i \in Ids : c[classes[i]] = c[i]
  BY <1>7 DEF Learned
<1>9. Covered(c, rows, more) /\ Covered(c, more, rows) /\ OverIds(rows) /\ OverIds(more)
  BY <1>6, <1>8
<1>10. SameRows(rows, more)
  BY <1>6 DEF SameRows
<1>11. PICK pairs : pairs = {}
  OBVIOUS
<1>12. pairs \subseteq Ids \X Ids /\ SamePairs(pairs, pairs)
  BY <1>11 DEF SamePairs
<1>13. Closure(ClassPairs \cup pairs, rows) = Closure(ClassPairs \cup pairs, more)
  BY <1>9, <1>10, <1>12, LearnedAlike
<1>14. c = Closure(ClassPairs \cup pairs, rows)
  BY <1>3, <1>11 DEF Makes, Learn, ClassPairs
<1>15. classes' = Closure(ClassPairs, more)
  <2>1. ClassPairs \cup pairs = ClassPairs
    BY <1>11
  <2> QED
    BY <1>3, <1>13, <1>14, <2>1
<1>16. Canonical(c, rows) = Canonical(c, more)
  BY <1>8, <1>9, CoveredCanonical
<1>17. Apps' = Canonical(classes', more)
  BY <1>3, <1>16 DEF Apps
<1>18. Dooms' = Dooms
  BY DEF Dooms
<1>19. more = [Apps EXCEPT ![f] = @ \cup {Row(canon, seq)}]
  BY <1>1, <1>2, <1>3
<1> QED
  BY <1>1, <1>15, <1>17, <1>18, <1>19, PromiseMake

\* A row for an application that exists: nothing happens.
LEMMA MakeOld ==
  ASSUME EncodingInv, at \notin Alone, UNCHANGED <<ufi, todel>>,
         NEW f \in Names, NEW canon, NEW id, Makes(f, canon, id), id \in Existing(f, canon), seq' = seq
  PROVE  UNCHANGED Promise!vars
<1>1. canon \in ArgsOf(f, Known) /\ canon \in ArgsOf(f, Ids)
  BY TypeFacts DEF Makes, ArgsOf
<1>2. PICK r \in DOMAIN view[f] : Args(r) = canon /\ Class(r) = id
  BY ExistingFacts
<1>3. id \in Known /\ id \in Ids /\ Find(id) \in Known /\ Find(id) \in Ids /\ r \in RowsOf(f, Ids)
  BY ExistingFacts, FindFacts, TypeFacts
<1>4. PICK row : row = Row(canon, Find(id))
  OBVIOUS
<1>5. PICK l, c, old, rows, edges : /\ l = classes /\ c = classes' /\ old = ViewRows /\ rows = ViewRows'
                                    /\ edges = DOMAIN uf'
  OBVIOUS
<1>6. l \in [Ids -> Ids] /\ l[Find(id)] = l[id] /\ IsCongruence(l, DOMAIN uf, old)
  BY <1>5, TypeFacts DEF EncodingInv, Sound, Find
<1>7. \A k \in 1..LastColumn(f) : l[row[k]] = l[r[k]]
  <2>1. \A k \in 1..LastColumn(f) : row[k] = IF k = LastColumn(f) THEN Find(id) ELSE canon[k]
    BY <1>1, <1>3, <1>4, RowMade
  <2>2. r[LastColumn(f)] = id /\ \A k \in 1..Arity[f] : r[k] = canon[k]
    BY <1>2, <1>3, RowParts
  <2> QED
    BY <1>6, <2>1, <2>2, Columns
<1>8. /\ DOMAIN rows = Names /\ rows[f] = old[f] \cup {row} /\ r \in old[f]
      /\ \A g \in Names : g # f => rows[g] = old[g]
      /\ \A g \in Names : rows[g] \subseteq RowsOf(g, Ids)
      /\ edges = DOMAIN uf \cup {<<id, id>>}
  <2>1. /\ \A g \in Names : g # f => view'[g] = view[g]
        /\ DOMAIN view'[f] = DOMAIN view[f] \cup {row}
        /\ \A g \in Names : ViewRows'[g] \subseteq RowsOf(g, Ids)
        /\ DOMAIN uf' = DOMAIN uf \cup {<<id, id>>}
    BY <1>4, MadeTables
  <2> QED
    BY <1>2, <1>5, <2>1 DEF ViewRows
<1>9. DOMAIN old = Names
  BY <1>5 DEF ViewRows
<1>10. OverIds(old) /\ OverIds(rows)
  BY <1>8, <1>9 DEF OverIds
<1>11. Covered(l, rows, old)
  BY <1>7, <1>8 DEF Covered
<1>12. Covered(l, old, rows)
  BY <1>8 DEF Covered
<1>13. IsCongruence(l, DOMAIN uf, rows)
  BY <1>6, <1>10, <1>11, CoveredCongruence
<1>14. IsCongruence(l, edges, rows)
  BY <1>8, <1>13 DEF IsCongruence
<1>15. Learned(c, edges, rows) /\ IsCongruence(classes, edges, rows)
  BY <1>5, <1>14, MadeClasses
<1>16. c = classes
  BY <1>15, NothingLearned
<1>17. Canonical(l, rows) = Canonical(l, old)
  BY <1>6, <1>10, <1>11, <1>12, CoveredCanonical
<1>18. Apps' = Apps
  BY <1>5, <1>16, <1>17 DEF Apps
<1>19. Dooms' = Dooms
  BY DEF Dooms
<1> QED
  BY <1>5, <1>16, <1>18, <1>19, PromiseStutter

\* Making an application that exists is no step, any other is the abstract make.
LEMMA MakeSeen ==
  ASSUME EncodingInv, Make
  PROVE  Promise!Next \/ UNCHANGED Promise!vars
<1>1. at \notin Alone /\ UNCHANGED <<ufi, todel>>
  BY MakeFacts DEF Alone
<1>2. PICK f \in Names : \E canon, id : Makes(f, canon, id)
  BY MakeFacts
<1>3. PICK canon, id : Makes(f, canon, id)
  BY <1>2
<1>4. CASE id = seq /\ seq \in Ids /\ seq' = seq + 1
  <2>1. Promise!Make
    BY <1>1, <1>3, <1>4, MakeNew
  <2> QED
    BY <2>1 DEF Promise!Next
<1>5. CASE id \in Existing(f, canon) /\ seq' = seq
  BY <1>1, <1>3, <1>5, MakeOld
<1> QED
  BY <1>3, <1>4, <1>5 DEF Makes

\* Every step of the program is one of the abstract e-graph, or none.
LEMMA PromiseStep ==
  ASSUME EncodingInv, [Next]_vars
  PROVE  Promise!Next \/ UNCHANGED Promise!vars
<1>1. CASE Begin
  BY <1>1, PromiseUnchanged DEF Begin, db
<1>2. CASE Union
  BY <1>2, UnionSeen
<1>3. CASE Make
  BY <1>3, MakeSeen
<1>4. CASE Delete
  BY <1>4, DeleteDooms
<1>5. CASE Fail
  BY <1>5, PromiseUnchanged DEF Fail, db
<1>6. CASE EndActions
  BY <1>6, PromiseUnchanged DEF EndActions, db
<1>7. CASE RunRule
  BY <1>7, RuleUnseen, RebuildUnseen, DeleteSeen DEF RunRule
<1>8. CASE UNCHANGED vars
  BY <1>8, PromiseUnchanged DEF vars, db
<1> QED
  BY <1>1, <1>2, <1>3, <1>4, <1>5, <1>6, <1>7, <1>8 DEF Next

\* The tables implement the e-graph of CongruentTerms: a union and a new application take
\* effect at once with all that follows by congruence, a delete when the delete rule
\* runs, and no other rule of the rebuild schedule loses or makes up an application.
THEOREM TablesImplementEGraph == Spec => ImplementsCongruentTerms
<1>1. Init => Promise!Init
  BY PromiseInit
<1>2. EncodingInv /\ [Next]_vars => [Promise!Next]_(Promise!vars)
  BY PromiseStep
<1>3. Spec => []EncodingInv
  BY EncodingInvariant
<1> QED
  BY <1>1, <1>2, <1>3, PTL DEF Spec, ImplementsCongruentTerms, Promise!Spec
===============================================================================
