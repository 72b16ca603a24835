---------------------------- MODULE DatabaseProofs ----------------------------
(* Proofs about Database, for every set of tables and dependencies: no row   *)
(* that was staged is forgotten, and merge functions find their tables.      *)
EXTENDS Database, FiniteSetTheorems, WellFoundedInduction, TLAPS

-----------------------------------------------------------------------------
(* Sets of numbers. *)

\* A set of naturals that is not empty has a least element.
LEMMA LeastNatural ==
    ASSUME NEW S \in SUBSET Nat, S # {}
    PROVE  \E m \in S : \A n \in S : m <= n
<1>1. \E x \in S : \A y \in S : ~(<<y, x>> \in OpToRel(<, Nat))
  BY NatLessThanWellFounded, WFMin, Zenon
<1>2. \A x, y \in S : <<y, x>> \in OpToRel(<, Nat) <=> y < x
  BY DEF OpToRel
<1>3. \A x, y \in S : y < x \/ x <= y
  OBVIOUS
<1> QED
  BY <1>1, <1>2, <1>3

\* A set that has 0 and with every number its successor has all of them.
LEMMA InductiveSet ==
    ASSUME NEW S, 0 \in S, \A n \in Nat : n \in S => n + 1 \in S
    PROVE  \A n \in Nat : n \in S
<1> DEFINE Out == {n \in Nat : n \notin S}
<1> SUFFICES ASSUME Out # {} PROVE FALSE
  OBVIOUS
<1>1. PICK m \in Out : \A n \in Out : m <= n
  BY LeastNatural
<1>2. m # 0 /\ m - 1 \in Nat /\ m - 1 \notin Out
  BY <1>1
<1> QED
  BY <1>1, <1>2

\* Max gives the greatest element of a set that has a bound.
LEMMA BoundedMax ==
    ASSUME NEW S \in SUBSET Nat, S # {}, NEW b \in Nat, \A x \in S : x <= b
    PROVE  Max(S) \in S /\ \A x \in S : x <= Max(S)
<1> DEFINE Gaps == {n \in Nat : \E x \in S : x + n = b}
<1>1. \A x \in S : b - x \in Gaps
  OBVIOUS
<1>2. PICK g \in Gaps : \A n \in Gaps : g <= n
  BY <1>1, LeastNatural
<1>3. PICK u \in S : u + g = b
  OBVIOUS
<1>4. \A y \in S : u >= y
  BY <1>1, <1>2, <1>3
<1> QED
  BY <1>4 DEF Max

\* A finite set of naturals has a bound.
LEMMA FiniteBounded ==
    ASSUME NEW S \in SUBSET Nat, IsFiniteSet(S)
    PROVE  \E b \in Nat : \A x \in S : x <= b
<1> DEFINE N == Cardinality(S)
<1>1. N \in Nat /\ ExistsBijection(1 .. N, S)
  BY FS_CardinalityType
<1>2. PICK f \in Bijection(1 .. N, S) : TRUE
  BY <1>1 DEF ExistsBijection
<1>3. f \in [1 .. N -> S] /\ \A x \in S : \E k \in 1 .. N : f[k] = x
  BY <1>2 DEF Bijection, Surjection
<1> HIDE DEF N
<1> DEFINE Fine == {n \in Nat : \E b \in Nat : \A k \in 1 .. N : k <= n => f[k] <= b}
<1>4. 0 \in Fine
  BY <1>1
<1>5. ASSUME NEW n \in Nat, n \in Fine PROVE n + 1 \in Fine
  <2>1. PICK b \in Nat : \A k \in 1 .. N : k <= n => f[k] <= b
    BY <1>5
  <2>2. CASE n + 1 \in 1 .. N
    <3>1. f[n + 1] \in Nat
      BY <1>3, <2>2
    <3> DEFINE c == b + f[n + 1]
    <3>2. c \in Nat /\ b <= c /\ f[n + 1] <= c
      BY <3>1
    <3>3. \A k \in 1 .. N : k <= n + 1 => k <= n \/ k = n + 1
      BY <1>1
    <3>4. \A k \in 1 .. N : f[k] \in Nat
      BY <1>3
    <3> HIDE DEF c
    <3>5. \A k \in 1 .. N : k <= n + 1 => f[k] <= c
      BY <2>1, <3>2, <3>3, <3>4
    <3> QED
      BY <3>2, <3>5
  <2>3. CASE n + 1 \notin 1 .. N
    <3>1. \A k \in 1 .. N : k <= n + 1 => k <= n
      BY <1>1, <2>3
    <3> QED
      BY <2>1, <3>1
  <2> QED
    BY <2>2, <2>3
<1>6. N \in Fine
  <2> HIDE DEF Fine
  <2> QED
    BY <1>1, <1>4, <1>5, InductiveSet
<1> QED
  BY <1>1, <1>3, <1>6

-----------------------------------------------------------------------------
(* Levels *)

\* What makes g the levels of the tables in D (DependencyGraph::add_table).
IsLevel(g, D) ==
  /\ g \in [D -> Nat]
  /\ \A t \in D : g[t] <= t /\ g[t] = Max({0} \cup {g[d] + 1 : d \in ReadDeps[t]})
Below(n) == {t \in Tables : t < n}

\* The tables are numbered, and a table comes after those it reads.
LEMMA DepsFacts ==
  /\ \A t \in Tables : t \in Nat
  /\ \A t \in Tables : ReadDeps[t] \subseteq Tables
  /\ \A t \in Tables : \A d \in ReadDeps[t] : d < t
<1>1. /\ Tables \subseteq Nat /\ ReadDeps \in [Tables -> SUBSET Tables]
      /\ \A t \in Tables : \A d \in ReadDeps[t] : d < t
  BY DepsAssumption
<1> QED
  BY <1>1

\* Levels of the tables read give a level for the table, above theirs.
LEMMA NextLevel ==
  ASSUME NEW t \in Tables, NEW g, \A d \in ReadDeps[t] : g[d] \in Nat /\ g[d] <= d,
         NEW m, m = Max({0} \cup {g[d] + 1 : d \in ReadDeps[t]})
  PROVE  m \in Nat /\ m <= t /\ \A d \in ReadDeps[t] : g[d] < m
<1> DEFINE S == {0} \cup {g[d] + 1 : d \in ReadDeps[t]}
<1>1. t \in Nat /\ \A d \in ReadDeps[t] : d \in Nat /\ d < t
  BY DepsFacts
<1>2. \A x \in S : x \in Nat /\ x <= t
  BY <1>1
<1>3. Max(S) \in S /\ \A x \in S : x <= Max(S)
  <2>1. S \in SUBSET Nat /\ S # {}
    BY <1>2
  <2> HIDE DEF S
  <2> QED
    BY <1>1, <1>2, <2>1, BoundedMax
<1>4. \A d \in ReadDeps[t] : g[d] + 1 \in S
  OBVIOUS
<1>5. Max(S) \in Nat /\ Max(S) <= t
  BY <1>2, <1>3
<1>6. \A d \in ReadDeps[t] : g[d] < Max(S)
  <2> HIDE DEF S
  <2> QED
    BY <1>3, <1>4, <1>5
<1> QED
  BY <1>5, <1>6

\* The tables below any number have levels.
LEMMA LevelsBelow == \A n \in Nat : \E g : IsLevel(g, Below(n))
<1> DEFINE Good == {n \in Nat : \E g : IsLevel(g, Below(n))}
<1>1. 0 \in Good
  <2>1. Below(0) = {}
    BY DepsFacts DEF Below
  <2>2. IsLevel([t \in {} |-> 0], {})
    BY DEF IsLevel
  <2> QED
    BY <2>1, <2>2
<1>2. ASSUME NEW n \in Nat, n \in Good PROVE n + 1 \in Good
  <2>1. PICK g : IsLevel(g, Below(n))
    BY <1>2
  <2>2. CASE n \notin Tables
    <3>1. Below(n + 1) = Below(n)
      BY <2>2, DepsFacts DEF Below
    <3> QED
      BY <2>1, <3>1
  <2>3. CASE n \in Tables
    <3> DEFINE m == Max({0} \cup {g[d] + 1 : d \in ReadDeps[n]})
               h == [t \in Below(n + 1) |-> IF t = n THEN m ELSE g[t]]
    <3>1. Below(n + 1) = Below(n) \cup {n} /\ n \notin Below(n)
      <4>1. \A t \in Tables : t < n + 1 <=> t < n \/ t = n
        BY DepsFacts
      <4>2. ~(n < n)
        OBVIOUS
      <4> QED
        BY <2>3, <4>1, <4>2, Zenon DEF Below
    <3>2. \A t \in Below(n + 1) : ReadDeps[t] \subseteq Below(n)
      BY DepsFacts DEF Below
    <3>3. m \in Nat /\ m <= n
      <4>1. \A d \in ReadDeps[n] : g[d] \in Nat /\ g[d] <= d
        BY <2>1, <3>1, <3>2 DEF IsLevel
      <4> QED
        BY <2>3, <4>1, NextLevel
    <3>4. h \in [Below(n + 1) -> Nat]
      BY <2>1, <3>1, <3>3 DEF IsLevel
    <3>5. \A t \in Below(n + 1) : \A d \in ReadDeps[t] : h[d] = g[d]
      BY <3>1, <3>2
    <3>6. \A t \in Below(n + 1) :
             {h[d] + 1 : d \in ReadDeps[t]} = {g[d] + 1 : d \in ReadDeps[t]}
      BY <3>5
    <3>7. \A t \in Below(n + 1) : h[t] <= t /\ h[t] = Max({0} \cup {g[d] + 1 : d \in ReadDeps[t]})
      BY <2>1, <3>1, <3>3 DEF IsLevel
    <3>8. IsLevel(h, Below(n + 1))
      <4> HIDE DEF h, m
      <4> QED
        BY <3>4, <3>6, <3>7 DEF IsLevel
    <3> QED
      BY <3>8
  <2> QED
    BY <2>2, <2>3
<1> HIDE DEF Good
<1>3. \A n \in Nat : n \in Good
  BY <1>1, <1>2, InductiveSet
<1> QED
  BY <1>3 DEF Good

\* A table is on a level above those it reads, and there are finitely many levels.
LEMMA LevelFacts ==
  /\ \A t \in Tables : Level[t] \in Nat
  /\ \A t \in Tables : \A d \in ReadDeps[t] : Level[d] < Level[t]
  /\ \A t \in Tables : Levels \in Nat /\ Level[t] < Levels
<1>1. PICK b \in Nat : \A t \in Tables : t <= b
  BY FiniteBounded, DepsAssumption
<1>2. Below(b + 1) = Tables
  <2>1. \A t \in Tables : t < b + 1
    BY <1>1, DepsFacts
  <2> QED
    BY <2>1 DEF Below
<1>3. PICK g : IsLevel(g, Tables)
  <2>1. b + 1 \in Nat
    BY <1>1
  <2> QED
    BY <1>2, <2>1, LevelsBelow
<1>4. g = [t \in Tables |-> Max({0} \cup {g[d] + 1 : d \in ReadDeps[t]})]
  BY <1>3 DEF IsLevel
<1>5. Level = [t \in Tables |-> Max({0} \cup {Level[d] + 1 : d \in ReadDeps[t]})]
  BY <1>4 DEF Level
<1> HIDE DEF Level
<1>6. \A t \in Tables : Level[t] \in Nat /\ Level[t] <= t
  <2> DEFINE Out == {t \in Tables : ~(Level[t] \in Nat /\ Level[t] <= t)}
  <2> SUFFICES ASSUME Out # {} PROVE FALSE
    OBVIOUS
  <2>1. PICK t \in Out : \A u \in Out : t <= u
    BY LeastNatural, DepsAssumption
  <2>2. t \in Tables /\ \A d \in ReadDeps[t] : d \in Tables /\ d < t /\ d \notin Out
    BY <2>1, DepsFacts
  <2>3. \A d \in ReadDeps[t] : Level[d] \in Nat /\ Level[d] <= d
    BY <2>2
  <2> QED
    <3>1. Level[t] = Max({0} \cup {Level[d] + 1 : d \in ReadDeps[t]})
      BY <1>5, <2>2
    <3>2. Level[t] \in Nat /\ Level[t] <= t
      BY <2>2, <2>3, <3>1, NextLevel
    <3> QED
      BY <2>1, <3>2
<1>7. ASSUME NEW t \in Tables, NEW d \in ReadDeps[t] PROVE Level[d] < Level[t]
  <2>1. \A e \in ReadDeps[t] : Level[e] \in Nat /\ Level[e] <= e
    BY <1>6, DepsFacts
  <2> QED
    <3>1. Level[t] = Max({0} \cup {Level[e] + 1 : e \in ReadDeps[t]})
      BY <1>5
    <3> QED
      BY <2>1, <3>1, NextLevel
<1>8. ASSUME NEW t \in Tables PROVE Levels \in Nat /\ Level[t] < Levels
  <2> DEFINE S == {Level[u] : u \in Tables}
  <2>1. S \in SUBSET Nat /\ Level[t] \in S /\ \A x \in S : x <= b
    BY <1>1, <1>6, DepsAssumption
  <2>2. Levels = Max(S) + 1
    BY DEF Levels
  <2> HIDE DEF S
  <2>3. Max(S) \in S /\ Level[t] <= Max(S)
    BY <1>1, <2>1, BoundedMax
  <2>4. Max(S) \in Nat /\ Level[t] \in Nat
    BY <1>6, <2>1, <2>3
  <2> QED
    BY <2>2, <2>3, <2>4
<1> QED
  BY <1>6, <1>7, <1>8

-----------------------------------------------------------------------------
(* The inductive invariant *)

Notifying == {"resize", "lock", "push", "publish", "read", "check", "swap", "record"}
Resting   == {"idle", "merge", "empty", "rebuild"}

TypeInv ==
  /\ head \in Nat
  /\ \A i \in DOMAIN slots : i \in Nat /\ slots[i] \in BOOLEAN
  /\ \A i \in DOMAIN slots, j \in Nat : j <= i => j \in DOMAIN slots
  /\ notified \in Seq(Tables)
  /\ pc \in [Tasks -> Notifying \cup Resting \cup {"work"}]
  /\ item \in [Tasks -> Nat]
  /\ \A t \in Tasks : pc[t] \in Notifying => item[t] \in Tables
  /\ todo \in Seq(Tables)
  /\ stratum \in Nat
  /\ pending \subseteq Tables
  /\ held \in [Tasks -> SUBSET Tables]
  /\ buffers \in [Tasks -> SUBSET Tables]

\* A mark is set only within what is published, and says that the item is recorded
\* or that the task that set it is about to record it; the vector grows only under
\* the lock, and never shrinks.
MarkInv ==
  /\ \A i \in DOMAIN slots : slots[i] =>
       /\ i < head
       /\ i \in Range(notified) \/ \E t \in Tasks : pc[t] = "record" /\ item[t] = i
  /\ \A i \in Nat : i < head => i \in DOMAIN slots
  /\ \A t \in Tasks : writer = t <=> pc[t] \in {"push", "publish"}
  /\ \A t \in Tasks : pc[t] \in {"push", "publish"} => item[t] >= head
  /\ \A t \in Tasks : pc[t] = "publish" => item[t] \in DOMAIN slots
  /\ \A t \in Tasks : pc[t] \in {"read", "check", "swap"} => item[t] < head

\* Who is at work in which phase, and which tables are with a task.
WorkInv ==
  /\ \A t \in Tasks : pc[t] \in Resting => held[t] = {}
  /\ \A t \in Tasks : pc[t] = "rebuild" => phase = "rebuild"
  /\ phase = "idle" => AllIdle
  /\ phase = "simple" =>
       /\ \A t, u \in Tasks : pc[t] # "idle" /\ pc[u] # "idle" => t = u
       /\ \A t \in Tasks : pc[t] = "idle" => t \in present
       /\ \A t \in Tasks : pc[t] # "idle" => t \in buffers[t]
  /\ phase = "strata" =>
       /\ \A t \in Tasks : pc[t] # "idle" => Level[t] + 1 = stratum /\ WriteDeps[t] \subseteq buffers[t]
       /\ \A t \in Tables : t \notin present => Level[t] + 1 = stratum

MergeInv == TypeInv /\ MarkInv /\ WorkInv /\ NoWriteForgotten

-----------------------------------------------------------------------------
(* Sequences *)

\* The elements of a sequence with one more, or without its head.
LEMMA RangeAppend ==
  ASSUME NEW S, NEW s \in Seq(S), NEW x \in S
  PROVE  Range(Append(s, x)) = Range(s) \cup {x}
<1>1. /\ DOMAIN Append(s, x) = 1 .. (Len(s) + 1) /\ DOMAIN s = 1 .. Len(s) /\ Len(s) \in Nat
      /\ \A k \in 1 .. Len(s) : Append(s, x)[k] = s[k]
      /\ Append(s, x)[Len(s) + 1] = x
  OBVIOUS
<1>2. 1 .. (Len(s) + 1) = (1 .. Len(s)) \cup {Len(s) + 1}
  BY <1>1
<1> QED
  BY <1>1, <1>2 DEF Range

\* What a sequence has is its head and what its tail has.
LEMMA RangeTail ==
  ASSUME NEW S, NEW s \in Seq(S), s # <<>>
  PROVE  /\ Head(s) \in S /\ Tail(s) \in Seq(S)
         /\ Range(s) \subseteq {Head(s)} \cup Range(Tail(s))
<1>1. /\ Head(s) = s[1] /\ Head(s) \in S /\ Tail(s) \in Seq(S) /\ Len(s) \in Nat /\ Len(s) >= 1
      /\ DOMAIN s = 1 .. Len(s) /\ DOMAIN Tail(s) = 1 .. (Len(s) - 1)
      /\ \A k \in 1 .. (Len(s) - 1) : Tail(s)[k] = s[k + 1]
  OBVIOUS
<1>2. \A k \in 1 .. Len(s) : k = 1 \/ k - 1 \in 1 .. (Len(s) - 1)
  BY <1>1
<1>3. \A k \in 1 .. Len(s) : s[k] = Head(s) \/ s[k] = Tail(s)[k - 1]
  BY <1>1, <1>2
<1>4. ASSUME NEW k \in DOMAIN s PROVE s[k] \in {Head(s)} \cup Range(Tail(s))
  <2>1. CASE k = 1
    BY <1>1, <2>1
  <2>2. CASE k # 1
    <3>1. k - 1 \in DOMAIN Tail(s) /\ s[k] = Tail(s)[k - 1]
      BY <1>1, <1>2, <2>2
    <3> QED
      BY <3>1 DEF Range
  <2> QED
    BY <2>1, <2>2
<1> QED
  BY <1>1, <1>4 DEF Range

\* What a sequence over a set has is in the set.
LEMMA RangeTyped ==
  ASSUME NEW S, NEW s \in Seq(S)
  PROVE  Range(s) \subseteq S /\ (s = <<>> => Range(s) = {})
<1>1. DOMAIN s = 1 .. Len(s) /\ \A k \in 1 .. Len(s) : s[k] \in S
  OBVIOUS
<1>2. s = <<>> => DOMAIN s = {}
  OBVIOUS
<1> QED
  BY <1>1, <1>2 DEF Range

-----------------------------------------------------------------------------
(* A task notifies *)

\* A step of a task within notify changes nothing that WorkInv speaks of.
LEMMA NotifyKeepsWork ==
  ASSUME TypeInv, WorkInv, NEW t \in Tasks, NEW p \in Notifying \cup {"work"},
         pc[t] \in Notifying, pc' = [pc EXCEPT ![t] = p],
         UNCHANGED <<phase, todo, stratum, present, pending, held, buffers>>
  PROVE  WorkInv' /\ \A i \in Tasks : StillMerges(i) => StillMerges(i)'
<1>1. p # "idle" /\ p \notin Resting /\ pc[t] # "idle" /\ pc[t] # "merge"
  BY DEF Notifying, Resting
<1>2. \A u \in Tasks : /\ pc'[u] = "idle" <=> pc[u] = "idle"
                       /\ pc[u] = "merge" => pc'[u] = "merge"
                       /\ pc'[u] \in Resting => pc[u] \in Resting
                       /\ pc'[u] = "rebuild" => pc[u] = "rebuild"
  BY <1>1 DEF TypeInv, Notifying
<1>3. WorkInv'
  BY <1>2 DEF WorkInv, AllIdle
<1> QED
  BY <1>2, <1>3 DEF StillMerges

\* What a step within notify must keep so that no row is forgotten.
LEMMA NotifyKeepsRows ==
  ASSUME TypeInv, WorkInv, NoWriteForgotten, NEW t \in Tasks, NEW p \in Notifying \cup {"work"},
         pc[t] \in Notifying, pc' = [pc EXCEPT ![t] = p],
         UNCHANGED <<phase, todo, stratum, present, pending, held, buffers>>,
         \A i \in Tables : ToBeRecorded(i) => ToBeRecorded(i)'
  PROVE  NoWriteForgotten'
<1>1. \A i \in Tasks : StillMerges(i) => StillMerges(i)'
  BY NotifyKeepsWork
<1>2. phase # "idle"
  BY DEF WorkInv, AllIdle, Notifying
<1> QED
  BY <1>1, <1>2 DEF NoWriteForgotten, TypeInv, Tables

\* A step that stays within notify and leaves the record alone forgets nobody.
LEMMA StaysRecorded ==
  ASSUME TypeInv, NEW t \in Tasks, NEW p \in Notifying, pc[t] \in Notifying,
         pc' = [pc EXCEPT ![t] = p], UNCHANGED <<notified, item>>
  PROVE  \A i \in Tables : ToBeRecorded(i) => ToBeRecorded(i)'
<1>1. \A q \in Notifying : q \notin {"idle", "work", "merge", "empty", "rebuild"}
  BY DEF Notifying
<1> QED
  BY <1>1 DEF ToBeRecorded, TypeInv

\* Every step of a task within notify keeps the invariant (NotificationList::notify,
\* ConcurrentVec::resize_with and push_at).
LEMMA KeepsNotifyStep ==
  ASSUME MergeInv, NEW t \in Tasks, NotifyStep(t)
  PROVE  MergeInv'
<1> USE DEF MergeInv
<1>0. UNCHANGED <<phase, todo, stratum, present, pending, held, buffers, writes>> /\ Notify(t)
  BY DEF NotifyStep
<1>a. None \notin Tasks /\ Tasks = Tables
  BY DepsAssumption DEF Tables
<1>b. \A i \in Tables : i \in Nat
  BY DepsFacts
<1>1. ASSUME NEW p \in Notifying, pc[t] \in Notifying, pc' = [pc EXCEPT ![t] = p],
             UNCHANGED <<notified, item>>, TypeInv', MarkInv'
      PROVE  MergeInv'
  BY <1>0, <1>1, StaysRecorded, NotifyKeepsRows, NotifyKeepsWork
<1>2. ASSUME Fits(t) \/ FitsByNow(t) \/ Read(t) PROVE MergeInv'
  <2>1. \E p \in {"read", "check"} : pc' = [pc EXCEPT ![t] = p]
    BY <1>2 DEF Fits, FitsByNow, Read, Goto
  <2>2. /\ pc[t] \in {"resize", "lock", "read"} /\ item[t] < head
        /\ UNCHANGED <<head, slots, writer, notified, item>>
    BY <1>2 DEF Fits, FitsByNow, Read
  <2>3. TypeInv'
    BY <1>0, <2>1, <2>2 DEF TypeInv, Notifying
  <2>4. MarkInv'
    BY <2>1, <2>2 DEF MarkInv, TypeInv
  <2> QED
    BY <1>1, <2>1, <2>2, <2>3, <2>4 DEF Notifying
<1>3. ASSUME TooShort(t) \/ NotYetNotified(t) PROVE MergeInv'
  <2>1. /\ \E p \in {"lock", "swap"} : pc' = [pc EXCEPT ![t] = p] /\ (p = "swap" => pc[t] = "check")
        /\ pc[t] \in {"resize", "check"} /\ UNCHANGED <<head, slots, writer, notified, item>>
    BY <1>3 DEF TooShort, NotYetNotified, Goto
  <2>2. TypeInv'
    BY <1>0, <2>1 DEF TypeInv, Notifying
  <2>3. MarkInv'
    BY <2>1 DEF MarkInv, TypeInv
  <2> QED
    BY <1>1, <2>1, <2>2, <2>3 DEF Notifying
<1>4. ASSUME Lock(t) PROVE MergeInv'
  <2>1. /\ pc[t] = "lock" /\ pc' = [pc EXCEPT ![t] = "push"] /\ writer = None /\ writer' = t
        /\ item[t] >= head /\ UNCHANGED <<head, slots, notified, item>>
    BY <1>4 DEF Lock, Goto
  <2>2. TypeInv'
    BY <1>0, <2>1 DEF TypeInv, Notifying
  <2>3. MarkInv'
    BY <1>a, <2>1 DEF MarkInv, TypeInv
  <2> QED
    BY <1>1, <2>1, <2>2, <2>3 DEF Notifying
<1>5. ASSUME Grow(t) PROVE MergeInv'
  <2>1. /\ pc[t] = "push" /\ item[t] \notin DOMAIN slots /\ item[t] \in Nat
        /\ UNCHANGED <<head, writer, notified, pc, item>>
    BY <1>5 DEF Grow, TypeInv
  <2>2. PICK size \in NextPowerOfTwo(item[t] + 1) :
           slots' = [i \in 0 .. (size - 1) |-> i \in DOMAIN slots /\ slots[i]]
    BY <1>5 DEF Grow
  <2>3. size \in Nat /\ item[t] + 1 <= size
    BY <2>1, <2>2 DEF NextPowerOfTwo
  <2>4. /\ DOMAIN slots' = 0 .. (size - 1)
        /\ \A i \in DOMAIN slots' : slots'[i] \in BOOLEAN /\ (slots'[i] => i \in DOMAIN slots /\ slots[i])
    BY <2>2
  <2>5. DOMAIN slots \subseteq DOMAIN slots'
    BY <2>1, <2>3, <2>4 DEF TypeInv
  <2>6. TypeInv'
    <3>1. \A i \in DOMAIN slots', j \in Nat : j <= i => j \in DOMAIN slots'
      BY <2>3, <2>4
    <3>2. \A i \in DOMAIN slots' : i \in Nat /\ slots'[i] \in BOOLEAN
      BY <2>3, <2>4
    <3> QED
      BY <1>0, <2>1, <3>1, <3>2 DEF TypeInv
  <2>7. MarkInv'
    BY <2>1, <2>4, <2>5 DEF MarkInv
  <2>8. pc' = [pc EXCEPT ![t] = "push"]
    BY <2>1 DEF TypeInv
  <2> QED
    BY <1>1, <2>1, <2>6, <2>7, <2>8 DEF Notifying
<1>6. ASSUME Place(t) PROVE MergeInv'
  <2>1. /\ pc[t] = "push" /\ item[t] \in DOMAIN slots /\ slots' = [slots EXCEPT ![item[t]] = FALSE]
        /\ pc' = [pc EXCEPT ![t] = "publish"] /\ UNCHANGED <<head, writer, notified, item>>
    BY <1>6 DEF Place, Goto
  <2>2. /\ DOMAIN slots' = DOMAIN slots
        /\ \A i \in DOMAIN slots : slots'[i] \in BOOLEAN /\ (slots'[i] => slots[i])
    BY <2>1 DEF TypeInv
  <2>3. TypeInv'
    BY <1>0, <2>1, <2>2 DEF TypeInv, Notifying
  <2>4. MarkInv'
    BY <2>1, <2>2 DEF MarkInv, TypeInv
  <2> QED
    BY <1>1, <2>1, <2>3, <2>4 DEF Notifying
<1>7. ASSUME Publish(t) PROVE MergeInv'
  <2>1. /\ pc[t] = "publish" /\ head' = item[t] + 1 /\ writer' = None
        /\ pc' = [pc EXCEPT ![t] = "read"] /\ UNCHANGED <<slots, notified, item>>
    BY <1>7 DEF Publish, Goto
  <2>2. item[t] \in Nat /\ head <= item[t] /\ item[t] \in DOMAIN slots /\ head \in Nat
    BY <2>1 DEF MarkInv, TypeInv
  <2>3. TypeInv'
    BY <1>0, <2>1, <2>2 DEF TypeInv, Notifying
  <2>4. \A u \in Tasks : u # t => pc[u] \notin {"push", "publish"}
    BY <2>1 DEF MarkInv
  <2>5. MarkInv'
    <3>1. \A i \in Nat : i < head' => i \in DOMAIN slots
      BY <2>1, <2>2 DEF TypeInv
    <3>2. \A i \in Nat : i < head => i < head'
      BY <2>1, <2>2
    <3> QED
      BY <1>a, <2>1, <2>2, <2>4, <3>1, <3>2 DEF MarkInv, TypeInv
  <2> QED
    BY <1>1, <2>1, <2>3, <2>5 DEF Notifying
<1>8. ASSUME NEW p \in {"work", "record"}, pc[t] \in {"check", "swap", "record"},
             pc' = [pc EXCEPT ![t] = p], UNCHANGED item, TypeInv', MarkInv',
             \A i \in Tables : i \in Range(notified) => i \in Range(notified'),
             ToBeRecorded(item[t])'
      PROVE  MergeInv'
  <2>1. \A i \in Tables : ToBeRecorded(i) => ToBeRecorded(i)'
    BY <1>8 DEF ToBeRecorded, TypeInv
  <2> QED
    BY <1>0, <1>8, <2>1, NotifyKeepsRows, NotifyKeepsWork DEF Notifying
<1>9. ASSUME pc[t] \in {"check", "swap"}, Marked(t), pc' = [pc EXCEPT ![t] = "work"],
             DOMAIN slots' = DOMAIN slots, \A i \in DOMAIN slots : slots'[i] = slots[i],
             UNCHANGED <<head, writer, notified, item>>
      PROVE  MergeInv'
  <2>1. TypeInv'
    BY <1>0, <1>9 DEF TypeInv, Notifying
  <2>2. item[t] \in DOMAIN slots /\ slots[item[t]]
    BY <1>9 DEF MarkInv, Marked, TypeInv
  <2>3. item[t] \in Range(notified) \/ \E u \in Tasks : u # t /\ pc[u] = "record" /\ item[u] = item[t]
    BY <1>9, <2>2 DEF MarkInv
  <2>4. ToBeRecorded(item[t])'
    BY <1>9, <2>3 DEF ToBeRecorded, TypeInv
  <2>5. MarkInv'
    BY <1>9 DEF MarkInv, TypeInv
  <2> QED
    BY <1>8, <1>9, <2>1, <2>4, <2>5
<1>10. ASSUME AlreadyNotified(t) PROVE MergeInv'
  BY <1>9, <1>10 DEF AlreadyNotified, Goto
<1>11. ASSUME AttemptNotify(t), Marked(t) PROVE MergeInv'
  <2>1. /\ pc[t] = "swap" /\ slots' = [slots EXCEPT ![item[t]] = TRUE]
        /\ pc' = [pc EXCEPT ![t] = "work"] /\ UNCHANGED <<head, writer, notified, item>>
    BY <1>11 DEF AttemptNotify, Goto
  <2>2. DOMAIN slots' = DOMAIN slots /\ \A i \in DOMAIN slots : slots'[i] = slots[i]
    BY <1>11, <2>1 DEF Marked, TypeInv
  <2> QED
    BY <1>9, <1>11, <2>1, <2>2
<1>12. ASSUME AttemptNotify(t), ~Marked(t) PROVE MergeInv'
  <2>1. /\ pc[t] = "swap" /\ slots' = [slots EXCEPT ![item[t]] = TRUE]
        /\ pc' = [pc EXCEPT ![t] = "record"] /\ UNCHANGED <<head, writer, notified, item>>
    BY <1>12 DEF AttemptNotify, Goto
  <2>2. DOMAIN slots' = DOMAIN slots /\ \A i \in DOMAIN slots : slots'[i] = (i = item[t] \/ slots[i])
    BY <2>1 DEF TypeInv
  <2>3. TypeInv'
    BY <1>0, <2>1, <2>2 DEF TypeInv, Notifying
  <2>4. MarkInv'
    BY <2>1, <2>2 DEF MarkInv, TypeInv
  <2> QED
    BY <1>1, <2>1, <2>3, <2>4 DEF Notifying
<1>13. ASSUME Record(t) PROVE MergeInv'
  <2>1. /\ pc[t] = "record" /\ notified' = Append(notified, item[t])
        /\ pc' = [pc EXCEPT ![t] = "work"] /\ UNCHANGED <<head, slots, writer, item>>
    BY <1>13 DEF Record, Goto
  <2>2. item[t] \in Tables /\ notified \in Seq(Tables)
    BY <2>1 DEF TypeInv, Notifying
  <2>3. Range(notified') = Range(notified) \cup {item[t]} /\ notified' \in Seq(Tables)
    BY <2>1, <2>2, RangeAppend
  <2>4. TypeInv'
    BY <1>0, <2>1, <2>3 DEF TypeInv, Notifying
  <2>5. MarkInv'
    BY <2>1, <2>3 DEF MarkInv, TypeInv
  <2>6. ToBeRecorded(item[t])'
    BY <2>1, <2>3 DEF ToBeRecorded
  <2> QED
    BY <1>8, <2>1, <2>3, <2>4, <2>5, <2>6
<1> QED
  BY <1>0, <1>2, <1>3, <1>4, <1>5, <1>6, <1>7, <1>10, <1>11, <1>12, <1>13 DEF Notify

-----------------------------------------------------------------------------
(* The other steps of a task *)

\* A row goes to a buffer and its table is about to be recorded
\* (ExecutionState::stage_insert, stage_remove).
LEMMA KeepsStage ==
  ASSUME MergeInv, NEW t \in Tasks, Stage(t)
  PROVE  MergeInv'
<1> USE DEF MergeInv
<1>1. PICK i \in Tables : /\ held' = [held EXCEPT ![t] = @ \cup {i}]
                          /\ item' = [item EXCEPT ![t] = i]
                          /\ pc' = [pc EXCEPT ![t] = "resize"]
                          /\ UNCHANGED <<head, slots, writer, notified>>
  BY DepsAssumption DEF Stage, StartNotify, Goto, Tables
<1>2. pc[t] = "work" /\ UNCHANGED <<phase, todo, stratum, present, pending, buffers>>
  BY DEF Stage
<1>3. i \in Nat
  BY DepsFacts
<1>4. TypeInv'
  BY <1>1, <1>2, <1>3 DEF TypeInv, Notifying
<1>5. MarkInv'
  BY <1>1, <1>2 DEF MarkInv, TypeInv
<1>6. WorkInv'
  BY <1>1, <1>2 DEF WorkInv, TypeInv, AllIdle, Resting
<1>7. NoWriteForgotten'
  <2>1. ToBeRecorded(i)'
    BY <1>1 DEF ToBeRecorded, TypeInv
  <2>2. \A j \in Tables : ToBeRecorded(j) => ToBeRecorded(j)'
    BY <1>1, <1>2 DEF ToBeRecorded, TypeInv
  <2>3. \A j \in Tasks : StillMerges(j) => StillMerges(j)'
    BY <1>1, <1>2 DEF StillMerges, TypeInv
  <2>4. phase # "idle"
    BY <1>2 DEF WorkInv, AllIdle
  <2>5. \A j \in pending' : ToBeRecorded(j)' \/ StillMerges(j)'
    BY <1>2, <2>2, <2>3 DEF NoWriteForgotten, TypeInv, Tables
  <2>6. \A u \in Tasks : \A j \in held'[u] : ToBeRecorded(j)'
    BY <1>1, <2>1, <2>2 DEF NoWriteForgotten, TypeInv
  <2> QED
    BY <1>2, <2>4, <2>5, <2>6 DEF NoWriteForgotten
<1> QED
  BY <1>4, <1>5, <1>6, <1>7

\* The buffers hand over their rows, whose tables are to be recorded.
LEMMA KeepsFinish ==
  ASSUME MergeInv, NEW t \in Tasks, Finish(t)
  PROVE  MergeInv'
<1> USE DEF MergeInv
<1>1. /\ pc[t] = "work" /\ pc' = [pc EXCEPT ![t] = "idle"]
      /\ pending' = pending \cup held[t] /\ held' = [held EXCEPT ![t] = {}]
      /\ buffers' = [buffers EXCEPT ![t] = {}]
      /\ present' = IF phase = "simple" THEN present \cup {t} ELSE present
      /\ UNCHANGED <<head, slots, writer, notified, item, phase, todo, stratum, writes>>
  BY DEF Finish, Goto
<1>2. TypeInv'
  BY <1>1 DEF TypeInv, Resting, Notifying
<1>3. MarkInv'
  BY <1>1 DEF MarkInv, TypeInv
<1>4. phase # "idle"
  BY <1>1 DEF WorkInv, AllIdle
<1>5. WorkInv'
  <2>1. \A u \in Tasks : u # t => pc'[u] = pc[u] /\ held'[u] = held[u] /\ buffers'[u] = buffers[u]
    BY <1>1 DEF TypeInv
  <2>2. pc'[t] = "idle" /\ held'[t] = {}
    BY <1>1 DEF TypeInv
  <2>3. phase = "simple" => \A u \in Tasks : pc'[u] = "idle" => u \in present'
    BY <1>1, <2>1 DEF WorkInv
  <2> QED
    BY <1>1, <1>4, <2>1, <2>2, <2>3 DEF WorkInv
<1>6. NoWriteForgotten'
  <2>1. \A j : ToBeRecorded(j) => ToBeRecorded(j)'
    BY <1>1 DEF ToBeRecorded, TypeInv
  <2>2. \A j \in Tasks : StillMerges(j) => StillMerges(j)'
    BY <1>1 DEF StillMerges, TypeInv
  <2>3. \A j \in pending' : ToBeRecorded(j)' \/ StillMerges(j)'
    BY <1>1, <2>1, <2>2 DEF NoWriteForgotten, TypeInv, Tables
  <2>4. \A u \in Tasks : \A j \in held'[u] : ToBeRecorded(j)'
    BY <1>1, <2>1 DEF NoWriteForgotten, TypeInv
  <2> QED
    BY <1>1, <1>4, <2>3, <2>4 DEF NoWriteForgotten
<1> QED
  BY <1>2, <1>3, <1>5, <1>6

\* A rebuild that changed nothing (Database::run_on_tables).
LEMMA KeepsRebuildUnchanged ==
  ASSUME MergeInv, NEW t \in Tasks, RebuildUnchanged(t)
  PROVE  MergeInv'
<1> USE DEF MergeInv
<1>1. /\ pc[t] = "rebuild" /\ pc' = [pc EXCEPT ![t] = "idle"]
      /\ UNCHANGED <<head, slots, writer, notified, item>>
      /\ UNCHANGED <<phase, todo, stratum, present, pending, held, buffers, writes>>
  BY DEF RebuildUnchanged, Goto
<1>2. TypeInv'
  BY <1>1 DEF TypeInv, Resting, Notifying
<1>3. MarkInv'
  BY <1>1 DEF MarkInv, TypeInv
<1>4. phase = "rebuild" /\ held[t] = {}
  BY <1>1 DEF WorkInv, Resting
<1>5. WorkInv'
  BY <1>1, <1>4 DEF WorkInv, TypeInv, Resting
<1>6. NoWriteForgotten'
  <2>1. \A j : ToBeRecorded(j) => ToBeRecorded(j)'
    BY <1>1 DEF ToBeRecorded, TypeInv
  <2>2. \A j \in Tasks : StillMerges(j) => StillMerges(j)'
    BY <1>1 DEF StillMerges, TypeInv
  <2> QED
    BY <1>1, <1>4, <2>1, <2>2 DEF NoWriteForgotten, TypeInv, Tables
<1> QED
  BY <1>2, <1>3, <1>5, <1>6

\* A rebuild that staged rows has the table notified before it returns.
LEMMA KeepsRebuildChanged ==
  ASSUME MergeInv, NEW t \in Tasks, RebuildChanged(t)
  PROVE  MergeInv'
<1> USE DEF MergeInv
<1>1. /\ pc[t] = "rebuild" /\ pc' = [pc EXCEPT ![t] = "resize"] /\ item' = [item EXCEPT ![t] = t]
      /\ pending' = pending \cup {t} /\ UNCHANGED <<head, slots, writer, notified>>
      /\ UNCHANGED <<phase, todo, stratum, present, held, buffers>>
  BY DEF RebuildChanged, StartNotify, Goto
<1>2. t \in Tables /\ t \in Nat
  BY DepsFacts DEF Tables
<1>3. TypeInv'
  BY <1>1, <1>2 DEF TypeInv, Resting, Notifying
<1>4. MarkInv'
  BY <1>1 DEF MarkInv, TypeInv
<1>5. phase = "rebuild" /\ held[t] = {}
  BY <1>1 DEF WorkInv, Resting
<1>6. WorkInv'
  BY <1>1, <1>5 DEF WorkInv, TypeInv, Resting
<1>7. NoWriteForgotten'
  <2>1. ToBeRecorded(t)' /\ \A j : ToBeRecorded(j) => ToBeRecorded(j)'
    BY <1>1 DEF ToBeRecorded, TypeInv
  <2>2. \A j \in Tasks : StillMerges(j) => StillMerges(j)'
    BY <1>1 DEF StillMerges, TypeInv
  <2> QED
    BY <1>1, <1>5, <2>1, <2>2 DEF NoWriteForgotten, TypeInv, Tables
<1> QED
  BY <1>3, <1>4, <1>6, <1>7

\* A table takes the rows handed over so far (Table::merge).
LEMMA KeepsTakePending ==
  ASSUME MergeInv, NEW t \in Tasks, TakePending(t)
  PROVE  MergeInv'
<1> USE DEF MergeInv
<1>1. /\ pc[t] = "merge" /\ pending' = pending \ {t}
      /\ \E p \in {"work", "empty"} : pc' = [pc EXCEPT ![t] = p]
      /\ UNCHANGED <<head, slots, writer, notified, item>>
      /\ UNCHANGED <<phase, todo, stratum, present, held, buffers, writes>>
  BY DEF TakePending, Goto
<1>2. TypeInv'
  BY <1>1 DEF TypeInv, Resting, Notifying
<1>3. MarkInv'
  BY <1>1 DEF MarkInv, TypeInv
<1>4. phase # "idle" /\ held[t] = {}
  BY <1>1 DEF WorkInv, AllIdle, Resting
<1>5. WorkInv'
  <2>1. \A u \in Tasks : /\ pc'[u] = "idle" <=> pc[u] = "idle"
                         /\ pc'[u] \in Resting => pc[u] \in Resting
                         /\ pc'[u] = "rebuild" => pc[u] = "rebuild"
    BY <1>1 DEF TypeInv, Resting
  <2> QED
    BY <1>1, <1>4, <2>1 DEF WorkInv
<1>6. NoWriteForgotten'
  <2>1. \A j : ToBeRecorded(j) => ToBeRecorded(j)'
    BY <1>1 DEF ToBeRecorded, TypeInv
  <2>2. \A j \in Tasks : j # t /\ StillMerges(j) => StillMerges(j)'
    BY <1>1 DEF StillMerges, TypeInv
  <2> QED
    BY <1>1, <1>4, <2>1, <2>2 DEF NoWriteForgotten, TypeInv, Tables
<1> QED
  BY <1>2, <1>3, <1>5, <1>6

\* A table without rows goes back.
LEMMA KeepsMergedNothing ==
  ASSUME MergeInv, NEW t \in Tasks, MergedNothing(t)
  PROVE  MergeInv'
<1> USE DEF MergeInv
<1>1. /\ pc[t] = "empty" /\ pc' = [pc EXCEPT ![t] = "idle"]
      /\ present' = IF phase = "simple" THEN present \cup {t} ELSE present
      /\ UNCHANGED <<head, slots, writer, notified, item>>
      /\ UNCHANGED <<phase, todo, stratum, pending, held, buffers, writes>>
  BY DEF MergedNothing, Goto
<1>2. TypeInv'
  BY <1>1 DEF TypeInv, Resting, Notifying
<1>3. MarkInv'
  BY <1>1 DEF MarkInv, TypeInv
<1>4. phase # "idle" /\ held[t] = {}
  BY <1>1 DEF WorkInv, AllIdle, Resting
<1>5. WorkInv'
  <2>1. \A u \in Tasks : u # t => pc'[u] = pc[u]
    BY <1>1 DEF TypeInv
  <2>2. pc'[t] = "idle"
    BY <1>1 DEF TypeInv
  <2>3. phase = "simple" => \A u \in Tasks : pc'[u] = "idle" => u \in present'
    BY <1>1, <2>1 DEF WorkInv
  <2> QED
    BY <1>1, <1>4, <2>1, <2>2, <2>3 DEF WorkInv
<1>6. NoWriteForgotten'
  <2>1. \A j : ToBeRecorded(j) => ToBeRecorded(j)'
    BY <1>1 DEF ToBeRecorded, TypeInv
  <2>2. \A j \in Tasks : StillMerges(j) => StillMerges(j)'
    BY <1>1 DEF StillMerges, TypeInv
  <2> QED
    BY <1>1, <1>4, <2>1, <2>2 DEF NoWriteForgotten, TypeInv, Tables
<1> QED
  BY <1>2, <1>3, <1>5, <1>6

-----------------------------------------------------------------------------
(* Steps of the database, with no task at work *)

\* While every task is idle no buffer has rows, and the recorded tables are the
\* marked ones.
LEMMA IdleFacts ==
  ASSUME MergeInv, AllIdle
  PROVE  /\ \A t \in Tasks : pc[t] = "idle" /\ held[t] = {}
         /\ \A i : ToBeRecorded(i) <=> i \in Range(notified)
         /\ \A i \in DOMAIN slots : slots[i] => i \in Range(notified)
         /\ \A i \in pending : \/ i \in Range(notified)
                               \/ phase = "simple" /\ i \in Range(todo)
                               \/ phase = "strata" /\ i \in Range(todo) /\ stratum <= Level[i]
<1>1. \A t \in Tasks : pc[t] = "idle" /\ held[t] = {}
  BY DEF AllIdle, MergeInv, WorkInv, Resting
<1>2. \A i : ToBeRecorded(i) <=> i \in Range(notified)
  BY <1>1 DEF ToBeRecorded
<1>3. \A i \in DOMAIN slots : slots[i] => i \in Range(notified)
  BY <1>1 DEF MergeInv, MarkInv
<1>4. \A i \in pending : i \in Tasks /\ pc[i] # "merge"
  BY <1>1 DEF MergeInv, TypeInv, Tables
<1> QED
  BY <1>1, <1>2, <1>3, <1>4 DEF MergeInv, NoWriteForgotten, StillMerges

\* Rules or rebuilds start from a database where nothing waits.
LEMMA KeepsStart ==
  ASSUME MergeInv, RunRules \/ RunOnTables
  PROVE  MergeInv'
<1> USE DEF MergeInv
<1>1. /\ phase = "idle" /\ AllIdle /\ UNCHANGED <<head, slots, writer, notified, item>>
      /\ UNCHANGED <<todo, stratum, pending, held, buffers>>
  BY DEF RunRules, RunOnTables, WorkInv
<1>2. PICK tasks \in SUBSET Tasks, step \in {"work", "rebuild"} :
         /\ pc' = [t \in Tasks |-> IF t \in tasks THEN step ELSE pc[t]]
         /\ phase' = IF step = "work" THEN "rules" ELSE "rebuild"
  <2>1. CASE RunRules
    <3>1. /\ pc' = [t \in Tasks |-> IF t \in RuleTasks THEN "work" ELSE pc[t]]
          /\ phase' = IF "work" = "work" THEN "rules" ELSE "rebuild"
      BY <2>1 DEF RunRules, Start
    <3>2. RuleTasks \in SUBSET Tasks
      BY DepsAssumption
    <3> QED
      BY <3>1, <3>2, Zenon
  <2>2. CASE RunOnTables
    <3>1. PICK tables \in SUBSET Tasks : pc' = [t \in Tasks |-> IF t \in tables THEN "rebuild" ELSE pc[t]]
      BY <2>2, Zenon DEF RunOnTables, Start, Tables
    <3>2. phase' = IF "rebuild" = "work" THEN "rules" ELSE "rebuild"
      BY <2>2 DEF RunOnTables
    <3> QED
      BY <3>1, <3>2, Zenon
  <2> QED
    BY <2>1, <2>2
<1>3. \A t \in Tasks : pc'[t] \in {"idle", step} /\ pc[t] = "idle" /\ held[t] = {}
  BY <1>1, <1>2, IdleFacts
<1>4. TypeInv'
  <2>1. pc' \in [Tasks -> Notifying \cup Resting \cup {"work"}]
    BY <1>2, <1>3 DEF TypeInv, Resting
  <2> QED
    BY <1>1, <1>3, <2>1 DEF TypeInv, Notifying
<1>5. MarkInv'
  BY <1>1, <1>3 DEF MarkInv
<1>6. WorkInv'
  BY <1>1, <1>2, <1>3 DEF WorkInv
<1>7. NoWriteForgotten'
  BY <1>1, <1>2, <1>3 DEF NoWriteForgotten
<1> QED
  BY <1>4, <1>5, <1>6, <1>7

\* Taking the record clears the marks of what is in it, hence all marks.
LEMMA ResetFacts ==
  ASSUME MergeInv, AllIdle, Reset
  PROVE  /\ DOMAIN slots' = DOMAIN slots /\ \A i \in DOMAIN slots : slots'[i] = FALSE
         /\ notified' = <<>> /\ Range(notified') = {} /\ UNCHANGED <<head, writer, item>>
<1>1. \A i \in DOMAIN slots : slots[i] \in BOOLEAN /\ (slots[i] => i \in Range(notified))
  BY IdleFacts DEF MergeInv, TypeInv
<1>2. notified' = <<>> /\ UNCHANGED <<head, writer, item>>
  BY DEF Reset
<1>3. Range(<<>>) = {}
  BY DEF Range
<1> QED
  BY <1>1, <1>2, <1>3 DEF Reset

\* A round of merge_all, or of merge_simple, takes over all that is recorded.
LEMMA KeepsRound ==
  ASSUME MergeInv, Round \/ MergeNotified
  PROVE  MergeInv'
<1> USE DEF MergeInv
<1>1. /\ AllIdle /\ todo' = notified /\ Reset /\ UNCHANGED <<pc, pending, held, buffers, writes>>
      /\ phase' \in {"simple", "strata"} /\ stratum' \in Nat
      /\ phase' = "strata" => stratum' = 0
  <2>1. CASE Round
    BY <2>1 DEF Round
  <2>2. CASE MergeNotified
    BY <2>2 DEF MergeNotified, TypeInv
  <2> QED
    BY <2>1, <2>2
<1>2. \A t \in Tables : t \in present'
  <2>1. CASE Round
    BY <2>1 DEF Round
  <2>2. CASE MergeNotified
    BY <2>2 DEF MergeNotified, WorkInv, AllIdle, Tables
  <2> QED
    BY <2>1, <2>2
<1>3. pending \subseteq Range(notified)
  <2>1. CASE Round
    <3>1. \A i \in Tables : phase = "strata" => ~(stratum <= Level[i])
      BY <2>1, LevelFacts DEF Round, TypeInv
    <3> QED
      BY <1>1, <2>1, <3>1, IdleFacts DEF Round, TypeInv
  <2>2. CASE MergeNotified
    BY <1>1, <2>2, IdleFacts, RangeTyped DEF MergeNotified, TypeInv
  <2> QED
    BY <2>1, <2>2
<1>4. /\ DOMAIN slots' = DOMAIN slots /\ \A i \in DOMAIN slots : slots'[i] = FALSE
      /\ notified' = <<>> /\ UNCHANGED <<head, writer, item>>
  BY <1>1, ResetFacts
<1>5. \A t \in Tasks : pc'[t] = "idle" /\ held'[t] = {}
  BY <1>1, IdleFacts
<1>6. TypeInv'
  <2>1. /\ \A i \in DOMAIN slots' : i \in Nat /\ slots'[i] \in BOOLEAN
        /\ \A i \in DOMAIN slots', j \in Nat : j <= i => j \in DOMAIN slots'
    <3>1. \A i \in DOMAIN slots : i \in Nat /\ \A j \in Nat : j <= i => j \in DOMAIN slots
      BY DEF TypeInv
    <3>2. \A i \in DOMAIN slots : slots'[i] \in BOOLEAN
      BY <1>4, Zenon
    <3> QED
      BY <1>4, <3>1, <3>2, Zenon
  <2>2. notified' \in Seq(Tables) /\ todo' \in Seq(Tables)
    BY <1>1, <1>4 DEF TypeInv
  <2> QED
    BY <1>1, <1>4, <2>1, <2>2 DEF TypeInv
<1>7. MarkInv'
  BY <1>1, <1>4, <1>5 DEF MarkInv
<1>8. WorkInv'
  BY <1>1, <1>2, <1>5 DEF WorkInv, AllIdle, Tables
<1>9. NoWriteForgotten'
  <2>1. \A i \in pending' : StillMerges(i)'
    BY <1>1, <1>3, LevelFacts DEF StillMerges, TypeInv
  <2> QED
    BY <1>1, <1>5, <2>1 DEF NoWriteForgotten
<1> QED
  BY <1>6, <1>7, <1>8, <1>9

\* merge_simple takes one table out, with a buffer for itself.
LEMMA KeepsMergeOne ==
  ASSUME MergeInv, MergeOne
  PROVE  MergeInv'
<1> USE DEF MergeInv
<1> DEFINE h == Head(todo)
<1>1. /\ phase = "simple" /\ AllIdle /\ todo # <<>> /\ todo' = Tail(todo) /\ present' = present \ {h}
      /\ buffers' = [buffers EXCEPT ![h] = {h}]
      /\ pc' = [t \in Tasks |-> IF t \in {h} THEN "merge" ELSE pc[t]]
      /\ UNCHANGED <<head, slots, writer, notified, item>>
      /\ UNCHANGED <<phase, stratum, pending, held, writes>>
  BY DEF MergeOne, Start
<1>2. h \in Tables /\ Tail(todo) \in Seq(Tables) /\ Range(todo) \subseteq {h} \cup Range(Tail(todo))
  BY <1>1, RangeTail DEF TypeInv
<1> HIDE DEF h
<1>3. \A t \in Tasks : pc'[t] = (IF t = h THEN "merge" ELSE "idle") /\ pc[t] = "idle" /\ held[t] = {}
  BY <1>1, IdleFacts
<1>4. TypeInv'
  <2>1. pc' \in [Tasks -> Notifying \cup Resting \cup {"work"}]
    BY <1>1, <1>3 DEF TypeInv, Resting
  <2> QED
    BY <1>1, <1>2, <1>3, <2>1 DEF TypeInv, Notifying
<1>5. MarkInv'
  BY <1>1, <1>3 DEF MarkInv
<1>6. WorkInv'
  BY <1>1, <1>2, <1>3 DEF WorkInv, TypeInv, Tables
<1>7. NoWriteForgotten'
  <2>1. \A i \in pending : i \in Range(notified) \/ i \in Range(todo)
    BY <1>1, IdleFacts
  <2>2. \A i \in pending' : ToBeRecorded(i)' \/ StillMerges(i)'
    BY <1>1, <1>2, <1>3, <2>1 DEF ToBeRecorded, StillMerges, Tables
  <2> QED
    BY <1>1, <1>3, <2>2 DEF NoWriteForgotten
<1> QED
  BY <1>4, <1>5, <1>6, <1>7

\* merge_all takes the tables of a stratum out, once they have their buffers.
LEMMA KeepsMergeStratum ==
  ASSUME MergeInv, MergeStratum
  PROVE  MergeInv'
<1> USE DEF MergeInv
<1> DEFINE tables == {t \in Range(todo) : Level[t] = stratum}
<1>1. /\ phase = "strata" /\ AllIdle /\ stratum' = stratum + 1
      /\ buffers' = [t \in Tasks |-> IF t \in tables THEN WriteDeps[t] ELSE {}]
      /\ present' = Tables \ tables
      /\ pc' = [t \in Tasks |-> IF t \in tables THEN "merge" ELSE pc[t]]
      /\ UNCHANGED <<head, slots, writer, notified, item, phase, todo, pending, held, writes>>
  BY DEF MergeStratum, Start
<1>2. \A t \in Tasks : t \in tables <=> t \in Range(todo) /\ Level[t] = stratum
  OBVIOUS
<1> HIDE DEF tables
<1>3. \A t \in Tasks : /\ pc'[t] = (IF t \in tables THEN "merge" ELSE "idle")
                       /\ pc[t] = "idle" /\ held[t] = {}
  BY <1>1, IdleFacts
<1>4. TypeInv'
  <2>1. pc' \in [Tasks -> Notifying \cup Resting \cup {"work"}]
    BY <1>1, <1>3 DEF TypeInv, Resting
  <2>2. buffers' \in [Tasks -> SUBSET Tables]
    BY <1>1, DepsAssumption DEF Tables
  <2> QED
    BY <1>1, <1>3, <2>1, <2>2 DEF TypeInv, Notifying
<1>5. MarkInv'
  BY <1>1, <1>3 DEF MarkInv
<1>6. WorkInv'
  BY <1>1, <1>2, <1>3 DEF WorkInv, TypeInv, Tables
<1>7. NoWriteForgotten'
  <2>1. \A i \in pending : i \in Range(notified) \/ (i \in Range(todo) /\ stratum <= Level[i])
    BY <1>1, IdleFacts
  <2>2. \A i \in Tables : stratum <= Level[i] => Level[i] = stratum \/ stratum + 1 <= Level[i]
    BY LevelFacts DEF TypeInv
  <2>3. \A i \in pending' : ToBeRecorded(i)' \/ StillMerges(i)'
    BY <1>1, <1>2, <1>3, <2>1, <2>2 DEF ToBeRecorded, StillMerges, Tables, TypeInv
  <2> QED
    BY <1>1, <1>3, <2>3 DEF NoWriteForgotten
<1> QED
  BY <1>4, <1>5, <1>6, <1>7

\* merge_all returns when nothing is left, recorded or not.
LEMMA KeepsReturn ==
  ASSUME MergeInv, Return
  PROVE  MergeInv'
<1> USE DEF MergeInv
<1>1. /\ phase = "simple" /\ AllIdle /\ todo = <<>> /\ notified = <<>> /\ phase' = "idle"
      /\ UNCHANGED <<head, slots, writer, notified, pc, item>>
      /\ UNCHANGED <<todo, stratum, present, pending, held, buffers, writes>>
  BY DEF Return, list
<1>2. Range(notified) = {} /\ Range(todo) = {}
  BY <1>1, RangeTyped DEF TypeInv
<1>3. pending = {} /\ \A i \in DOMAIN slots : ~slots[i]
  BY <1>1, <1>2, IdleFacts
<1>4. TypeInv' /\ MarkInv'
  BY <1>1 DEF TypeInv, MarkInv
<1>5. WorkInv'
  BY <1>1 DEF WorkInv, AllIdle
<1>6. NoWriteForgotten'
  BY <1>1, <1>3, IdleFacts DEF NoWriteForgotten
<1> QED
  BY <1>4, <1>5, <1>6

-----------------------------------------------------------------------------
(* What follows *)

\* The invariant holds in every reachable state.
LEMMA MergeInvHolds == Spec => []MergeInv
<1>1. Init => MergeInv
  <2> SUFFICES ASSUME Init PROVE MergeInv
    OBVIOUS
  <2>1. DOMAIN slots = {} /\ notified \in Seq(Tables) /\ todo \in Seq(Tables)
    BY DEF Init, ListInit
  <2>2. \A t \in Tasks : pc[t] = "idle" /\ held[t] = {}
    BY DEF Init, ListInit
  <2>3. TypeInv
    BY <2>1, <2>2 DEF Init, ListInit, TypeInv, Resting, Notifying
  <2>4. MarkInv
    BY <2>1, <2>2, DepsAssumption DEF Init, ListInit, MarkInv
  <2>5. WorkInv
    BY <2>2 DEF Init, WorkInv, AllIdle
  <2>6. NoWriteForgotten
    BY <2>1, <2>2 DEF Init, NoWriteForgotten
  <2> QED
    BY <2>3, <2>4, <2>5, <2>6 DEF MergeInv
<1>2. MergeInv /\ [Next]_vars => MergeInv'
  <2> SUFFICES ASSUME MergeInv, [Next]_vars PROVE MergeInv'
    OBVIOUS
  <2>1. CASE UNCHANGED vars
    BY <2>1 DEF vars, list, MergeInv, TypeInv, MarkInv, WorkInv, NoWriteForgotten, AllIdle,
       ToBeRecorded, StillMerges
  <2>2. CASE Next
    BY <2>1, <2>2, KeepsStart, KeepsRound, KeepsMergeOne, KeepsReturn, KeepsMergeStratum, KeepsStage,
       KeepsFinish, KeepsRebuildUnchanged, KeepsRebuildChanged, KeepsTakePending,
       KeepsMergedNothing, KeepsNotifyStep DEF Next, Stopped
  <2> QED
    BY <2>1, <2>2
<1> QED
  BY <1>1, <1>2, PTL DEF Spec

\* Database::merge_all forgets no row, however staging, notifying and merging
\* interleave: its table is recorded, about to be, or merged later in this round.
THEOREM NothingIsForgotten == Spec => []NoWriteForgotten
<1>1. MergeInv => NoWriteForgotten
  BY DEF MergeInv
<1> QED
  BY <1>1, MergeInvHolds, PTL

\* While tables merge, in parallel or one by one, each finds the tables it reads in
\* the database and those it writes there or among its buffers.
THEOREM MergesFindTheirTables == Spec => []MergeFindsItsTables
<1>1. MergeInv => MergeFindsItsTables
  <2> SUFFICES ASSUME MergeInv PROVE MergeFindsItsTables
    OBVIOUS
  <2>1. \A t \in Tasks : pc[t] \in {"read", "check", "swap"} => item[t] < head
    BY DEF MergeInv, MarkInv
  <2>2. ASSUME NEW t \in Tasks, pc[t] # "idle", phase = "simple"
        PROVE  ReadDeps[t] \subseteq present /\ WriteDeps[t] \subseteq present \cup buffers[t]
    <3>1. \A d \in Tables : d # t => d \in present
      BY <2>2 DEF MergeInv, WorkInv, Tables
    <3>2. t \in buffers[t] /\ t \in Tables
      BY <2>2 DEF MergeInv, WorkInv, Tables
    <3>3. t \notin ReadDeps[t]
      <4>1. \A n \in Nat : ~(n < n)
        OBVIOUS
      <4> QED
        BY <3>2, <4>1, DepsFacts
    <3>4. ReadDeps[t] \subseteq Tables /\ WriteDeps[t] \subseteq Tables
      BY <3>2, DepsAssumption
    <3> QED
      BY <3>1, <3>2, <3>3, <3>4
  <2>3. ASSUME NEW t \in Tasks, pc[t] # "idle", phase = "strata"
        PROVE  ReadDeps[t] \subseteq present /\ WriteDeps[t] \subseteq present \cup buffers[t]
    <3>1. Level[t] + 1 = stratum /\ WriteDeps[t] \subseteq buffers[t] /\ t \in Tables
      BY <2>3 DEF MergeInv, WorkInv, Tables
    <3>2. \A d \in ReadDeps[t] : d \in Tables /\ Level[d] < Level[t] /\ Level[d] \in Nat /\ Level[t] \in Nat
      BY <3>1, LevelFacts, DepsFacts
    <3>3. \A d \in Tables : d \notin present => Level[d] + 1 = stratum
      BY <2>3 DEF MergeInv, WorkInv
    <3> QED
      BY <3>1, <3>2, <3>3
  <2> QED
    BY <2>1, <2>2, <2>3 DEF MergeFindsItsTables
<1> QED
  BY <1>1, MergeInvHolds, PTL
===============================================================================
