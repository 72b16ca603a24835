---------------------------- MODULE SchedulerProofs ----------------------------
(* Proofs about Scheduler, for every program, set of rulesets, match limit    *)
(* and ban length (also 0): no match that was found is lost before it is      *)
(* applied, and what an iteration that changed nothing reports is exact.      *)
EXTENDS Scheduler, FiniteSetTheorems, WellFoundedInduction, TLAPS

-----------------------------------------------------------------------------
(* Sets of numbers. *)

\* A set of naturals that is not empty has a least element.
LEMMA LeastNatural ==
    ASSUME NEW S \in SUBSET Nat, S # {}
    PROVE  \E m \in S : \A n \in S : m <= n
<1>1. \E x \in S : \A y \in S : ~(<<y, x>> \in OpToRel(<, Nat))
  BY NatLessThanWellFounded, WFMin, Zenon
<1>2. \A x, y \in S : <<y, x>> \in OpToRel(<, Nat) <=> y < x
  BY DEF OpToRel
<1>3. \A x, y \in S : y < x \/ x <= y
  OBVIOUS
<1> QED
  BY <1>1, <1>2, <1>3

\* Min gives the least element of a set of naturals.
LEMMA MinFacts ==
    ASSUME NEW S \in SUBSET Nat, S # {}
    PROVE  Min(S) \in S /\ \A x \in S : Min(S) <= x
BY LeastNatural DEF Min

\* A set that has 0 and with every number its successor has all of them.
LEMMA InductiveSet ==
    ASSUME NEW S, 0 \in S, \A n \in Nat : n \in S => n + 1 \in S
    PROVE  \A n \in Nat : n \in S
<1> DEFINE Out == {n \in Nat : n \notin S}
<1> SUFFICES ASSUME Out # {} PROVE FALSE
  OBVIOUS
<1>1. PICK m \in Out : \A n \in Out : m <= n
  BY LeastNatural
<1>2. m # 0 /\ m - 1 \in Nat /\ m - 1 \notin Out
  BY <1>1
<1> QED
  BY <1>1, <1>2

-----------------------------------------------------------------------------
(* What is left of the list of matches. *)

\* What treating the places from n on has made of the list.
From(f, list, chosen) ==
  f = [n \in 1..(Len(list) + 1) |->
         IF n > Len(list) THEN list
         ELSE IF n \in chosen THEN SwapRemove(f[n + 1], n) ELSE f[n + 1]]

\* s is the list when the places from n on have been treated: those before are as
\* they were, and behind them is, in some order, what was not chosen.
Treated(s, n, list, chosen) ==
  /\ s \in Seq(Range(list)) /\ Len(s) >= n - 1
  /\ \A k \in 1..(n - 1) : s[k] = list[k]
  /\ \A k \in n..Len(s) : \E m \in n..Len(list) : m \notin chosen /\ s[k] = list[m]
  /\ \A m \in n..Len(list) : m \notin chosen => \E k \in n..Len(s) : s[k] = list[m]

\* A place that was not chosen stays.
LEMMA TreatedKept ==
  ASSUME NEW list, list \in Seq(Range(list)), NEW chosen,
         NEW n \in 1..Len(list), NEW s, Treated(s, n + 1, list, chosen), n \notin chosen
  PROVE  Treated(s, n, list, chosen)
<1>1. /\ s \in Seq(Range(list)) /\ Len(s) >= n /\ Len(s) \in Nat /\ Len(list) \in Nat
      /\ \A k \in 1..n : s[k] = list[k]
  BY DEF Treated
<1>2. n \in n..Len(s) /\ n \in n..Len(list) /\ s[n] = list[n]
  BY <1>1
<1>3. ASSUME NEW k \in n..Len(s) PROVE \E m \in n..Len(list) : m \notin chosen /\ s[k] = list[m]
  <2>1. CASE k = n
    BY <1>2, <2>1
  <2>2. CASE k # n
    <3>1. k \in (n + 1)..Len(s)
      BY <1>1, <2>2
    <3>2. PICK m \in (n + 1)..Len(list) : m \notin chosen /\ s[k] = list[m]
      BY <3>1 DEF Treated
    <3>3. m \in n..Len(list)
      BY <1>1
    <3> QED
      BY <3>2, <3>3
  <2> QED
    BY <2>1, <2>2
<1>4. ASSUME NEW m \in n..Len(list), m \notin chosen PROVE \E k \in n..Len(s) : s[k] = list[m]
  <2>1. CASE m = n
    BY <1>2, <2>1
  <2>2. CASE m # n
    <3>1. m \in (n + 1)..Len(list)
      BY <1>1, <2>2
    <3>2. PICK k \in (n + 1)..Len(s) : s[k] = list[m]
      BY <1>4, <3>1 DEF Treated
    <3>3. k \in n..Len(s)
      BY <1>1
    <3> QED
      BY <3>2, <3>3
  <2> QED
    BY <2>1, <2>2
<1>5. Len(s) >= n - 1 /\ \A k \in 1..(n - 1) : s[k] = list[k]
  BY <1>1
<1> QED
  BY <1>1, <1>3, <1>4, <1>5 DEF Treated

\* A chosen place takes over what stood last.
LEMMA TreatedRemoved ==
  ASSUME NEW list, list \in Seq(Range(list)), NEW chosen,
         NEW n \in 1..Len(list), NEW s, Treated(s, n + 1, list, chosen), n \in chosen
  PROVE  Treated(SwapRemove(s, n), n, list, chosen)
<1> DEFINE t == SwapRemove(s, n)
           l == Len(s)
<1>1. /\ s \in Seq(Range(list)) /\ l \in Nat /\ l >= n /\ Len(list) \in Nat
      /\ \A k \in 1..n : s[k] = list[k]
  BY DEF Treated
<1>2. /\ t \in Seq(Range(list)) /\ Len(t) = l - 1
      /\ \A k \in 1..(l - 1) : t[k] = IF k = n THEN s[l] ELSE s[k]
  <2> DEFINE u == [s EXCEPT ![n] = Last(s)]
  <2>1. Last(s) = s[l] /\ s[l] \in Range(list)
    BY <1>1 DEF Last
  <2>2. u \in Seq(Range(list)) /\ Len(u) = l /\ \A k \in 1..l : u[k] = IF k = n THEN s[l] ELSE s[k]
    BY <1>1, <2>1
  <2>3. t = SubSeq(u, 1, l - 1)
    BY DEF SwapRemove
  <2> HIDE DEF u, t, l
  <2>4. l - 1 \in Nat
    BY <1>1
  <2> QED
    BY <1>1, <2>2, <2>3, <2>4
<1> HIDE DEF t
<1>3. Len(t) >= n - 1 /\ \A k \in 1..(n - 1) : t[k] = list[k]
  BY <1>1, <1>2
<1>4. ASSUME NEW k \in n..Len(t) PROVE \E m \in n..Len(list) : m \notin chosen /\ t[k] = list[m]
  <2>1. \E j \in (n + 1)..l : t[k] = s[j]
    <3>1. CASE k = n
      <4>1. l \in (n + 1)..l /\ t[k] = s[l]
        BY <1>1, <1>2, <3>1
      <4> QED
        BY <4>1
    <3>2. CASE k # n
      <4>1. k \in (n + 1)..l /\ t[k] = s[k]
        BY <1>1, <1>2, <3>2
      <4> QED
        BY <4>1
    <3> QED
      BY <3>1, <3>2
  <2>2. PICK m \in (n + 1)..Len(list) : m \notin chosen /\ t[k] = list[m]
    BY <2>1 DEF Treated
  <2>3. m \in n..Len(list)
    BY <1>1
  <2> QED
    BY <2>2, <2>3
<1>5. ASSUME NEW m \in n..Len(list), m \notin chosen PROVE \E k \in n..Len(t) : t[k] = list[m]
  <2>1. m \in (n + 1)..Len(list)
    <3>1. m # n
      BY <1>5
    <3> QED
      BY <1>1, <3>1
  <2>2. PICK j \in (n + 1)..l : s[j] = list[m]
    BY <1>5, <2>1 DEF Treated
  <2>3. CASE j = l
    <3>1. n \in n..Len(t) /\ t[n] = s[l]
      BY <1>1, <1>2, <2>3
    <3> QED
      BY <2>2, <2>3, <3>1
  <2>4. CASE j # l
    <3>1. j \in 1..(l - 1) /\ j # n /\ j >= n
      BY <1>1, <2>4
    <3>2. j \in n..Len(t) /\ t[j] = s[j]
      BY <1>1, <1>2, <3>1
    <3> QED
      BY <2>2, <3>2
  <2> QED
    BY <2>3, <2>4
<1> QED
  BY <1>2, <1>3, <1>4, <1>5 DEF Treated, t

\* The recursive definition is one: the places can be treated from the back on.
LEMMA FromExists ==
  ASSUME NEW list, list \in Seq(Range(list)), NEW chosen
  PROVE  \E f : From(f, list, chosen)
<1> DEFINE L == Len(list)
           Step(g, n) == IF n > L THEN list
                         ELSE IF n \in chosen THEN SwapRemove(g[n + 1], n) ELSE g[n + 1]
           Back(d) == {n \in 1..(L + 1) : n + d > L}
           Part(g, d) == g = [n \in Back(d) |-> Step(g, n)]
           Good == {d \in Nat : \E g : Part(g, d)}
<1>1. L \in Nat
  OBVIOUS
<1> HIDE DEF L
<1>2. 0 \in Good
  <2> DEFINE g == [n \in Back(0) |-> list]
  <2>1. \A n \in Back(0) : n > L
    BY <1>1
  <2>2. g = [n \in Back(0) |-> Step(g, n)]
    BY <2>1
  <2> HIDE DEF g
  <2> QED
    BY <2>2
<1>3. ASSUME NEW d \in Nat, d \in Good PROVE d + 1 \in Good
  <2>1. PICK g : Part(g, d)
    BY <1>3
  <2> DEFINE h == [n \in Back(d + 1) |-> Step(g, n)]
  <2>2. \A n \in Back(d + 1) : ~(n > L) => n + 1 \in Back(d) /\ n + 1 \in Back(d + 1)
    BY <1>1
  <2>3. \A n \in Back(d) : n \in Back(d + 1)
    BY <1>1
  <2>4. \A n \in Back(d) : g[n] = Step(g, n)
    BY <2>1, Zenon
  <2>5. \A n \in Back(d) : h[n] = g[n]
    <3>1. \A n \in Back(d + 1) : h[n] = Step(g, n)
      BY Zenon
    <3> HIDE DEF h, Step, Back
    <3> QED
      BY <2>3, <2>4, <3>1
  <2>6. \A n \in Back(d + 1) : Step(g, n) = Step(h, n)
    <3>1. \A n \in Back(d + 1) : ~(n > L) => g[n + 1] = h[n + 1]
      <4> HIDE DEF h, Back
      <4> QED
        BY <2>2, <2>5
    <3> HIDE DEF h, Back
    <3> QED
      BY <3>1, Zenon
  <2>7. Part(h, d + 1)
    <3>1. h = [n \in Back(d + 1) |-> Step(g, n)]
      OBVIOUS
    <3> HIDE DEF h, Back, Step
    <3> QED
      BY <2>6, <3>1, Zenon
  <2> HIDE DEF h, Part
  <2> QED
    BY <2>7
<1>4. L \in Good
  <2> HIDE DEF Good
  <2>1. \A d \in Nat : d \in Good
    BY <1>2, <1>3, InductiveSet
  <2> QED
    BY <1>1, <2>1
<1>5. Back(L) = 1..(L + 1)
  BY <1>1
<1>6. PICK g : g = [n \in 1..(L + 1) |-> Step(g, n)]
  BY <1>4, <1>5
<1> QED
  BY <1>6 DEF From, L

\* What is left is what was not chosen.
LEMMA ResidualFacts ==
  ASSUME NEW list, list \in Seq(Range(list)), NEW chosen
  PROVE  Treated(Residual(list, chosen), 1, list, chosen)
<1> DEFINE f == CHOOSE f : From(f, list, chosen)
           L == Len(list)
           Good == {d \in Nat : d <= L => Treated(f[L + 1 - d], L + 1 - d, list, chosen)}
<1>1. Residual(list, chosen) = f[1]
  BY DEF Residual, From
<1>2. From(f, list, chosen)
  BY FromExists
<1> HIDE DEF f
<1>3. /\ L \in Nat
      /\ \A n \in 1..(L + 1) : f[n] = IF n > L THEN list
                                      ELSE IF n \in chosen THEN SwapRemove(f[n + 1], n) ELSE f[n + 1]
  BY <1>2 DEF From
<1>4. Treated(list, L + 1, list, chosen)
  <2>1. \A k \in (L + 1)..L : FALSE
    BY <1>3
  <2> QED
    BY <1>3, <2>1 DEF Treated
<1> HIDE DEF L
<1>5. 0 \in Good
  <2>1. f[L + 1] = list /\ L + 1 - 0 = L + 1
    BY <1>3
  <2> QED
    BY <1>4, <2>1
<1>6. ASSUME NEW d \in Nat, d \in Good PROVE d + 1 \in Good
  <2> SUFFICES ASSUME d + 1 <= L PROVE Treated(f[L + 1 - (d + 1)], L + 1 - (d + 1), list, chosen)
    OBVIOUS
  <2> DEFINE n == L - d
  <2>1. n \in 1..L /\ n + 1 = L + 1 - d /\ n = L + 1 - (d + 1) /\ ~(n > L) /\ n \in 1..(L + 1) /\ d <= L
    BY <1>3
  <2> HIDE DEF n
  <2>2. Treated(f[n + 1], n + 1, list, chosen)
    BY <1>6, <2>1
  <2>3. CASE n \in chosen
    <3>1. f[n] = SwapRemove(f[n + 1], n)
      BY <1>3, <2>1, <2>3
    <3>2. Treated(f[n], n, list, chosen)
      BY <2>1, <2>2, <2>3, <3>1, TreatedRemoved DEF L
    <3> QED
      BY <2>1, <3>2
  <2>4. CASE n \notin chosen
    <3>1. f[n] = f[n + 1]
      BY <1>3, <2>1, <2>4
    <3>2. Treated(f[n], n, list, chosen)
      BY <2>1, <2>2, <2>4, <3>1, TreatedKept DEF L
    <3> QED
      BY <2>1, <3>2
  <2> QED
    BY <2>3, <2>4
<1>7. L \in Good
  <2> HIDE DEF Good
  <2>1. \A d \in Nat : d \in Good
    BY <1>5, <1>6, InductiveSet
  <2> QED
    BY <1>3, <2>1
<1>8. L <= L /\ L + 1 - L = 1
  BY <1>3
<1> QED
  BY <1>1, <1>7, <1>8

\* The tuples that are left and those that were chosen are all there were.
LEMMA ResidualRange ==
  ASSUME NEW list, NEW S, list \in Seq(S), NEW chosen, chosen \subseteq DOMAIN list
  PROVE  /\ Residual(list, chosen) \in Seq(S)
         /\ Range(Residual(list, chosen)) \subseteq Range(list)
         /\ Range(list) \subseteq Range(Residual(list, chosen)) \cup {list[n] : n \in chosen}
         /\ chosen = DOMAIN list => Residual(list, chosen) = <<>>
<1> DEFINE R == Residual(list, chosen)
<1>1. list \in Seq(Range(list)) /\ Range(list) \subseteq S /\ DOMAIN list = 1..Len(list) /\ Len(list) \in Nat
  BY DEF Range
<1>2. Treated(R, 1, list, chosen)
  BY <1>1, ResidualFacts
<1> HIDE DEF R
<1>3. /\ R \in Seq(Range(list)) /\ DOMAIN R = 1..Len(R) /\ Len(R) \in Nat
      /\ \A k \in 1..Len(R) : \E m \in 1..Len(list) : m \notin chosen /\ R[k] = list[m]
      /\ \A m \in 1..Len(list) : m \notin chosen => \E k \in 1..Len(R) : R[k] = list[m]
  BY <1>2 DEF Treated
<1>4. R \in Seq(S)
  <2>1. \A k \in 1..Len(R) : R[k] \in S
    BY <1>1, <1>3
  <2> QED
    BY <1>3, <2>1
<1>5. Range(R) \subseteq Range(list)
  BY <1>1, <1>3 DEF Range
<1>6. Range(list) \subseteq Range(R) \cup {list[n] : n \in chosen}
  BY <1>1, <1>3 DEF Range
<1>7. chosen = DOMAIN list => R = <<>>
  BY <1>1, <1>3
<1> QED
  BY <1>4, <1>5, <1>6, <1>7 DEF R

-----------------------------------------------------------------------------
(* The inductive invariant. *)

Tuples   == {m[3] : m \in Match}
Info(fs) == [seek : BOOLEAN, seen : SUBSET fs, decided : SUBSET Tuples]
Report   == [rules : SUBSET Rules, sought : SUBSET Rules, quiet : BOOLEAN, stop : BOOLEAN]

TypeInv ==
  /\ scheduler \in BackOff \cup {Custom}
  /\ info \in [Rules -> Info(facts)]
  /\ held \in [Rules -> Seq(Tuples)]
  /\ stats \in [Rules -> [left : Nat, times : Nat]]
  /\ due \in [Rules -> SUBSET Tuples]
  /\ report \in Report
  /\ phase \in {"idle", "filter", "act", "lost"}
  /\ phase \in {"filter", "act"} => step \in Rulesets /\ turn \in Nat /\ turn <= Len(step) + 1
  /\ phase = "filter" => turn \in 1..Len(step)
  /\ phase = "act" => turn = Len(step) + 1

\* What has been found waits or was applied, and what waits was found.
WaitInv ==
  \A r \in Rules : /\ due[r] \subseteq Waiting(r)
                   /\ Waiting(r) \subseteq TuplesOf(r, info[r].seen)

\* Seminaive evaluation has left out nothing that a query ran over: every match was
\* found, and was applied unless it is due.
AppliedInv ==
  \A r \in Rules : \A t \in TuplesOf(r, info[r].seen) :
    t \in due[r] \/ Effect[<<r, t>>] \subseteq facts

\* The back-off scheduler bans a rule only when it has matches, and they stay.
BanInv == scheduler.kind = "back-off" => \A r \in Rules : stats[r].left > 0 => held[r] # <<>>

\* Only an iteration that is over has a report. Until then no fact comes in that the
\* queries have not seen, and a rule that was filtered is banned or keeps no match,
\* unless a ban may be over at once.
TurnInv ==
  /\ phase # "idle" => ~report.quiet
  /\ phase \in {"filter", "act"} => \A r \in report.sought : info[r].seen = facts
  /\ phase \in {"filter", "act"} /\ scheduler.kind = "back-off" /\ scheduler.ban # 0 =>
       \A n \in 1..Len(step) : n < turn /\ stats[step[n]].left = 0 => held[step[n]] = <<>>

SchedulerInv == TypeInv /\ WaitInv /\ AppliedInv /\ BanInv /\ TurnInv /\ StopReportExact

\* The tags of a scheduler are numbers.
LEMMA SchedulerTyped ==
  ASSUME scheduler \in BackOff \cup {Custom}
  PROVE  /\ scheduler.kind \in {"back-off", "custom"}
         /\ scheduler.limit \in Nat /\ scheduler.ban \in Nat
<1>1. \A c \in Configs : c.limit \in Nat /\ c.ban \in Nat
  BY SchedulerConstants
<1> QED
  BY <1>1 DEF BackOff, Custom

\* The rules of a ruleset are rules, each of them once.
LEMMA RulesetFacts ==
  ASSUME NEW rs \in Rulesets
  PROVE  /\ Len(rs) \in Nat /\ Len(rs) >= 1 /\ DOMAIN rs = 1..Len(rs)
         /\ Range(rs) \subseteq Rules
         /\ \A n \in 1..Len(rs) : rs[n] \in Rules
         /\ \A m, n \in 1..Len(rs) : rs[m] = rs[n] => m = n
         /\ \A r : r \in Range(rs) <=> \E n \in 1..Len(rs) : r = rs[n]
<1>1. rs \in Seq(Range(rs)) /\ rs # <<>> /\ IsInjective(rs)
  BY SchedulerConstants
<1>2. Len(rs) \in Nat /\ Len(rs) >= 1 /\ DOMAIN rs = 1..Len(rs)
  BY <1>1
<1>3. Range(rs) \subseteq Rules
  BY DEF Rules
<1>4. \A r : r \in Range(rs) <=> \E n \in 1..Len(rs) : r = rs[n]
  BY <1>2 DEF Range
<1>5. \A m, n \in 1..Len(rs) : rs[m] = rs[n] => m = n
  BY <1>1, <1>2 DEF IsInjective
<1> QED
  BY <1>2, <1>3, <1>4, <1>5

\* A finite set can be put into a sequence, all of it.
LEMMA SetToSeqTyped ==
  ASSUME NEW S, IsFiniteSet(S)
  PROVE  /\ SetToSeq(S) \in [1..Cardinality(S) -> S] /\ Cardinality(S) \in Nat
         /\ \A x \in S : \E n \in 1..Cardinality(S) : x = SetToSeq(S)[n]
<1> DEFINE N == Cardinality(S)
<1>1. N \in Nat /\ ExistsBijection(1..N, S)
  BY FS_CardinalityType
<1>2. PICK f \in Bijection(1..N, S) : TRUE
  BY <1>1 DEF ExistsBijection
<1>3. f \in [1..N -> S] /\ IsInjective(f)
  BY <1>2 DEF Bijection, Injection, IsInjective
<1> HIDE DEF N
<1>4. \E g \in [1..N -> S] : IsInjective(g)
  BY <1>3
<1>5. SetToSeq(S) \in [1..N -> S] /\ IsInjective(SetToSeq(S))
  BY <1>4, Zenon DEF SetToSeq, N
<1>6. SetToSeq(S) \in Surjection(1..Cardinality(S), S)
  <2>1. SetToSeq(S) \in Injection(1..Cardinality(S), S)
    BY <1>5 DEF Injection, N
  <2>2. Cardinality(1..Cardinality(S)) = Cardinality(S)
    BY <1>1, FS_Interval DEF N
  <2> QED
    BY <2>1, <2>2, FS_Injection
<1> QED
  BY <1>1, <1>5, <1>6 DEF N, Surjection

\* A query rule collects tuples of facts that are there, and all that are new.
LEMMA FoundFacts ==
  ASSUME TypeInv, NEW r \in Rules
  PROVE  /\ Found(r) \in Seq(Tuples)
         /\ Range(Found(r)) \subseteq TuplesOf(r, facts)
         /\ ~info[r].seek => Range(Found(r)) = {}
         /\ info[r].seek => TuplesOf(r, facts \ info[r].seen) \subseteq Range(Found(r))
<1> DEFINE new == IF info[r].seek THEN {m \in Match : m[1] = r /\ m[2] \in facts \ info[r].seen} ELSE {}
           s == SetToSeq(new)
<1>1. IsFiniteSet(new)
  <2>1. IsFiniteSet(Match) /\ new \subseteq Match
    BY SchedulerConstants
  <2> HIDE DEF new
  <2> QED
    BY <2>1, FS_Subset
<1>2. \A m \in new : m \in Match /\ m[1] = r /\ m[2] \in facts
  OBVIOUS
<1>3. /\ ~info[r].seek => new = {}
      /\ info[r].seek => new = {m \in Match : m[1] = r /\ m[2] \in facts \ info[r].seen}
  OBVIOUS
<1>4. Found(r) = [n \in 1..Cardinality(new) |-> s[n][3]]
  BY DEF Found
<1> HIDE DEF new, s
<1>5. /\ Cardinality(new) \in Nat /\ \A n \in 1..Cardinality(new) : s[n] \in new
      /\ \A m \in new : \E n \in 1..Cardinality(new) : m = s[n]
  BY <1>1, SetToSeqTyped DEF s
<1>6. \A n \in 1..Cardinality(new) : s[n][3] \in Tuples /\ s[n][3] \in TuplesOf(r, facts)
  BY <1>2, <1>5 DEF Tuples, TuplesOf
<1>7. Found(r) \in Seq(Tuples)
  BY <1>4, <1>5, <1>6
<1>8. \A x \in Range(Found(r)) : \E n \in 1..Cardinality(new) : x = s[n][3]
  BY <1>4 DEF Range
<1>9. ~info[r].seek => Range(Found(r)) = {}
  <2>1. \A n \in 1..Cardinality(new) : new # {}
    BY <1>5
  <2> QED
    BY <1>3, <1>8, <2>1
<1>10. ASSUME info[r].seek, NEW t \in TuplesOf(r, facts \ info[r].seen)
       PROVE  t \in Range(Found(r))
  <2>1. PICK m \in new : t = m[3]
    BY <1>3, <1>10 DEF TuplesOf
  <2>2. PICK n \in 1..Cardinality(new) : m = s[n]
    BY <1>5
  <2> QED
    BY <1>4, <2>1, <2>2 DEF Range
<1> QED
  BY <1>6, <1>7, <1>8, <1>9, <1>10

\* Tuples of fewer facts are tuples of more.
LEMMA TuplesGrow ==
  ASSUME NEW r, NEW fs, NEW gs, fs \subseteq gs
  PROVE  TuplesOf(r, fs) \subseteq TuplesOf(r, gs)
BY DEF TuplesOf

\* What two lists joined hold.
LEMMA RangeJoined ==
  ASSUME NEW S, NEW a \in Seq(S), NEW b \in Seq(S)
  PROVE  Range(a \o b) = Range(a) \cup Range(b)
<1>1. \A n \in 1..Len(a) : n \in 1..Len(a \o b) /\ (a \o b)[n] = a[n]
  OBVIOUS
<1>2. \A n \in 1..Len(b) : Len(a) + n \in 1..Len(a \o b) /\ (a \o b)[Len(a) + n] = b[n]
  OBVIOUS
<1>3. \A n \in 1..Len(a \o b) : \/ n \in 1..Len(a) /\ (a \o b)[n] = a[n]
                                \/ n - Len(a) \in 1..Len(b) /\ (a \o b)[n] = b[n - Len(a)]
  OBVIOUS
<1>4. DOMAIN (a \o b) = 1..Len(a \o b) /\ DOMAIN a = 1..Len(a) /\ DOMAIN b = 1..Len(b)
  OBVIOUS
<1> DEFINE c == a \o b
<1> HIDE DEF c
<1>5. \A x \in Range(a) : x \in Range(c)
  BY <1>1, <1>4, Zenon DEF Range, c
<1>6. \A x \in Range(b) : x \in Range(c)
  BY <1>2, <1>4, Zenon DEF Range, c
<1>7. \A x \in Range(c) : x \in Range(a) \/ x \in Range(b)
  BY <1>3, <1>4, Zenon DEF Range, c
<1> QED
  BY <1>5, <1>6, <1>7 DEF c

-----------------------------------------------------------------------------
(* Every action keeps the invariant. *)

\* At the start nothing is found, decided or waiting.
LEMMA InitScheduler == Init => SchedulerInv
<1> SUFFICES ASSUME Init PROVE SchedulerInv
  OBVIOUS
<1> USE DEF Init
<1>1. NewInfo \in Info(facts) /\ NewStats \in [left : Nat, times : Nat] /\ <<>> \in Seq(Tuples)
  BY DEF NewInfo, NewStats, Info
<1>2. TypeInv
  <2>1. info \in [Rules -> Info(facts)] /\ held \in [Rules -> Seq(Tuples)]
    BY <1>1
  <2>2. stats \in [Rules -> [left : Nat, times : Nat]] /\ due \in [Rules -> SUBSET Tuples]
    BY <1>1
  <2>3. report \in Report
    BY DEF NoReport, Report
  <2> QED
    BY <2>1, <2>2, <2>3 DEF TypeInv
<1>3. WaitInv
  BY DEF WaitInv, Waiting, NewInfo, TuplesOf, Range
<1>4. AppliedInv /\ BanInv
  <2>1. \A r \in Rules : TuplesOf(r, info[r].seen) = {} /\ ~(stats[r].left > 0)
    BY DEF NewInfo, NewStats, TuplesOf
  <2> QED
    BY <2>1 DEF AppliedInv, BanInv
<1>5. TurnInv /\ StopReportExact
  BY DEF TurnInv, StopReportExact, NoReport
<1> QED
  BY <1>2, <1>3, <1>4, <1>5 DEF SchedulerInv

\* The query rules: what they find goes to the list, and nothing else does.
LEMMA KeepsRunQueries ==
  ASSUME SchedulerInv, NEW rs \in Rulesets, RunQueries(rs)
  PROVE  SchedulerInv'
<1>1. /\ phase = "idle" /\ phase' = "filter" /\ step' = rs /\ turn' = 1
      /\ report' = [rules |-> {}, sought |-> {r \in Range(rs) : info[r].seek},
                    quiet |-> FALSE, stop |-> FALSE]
      /\ UNCHANGED <<scheduler, facts, stats>>
      /\ held' = [r \in Rules |-> IF r \in Range(rs) THEN held[r] \o Found(r) ELSE held[r]]
      /\ due' = [r \in Rules |-> IF r \in Range(rs) THEN due[r] \cup Range(Found(r)) ELSE due[r]]
      /\ info' = [r \in Rules |-> IF r \in Range(rs)
                                  THEN [info[r] EXCEPT !.seen = IF info[r].seek THEN facts ELSE @]
                                  ELSE info[r]]
  BY DEF RunQueries, NoReport
<1>2. /\ info \in [Rules -> Info(facts)] /\ held \in [Rules -> Seq(Tuples)]
      /\ due \in [Rules -> SUBSET Tuples]
  BY DEF SchedulerInv, TypeInv
<1>3. \A r \in Rules : /\ Found(r) \in Seq(Tuples)
                       /\ Range(Found(r)) \subseteq TuplesOf(r, facts)
                       /\ ~info[r].seek => Range(Found(r)) = {}
  BY FoundFacts DEF SchedulerInv
<1>4. ASSUME NEW r \in Rules
      PROVE  /\ info'[r] \in Info(facts) /\ info'[r].decided = info[r].decided
             /\ info[r].seen \subseteq info'[r].seen
             /\ r \in Range(rs) /\ info[r].seek => info'[r].seen = facts
             /\ ~(r \in Range(rs) /\ info[r].seek) => info'[r].seen = info[r].seen
  <2>1. info[r] \in Info(facts)
    BY <1>2
  <2>2. CASE r \in Range(rs)
    <3>1. info'[r] = [info[r] EXCEPT !.seen = IF info[r].seek THEN facts ELSE info[r].seen]
      BY <1>1, <2>2
    <3>2. CASE info[r].seek
      <4>1. info'[r] = [info[r] EXCEPT !.seen = facts]
        BY <3>1, <3>2
      <4> QED
        BY <2>1, <2>2, <3>2, <4>1 DEF Info
    <3>3. CASE ~info[r].seek
      <4>1. info'[r] = info[r]
        BY <2>1, <3>1, <3>3 DEF Info
      <4> QED
        BY <2>1, <3>3, <4>1
    <3> QED
      BY <3>2, <3>3
  <2>3. CASE r \notin Range(rs)
    <3>1. info'[r] = info[r]
      BY <1>1, <2>3
    <3> QED
      BY <2>1, <2>3, <3>1
  <2> QED
    BY <2>2, <2>3
<1>5. held' \in [Rules -> Seq(Tuples)] /\ due' \in [Rules -> SUBSET Tuples]
  <2>1. \A r \in Rules : held[r] \in Seq(Tuples) /\ held[r] \o Found(r) \in Seq(Tuples)
    BY <1>2, <1>3
  <2>2. \A r \in Rules : TuplesOf(r, facts) \subseteq Tuples
    BY DEF TuplesOf, Tuples
  <2> QED
    BY <1>1, <1>2, <1>3, <2>1, <2>2
<1>6. info' \in [Rules -> Info(facts)]
  <2>1. info' = [r \in Rules |-> info'[r]]
    BY <1>1
  <2> QED
    BY <1>4, <2>1
<1>7. TypeInv'
  <2>1. 1 \in 1..Len(rs) /\ 1 \in Nat /\ 1 <= Len(rs) + 1
    BY RulesetFacts
  <2>2. report' \in Report
    BY <1>1, RulesetFacts DEF Report
  <2> QED
    BY <1>1, <1>5, <1>6, <2>1, <2>2 DEF SchedulerInv, TypeInv
<1>8. WaitInv'
  <2> SUFFICES ASSUME NEW r \in Rules
               PROVE  /\ due'[r] \subseteq Range(held'[r]) \cup info'[r].decided
                      /\ Range(held'[r]) \cup info'[r].decided \subseteq TuplesOf(r, info'[r].seen)
    BY DEF WaitInv, Waiting
  <2>1. /\ due[r] \subseteq Range(held[r]) \cup info[r].decided
        /\ Range(held[r]) \cup info[r].decided \subseteq TuplesOf(r, info[r].seen)
    BY DEF SchedulerInv, WaitInv, Waiting
  <2>2. TuplesOf(r, info[r].seen) \subseteq TuplesOf(r, info'[r].seen)
    BY <1>4, TuplesGrow
  <2>3. CASE r \in Range(rs)
    <3>1. Range(held'[r]) = Range(held[r]) \cup Range(Found(r))
      BY <1>1, <1>2, <1>3, <2>3, RangeJoined
    <3>2. due'[r] = due[r] \cup Range(Found(r))
      BY <1>1, <2>3
    <3>3. Range(Found(r)) \subseteq TuplesOf(r, info'[r].seen)
      BY <1>3, <1>4, <2>3
    <3> QED
      BY <1>4, <2>1, <2>2, <3>1, <3>2, <3>3
  <2>4. CASE r \notin Range(rs)
    <3>1. held'[r] = held[r] /\ due'[r] = due[r]
      BY <1>1, <2>4
    <3> QED
      BY <1>4, <2>1, <2>2, <3>1
  <2> QED
    BY <2>3, <2>4
<1>9. AppliedInv'
  <2> SUFFICES ASSUME NEW r \in Rules, NEW t \in TuplesOf(r, info'[r].seen), t \notin due'[r]
               PROVE  Effect[<<r, t>>] \subseteq facts
    BY <1>1 DEF AppliedInv
  <2>1. due[r] \subseteq due'[r] /\ (r \in Range(rs) => Range(Found(r)) \subseteq due'[r])
    BY <1>1
  <2>2. t \in TuplesOf(r, info[r].seen)
    <3>1. CASE r \in Range(rs) /\ info[r].seek
      <4>1. t \notin TuplesOf(r, facts \ info[r].seen)
        BY <2>1, <3>1, FoundFacts DEF SchedulerInv
      <4>2. t \in TuplesOf(r, facts)
        BY <1>4, <3>1
      <4> QED
        BY <4>1, <4>2 DEF TuplesOf
    <3>2. CASE ~(r \in Range(rs) /\ info[r].seek)
      BY <1>4, <3>2
    <3> QED
      BY <3>1, <3>2
  <2> QED
    BY <2>1, <2>2 DEF SchedulerInv, AppliedInv
<1>10. BanInv'
  <2> SUFFICES ASSUME scheduler.kind = "back-off", NEW r \in Rules, stats[r].left > 0
               PROVE  held'[r] # <<>>
    BY <1>1 DEF BanInv
  <2>1. held[r] # <<>> /\ held[r] \in Seq(Tuples) /\ Found(r) \in Seq(Tuples)
    BY <1>2, <1>3 DEF SchedulerInv, BanInv
  <2>2. held[r] \o Found(r) # <<>>
    BY <2>1
  <2> QED
    BY <1>1, <2>1, <2>2
<1>11. TurnInv' /\ StopReportExact'
  <2>1. \A n \in 1..Len(rs) : ~(n < 1)
    BY RulesetFacts
  <2>2. \A r \in report'.sought : info'[r].seen = facts
    BY <1>1, <1>4, RulesetFacts
  <2> QED
    BY <1>1, <2>1, <2>2 DEF TurnInv, StopReportExact
<1> QED
  BY <1>7, <1>8, <1>9, <1>10, <1>11 DEF SchedulerInv

\* Whatever is chosen: it is decided, and the rest is kept. What is said of the rule's
\* statistics is up to the scheduler.
LEMMA KeepsDecide ==
  ASSUME SchedulerInv, phase = "filter",
         NEW chosen \in SUBSET DOMAIN held[step[turn]], NEW seek \in BOOLEAN,
         Decide(step[turn], chosen, seek),
         stats' \in [Rules -> [left : Nat, times : Nat]],
         \A r \in Rules : r # step[turn] => stats'[r] = stats[r],
         scheduler.kind = "back-off" /\ scheduler.ban # 0 /\ stats'[step[turn]].left = 0
           => chosen = DOMAIN held[step[turn]],
         scheduler.kind = "back-off" /\ stats'[step[turn]].left > 0
           => chosen = {} /\ held[step[turn]] # <<>>
  PROVE  SchedulerInv'
<1> DEFINE q == step[turn]
<1>1. /\ step \in Rulesets /\ turn \in 1..Len(step) /\ q \in Rules /\ Len(step) \in Nat
      /\ \A n \in 1..Len(step) : step[n] \in Rules /\ (step[n] = q => n = turn)
  BY RulesetFacts DEF SchedulerInv, TypeInv
<1>2. /\ UNCHANGED <<scheduler, facts, step, report, due>> /\ turn' = turn + 1
      /\ phase' = IF turn = Len(step) THEN "act" ELSE "filter"
      /\ info' = [info EXCEPT ![q].seek = seek, ![q].decided = @ \cup {held[q][n] : n \in chosen}]
      /\ held' = [held EXCEPT ![q] = Residual(held[q], chosen)]
  BY DEF Decide
<1>3. /\ info \in [Rules -> Info(facts)] /\ held \in [Rules -> Seq(Tuples)]
      /\ held[q] \in Seq(Tuples) /\ info[q] \in Info(facts)
  BY <1>1 DEF SchedulerInv, TypeInv
<1> HIDE DEF q
<1> DEFINE taken == {held[q][n] : n \in chosen}
<1>4. /\ Residual(held[q], chosen) \in Seq(Tuples)
      /\ Range(Residual(held[q], chosen)) \subseteq Range(held[q])
      /\ Range(held[q]) \subseteq Range(Residual(held[q], chosen)) \cup taken
      /\ chosen = DOMAIN held[q] => Residual(held[q], chosen) = <<>>
    BY <1>3, ResidualRange DEF q
<1>5. taken \subseteq Range(held[q]) /\ taken \subseteq Tuples
  BY <1>3 DEF Range, q
<1> HIDE DEF taken
<1>6. /\ info' \in [Rules -> Info(facts)]
      /\ info'[q].seen = info[q].seen /\ info'[q].decided = info[q].decided \cup taken
      /\ \A r \in Rules : r # q => info'[r] = info[r]
  <2>1. info' = [info EXCEPT ![q] = [info[q] EXCEPT !.seek = seek, !.decided = info[q].decided \cup taken]]
    BY <1>1, <1>2, <1>3 DEF taken
  <2> DEFINE new == [info[q] EXCEPT !.seek = seek, !.decided = info[q].decided \cup taken]
  <2>2. new \in Info(facts) /\ new.seen = info[q].seen /\ new.decided = info[q].decided \cup taken
    BY <1>3, <1>5 DEF Info
  <2> HIDE DEF new
  <2>3. info' = [info EXCEPT ![q] = new]
    BY <2>1 DEF new
  <2> QED
    BY <1>1, <1>3, <2>2, <2>3
<1>7. /\ held' \in [Rules -> Seq(Tuples)] /\ held'[q] = Residual(held[q], chosen)
      /\ \A r \in Rules : r # q => held'[r] = held[r]
  BY <1>1, <1>2, <1>3, <1>4
<1>8. TypeInv'
  <2>1. /\ turn' \in Nat /\ turn' <= Len(step') + 1
        /\ phase' = "filter" => turn' \in 1..Len(step')
        /\ phase' = "act" => turn' = Len(step') + 1
    BY <1>1, <1>2
  <2>2. phase' \in {"idle", "filter", "act", "lost"}
    BY <1>2
  <2> QED
    BY <1>1, <1>2, <1>6, <1>7, <2>1, <2>2 DEF SchedulerInv, TypeInv
<1>9. WaitInv'
  <2> SUFFICES ASSUME NEW r \in Rules
               PROVE  /\ due'[r] \subseteq Range(held'[r]) \cup info'[r].decided
                      /\ Range(held'[r]) \cup info'[r].decided \subseteq TuplesOf(r, info'[r].seen)
    BY DEF WaitInv, Waiting
  <2>1. /\ due[r] \subseteq Range(held[r]) \cup info[r].decided
        /\ Range(held[r]) \cup info[r].decided \subseteq TuplesOf(r, info[r].seen)
    BY DEF SchedulerInv, WaitInv, Waiting
  <2>2. CASE r = q
    BY <1>2, <1>4, <1>5, <1>6, <1>7, <2>1, <2>2
  <2>3. CASE r # q
    BY <1>2, <1>6, <1>7, <2>1, <2>3
  <2> QED
    BY <2>2, <2>3
<1>10. TurnInv'
  <2>1. ~report.quiet /\ \A r \in report.sought : info'[r].seen = facts
    <3>1. \A r \in report.sought : r \in Rules
      BY DEF SchedulerInv, TypeInv, Report
    <3> QED
      BY <1>6, <3>1 DEF SchedulerInv, TurnInv
  <2>2. ASSUME scheduler.kind = "back-off", scheduler.ban # 0, NEW n \in 1..Len(step), n < turn + 1, stats'[step[n]].left = 0
        PROVE  held'[step[n]] = <<>>
    <3>1. CASE n = turn
      BY <1>4, <1>7, <2>2, <3>1 DEF q
    <3>2. CASE n # turn
      <4>1. n < turn /\ step[n] \in Rules /\ step[n] # q
        BY <1>1, <2>2, <3>2
      <4>2. stats[step[n]].left = 0
        BY <2>2, <4>1 DEF q
      <4>3. held[step[n]] = <<>>
        BY <2>2, <4>1, <4>2 DEF SchedulerInv, TurnInv
      <4> QED
        BY <1>7, <4>1, <4>3
    <3> QED
      BY <3>1, <3>2
  <2> QED
    BY <1>2, <2>1, <2>2 DEF TurnInv
<1>11. AppliedInv'
  <2>1. \A r \in Rules : info'[r].seen = info[r].seen
    BY <1>6
  <2> QED
    BY <1>2, <2>1 DEF SchedulerInv, AppliedInv
<1>12. BanInv'
  <2> SUFFICES ASSUME scheduler.kind = "back-off", NEW r \in Rules, stats'[r].left > 0
               PROVE  held'[r] # <<>>
    BY <1>2 DEF BanInv
  <2>1. CASE r # q
    BY <1>7, <2>1 DEF SchedulerInv, BanInv, q
  <2>2. CASE r = q
    <3>1. chosen = {} /\ held[q] # <<>>
      BY <2>2 DEF q
    <3>2. taken = {}
      BY <3>1 DEF taken
    <3>3. held[q][1] \in Range(held[q])
      BY <1>3, <3>1 DEF Range
    <3>4. Range(held'[q]) # {}
      BY <1>4, <1>7, <3>2, <3>3
    <3> QED
      BY <2>2, <3>4 DEF Range
  <2> QED
    BY <2>1, <2>2
<1>13. StopReportExact'
  BY <1>2 DEF SchedulerInv, TurnInv, StopReportExact
<1> QED
  BY <1>8, <1>9, <1>10, <1>11, <1>12, <1>13 DEF SchedulerInv

\* A shift of a number that is not 0 is not 0: 2^n counts the sets of n elements.
LEMMA ShiftFacts ==
  ASSUME NEW n \in Nat, NEW b \in Nat
  PROVE  b * 2^n \in Nat /\ (b # 0 => b * 2^n # 0)
<1>1. IsFiniteSet(1..n) /\ Cardinality(1..n) = n
  BY FS_Interval
<1>2. IsFiniteSet(SUBSET (1..n)) /\ Cardinality(SUBSET (1..n)) = 2^n
  BY <1>1, FS_SUBSET
<1>3. 2^n \in Nat
  BY <1>2, FS_CardinalityType
<1>4. SUBSET (1..n) # {}
  OBVIOUS
<1>5. 2^n # 0
  BY <1>2, <1>4, FS_EmptySet
<1> DEFINE p == 2^n
<1>6. p \in Nat /\ p # 0
  BY <1>3, <1>5
<1> HIDE DEF p
<1>7. b * p \in Nat /\ (b # 0 => b * p # 0)
  BY <1>6
<1> QED
  BY <1>7 DEF p

\* A scheduler of the user's.
LEMMA KeepsFilterCustom ==
  ASSUME SchedulerInv, FilterCustom
  PROVE  SchedulerInv'
<1>1. PICK chosen \in SUBSET DOMAIN held[step[turn]], seek \in BOOLEAN :
         Decide(step[turn], chosen, seek)
  BY DEF FilterCustom
<1>2. phase = "filter" /\ scheduler.kind # "back-off" /\ stats' = stats
  BY DEF FilterCustom
<1> QED
  BY <1>1, <1>2, KeepsDecide DEF SchedulerInv, TypeInv

\* The back-off scheduler: only a rule with matches is banned, a ban that has a length
\* is not over at once, and a rule that is not banned has all its matches chosen.
LEMMA KeepsBackOff ==
  ASSUME SchedulerInv, NEW r \in Rules, SkipBanned(r) \/ Ban(r) \/ ChooseAll(r)
  PROVE  SchedulerInv'
<1>1. phase = "filter" /\ r = step[turn]
  BY DEF SkipBanned, Ban, ChooseAll, Allowed, Filtering
<1>2. stats \in [Rules -> [left : Nat, times : Nat]]
  BY DEF SchedulerInv, TypeInv
<1>3. stats[r] \in [left : Nat, times : Nat]
  BY <1>2
<1>4. stats[r].left \in Nat /\ stats[r].times \in Nat
  BY <1>3
<1>5. CASE SkipBanned(r)
  <2> DEFINE new == [stats[r] EXCEPT !.left = Left(r)]
  <2>1. Left(r) \in Nat /\ Left(r) # 0 /\ stats[r].left > 0
    BY <1>4, <1>5 DEF SkipBanned, Left
  <2>2. new \in [left : Nat, times : Nat] /\ new.left # 0
    BY <1>3, <2>1
  <2>3. stats' = [stats EXCEPT ![r] = new]
    BY <1>5 DEF SkipBanned
  <2> HIDE DEF new
  <2>4. /\ stats' \in [Rules -> [left : Nat, times : Nat]] /\ stats'[r].left # 0
        /\ \A q \in Rules : q # r => stats'[q] = stats[q]
    BY <1>2, <2>2, <2>3
  <2>5. PICK chosen : chosen = {}
    OBVIOUS
  <2>6. Decide(step[turn], chosen, FALSE)
    BY <1>1, <1>5, <2>5 DEF SkipBanned, Decide
  <2>7. held[r] # <<>>
    BY <1>5, <2>1 DEF SchedulerInv, BanInv, SkipBanned, Filtering
  <2> QED
    BY <1>1, <2>4, <2>5, <2>6, <2>7, KeepsDecide
<1>6. CASE Ban(r)
  <2> DEFINE length == scheduler.ban * 2^(stats[r].times)
             new == [left |-> length, times |-> stats[r].times + 1]
  <2>1. scheduler.ban \in Nat /\ scheduler.limit \in Nat
    BY SchedulerTyped DEF SchedulerInv, TypeInv
  <2>2. length \in Nat /\ (scheduler.ban # 0 => length # 0)
    BY <1>4, <2>1, ShiftFacts
  <2>3. stats' = [stats EXCEPT ![r] = new]
    BY <1>6 DEF Ban
  <2> HIDE DEF length
  <2>4. new \in [left : Nat, times : Nat] /\ (scheduler.ban # 0 => new.left # 0)
    BY <1>4, <2>2
  <2> HIDE DEF new
  <2>5. /\ stats' \in [Rules -> [left : Nat, times : Nat]]
        /\ scheduler.ban # 0 => stats'[r].left # 0
        /\ \A q \in Rules : q # r => stats'[q] = stats[q]
    BY <1>2, <2>3, <2>4
  <2>6. held[r] # <<>>
    <3>1. scheduler.limit * 2^(stats[r].times) \in Nat
      BY <1>4, <2>1, ShiftFacts
    <3> DEFINE limit == scheduler.limit * 2^(stats[r].times)
    <3>2. Len(held[r]) > limit
      BY <1>6 DEF Ban, TooMany
    <3>3. limit \in Nat
      BY <3>1
    <3> HIDE DEF limit
    <3>4. Len(<<>>) = 0
      OBVIOUS
    <3> QED
      BY <3>2, <3>3, <3>4
  <2>7. PICK chosen : chosen = {}
    OBVIOUS
  <2>8. Decide(step[turn], chosen, FALSE)
    BY <1>1, <1>6, <2>7 DEF Ban, Decide
  <2> QED
    BY <1>1, <2>5, <2>6, <2>7, <2>8, KeepsDecide
<1>7. CASE ChooseAll(r)
  <2>1. stats' = [stats EXCEPT ![r].left = 0]
    BY <1>7 DEF ChooseAll
  <2>2. /\ stats' \in [Rules -> [left : Nat, times : Nat]]
        /\ stats'[r].left = 0
        /\ \A q \in Rules : q # r => stats'[q] = stats[q]
    BY <1>2, <1>3, <2>1
  <2>3. PICK chosen : chosen = DOMAIN held[r]
    OBVIOUS
  <2>4. Decide(step[turn], chosen, TRUE)
    BY <1>1, <1>7, <2>3 DEF ChooseAll, Decide
  <2>5. ~(stats'[r].left > 0)
    BY <2>2
  <2> QED
    BY <1>1, <2>2, <2>3, <2>4, <2>5, KeepsDecide
<1> QED
  BY <1>5, <1>6, <1>7

\* Time advances to where the next ban ends, and not further, and no rule is banned.
LEMMA ForwardedTyped ==
  ASSUME stats \in [Rules -> [left : Nat, times : Nat]], NEW rs \in SUBSET Rules
  PROVE  /\ Forwarded(rs) \in [Rules -> [left : Nat, times : Nat]]
         /\ \A r \in Rules : Forwarded(rs)[r].left > 0 => stats[r].left > 0
<1> DEFINE L == {stats[b].left : b \in Banned(rs)}
           m == Min(L)
<1>1. \A b \in Rules : stats[b] \in [left : Nat, times : Nat]
  OBVIOUS
<1>2. \A b \in Rules : stats[b].left \in Nat
  BY <1>1
<1>3. L \in SUBSET Nat
  BY <1>2 DEF Banned
<1>4. \A b \in Banned(rs) : stats[b].left \in L
  OBVIOUS
<1>5. \A b \in Banned(rs) : m \in Nat /\ m <= stats[b].left
  <2> HIDE DEF L
  <2> QED
    BY <1>3, <1>4, MinFacts
<1>6. Forwarded(rs) = [r \in Rules |-> CASE r \notin rs -> stats[r]
                                         [] r \in Banned(rs) -> [stats[r] EXCEPT !.left = @ - m]
                                         [] OTHER -> NewStats]
  BY DEF Forwarded
<1> HIDE DEF m
<1>7. \A r \in Banned(rs) : [stats[r] EXCEPT !.left = @ - m] \in [left : Nat, times : Nat]
  <2>1. \A r \in Banned(rs) : r \in Rules /\ r \in rs
    BY DEF Banned
  <2>2. \A r \in Banned(rs) : stats[r].left - m \in Nat
    BY <1>2, <1>5, <2>1
  <2> QED
    BY <1>1, <2>1, <2>2
<1>8. NewStats \in [left : Nat, times : Nat]
  BY DEF NewStats
<1>9. \A r \in Rules : (CASE r \notin rs -> stats[r]
                          [] r \in Banned(rs) -> [stats[r] EXCEPT !.left = @ - m]
                          [] OTHER -> NewStats) \in [left : Nat, times : Nat]
  BY <1>1, <1>7, <1>8 DEF Banned
<1>10. ASSUME NEW r \in Rules, Forwarded(rs)[r].left > 0
       PROVE  stats[r].left > 0
  <2>1. CASE r \notin rs
    BY <1>6, <1>10, <2>1 DEF Banned
  <2>2. CASE r \in Banned(rs)
    BY <2>2 DEF Banned
  <2>3. CASE r \in rs /\ r \notin Banned(rs)
    <3>1. Forwarded(rs)[r] = NewStats
      BY <1>6, <2>3
    <3> QED
      BY <1>10, <3>1 DEF NewStats
  <2> QED
    BY <2>1, <2>2, <2>3
<1> QED
  BY <1>6, <1>9, <1>10

\* The action rules: what was decided is applied, so that what is not due has been, and
\* the rules that are not banned are those that hold no match.
LEMMA KeepsRunActions ==
  ASSUME SchedulerInv, RunActions
  PROVE  SchedulerInv'
<1>1. step \in Rulesets /\ turn = Len(step) + 1 /\ phase = "act"
  BY DEF RunActions, SchedulerInv, TypeInv
<1>2. PICK rs \in SUBSET Rules : rs = Range(step)
  BY <1>1, RulesetFacts
<1> DEFINE new == UNION {UNION {Effect[<<r, t>>] : t \in info[r].decided} : r \in rs}
           updated == ~(new \subseteq facts)
<1>3. /\ facts' = facts \cup new /\ phase' = "idle" /\ UNCHANGED <<scheduler, held, step, turn>>
      /\ info' = [r \in Rules |-> IF r \in rs THEN [info[r] EXCEPT !.decided = {}] ELSE info[r]]
      /\ due' = [r \in Rules |-> IF r \in rs THEN due[r] \ info[r].decided ELSE due[r]]
      /\ stats' = stats \/ stats' = Forwarded(rs)
  BY <1>2 DEF RunActions
<1>4. /\ info \in [Rules -> Info(facts)] /\ held \in [Rules -> Seq(Tuples)]
      /\ due \in [Rules -> SUBSET Tuples] /\ stats \in [Rules -> [left : Nat, times : Nat]]
  BY DEF SchedulerInv, TypeInv
<1> HIDE DEF new
<1>14. /\ report' \in Report /\ report'.rules = rs /\ report'.sought = report.sought
       /\ report'.quiet => facts' = facts
       /\ scheduler.kind = "back-off" /\ report'.quiet => (report'.stop <=> Banned(rs) = {})
  <2>1. PICK stop \in IF scheduler.kind = "custom" THEN BOOLEAN ELSE {Banned(rs) = {}} :
          report' = [report EXCEPT !.rules = rs, !.quiet = ~updated, !.stop = ~updated /\ stop]
    BY <1>2 DEF RunActions, new
  <2>2. stop \in BOOLEAN /\ (scheduler.kind = "back-off" => (stop <=> Banned(rs) = {}))
    OBVIOUS
  <2>3. updated \in BOOLEAN /\ (~updated => facts' = facts)
    BY <1>3
  <2> HIDE DEF updated
  <2>4. report \in Report
    BY DEF SchedulerInv, TypeInv
  <2>5. /\ report' \in Report /\ report'.rules = rs /\ report'.sought = report.sought
        /\ report'.quiet = ~updated /\ report'.stop = (~updated /\ stop)
    BY <2>1, <2>2, <2>3, <2>4 DEF Report
  <2> QED
    BY <2>2, <2>3, <2>5
<1>5. ASSUME NEW r \in Rules
      PROVE  /\ info'[r] \in Info(facts') /\ info'[r].seen = info[r].seen
             /\ info'[r].decided = IF r \in rs THEN {} ELSE info[r].decided
  <2>1. info[r] \in Info(facts) /\ facts \subseteq facts'
    BY <1>3, <1>4
  <2>2. CASE r \in rs
    <3>1. info'[r] = [info[r] EXCEPT !.decided = {}]
      BY <1>3, <2>2
    <3> QED
      BY <2>1, <2>2, <3>1 DEF Info
  <2>3. CASE r \notin rs
    <3>1. info'[r] = info[r]
      BY <1>3, <2>3
    <3> QED
      BY <2>1, <2>3, <3>1 DEF Info
  <2> QED
    BY <2>2, <2>3
<1>6. TypeInv'
  <2>1. info' = [r \in Rules |-> info'[r]]
    BY <1>3
  <2>2. info' \in [Rules -> Info(facts')]
    BY <1>5, <2>1
  <2>3. stats' \in [Rules -> [left : Nat, times : Nat]]
    BY <1>3, <1>4, ForwardedTyped
  <2>4. due' \in [Rules -> SUBSET Tuples]
    BY <1>3, <1>4
  <2> QED
    BY <1>3, <1>14, <2>2, <2>3, <2>4 DEF SchedulerInv, TypeInv
<1>7. WaitInv'
  <2> SUFFICES ASSUME NEW r \in Rules
               PROVE  /\ due'[r] \subseteq Range(held'[r]) \cup info'[r].decided
                      /\ Range(held'[r]) \cup info'[r].decided \subseteq TuplesOf(r, info'[r].seen)
    BY DEF WaitInv, Waiting
  <2>1. /\ due[r] \subseteq Range(held[r]) \cup info[r].decided
        /\ Range(held[r]) \cup info[r].decided \subseteq TuplesOf(r, info[r].seen)
    BY DEF SchedulerInv, WaitInv, Waiting
  <2>2. held'[r] = held[r] /\ due'[r] = IF r \in rs THEN due[r] \ info[r].decided ELSE due[r]
    BY <1>3
  <2> QED
    BY <1>5, <2>1, <2>2
<1>8. TurnInv'
  BY <1>3 DEF TurnInv
<1>9. AppliedInv'
  <2> SUFFICES ASSUME NEW r \in Rules, NEW t \in TuplesOf(r, info'[r].seen), t \notin due'[r]
               PROVE  Effect[<<r, t>>] \subseteq facts'
    BY DEF AppliedInv
  <2>1. t \in TuplesOf(r, info[r].seen)
    BY <1>5
  <2>2. CASE t \in due[r]
    <3>1. r \in rs /\ t \in info[r].decided
      BY <1>3, <2>2
    <3>2. Effect[<<r, t>>] \subseteq new
      BY <3>1 DEF new
    <3> QED
      BY <1>3, <3>2
  <2>3. CASE t \notin due[r]
    BY <1>3, <2>1, <2>3 DEF SchedulerInv, AppliedInv
  <2> QED
    BY <2>2, <2>3
<1>10. BanInv'
  BY <1>3, <1>4, ForwardedTyped DEF SchedulerInv, BanInv
<1>11. ASSUME report'.quiet, NEW r \in rs, held[r] = <<>>
       PROVE  /\ \A t \in TuplesOf(r, info'[r].seen) : Effect[<<r, t>>] \subseteq facts'
              /\ r \in report.sought => info'[r].seen = facts'
  <2>1. due[r] \subseteq info[r].decided
    <3>1. Range(held[r]) = {}
      BY <1>11 DEF Range
    <3> QED
      BY <3>1 DEF SchedulerInv, WaitInv, Waiting
  <2>2. due'[r] = {}
    BY <1>3, <2>1
  <2>3. \A t \in TuplesOf(r, info'[r].seen) : Effect[<<r, t>>] \subseteq facts'
    BY <1>9, <2>2 DEF AppliedInv
  <2>4. ASSUME r \in report.sought PROVE info'[r].seen = facts'
    <3>1. info[r].seen = facts
      BY <1>1, <2>4 DEF SchedulerInv, TurnInv
    <3>2. info'[r].seen = info[r].seen /\ facts' = facts
      BY <1>5, <1>11, <1>14
    <3> QED
      BY <3>1, <3>2
  <2> QED
    BY <2>3, <2>4
<1>12. ASSUME scheduler.kind = "back-off", scheduler.ban # 0
       PROVE  Banned(rs) = {} <=> \A r \in rs : held[r] = <<>>
  <2> SUFFICES ASSUME NEW r \in rs PROVE r \in Banned(rs) <=> held[r] # <<>>
    BY DEF Banned
  <2>1. stats[r].left \in Nat
    <3>1. stats[r] \in [left : Nat, times : Nat]
      BY <1>4
    <3> QED
      BY <3>1
  <2>2. CASE stats[r].left > 0
    BY <1>12, <2>2 DEF SchedulerInv, BanInv, Banned
  <2>3. CASE ~(stats[r].left > 0)
    <3>1. PICK n \in 1..Len(step) : r = step[n]
      BY <1>1, <1>2, RulesetFacts
    <3>2. n < turn /\ stats[step[n]].left = 0
      BY <1>1, <2>1, <2>3, <3>1, RulesetFacts
    <3>3. held[r] = <<>>
      BY <1>1, <1>12, <3>1, <3>2 DEF SchedulerInv, TurnInv
    <3> QED
      BY <2>3, <3>3 DEF Banned
  <2> QED
    BY <2>2, <2>3
<1>13. StopReportExact'
  <2> SUFFICES ASSUME report'.quiet PROVE StopReportExact'
    BY DEF StopReportExact
  <2>1. ASSUME NEW r \in report'.rules, held'[r] = <<>>
        PROVE  /\ \A t \in TuplesOf(r, info'[r].seen) : Effect[<<r, t>>] \subseteq facts'
               /\ r \in report'.sought => info'[r].seen = facts'
    <3>1. r \in rs /\ held[r] = <<>> /\ report'.sought = report.sought
      BY <1>3, <1>14, <2>1
    <3> QED
      BY <1>11, <3>1
  <2>2. ASSUME scheduler'.kind = "back-off", scheduler'.ban # 0
        PROVE  report'.stop <=> \A r \in report'.rules : held'[r] = <<>>
    <3>1. /\ scheduler.kind = "back-off" /\ scheduler.ban # 0
          /\ held' = held /\ report'.rules = rs
      BY <1>3, <1>14, <2>2
    <3>2. report'.stop <=> Banned(rs) = {}
      BY <1>14, <3>1
    <3> QED
      BY <1>12, <3>1, <3>2
  <2> QED
    BY <2>1, <2>2 DEF StopReportExact, Saturated, NoneHeld
<1> QED
  BY <1>6, <1>7, <1>8, <1>9, <1>10, <1>13 DEF SchedulerInv

\* A failure and what the program inserts between iterations.
LEMMA KeepsFail ==
  ASSUME SchedulerInv, Fail
  PROVE  SchedulerInv'
<1>1. /\ UNCHANGED <<scheduler, facts, info, stats, due, held, step, turn, report>>
      /\ phase' = "lost" /\ phase # "idle"
  BY DEF Fail, egraph, TooManyBans, Filtering
<1>2. TypeInv' /\ WaitInv' /\ AppliedInv' /\ BanInv'
  BY <1>1 DEF SchedulerInv, TypeInv, WaitInv, Waiting, AppliedInv, BanInv
<1>3. TurnInv' /\ StopReportExact'
  BY <1>1 DEF SchedulerInv, TurnInv, StopReportExact
<1> QED
  BY <1>2, <1>3 DEF SchedulerInv

\* Facts that come in between two iterations forget nothing.
LEMMA KeepsInsert ==
  ASSUME SchedulerInv, NEW f \in Facts, Insert(f)
  PROVE  SchedulerInv'
<1>1. /\ UNCHANGED <<scheduler, info, held, stats, phase, step, turn, due>> /\ phase = "idle"
      /\ facts \subseteq facts' /\ report' = NoReport
  BY DEF Insert
<1>2. info' \in [Rules -> Info(facts')]
  <2>1. \A x \in Info(facts) : x \in Info(facts')
    BY <1>1 DEF Info
  <2> QED
    BY <1>1, <2>1 DEF SchedulerInv, TypeInv
<1>3. TypeInv' /\ WaitInv'
  <2>1. report' \in Report
    BY <1>1 DEF NoReport, Report
  <2> QED
    BY <1>1, <1>2, <2>1 DEF SchedulerInv, TypeInv, WaitInv, Waiting
<1>4. AppliedInv' /\ BanInv'
  BY <1>1 DEF SchedulerInv, AppliedInv, BanInv
<1>5. TurnInv' /\ StopReportExact'
  BY <1>1 DEF TurnInv, StopReportExact, NoReport
<1> QED
  BY <1>3, <1>4, <1>5 DEF SchedulerInv

\* The invariant holds in every reachable state.
LEMMA SchedulerInvHolds == Spec => []SchedulerInv
<1>1. Init => SchedulerInv
  BY InitScheduler
<1>2. SchedulerInv /\ [Next]_vars => SchedulerInv'
  <2> SUFFICES ASSUME SchedulerInv, [Next]_vars PROVE SchedulerInv'
    OBVIOUS
  <2>1. ASSUME NEW rs \in Rulesets, RunQueries(rs) PROVE SchedulerInv'
    BY <2>1, KeepsRunQueries
  <2>2. CASE FilterCustom
    BY <2>2, KeepsFilterCustom
  <2>3. ASSUME NEW r \in Rules, SkipBanned(r) \/ Ban(r) \/ ChooseAll(r) PROVE SchedulerInv'
    BY <2>3, KeepsBackOff
  <2>4. CASE RunActions
    BY <2>4, KeepsRunActions
  <2>5. CASE Fail
    BY <2>5, KeepsFail
  <2>6. ASSUME NEW f \in Facts, Insert(f) PROVE SchedulerInv'
    BY <2>6, KeepsInsert
  <2>7. CASE UNCHANGED vars
    <3>1. UNCHANGED <<scheduler, facts, info, stats, due, held, phase, step, turn, report>>
      BY <2>7 DEF vars, egraph
    <3>2. TypeInv' /\ WaitInv' /\ AppliedInv' /\ BanInv' /\ TurnInv'
      BY <3>1 DEF SchedulerInv, TypeInv, WaitInv, Waiting, AppliedInv, BanInv, TurnInv
    <3>3. StopReportExact'
      BY <3>1 DEF SchedulerInv, StopReportExact, Saturated, NoneHeld
    <3> QED
      BY <3>2, <3>3 DEF SchedulerInv
  <2> QED
    BY <2>1, <2>2, <2>3, <2>4, <2>5, <2>6, <2>7 DEF Next, Filter
<1> QED
  BY <1>1, <1>2, PTL DEF Spec

\* However a scheduler chooses, in however many iterations: a match that was found and
\* not applied waits, and nothing waits that was not found (MatchesAccounted).
THEOREM MatchesAreAccounted == Spec => []MatchesAccounted
<1>1. SchedulerInv => MatchesAccounted
  BY DEF SchedulerInv, WaitInv, MatchesAccounted
<1> QED
  BY <1>1, SchedulerInvHolds, PTL

\* After an iteration that changed nothing, for every match limit and ban length: a rule
\* that holds no match back is saturated with respect to what its query ran over, and the
\* back-off scheduler's can_stop is heard just when no rule does, unless bans have no
\* length (StopReportExact).
THEOREM StopReportIsExact == Spec => []StopReportExact
<1>1. SchedulerInv => StopReportExact
  BY DEF SchedulerInv
<1> QED
  BY <1>1, SchedulerInvHolds, PTL
=============================================================================
