---------------------------- MODULE EGraphProofs ----------------------------
(***************************************************************************)
(* Proofs about EGraph, for every set of tables and rules and every bound.   *)
(***************************************************************************)
EXTENDS EGraph, FiniteSetTheorems, WellFoundedInduction, TLAPS

-----------------------------------------------------------------------------
(* Sets of numbers. *)

\* A set of naturals that is not empty has a least element.
LEMMA LeastNatural ==
    ASSUME NEW S \in SUBSET Nat, S # {}
    PROVE  \E m \in S : \A n \in S : m <= n
<1>1. \E x \in S : \A y \in S : ~(<<y, x>> \in OpToRel(<, Nat))
  BY NatLessThanWellFounded, WFMin, Zenon
<1>2. \A x, y \in S : <<y, x>> \in OpToRel(<, Nat) <=> y < x
  BY DEF OpToRel
<1>3. \A x, y \in S : y < x \/ x <= y
  OBVIOUS
<1> QED
  BY <1>1, <1>2, <1>3

(***************************************************************************)
(* Facts about the operators                                                *)
(***************************************************************************)

\* Mapping a key's ids keeps its arity.
LEMMA MapKeyType ==
    ASSUME NEW S, NEW T, NEW p \in [S -> T], NEW n \in Nat, NEW k \in [1 .. n -> S]
    PROVE  MapKey(p, k) \in [1 .. n -> T]
BY DEF MapKey

\* The row a match's action writes is well typed, whatever the rule.
LEMMA EffectType ==
    ASSUME NEW m, m.rule \in Rules, m.env \in [Vars -> Id]
    PROVE  IsFact(Effect(m))
<1> DEFINE h == m.rule.head
<1>1. h \in Term
  BY EGraphAssumption DEF RuleType
<1>2. h.fn \in Fns /\ h.args \in [1 .. Arity[h.fn] -> Vars] /\ h.out \in Vars
  BY <1>1 DEF Term
<1>3. Arity[h.fn] \in Nat
  BY <1>2, EGraphAssumption
<1> HIDE DEF h
<1>4. MapKey(m.env, h.args) \in [1 .. Arity[h.fn] -> Id]
  BY <1>2, <1>3, MapKeyType
<1>5. m.env[h.out] \in Id
  BY <1>2
<1> QED
  BY <1>2, <1>4, <1>5 DEF Effect, Fact, IsFact, h

\* The canonical form of a row is a row.
LEMMA CanonRowType ==
    ASSUME NEW r, IsRow(r), canon \in [Id -> Id], NEW t \in Nat
    PROVE  IsRow(CanonRow(r, t))
<1>1. Arity[r.fn] \in Nat
  BY EGraphAssumption DEF IsRow
<1>2. MapKey(canon, r.key) \in [1 .. Arity[r.fn] -> Id]
  BY <1>1, MapKeyType DEF IsRow
<1> QED
  BY <1>2 DEF IsRow, CanonRow, Row

-----------------------------------------------------------------------------
(* Type correctness *)

\* The actions that fire a match and only stage writes.
LEMMA FireType ==
    ASSUME TypeOK, NEW m \in todo, Fire(m)
    PROVE  TypeOK'
<1>1. IsFact(Effect(m))
  BY EffectType DEF TypeOK
<1>2. Effect(m).fn \in Fns /\ Effect(m).val \in Id
  BY <1>1 DEF IsFact
<1> USE DEF TypeOK, Take, StageUnion, store, staged, counters, marks, control, run, history
<1>3. CASE RewriteKnown(m)
  <2>1. PICK r \in rows : r.key = Effect(m).key /\ StageUnion(Effect(m).val, r.val)
    BY <1>3 DEF RewriteKnown
  <2>2. r.val \in Id
    BY DEF IsRow
  <2> QED
    BY <1>2, <1>3, <2>1, <2>2 DEF RewriteKnown
<1>4. CASE RewritePredicted(m)
  <2>1. PICK q \in predicted : StageUnion(Effect(m).val, q.val)
    BY <1>4 DEF RewritePredicted
  <2>2. q.val \in Id
    BY DEF IsFact
  <2> QED
    BY <1>2, <1>4, <2>1, <2>2 DEF RewritePredicted
<1>5. CASE RewriteFresh(m)
  <2> DEFINE h == Effect(m)
  <2>1. next \in Id /\ next' \in 0 .. MaxId
    BY <1>5, EGraphAssumption DEF RewriteFresh, Id
  <2>2. IsRow(Row(h.fn, h.key, next, ts)) /\ IsFact(Fact(h.fn, h.key, next))
    BY <1>1, <2>1 DEF IsRow, IsFact, Row, Fact
  <2> HIDE DEF h
  <2>3. /\ inserts' = inserts \cup {Row(h.fn, h.key, next, ts)}
        /\ predicted' = predicted \cup {Fact(h.fn, h.key, next)}
        /\ facts' = facts \cup {Fact(h.fn, h.key, next)}
        /\ unions' = unions \cup {<<h.val, next>>}
        /\ asserted' = asserted \cup {<<h.val, next>>}
        /\ todo' = todo \ {m}
        /\ UNCHANGED <<store, removes, ts, cmds, marks, control, stop, removed, aborted>>
    BY <1>5 DEF RewriteFresh, h
  <2>4. h.val \in Id
    BY <1>2 DEF h
  <2> QED
    BY <2>1, <2>2, <2>3, <2>4
<1>6. CASE FireSet(m)
  <2>1. IsRow(Row(Effect(m).fn, Effect(m).key, Effect(m).val, ts))
    BY <1>1 DEF IsRow, IsFact, Row
  <2> QED
    BY <1>1, <1>6, <2>1 DEF FireSet
<1>7. CASE FireDelete(m)
  BY <1>2, <1>7 DEF FireDelete
<1>8. CASE FirePanic(m)
  BY <1>8 DEF FirePanic
<1> QED
  BY <1>3, <1>4, <1>5, <1>6, <1>7, <1>8 DEF Fire

\* The commands.
LEMMA CommandType ==
    ASSUME TypeOK, Command
    PROVE  TypeOK'
<1> USE DEF TypeOK, Issue, StartFlush, store, staged, counters, marks, control, run, history
<1>0. cmds < MaxCmds => cmds + 1 \in 0 .. MaxCmds
  BY EGraphAssumption
<1>1. CASE FreshId
  BY <1>0, <1>1, EGraphAssumption DEF FreshId
<1>2. ASSUME NEW f \in Fns, NEW k \in [1 .. Arity[f] -> Id], AddTerm(f, k)
      PROVE  TypeOK'
  <2>1. next \in Id /\ next' \in 0 .. MaxId
    BY <1>2, EGraphAssumption DEF AddTerm, Id
  <2>2. IsRow(Row(f, k, next, ts)) /\ IsFact(Fact(f, k, next))
    BY <2>1 DEF IsRow, IsFact, Row, Fact
  <2>3. /\ inserts' = {Row(f, k, next, ts)}
        /\ facts' = facts \cup {Fact(f, k, next)}
        /\ cmds' = cmds + 1 /\ cmds < MaxCmds
        /\ pc' = "merge" /\ ret' = "flush" /\ changed' = FALSE
        /\ ufBefore' = Len(displaced)
        /\ UNCHANGED <<rows, canon, displaced, removes, unions, ts, lastRun, tracker, todo,
                       predicted, stop, asserted, removed, aborted>>
    BY <1>2 DEF AddTerm
  <2>4. Len(displaced) \in Nat
    OBVIOUS
  <2> QED
    BY <1>0, <2>1, <2>2, <2>3, <2>4
<1>3. ASSUME NEW d1 \in BulkRows, NEW d2 \in BulkRows, AddValues({d1, d2})
      PROVE  TypeOK'
  <2>1. \A d \in {d1, d2} : IsFact(d)
    <3>1. \A d \in BulkRows : IsFact(d)
      BY EGraphAssumption DEF IsFact
    <3> QED
      BY <3>1
  <2>2. \A d \in {d1, d2} : IsRow(Row(d.fn, d.key, d.val, ts))
    BY <2>1 DEF IsRow, IsFact, Row
  <2>3. /\ inserts' = {Row(d.fn, d.key, d.val, ts) : d \in {d1, d2}}
        /\ facts' = facts \cup {d1, d2}
        /\ cmds' = cmds + 1 /\ cmds < MaxCmds
        /\ pc' = "merge" /\ ret' = "flush" /\ changed' = FALSE
        /\ ufBefore' = Len(displaced)
        /\ UNCHANGED <<rows, canon, displaced, removes, unions, next, ts, lastRun, tracker,
                       todo, predicted, stop, asserted, removed, aborted>>
    BY <1>3 DEF AddValues
  <2>4. \A n \in inserts' : IsRow(n)
    BY <2>2, <2>3
  <2>5. Len(displaced) \in Nat
    OBVIOUS
  <2> QED
    BY <1>0, <2>1, <2>3, <2>4, <2>5
<1>4. ASSUME NEW x \in Id, NEW y \in Id, Union(x, y)
      PROVE  TypeOK'
  <2>1. /\ unions' = {<<x, y>>} /\ asserted' = asserted \cup {<<x, y>>}
        /\ cmds' = cmds + 1 /\ cmds < MaxCmds
        /\ pc' = "merge" /\ ret' = "flush" /\ changed' = FALSE
        /\ ufBefore' = Len(displaced)
        /\ UNCHANGED <<rows, canon, displaced, inserts, removes, next, ts, lastRun, tracker,
                       todo, predicted, stop, facts, removed, aborted>>
    BY <1>4 DEF Union
  <2>2. Len(displaced) \in Nat
    OBVIOUS
  <2>3. unions' \subseteq Id \X Id
    BY <2>1
  <2>4. asserted' \subseteq Id \X Id
    BY <2>1
  <2> QED
    BY <1>0, <2>1, <2>2, <2>3, <2>4
<1>5. ASSUME NEW f \in Fns, ClearTable(f)
      PROVE  TypeOK'
  BY <1>0, <1>5 DEF ClearTable
<1>6. ASSUME NEW R \in Rulesets, RunRules(R)
      PROVE  TypeOK'
  <2>1. R \subseteq Rules
    BY EGraphAssumption
  <2>2. \A m \in todo' : m.rule \in Rules /\ m.env \in [Vars -> Id]
    BY <1>6, <2>1 DEF RunRules, NewMatches, Matches
  <2>3. lastRun' \in [Rules -> Nat]
    BY <1>6 DEF RunRules, WindowEnd
  <2>4. Len(displaced) \in Nat
    OBVIOUS
  <2> QED
    BY <1>0, <1>6, <2>2, <2>3, <2>4 DEF RunRules
<1> QED
  BY <1>1, <1>2, <1>3, <1>4, <1>5, <1>6 DEF Command

\* Merging and returning.
LEMMA EngineType ==
    ASSUME TypeOK, EndFiring \/ Merge \/ Return
    PROVE  TypeOK'
<1> USE DEF TypeOK, store, staged, counters, marks, control, run, history
<1>1. CASE EndFiring
  BY <1>1 DEF EndFiring
<1>2. ASSUME NEW f \in Fns, MergeRemoves(f)
      PROVE  TypeOK'
  BY <1>2 DEF MergeRemoves
<1>3. ASSUME NEW n \in inserts, InsertNew(n)
      PROVE  TypeOK'
  BY <1>3 DEF InsertNew, Mergeable
<1>4. ASSUME NEW n \in inserts, InsertMerged(n)
      PROVE  TypeOK'
  <2>1. PICK r \in rows : /\ rows' = MergedRows(r, n)
                          /\ unions' = unions \cup UnionId(r.val, n.val)
                          /\ changed' = (changed \/ n.val < r.val)
    BY <1>4 DEF InsertMerged, Collisions
  <2>2. r.val \in Id /\ n.val \in Id /\ IsRow(n)
    BY DEF IsRow
  <2>3. \A q \in rows' : IsRow(q)
    BY <2>1, <2>2 DEF MergedRows
  <2>4. unions' \subseteq Id \X Id
    BY <2>1, <2>2 DEF UnionId
  <2> QED
    BY <1>4, <2>1, <2>3, <2>4 DEF InsertMerged, Mergeable
<1>5. ASSUME NEW u \in unions, MergeUnion(u)
      PROVE  TypeOK'
  <2> DEFINE x == canon[u[1]]
             y == canon[u[2]]
             parent == Smaller(x, y)
             child == IF parent = x THEN y ELSE x
  <2>1. x \in Id /\ y \in Id /\ parent \in Id /\ child \in Id
    BY DEF Smaller
  <2>2. x # y => /\ canon' = Linked(child, parent)
                 /\ displaced' = Append(displaced, child)
                 /\ changed' = TRUE
    BY <1>5 DEF MergeUnion
  <2>3. x = y => UNCHANGED <<canon, displaced, changed>>
    BY <1>5 DEF MergeUnion
  <2> HIDE DEF x, y, parent, child
  <2>4. canon' \in [Id -> Id]
    <3>1. Linked(child, parent) \in [Id -> Id]
      BY <2>1 DEF Linked
    <3> QED
      BY <2>2, <2>3, <3>1
  <2>5. displaced' \in Seq(Id) /\ changed' \in BOOLEAN
    <3>1. Append(displaced, child) \in Seq(Id)
      BY <2>1
    <3> QED
      BY <2>2, <2>3, <3>1
  <2>6. /\ unions' = unions \ {u}
        /\ UNCHANGED <<rows, inserts, removes, next, ts, cmds, lastRun, tracker, pc, ret,
                       ufBefore, todo, predicted, stop, asserted, facts, removed, aborted>>
    BY <1>5 DEF MergeUnion, Drained
  <2> QED
    BY <2>4, <2>5, <2>6
<1>6. CASE Return
  <2>1. CASE RunFails
    BY <2>1 DEF RunFails
  <2>2. CASE SkipRebuild
    BY <2>2 DEF SkipRebuild
  <2>3. CASE EnterRebuild
    BY <2>3 DEF EnterRebuild
  <2>4. CASE EndPass
    BY <2>4 DEF EndPass
  <2> QED
    BY <1>6, <2>1, <2>2, <2>3, <2>4 DEF Return
<1> QED
  BY <1>1, <1>2, <1>3, <1>4, <1>5, <1>6 DEF Merge

\* The rebuild of the tables, complete or incremental.
LEMMA RebuildType ==
    ASSUME TypeOK, NEW incr \in SUBSET Fns, RebuildTables(incr)
    PROVE  TypeOK'
<1> USE DEF TypeOK, store, staged, counters, marks, control, run, history
<1>1. PICK dirty \in SUBSET rows : /\ removes' = {<<r.fn, r.key>> : r \in dirty}
                                   /\ inserts' = {CanonRow(r, ts) : r \in dirty}
  BY DEF RebuildTables
<1>2. \A n \in inserts' : IsRow(n)
  BY <1>1, CanonRowType
<1>3. \A d \in removes' : d[1] \in Fns
  BY <1>1 DEF IsRow
<1>4. tracker' = Len(displaced) /\ Len(displaced) \in Nat
  BY DEF RebuildTables
<1>5. /\ pc' = "merge" /\ ret' = "rebuild" /\ changed' = FALSE
      /\ UNCHANGED <<rows, canon, displaced, unions, next, ts, cmds, lastRun, ufBefore, todo,
                     predicted, stop, asserted, facts, removed, aborted>>
  BY DEF RebuildTables
<1> QED
  BY <1>2, <1>3, <1>4, <1>5

\* The state is well typed in every reachable state of every instance.
THEOREM TypeCorrect == Spec => []TypeOK
<1>1. Init => TypeOK
  <2> SUFFICES ASSUME Init PROVE TypeOK
    OBVIOUS
  <2>1. 0 \in 0 .. MaxId /\ 0 \in 0 .. MaxCmds
    BY EGraphAssumption
  <2>2. canon \in [Id -> Id] /\ lastRun \in [Rules -> Nat] /\ displaced \in Seq(Id)
    BY DEF Init
  <2>3. unions \subseteq Id \X Id
    BY DEF Init
  <2>4. asserted \subseteq Id \X Id
    BY DEF Init
  <2>5. ts \in Nat \ {0} /\ tracker \in Nat /\ ufBefore \in Nat
    BY DEF Init
  <2>6. /\ \A r \in rows : IsRow(r)
        /\ \A n \in inserts : IsRow(n)
        /\ \A d \in removes : d[1] \in Fns
        /\ \A m \in todo : m.rule \in Rules /\ m.env \in [Vars -> Id]
        /\ \A d \in predicted : IsFact(d)
        /\ \A d \in facts : IsFact(d)
    BY DEF Init
  <2> QED
    BY <2>1, <2>2, <2>3, <2>4, <2>5, <2>6 DEF Init, TypeOK
<1>2. TypeOK /\ [Next]_vars => TypeOK'
  <2> SUFFICES ASSUME TypeOK, [Next]_vars PROVE TypeOK'
    OBVIOUS
  <2>1. CASE Next
    BY <2>1, FireType, CommandType, EngineType, RebuildType DEF Next, Engine
  <2>2. CASE UNCHANGED vars
    BY <2>2 DEF TypeOK, vars, store, staged, counters, marks, control, run, history
  <2> QED
    BY <2>1, <2>2
<1> QED
  BY <1>1, <1>2, PTL DEF Spec

-----------------------------------------------------------------------------
(* Seminaive completeness.  The strengthening: what is staged carries the      *)
(* current timestamp, no window ends in the future, and matches and staged     *)
(* rows exist only in the phases that handle them.                             *)

\* What SeminaiveComplete says, for rules that are not seminaive too.
MatchesDone ==
    \/ aborted \/ stop
    \/ \A r \in Rules : \A m \in Matches(r) :
          (lastRun[r] > 0 /\ \A i \in DOMAIN r.atoms : m.at[i].ts < lastRun[r])
             => m \in fired \cup todo

SeminaiveInv ==
    /\ pc # "fire" => todo = {}
    /\ pc \notin {"fire", "merge"} => inserts = {}
    /\ \A n \in inserts : n.ts = ts
    /\ \A r \in Rules : lastRun[r] <= ts
    /\ MatchesDone

\* A match of the new state whose rows were all there is a match of the old state.
LEMMA MatchWasThere ==
    ASSUME NEW r, NEW m \in Matches(r)',
           \A i \in DOMAIN r.atoms : m.at[i] \in rows
    PROVE  m \in Matches(r)
<1>1. m \in [rule : {r}, env : [Vars -> Id], at : [DOMAIN r.atoms -> rows']]
  BY DEF Matches
<1>2. m.at \in [DOMAIN r.atoms -> rows]
  BY <1>1
<1>3. m \in [rule : {r}, env : [Vars -> Id], at : [DOMAIN r.atoms -> rows]]
  BY <1>1, <1>2
<1> QED
  BY <1>3 DEF Matches

\* A step that adds only rows of the current timestamp, closes no window and
\* forgets no match keeps the property.
LEMMA SeminaiveKept ==
    ASSUME TypeOK, SeminaiveInv,
           lastRun' = lastRun,
           \A q \in rows' : q \in rows \/ q.ts = ts,
           fired \cup todo \subseteq fired' \cup todo',
           aborted => aborted',
           stop => stop' \/ aborted'
    PROVE  MatchesDone'
<1> SUFFICES ASSUME ~aborted', ~stop',
                    NEW r \in Rules, NEW m \in Matches(r)',
                    lastRun[r] > 0, \A i \in DOMAIN r.atoms : m.at[i].ts < lastRun[r]
             PROVE  m \in fired' \cup todo'
  BY DEF MatchesDone
<1>1. \A i \in DOMAIN r.atoms : m.at[i] \in rows
  <2> TAKE i \in DOMAIN r.atoms
  <2>1. m.at[i] \in rows'
    BY DEF Matches
  <2>2. m.at[i].ts < lastRun[r] /\ lastRun[r] <= ts /\ lastRun[r] \in Nat /\ ts \in Nat
    BY DEF SeminaiveInv, TypeOK
  <2>3. CASE m.at[i].ts = ts
    BY <2>2, <2>3
  <2> QED
    BY <2>1, <2>3
<1>2. m \in Matches(r)
  BY <1>1, MatchWasThere
<1> QED
  BY <1>2 DEF SeminaiveInv, MatchesDone

\* Closing a rule's window: what is older than the new window was selected now, or
\* was older than the previous window too.
LEMMA WindowCloses ==
    ASSUME TypeOK, NEW r \in Rules, NEW m \in Matches(r),
           ~ Selected(r, m)
    PROVE  lastRun[r] > 0 /\ \A i \in DOMAIN r.atoms : m.at[i].ts < lastRun[r]
<1> DEFINE mid == lastRun[r]
           D == {i \in DOMAIN r.atoms : m.at[i].ts >= mid}
<1>1. r.atoms \in Seq(Term) /\ mid \in Nat
  BY EGraphAssumption DEF RuleType, TypeOK
<1>2. DOMAIN r.atoms = 1 .. Len(r.atoms) /\ Len(r.atoms) \in Nat
  BY <1>1
<1>3. \A i \in DOMAIN r.atoms : m.at[i] \in rows /\ m.at[i].ts \in Nat
  BY DEF Matches, TypeOK, IsRow
<1>4. mid > 0
  <2> SUFFICES ASSUME mid = 0 PROVE FALSE
    BY <1>1
  <2>1. r.atoms # <<>>
    BY DEF Selected
  <2>2. 1 \in DOMAIN r.atoms
    BY <1>1, <1>2, <2>1
  <2>3. Variant(m, 1, mid)
    BY <1>3, <2>2 DEF Variant
  <2> QED
    BY <2>2, <2>3 DEF Selected
<1>5. D = {}
  <2> SUFFICES ASSUME D # {} PROVE FALSE
    OBVIOUS
  <2>1. D \subseteq Nat
    BY <1>2
  <2>2. PICK i \in D : \A j \in D : i <= j
    BY <2>1, LeastNatural
  <2>3. \A j \in 1 .. i - 1 : j \in DOMAIN r.atoms /\ j \notin D
    BY <1>2, <2>2
  <2>4. \A j \in 1 .. i - 1 : m.at[j].ts < mid
    BY <1>1, <1>3, <2>3
  <2>5. Variant(m, i, mid)
    BY <1>4, <2>2, <2>4 DEF Variant
  <2> QED
    BY <2>2, <2>5 DEF Selected
<1> QED
  BY <1>1, <1>3, <1>4, <1>5

\* A run closes its windows when it has queued every match they select.
LEMMA SeminaiveRun ==
    ASSUME TypeOK, SeminaiveInv, NEW R \in Rulesets, RunRules(R)
    PROVE  SeminaiveInv'
<1>1. R \subseteq Rules
  BY EGraphAssumption
<1>2. /\ pc = "idle" /\ pc' = "fire"
      /\ todo' = UNION {NewMatches(r) : r \in R}
      /\ lastRun' = [r \in Rules |-> IF r \in R THEN ts ELSE lastRun[r]]
      /\ UNCHANGED <<rows, inserts, ts, stop, fired, aborted>>
  BY DEF RunRules, Issue, WindowEnd, store, staged, history
<1>3. todo = {} /\ inserts = {}
  BY <1>2 DEF SeminaiveInv
<1>4. \A r \in Rules : Matches(r)' = Matches(r)
  BY <1>2 DEF Matches
<1>5. MatchesDone'
  <2> SUFFICES ASSUME ~aborted, ~stop,
                      NEW r \in Rules, NEW m \in Matches(r),
                      lastRun'[r] > 0,
                      \A i \in DOMAIN r.atoms : m.at[i].ts < lastRun'[r]
               PROVE  m \in fired \cup todo'
    BY <1>2, <1>4 DEF MatchesDone
  <2>1. CASE r \in R /\ Selected(r, m)
    BY <1>2, <2>1 DEF NewMatches
  <2>2. CASE r \in R /\ ~ Selected(r, m)
    BY <1>3, <2>2, WindowCloses DEF SeminaiveInv, MatchesDone
  <2>3. CASE r \notin R
    BY <1>2, <1>3, <2>3 DEF SeminaiveInv, MatchesDone
  <2> QED
    BY <2>1, <2>2, <2>3
<1>6. \A r \in Rules : lastRun'[r] <= ts'
  BY <1>2 DEF SeminaiveInv, TypeOK
<1> QED
  BY <1>2, <1>3, <1>5, <1>6 DEF SeminaiveInv

\* Every other step: what it adds to the tables carries the current timestamp.
LEMMA SeminaiveFire ==
    ASSUME TypeOK, SeminaiveInv, NEW m \in todo, Fire(m)
    PROVE  SeminaiveInv'
<1>1. /\ UNCHANGED <<rows, ts, lastRun, aborted, pc>>
      /\ pc = "fire"
      /\ todo' = todo \ {m} /\ fired' = fired \cup {m}
      /\ stop => stop'
  BY DEF Fire, Take, RewriteKnown, RewritePredicted, RewriteFresh, FireSet, FireDelete,
         FirePanic, store, counters, marks, control, history
<1>2. \A n \in inserts' : n \in inserts \/ n.ts = ts
  BY DEF Fire, RewriteKnown, RewritePredicted, RewriteFresh, FireSet, FireDelete, FirePanic,
         staged, Row
<1>3. MatchesDone'
  BY <1>1, SeminaiveKept
<1> QED
  BY <1>1, <1>2, <1>3 DEF SeminaiveInv

\* Only a run moves a window; the other commands write rows no older than it.
LEMMA SeminaiveCommand ==
    ASSUME TypeOK, SeminaiveInv, Command
    PROVE  SeminaiveInv'
<1>1. CASE \E R \in Rulesets : RunRules(R)
  BY <1>1, SeminaiveRun
<1>2. CASE ~ \E R \in Rulesets : RunRules(R)
  <2>1. /\ pc = "idle"
        /\ UNCHANGED <<ts, lastRun, todo, stop, fired, aborted>>
        /\ \A q \in rows' : q \in rows
    BY <1>2 DEF Command, Issue, FreshId, AddTerm, AddValues, Union, ClearTable,
                store, staged, marks, run, history
  <2>2. pc' \in {"idle", "merge"}
    BY <1>2, <2>1 DEF Command, FreshId, AddTerm, AddValues, Union, ClearTable, StartFlush,
                      control
  <2>3. todo = {} /\ inserts = {}
    BY <2>1 DEF SeminaiveInv
  <2>4. /\ \A n \in inserts' : n.ts = ts
        /\ pc' = "idle" => inserts' = {}
    BY <1>2, <2>1, <2>3 DEF Command, FreshId, AddTerm, AddValues, Union, ClearTable,
                            StartFlush, staged, control, Row
  <2>5. MatchesDone'
    BY <2>1, SeminaiveKept
  <2> QED
    BY <2>1, <2>2, <2>3, <2>4, <2>5 DEF SeminaiveInv
<1> QED
  BY <1>1, <1>2

\* Merging, rebuilding and returning write rows of the current timestamp only.
LEMMA SeminaiveEngine ==
    ASSUME TypeOK, SeminaiveInv,
           EndFiring \/ Merge \/ Return \/ \E incr \in SUBSET Fns : RebuildTables(incr)
    PROVE  SeminaiveInv'
<1>1. CASE EndFiring
  <2>1. /\ pc' = "merge" /\ todo' = {}
        /\ todo = {} \/ stop
        /\ UNCHANGED <<rows, inserts, ts, lastRun, stop, fired, aborted>>
    BY <1>1 DEF EndFiring, store, staged, counters, marks, history
  <2>2. MatchesDone'
    <3>1. CASE stop
      BY <2>1, <3>1 DEF MatchesDone
    <3>2. CASE todo = {}
      BY <2>1, <3>2, SeminaiveKept
    <3> QED
      BY <2>1, <3>1, <3>2
  <2> QED
    BY <2>1, <2>2 DEF SeminaiveInv
<1>2. CASE Merge
  <2>1. /\ pc = "merge"
        /\ UNCHANGED <<pc, ts, lastRun, todo, stop, fired, aborted>>
        /\ inserts' \subseteq inserts
        /\ \A q \in rows' : q \in rows \/ q \in inserts
    BY <1>2 DEF Merge, MergeRemoves, InsertNew, InsertMerged, MergedRows, Mergeable,
                MergeUnion, counters, marks, control, run, history
  <2>2. \A q \in rows' : q \in rows \/ q.ts = ts
    BY <2>1 DEF SeminaiveInv
  <2>3. MatchesDone'
    BY <2>1, <2>2, SeminaiveKept
  <2> QED
    BY <2>1, <2>3 DEF SeminaiveInv
<1>3. CASE Return
  <2>1. /\ UNCHANGED <<rows, inserts, lastRun, todo, fired>>
        /\ inserts = {}
        /\ pc = "merge" /\ pc' \in {"idle", "rebuild"}
        /\ aborted => aborted'
        /\ stop => stop' \/ aborted'
        /\ ts' \in {ts, ts + 1}
    BY <1>3 DEF Return, RunFails, SkipRebuild, EnterRebuild, EndPass, Merged,
                store, staged, counters, marks, run, history
  <2>2. \A r \in Rules : lastRun'[r] <= ts'
    BY <2>1 DEF SeminaiveInv, TypeOK
  <2>3. MatchesDone'
    BY <2>1, SeminaiveKept
  <2> QED
    BY <2>1, <2>2, <2>3 DEF SeminaiveInv
<1>4. ASSUME NEW incr \in SUBSET Fns, RebuildTables(incr)
      PROVE  SeminaiveInv'
  <2>1. /\ pc = "rebuild" /\ pc' = "merge"
        /\ UNCHANGED <<rows, ts, lastRun, todo, stop, fired, aborted>>
    BY <1>4 DEF RebuildTables, store, counters, run, history
  <2>2. \A n \in inserts' : n.ts = ts
    BY <1>4 DEF RebuildTables, CanonRow, Row
  <2>3. MatchesDone'
    BY <2>1, SeminaiveKept
  <2> QED
    BY <2>1, <2>2, <2>3 DEF SeminaiveInv
<1> QED
  BY <1>1, <1>2, <1>3, <1>4

\* The strengthening holds in every reachable state.
LEMMA SeminaiveInvHolds == Spec => []SeminaiveInv
<1>1. Init => SeminaiveInv
  BY DEF Init, SeminaiveInv, MatchesDone
<1>2. TypeOK /\ SeminaiveInv /\ [Next]_vars => SeminaiveInv'
  <2> SUFFICES ASSUME TypeOK, SeminaiveInv, [Next]_vars PROVE SeminaiveInv'
    OBVIOUS
  <2>1. CASE Next
    BY <2>1, SeminaiveCommand, SeminaiveFire, SeminaiveEngine DEF Next, Engine
  <2>2. CASE UNCHANGED vars
    <3>1. MatchesDone'
      BY <2>2, SeminaiveKept DEF vars, store, marks, run, history
    <3> QED
      BY <2>2, <3>1 DEF SeminaiveInv, vars, staged, counters, marks, control, run
  <2> QED
    BY <2>1, <2>2
<1> QED
  BY <1>1, <1>2, TypeCorrect, PTL DEF Spec

\* Seminaive evaluation loses no match, in every instance.
THEOREM SeminaiveCorrect == Spec => []SeminaiveComplete
<1>1. SeminaiveInv => SeminaiveComplete
  BY DEF SeminaiveInv, MatchesDone, SeminaiveComplete
<1> QED
  BY <1>1, SeminaiveInvHolds, PTL

-----------------------------------------------------------------------------
(* One row per key.  The property is inductive as it stands.                  *)

\* Merging keeps one row per key: an insertion finds its key free or replaces the
\* row that holds it.
LEMMA DependencyMerge ==
    ASSUME FunctionalDependency, NEW n \in inserts, InsertNew(n) \/ InsertMerged(n)
    PROVE  FunctionalDependency'
<1>1. CASE InsertNew(n)
  BY <1>1 DEF InsertNew, Known, FunctionalDependency
<1>2. CASE InsertMerged(n)
  <2>1. PICK r \in rows : /\ r.fn = n.fn /\ r.key = n.key
                          /\ rows' = MergedRows(r, n)
    BY <1>2 DEF InsertMerged, Collisions
  <2>2. \A q \in rows \ {r} : ~(q.fn = n.fn /\ q.key = n.key)
    BY <2>1 DEF FunctionalDependency
  <2> QED
    BY <2>1, <2>2 DEF FunctionalDependency, MergedRows
<1> QED
  BY <1>1, <1>2

\* Every table is a function of its key in every reachable state.
THEOREM DependencyHolds == Spec => []FunctionalDependency
<1>1. Init => FunctionalDependency
  BY DEF Init, FunctionalDependency
<1>2. FunctionalDependency /\ [Next]_vars => FunctionalDependency'
  <2> SUFFICES ASSUME FunctionalDependency, [Next]_vars PROVE FunctionalDependency'
    OBVIOUS
  <2>1. CASE Command
    <3>1. rows' \subseteq rows
      BY <2>1 DEF Command, FreshId, AddTerm, AddValues, Union, ClearTable, RunRules, store
    <3> QED
      BY <3>1 DEF FunctionalDependency
  <2>2. CASE Merge
    <3>1. ASSUME NEW f \in Fns, MergeRemoves(f) PROVE rows' \subseteq rows
      BY <3>1 DEF MergeRemoves
    <3>2. ASSUME NEW u \in unions, MergeUnion(u) PROVE rows' = rows
      BY <3>2 DEF MergeUnion
    <3> QED
      BY <2>2, <3>1, <3>2, DependencyMerge DEF Merge, FunctionalDependency
  <2>3. CASE Engine /\ ~Merge
    <3>1. rows' = rows
      BY <2>3 DEF Engine, Fire, RewriteKnown, RewritePredicted, RewriteFresh, FireSet,
                  FireDelete, FirePanic, EndFiring, Return, RunFails, SkipRebuild,
                  EnterRebuild, EndPass, RebuildTables, store
    <3> QED
      BY <3>1 DEF FunctionalDependency
  <2>4. CASE UNCHANGED vars
    BY <2>4 DEF FunctionalDependency, vars, store
  <2> QED
    BY <2>1, <2>2, <2>3, <2>4 DEF Next
<1> QED
  BY <1>1, <1>2, PTL DEF Spec

-----------------------------------------------------------------------------
(* Soundness of the congruence.  Relative to a p that respects the history,   *)
(* the leaders, the rows and the pending unions stay within p.                *)

\* d witnesses that the row n follows from the history modulo p.
Justifies(p, d, n) ==
    /\ d.fn = n.fn
    /\ MapKey(p, d.key) = MapKey(p, n.key)
    /\ p[d.val] = p[n.val]

Within(p) ==
    /\ \A x \in Id : p[x] = p[canon[x]]
    /\ \A n \in rows \cup inserts : \E d \in facts : Justifies(p, d, n)
    /\ \A u \in unions : p[u[1]] = p[u[2]]

SoundInv == \A p \in [Id -> Id] : Respects(p) => Within(p)

\* The history only grows, so what respects it now respected it before.
LEMMA RespectsShrinks ==
    ASSUME NEW p, asserted \subseteq asserted', facts \subseteq facts', Respects(p)'
    PROVE  Respects(p)
BY DEF Respects

\* Two rows with one key force their values together in every such p.
LEMMA CollisionForced ==
    ASSUME NEW p, Respects(p),
           NEW n, NEW r, r.fn = n.fn, r.key = n.key,
           \E d \in facts : Justifies(p, d, n), \E d \in facts : Justifies(p, d, r)
    PROVE  p[r.val] = p[n.val]
BY DEF Respects, Justifies

\* The canonical form of a row is justified by the same fact.
LEMMA CanonRowJustified ==
    ASSUME NEW p, NEW r, IsRow(r), \A x \in Id : p[x] = p[canon[x]],
           NEW d, Justifies(p, d, r), NEW t
    PROVE  Justifies(p, d, CanonRow(r, t))
<1>1. Arity[r.fn] \in Nat /\ r.key \in [1 .. Arity[r.fn] -> Id] /\ r.val \in Id
  BY EGraphAssumption DEF IsRow
<1>2. MapKey(p, MapKey(canon, r.key)) = MapKey(p, r.key)
  BY <1>1 DEF MapKey
<1> QED
  BY <1>1, <1>2 DEF Justifies, CanonRow, Row

\* A step that leaves leaders and rows alone, and justifies what it stages by the
\* history it writes.
LEMMA SoundStaging ==
    ASSUME SoundInv, NEW p \in [Id -> Id], Respects(p)',
           asserted \subseteq asserted', facts \subseteq facts',
           canon' = canon, rows' \subseteq rows,
           \A n \in inserts' : n \in inserts \/ \E d \in facts' : Justifies(p, d, n),
           \A u \in unions' : u \in unions \/ u \in asserted'
    PROVE  Within(p)'
<1>1. Within(p)
  BY RespectsShrinks DEF SoundInv
<1>2. \A n \in rows' \cup inserts' : \E d \in facts' : Justifies(p, d, n)
  BY <1>1 DEF Within
<1>3. \A u \in unions' : p[u[1]] = p[u[2]]
  BY <1>1 DEF Within, Respects
<1>4. \A x \in Id : p[x] = p[canon'[x]]
  BY <1>1 DEF Within
<1> QED
  BY <1>2, <1>3, <1>4 DEF Within, Justifies

\* A command stages what it asserts.
LEMMA SoundCommand ==
    ASSUME TypeOK, SoundInv, Command
    PROVE  SoundInv'
<1> SUFFICES ASSUME NEW p \in [Id -> Id], Respects(p)'
             PROVE  Within(p)'
  BY DEF SoundInv
<1>1. /\ asserted \subseteq asserted' /\ facts \subseteq facts'
      /\ canon' = canon /\ rows' \subseteq rows
  BY DEF Command, FreshId, AddTerm, AddValues, Union, ClearTable, RunRules, store, history
<1>2. \A n \in inserts' : n \in inserts \/ \E d \in facts' : FactOf(n) = d
  <2>1. ASSUME NEW f \in Fns, NEW k \in [1 .. Arity[f] -> Id], AddTerm(f, k)
        PROVE  \A n \in inserts' : \E d \in facts' : FactOf(n) = d
    <3>1. inserts' = {Row(f, k, next, ts)} /\ facts' = facts \cup {Fact(f, k, next)}
      BY <2>1 DEF AddTerm
    <3>2. FactOf(Row(f, k, next, ts)) = Fact(f, k, next)
      BY DEF FactOf, Fact, Row
    <3> QED
      BY <3>1, <3>2
  <2>2. ASSUME NEW d1 \in BulkRows, NEW d2 \in BulkRows, AddValues({d1, d2})
        PROVE  \A n \in inserts' : \E d \in facts' : FactOf(n) = d
    <3>1. \A d \in {d1, d2} : FactOf(Row(d.fn, d.key, d.val, ts)) = d
      BY EGraphAssumption DEF FactOf, Fact, Row
    <3>2. \A n \in inserts' : \E d \in {d1, d2} : n = Row(d.fn, d.key, d.val, ts)
      BY <2>2 DEF AddValues
    <3>3. \A d \in {d1, d2} : d \in facts'
      BY <2>2 DEF AddValues
    <3> QED
      BY <3>1, <3>2, <3>3
  <2>3. CASE \/ FreshId
             \/ \E x, y \in Id : Union(x, y)
             \/ \E f \in Fns : ClearTable(f)
             \/ \E R \in Rulesets : RunRules(R)
    BY <2>3 DEF FreshId, Union, ClearTable, RunRules, staged
  <2> QED
    BY <2>1, <2>2, <2>3 DEF Command
<1>3. \A u \in unions' : u \in unions \/ u \in asserted'
  BY DEF Command, FreshId, AddTerm, AddValues, Union, ClearTable, RunRules, staged
<1>4. \A n, d : FactOf(n) = d => Justifies(p, d, n)
  BY DEF FactOf, Fact, Justifies
<1> QED
  BY <1>1, <1>2, <1>3, <1>4, SoundStaging

\* A rule stages what it asserts, and rows it inserts or predicted.
LEMMA SoundFire ==
    ASSUME TypeOK, SoundInv, NEW m \in todo, Fire(m)
    PROVE  SoundInv'
<1> SUFFICES ASSUME NEW p \in [Id -> Id], Respects(p)'
             PROVE  Within(p)'
  BY DEF SoundInv
<1>0. IsFact(Effect(m))
  BY EffectType DEF TypeOK
<1>1. /\ asserted \subseteq asserted' /\ facts \subseteq facts'
      /\ canon' = canon /\ rows' = rows
  BY DEF Fire, RewriteKnown, RewritePredicted, RewriteFresh, FireSet, FireDelete, FirePanic,
         StageUnion, store
<1>2. \A n \in inserts' : n \in inserts \/ \E d \in facts' : FactOf(n) = d
  <2>1. CASE RewriteFresh(m)
    <3>1. /\ inserts' = inserts \cup {Row(Effect(m).fn, Effect(m).key, next, ts)}
          /\ facts' = facts \cup {Fact(Effect(m).fn, Effect(m).key, next)}
      BY <2>1 DEF RewriteFresh
    <3>2. FactOf(Row(Effect(m).fn, Effect(m).key, next, ts))
            = Fact(Effect(m).fn, Effect(m).key, next)
      BY DEF FactOf, Fact, Row
    <3> QED
      BY <3>1, <3>2
  <2>2. CASE FireSet(m)
    <3>1. /\ inserts' = inserts \cup {Row(Effect(m).fn, Effect(m).key, Effect(m).val, ts)}
          /\ facts' = facts \cup {Effect(m)}
      BY <2>2 DEF FireSet
    <3>2. FactOf(Row(Effect(m).fn, Effect(m).key, Effect(m).val, ts)) = Effect(m)
      BY <1>0 DEF FactOf, Fact, Row, IsFact
    <3> QED
      BY <3>1, <3>2
  <2>3. CASE RewriteKnown(m) \/ RewritePredicted(m) \/ FireDelete(m) \/ FirePanic(m)
    BY <2>3 DEF RewriteKnown, RewritePredicted, FireDelete, FirePanic, staged
  <2> QED
    BY <2>1, <2>2, <2>3 DEF Fire
<1>3. \A u \in unions' : u \in unions \/ u \in asserted'
  BY DEF Fire, RewriteKnown, RewritePredicted, RewriteFresh, FireSet, FireDelete, FirePanic,
         StageUnion, staged
<1>4. \A n, d : FactOf(n) = d => Justifies(p, d, n)
  BY DEF FactOf, Fact, Justifies
<1> QED
  BY <1>1, <1>2, <1>3, <1>4, SoundStaging

\* A merge unites ids only when a staged union or a collision of keys asks for it.
LEMMA SoundMerge ==
    ASSUME TypeOK, SoundInv, Merge
    PROVE  SoundInv'
<1> SUFFICES ASSUME NEW p \in [Id -> Id], Respects(p)'
             PROVE  Within(p)'
  BY DEF SoundInv
<1>0. asserted' = asserted /\ facts' = facts
  BY DEF Merge, MergeRemoves, InsertNew, InsertMerged, MergeUnion, history
<1>1. Respects(p) /\ Within(p)
  BY <1>0, RespectsShrinks DEF SoundInv
<1>2. ASSUME NEW f \in Fns, MergeRemoves(f)
      PROVE  Within(p)'
  BY <1>0, <1>2, SoundStaging DEF MergeRemoves
<1>3. ASSUME NEW n \in inserts, InsertNew(n)
      PROVE  Within(p)'
  <2>1. /\ rows' \cup inserts' \subseteq rows \cup inserts
        /\ UNCHANGED <<canon, unions>>
    BY <1>3 DEF InsertNew, Mergeable
  <2> QED
    BY <1>0, <1>1, <2>1 DEF Within, Justifies
<1>4. ASSUME NEW n \in inserts, InsertMerged(n)
      PROVE  Within(p)'
  <2>1. PICK r \in rows : /\ r.fn = n.fn /\ r.key = n.key
                          /\ rows' = MergedRows(r, n)
                          /\ unions' = unions \cup UnionId(r.val, n.val)
    BY <1>4 DEF InsertMerged, Collisions
  <2>2. p[r.val] = p[n.val]
    BY <1>1, <2>1, CollisionForced DEF Within
  <2>3. \A u \in unions' : p[u[1]] = p[u[2]]
    BY <1>1, <2>1, <2>2 DEF Within, UnionId
  <2>4. rows' \cup inserts' \subseteq rows \cup inserts /\ canon' = canon
    BY <1>4, <2>1 DEF InsertMerged, MergedRows, Mergeable
  <2> QED
    BY <1>0, <1>1, <2>3, <2>4 DEF Within, Justifies
<1>5. ASSUME NEW u \in unions, MergeUnion(u)
      PROVE  Within(p)'
  <2> DEFINE x == canon[u[1]]
             y == canon[u[2]]
             parent == Smaller(x, y)
             child == IF parent = x THEN y ELSE x
  <2>1. /\ unions' \subseteq unions /\ UNCHANGED <<rows, inserts>>
        /\ canon' = canon \/ canon' = Linked(child, parent)
    BY <1>5 DEF MergeUnion, Drained
  <2>2. u[1] \in Id /\ u[2] \in Id
    BY DEF TypeOK
  <2>3. p[x] = p[u[1]] /\ p[y] = p[u[2]] /\ p[u[1]] = p[u[2]]
    BY <1>1, <2>2 DEF Within
  <2>4. p[child] = p[parent]
    BY <2>3 DEF Smaller
  <2> HIDE DEF x, y, parent, child
  <2>5. \A i \in Id : p[i] = p[Linked(child, parent)[i]]
    BY <1>1, <2>4 DEF Within, Linked
  <2>6. \A i \in Id : p[i] = p[canon'[i]]
    BY <1>1, <2>1, <2>5 DEF Within
  <2> QED
    BY <1>0, <1>1, <2>1, <2>6 DEF Within, Justifies
<1> QED
  BY <1>2, <1>3, <1>4, <1>5 DEF Merge

\* A rebuild replaces ids by ids that are already equal.
LEMMA SoundRebuild ==
    ASSUME TypeOK, SoundInv, NEW incr \in SUBSET Fns, RebuildTables(incr)
    PROVE  SoundInv'
<1> SUFFICES ASSUME NEW p \in [Id -> Id], Respects(p)'
             PROVE  Within(p)'
  BY DEF SoundInv
<1>1. UNCHANGED <<rows, canon, unions, asserted, facts>>
  BY DEF RebuildTables, store, history
<1>2. Within(p)
  BY <1>1, RespectsShrinks DEF SoundInv
<1>3. \A n \in inserts' : \E r \in rows : n = CanonRow(r, ts)
  BY DEF RebuildTables
<1>4. \A n \in inserts' : \E d \in facts : Justifies(p, d, n)
  BY <1>2, <1>3, CanonRowJustified DEF Within, TypeOK
<1> QED
  BY <1>1, <1>2, <1>4 DEF Within, Justifies

\* Soundness of the congruence, for every instance.
THEOREM CongruenceIsSound == Spec => []CongruenceSound
<1>1. Init => SoundInv
  BY DEF Init, SoundInv, Within
<1>2. TypeOK /\ SoundInv /\ [Next]_vars => SoundInv'
  <2> SUFFICES ASSUME TypeOK, SoundInv, [Next]_vars PROVE SoundInv'
    OBVIOUS
  <2>1. CASE EndFiring \/ Return
    BY <2>1, SoundStaging DEF SoundInv, EndFiring, Return, RunFails, SkipRebuild,
                              EnterRebuild, EndPass, store, staged, history
  <2>2. CASE UNCHANGED vars
    BY <2>2, SoundStaging DEF SoundInv, vars, store, staged, history
  <2> QED
    BY <2>1, <2>2, SoundCommand, SoundFire, SoundMerge, SoundRebuild DEF Next, Engine
<1>3. SoundInv => CongruenceSound
  BY DEF SoundInv, Within, CongruenceSound
<1> QED
  BY <1>1, <1>2, <1>3, TypeCorrect, PTL DEF Spec

-----------------------------------------------------------------------------
(* Equalities persist.                                                         *)

\* No step takes an equality back, in every instance: only MergeUnion changes the
\* leaders, and it links whole classes.
THEOREM EqualitiesStay == Spec => EqualitiesPersist
<1>1. ASSUME TypeOK, NEW u \in unions, MergeUnion(u) PROVE canon' = canon \/ KeepsEqualities
  <2> DEFINE x == canon[u[1]]
             y == canon[u[2]]
             parent == Smaller(x, y)
             child == IF parent = x THEN y ELSE x
  <2>1. x \in Id /\ y \in Id /\ Id \subseteq Nat /\ canon \in [Id -> Id]
    BY <1>1, EGraphAssumption DEF TypeOK, Id
  <2>2. x # y => canon' = Linked(child, parent)
    BY <1>1 DEF MergeUnion
  <2>3. x = y => canon' = canon
    BY <1>1 DEF MergeUnion
  <2>0. x \in Nat /\ y \in Nat
    BY <2>1
  <2>4. parent \in Nat /\ child \in Nat /\ parent <= child
    <3> HIDE DEF x, y
    <3> QED
      BY <2>0 DEF Smaller
  <2> HIDE DEF x, y, parent, child
  <2>5. ASSUME canon' = Linked(child, parent), NEW a \in Id, NEW b \in Id
        PROVE  (canon[a] = canon[b] => canon'[a] = canon'[b]) /\ canon'[a] <= canon[a]
    <3>1. canon[a] \in Nat
      BY <2>1
    <3>2. /\ canon'[a] = IF canon[a] = child THEN parent ELSE canon[a]
          /\ canon'[b] = IF canon[b] = child THEN parent ELSE canon[b]
      BY <2>5 DEF Linked
    <3> QED
      BY <2>4, <3>1, <3>2
  <2> QED
    BY <2>2, <2>3, <2>5 DEF KeepsEqualities
<1>2. ASSUME Next, ~ \E u \in unions : MergeUnion(u) PROVE canon' = canon
  BY <1>2, Zenon DEF Next, Command, FreshId, AddTerm, AddValues, Union, ClearTable, RunRules, Engine, Fire,
     RewriteKnown, RewritePredicted, RewriteFresh, FireSet, FireDelete, FirePanic, EndFiring, Merge,
     MergeRemoves, InsertNew, InsertMerged, Return, RunFails, SkipRebuild, EnterRebuild, EndPass,
     RebuildTables, store
<1>3. ASSUME TypeOK, [Next]_vars PROVE [KeepsEqualities]_canon
  <2>1. CASE UNCHANGED vars
    BY <2>1 DEF vars, store
  <2>2. CASE Next
    BY <1>1, <1>2, <1>3, <2>2
  <2> QED
    BY <1>3, <2>1, <2>2
<1> QED
  BY <1>3, TypeCorrect, PTL DEF Spec, EqualitiesPersist

-----------------------------------------------------------------------------
(* Which ids are in use.                                                       *)

\* The ids a match assigns are those of its rows; an unused variable has 0.
LEMMA MatchIds ==
    ASSUME TypeOK, NEW r \in Rules, NEW m \in Matches(r), NEW v \in Vars
    PROVE  m.env[v] = 0 \/ \E i \in DOMAIN r.atoms : m.at[i] \in rows /\ m.env[v] \in IdsOf(m.at[i])
<1>1. CASE \A i \in DOMAIN r.atoms : v \notin VarsOf(r.atoms[i])
  BY <1>1 DEF Matches
<1>2. ASSUME NEW i \in DOMAIN r.atoms, v \in VarsOf(r.atoms[i])
      PROVE  m.at[i] \in rows /\ m.env[v] \in IdsOf(m.at[i])
  <2>1. m.at[i] \in rows
    BY DEF Matches
  <2>2. PICK a : a = r.atoms[i]
    OBVIOUS
  <2>3. FactOf(m.at[i]) = Fact(a.fn, MapKey(m.env, a.args), m.env[a.out])
    BY <2>2 DEF Matches
  <2>4. m.at[i].key = MapKey(m.env, a.args) /\ m.at[i].val = m.env[a.out]
    BY <2>3 DEF FactOf, Fact
  <2>5. CASE v = a.out
    BY <2>1, <2>4, <2>5 DEF IdsOf
  <2>6. ASSUME NEW j \in DOMAIN a.args, v = a.args[j] PROVE m.env[v] \in IdsOf(m.at[i])
    <3>1. j \in DOMAIN m.at[i].key /\ m.at[i].key[j] = m.env[v]
      BY <2>4, <2>6 DEF MapKey
    <3> QED
      BY <3>1 DEF IdsOf
  <2> QED
    BY <1>2, <2>1, <2>2, <2>5, <2>6 DEF VarsOf
<1> QED
  BY <1>1, <1>2

\* The ids an action writes are those of its match.
LEMMA EffectIds ==
    ASSUME NEW m, m.rule \in Rules, NEW x \in IdsOf(Effect(m))
    PROVE  \E v \in Vars : x = m.env[v]
<1> DEFINE h == m.rule.head
<1>1. h \in Term
  BY EGraphAssumption DEF RuleType
<1>2. h.args \in [1 .. Arity[h.fn] -> Vars] /\ h.out \in Vars
  BY <1>1 DEF Term
<1>3. Effect(m).key = MapKey(m.env, h.args) /\ Effect(m).val = m.env[h.out]
  BY DEF Effect, Fact
<1> HIDE DEF h
<1>4. CASE x = Effect(m).val
  BY <1>2, <1>3, <1>4
<1>5. ASSUME NEW i \in DOMAIN Effect(m).key, x = Effect(m).key[i] PROVE \E v \in Vars : x = m.env[v]
  <2>1. i \in 1 .. Arity[h.fn] /\ x = m.env[h.args[i]] /\ h.args[i] \in Vars
    BY <1>2, <1>3, <1>5 DEF MapKey
  <2> QED
    BY <2>1
<1> QED
  BY <1>4, <1>5 DEF IdsOf

\* The ids of a canonical form are the leaders of those of the row.
LEMMA CanonRowIds ==
    ASSUME NEW r, NEW t, NEW y \in IdsOf(CanonRow(r, t))
    PROVE  \E x \in IdsOf(r) : y = canon[x]
<1>1. CanonRow(r, t).key = [i \in DOMAIN r.key |-> canon[r.key[i]]] /\ CanonRow(r, t).val = canon[r.val]
  BY DEF CanonRow, Row, MapKey
<1>2. CASE y = CanonRow(r, t).val
  BY <1>1, <1>2 DEF IdsOf
<1>3. ASSUME NEW i \in DOMAIN CanonRow(r, t).key, y = CanonRow(r, t).key[i]
      PROVE  \E x \in IdsOf(r) : y = canon[x]
  <2>1. i \in DOMAIN r.key /\ y = canon[r.key[i]]
    BY <1>1, <1>3
  <2> QED
    BY <2>1 DEF IdsOf
<1> QED
  BY <1>2, <1>3 DEF IdsOf

\* An id that a counter at n has handed out; an unused variable has 0 from the start.
Below(x, n) == x < n \/ x = 0

RowBelow(r, n) == \A x \in IdsOf(r) : Below(x, n)

\* Leaders are no larger than their ids and lead themselves; an id that was never
\* handed out is its own leader.
LeadersInv ==
    \A x \in Id : /\ canon[x] <= x
                  /\ canon[canon[x]] = canon[x]
                  /\ canon[x] # x => x < next

MintedInv ==
    /\ \A r \in rows \cup inserts : RowBelow(r, next)
    /\ \A u \in unions : Below(u[1], next) /\ Below(u[2], next)
    /\ \A q \in predicted : Below(q.val, next)
    /\ \A m \in todo : \A v \in Vars : Below(m.env[v], next)

IdsInv == LeadersInv /\ MintedInv

\* Ids are naturals, and so are the leaders.
LEMMA IdsAreNaturals ==
    ASSUME TypeOK
    PROVE  /\ Id \subseteq Nat
           /\ next \in Nat
           /\ canon \in [Id -> Id]
           /\ \A x \in Id : canon[x] \in Id
BY EGraphAssumption DEF TypeOK, Id

\* The ids of a typed row are ids.
LEMMA RowIds ==
    ASSUME NEW r, IsRow(r) \/ IsFact(r), NEW x \in IdsOf(r)
    PROVE  x \in Id
BY DEF IsRow, IsFact, IdsOf

\* A step that leaves the leaders alone and writes only ids that were handed out.
LEMMA IdsKept ==
    ASSUME TypeOK, TypeOK', IdsInv,
           canon' = canon, next <= next',
           \A r \in rows' \cup inserts' : r \in rows \cup inserts \/ RowBelow(r, next'),
           \A u \in unions' : u \in unions \/ (Below(u[1], next') /\ Below(u[2], next')),
           \A q \in predicted' : q \in predicted \/ Below(q.val, next'),
           \A m \in todo' : m \in todo \/ \A v \in Vars : Below(m.env[v], next')
    PROVE  IdsInv'
<1>1. Id \subseteq Nat /\ next \in Nat /\ next' \in Nat
  BY IdsAreNaturals DEF TypeOK
<1>2. ASSUME NEW x \in Id, Below(x, next) PROVE Below(x, next')
  <2>1. x \in Nat
    BY <1>1
  <2>2. CASE x < next
    <3>1. x < next'
      BY <1>1, <2>1, <2>2
    <3> QED
      BY <3>1 DEF Below
  <2> QED
    BY <1>2, <2>2 DEF Below
<1>3. \A r \in rows \cup inserts : RowBelow(r, next')
  <2>1. \A r \in rows \cup inserts : IsRow(r)
    BY DEF TypeOK
  <2> QED
    BY <1>2, <2>1, RowIds DEF IdsInv, MintedInv, RowBelow
<1>4. \A u \in unions : Below(u[1], next') /\ Below(u[2], next')
  <2>1. \A u \in unions : u[1] \in Id /\ u[2] \in Id
    BY DEF TypeOK
  <2> QED
    BY <1>2, <2>1 DEF IdsInv, MintedInv
<1>5. \A q \in predicted : Below(q.val, next')
  <2>1. \A q \in predicted : q.val \in Id
    BY DEF TypeOK, IsFact
  <2> QED
    BY <1>2, <2>1 DEF IdsInv, MintedInv
<1>6. \A m \in todo : \A v \in Vars : Below(m.env[v], next')
  <2>1. \A m \in todo : \A v \in Vars : m.env[v] \in Id
    BY DEF TypeOK
  <2> QED
    BY <1>2, <2>1 DEF IdsInv, MintedInv
<1>7. MintedInv'
  BY <1>3, <1>4, <1>5, <1>6 DEF MintedInv
<1>8. LeadersInv'
  <2>1. \A x \in Id : x < next => x < next'
    BY <1>1
  <2> QED
    BY <2>1 DEF IdsInv, LeadersInv
<1> QED
  BY <1>7, <1>8 DEF IdsInv

\* The match's action reads minted ids.
LEMMA EffectMinted ==
    ASSUME TypeOK, IdsInv, NEW m \in todo
    PROVE  \A x \in IdsOf(Effect(m)) : Below(x, next)
<1>1. \A x \in IdsOf(Effect(m)) : \E v \in Vars : x = m.env[v]
  BY EffectIds DEF TypeOK
<1>2. \A v \in Vars : Below(m.env[v], next)
  BY DEF IdsInv, MintedInv
<1> QED
  BY <1>1, <1>2

\* The ids of a row and the output of a fact built from parts.
LEMMA BuiltIds ==
    ASSUME NEW f, NEW k, NEW v, NEW t
    PROVE  /\ IdsOf(Row(f, k, v, t)) = {k[i] : i \in DOMAIN k} \cup {v}
           /\ Fact(f, k, v).val = v
BY DEF IdsOf, Row, Fact

\* The row of a fact has the fact's ids.
LEMMA FactRowIds ==
    ASSUME NEW d, NEW v, NEW t
    PROVE  /\ IdsOf(Row(d.fn, d.key, d.val, t)) = IdsOf(d)
           /\ \A x \in IdsOf(Row(d.fn, d.key, v, t)) : x = v \/ x \in IdsOf(d)
           /\ d.val \in IdsOf(d)
<1>1. IdsOf(Row(d.fn, d.key, v, t)) = {d.key[i] : i \in DOMAIN d.key} \cup {v}
  BY BuiltIds
<1>2. IdsOf(Row(d.fn, d.key, d.val, t)) = {d.key[i] : i \in DOMAIN d.key} \cup {d.val}
  BY BuiltIds
<1>3. IdsOf(d) = {d.key[i] : i \in DOMAIN d.key} \cup {d.val}
  BY DEF IdsOf
<1> QED
  BY <1>1, <1>2, <1>3

\* A caller's rows and unions mention ids it was handed out, or the new one.
LEMMA IdsCommand ==
    ASSUME TypeOK, TypeOK', IdsInv, Command
    PROVE  IdsInv'
<1>0. Id \subseteq Nat /\ next \in Nat
  BY IdsAreNaturals
<1>1. CASE FreshId
  <2>1. next' = next + 1 /\ UNCHANGED <<canon, rows, inserts, unions, predicted, todo>>
    BY <1>1 DEF FreshId, store, staged, run
  <2>2. next <= next'
    BY <1>0, <2>1
  <2> QED
    BY <2>1, <2>2, IdsKept
<1>2. ASSUME NEW f \in Fns, NEW k \in [1 .. Arity[f] -> Id], AddTerm(f, k)
      PROVE  IdsInv'
  <2>1. /\ next' = next + 1 /\ inserts' = {Row(f, k, next, ts)}
        /\ \A i \in DOMAIN k : Live(k[i])
        /\ UNCHANGED <<canon, rows, unions, predicted, todo>>
    BY <1>2 DEF AddTerm, store, run
  <2>2. next <= next' /\ next < next'
    BY <1>0, <2>1
  <2>3. \A i \in DOMAIN k : k[i] < next'
    <3> TAKE i \in DOMAIN k
    <3>1. k[i] \in Nat /\ k[i] < next
      BY <1>0, <2>1 DEF Live
    <3> QED
      BY <1>0, <2>1, <3>1
  <2>4. RowBelow(Row(f, k, next, ts), next')
    <3>1. PICK S : S = IdsOf(Row(f, k, next, ts))
      OBVIOUS
    <3>2. S = {k[i] : i \in DOMAIN k} \cup {next}
      BY <3>1 DEF IdsOf, Row
    <3>3. \A x \in S : x < next'
      BY <2>2, <2>3, <3>2
    <3> QED
      BY <3>1, <3>3, Zenon DEF RowBelow, Below
  <2> QED
    BY <2>1, <2>2, <2>4, IdsKept
<1>3. ASSUME NEW d1 \in BulkRows, NEW d2 \in BulkRows, AddValues({d1, d2})
      PROVE  IdsInv'
  <2>1. /\ next' = next /\ inserts' = {Row(d.fn, d.key, d.val, ts) : d \in {d1, d2}}
        /\ \A d \in {d1, d2} : \A x \in IdsOf(d) : Live(x)
        /\ UNCHANGED <<canon, rows, unions, predicted, todo>>
    BY <1>3 DEF AddValues, store, run
  <2>2. next <= next'
    BY <1>0, <2>1
  <2>3. ASSUME NEW d \in {d1, d2} PROVE RowBelow(Row(d.fn, d.key, d.val, ts), next')
    <3>1. \A x \in IdsOf(Row(d.fn, d.key, d.val, ts)) : x < next'
      BY <2>1, FactRowIds DEF Live
    <3> QED
      BY <3>1 DEF RowBelow, Below
  <2>4. \A r \in inserts' : RowBelow(r, next')
    BY <2>1, <2>3
  <2> QED
    BY <2>1, <2>2, <2>4, IdsKept
<1>4. ASSUME NEW x \in Id, NEW y \in Id, Union(x, y)
      PROVE  IdsInv'
  <2>1. /\ next' = next /\ unions' = {<<x, y>>} /\ x < next /\ y < next
        /\ UNCHANGED <<canon, rows, inserts, predicted, todo>>
    BY <1>4 DEF Union, store, run
  <2>2. next <= next'
    BY <1>0, <2>1
  <2>3. \A u \in unions' : Below(u[1], next') /\ Below(u[2], next')
    BY <2>1 DEF Below
  <2> QED
    BY <2>1, <2>2, <2>3, IdsKept
<1>5. ASSUME NEW f \in Fns, ClearTable(f)
      PROVE  IdsInv'
  <2>1. rows' \subseteq rows /\ UNCHANGED <<canon, next, inserts, unions, predicted, todo>>
    BY <1>5 DEF ClearTable, staged, run
  <2>2. next <= next'
    BY <1>0, <2>1
  <2> QED
    BY <2>1, <2>2, IdsKept
<1>6. ASSUME NEW R \in Rulesets, RunRules(R)
      PROVE  IdsInv'
  <2>1. todo' = UNION {NewMatches(r) : r \in R}
        /\ UNCHANGED <<rows, canon, next, inserts, unions, predicted>>
    BY <1>6 DEF RunRules, store, staged
  <2>2. next <= next'
    BY <1>0, <2>1
  <2>3. R \subseteq Rules
    BY EGraphAssumption
  <2>4. ASSUME NEW m \in todo', NEW v \in Vars PROVE Below(m.env[v], next')
    <3>1. PICK r \in Rules : m \in Matches(r)
      BY <2>1, <2>3 DEF NewMatches
    <3>2. m.env[v] = 0 \/ \E q \in rows : m.env[v] \in IdsOf(q)
      BY <3>1, MatchIds
    <3>3. Below(m.env[v], next)
      BY <3>2 DEF IdsInv, MintedInv, RowBelow, Below
    <3> QED
      BY <2>1, <3>3 DEF Below
  <2> QED
    BY <2>1, <2>2, <2>4, IdsKept
<1> QED
  BY <1>1, <1>2, <1>3, <1>4, <1>5, <1>6 DEF Command

\* A rule writes ids of its match, a row's output, or a new one.
LEMMA IdsFire ==
    ASSUME TypeOK, TypeOK', IdsInv, NEW m \in todo, Fire(m)
    PROVE  IdsInv'
<1>0. Id \subseteq Nat /\ next \in Nat
  BY IdsAreNaturals
<1>1. \A x \in IdsOf(Effect(m)) : Below(x, next)
  BY EffectMinted
<1>2. Below(Effect(m).val, next)
  BY <1>1, FactRowIds
<1>3. UNCHANGED <<canon, rows>> /\ todo' \subseteq todo
  BY DEF Fire, Take, RewriteKnown, RewritePredicted, RewriteFresh, FireSet, FireDelete, FirePanic, store
<1>4. CASE RewriteKnown(m)
  <2>1. PICK r \in rows : unions' = unions \cup {<<Effect(m).val, r.val>>}
    BY <1>4 DEF RewriteKnown, StageUnion
  <2>2. Below(r.val, next)
    BY DEF IdsInv, MintedInv, RowBelow, IdsOf
  <2>3. UNCHANGED <<next, inserts, predicted>> /\ next <= next'
    BY <1>0, <1>4 DEF RewriteKnown, counters
  <2>4. \A u \in unions' : u \in unions \/ (Below(u[1], next') /\ Below(u[2], next'))
    BY <1>2, <2>1, <2>2, <2>3 DEF Below
  <2> QED
    BY <1>3, <2>3, <2>4, IdsKept
<1>5. CASE RewritePredicted(m)
  <2>1. PICK q \in predicted : unions' = unions \cup {<<Effect(m).val, q.val>>}
    BY <1>5 DEF RewritePredicted, StageUnion
  <2>2. Below(q.val, next)
    BY DEF IdsInv, MintedInv
  <2>3. UNCHANGED <<next, inserts, predicted>> /\ next <= next'
    BY <1>0, <1>5 DEF RewritePredicted, counters
  <2>4. \A u \in unions' : u \in unions \/ (Below(u[1], next') /\ Below(u[2], next'))
    BY <1>2, <2>1, <2>2, <2>3 DEF Below
  <2> QED
    BY <1>3, <2>3, <2>4, IdsKept
<1>6. CASE RewriteFresh(m)
  <2> DEFINE h == Effect(m)
  <2>1. /\ next' = next + 1
        /\ inserts' = inserts \cup {Row(h.fn, h.key, next, ts)}
        /\ predicted' = predicted \cup {Fact(h.fn, h.key, next)}
        /\ unions' = unions \cup {<<h.val, next>>}
    BY <1>6 DEF RewriteFresh, StageUnion
  <2> HIDE DEF h
  <2>2. next <= next' /\ next < next'
    BY <1>0, <2>1
  <2>3. IsFact(h)
    BY EffectType DEF TypeOK, h
  <2>4. \A x \in IdsOf(h) : Below(x, next')
    <3>1. \A x \in IdsOf(h) : x \in Nat
      BY <1>0, <2>3, RowIds
    <3>2. \A x \in IdsOf(h) : Below(x, next)
      BY <1>1 DEF h
    <3>3. next \in Nat /\ next' \in Nat
      BY <1>0, <2>1
    <3>4. \A x \in Nat : Below(x, next) => Below(x, next')
      BY <2>2, <3>3 DEF Below
    <3> QED
      BY <3>1, <3>2, <3>4
  <2>5. Below(next, next') /\ Below(h.val, next')
    <3>1. Below(h.val, next')
      BY <2>4, FactRowIds
    <3>2. next < next' \/ next = 0
      BY <2>2
    <3>3. ASSUME NEW x, x < next' \/ x = 0 PROVE Below(x, next')
      BY <3>3 DEF Below
    <3> QED
      BY <1>0, <2>1, <3>1, <3>2 DEF Below
  <2>6. RowBelow(Row(h.fn, h.key, next, ts), next')
    BY <2>4, <2>5, FactRowIds DEF RowBelow
  <2>7. \A u \in unions' : u \in unions \/ (Below(u[1], next') /\ Below(u[2], next'))
    BY <2>1, <2>5
  <2>8. \A q \in predicted' : q \in predicted \/ Below(q.val, next')
    BY <2>1, <2>5, BuiltIds
  <2> QED
    BY <1>3, <2>1, <2>2, <2>6, <2>7, <2>8, IdsKept
<1>7. CASE FireSet(m)
  <2>1. inserts' = inserts \cup {Row(Effect(m).fn, Effect(m).key, Effect(m).val, ts)}
    BY <1>7 DEF FireSet
  <2>2. UNCHANGED <<next, unions, predicted>> /\ next <= next'
    BY <1>0, <1>7 DEF FireSet, counters
  <2>3. RowBelow(Row(Effect(m).fn, Effect(m).key, Effect(m).val, ts), next)
    BY <1>1, FactRowIds DEF RowBelow
  <2>4. \A r \in inserts' : r \in inserts \/ RowBelow(r, next')
    BY <2>1, <2>2, <2>3 DEF RowBelow, Below
  <2> QED
    BY <1>3, <2>2, <2>4, IdsKept
<1>8. CASE FireDelete(m) \/ FirePanic(m)
  <2>1. UNCHANGED <<next, inserts, unions, predicted>> /\ next <= next'
    BY <1>0, <1>8 DEF FireDelete, FirePanic, counters, staged
  <2> QED
    BY <1>3, <2>1, IdsKept
<1> QED
  BY <1>4, <1>5, <1>6, <1>7, <1>8 DEF Fire

\* Linking the larger of two handed-out leaders below the smaller one.
LEMMA LeadersLinked ==
    ASSUME TypeOK, LeadersInv,
           NEW child \in Id, NEW parent \in Id, parent < child,
           canon[child] = child, canon[parent] = parent,
           child < next, next' = next, canon' = Linked(child, parent)
    PROVE  LeadersInv'
<1>0. Id \subseteq Nat /\ next \in Nat /\ canon \in [Id -> Id]
  BY IdsAreNaturals
<1> SUFFICES ASSUME NEW x \in Id
             PROVE  /\ canon'[x] <= x
                    /\ canon'[canon'[x]] = canon'[x]
                    /\ canon'[x] # x => x < next
  BY DEF LeadersInv
<1>1. \A i \in Id : canon'[i] = IF canon[i] = child THEN parent ELSE canon[i]
  BY DEF Linked
<1>2. canon[x] \in Id /\ canon[x] <= x /\ canon[canon[x]] = canon[x] /\ (canon[x] # x => x < next)
  BY <1>0 DEF LeadersInv
<1>3. CASE canon[x] = child
  <2>1. canon'[x] = parent /\ canon'[parent] = parent
    BY <1>1, <1>3
  <2>2. child \in Nat /\ parent \in Nat /\ x \in Nat
    BY <1>0
  <2>3. parent <= x
    BY <1>2, <1>3, <2>2
  <2>4. x < next
    BY <1>2, <1>3
  <2> QED
    BY <2>1, <2>3, <2>4
<1>4. CASE canon[x] # child
  <2>1. canon'[x] = canon[x]
    BY <1>1, <1>4
  <2>2. canon'[canon[x]] = canon[x]
    BY <1>1, <1>2, <1>4
  <2> QED
    BY <1>2, <2>1, <2>2
<1> QED
  BY <1>3, <1>4

\* What a merged union does to the leaders, with names for the two it compares.
LEMMA UnionLinks ==
    ASSUME TypeOK, IdsInv, NEW u \in unions, MergeUnion(u)
    PROVE  \/ canon[u[1]] = canon[u[2]] /\ UNCHANGED <<canon, displaced, changed>>
           \/ /\ canon[u[1]] # canon[u[2]]
              /\ changed' = TRUE
              /\ \E child, parent \in Id :
                    /\ \/ child = canon[u[1]] /\ parent = canon[u[2]]
                       \/ child = canon[u[2]] /\ parent = canon[u[1]]
                    /\ parent < child /\ child < next
                    /\ canon[child] = child /\ canon[parent] = parent
                    /\ canon' = Linked(child, parent)
                    /\ displaced' = Append(displaced, child)
<1> DEFINE x == canon[u[1]]
           y == canon[u[2]]
           parent == Smaller(x, y)
           child == IF parent = x THEN y ELSE x
<1>0. Id \subseteq Nat /\ next \in Nat /\ canon \in [Id -> Id]
  BY IdsAreNaturals
<1>1. u[1] \in Id /\ u[2] \in Id
  BY DEF TypeOK
<1>2. x \in Id /\ y \in Id /\ canon[x] = x /\ canon[y] = y
  BY <1>0, <1>1 DEF IdsInv, LeadersInv
<1>3. ASSUME NEW i \in {1, 2}, canon[u[i]] # 0 PROVE canon[u[i]] < next
  <2>1. u[i] \in Id /\ canon[u[i]] \in Nat /\ u[i] \in Nat
    BY <1>0, <1>1, <1>3
  <2>2. canon[u[i]] <= u[i]
    BY <2>1 DEF IdsInv, LeadersInv
  <2>3. Below(u[i], next)
    BY DEF IdsInv, MintedInv
  <2>4. u[i] < next
    BY <1>3, <2>1, <2>2, <2>3 DEF Below
  <2> QED
    BY <1>0, <2>1, <2>2, <2>4
<1>4. x # y => /\ canon' = Linked(child, parent)
               /\ displaced' = Append(displaced, child)
               /\ changed' = TRUE
  BY DEF MergeUnion
<1>5. x = y => UNCHANGED <<canon, displaced, changed>>
  BY DEF MergeUnion
<1>6. /\ x # 0 => x < next
      /\ y # 0 => y < next
  BY <1>3
<1>7. x \in Nat /\ y \in Nat
  BY <1>0, <1>2
<1>8. x # y => \/ child = x /\ parent = y /\ y < x
               \/ child = y /\ parent = x /\ x < y
  <2> HIDE DEF x, y
  <2> QED
    BY <1>7 DEF Smaller
<1>9. x # y => child \in Id /\ parent \in Id /\ parent < child /\ child < next
  <2> HIDE DEF x, y, child, parent
  <2> QED
    BY <1>2, <1>6, <1>7, <1>8
<1>10. x # y => canon[child] = child /\ canon[parent] = parent
  BY <1>2, <1>8
<1>11. CASE x = y
  BY <1>5, <1>11
<1>12. CASE x # y
  <2> HIDE DEF parent, child
  <2>1. \/ child = canon[u[1]] /\ parent = canon[u[2]]
        \/ child = canon[u[2]] /\ parent = canon[u[1]]
    BY <1>8, <1>12
  <2> HIDE DEF x, y
  <2> QED
    BY <1>4, <1>9, <1>10, <1>12, <2>1 DEF x, y
<1> QED
  BY <1>11, <1>12

\* Merging moves staged rows into the tables and stages unions of their outputs.
LEMMA IdsMerge ==
    ASSUME TypeOK, TypeOK', IdsInv, Merge
    PROVE  IdsInv'
<1>0. Id \subseteq Nat /\ next \in Nat /\ next' = next /\ next <= next'
  <2>1. next' = next
    BY DEF Merge, MergeRemoves, InsertNew, InsertMerged, MergeUnion, counters
  <2> QED
    BY <2>1, IdsAreNaturals
<1>1. UNCHANGED <<predicted, todo>>
  BY DEF Merge, MergeRemoves, InsertNew, InsertMerged, MergeUnion, run
<1>2. ASSUME NEW f \in Fns, MergeRemoves(f)
      PROVE  IdsInv'
  <2>1. rows' \subseteq rows /\ UNCHANGED <<canon, inserts, unions>>
    BY <1>2 DEF MergeRemoves
  <2> QED
    BY <1>0, <1>1, <2>1, IdsKept
<1>3. ASSUME NEW n \in inserts, InsertNew(n)
      PROVE  IdsInv'
  <2>1. rows' \cup inserts' \subseteq rows \cup inserts /\ UNCHANGED <<canon, unions>>
    BY <1>3 DEF InsertNew, Mergeable
  <2> QED
    BY <1>0, <1>1, <2>1, IdsKept
<1>4. ASSUME NEW n \in inserts, InsertMerged(n)
      PROVE  IdsInv'
  <2>1. PICK r \in rows : /\ rows' = MergedRows(r, n)
                          /\ unions' = unions \cup UnionId(r.val, n.val)
    BY <1>4 DEF InsertMerged, Collisions
  <2>2. rows' \cup inserts' \subseteq rows \cup inserts /\ canon' = canon
    BY <1>4, <2>1 DEF InsertMerged, MergedRows, Mergeable
  <2>3. Below(r.val, next) /\ Below(n.val, next)
    BY DEF IdsInv, MintedInv, RowBelow, IdsOf
  <2>4. \A u \in unions' : u \in unions \/ (Below(u[1], next') /\ Below(u[2], next'))
    BY <1>0, <2>1, <2>3 DEF UnionId
  <2> QED
    BY <1>0, <1>1, <2>2, <2>4, IdsKept
<1>5. ASSUME NEW u \in unions, MergeUnion(u)
      PROVE  IdsInv'
  <2>1. unions' \subseteq unions /\ UNCHANGED <<rows, inserts>>
    BY <1>5 DEF MergeUnion, Drained
  <2>2. MintedInv'
    <3>1. MintedInv
      BY DEF IdsInv
    <3> QED
      BY <1>0, <1>1, <2>1, <3>1 DEF MintedInv
  <2>3. LeadersInv
    BY DEF IdsInv
  <2>4. LeadersInv'
    <3>1. CASE canon' = canon
      BY <1>0, <2>3, <3>1 DEF LeadersInv
    <3>2. ASSUME NEW child \in Id, NEW parent \in Id, parent < child, child < next,
                 canon[child] = child, canon[parent] = parent, canon' = Linked(child, parent)
          PROVE  LeadersInv'
      BY <1>0, <2>3, <3>2, LeadersLinked
    <3> QED
      BY <1>5, <3>1, <3>2, UnionLinks
  <2> QED
    BY <2>2, <2>4 DEF IdsInv
<1> QED
  BY <1>2, <1>3, <1>4, <1>5 DEF Merge

\* A rebuild writes leaders of ids that were handed out.
LEMMA IdsRebuild ==
    ASSUME TypeOK, TypeOK', IdsInv, NEW incr \in SUBSET Fns, RebuildTables(incr)
    PROVE  IdsInv'
<1>0. Id \subseteq Nat /\ next \in Nat /\ canon \in [Id -> Id]
  BY IdsAreNaturals
<1>1. UNCHANGED <<rows, canon, unions, next, predicted, todo>> /\ next <= next'
  BY <1>0 DEF RebuildTables, store, counters, run
<1>2. \A n \in inserts' : \E r \in rows : n = CanonRow(r, ts)
  BY DEF RebuildTables
<1>3. ASSUME NEW r \in rows, NEW y \in IdsOf(CanonRow(r, ts)) PROVE Below(y, next')
  <2>1. PICK x \in IdsOf(r) : y = canon[x]
    BY <1>3, CanonRowIds
  <2>2. x \in Id
    BY <2>1, RowIds DEF TypeOK
  <2>3. Below(x, next)
    BY <2>1 DEF IdsInv, MintedInv, RowBelow
  <2>4. canon[x] <= x /\ canon[x] \in Nat /\ x \in Nat
    BY <1>0, <2>2 DEF IdsInv, LeadersInv
  <2>5. y < next \/ y = 0
    BY <1>0, <2>1, <2>3, <2>4 DEF Below
  <2> QED
    BY <1>1, <2>5 DEF Below
<1>4. \A n \in inserts' : RowBelow(n, next')
  BY <1>2, <1>3 DEF RowBelow
<1> QED
  BY <1>1, <1>4, IdsKept

\* Only handed-out ids are in use, in every reachable state.
LEMMA IdsInvHolds == Spec => []IdsInv
<1>1. TypeOK /\ Init => IdsInv
  <2> SUFFICES ASSUME TypeOK, Init PROVE IdsInv
    OBVIOUS
  <2>1. LeadersInv
    BY IdsAreNaturals DEF Init, LeadersInv
  <2>2. MintedInv
    BY DEF Init, MintedInv
  <2> QED
    BY <2>1, <2>2 DEF IdsInv
<1>2. TypeOK /\ TypeOK' /\ IdsInv /\ [Next]_vars => IdsInv'
  <2> SUFFICES ASSUME TypeOK, TypeOK', IdsInv, [Next]_vars PROVE IdsInv'
    OBVIOUS
  <2>0. next \in Nat /\ next <= next
    BY IdsAreNaturals
  <2>1. CASE EndFiring \/ Return
    <3>1. UNCHANGED <<rows, canon, inserts, unions, next, predicted>> \/
            (UNCHANGED <<rows, canon, inserts, unions, next>> /\ predicted' = {})
      BY <2>1 DEF EndFiring, Return, RunFails, SkipRebuild, EnterRebuild, EndPass, store, staged,
                  counters, run
    <3>2. todo' \subseteq todo
      BY <2>1 DEF EndFiring, Return, RunFails, SkipRebuild, EnterRebuild, EndPass, run
    <3> QED
      BY <2>0, <3>1, <3>2, IdsKept
  <2>2. CASE UNCHANGED vars
    BY <2>0, <2>2, IdsKept DEF vars, store, staged, counters, run
  <2> QED
    BY <2>1, <2>2, IdsCommand, IdsFire, IdsMerge, IdsRebuild DEF Next, Engine
<1> QED
  BY <1>1, <1>2, TypeCorrect, PTL DEF Spec

-----------------------------------------------------------------------------
(* Where stale ids may be.  What the tables will hold once the staged removals *)
(* are applied, and what is staged, mention only the ids of a set S: all        *)
(* leaders, or the leaders and the ids displaced since the tracker's mark.      *)

Leaders    == {x \in Id : Canonical(x)}
TrackedIds == Leaders \cup RecentlyDisplaced

Confined(S) ==
    /\ \A r \in rows : <<r.fn, r.key>> \notin removes => IdsOf(r) \subseteq S
    /\ \A n \in inserts : IdsOf(n) \subseteq S

MatchesConfined(S) == \A m \in todo : \A v \in Vars : m.env[v] \in S

\* Callers hold leaders, and matches are found in the tables.
LEMMA ConfinedCommand ==
    ASSUME TypeOK, IdsInv, SeminaiveInv, Command, removes = {},
           NEW S, Leaders \subseteq S, Confined(S)
    PROVE  Confined(S)' /\ MatchesConfined(S)'
<1>0. Id \subseteq Nat /\ next \in Nat /\ canon \in [Id -> Id]
  BY IdsAreNaturals
<1>1. pc = "idle" /\ inserts = {} /\ todo = {}
  <2>1. pc = "idle"
    BY DEF Command, Issue, FreshId, AddTerm, AddValues, Union, ClearTable, RunRules
  <2> QED
    BY <2>1 DEF SeminaiveInv
<1>2. \A r \in rows : IdsOf(r) \subseteq S
  BY DEF Confined
<1>3. rows' \subseteq rows
  BY DEF Command, FreshId, AddTerm, AddValues, Union, ClearTable, RunRules, store
<1>4. \A x \in Id : Live(x) => x \in S
  BY DEF Live, Leaders
<1>5. ASSUME NEW f \in Fns, NEW k \in [1 .. Arity[f] -> Id], AddTerm(f, k)
      PROVE  \A n \in inserts' : IdsOf(n) \subseteq S
  <2>1. inserts' = {Row(f, k, next, ts)} /\ \A i \in DOMAIN k : Live(k[i])
    BY <1>5 DEF AddTerm
  <2>2. next \in Id
    BY <1>0, <1>5, EGraphAssumption DEF AddTerm, Id
  <2>3. ~(next < next)
    BY <1>0
  <2>4. next \in Leaders
    BY <2>2, <2>3 DEF IdsInv, LeadersInv, Leaders, Canonical
  <2>5. \A i \in DOMAIN k : k[i] \in S
    BY <1>4, <2>1
  <2>6. IdsOf(Row(f, k, next, ts)) = {k[i] : i \in DOMAIN k} \cup {next}
    BY DEF IdsOf, Row
  <2>7. IdsOf(Row(f, k, next, ts)) \subseteq S
    BY <2>4, <2>5, <2>6
  <2> QED
    BY <2>1, <2>7
<1>6. ASSUME NEW d1 \in BulkRows, NEW d2 \in BulkRows, AddValues({d1, d2})
      PROVE  \A n \in inserts' : IdsOf(n) \subseteq S
  <2>1. /\ inserts' = {Row(d.fn, d.key, d.val, ts) : d \in {d1, d2}}
        /\ \A d \in {d1, d2} : \A x \in IdsOf(d) : Live(x)
    BY <1>6 DEF AddValues
  <2>2. \A d \in BulkRows : IsFact(d)
    BY EGraphAssumption DEF IsFact
  <2>3. \A d \in {d1, d2} : IdsOf(d) \subseteq S
    BY <1>4, <2>1, <2>2, RowIds
  <2>4. \A d \in {d1, d2} : IdsOf(Row(d.fn, d.key, d.val, ts)) \subseteq S
    BY <2>3, FactRowIds
  <2> QED
    BY <2>1, <2>4
<1>7. ASSUME \/ FreshId
             \/ \E x, y \in Id : Union(x, y)
             \/ \E f \in Fns : ClearTable(f)
             \/ \E R \in Rulesets : RunRules(R)
      PROVE  \A n \in inserts' : IdsOf(n) \subseteq S
  <2>1. inserts' = inserts
    BY <1>7 DEF FreshId, Union, ClearTable, RunRules, staged
  <2> QED
    BY <1>1, <2>1
<1>8. \A n \in inserts' : IdsOf(n) \subseteq S
  BY <1>5, <1>6, <1>7 DEF Command
<1>9. ASSUME NEW R \in Rulesets, RunRules(R) PROVE MatchesConfined(S)'
  <2>1. todo' = UNION {NewMatches(r) : r \in R}
    BY <1>9 DEF RunRules
  <2>2. R \subseteq Rules
    BY EGraphAssumption
  <2>3. ASSUME NEW m \in todo', NEW v \in Vars PROVE m.env[v] \in S
    <3>1. PICK r \in Rules : m \in Matches(r)
      BY <2>1, <2>2 DEF NewMatches
    <3>2. m.env[v] = 0 \/ \E q \in rows : m.env[v] \in IdsOf(q)
      BY <3>1, MatchIds
    <3>3. m.env[v] \in Id
      BY <3>1 DEF Matches
    <3>4. CASE m.env[v] = 0
      <4>1. 0 \in Id /\ canon[0] \in Nat /\ canon[0] <= 0
        BY <1>0, <3>3, <3>4 DEF IdsInv, LeadersInv
      <4>2. canon[0] = 0
        BY <4>1
      <4> QED
        BY <3>4, <4>1, <4>2 DEF Leaders, Canonical
    <3> QED
      BY <1>2, <3>2, <3>4
  <2> QED
    BY <2>3 DEF MatchesConfined
<1>10. CASE ~ \E R \in Rulesets : RunRules(R)
  <2>1. todo' = todo
    BY <1>10 DEF Command, FreshId, AddTerm, AddValues, Union, ClearTable, run
  <2> QED
    BY <1>1, <1>2, <1>3, <1>8, <2>1 DEF Confined, MatchesConfined
<1> QED
  BY <1>2, <1>3, <1>8, <1>9, <1>10 DEF Confined

\* An action's rows hold ids of its match, or a new id.
LEMMA ConfinedFire ==
    ASSUME TypeOK, IdsInv, NEW m \in todo, Fire(m),
           NEW S, Leaders \subseteq S, Confined(S), MatchesConfined(S)
    PROVE  Confined(S)' /\ MatchesConfined(S)'
<1>0. Id \subseteq Nat /\ next \in Nat /\ canon \in [Id -> Id]
  BY IdsAreNaturals
<1>1. rows' = rows /\ removes \subseteq removes' /\ todo' \subseteq todo
  BY DEF Fire, Take, RewriteKnown, RewritePredicted, RewriteFresh, FireSet, FireDelete, FirePanic, store,
         staged
<1>2. \A x \in IdsOf(Effect(m)) : x \in S
  <2>1. \A x \in IdsOf(Effect(m)) : \E v \in Vars : x = m.env[v]
    BY EffectIds DEF TypeOK
  <2> QED
    BY <2>1 DEF MatchesConfined
<1>3. CASE RewriteFresh(m)
  <2>1. inserts' = inserts \cup {Row(Effect(m).fn, Effect(m).key, next, ts)}
    BY <1>3 DEF RewriteFresh
  <2>2. next \in Id
    BY <1>0, <1>3, EGraphAssumption DEF RewriteFresh, Id
  <2>3. ~(next < next)
    BY <1>0
  <2>4. next \in Leaders
    BY <2>2, <2>3 DEF IdsInv, LeadersInv, Leaders, Canonical
  <2>5. IdsOf(Row(Effect(m).fn, Effect(m).key, next, ts)) \subseteq S
    BY <1>2, <2>4, FactRowIds
  <2> QED
    BY <1>1, <2>1, <2>5 DEF Confined, MatchesConfined
<1>4. CASE FireSet(m)
  <2>1. inserts' = inserts \cup {Row(Effect(m).fn, Effect(m).key, Effect(m).val, ts)}
    BY <1>4 DEF FireSet
  <2>2. IdsOf(Row(Effect(m).fn, Effect(m).key, Effect(m).val, ts)) \subseteq S
    BY <1>2, FactRowIds
  <2> QED
    BY <1>1, <2>1, <2>2 DEF Confined, MatchesConfined
<1>5. CASE RewriteKnown(m) \/ RewritePredicted(m) \/ FireDelete(m) \/ FirePanic(m)
  <2>1. inserts' = inserts
    BY <1>5 DEF RewriteKnown, RewritePredicted, FireDelete, FirePanic, staged
  <2> QED
    BY <1>1, <2>1 DEF Confined, MatchesConfined
<1> QED
  BY <1>3, <1>4, <1>5 DEF Fire

\* Merging applies removals and moves staged rows into the tables.
LEMMA ConfinedMerge ==
    ASSUME Merge, NEW S, Confined(S)
    PROVE  Confined(S)'
<1>1. ASSUME NEW f \in Fns, MergeRemoves(f)
      PROVE  Confined(S)'
  <2>1. /\ removes' = {d \in removes : d[1] # f}
        /\ rows' = {r \in rows : <<r.fn, r.key>> \notin removes \/ r.fn # f}
        /\ inserts' = inserts
    BY <1>1 DEF MergeRemoves
  <2>2. \A r \in rows' : <<r.fn, r.key>> \notin removes' => <<r.fn, r.key>> \notin removes
    BY <2>1
  <2> QED
    BY <2>1, <2>2 DEF Confined
<1>2. ASSUME NEW n \in inserts, InsertNew(n) \/ InsertMerged(n)
      PROVE  Confined(S)'
  <2>1. rows' \subseteq rows \cup {n} /\ inserts' \subseteq inserts /\ removes' = removes
    BY <1>2 DEF InsertNew, InsertMerged, MergedRows, Mergeable
  <2> QED
    BY <2>1 DEF Confined
<1>3. ASSUME NEW u \in unions, MergeUnion(u)
      PROVE  Confined(S)'
  BY <1>3 DEF MergeUnion, Confined
<1> QED
  BY <1>1, <1>2, <1>3 DEF Merge

\* The rows a rebuild leaves alone mention leaders only, and so do those it stages:
\* a row that mentions a stale id is dirty, in a full scan by definition and in an
\* incremental one because the id was displaced since the mark.
LEMMA ConfinedRebuild ==
    ASSUME TypeOK, IdsInv, removes = {}, Confined(TrackedIds),
           NEW incr \in SUBSET Fns, RebuildTables(incr)
    PROVE  Confined(Leaders)' /\ Leaders' = Leaders
<1>0. canon \in [Id -> Id]
  BY IdsAreNaturals
<1>1. PICK dirty : /\ dirty = {r \in rows : IF r.fn \in incr THEN IdsOf(r) \cap RecentlyDisplaced # {}
                                                           ELSE ~IsCanonical(r)}
                   /\ removes' = {<<r.fn, r.key>> : r \in dirty}
                   /\ inserts' = {CanonRow(r, ts) : r \in dirty}
  BY DEF RebuildTables
<1>2. UNCHANGED <<rows, canon>>
  BY DEF RebuildTables, store
<1>3. Leaders' = Leaders
  BY <1>2 DEF Leaders, Canonical
<1>4. ASSUME NEW r \in rows, <<r.fn, r.key>> \notin removes' PROVE IdsOf(r) \subseteq Leaders
  <2>1. r \notin dirty
    BY <1>1, <1>4
  <2>2. IdsOf(r) \subseteq Id
    BY RowIds DEF TypeOK
  <2>3. IdsOf(r) \subseteq TrackedIds
    BY DEF Confined
  <2>4. CASE r.fn \in incr
    BY <1>1, <2>1, <2>3, <2>4 DEF TrackedIds
  <2>5. CASE r.fn \notin incr
    BY <1>1, <2>1, <2>2, <2>5 DEF IsCanonical, Leaders
  <2> QED
    BY <2>4, <2>5
<1>5. ASSUME NEW r \in dirty PROVE IdsOf(CanonRow(r, ts)) \subseteq Leaders
  <2> SUFFICES ASSUME NEW y \in IdsOf(CanonRow(r, ts)) PROVE y \in Leaders
    OBVIOUS
  <2>1. PICK x \in IdsOf(r) : y = canon[x]
    BY CanonRowIds
  <2>2. x \in Id
    BY <1>1, <2>1, RowIds DEF TypeOK
  <2> QED
    BY <1>0, <2>1, <2>2 DEF IdsInv, LeadersInv, Leaders, Canonical
<1> QED
  BY <1>1, <1>2, <1>3, <1>4, <1>5 DEF Confined

TrackInv ==
    /\ tracker <= Len(displaced)
    /\ pc \notin {"fire", "merge"} => removes = {} /\ unions = {}
    /\ Confined(TrackedIds)
    /\ MatchesConfined(TrackedIds)

\* A step after which the tracked ids are at least those of before.
LEMMA TrackKept ==
    ASSUME NEW S, S \subseteq TrackedIds', Confined(S)', MatchesConfined(S)',
           tracker' <= Len(displaced'),
           pc' \notin {"fire", "merge"} => removes' = {} /\ unions' = {}
    PROVE  TrackInv'
<1>1. Confined(TrackedIds)'
  BY DEF Confined
<1>2. MatchesConfined(TrackedIds)'
  BY DEF MatchesConfined
<1> QED
  BY <1>1, <1>2 DEF TrackInv

\* The tracked ids depend on the leaders, the displaced table and the mark only.
LEMMA TrackedStays ==
    ASSUME UNCHANGED <<canon, displaced, tracker>>
    PROVE  TrackedIds' = TrackedIds /\ Leaders' = Leaders
BY DEF TrackedIds, Leaders, Canonical, RecentlyDisplaced

\* A union makes one leader stale and appends it behind the mark.
LEMMA TrackedLinked ==
    ASSUME TypeOK, tracker <= Len(displaced), tracker' = tracker,
           NEW child \in Id, NEW parent \in Id, parent # child,
           canon' = Linked(child, parent), displaced' = Append(displaced, child)
    PROVE  TrackedIds \subseteq TrackedIds' /\ tracker <= Len(displaced')
<1>1. /\ displaced \in Seq(Id) /\ Len(displaced) \in Nat /\ tracker \in Nat
      /\ Len(displaced') = Len(displaced) + 1
      /\ \A i \in 1 .. Len(displaced) : displaced'[i] = displaced[i]
      /\ displaced'[Len(displaced) + 1] = child
  BY DEF TypeOK
<1>2. child \in RecentlyDisplaced'
  <2>1. Len(displaced) + 1 \in tracker' + 1 .. Len(displaced')
    BY <1>1
  <2> QED
    BY <1>1, <2>1 DEF RecentlyDisplaced
<1>3. RecentlyDisplaced \subseteq RecentlyDisplaced'
  <2> SUFFICES ASSUME NEW i \in tracker + 1 .. Len(displaced) PROVE displaced[i] \in RecentlyDisplaced'
    BY DEF RecentlyDisplaced
  <2>1. i \in tracker' + 1 .. Len(displaced') /\ i \in 1 .. Len(displaced)
    BY <1>1
  <2> QED
    BY <1>1, <2>1 DEF RecentlyDisplaced
<1>4. ASSUME NEW x \in Leaders PROVE x = child \/ x \in Leaders'
  <2>1. x \in Id /\ canon[x] = x
    BY DEF Leaders, Canonical
  <2>2. canon'[x] = IF canon[x] = child THEN parent ELSE canon[x]
    BY <2>1 DEF Linked
  <2>3. Leaders' = {y \in Id : canon'[y] = y}
    BY DEF Leaders, Canonical
  <2> QED
    BY <2>1, <2>2, <2>3
<1>5. TrackedIds' = Leaders' \cup RecentlyDisplaced'
  BY DEF TrackedIds
<1> QED
  BY <1>1, <1>2, <1>3, <1>4, <1>5 DEF TrackedIds

\* Every step keeps stale ids behind the mark out of the tables.
LEMMA TrackNext ==
    ASSUME TypeOK, TypeOK', IdsInv, SeminaiveInv, TrackInv, [Next]_vars
    PROVE  TrackInv'
<1>0. PICK S : S = TrackedIds
  OBVIOUS
<1>1. Leaders \subseteq S /\ Confined(S) /\ MatchesConfined(S) /\ tracker <= Len(displaced)
  BY <1>0 DEF TrackInv, TrackedIds
<1>2. CASE Command
  <2>1. pc = "idle" /\ UNCHANGED <<canon, displaced, tracker>>
    BY <1>2 DEF Command, Issue, FreshId, AddTerm, AddValues, Union, ClearTable, RunRules, store, marks
  <2>2. removes = {} /\ unions = {}
    BY <2>1 DEF TrackInv
  <2>3. Confined(S)' /\ MatchesConfined(S)'
    BY <1>1, <1>2, <2>2, ConfinedCommand
  <2>4. pc' \notin {"fire", "merge"} => removes' = removes /\ unions' = unions
    BY <1>2 DEF Command, FreshId, AddTerm, AddValues, Union, ClearTable, RunRules, StartFlush, staged
  <2>5. S \subseteq TrackedIds' /\ tracker' <= Len(displaced')
    BY <1>0, <1>1, <2>1, TrackedStays
  <2> QED
    BY <2>2, <2>3, <2>4, <2>5, TrackKept
<1>3. ASSUME NEW m \in todo, Fire(m) PROVE TrackInv'
  <2>1. pc' = "fire" /\ UNCHANGED <<canon, displaced, tracker>>
    BY <1>3 DEF Fire, Take, RewriteKnown, RewritePredicted, RewriteFresh, FireSet, FireDelete, FirePanic,
                store, marks, control
  <2>2. Confined(S)' /\ MatchesConfined(S)'
    BY <1>1, <1>3, ConfinedFire
  <2>3. S \subseteq TrackedIds' /\ tracker' <= Len(displaced')
    BY <1>0, <1>1, <2>1, TrackedStays
  <2> QED
    BY <2>1, <2>2, <2>3, TrackKept
<1>4. CASE Merge
  <2>1. pc' = "merge" /\ UNCHANGED <<tracker, todo>>
    BY <1>4 DEF Merge, MergeRemoves, Mergeable, InsertNew, InsertMerged, MergeUnion, control, marks, run
  <2>2. Confined(S)'
    BY <1>1, <1>4, ConfinedMerge
  <2>3. MatchesConfined(S)'
    BY <1>1, <2>1 DEF MatchesConfined
  <2>4. S \subseteq TrackedIds' /\ tracker' <= Len(displaced')
    <3>1. CASE UNCHANGED <<canon, displaced>>
      BY <1>0, <1>1, <2>1, <3>1, TrackedStays
    <3>2. ASSUME NEW u \in unions, MergeUnion(u), ~ UNCHANGED <<canon, displaced>>
          PROVE  S \subseteq TrackedIds' /\ tracker' <= Len(displaced')
      <4>1. PICK child \in Id, parent \in Id :
              parent < child /\ canon' = Linked(child, parent) /\ displaced' = Append(displaced, child)
        BY <3>2, UnionLinks
      <4>2. parent # child
        BY <4>1, IdsAreNaturals
      <4> QED
        BY <1>0, <1>1, <2>1, <4>1, <4>2, TrackedLinked
    <3>3. UNCHANGED <<canon, displaced>> \/ \E u \in unions : MergeUnion(u)
      BY <1>4 DEF Merge, MergeRemoves, InsertNew, InsertMerged
    <3> QED
      BY <3>1, <3>2, <3>3
  <2> QED
    BY <2>1, <2>2, <2>3, <2>4, TrackKept
<1>5. CASE EndFiring \/ Return \/ UNCHANGED vars
  <2>1. /\ UNCHANGED <<rows, inserts, removes, unions, canon, displaced, tracker>>
        /\ todo' \subseteq todo
    BY <1>5 DEF EndFiring, Return, RunFails, SkipRebuild, EnterRebuild, EndPass, vars, store, staged,
                marks, run
  <2>2. pc' \notin {"fire", "merge"} => removes' = {} /\ unions' = {}
    <3>1. CASE EndFiring
      BY <3>1 DEF EndFiring
    <3>2. CASE Return
      BY <2>1, <3>2 DEF Return, RunFails, SkipRebuild, EnterRebuild, EndPass, Merged
    <3>3. CASE UNCHANGED vars
      BY <2>1, <3>3 DEF TrackInv, vars, control
    <3> QED
      BY <1>5, <3>1, <3>2, <3>3
  <2>3. Confined(S)' /\ MatchesConfined(S)'
    BY <1>1, <2>1 DEF Confined, MatchesConfined
  <2>4. S \subseteq TrackedIds' /\ tracker' <= Len(displaced')
    BY <1>0, <1>1, <2>1, TrackedStays
  <2> QED
    BY <2>2, <2>3, <2>4, TrackKept
<1>6. ASSUME NEW incr \in SUBSET Fns, RebuildTables(incr) PROVE TrackInv'
  <2>1. /\ pc = "rebuild" /\ pc' = "merge" /\ todo' = todo
        /\ tracker' = Len(displaced) /\ displaced' = displaced
    BY <1>6 DEF RebuildTables, run, store
  <2>2. removes = {} /\ todo = {} /\ Confined(TrackedIds)
    BY <2>1 DEF TrackInv, SeminaiveInv
  <2>3. PICK L : L = Leaders
    OBVIOUS
  <2>4. Confined(Leaders)' /\ Leaders' = Leaders
    BY <1>6, <2>2, ConfinedRebuild
  <2>5. Confined(L)' /\ MatchesConfined(L)'
    BY <2>1, <2>2, <2>3, <2>4 DEF Confined, MatchesConfined
  <2>6. L \subseteq TrackedIds'
    BY <2>3, <2>4 DEF TrackedIds
  <2>7. tracker' <= Len(displaced')
    <3>1. Len(displaced) \in Nat
      BY DEF TypeOK
    <3> QED
      BY <2>1, <3>1
  <2> QED
    BY <2>1, <2>5, <2>6, <2>7, TrackKept
<1> QED
  BY <1>2, <1>3, <1>4, <1>5, <1>6 DEF Next, Engine

\* The strengthening holds in every reachable state.
LEMMA TrackInvHolds == Spec => []TrackInv
<1>1. Init => TrackInv
  BY DEF Init, TrackInv, Confined, MatchesConfined
<1> QED
  BY <1>1, TrackNext, TypeCorrect, IdsInvHolds, SeminaiveInvHolds, PTL DEF Spec

\* An incremental rebuild looks at enough ids, in every instance.
THEOREM StaleIdsAreTracked == Spec => []StaleIdsTracked
<1>1. TrackInv => StaleIdsTracked
  BY DEF TrackInv, Confined, TrackedIds, Leaders, StaleIdsTracked
<1> QED
  BY <1>1, TrackInvHolds, PTL

-----------------------------------------------------------------------------
(* Between commands the tables mention leaders only.  The strengthening says   *)
(* when they do within a command: while no union has been merged since the      *)
(* command began, and while the pass of a rebuild has changed nothing.          *)

CanonInv ==
    /\ pc = "fire" => ret = "run"
    /\ stop => pc \in {"fire", "merge"} /\ ret = "run"
    /\ pc \in {"fire", "merge"} /\ ret # "rebuild" => ufBefore <= Len(displaced)
    /\ ~aborted /\ pc \in {"idle", "fire"} => Confined(Leaders) /\ MatchesConfined(Leaders)
    /\ ~aborted /\ pc = "fire" => ufBefore = Len(displaced)
    /\ ~aborted /\ pc = "merge" /\ ret # "rebuild" /\ Len(displaced) = ufBefore => Confined(Leaders)
    /\ pc = "merge" /\ ret = "rebuild" /\ ~changed => Confined(Leaders)

\* Confinement to the leaders, carried over a step that keeps the leaders.
LEMMA LeadersStay ==
    ASSUME canon' = canon, NEW L, L = Leaders
    PROVE  /\ Leaders' = Leaders
           /\ Confined(L)' => Confined(Leaders)'
           /\ MatchesConfined(L)' => MatchesConfined(Leaders)'
<1>1. Leaders' = Leaders
  BY DEF Leaders, Canonical
<1> QED
  BY <1>1 DEF Confined, MatchesConfined

\* The table's length is a natural, and grows by one when a union is merged.
LEMMA DisplacedGrows ==
    ASSUME TypeOK, TypeOK', IdsInv, NEW u \in unions, MergeUnion(u)
    PROVE  \/ UNCHANGED <<canon, displaced, changed>>
           \/ changed' = TRUE /\ Len(displaced') = Len(displaced) + 1
<1>1. CASE UNCHANGED <<canon, displaced, changed>>
  BY <1>1
<1>2. ASSUME NEW child \in Id, displaced' = Append(displaced, child)
      PROVE  Len(displaced') = Len(displaced) + 1
  BY <1>2 DEF TypeOK
<1> QED
  BY <1>1, <1>2, UnionLinks

\* Commands start from tables of leaders and stage leaders.
LEMMA CanonCommand ==
    ASSUME TypeOK, IdsInv, SeminaiveInv, TrackInv, CanonInv, Command
    PROVE  CanonInv'
<1>1. pc = "idle" /\ removes = {} /\ UNCHANGED <<canon, displaced, stop, aborted>>
  <2>1. pc = "idle" /\ UNCHANGED <<canon, displaced, stop, aborted>>
    BY DEF Command, Issue, FreshId, AddTerm, AddValues, Union, ClearTable, RunRules, store, run, history
  <2> QED
    BY <2>1 DEF TrackInv
<1>2. ~stop
  BY <1>1 DEF CanonInv
<1>3. PICK L : L = Leaders
  OBVIOUS
<1>4. ~aborted => Confined(Leaders)' /\ MatchesConfined(Leaders)'
  <2> SUFFICES ASSUME ~aborted PROVE Confined(Leaders)' /\ MatchesConfined(Leaders)'
    OBVIOUS
  <2>1. Confined(L)
    BY <1>1, <1>3 DEF CanonInv
  <2>2. Confined(L)' /\ MatchesConfined(L)'
    BY <1>1, <1>3, <2>1, ConfinedCommand
  <2> QED
    BY <1>1, <1>3, <2>2, LeadersStay
<1>5. \/ pc' = "idle"
      \/ pc' = "merge" /\ ret' = "flush" /\ ufBefore' = Len(displaced)
      \/ pc' = "fire" /\ ret' = "run" /\ ufBefore' = Len(displaced)
  BY <1>1 DEF Command, FreshId, AddTerm, AddValues, Union, ClearTable, RunRules, StartFlush, control
<1>6. Len(displaced) \in Nat /\ displaced' = displaced
  BY <1>1 DEF TypeOK
<1>7. ufBefore' = Len(displaced) => ufBefore' <= Len(displaced')
  BY <1>6
<1> QED
  BY <1>1, <1>2, <1>4, <1>5, <1>6, <1>7 DEF CanonInv

\* Firing stages leaders.
LEMMA CanonFire ==
    ASSUME TypeOK, IdsInv, CanonInv, NEW m \in todo, Fire(m)
    PROVE  CanonInv'
<1>1. pc = "fire" /\ UNCHANGED <<pc, ret, ufBefore, canon, displaced, aborted>>
  BY DEF Fire, Take, RewriteKnown, RewritePredicted, RewriteFresh, FireSet, FireDelete, FirePanic, store,
         control, history
<1>2. PICK L : L = Leaders
  OBVIOUS
<1>3. ~aborted => Confined(Leaders)' /\ MatchesConfined(Leaders)'
  <2> SUFFICES ASSUME ~aborted PROVE Confined(Leaders)' /\ MatchesConfined(Leaders)'
    OBVIOUS
  <2>1. Confined(L) /\ MatchesConfined(L)
    BY <1>1, <1>2 DEF CanonInv
  <2>2. Confined(L)' /\ MatchesConfined(L)'
    BY <1>2, <2>1, ConfinedFire
  <2> QED
    BY <1>1, <1>2, <2>2, LeadersStay
<1> QED
  BY <1>1, <1>3 DEF CanonInv

\* A merge that unites nothing stages no stale id; one that does is noticed, in a
\* command by the size of the displaced table and in a pass by its answer.
LEMMA CanonMerge ==
    ASSUME TypeOK, TypeOK', IdsInv, CanonInv, Merge
    PROVE  CanonInv'
<1>1. pc = "merge" /\ UNCHANGED <<pc, ret, ufBefore, stop, aborted>>
  BY DEF Merge, MergeRemoves, Mergeable, InsertNew, InsertMerged, MergeUnion, control, run, history
<1>2. Len(displaced) \in Nat /\ ufBefore \in Nat /\ changed \in BOOLEAN
  BY DEF TypeOK
<1>3. \/ UNCHANGED <<canon, displaced>> /\ (changed => changed')
      \/ changed' = TRUE /\ Len(displaced') = Len(displaced) + 1
  <2>1. CASE \E u \in unions : MergeUnion(u)
    BY <2>1, DisplacedGrows
  <2>2. ASSUME \/ \E f \in Fns : MergeRemoves(f)
               \/ \E n \in inserts : InsertNew(n) \/ InsertMerged(n)
        PROVE  UNCHANGED <<canon, displaced>> /\ (changed => changed')
    <3>1. ASSUME NEW f \in Fns, MergeRemoves(f)
          PROVE  UNCHANGED <<canon, displaced>> /\ (changed => changed')
      BY <3>1 DEF MergeRemoves, control
    <3>2. ASSUME NEW n \in inserts, InsertNew(n)
          PROVE  UNCHANGED <<canon, displaced>> /\ (changed => changed')
      BY <3>2 DEF InsertNew
    <3>3. ASSUME NEW n \in inserts, InsertMerged(n)
          PROVE  UNCHANGED <<canon, displaced>> /\ (changed => changed')
      <4>1. UNCHANGED <<canon, displaced>>
        BY <3>3 DEF InsertMerged
      <4>2. PICK r \in rows : changed' = (changed \/ n.val < r.val)
        BY <3>3 DEF InsertMerged, Collisions
      <4>3. changed => changed'
        BY <4>2, Zenon
      <4> QED
        BY <4>1, <4>3
    <3> QED
      BY <2>2, <3>1, <3>2, <3>3
  <2> QED
    BY <2>1, <2>2 DEF Merge
<1>4. CASE UNCHANGED <<canon, displaced>> /\ (changed => changed')
  <2>1. PICK L : L = Leaders
    OBVIOUS
  <2>2. Confined(Leaders) => Confined(Leaders)'
    <3>1. Confined(L) => Confined(L)'
      BY ConfinedMerge
    <3> QED
      BY <1>4, <2>1, <3>1, LeadersStay
  <2> QED
    BY <1>1, <1>4, <2>2 DEF CanonInv
<1>5. CASE changed' = TRUE /\ Len(displaced') = Len(displaced) + 1
  <2>1. ret # "rebuild" => ufBefore' < Len(displaced')
    <3>1. ret # "rebuild" => ufBefore <= Len(displaced)
      BY <1>1 DEF CanonInv
    <3> QED
      BY <1>1, <1>2, <1>5, <3>1
  <2>2. ret # "rebuild" => ufBefore' <= Len(displaced') /\ Len(displaced') # ufBefore'
    <3>1. Len(displaced') \in Nat /\ ufBefore' \in Nat
      BY DEF TypeOK
    <3> QED
      BY <2>1, <3>1
  <2> QED
    BY <1>1, <1>5, <2>2 DEF CanonInv
<1> QED
  BY <1>3, <1>4, <1>5

\* Returning: a command that goes back to idle has nothing left to rebuild, unless
\* it was aborted.
LEMMA CanonReturn ==
    ASSUME TypeOK, SeminaiveInv, CanonInv, EndFiring \/ Return
    PROVE  CanonInv'
<1>1. UNCHANGED <<rows, inserts, removes, canon, displaced, ufBefore, changed>>
  BY DEF EndFiring, Return, RunFails, SkipRebuild, EnterRebuild, EndPass, store, staged, control
<1>2. Confined(Leaders)' <=> Confined(Leaders)
  BY <1>1 DEF Confined, Leaders, Canonical
<1>3. todo' = {} /\ MatchesConfined(Leaders)'
  <2>1. todo' = {}
    BY DEF EndFiring, Return, RunFails, SkipRebuild, EnterRebuild, EndPass, Merged, SeminaiveInv, run
  <2> QED
    BY <2>1 DEF MatchesConfined
<1>4. CASE EndFiring
  <2>1. pc = "fire" /\ pc' = "merge" /\ UNCHANGED <<ret, stop, aborted>>
    BY <1>4 DEF EndFiring, history
  <2> QED
    BY <1>1, <1>2, <2>1 DEF CanonInv
<1>5. CASE RunFails
  <2>1. pc' = "idle" /\ stop' = FALSE /\ aborted' = TRUE
    BY <1>5 DEF RunFails
  <2> QED
    BY <2>1 DEF CanonInv
<1>6. CASE SkipRebuild
  <2>1. /\ pc = "merge" /\ pc' = "idle" /\ ret # "rebuild" /\ Len(displaced) = ufBefore
        /\ ~stop /\ UNCHANGED <<stop, aborted>>
    BY <1>6 DEF SkipRebuild, Merged, Grown, run, history
  <2> QED
    BY <1>2, <1>3, <2>1 DEF CanonInv
<1>7. CASE EnterRebuild
  <2>1. pc' = "rebuild" /\ ~stop /\ UNCHANGED <<stop, aborted>>
    BY <1>7 DEF EnterRebuild, run, history
  <2> QED
    BY <2>1 DEF CanonInv
<1>8. CASE EndPass
  <2>1. /\ pc = "merge" /\ ret = "rebuild" /\ UNCHANGED <<stop, aborted>>
        /\ pc' = IF changed THEN "rebuild" ELSE "idle"
    BY <1>8 DEF EndPass, Merged, run, history
  <2>2. ~stop
    BY <2>1 DEF CanonInv
  <2> QED
    BY <1>2, <1>3, <2>1, <2>2 DEF CanonInv
<1> QED
  BY <1>4, <1>5, <1>6, <1>7, <1>8 DEF Return

\* The strengthening holds in every reachable state.
LEMMA CanonInvHolds == Spec => []CanonInv
<1>1. Init => CanonInv
  BY DEF Init, CanonInv, Confined, MatchesConfined
<1>2. TypeOK /\ TypeOK' /\ IdsInv /\ SeminaiveInv /\ TrackInv /\ CanonInv /\ [Next]_vars => CanonInv'
  <2> SUFFICES ASSUME TypeOK, TypeOK', IdsInv, SeminaiveInv, TrackInv, CanonInv, [Next]_vars
               PROVE  CanonInv'
    OBVIOUS
  <2>1. ASSUME NEW incr \in SUBSET Fns, RebuildTables(incr) PROVE CanonInv'
    <3>1. /\ pc = "rebuild" /\ pc' = "merge" /\ ret' = "rebuild" /\ UNCHANGED stop
      BY <2>1 DEF RebuildTables, run
    <3>2. removes = {} /\ Confined(TrackedIds) /\ ~stop
      BY <3>1 DEF TrackInv, CanonInv
    <3>3. Confined(Leaders)'
      BY <2>1, <3>2, ConfinedRebuild
    <3> QED
      BY <3>1, <3>2, <3>3 DEF CanonInv
  <2>2. CASE UNCHANGED vars
    <3>1. /\ Confined(Leaders)' <=> Confined(Leaders)
          /\ MatchesConfined(Leaders)' <=> MatchesConfined(Leaders)
      BY <2>2 DEF Confined, MatchesConfined, Leaders, Canonical, vars, store, staged, run
    <3> QED
      BY <2>2, <3>1 DEF CanonInv, vars, store, control, run, history
  <2> QED
    BY <2>1, <2>2, CanonCommand, CanonFire, CanonMerge, CanonReturn DEF Next, Engine
<1> QED
  BY <1>1, <1>2, TypeCorrect, IdsInvHolds, SeminaiveInvHolds, TrackInvHolds, PTL DEF Spec

\* Between commands lookups and matches by canonical id miss nothing, in every
\* instance.
THEOREM TablesAreCanonical == Spec => []CanonicalWhenIdle
<1>1. TypeOK /\ TrackInv /\ CanonInv => CanonicalWhenIdle
  BY DEF TrackInv, CanonInv, Confined, Leaders, IsCanonical, CanonicalWhenIdle
<1> QED
  BY <1>1, TypeCorrect, TrackInvHolds, CanonInvHolds, PTL

-----------------------------------------------------------------------------
(* Completeness of the congruence.  Whatever p settles all that is pending     *)
(* identifies what was asserted and shows every row that was asked for.  At     *)
(* idle the leaders themselves are such a p.                                    *)

\* The rows of the tables once the staged removals are applied, and the staged rows.
Present == {r \in rows : <<r.fn, r.key>> \notin removes} \cup inserts

\* p equates each id with its leader, the sides of each staged union and the
\* outputs of rows whose keys it equates.
Functional(p) ==
    \A a, b \in Present : a.fn = b.fn /\ MapKey(p, a.key) = MapKey(p, b.key) => p[a.val] = p[b.val]

Settles(p) ==
    /\ \A x \in Id : p[x] = p[canon[x]]
    /\ \A u \in unions : p[u[1]] = p[u[2]]
    /\ Functional(p)

Shown(p, d) == \E a \in Present : Justifies(p, a, d)

\* The rows asked for: by callers and rules, and by the matches that fired.
Applied == facts \cup {Effect(m) : m \in {q \in fired : q.rule.op \in {"rewrite", "set"}}}

Complete(p) ==
    /\ \A u \in asserted : p[u[1]] = p[u[2]]
    /\ \A d \in Applied : Shown(p, d)

CompleteInv ==
    /\ predicted \subseteq facts
    /\ ~removed => /\ pc = "fire" => removes = {}
                   /\ \A p \in [Id -> Id] : Settles(p) => Complete(p)

\* Justification is an equivalence.
LEMMA JustifiesEquivalence ==
    ASSUME NEW p, NEW a, NEW b
    PROVE  /\ Justifies(p, a, a)
           /\ Justifies(p, a, b) => Justifies(p, b, a)
           /\ \A c : Justifies(p, a, b) /\ Justifies(p, b, c) => Justifies(p, a, c)
BY DEF Justifies

\* Two rows that represent others force on them what holds of the two.
LEMMA FunctionalPullsBack ==
    ASSUME NEW p, \A a \in Present : \E b \in Present' : Justifies(p, b, a), Functional(p)'
    PROVE  Functional(p)
<1> SUFFICES ASSUME NEW a \in Present, NEW b \in Present,
                    a.fn = b.fn, MapKey(p, a.key) = MapKey(p, b.key)
             PROVE  p[a.val] = p[b.val]
  BY DEF Functional
<1>1. PICK c \in Present' : Justifies(p, c, a)
  OBVIOUS
<1>2. PICK d \in Present' : Justifies(p, d, b)
  OBVIOUS
<1>3. c.fn = d.fn /\ MapKey(p, c.key) = MapKey(p, d.key)
  BY <1>1, <1>2 DEF Justifies
<1>4. p[c.val] = p[d.val]
  BY <1>3 DEF Functional
<1> QED
  BY <1>1, <1>2, <1>4 DEF Justifies

\* A step that keeps a representative of every row present, and whose new
\* assertions and rows are staged.
LEMMA CompleteStep ==
    ASSUME NEW p, Settles(p) => Complete(p), Settles(p)',
           \A x \in Id : p[x] = p[canon[x]],
           \A u \in unions : p[u[1]] = p[u[2]],
           \A a \in Present : \E b \in Present' : Justifies(p, b, a),
           \A u \in asserted' : u \in asserted \/ u \in unions',
           \A d \in Applied' : d \in Applied \/ Shown(p, d)'
    PROVE  Complete(p)'
<1>1. Functional(p)
  BY FunctionalPullsBack DEF Settles
<1>2. Complete(p)
  BY <1>1 DEF Settles
<1>3. ASSUME NEW d \in Applied PROVE Shown(p, d)'
  <2>1. PICK a \in Present : Justifies(p, a, d)
    BY <1>2 DEF Complete, Shown
  <2>2. PICK b \in Present' : Justifies(p, b, a)
    OBVIOUS
  <2>3. Justifies(p, b, d)
    BY <2>1, <2>2, JustifiesEquivalence
  <2> QED
    BY <2>2, <2>3 DEF Shown, Justifies
<1>4. \A u \in asserted' : p[u[1]] = p[u[2]]
  BY <1>2 DEF Complete, Settles
<1> QED
  BY <1>3, <1>4 DEF Complete

\* The same for a step that keeps the leaders and only adds to what is present.
LEMMA CompleteGrows ==
    ASSUME NEW p, Settles(p) => Complete(p), Settles(p)',
           canon' = canon, Present \subseteq Present', unions \subseteq unions',
           \A u \in asserted' : u \in asserted \/ u \in unions',
           \A d \in Applied' : d \in Applied \/ Shown(p, d)'
    PROVE  Complete(p)'
<1>1. \A x \in Id : p[x] = p[canon[x]]
  BY DEF Settles
<1>2. \A u \in unions : p[u[1]] = p[u[2]]
  BY DEF Settles
<1>3. \A a \in Present : \E b \in Present' : Justifies(p, b, a)
  BY JustifiesEquivalence
<1> QED
  BY <1>1, <1>2, <1>3, CompleteStep

\* A row that is staged shows its fact.
LEMMA StagedShows ==
    ASSUME NEW p, NEW n, NEW d, n.fn = d.fn, n.key = d.key, n.val = d.val, n \in inserts'
    PROVE  Shown(p, d)'
<1>1. n \in Present'
  BY DEF Present
<1>2. Justifies(p, n, d)
  BY DEF Justifies
<1> QED
  BY <1>1, <1>2 DEF Shown, Justifies

\* A command stages the rows and unions it asks for.
LEMMA CompleteCommand ==
    ASSUME TypeOK, SeminaiveInv, TrackInv, CompleteInv, Command
    PROVE  CompleteInv'
<1>1. /\ pc = "idle" /\ UNCHANGED <<canon, predicted, fired>>
      /\ facts \subseteq facts' /\ (removed => removed')
  <2>1. pc = "idle" /\ UNCHANGED <<canon, predicted, fired>>
    BY DEF Command, Issue, FreshId, AddTerm, AddValues, Union, ClearTable, RunRules, store, run, history
  <2>2. facts \subseteq facts'
    BY DEF Command, FreshId, AddTerm, AddValues, Union, ClearTable, RunRules, history
  <2>3. removed' = removed \/ removed' = TRUE
    BY DEF Command, FreshId, AddTerm, AddValues, Union, ClearTable, RunRules, history
  <2> QED
    BY <2>1, <2>2, <2>3
<1>2. inserts = {} /\ removes = {} /\ unions = {}
  BY <1>1 DEF SeminaiveInv, TrackInv
<1>3. predicted' \subseteq facts'
  BY <1>1 DEF CompleteInv
<1>4. ASSUME ~removed' PROVE rows' = rows /\ removes' = {}
  BY <1>2, <1>4 DEF Command, FreshId, AddTerm, AddValues, Union, ClearTable, RunRules, store, staged
<1>5. ASSUME ~removed', NEW p \in [Id -> Id], Settles(p)' PROVE Complete(p)'
  <2>1. Settles(p) => Complete(p)
    BY <1>1, <1>5 DEF CompleteInv
  <2>2. Present \subseteq Present' /\ unions \subseteq unions'
    BY <1>2, <1>4, <1>5 DEF Present
  <2>3. \A u \in asserted' : u \in asserted \/ u \in unions'
    BY DEF Command, FreshId, AddTerm, AddValues, Union, ClearTable, RunRules, history
  <2>4. \A d \in facts' : d \in facts \/ Shown(p, d)'
    <3>1. ASSUME NEW f \in Fns, NEW k \in [1 .. Arity[f] -> Id], AddTerm(f, k)
          PROVE  \A d \in facts' : d \in facts \/ Shown(p, d)'
      <4>1. PICK n, d : n = Row(f, k, next, ts) /\ d = Fact(f, k, next)
        OBVIOUS
      <4>2. n \in inserts' /\ facts' = facts \cup {d}
        BY <3>1, <4>1 DEF AddTerm
      <4>3. n.fn = d.fn /\ n.key = d.key /\ n.val = d.val
        BY <4>1 DEF Row, Fact
      <4>4. Shown(p, d)'
        BY <4>2, <4>3, StagedShows
      <4> QED
        BY <4>2, <4>4
    <3>2. ASSUME NEW d1 \in BulkRows, NEW d2 \in BulkRows, AddValues({d1, d2})
          PROVE  \A d \in facts' : d \in facts \/ Shown(p, d)'
      <4>1. facts' = facts \cup {d1, d2}
        BY <3>2 DEF AddValues
      <4>2. ASSUME NEW d \in {d1, d2} PROVE Shown(p, d)'
        <5>1. PICK n : n = Row(d.fn, d.key, d.val, ts)
          OBVIOUS
        <5>2. n \in inserts'
          BY <3>2, <5>1 DEF AddValues
        <5>3. n.fn = d.fn /\ n.key = d.key /\ n.val = d.val
          BY <5>1 DEF Row
        <5> QED
          BY <5>2, <5>3, StagedShows
      <4> QED
        BY <4>1, <4>2
    <3>3. ASSUME \/ FreshId
                 \/ \E x, y \in Id : Union(x, y)
                 \/ \E f \in Fns : ClearTable(f)
                 \/ \E R \in Rulesets : RunRules(R)
          PROVE  \A d \in facts' : d \in facts \/ Shown(p, d)'
      BY <3>3 DEF FreshId, Union, ClearTable, RunRules, history
    <3> QED
      BY <3>1, <3>2, <3>3 DEF Command
  <2>5. \A d \in Applied' : d \in Applied \/ Shown(p, d)'
    BY <1>1, <2>4 DEF Applied
  <2> QED
    BY <1>1, <1>5, <2>1, <2>2, <2>3, <2>5, CompleteGrows
<1> QED
  BY <1>3, <1>4, <1>5 DEF CompleteInv

\* A rule's row is staged, or found in its table or among the predictions and then
\* united with the match's output.
LEMMA CompleteFire ==
    ASSUME TypeOK, CompleteInv, NEW m \in todo, Fire(m)
    PROVE  CompleteInv'
<1>1. /\ pc = "fire" /\ rows' = rows /\ canon' = canon
      /\ fired' = fired \cup {m} /\ unions \subseteq unions' /\ inserts \subseteq inserts'
      /\ removed => removed'
  BY DEF Fire, Take, RewriteKnown, RewritePredicted, RewriteFresh, FireSet, FireDelete, FirePanic, store,
         staged, history, StageUnion
<1>2. predicted' \subseteq facts'
  BY DEF Fire, Take, RewriteKnown, RewritePredicted, RewriteFresh, FireSet, FireDelete, FirePanic,
         CompleteInv
<1>3. ASSUME ~removed' PROVE removes = {} /\ removes' = {}
  <2>1. removes = {}
    BY <1>1, <1>3 DEF CompleteInv
  <2>2. removes' = removes
    BY <1>3 DEF Fire, RewriteKnown, RewritePredicted, RewriteFresh, FireSet, FireDelete, FirePanic, staged
  <2> QED
    BY <2>1, <2>2
<1>4. ASSUME ~removed', NEW p \in [Id -> Id], Settles(p)' PROVE Complete(p)'
  <2>1. Settles(p) => Complete(p)
    BY <1>1, <1>4 DEF CompleteInv
  <2>2. Present \subseteq Present'
    BY <1>1, <1>3, <1>4 DEF Present
  <2>3. \A u \in asserted' : u \in asserted \/ u \in unions'
    BY DEF Fire, RewriteKnown, RewritePredicted, RewriteFresh, FireSet, FireDelete, FirePanic, StageUnion
  <2>4. PICK h : h = Effect(m)
    OBVIOUS
  <2>5. CASE RewriteKnown(m)
    <3>1. PICK r \in rows : r.fn = h.fn /\ r.key = h.key /\ <<h.val, r.val>> \in unions'
      BY <2>4, <2>5 DEF RewriteKnown, StageUnion
    <3>2. p[h.val] = p[r.val]
      BY <1>4, <3>1 DEF Settles
    <3>3. r \in Present'
      BY <1>1, <1>3, <1>4, <3>1 DEF Present
    <3>4. Shown(p, h)'
      BY <3>1, <3>2, <3>3 DEF Shown, Justifies
    <3>5. facts' = facts
      BY <2>5 DEF RewriteKnown
    <3>6. \A d \in Applied' : d \in Applied \/ d = h
      BY <1>1, <2>4, <3>5 DEF Applied
    <3> QED
      BY <1>1, <1>4, <2>1, <2>2, <2>3, <3>4, <3>6, CompleteGrows
  <2>6. CASE RewritePredicted(m)
    <3>1. PICK q \in predicted : q.fn = h.fn /\ q.key = h.key /\ <<h.val, q.val>> \in unions'
      BY <2>4, <2>6 DEF RewritePredicted, StageUnion
    <3>2. p[h.val] = p[q.val]
      BY <1>4, <3>1 DEF Settles
    <3>3. facts' = facts
      BY <2>6 DEF RewritePredicted
    <3>4. Settles(p)
      <4>1. Functional(p)
        BY <1>4, <2>2, JustifiesEquivalence, FunctionalPullsBack DEF Settles
      <4> QED
        BY <1>1, <1>4, <4>1 DEF Settles
    <3>5. PICK a \in Present : Justifies(p, a, q)
      <4>1. q \in Applied
        BY <3>1 DEF CompleteInv, Applied
      <4> QED
        BY <2>1, <3>4, <4>1 DEF Complete, Shown
    <3>6. Justifies(p, a, h)
      BY <3>1, <3>2, <3>5 DEF Justifies
    <3>7. Shown(p, h)'
      BY <2>2, <3>5, <3>6 DEF Shown, Justifies
    <3>8. \A d \in Applied' : d \in Applied \/ d = h
      BY <1>1, <2>4, <3>3 DEF Applied
    <3> QED
      BY <1>1, <1>4, <2>1, <2>2, <2>3, <3>7, <3>8, CompleteGrows
  <2>7. CASE RewriteFresh(m)
    <3>1. PICK n, d : n = Row(h.fn, h.key, next, ts) /\ d = Fact(h.fn, h.key, next)
      OBVIOUS
    <3>2. n \in inserts' /\ facts' = facts \cup {d} /\ <<h.val, next>> \in unions'
      BY <2>4, <2>7, <3>1 DEF RewriteFresh, StageUnion
    <3>3. n.fn = d.fn /\ n.key = d.key /\ n.val = d.val
      BY <3>1 DEF Row, Fact
    <3>4. Shown(p, d)'
      BY <3>2, <3>3, StagedShows
    <3>5. p[h.val] = p[next]
      BY <1>4, <3>2 DEF Settles
    <3>6. n.fn = h.fn /\ n.key = h.key /\ n.val = next
      BY <3>1 DEF Row
    <3>7. Shown(p, h)'
      <4>1. n \in Present'
        BY <3>2 DEF Present
      <4>2. Justifies(p, n, h)
        BY <3>5, <3>6 DEF Justifies
      <4> QED
        BY <4>1, <4>2 DEF Shown, Justifies
    <3>8. \A e \in Applied' : e \in Applied \/ e = h \/ e = d
      BY <1>1, <2>4, <3>2 DEF Applied
    <3> QED
      BY <1>1, <1>4, <2>1, <2>2, <2>3, <3>4, <3>7, <3>8, CompleteGrows
  <2>8. CASE FireSet(m)
    <3>1. PICK n : n = Row(h.fn, h.key, h.val, ts)
      OBVIOUS
    <3>2. n \in inserts' /\ facts' = facts \cup {h}
      BY <2>4, <2>8, <3>1 DEF FireSet
    <3>3. n.fn = h.fn /\ n.key = h.key /\ n.val = h.val
      BY <3>1 DEF Row
    <3>4. Shown(p, h)'
      BY <3>2, <3>3, StagedShows
    <3>5. \A d \in Applied' : d \in Applied \/ d = h
      BY <1>1, <2>4, <3>2 DEF Applied
    <3> QED
      BY <1>1, <1>4, <2>1, <2>2, <2>3, <3>4, <3>5, CompleteGrows
  <2>9. CASE FireDelete(m)
    BY <1>4, <2>9 DEF FireDelete
  <2>10. CASE FirePanic(m)
    <3>1. facts' = facts /\ m.rule.op = "panic"
      BY <2>10 DEF FirePanic
    <3>2. Applied' = Applied
      BY <1>1, <3>1 DEF Applied
    <3> QED
      BY <1>1, <1>4, <2>1, <2>2, <2>3, <3>2, CompleteGrows
  <2> QED
    BY <2>5, <2>6, <2>7, <2>8, <2>9, <2>10 DEF Fire
<1> QED
  BY <1>2, <1>3, <1>4 DEF CompleteInv

\* Merging loses no row without one that represents it, and no union that the
\* leaders do not then express.
LEMMA CompleteMerge ==
    ASSUME TypeOK, IdsInv, CompleteInv, Merge
    PROVE  CompleteInv'
<1>0. /\ pc' = "merge" /\ UNCHANGED <<predicted, facts, asserted, fired, removed>>
  BY DEF Merge, MergeRemoves, Mergeable, InsertNew, InsertMerged, MergeUnion, control, run, history
<1>1. Applied' = Applied
  BY <1>0 DEF Applied
<1> SUFFICES ASSUME ~removed, NEW p \in [Id -> Id], Settles(p)' PROVE Complete(p)'
  BY <1>0 DEF CompleteInv
<1>2. Settles(p) => Complete(p)
  BY DEF CompleteInv
<1>3. ASSUME NEW f \in Fns, MergeRemoves(f) PROVE Complete(p)'
  <2>1. /\ removes' = {d \in removes : d[1] # f}
        /\ rows' = {r \in rows : <<r.fn, r.key>> \notin removes \/ r.fn # f}
        /\ UNCHANGED <<inserts, canon, unions>>
    BY <1>3 DEF MergeRemoves
  <2>2. Present \subseteq Present'
    BY <2>1 DEF Present
  <2> QED
    BY <1>0, <1>1, <1>2, <2>1, <2>2, CompleteGrows
<1>4. ASSUME NEW n \in inserts, InsertNew(n) PROVE Complete(p)'
  <2>1. /\ rows' = rows \cup {n} /\ inserts' = inserts \ {n}
        /\ \A d \in removes : d[1] # n.fn
        /\ UNCHANGED <<removes, canon, unions>>
    BY <1>4 DEF InsertNew, Mergeable
  <2>2. <<n.fn, n.key>> \notin removes
    BY <2>1
  <2>3. Present \subseteq Present'
    BY <2>1, <2>2 DEF Present
  <2> QED
    BY <1>0, <1>1, <1>2, <2>1, <2>3, CompleteGrows
<1>5. ASSUME NEW n \in inserts, InsertMerged(n) PROVE Complete(p)'
  <2>1. PICK r \in rows : /\ r.fn = n.fn /\ r.key = n.key
                          /\ rows' = MergedRows(r, n)
                          /\ unions' = unions \cup UnionId(r.val, n.val)
    BY <1>5 DEF InsertMerged, Collisions
  <2>2. inserts' = inserts \ {n} /\ <<n.fn, n.key>> \notin removes /\ UNCHANGED <<canon, removes>>
    BY <1>5 DEF InsertMerged, Mergeable
  <2>3. p[r.val] = p[n.val]
    <3>1. CASE r.val = n.val
      BY <3>1
    <3>2. CASE r.val # n.val
      <4>1. <<r.val, n.val>> \in unions'
        BY <2>1, <3>2 DEF UnionId
      <4> QED
        BY <4>1 DEF Settles
    <3> QED
      BY <3>1, <3>2
  <2>4. PICK kept \in {r, n} : /\ kept \in Present'
                               /\ Present \subseteq Present' \cup {r, n}
    <3>1. CASE n.val < r.val
      <4>1. rows' = (rows \ {r}) \cup {n}
        BY <2>1, <3>1 DEF MergedRows
      <4> QED
        BY <2>2, <4>1 DEF Present
    <3>2. CASE ~(n.val < r.val)
      <4>1. rows' = rows
        BY <2>1, <3>2 DEF MergedRows
      <4> QED
        BY <2>1, <2>2, <4>1 DEF Present
    <3> QED
      BY <3>1, <3>2
  <2>5. Justifies(p, kept, r) /\ Justifies(p, kept, n)
    BY <2>1, <2>3 DEF Justifies
  <2>6. \A a \in Present : \E b \in Present' : Justifies(p, b, a)
    BY <2>4, <2>5, JustifiesEquivalence
  <2>7. \A x \in Id : p[x] = p[canon[x]]
    BY <2>2 DEF Settles
  <2>8. \A u \in unions : p[u[1]] = p[u[2]]
    BY <2>1 DEF Settles
  <2> QED
    BY <1>0, <1>1, <1>2, <2>6, <2>7, <2>8, CompleteStep
<1>6. ASSUME NEW u \in unions, MergeUnion(u) PROVE Complete(p)'
  <2>1. unions' = unions \ {u} /\ UNCHANGED <<rows, inserts, removes>>
    BY <1>6 DEF MergeUnion, Drained
  <2>2. Present' = Present
    BY <2>1 DEF Present
  <2>3. u[1] \in Id /\ u[2] \in Id /\ canon \in [Id -> Id]
    BY DEF TypeOK
  <2>4. \A x \in Id : canon'[canon[x]] = canon'[x]
    <3>1. CASE canon' = canon
      BY <3>1 DEF IdsInv, LeadersInv
    <3>2. ASSUME NEW child \in Id, NEW parent \in Id, canon' = Linked(child, parent)
          PROVE  \A x \in Id : canon'[canon[x]] = canon'[x]
      BY <2>3, <3>2 DEF Linked, IdsInv, LeadersInv
    <3> QED
      BY <1>6, <3>1, <3>2, UnionLinks
  <2>5. canon'[u[1]] = canon'[u[2]]
    <3>1. CASE canon[u[1]] = canon[u[2]]
      BY <2>3, <2>4, <3>1
    <3>2. ASSUME NEW child \in Id, NEW parent \in Id, canon' = Linked(child, parent),
                 canon[parent] = parent, parent < child,
                 \/ child = canon[u[1]] /\ parent = canon[u[2]]
                 \/ child = canon[u[2]] /\ parent = canon[u[1]]
          PROVE  canon'[u[1]] = canon'[u[2]]
      BY <2>3, <3>2 DEF Linked
    <3> QED
      BY <1>6, <3>1, <3>2, UnionLinks
  <2>6. \A x \in Id : p[x] = p[canon'[x]]
    BY DEF Settles
  <2>7. \A x \in Id : p[x] = p[canon[x]]
    BY <2>3, <2>4, <2>6
  <2>8. \A w \in unions : p[w[1]] = p[w[2]]
    <3>1. p[u[1]] = p[u[2]]
      BY <2>3, <2>5, <2>6
    <3> QED
      BY <2>1, <3>1 DEF Settles
  <2>9. \A a \in Present : \E b \in Present' : Justifies(p, b, a)
    BY <2>2, JustifiesEquivalence
  <2> QED
    BY <1>0, <1>1, <1>2, <2>7, <2>8, <2>9, CompleteStep
<1> QED
  BY <1>3, <1>4, <1>5, <1>6 DEF Merge

\* A rebuild stages the canonical form of every row whose removal it stages.
LEMMA CompleteRebuild ==
    ASSUME TypeOK, SeminaiveInv, TrackInv, FunctionalDependency, CompleteInv,
           NEW incr \in SUBSET Fns, RebuildTables(incr)
    PROVE  CompleteInv'
<1>1. PICK dirty \in SUBSET rows : /\ removes' = {<<r.fn, r.key>> : r \in dirty}
                                   /\ inserts' = {CanonRow(r, ts) : r \in dirty}
  BY DEF RebuildTables
<1>2. /\ pc = "rebuild" /\ pc' = "merge"
      /\ UNCHANGED <<rows, canon, unions, predicted, facts, asserted, fired, removed>>
  BY DEF RebuildTables, store, run, history
<1>3. inserts = {} /\ removes = {}
  BY <1>2 DEF SeminaiveInv, TrackInv
<1>4. Applied' = Applied
  BY <1>2 DEF Applied
<1> SUFFICES ASSUME ~removed, NEW p \in [Id -> Id], Settles(p)' PROVE Complete(p)'
  BY <1>2 DEF CompleteInv
<1>5. Settles(p) => Complete(p)
  BY DEF CompleteInv
<1>6. \A x \in Id : p[x] = p[canon[x]]
  BY <1>2 DEF Settles
<1>7. \A u \in unions : p[u[1]] = p[u[2]]
  BY <1>2 DEF Settles
<1>8. ASSUME NEW a \in Present PROVE \E b \in Present' : Justifies(p, b, a)
  <2>1. a \in rows /\ IsRow(a)
    BY <1>3 DEF Present, TypeOK
  <2>2. CASE <<a.fn, a.key>> \notin removes'
    <3>1. a \in Present'
      BY <1>2, <2>1, <2>2 DEF Present
    <3> QED
      BY <3>1, JustifiesEquivalence
  <2>3. CASE <<a.fn, a.key>> \in removes'
    <3>1. PICK r \in dirty : r.fn = a.fn /\ r.key = a.key
      BY <1>1, <2>3
    <3>2. r = a
      BY <1>1, <2>1, <3>1 DEF FunctionalDependency
    <3>3. PICK c : c = CanonRow(a, ts)
      OBVIOUS
    <3>4. c \in Present'
      BY <1>1, <3>1, <3>2, <3>3 DEF Present
    <3>5. Justifies(p, a, c)
      BY <1>6, <2>1, <3>3, JustifiesEquivalence, CanonRowJustified
    <3> QED
      BY <3>4, <3>5, JustifiesEquivalence
  <2> QED
    BY <2>2, <2>3
<1> QED
  BY <1>2, <1>4, <1>5, <1>6, <1>7, <1>8, CompleteStep

\* The strengthening holds in every reachable state.
LEMMA CompleteInvHolds == Spec => []CompleteInv
<1>1. Init => CompleteInv
  BY DEF Init, CompleteInv, Complete, Applied
<1>2. TypeOK /\ IdsInv /\ SeminaiveInv /\ TrackInv /\ FunctionalDependency /\ CompleteInv /\ [Next]_vars
        => CompleteInv'
  <2> SUFFICES ASSUME TypeOK, IdsInv, SeminaiveInv, TrackInv, FunctionalDependency, CompleteInv,
                      [Next]_vars
               PROVE  CompleteInv'
    OBVIOUS
  <2>1. CASE EndFiring \/ Return \/ UNCHANGED vars
    <3>1. UNCHANGED <<rows, inserts, removes, unions, canon, facts, asserted, fired, removed>>
      BY <2>1 DEF EndFiring, Return, RunFails, SkipRebuild, EnterRebuild, EndPass, vars, store, staged,
                  history
    <3>2. predicted' \subseteq predicted
      BY <2>1 DEF EndFiring, Return, RunFails, SkipRebuild, EnterRebuild, EndPass, vars, run
    <3>3. pc' = "fire" => pc = "fire"
      BY <2>1 DEF EndFiring, Return, RunFails, SkipRebuild, EnterRebuild, EndPass, vars, control
    <3>4. ASSUME ~removed, NEW p \in [Id -> Id], Settles(p)' PROVE Complete(p)'
      <4>1. Present' = Present /\ Applied' = Applied
        BY <3>1 DEF Present, Applied
      <4>2. Settles(p) => Complete(p)
        BY <3>4 DEF CompleteInv
      <4> QED
        BY <3>1, <3>4, <4>1, <4>2, CompleteGrows
    <3> QED
      BY <3>1, <3>2, <3>3, <3>4 DEF CompleteInv
  <2> QED
    BY <2>1, CompleteCommand, CompleteFire, CompleteMerge, CompleteRebuild DEF Next, Engine
<1> QED
  BY <1>1, <1>2, TypeCorrect, IdsInvHolds, SeminaiveInvHolds, TrackInvHolds, DependencyHolds, PTL DEF Spec

\* At idle nothing is pending and every row mentions leaders only, so the leaders
\* settle everything.
LEMMA LeadersSettle ==
    ASSUME TypeOK, IdsInv, SeminaiveInv, TrackInv, CanonInv, FunctionalDependency,
           pc = "idle", ~aborted
    PROVE  /\ Present = rows
           /\ \A r \in rows : MapKey(canon, r.key) = r.key /\ canon[r.val] = r.val
           /\ canon \in [Id -> Id]
           /\ Settles(canon)
<1>1. inserts = {} /\ removes = {} /\ unions = {}
  BY DEF SeminaiveInv, TrackInv
<1>2. Present = rows
  BY <1>1 DEF Present
<1>3. ASSUME NEW r \in rows PROVE MapKey(canon, r.key) = r.key /\ canon[r.val] = r.val
  <2>1. IdsOf(r) \subseteq Leaders
    BY <1>1 DEF CanonInv, Confined
  <2>2. \A x \in IdsOf(r) : canon[x] = x
    BY <2>1 DEF Leaders, Canonical
  <2>3. r.key \in [1 .. Arity[r.fn] -> Id]
    BY DEF TypeOK, IsRow
  <2>4. \A i \in DOMAIN r.key : canon[r.key[i]] = r.key[i]
    BY <2>2 DEF IdsOf
  <2>5. MapKey(canon, r.key) = r.key
    BY <2>3, <2>4 DEF MapKey
  <2> QED
    BY <2>2, <2>5 DEF IdsOf
<1>4. canon \in [Id -> Id]
  BY IdsAreNaturals
<1>5. Functional(canon)
  BY <1>2, <1>3 DEF Functional, FunctionalDependency
<1>6. \A x \in Id : canon[x] = canon[canon[x]]
  BY DEF IdsInv, LeadersInv
<1> QED
  BY <1>1, <1>2, <1>3, <1>4, <1>5, <1>6 DEF Settles

\* What the leaders show of a row is a row of the tables.
LEMMA LeadersShow ==
    ASSUME TypeOK, IdsInv, SeminaiveInv, TrackInv, CanonInv, FunctionalDependency, CompleteInv,
           pc = "idle", ~aborted, ~removed
    PROVE  /\ \A u \in asserted : canon[u[1]] = canon[u[2]]
           /\ \A d \in Applied : \E r \in rows : /\ r.fn = d.fn
                                                 /\ r.key = MapKey(canon, d.key)
                                                 /\ r.val = canon[d.val]
<1>1. Complete(canon)
  BY LeadersSettle DEF CompleteInv
<1>2. ASSUME NEW d \in Applied
      PROVE  \E r \in rows : r.fn = d.fn /\ r.key = MapKey(canon, d.key) /\ r.val = canon[d.val]
  <2>1. PICK r \in rows : Justifies(canon, r, d)
    BY <1>1, LeadersSettle DEF Complete, Shown
  <2>2. MapKey(canon, r.key) = r.key /\ canon[r.val] = r.val
    BY LeadersSettle
  <2> QED
    BY <2>1, <2>2 DEF Justifies
<1> QED
  BY <1>1, <1>2 DEF Complete

\* Congruence closure is complete between commands, in every instance.
THEOREM CongruenceIsComplete == Spec => []CongruenceComplete
<1>1. TypeOK /\ IdsInv /\ SeminaiveInv /\ TrackInv /\ CanonInv /\ FunctionalDependency /\ CompleteInv
        => CongruenceComplete
  <2> SUFFICES ASSUME TypeOK, IdsInv, SeminaiveInv, TrackInv, CanonInv, FunctionalDependency, CompleteInv,
                      pc = "idle", ~aborted, ~removed
               PROVE  /\ Respects(canon)
                      /\ \A d \in facts : \E r \in rows :
                            FactOf(r) = Fact(d.fn, MapKey(canon, d.key), canon[d.val])
    BY DEF CongruenceComplete
  <2>1. facts \subseteq Applied
    BY DEF Applied
  <2>2. \A d \in facts : \E r \in rows : /\ r.fn = d.fn
                                         /\ r.key = MapKey(canon, d.key)
                                         /\ r.val = canon[d.val]
    BY <2>1, LeadersShow
  <2>3. \A d, e \in facts : d.fn = e.fn /\ MapKey(canon, d.key) = MapKey(canon, e.key)
                              => canon[d.val] = canon[e.val]
    BY <2>2 DEF FunctionalDependency
  <2>4. Respects(canon)
    BY <2>3, LeadersShow DEF Respects
  <2>5. \A d \in facts : \E r \in rows : FactOf(r) = Fact(d.fn, MapKey(canon, d.key), canon[d.val])
    BY <2>2 DEF FactOf, Fact
  <2> QED
    BY <2>4, <2>5
<1> QED
  BY <1>1, TypeCorrect, IdsInvHolds, SeminaiveInvHolds, TrackInvHolds, CanonInvHolds, DependencyHolds,
     CompleteInvHolds, PTL

\* The effect of every match of the last run is in the tables, in every instance.
THEOREM EffectsAreVisible == Spec => []EffectsVisible
<1>1. TypeOK /\ IdsInv /\ SeminaiveInv /\ TrackInv /\ CanonInv /\ FunctionalDependency /\ CompleteInv
        => EffectsVisible
  <2> SUFFICES ASSUME TypeOK, IdsInv, SeminaiveInv, TrackInv, CanonInv, FunctionalDependency, CompleteInv,
                      pc = "idle", ~aborted, ~removed,
                      NEW r \in Rules, NEW m \in Matches(r),
                      r.op \in {"rewrite", "set"}, lastRun[r] > 0,
                      \A i \in DOMAIN r.atoms : m.at[i].ts < lastRun[r]
               PROVE  \E s \in rows : FactOf(s) = Effect(m)
    BY DEF EffectsVisible
  <2>1. m \in fired
    BY DEF SeminaiveInv, MatchesDone, CanonInv
  <2>2. m.rule = r /\ m.env \in [Vars -> Id]
    BY DEF Matches
  <2>3. PICK h : h = Effect(m)
    OBVIOUS
  <2>4. h \in Applied
    BY <2>1, <2>2, <2>3 DEF Applied
  <2>5. PICK s \in rows : s.fn = h.fn /\ s.key = MapKey(canon, h.key) /\ s.val = canon[h.val]
    BY <2>4, LeadersShow
  <2>6. IsFact(h)
    BY <2>2, <2>3, EffectType
  <2>7. ASSUME NEW v \in Vars PROVE canon[m.env[v]] = m.env[v]
    <3>1. m.env[v] = 0 \/ \E q \in rows : m.env[v] \in IdsOf(q)
      BY MatchIds
    <3>2. CASE m.env[v] = 0
      <4>1. 0 \in Id /\ canon[0] \in Nat /\ canon[0] <= 0
        BY <2>2, <3>2, IdsAreNaturals DEF IdsInv, LeadersInv
      <4>2. canon[0] = 0
        BY <4>1
      <4> QED
        BY <3>2, <4>2
    <3>3. ASSUME NEW q \in rows, m.env[v] \in IdsOf(q) PROVE canon[m.env[v]] = m.env[v]
      <4>1. IdsOf(q) \subseteq Leaders
        BY DEF CanonInv, Confined, TrackInv
      <4> QED
        BY <3>3, <4>1 DEF Leaders, Canonical
    <3> QED
      BY <3>1, <3>2, <3>3
  <2>8. \A x \in IdsOf(h) : canon[x] = x
    BY <2>2, <2>3, <2>7, EffectIds
  <2>9. MapKey(canon, h.key) = h.key /\ canon[h.val] = h.val
    <3>1. h.key \in [1 .. Arity[h.fn] -> Id]
      BY <2>6 DEF IsFact
    <3>2. \A i \in DOMAIN h.key : canon[h.key[i]] = h.key[i]
      BY <2>8 DEF IdsOf
    <3> QED
      BY <2>8, <3>1, <3>2 DEF MapKey, IdsOf
  <2>10. FactOf(s) = Fact(h.fn, h.key, h.val)
    BY <2>5, <2>9 DEF FactOf, Fact
  <2>11. h = Fact(h.fn, h.key, h.val)
    BY <2>3 DEF Effect, Fact
  <2> QED
    BY <2>3, <2>10, <2>11
<1> QED
  BY <1>1, TypeCorrect, IdsInvHolds, SeminaiveInvHolds, TrackInvHolds, CanonInvHolds, DependencyHolds,
     CompleteInvHolds, PTL
=============================================================================
