------------------------------- MODULE EGraph -------------------------------
(***************************************************************************)
(* The e-graph engine of egglog-bridge: function tables whose output        *)
(* column is merged by union (MergeFn::UnionId), the union-find table, and  *)
(* the commands EGraph's callers issue.  A command stages writes, merges    *)
(* them, advances the timestamp and, when the union-find grew, rebuilds     *)
(* until nothing changes.  A rule run matches seminaively, fires its        *)
(* matches in any order (the worker threads of run_rule_set) and may be     *)
(* stopped early by a panic.                                                *)
(*                                                                          *)
(* Abstractions.  A table is the set of its live rows; "canon" is the       *)
(* result of find_naive for every id (an id that was never written is its   *)
(* own leader); "displaced" is DisplacedTable::displaced without its        *)
(* timestamps.  Matches are computed declaratively; how a free join finds   *)
(* them is not modelled.  The variables fired, asserted, facts, removed and *)
(* aborted are history variables that no action reads.                      *)
(***************************************************************************)
EXTENDS Naturals, Sequences, FiniteSets

CONSTANTS
    Fns,        \* the function tables
    Arity,      \* Arity[f]: number of key columns of f, every one an id
    MaxId,      \* bound on the id counter
    MaxCmds,    \* bound on the number of commands
    Vars,       \* pattern variables
    Rules,      \* the rules, each a record as RuleType describes
    Rulesets,   \* the sets of rules a caller runs together
    BulkRows    \* rows a caller may hand to add_values

Id  == 0 .. MaxId - 1
Term == UNION {[fn : {f}, args : [1 .. Arity[f] -> Vars], out : Vars] : f \in Fns}

\* A rule matches its atoms and applies one action built from its variables.
RuleType ==
    [seminaive : BOOLEAN,
     atoms     : Seq(Term),
     op        : {"rewrite", "set", "delete", "panic"},
     head      : Term]

VarsOf(t) == {t.args[i] : i \in DOMAIN t.args} \cup {t.out}

ASSUME EGraphAssumption ==
    /\ MaxId \in Nat
    /\ MaxCmds \in Nat
    /\ Arity \in [Fns -> Nat]
    /\ Rules \subseteq RuleType
    /\ Rulesets \subseteq SUBSET Rules
    /\ \A d \in BulkRows : /\ d.fn \in Fns
                           /\ d \in [fn : Fns, key : [1 .. Arity[d.fn] -> Id], val : Id]

VARIABLES
    rows,       \* live rows of all function tables: [fn, key, val, ts]
    canon,      \* canonical id of every id
    displaced,  \* the union-find table's rows: ids that lost their leadership, in order
    inserts,    \* staged rows of the function tables
    removes,    \* staged removals: <<fn, key>>
    unions,     \* staged rows of the union-find table: <<x, y>>
    next,       \* the id counter
    ts,         \* the timestamp counter
    lastRun,    \* RuleInfo::last_run_at
    tracker,    \* length of the displaced table at the last rebuild (SubsetTracker)
    pc,         \* what the engine is doing
    ret,        \* which caller merge_all returns to
    ufBefore,   \* uf_size_before of the current command
    todo,       \* matches of the current run not yet fired
    predicted,  \* rows minted by lookups of the current run: [fn, key, val]
    stop,       \* stop_match, set when a rule panics
    changed,    \* merge_all's result inside the rebuild loop
    cmds,       \* commands issued so far
    fired,      \* history: matches whose action ran
    asserted,   \* history: pairs of ids a caller or a rule asked to union
    facts,      \* history: rows a caller or a rule asked to insert
    removed,    \* history: rows were deleted on request
    aborted     \* history: some run returned an error

store   == <<rows, canon, displaced>>
staged  == <<inserts, removes, unions>>
counters == <<next, ts, cmds>>
marks   == <<lastRun, tracker>>
control == <<pc, ret, ufBefore, changed>>
run     == <<todo, predicted, stop>>
history == <<fired, asserted, facts, removed, aborted>>
vars    == <<store, staged, counters, marks, control, run, history>>

-----------------------------------------------------------------------------
(* Values *)

IsRow(r) ==
    /\ r.fn \in Fns
    /\ r \in [fn : Fns, key : [1 .. Arity[r.fn] -> Id], val : Id, ts : Nat]

IsFact(d) ==
    /\ d.fn \in Fns
    /\ d \in [fn : Fns, key : [1 .. Arity[d.fn] -> Id], val : Id]

Row(f, k, v, t) == [fn |-> f, key |-> k, val |-> v, ts |-> t]
Fact(f, k, v)   == [fn |-> f, key |-> k, val |-> v]
FactOf(r)       == Fact(r.fn, r.key, r.val)

\* The ids of a row, and a row or key with every id replaced by its image.
IdsOf(r)       == {r.key[i] : i \in DOMAIN r.key} \cup {r.val}
MapKey(p, k)   == [i \in DOMAIN k |-> p[k[i]]]
Canonical(x)   == canon[x] = x
\* Mutant: a rebuilt row keeps its old timestamp.
CanonRowKeepsTs(r, t) == Row(r.fn, MapKey(canon, r.key), canon[r.val], r.ts)
CanonRow(r, t) == Row(r.fn, MapKey(canon, r.key), canon[r.val], t)
IsCanonical(r) == \A x \in IdsOf(r) : Canonical(x)

-----------------------------------------------------------------------------
(* Seminaive matching *)

\* A match assigns ids to the rule's variables and a live row to each atom.
Matches(r) ==
    {m \in [rule : {r}, env : [Vars -> Id], at : [DOMAIN r.atoms -> rows]] :
        /\ \A i \in DOMAIN r.atoms :
              LET a == r.atoms[i] IN
              FactOf(m.at[i]) = Fact(a.fn, MapKey(m.env, a.args), m.env[a.out])
        /\ \A v \in Vars :      \* an unused variable has one value
              (\A i \in DOMAIN r.atoms : v \notin VarsOf(r.atoms[i])) => m.env[v] = 0}

\* The variant focused on atom i reads new rows there and old rows before it.
\* On a rule's first run only the variant of the first atom is kept.
Variant(m, i, mid) ==
    /\ m.at[i].ts >= mid
    /\ \A j \in 1 .. i - 1 : m.at[j].ts < mid
    /\ mid = 0 => i = 1

Selected(r, m) ==
    \/ ~r.seminaive
    \/ r.atoms = <<>> /\ lastRun[r] = 0
    \/ \E i \in DOMAIN r.atoms : Variant(m, i, lastRun[r])

NewMatches(r) == {m \in Matches(r) : Selected(r, m)}

Effect(m) ==
    LET h == m.rule.head
    IN  Fact(h.fn, MapKey(m.env, h.args), m.env[h.out])

Known(f, k) == \E r \in rows : r.fn = f /\ r.key = k

-----------------------------------------------------------------------------
Init ==
    /\ rows = {}
    /\ canon = [x \in Id |-> x]
    /\ displaced = <<>>
    /\ inserts = {} /\ removes = {} /\ unions = {}
    /\ next = 0
    /\ ts = 1
    /\ cmds = 0
    /\ lastRun = [r \in Rules |-> 0]
    /\ tracker = 0
    /\ pc = "idle" /\ ret = "flush" /\ ufBefore = 0 /\ changed = FALSE
    /\ todo = {} /\ predicted = {} /\ stop = FALSE
    /\ fired = {} /\ asserted = {} /\ facts = {}
    /\ removed = FALSE /\ aborted = FALSE

-----------------------------------------------------------------------------
(* Commands.  Callers address rows by canonical ids they were handed out. *)

Issue ==
    /\ pc = "idle"
    /\ cmds < MaxCmds
    /\ cmds' = cmds + 1

Live(x) == x < next /\ Canonical(x)

\* flush_updates begins: the size of the union-find is read, then merge_all runs.
StartFlush ==
    /\ pc' = "merge"
    /\ ret' = "flush"
    /\ ufBefore' = Len(displaced)
    /\ changed' = FALSE

\* fresh_id
FreshId ==
    /\ Issue
    /\ next < MaxId
    /\ next' = next + 1
    /\ UNCHANGED <<store, staged, ts, marks, control, run, history>>

\* Mutant: one id for the row and another for the result.
AddTermMintsTwice(f, k) ==
    /\ Issue
    /\ next < MaxId
    /\ \A i \in DOMAIN k : Live(k[i])
    /\ next' = next + 2
    /\ inserts' = {Row(f, k, next, ts)}
    /\ facts' = facts \cup {Fact(f, k, next)}
    /\ StartFlush
    /\ UNCHANGED <<store, removes, unions, ts, marks, run, fired, asserted, removed, aborted>>

\* add_term: mint the id unconditionally and let the merge find the old one.
AddTerm(f, k) ==
    /\ Issue
    /\ next < MaxId
    /\ \A i \in DOMAIN k : Live(k[i])
    /\ next' = next + 1
    /\ inserts' = {Row(f, k, next, ts)}
    /\ facts' = facts \cup {Fact(f, k, next)}
    /\ StartFlush
    /\ UNCHANGED <<store, removes, unions, ts, marks, run, fired, asserted, removed, aborted>>

\* add_values, with a batch of at most two rows.
AddValues(batch) ==
    /\ Issue
    /\ \A d \in batch : \A x \in IdsOf(d) : Live(x)
    /\ inserts' = {Row(d.fn, d.key, d.val, ts) : d \in batch}
    /\ facts' = facts \cup batch
    /\ StartFlush
    /\ UNCHANGED <<store, removes, unions, next, ts, marks, run,
                   fired, asserted, removed, aborted>>

\* A union staged through UnionAction, then flushed.  Stale ids are welcome.
Union(x, y) ==
    /\ Issue
    /\ x < next /\ y < next
    /\ unions' = {<<x, y>>}
    /\ asserted' = asserted \cup {<<x, y>>}
    /\ StartFlush
    /\ UNCHANGED <<store, inserts, removes, next, ts, marks, run,
                   fired, facts, removed, aborted>>

\* clear_table
ClearTable(f) ==
    /\ Issue
    /\ \E r \in rows : r.fn = f
    /\ rows' = {r \in rows : r.fn # f}
    /\ removed' = TRUE
    /\ UNCHANGED <<canon, displaced, staged, next, ts, marks, control, run,
                   fired, asserted, facts, aborted>>

\* Ids the matches may mint, at most one each: the bound on next.
Room(ms) == next + Cardinality({m \in ms : m.rule.op = "rewrite"}) <= MaxId

\* next_ts as run_rules_inner reads it; the mutant closes the window one too late.
WindowEndLate == ts + 1
WindowEnd     == ts

\* run_rules: each rule's window is closed when its variants are built, before
\* any match is fired.
RunRules(R) ==
    /\ Issue
    /\ LET ms == UNION {NewMatches(r) : r \in R}
       IN  /\ Room(ms)
           /\ todo' = ms
    /\ lastRun' = [r \in Rules |-> IF r \in R THEN WindowEnd ELSE lastRun[r]]
    /\ pc' = "fire"
    /\ ret' = "run"
    /\ ufBefore' = Len(displaced)
    /\ UNCHANGED <<store, staged, next, ts, tracker, changed, predicted, stop, history>>

-----------------------------------------------------------------------------
(* Firing: every action only stages writes; the tables stay as they were. *)

Take(m) ==
    /\ pc = "fire"
    /\ m \in todo
    /\ todo' = todo \ {m}
    /\ fired' = fired \cup {m}

StageUnion(x, y) ==
    /\ unions' = unions \cup {<<x, y>>}
    /\ asserted' = asserted \cup {<<x, y>>}

\* lookup_or_insert and union: the term is in its table ...
RewriteKnown(m) ==
    LET h == Effect(m) IN
    /\ Take(m)
    /\ m.rule.op = "rewrite"
    /\ \E r \in rows : r.fn = h.fn /\ r.key = h.key /\ StageUnion(h.val, r.val)
    /\ UNCHANGED <<store, inserts, removes, counters, marks, control, predicted, stop,
                   facts, removed, aborted>>

\* ... or this execution state predicted its id ...
RewritePredicted(m) ==
    LET h == Effect(m) IN
    /\ Take(m)
    /\ m.rule.op = "rewrite"
    /\ ~Known(h.fn, h.key)
    /\ \E p \in predicted : p.fn = h.fn /\ p.key = h.key /\ StageUnion(h.val, p.val)
    /\ UNCHANGED <<store, inserts, removes, counters, marks, control, predicted, stop,
                   facts, removed, aborted>>

\* ... or an id is minted and predicted.  Another thread's execution state has a
\* prediction cache of its own, so the same term may be minted twice.
RewriteFresh(m) ==
    LET h == Effect(m) IN
    /\ Take(m)
    /\ m.rule.op = "rewrite"
    /\ ~Known(h.fn, h.key)
    /\ next < MaxId
    /\ next' = next + 1
    /\ inserts' = inserts \cup {Row(h.fn, h.key, next, ts)}
    /\ predicted' = predicted \cup {Fact(h.fn, h.key, next)}
    /\ facts' = facts \cup {Fact(h.fn, h.key, next)}
    /\ StageUnion(h.val, next)
    /\ UNCHANGED <<store, removes, ts, cmds, marks, control, stop, removed, aborted>>

FireSet(m) ==
    LET h == Effect(m) IN
    /\ Take(m)
    /\ m.rule.op = "set"
    /\ inserts' = inserts \cup {Row(h.fn, h.key, h.val, ts)}
    /\ facts' = facts \cup {h}
    /\ UNCHANGED <<store, removes, unions, counters, marks, control, predicted, stop,
                   asserted, removed, aborted>>

FireDelete(m) ==
    LET h == Effect(m) IN
    /\ Take(m)
    /\ m.rule.op = "delete"
    /\ removes' = removes \cup {<<h.fn, h.key>>}
    /\ removed' = TRUE
    /\ UNCHANGED <<store, inserts, unions, counters, marks, control, predicted, stop,
                   asserted, facts, aborted>>

FirePanic(m) ==
    /\ Take(m)
    /\ m.rule.op = "panic"
    /\ stop' = TRUE
    /\ UNCHANGED <<store, staged, counters, marks, control, predicted,
                   asserted, facts, removed, aborted>>

Fire(m) ==
    \/ RewriteKnown(m) \/ RewritePredicted(m) \/ RewriteFresh(m)
    \/ FireSet(m) \/ FireDelete(m) \/ FirePanic(m)

\* All matches fired, or the search saw the stop flag and dropped the rest.
EndFiring ==
    /\ pc = "fire"
    /\ todo = {} \/ stop
    /\ todo' = {}
    /\ predicted' = {}
    /\ pc' = "merge"
    /\ UNCHANGED <<store, staged, counters, marks, ret, ufBefore, changed, stop, history>>

-----------------------------------------------------------------------------
(* merge_all: tables merge in any order; in each one removals come first. *)

MergeRemoves(f) ==
    /\ pc = "merge"
    /\ \E d \in removes : d[1] = f
    /\ removes' = {d \in removes : d[1] # f}
    /\ rows' = {r \in rows : <<r.fn, r.key>> \notin removes \/ r.fn # f}
    /\ UNCHANGED <<canon, displaced, inserts, unions, counters, marks, control, run, history>>

Mergeable(n) ==
    /\ pc = "merge"
    /\ n \in inserts
    /\ \A d \in removes : d[1] # n.fn
    /\ inserts' = inserts \ {n}

InsertNew(n) ==
    /\ Mergeable(n)
    /\ ~Known(n.fn, n.key)
    /\ rows' = rows \cup {n}
    /\ changed' = TRUE
    /\ UNCHANGED <<canon, displaced, removes, unions, counters, marks, pc, ret, ufBefore,
                   run, history>>

Smaller(x, y) == IF x <= y THEN x ELSE y

\* The rows an insertion collides with.  Mutant: the probe forgets the key.
CollisionsByTable(n) == {r \in rows : r.fn = n.fn}
Collisions(n)        == {r \in rows : r.fn = n.fn /\ r.key = n.key}

\* MergeFn::UnionId: the union it stages, if any.  Mutant: none when the new value
\* is the smaller one.
UnionIdOneWay(cur, new) == IF cur >= new THEN {} ELSE {<<cur, new>>}
UnionId(cur, new)       == IF cur = new THEN {} ELSE {<<cur, new>>}

\* The row after a merge: rewritten, with the new timestamp, only if its value
\* changes.  Mutant: the old row stays beside the new one.
MergedRowsBoth(r, n) == IF n.val < r.val THEN rows \cup {n} ELSE rows
MergedRows(r, n)     == IF n.val < r.val THEN (rows \ {r}) \cup {n} ELSE rows

\* The key is taken: the smaller value stays.
InsertMerged(n) ==
    /\ Mergeable(n)
    /\ \E r \in Collisions(n) :
         /\ rows' = MergedRows(r, n)
         /\ unions' = unions \cup UnionId(r.val, n.val)
         /\ changed' = (changed \/ n.val < r.val)
    /\ UNCHANGED <<canon, displaced, removes, counters, marks, pc, ret, ufBefore, run, history>>

\* The leaders after child is linked below parent.  Mutant: ids below child stay.
LinkedAlone(child, parent) == [canon EXCEPT ![child] = parent]
Linked(child, parent) == [i \in Id |-> IF canon[i] = child THEN parent ELSE canon[i]]

\* The staged unions after u was merged.  Mutant: a redundant one is not drained.
DrainedIfUseful(u) == IF canon[u[1]] = canon[u[2]] THEN unions ELSE unions \ {u}
Drained(u)         == unions \ {u}

\* DisplacedTable::merge: union the leaders, the smaller one stays.
MergeUnion(u) ==
    /\ pc = "merge"
    /\ u \in unions
    /\ unions' = Drained(u)
    /\ LET x == canon[u[1]]
           y == canon[u[2]]
           parent == Smaller(x, y)
           child  == IF parent = x THEN y ELSE x
       IN  IF x = y
           THEN UNCHANGED <<canon, displaced, changed>>
           ELSE /\ canon' = Linked(child, parent)
                /\ displaced' = Append(displaced, child)
                /\ changed' = TRUE
    /\ UNCHANGED <<rows, inserts, removes, counters, marks, pc, ret, ufBefore, run, history>>

Merged == pc = "merge" /\ inserts = {} /\ removes = {} /\ unions = {}
Grown  == Len(displaced) # ufBefore

-----------------------------------------------------------------------------
(* What merge_all returns to *)

\* run_rules_inner with a panic message: the error leaves before the timestamp
\* advances and before the rebuild.
RunFails ==
    /\ Merged /\ ret = "run" /\ stop
    /\ pc' = "idle"
    /\ stop' = FALSE
    /\ aborted' = TRUE
    /\ UNCHANGED <<store, staged, counters, marks, ret, ufBefore, changed, todo, predicted,
                   fired, asserted, facts, removed>>

\* The union-find did not grow: a new epoch, and no rebuild.
SkipRebuild ==
    /\ Merged /\ ret \in {"run", "flush"} /\ ~stop /\ ~Grown
    /\ pc' = "idle"
    /\ ts' = ts + 1
    /\ UNCHANGED <<store, staged, next, cmds, marks, ret, ufBefore, changed, run, history>>

EnterRebuild ==
    /\ Merged /\ ret \in {"run", "flush"} /\ ~stop /\ Grown
    /\ pc' = "rebuild"
    /\ ts' = IF ret = "flush" THEN ts + 1 ELSE ts
    /\ UNCHANGED <<store, staged, next, cmds, marks, ret, ufBefore, changed, run, history>>

\* Rows that mention an id displaced since the tracker's last look.
RecentlyDisplaced == {displaced[i] : i \in tracker + 1 .. Len(displaced)}

\* apply_rebuild over every table: a large table with few new ids is rebuilt from
\* them (incr), any other is scanned in full.  A rewritten row is staged as the
\* removal of its key and the insertion of its canonical form.
RebuildTables(incr) ==
    LET dirty == {r \in rows : IF r.fn \in incr
                               THEN IdsOf(r) \cap RecentlyDisplaced # {}
                               ELSE ~IsCanonical(r)}
    IN  /\ pc = "rebuild"
        /\ removes' = {<<r.fn, r.key>> : r \in dirty}
        /\ inserts' = {CanonRow(r, ts) : r \in dirty}
        /\ tracker' = Len(displaced)
        /\ changed' = FALSE
        /\ pc' = "merge"
        /\ ret' = "rebuild"
        /\ UNCHANGED <<store, unions, counters, lastRun, ufBefore, run, history>>

\* Mutant: the tracker's mark moves when the pass ends, past the unions it merged.
EndPassMovesMark ==
    /\ Merged /\ ret = "rebuild"
    /\ ts' = ts + 1
    /\ pc' = IF changed THEN "rebuild" ELSE "idle"
    /\ tracker' = Len(displaced)
    /\ UNCHANGED <<store, staged, next, cmds, lastRun, ret, ufBefore, changed, run, history>>

\* Mutant: one pass is deemed enough.
EndPassOnce ==
    /\ Merged /\ ret = "rebuild"
    /\ ts' = ts + 1
    /\ pc' = "idle"
    /\ UNCHANGED <<store, staged, next, cmds, marks, ret, ufBefore, changed, run, history>>

\* One pass of the loop ends: go around again if anything was added.
EndPass ==
    /\ Merged /\ ret = "rebuild"
    /\ ts' = ts + 1
    /\ pc' = IF changed THEN "rebuild" ELSE "idle"
    /\ UNCHANGED <<store, staged, next, cmds, marks, ret, ufBefore, changed, run, history>>

-----------------------------------------------------------------------------
Command ==
    \/ FreshId
    \/ \E f \in Fns : \E k \in [1 .. Arity[f] -> Id] : AddTerm(f, k)
    \/ \E d1, d2 \in BulkRows : AddValues({d1, d2})
    \/ \E x, y \in Id : x < y /\ Union(x, y)     \* union is symmetric
    \/ \E f \in Fns : ClearTable(f)
    \/ \E R \in Rulesets : RunRules(R)

Merge ==
    \/ \E f \in Fns : MergeRemoves(f)
    \/ \E n \in inserts : InsertNew(n) \/ InsertMerged(n)
    \/ \E u \in unions : MergeUnion(u)

Return == RunFails \/ SkipRebuild \/ EnterRebuild \/ EndPass

Engine ==
    \/ \E m \in todo : Fire(m)
    \/ EndFiring
    \/ Merge
    \/ Return
    \/ \E incr \in SUBSET Fns : RebuildTables(incr)

Next == Command \/ Engine

Spec     == Init /\ [][Next]_vars
FairSpec == Spec /\ WF_vars(Engine)
(***************************************************************************)
(* Properties                                                               *)
(***************************************************************************)

\* The typing of the state, with what ties the control variables together.
TypeOK ==
    /\ \A r \in rows : IsRow(r)
    /\ canon \in [Id -> Id]
    /\ displaced \in Seq(Id)
    /\ \A n \in inserts : IsRow(n)
    /\ \A d \in removes : d[1] \in Fns
    /\ unions \subseteq Id \X Id
    /\ next \in 0 .. MaxId
    /\ ts \in Nat \ {0}
    /\ cmds \in 0 .. MaxCmds
    /\ lastRun \in [Rules -> Nat]
    /\ tracker \in Nat
    /\ pc \in {"idle", "fire", "merge", "rebuild"}
    /\ ret \in {"flush", "run", "rebuild"}
    /\ ufBefore \in Nat
    /\ changed \in BOOLEAN
    /\ \A m \in todo : m.rule \in Rules /\ m.env \in [Vars -> Id]
    /\ \A p \in predicted : IsFact(p)
    /\ stop \in BOOLEAN
    /\ asserted \subseteq Id \X Id
    /\ \A d \in facts : IsFact(d)
    /\ removed \in BOOLEAN
    /\ aborted \in BOOLEAN

\* A function has one live row per key at every moment, through staged writes,
\* merges that rewrite rows and rebuilds that move rows onto taken keys.
FunctionalDependency ==
    \A r, s \in rows : r.fn = s.fn /\ r.key = s.key => r = s

\* Seminaive evaluation loses no match: one whose rows are all older than the
\* rule's last run has fired, or is about to, unless some run was aborted.
SeminaiveComplete ==
    \/ aborted \/ stop
    \/ \A r \in Rules : r.seminaive => \A m \in Matches(r) :
          (lastRun[r] > 0 /\ \A i \in DOMAIN r.atoms : m.at[i].ts < lastRun[r])
             => m \in fired \cup todo

\* The incremental rebuild looks only at ids displaced since the tracker's mark,
\* so every other stale id must have left the tables: a live row (or one staged)
\* that mentions a non-leader mentions one displaced after the mark, or its
\* removal is staged.
StaleIdsTracked ==
    /\ \A r \in rows : <<r.fn, r.key>> \notin removes =>
          \A x \in IdsOf(r) : Canonical(x) \/ x \in RecentlyDisplaced
    /\ \A n \in inserts :
          \A x \in IdsOf(n) : Canonical(x) \/ x \in RecentlyDisplaced

\* Between commands the tables mention leaders only, so that lookups and matches
\* by canonical id miss nothing (unless an aborted run left its rebuild undone).
CanonicalWhenIdle ==
    pc = "idle" /\ ~aborted => \A r \in rows : IsCanonical(r)

\* p respects the history: it identifies asserted pairs and is a congruence on
\* the rows ever inserted.
Respects(p) ==
    /\ \A u \in asserted : p[u[1]] = p[u[2]]
    /\ \A d, e \in facts :
          d.fn = e.fn /\ MapKey(p, d.key) = MapKey(p, e.key) => p[d.val] = p[e.val]

\* Soundness: the engine equates two ids only if every congruence that contains
\* the asserted pairs does.
CongruenceSound ==
    \A p \in [Id -> Id] : Respects(p) => \A x \in Id : p[x] = p[canon[x]]

\* Completeness: between commands the leaders form such a congruence, and every
\* row ever inserted is present up to it; only deletions and aborts lose rows.
CongruenceComplete ==
    pc = "idle" /\ ~aborted /\ ~removed =>
        /\ Respects(canon)
        /\ \A d \in facts : \E r \in rows :
              FactOf(r) = Fact(d.fn, MapKey(canon, d.key), canon[d.val])

\* Saturation up to the last run: between commands the effect of every match
\* older than its rule's last run is visible in the tables.
EffectsVisible ==
    pc = "idle" /\ ~aborted /\ ~removed =>
        \A r \in Rules : \A m \in Matches(r) :
            (r.op \in {"rewrite", "set"} /\ lastRun[r] > 0
               /\ \A i \in DOMAIN r.atoms : m.at[i].ts < lastRun[r])
               => \E s \in rows : FactOf(s) = Effect(m)

KeepsEqualities ==
    \A x, y \in Id : /\ canon[x] = canon[y] => canon'[x] = canon'[y]
                     /\ canon'[x] <= canon[x]

\* An equality, once established, holds for good, and leaders only get smaller.
EqualitiesPersist == [][KeepsEqualities]_canon

\* A rebuild that is skipped is not needed (lib.rs:957-960 argues so from the
\* union-find's size).
SkippedRebuildUnneeded ==
    [][ SkipRebuild => \A r \in rows : IsCanonical(r) ]_vars

\* Every command returns: merging and rebuilding reach a fixed point.
CommandsReturn == pc # "idle" ~> pc = "idle"
=============================================================================
