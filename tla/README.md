# A verification project for egglog

TLA+ models, TLC runs and TLAPS proofs for the Rust implementation of egglog,
an e-graph engine on top of a Datalog database. Paths below are relative to the
repository (`core-relations/src/...`); `PROJECT.json` lists components, runs,
mutants, hazards and theorems, and maps every definition to its lines.

## The system

| component | source | state | operations | what must be right |
|---|---|---|---|---|
| e-graph engine | `egglog-bridge/src/lib.rs`, `rule.rs` | function tables, union-find table, id and timestamp counters, `last_run_at` per rule | `fresh_id`, `add_term`, `add_values`, `clear_table`, `run_rules`, `rebuild` | tables are functions; seminaive evaluation loses no match; rebuilding reaches exactly the congruence closure and ends |
| database | `core-relations/src/free_join/mod.rs`, `dependency_graph.rs` | tables, notification list, index cache, counters | `merge_all`, `apply_rebuild`, `run_rule_set`, `clear_table` | everything staged is merged; indexes follow the tables |
| sorted-writes table | `core-relations/src/table/mod.rs` | row buffer, sharded hash map, offsets by timestamp, stale count, pending queues | stage, drop a buffer, merge (delete, insert, rehash; serial or parallel), clear, scan | it is a map from keys to rows; timestamp ranges, stale count and hash map are exact |
| hash indexes | `core-relations/src/hash_index/mod.rs`, `concurrency/src/resettable_oncelock.rs` | rows by value, version it has seen | refresh, lookup, reset | never stale when read |
| displaced table | `core-relations/src/uf/mod.rs` | union-find, displaced ids with timestamps, provenance | merge, canonicalise, subsets by timestamp | each displaced id once, in timestamp order |
| concurrent union-find | `union-find/src/concurrent/` | atomic parent array that grows | `find`, `same_set`, `merge`, `reset`, `deep_copy` | linearisable, lock-free progress |
| read-optimised lock | `concurrency/src/lib.rs`, `notification.rs` | token behind an `ArcSwap`, notifications | `read`, `lock`, guards' destructors | a readers-writer lock; nobody sleeps forever |
| notification list, concurrent vector | `concurrency/src/notification_list.rs`, `concurrent_vec.rs` | marks in a growing vector, recorded items | notify, reset, resize | no slot is read before it is written, no notification is lost |
| other shared structures | `concurrency/src/` | parallel writer, arenas, bit set | reserve, write | writers' ranges are disjoint |
| action interpreter | `core-relations/src/action/mod.rs` | predictions, mutation buffers | `predict_val`, staging | one id per missing key and execution state |
| planner and executor | `core-relations/src/free_join/plan.rs`, `execute.rs`, `query.rs` | none that outlives a run | plan, search, apply | all matches, live rows only |
| containers, base values | `core-relations/src/containers`, `base_values` | interning tables | intern, rebuild | equal values have one id |
| DuckDB backend | `egglog-bridge-duckdb/src/` | SQL tables of timestamped rows, `next_ts`, `last_run_at`, watermarks, a sequence of ids | `declare`, `insert`, `run_rules` | a rule sees every match once, whatever was restamped |
| term encoding | `src/proofs/proof_encoding.rs` | per sort a table of edges and an index, per constructor a term table, a view and helper tables | rules that maintain them, a rebuild schedule after every command | after a rebuild, exactly the congruence closure; nothing else changes |
| dataflow backends | `egglog-bridge-flowlog`, `-feldera` behind `egglog-backend-trait` | tables in an external engine, windows, own rebuild loops | as the engine | as the engine |
| schedulers | `src/scheduler.rs`, `egglog-experimental/src/scheduling.rs` | per rule a list of matches found and not chosen, a `decided` table, bans | `step_rules_with_scheduler`, `filter_matches`, `can_stop`, `saturate` | a match is delayed, never lost; what is left when nothing changes is held back and reported so |
| frontend | `src/` (parser, typechecker, desugaring, extraction, proofs, push/pop) | sorts, functions, rulesets, stack of e-graphs | one per command | commands keep the stack and the backend in step |

A frontend command becomes calls of the engine. The engine runs a rule set: the
executor finds matches of each rule's seminaive variants and worker threads
apply the actions, which stage rows in buffers of their own. Dropping a buffer
hands its rows to the table; `merge_all` merges every notified table, possibly
in parallel, and a function table's merge function may stage unions for the
displaced table. Then the engine advances the timestamp and, if the union-find
grew, rebuilds tables until nothing changes.

With the DuckDB backend the frontend rewrites the program instead: union-find,
congruence and rebuilding become rules over ordinary tables (the term encoding),
and a schedule of nested saturations runs them after every command. The backend
only runs rules, one at a time, each over what is new since it last ran.

What is hard here: the timestamp protocol between staging, merging, rebuilding
and seminaive windows; merges that stage work for other merges; errors in the
middle of a run; row ids and cached indexes that a compaction invalidates; and
the lock-free structures. There is no persistence and no network, so no crash
recovery and no message loss. `PROJECT.json` lists the hazards at their lines.

## Modules

| module | models | checked by |
|---|---|---|
| `EGraph` | commands, firing, merging and rebuilding of the engine | `MCEGraph`, `MCEGraphPanic.cfg` |
| `ConcurrentUnionFind` | the lock-free union-find, one atomic access a step | `MCConcurrentUnionFind` |
| `RwLock` | what a readers-writer lock promises | as a property of the next |
| `ReadOptimizedLock` | the lock with its tokens and notifications | `MCReadOptimizedLock` |
| `TableRows`, `KeyedTable` | rows and merge functions; what a table promises | as a property of the next |
| `SortedWritesTable` | how a table is stored and merged, and a cached index | `MCSortedWritesTable` |
| `Leaders` | what a union-find promises: leaders and when an id was displaced | as a property of the next |
| `DisplacedTable` | the union-find as a table, its subsets, index and rebuild hint | `MCDisplacedTable` |
| `NotificationList` | notify and reset over the concurrent vector, one atomic access a step | within the next |
| `Database` | `merge_all` and everything that stages rows for it | `MCDatabase` |
| `DuckTable` | inserts with conflict clauses, deletes, seminaive windows | within `DuckTermEncoding` |
| `Congruence`, `CongruentTerms` | closures; what an e-graph promises | as a property of the next |
| `DuckTermEncoding` | the maintenance rules and rebuild schedule over the backend's tables | `MCDuckTermEncoding` |
| `Scheduler` | iterations of a ruleset under a scheduler, one by one or in a `saturate` loop | `MCScheduler`, `MCSchedulerStop.cfg` |
| `EGraphProofs`, `ConcurrentUnionFindProofs`, `ReadOptimizedLockProofs`, `SortedWritesTableProofs`, `DisplacedTableProofs`, `DatabaseProofs`, `SchedulerProofs`, `DuckTermEncodingProofs` | theorems about the module each is named after | TLAPS |

### EGraph

State: `rows` (live rows of all function tables), `canon` (the leader of each
id), `displaced` (ids in the order they lost leadership), `inserts`, `removes`
and `unions` (staged), `next` and `ts` (counters), `lastRun` (windows),
`tracker` (the union-find rows an incremental rebuild has seen), `todo` (matches
to fire), `pc` and what a command remembers. Each command is an action that
stages and enters the merge; `Take`, `Fire...` and `EndFiring` are the worker
threads; `MergeRemoves`, `InsertNew`, `InsertMerged`, `MergeUnion` are the
merges, in any order; `RunFails`, `SkipRebuild`, `EnterRebuild`, `EndPass` are
the tail of `run_rules` and the loop of `rebuild`. All tables have id columns
and merge by union (`MergeFn::UnionId`): other merge functions are a matter of
`SortedWritesTable`. Matches are defined declaratively, each with the atom that
is its seminaive focus. `predict_val` is the choice between a known prediction
and a fresh id: an execution state does not share its predictions with its
clones, so two threads may mint different ids for one term.

### ConcurrentUnionFind

`parent` is the array of atomics; each thread has a program counter and the
locals of `find_impl`, `same_set` or `merge`. Every atomic load or
compare-and-swap is a step. `Grow` is `with_access` with the exclusive lock.
`rep`, `links` and `answers` are history variables. Memory is sequentially
consistent in the model. `NextPowerOfTwo` is the set of powers of two from `n` to
below `2n`, which has one element.

### ReadOptimizedLock

`arc` is the swapped pointer, `notes` the notifications (flag, mutex, sleepers);
tokens count references, and `Drop` of the last one notifies. `RwLock` is the
abstract lock; `readers` and `writers` are the refinement mapping.

### SortedWritesTable

The state is that of the struct: `data` (rows with their staleness), `hash`,
`offsets`, `staleRows`, `generation`, the queues and removals of the pending
state, writers' `buffers`, and `merge`, the progress of a merge. A serial insert
takes a row a step; in a parallel insert every shard has a task that gathers
rows (`StagedOutputs`) and writes blocks out, in any interleaving with the other
shards and with buffers dropped by merges of other tables. Which path is taken,
which depends on a size, is a choice. `KeyedTable` promises a map: removals
first, then every insertion queued before the merge began, one by one, by the
merge function. The refinement counts a row a task has gathered as inserted.
The 2^18 of `BatchSize`, the 16 of `RehashMin` and the 2 of `RehashPart` are
constants. A merge function is an operator on the value column; as the engine's
callback does, an unchanged value keeps the old row and a changed one takes the
incoming timestamp. Constraints of a scan are one constraint that compares
columns other than the first.

### DisplacedTable

`parents` is the sequential forest (ids the code has not reserved yet are their
own parents), `displaced` the vector of ids and timestamps, `lookup` the map from
an id to its row. `Displace` is `insert_impl`: two compressing searches, the
union, which searches again, and the new row. `Leaders` is the abstract union-find;
the refinement reads the leaders off the forest and the timestamps through the row
lookup. `tracker` is the mark of an incremental rebuild, with the leaders of that
moment as a history variable: `HintComplete` is the reason why looking only for
recently displaced ids is enough, which `EGraph` takes for granted in
`RecentlyDisplaced`. The engine never clears its union-find; `clear`, which reaches
the union-finds a program declares as functions, is not modelled (see below).

### Database and NotificationList

A task is what runs on a thread of the pool: a rule's, a rebuild's or the merge
of a table. `Stage` is a write through an `ExecutionState`: the row goes into a
buffer of the task (`held`), and the task goes through `notify`, whose loads,
swap and locks are steps of `NotificationList`; `Finish` drops the buffers, and
the rows are `pending`. `Round` is the head of `merge_all`'s loop, which takes the
record and chooses a path: `MergeOne` and `MergeNotified` are `merge_simple`,
`MergeStratum` takes the tables of a stratum out of the database and starts
their merges in parallel; `TakePending` is the moment a merge takes its rows. Rows are
not told apart: `pending` and `held` say which tables have some. The relaxed
accesses to the marks are taken as sequentially consistent; the pool's joins order
them with `reset`. What `merge_all` returns and the reset of indexes are left out.

### DuckTermEncoding

The tables are functions from a row, or a key, to the timestamp of the iteration
that wrote it: `uf` (edges), `ufi` (the index `UFf`), `term`, `view`, `todel`. The
runner keeps `ts`, `lastRun`, `watermark` and whether rebuild rules have the fast
form. A command is `Begin`, any actions (`Union`, `Make`, `Delete`: rules of the
program are not followed one by one) and `EndActions` or `Fail`; then `at` walks
the schedule, and each rule of the ruleset is an action that computes its matches
from the tables, deletes and inserts (`SingleParent`, `PathCompress`,
`FunctionIndex`, `CongruenceRule`, `RebuildRule`, `DeleteRule`). A rule is skipped
when the watermarks of its tables say so, and only rows inside the seminaive
windows match. `classes` is a history variable, the closure of the unions asked for and
congruence; the refinement to `CongruentTerms` reads the leaders off it and the
applications off the views. Burnt values of the sequence and the ids of `to_delete`
rows are left out: nothing reads them. A term table's watermark does not move
when a rule inserts a term (`egglog-bridge-duckdb/src/compile.rs:99-118`), although
the comment on `table_watermarks` says that every insert moves it; in term mode no
rule reads a term table.

A request to delete is a row of `to_delete` that only the delete rule removes, together
with a view row that matches. `CongruentTerms` promises no more (`Doom`, `Purge`): a
delete of an absent application waits for a later command to create it.

### Scheduler

A rule with a scheduler is two rules. `RunQueries` runs the query rules, which collect
what is new to each (`seen`) in its list `held`; `FilterCustom`, or `SkipBanned`, `Ban`
and `ChooseAll` of the back-off scheduler, decide rule by rule (`turn`) which matches
become rows of `decided` and whether the query runs in the next iteration (`seek`);
`RunActions` applies and removes the rows, and reports. `Fail` is a run that returns an
error, after which the schedulers are gone. `Insert` is the program between
iterations. Facts have no structure: `Match` says which facts a rule's body matches and
with which tuple, `Effect` what its head inserts. A scheduler of the user's is any
choice of matches, of `seek` and of the report. Counters of the back-off scheduler
are relative to its iteration (`left`), which keeps the state finite. Its match limit and
ban length are any numbers, as the tags `:match-limit` and `:ban-length` are
(`Configs`); the limit is shifted by the number of bans, which panics at the width of a
machine word (`Width`, and `Fail` by `TooManyBans`). `due`, the matches found and not
applied since, is a history variable.

`saturating` is the loop of the `saturate` schedule around one run: it goes on with the
same ruleset while iterations change something, and no other command comes in between.
It never reads `can_stop`, so it may end with matches that a ban holds back.
`can_stop` is for callers of `step_rules_with_scheduler`, in `RunReport::can_stop`.

`StopReportExact` says what an iteration that changed nothing leaves, which is where
`saturate` ends and where `can_stop` is asked. A rule that holds no match back has been
applied to all that its query ran over, and that is every fact if the query ran in this
iteration. The back-off scheduler's `can_stop` holds just when none of the iteration's
rules holds a match back. With `:ban-length 0` it says nothing of them: a ban ends in the
iteration it began in, so that the rule does not count as banned while its matches wait.
With `:match-limit 0` no match is ever chosen, and `LoopTerminates` leaves that out.

`StopMeansSaturated` is the stronger promise that the documentation makes and the code
breaks (finding 4).

## Runs

| run | states | bound | shows |
|---|---|---|---|
| `egraph` | 131 k | 4 ids, 5 commands, two constants and a unary function, four rules (one that mints ids, one that overwrites, one that deletes, one that panics) | all invariants of the engine, and that every command returns |
| `egraph_panic` | violation | the same | a rebuild is skipped although it is needed (below) |
| `concurrent_uf` | 585 k | 2 threads, 2 operations each out of eight, 4 ids, every initial forest, array of 2 or 4 | the forest represents the merges; reads linearise; operations return |
| `rwlock` | 215 k | 3 threads, 4 operations, spurious wakeups | refinement of `RwLock`, no lost wakeup, termination |
| `sorted_table` | 555 k | 3 keys, 2 shards, 3 mutations, 2 timestamps, from the empty and from a filled table | refinement of `KeyedTable`, exact offsets, counts, hash map, index |
| `table_parallel_merge` | violation | as above, three values | the merge result is discarded (below) |
| `table_stale_scan` | violation | as above | a scan reads a stale row (below) |
| `displaced_table` | 403 k | 4 ids, any 3 unions, 2 timestamps, one buffer dropped at any moment | refinement of `Leaders`, exact rows, subsets and index, complete rebuild hint |
| `database_merge` | 2.5 M | 4 tables on two levels, two rule tasks, six rows | no staged row is forgotten; merges find the tables they need |
| `duckdb` | 264 k | 5 ids, 3 commands with 3 actions between them, with and without the fast rebuild, commands that fail | exact closure after each rebuild, refinement of `CongruentTerms`, rebuilds end |
| `scheduler` | 553 k | 2 rules, 4 facts, inserted between iterations or loops, both kinds of scheduler; match limit and ban length 1 and 2, 1 and 0, 0 and 1; shifts by 3 panic | no match is lost, an iteration without change leaves what is held back and reports it, repeated iterations are told to stop |
| `scheduler_stop` | violation | as above, limit 1, ban length 2 | a rule that may "be considered as saturated" is not (below) |

Why the bounds suffice. Four ids let a union cascade: two displaced ids, a
congruence that follows from them and one id minted by a rule. Five commands
make a window close, a union invalidate old rows, and a later command see them;
with more ids or commands no new kind of step appears. Two threads and four ids
give every pair of operations on the same path of length three, with growth;
starting from every forest replaces long histories. Three lock users are a
writer, one that lost the race and a reader. Three keys on two shards give
blocks of two rows and two concurrent tasks; the filled table lets two more
mutations cause a compaction that moves live rows. Three unions of four ids give
every order in which leaders displace each other, down to a path of length three
that a search compresses; more writers would only permute the queue, and every
order of unions is already staged.

Four tables are the fewest
that `merge_all` merges by strata; six rows let four rows notify all of them and two
merges stage more, one into a table of their own stratum. In the DuckDB run three
actions make a term, make one over it and unite, which cascades through
congruence into a second pass of the schedule; three commands let one fail and two
repair after it. Two commands with four actions pass as well. `MaxRounds` is
above the longest rebuild, so a rebuild that would not end violates
`RebuildTerminates`.

In the scheduler's run one rule has three matches, two of them with one tuple, so that
it is banned with two, banned for longer with three, and chosen at last; each rule
inserts facts that the other matches, and iterations of one rule fall between those
of both. With limit 1 and three matches at most, two bans in a row are all there are, so
that `Width` 3 stops only the scheduler with limit 0, which bans a rule until the shift
panics; in the code that takes 64 bans.

Deadlock is checked for `database_merge`, whose `Stopped` is a client that issues
nothing more. Elsewhere the check is off because clients may stop issuing operations; that
operations return is checked as a liveness property instead.

Fairness. `EGraph!FairSpec`: weak fairness of the engine's own steps, because a
command runs on its caller's thread until it returns. `ConcurrentUnionFind`: weak
fairness of each thread's step inside an operation, as a scheduler that does not
starve a thread gives; operations are lock-free and still return since the
number of merges is bounded. `ReadOptimizedLock`: weak fairness of each thread
(the mutex of a notification is only held for a bounded time), and spurious
wakeups do not go on for ever. `DuckTermEncoding`: weak fairness of the rules, because
`run_schedule` loops until each saturation reports no change. `Scheduler`: weak
fairness of an iteration or a `saturate` loop that has begun, which is one call; that
iterations go on is a premise of `LoopTerminates`.

Every property of a passing run is paired with a mutant in `PROJECT.json`: a
definition next to the original in the module (`WindowEndLate`,
`StillRootUnchecked`, `JoinTasksAtEnd`, ...) that changes it as a plausible bug
would and that TLC finds to violate the property.

## Findings

1. `egraph_panic`. After a run that a panic stops, `run_rules` returns before the
   rebuild although the unions the run staged are already merged. The next
   command measures the union-find after them, sees no growth and skips the
   rebuild, contrary to the comment at `egglog-bridge/src/lib.rs:957-960`.
2. `table_parallel_merge`. A parallel insert calls the merge function for a key
   that has a row but stores the incoming row instead of the result. Merge
   functions whose result is one of their arguments do not notice; unions of
   sets, sums and subsumption flags do, on inserts of more than 20,000 rows.
3. `table_stale_scan`. A scan with a constraint evaluates it on stale rows. A rule
   atom that repeats a variable outside the first column is such a scan
   (`core-relations/src/query.rs:427`), so it can match rows that were deleted or
   overwritten, with the stale marker in the first column.
4. `scheduler_stop`. `src/scheduler.rs:16-17` says that `can_stop` tells whether "the
   rules can be considered as saturated once no database changes were made", and
   `egglog-reports/src/lib.rs:125-126` that "there is no deferred scheduler work".
   When a ban ends, `filter_matches` chooses the matches from before the ban in an
   iteration whose query phase had still left the rule out. If they change nothing
   `can_stop` answers true, although facts inserted during the ban were never matched.

Seen on the way, without a run of its own: `saturate` returns the default report, with
`can_stop: true`, when its first iteration changes nothing, whatever its rules hold back;
with `:ban-length 0` `can_stop` is true while matches wait; and `DisplacedTable::clear`
(`core-relations/src/uf/mod.rs:321-324`) leaves the row lookup, the queued unions and
the generation, contrary to `core-relations/src/table_spec.rs:203-204`, so that a cached
index survives it once the table is as long as it was.

## Proofs

TLAPS checks every safety property of the passing runs, for every value of the
constants. A proof module states the inductive
invariant of its component as named parts, shows that each action keeps each part,
and derives the properties from it. The assumptions are the types of the constants
(`EGraphAssumption`, `UnionFindAssumption`, `LockAssumption`, `TableConstants`,
`DisplacedConstants`, `DepsAssumption`, `SchedulerConstants`, `CongruenceAssumption`, which
also says that the first ids given are `1..n`, and of `TableRows` that
`NoRow` is not a row and that a merge function gives a value), that tables and rule
matches are finite sets, and that a table reads only tables declared before it
(`DepsAssumption`), which is how `DependencyGraph::add_table` assigns levels. TLC
evaluates each of them in the runs. What bounds a run (`MaxId`, `MaxOps`, ...) may be
any number in the theorems.

**`EGraphProofs`.** `TypeOK` and one row per key are inductive as they stand. The rest
is a chain of invariants, each of which uses the ones before it:

- `SeminaiveInv`: a match older than its rule's window has fired, is queued, or has
  lost a row. Rows and staged rows are no newer than `ts`, windows do not exceed it, and
  the variants of a rule partition its matches by the first new atom (`LeastNatural`
  gives it), so closing a window loses none.
- `SoundInv`: every row, staged row, staged union and equated pair is justified by every
  congruence that contains what was asserted; hence `CongruenceSound`.
- `IdsInv`: leaders are no greater than their ids and lead themselves, and only ids that
  were handed out occur. `EqualitiesPersist` needs it: uniting two leaders keeps every
  other equality.
- `TrackInv`: rows that are not about to be removed, staged rows and queued matches hold
  only leaders or ids displaced since the tracker's mark. So looking only for recently
  displaced ids is enough.
- `CanonInv`: while no union was merged since the command began, and while a pass of a
  rebuild has changed nothing, they hold only leaders; hence the tables are canonical
  between commands.
- `CompleteInv`: every labelling of the ids that agrees with `canon`, with the staged
  unions and with rows of one key (present or staged) agrees with everything
  asserted. Between commands `canon` itself is such a labelling, which is
  `CongruenceComplete`; that fired rules left their rows, `EffectsVisible`, is the same
  statement about rows.

**`ConcurrentUnionFindProofs`.** `UnionInv`: the array is a forest whose roots are the
representatives `rep`; ids past its end are roots; what a thread holds is in the class
of its argument and not greater than it; what it is about to split around is no
root (and never becomes one again before a `reset`, which excludes every other thread).
A successful swap therefore either shortens a path or removes exactly one
representative: the forest represents the merges, and each child is reported once. `find` and `same_set` are linearised at
the second look at the first root: if it is one still, it was one when the second root was found.

**`ReadOptimizedLockProofs`.** `LockInv`: only the current token, or the one the current
writer has replaced, has guards; a replaced token has been notified, is about to
be, or has a guard whose destructor will do it; there is one writer, and it knows both tokens; the
mutex of a notification is held by the thread in its critical section; nobody
sleeps on a flag that is set without a waker on its way. It gives the
refinement of `RwLock`, whose steps are the moments a guard is taken and given up.

**`SortedWritesTableProofs`.** `TableInv`: the hash map leads to exactly the live rows;
the stale count, with what a parallel insert has not added yet, is exact; live rows
are sorted by timestamp; offsets ascend and each splits the live rows at its timestamp;
a parallel insert writes only rows of one timestamp at the end; an index of the current
major version has every live row up to its minor version. `ShardInv` says that rows
are in the shard of their key and that what a merge owes is at the head of the queues.
`KeepsPromise` is the refinement of `KeyedTable`: the contents are what a lookup finds,
blended with what tasks have gathered; each row taken from a queue is an `Insert`, and
writing out a block is a stutter. Its hypothesis `Chooses` says that the merge
function lets one of two values win, consistently (minimum, maximum, the old value; the run
uses the minimum). It is needed: the parallel path merges the rows of a batch with each other first, and it
stores the incoming row instead of the result (finding 2). For the function that
always takes the new value the two paths agree on values and not on timestamps. The
other theorems of the module hold for every merge function.

**`DisplacedTableProofs`.** `TableInv`: the forest's leaders are the ids without a row, row numbers
and rows lead to each other, timestamps ascend, the index has the rows up to its version, and the
ids that led at the rebuild's mark are those without an older row. Compression keeps leaders; the
function of leaders is shown to exist and to be unique, because a parent is no
greater than its child. So the table implements `Leaders`.

**`DatabaseProofs`.** `MergeInv`: a mark is set only if its table is recorded or the task
that set it is about to; tasks look only at marks that are published; during a stratum the missing tables
are of its level and each running merge has the buffers it writes. Levels
are a recursive function whose existence is proved by induction over the tables.

**`SchedulerProofs`.** `SchedulerInv`: what was found and not applied is in the list or in
`decided`, and nothing else is (`WaitInv`); every match of what a query ran over was found,
and is due or was applied (`AppliedInv`); a banned rule has matches (`BanInv`); while an
iteration runs, a rule whose query ran has run over every fact, and a rule that was
filtered and is not banned keeps nothing, unless bans have no length (`TurnInv`). The
theorems hold for every limit and ban length, 0 included. That `Residual`, which compacts the list in place by swaps, drops exactly the chosen matches
is proved of its recursion.

**`DuckTermEncodingProofs`.** `EncodingInv` has these parts besides types (`Types`), what is
left of an iteration (`TodoInv`), and that the index covers the ids up to some id (`Indexed`):

- `Older`, `Marked`: until an iteration changes something its stamp is new, and no row is
  newer than its table's watermark. So a rule that is skipped would have matched nothing.
- `Pending`: whatever a rule would match and has not is new since the rule last ran.
  For the congruence rule, which reads two view rows, the alternative is that its edge was
  added: the edges make the two ids equal (`Linked`), and go on to, whatever becomes of that edge.
- `Forest`: every id has an edge, edges lead down except those `singleparent` has still to
  turn, entries of the index are edges or shortcuts of them, and an entry leads to a leader
  outside of the rulesets of the union-find.
- `Quiet`: what the rulesets before this one have reached in a pass that changed nothing.
  Each loop of the schedule ends on such a pass.
- `Sound`, `Least`: `classes` is a congruence of edges and view rows, and the least one. The
  rules of the union-find replace edges by others that make the same ids equal. A view row is
  renamed along the index, which the edges bear out. A delete loses no equality, because it
  runs when the views are over leaders, one row per application.
- `Rebuilt`: a rebuild is left when the `rebuilding` ruleset changes nothing. `Pending` then
  says that no rule of it would match, so the index is a congruence of everything in the tables;
  `Least` says that it is `classes` (`RebuiltExact`).

The same `Pending` for the rebuild rule is `DroppedBranchEmpty`. It survives commands that
fail half-way: a row that an action wrote is over leaders of the index, and it becomes stale
only when the index changes. TLC checked each part of `EncodingInv` before it was proved.

`ClosureIsLeastCongruence` is about the operator both specifications use: each round
but the last removes a label, so that as many rounds as there are ids, less one,
are enough, and nothing is equated that every congruence does not equate. For the refinement,
`Canonical` of the views is what the abstract e-graph sees. A view row and the row of its leaders
cannot be told apart by a labelling that keeps the classes (`Covered`), so that learning a union
over the one or the other gives the same closure. Uniting equal ids, making an application that
exists, and the rules of the union-find and of rebuilding are stutters; the congruence rule is one too,
because `classes` has closed over the views already; the delete rule is `Purge`.

Induction. The library's induction theorems take an operator, which no installed prover
can instantiate. Each proof module that needs them therefore begins with lemmas about sets
of numbers, derived from the well-foundedness of the order: a least element
(`LeastNatural`), and from it inductive sets (`InductiveSet`), greatest elements and
sizes under one-to-one maps.

Only model-checked:

- liveness (`CommandsReturn`, both `OperationsReturn`, `RebuildTerminates`,
  `LoopTerminates`): fairness and `ENABLED` are outside what the provers handle;
- the four violations, which are counterexamples.

## Not modelled

Weak memory orderings; push and pop of whole e-graphs (the clone's scheduler shares
its list of matches with the original, its query rules do not); what becomes of the
ids in matches that a scheduler holds while they are displaced; the join planner and
executor (their result is the set of matches); containers, external functions and
term proofs; tables without a sort column; provenance of the displaced table, and its
`clear`; `seq`, `repeat` and `:until` of the schedule language; the rest of the frontend; the dataflow backends; of the DuckDB backend proof mode, native
merges, custom functions, containers and SQL itself.
Each has its reason in `PROJECT.json`.

## Plan

1. `TableRebuild`: incremental and full rebuilding of a function table over
   `DisplacedTable`'s hint, composed with `SortedWritesTable`.
2. Push/pop of the frontend; extraction as a fixpoint checked against a reference.
3. Native merges and proof mode of the DuckDB backend; FlowLog and Feldera.
4. A refinement of `KeyedTable` by the serial path alone, for every merge function.
