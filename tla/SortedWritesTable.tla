-------------------------- MODULE SortedWritesTable --------------------------
(***************************************************************************)
(* The table of core-relations (core-relations/src/table/mod.rs): rows are *)
(* only ever appended, in timestamp order; an overwritten or removed row   *)
(* stays where it is, marked stale, until a rehash compacts the table; a   *)
(* sharded hash map leads from a key to its live row; `offsets` says where *)
(* each timestamp's rows begin.  Writers stage mutations in buffers of     *)
(* their own and hand them over when they drop the buffer; a merge applies *)
(* them, by one thread or by one task per shard.  A cached index over the  *)
(* value column follows the table by versions                              *)
(* (core-relations/src/hash_index/mod.rs).                                 *)
(***************************************************************************)
EXTENDS TableRows, Sequences, FiniteSets, FiniteSetsExt, SequencesExt

CONSTANTS
  NumShards,  \* shards are 1..NumShards
  ShardOf,    \* key -> its shard
  Writers,    \* holders of mutation buffers
  BatchSize,  \* staged rows at which a parallel insert writes them out (2^18)
  RehashMin,  \* stale rows that are always tolerated (16)
  RehashPart, \* the part of the rows that may be stale is 1/RehashPart (2)
  MaxOps      \* bound: mutations staged

ASSUME TableConstants ==
  /\ NumShards \in Nat \ {0}
  /\ ShardOf \in [Keys -> 1..NumShards]
  /\ BatchSize \in Nat \ {0}
  /\ RehashMin \in Nat
  /\ RehashPart \in Nat \ {0}

VARIABLES
  data,        \* sequence of [row, live]: the row buffer
  hash,        \* key -> index of its live row, 0 if it has none
  offsets,     \* sequence of [ts, first]: where a timestamp's rows begin
  staleRows,   \* the count of stale rows
  generation,  \* major version: incremented when row ids change meaning
  queue,       \* shard -> rows handed over, first in first out
  removals,    \* keys handed over for removal
  buffers,     \* writer -> what it staged
  merge,       \* the merge under way
  index,       \* the cached index over the value column
  clock,       \* the engine's timestamp counter
  ops          \* mutations staged so far

table == <<data, hash, offsets, staleRows, generation>>
inbox == <<queue, removals, buffers, clock, ops>>
vars  == <<table, inbox, merge, index>>

Shards      == 1..NumShards
Entry(r)    == [row |-> r, live |-> TRUE]
EmptyBuffer == [rows |-> [s \in Shards |-> <<>>], removals |-> {}]
Idle ==
  [phase |-> "idle", shard |-> 0, staged |-> [s \in Shards |-> <<>>], working |-> {},
   start |-> 0, ts |-> 0, stale |-> 0, added |-> FALSE, owed |-> [s \in Shards |-> 0]]

NextRow    == Len(data) + 1
LiveRows   == {i \in DOMAIN data : data[i].live}
StaleIn(d) == Cardinality({i \in DOMAIN d : ~d[i].live})
Retired(d, ids) == [i \in DOMAIN d |-> [d[i] EXCEPT !.live = @ /\ i \notin ids]]
Lookup(k)  == IF hash[k] = 0 THEN NoRow ELSE data[hash[k]].row

Init ==
  /\ data = <<>>
  /\ hash = [k \in Keys |-> 0]
  /\ offsets = <<>>
  /\ staleRows = 0
  /\ generation = 0
  /\ queue = [s \in Shards |-> <<>>]
  /\ removals = {}
  /\ buffers = [w \in Writers |-> EmptyBuffer]
  /\ merge = Idle
  /\ index = [updated |-> FALSE, major |-> 0, minor |-> 0, entries |-> {}]
  /\ clock = 1
  /\ ops = 0

-----------------------------------------------------------------------------
(* Writers.  Staging touches only the writer's buffer, so it is enough to  *)
(* let it happen between merges; dropping a buffer can also happen during  *)
(* a merge, by the merge function of another table, which stages only      *)
(* insertions: then the merge may take one shard's rows and not another's. *)

StageInsert(w, k, v) ==
  /\ merge.phase = "idle"
  /\ ops < MaxOps
  /\ ops' = ops + 1
  /\ buffers' = [buffers EXCEPT ![w].rows[ShardOf[k]] =
                   Append(@, [key |-> k, val |-> v, ts |-> clock])]
  /\ UNCHANGED <<table, queue, removals, clock, merge, index>>

StageRemove(w, k) ==
  /\ merge.phase = "idle"
  /\ ops < MaxOps
  /\ ops' = ops + 1
  /\ buffers' = [buffers EXCEPT ![w].removals = @ \union {k}]
  /\ UNCHANGED <<table, queue, removals, clock, merge, index>>

DropBuffer(w) ==
  /\ merge.phase = "idle"
  /\ buffers[w] # EmptyBuffer
  /\ queue' = [s \in Shards |-> queue[s] \o buffers[w].rows[s]]
  /\ removals' = removals \union buffers[w].removals
  /\ buffers' = [buffers EXCEPT ![w] = EmptyBuffer]
  /\ UNCHANGED <<table, clock, ops, merge, index>>

DropShard(w, s) ==
  /\ merge.phase # "idle"
  /\ buffers[w].removals = {}
  /\ buffers[w].rows[s] # <<>>
  /\ \A t \in 1..(s - 1) : buffers[w].rows[t] = <<>>
  /\ queue' = [queue EXCEPT ![s] = @ \o buffers[w].rows[s]]
  /\ buffers' = [buffers EXCEPT ![w].rows[s] = <<>>]
  /\ UNCHANGED <<table, removals, clock, ops, merge, index>>

(* The engine advances its timestamp only when everything staged is merged. *)
Tick ==
  /\ merge.phase = "idle"
  /\ clock < MaxTs
  /\ buffers = [w \in Writers |-> EmptyBuffer]
  /\ queue = [s \in Shards |-> <<>>]
  /\ removals = {}
  /\ clock' = clock + 1
  /\ UNCHANGED <<table, queue, removals, buffers, ops, merge, index>>

ClearKeepsGeneration ==  \* mutant: the major version does not move
  /\ merge.phase = "idle"
  /\ queue' = [s \in Shards |-> <<>>]
  /\ removals' = {}
  /\ data' = <<>>
  /\ hash' = [k \in Keys |-> 0]
  /\ offsets' = <<>>
  /\ staleRows' = 0
  /\ index' = [index EXCEPT !.updated = FALSE]
  /\ UNCHANGED <<generation, buffers, clock, ops, merge>>

(* Pending mutations go; buffers that are still held do not. *)
Clear ==
  /\ merge.phase = "idle"
  /\ queue' = [s \in Shards |-> <<>>]
  /\ removals' = {}
  /\ IF data = <<>>
     THEN UNCHANGED table
     ELSE /\ data' = <<>>
          /\ hash' = [k \in Keys |-> 0]
          /\ offsets' = <<>>
          /\ staleRows' = 0
          /\ generation' = generation + 1
  /\ index' = [index EXCEPT !.updated = FALSE]
  /\ UNCHANGED <<buffers, clock, ops, merge>>

-----------------------------------------------------------------------------
(* A merge: deletions, then insertions by one of two paths, then perhaps a *)
(* rehash.                                                                 *)

StartMerge ==
  /\ merge.phase = "idle"
  /\ merge' = [Idle EXCEPT !.phase = "delete",
                            !.owed = [s \in Shards |-> Len(queue[s])]]
  /\ UNCHANGED <<table, inbox, index>>

Delete ==
  /\ merge.phase = "delete"
  /\ LET gone == {hash[k] : k \in removals} \ {0}
     IN  /\ data' = Retired(data, gone)
         /\ staleRows' = staleRows + Cardinality(gone)
  /\ hash' = [k \in Keys |-> IF k \in removals THEN 0 ELSE hash[k]]
  /\ removals' = {}
  /\ \E path \in {"serial", "parallel"} :
       merge' = [merge EXCEPT !.phase = path, !.shard = 1, !.working = Shards,
                              !.start = NextRow]
  /\ UNCHANGED <<offsets, generation, queue, buffers, clock, ops, index>>

(* Takes the first row of a shard's queue. *)
Pop(s) == queue' = [queue EXCEPT ![s] = Tail(@)]
OwedAfterPop(s) == [merge.owed EXCEPT ![s] = IF @ = 0 THEN 0 ELSE @ - 1]

(* Where a batch whose first row goes to index `at` is entered. *)
Entered(ts, at) ==
  IF offsets = <<>> \/ ts > Last(offsets).ts
  THEN Append(offsets, [ts |-> ts, first |-> at]) ELSE offsets

(* One thread: shard by shard, row by row. *)
Serial(s) ==
  /\ merge.phase = "serial"
  /\ merge.shard = s
  /\ queue[s] # <<>>
  /\ Pop(s)
  /\ UNCHANGED <<generation, removals, buffers, clock, ops, index>>

InsertNew(s) ==
  /\ Serial(s)
  /\ LET row == Head(queue[s])
     IN  /\ hash[row.key] = 0
         /\ data' = Append(data, Entry(row))
         /\ hash' = [hash EXCEPT ![row.key] = NextRow]
         /\ offsets' = Entered(row.ts, NextRow)
  /\ merge' = [merge EXCEPT !.added = TRUE, !.owed = OwedAfterPop(s)]
  /\ UNCHANGED staleRows

InsertMergedQuietly(s) ==  \* mutant: an overwritten row is not reported
  /\ Serial(s)
  /\ LET row == Head(queue[s])
         old == hash[row.key]
         new == Applied(Lookup(row.key), row)
     IN  /\ old # 0
         /\ new # Lookup(row.key)
         /\ data' = Append(Retired(data, {old}), Entry(new))
         /\ hash' = [hash EXCEPT ![row.key] = NextRow]
         /\ offsets' = Entered(row.ts, NextRow)
  /\ staleRows' = staleRows + 1
  /\ merge' = [merge EXCEPT !.owed = OwedAfterPop(s)]

(* The merge function changed the row: what it made of the two is appended *)
(* and the old row becomes stale.                                          *)
InsertMerged(s) ==
  /\ Serial(s)
  /\ LET row == Head(queue[s])
         old == hash[row.key]
         new == Applied(Lookup(row.key), row)
     IN  /\ old # 0
         /\ new # Lookup(row.key)
         /\ data' = Append(Retired(data, {old}), Entry(new))
         /\ hash' = [hash EXCEPT ![row.key] = NextRow]
         /\ offsets' = Entered(row.ts, NextRow)
  /\ staleRows' = staleRows + 1
  /\ merge' = [merge EXCEPT !.added = TRUE, !.owed = OwedAfterPop(s)]

InsertUnchanged(s) ==
  /\ Serial(s)
  /\ LET row == Head(queue[s])
     IN  /\ hash[row.key] # 0
         /\ Applied(Lookup(row.key), row) = Lookup(row.key)
  /\ merge' = [merge EXCEPT !.owed = OwedAfterPop(s)]
  /\ UNCHANGED <<data, hash, offsets, staleRows>>

NextShard ==
  /\ merge.phase = "serial"
  /\ queue[merge.shard] = <<>>
  /\ merge' = IF merge.shard < NumShards
              THEN [merge EXCEPT !.shard = @ + 1]
              ELSE [merge EXCEPT !.phase = "rehash"]
  /\ UNCHANGED <<table, inbox, index>>

-----------------------------------------------------------------------------
(* One task per shard.  A task first gathers its rows, merging those of one *)
(* key with each other, then appends them as one block and links each row.  *)

StagedAt(s, k) ==
  {i \in DOMAIN merge.staged[s] : merge.staged[s][i].live /\ merge.staged[s][i].row.key = k}
LiveStaged(s) == {i \in DOMAIN merge.staged[s] : merge.staged[s][i].live}

StagedWithLast(s, row) ==  \* mutant: the incoming row wins over the staged one
  Append(Retired(merge.staged[s], StagedAt(s, row.key)), Entry(row))

(* StagedOutputs::insert. *)
StagedWith(s, row) ==
  LET staged == merge.staged[s]
      old == StagedAt(s, row.key)
      cur == IF old = {} THEN NoRow ELSE staged[CHOOSE i \in old : TRUE].row
      new == Applied(cur, row)
  IN  IF new = cur THEN staged ELSE Append(Retired(staged, old), Entry(new))

Gather(s) ==
  /\ merge.phase = "parallel"
  /\ s \in merge.working
  /\ queue[s] # <<>>
  /\ Cardinality(LiveStaged(s)) < BatchSize
  /\ Pop(s)
  /\ merge' = [merge EXCEPT !.staged[s] = StagedWith(s, Head(queue[s])),
                            !.owed = OwedAfterPop(s)]
  /\ UNCHANGED <<table, removals, buffers, clock, ops, index>>

FlushMiscounts(s) ==  \* mutant: an incoming row that is not needed is not counted
  LET block    == merge.staged[s]
      row(i)   == block[i].row
      occupied == {i \in LiveStaged(s) : hash[row(i).key] # 0}
      kept     == {i \in occupied : Applied(Lookup(row(i).key), row(i)) = Lookup(row(i).key)}
      linked   == LiveStaged(s) \ kept
      old      == {hash[row(i).key] : i \in occupied \ kept}
      target(k) == {i \in linked : row(i).key = k}
  IN  /\ data' = Retired(data, old) \o Retired(block, kept)
      /\ hash' = [k \in Keys |-> IF target(k) = {} THEN hash[k]
                                 ELSE Len(data) + (CHOOSE i \in target(k) : TRUE)]
      /\ merge' = [merge EXCEPT !.staged[s] = <<>>,
                     !.stale = @ + StaleIn(block) + Cardinality(occupied \ kept),
                     !.added = @ \/ LiveStaged(s) # {},
                     !.ts = Max({@} \union {row(i).ts : i \in LiveStaged(s)}),
                     !.working = IF queue[s] = <<>> THEN @ \ {s} ELSE @]
      /\ UNCHANGED <<offsets, staleRows, generation, inbox, index>>

(* The block is appended.  A staged row whose key is new is linked.  For a   *)
(* key that has a row the merge function is asked; if it changes anything    *)
(* the incoming row replaces the old one as it is (what the function wrote   *)
(* to `scratch` is not used), otherwise the incoming row becomes stale.      *)
Flush(s) ==
  LET block    == merge.staged[s]
      row(i)   == block[i].row
      occupied == {i \in LiveStaged(s) : hash[row(i).key] # 0}
      kept     == {i \in occupied : Applied(Lookup(row(i).key), row(i)) = Lookup(row(i).key)}
      linked   == LiveStaged(s) \ kept
      old      == {hash[row(i).key] : i \in occupied \ kept}
      target(k) == {i \in linked : row(i).key = k}
  IN  /\ data' = Retired(data, old) \o Retired(block, kept)
      /\ hash' = [k \in Keys |-> IF target(k) = {} THEN hash[k]
                                 ELSE Len(data) + (CHOOSE i \in target(k) : TRUE)]
      /\ merge' = [merge EXCEPT !.staged[s] = <<>>,
                     !.stale = @ + StaleIn(block) + Cardinality(occupied),
                     !.added = @ \/ LiveStaged(s) # {},
                     !.ts = Max({@} \union {row(i).ts : i \in LiveStaged(s)}),
                     !.working = IF queue[s] = <<>> THEN @ \ {s} ELSE @]
      /\ UNCHANGED <<offsets, staleRows, generation, inbox, index>>

(* A full batch is written out on the way, the rest when the queue is empty. *)
FlushBatch(s) ==
  /\ merge.phase = "parallel"
  /\ s \in merge.working
  /\ queue[s] = <<>> \/ Cardinality(LiveStaged(s)) >= BatchSize
  /\ Flush(s)

JoinTasksAtEnd ==  \* mutant: the offset is taken after the rows were written
  /\ merge.phase = "parallel"
  /\ merge.working = {}
  /\ offsets' = IF merge.ts = 0 THEN offsets ELSE Entered(merge.ts, NextRow)
  /\ staleRows' = staleRows + merge.stale
  /\ merge' = [merge EXCEPT !.phase = "rehash"]
  /\ UNCHANGED <<data, hash, generation, inbox, index>>

(* All tasks are done: one entry of `offsets` for the whole insert, if it    *)
(* wrote a row and its timestamp is new, and the stale rows are counted.     *)
JoinTasks ==
  /\ merge.phase = "parallel"
  /\ merge.working = {}
  /\ offsets' = IF merge.ts = 0 THEN offsets ELSE Entered(merge.ts, merge.start)
  /\ staleRows' = staleRows + merge.stale
  /\ merge' = [merge EXCEPT !.phase = "rehash"]
  /\ UNCHANGED <<data, hash, generation, inbox, index>>

-----------------------------------------------------------------------------
(* Rehashing keeps the live rows.  One thread keeps their order; the parallel *)
(* version groups them by timestamp and within one by shard, in any order.    *)

TooManyStale == staleRows > Max({RehashMin, Len(data) \div RehashPart})

Orders == {o \in [1..Cardinality(LiveRows) -> LiveRows] : IsInjective(o)}
SerialOrders == {o \in Orders : \A i, j \in DOMAIN o : i < j => o[i] < o[j]}
ShardOrders ==
  {o \in Orders : \A i, j \in DOMAIN o :
     LET a == data[o[i]].row
         b == data[o[j]].row
     IN  i < j => \/ a.ts < b.ts
                  \/ a.ts = b.ts /\ ShardOf[a.key] <= ShardOf[b.key]}

OffsetsOf(d) ==
  LET starts == {i \in DOMAIN d : \A j \in 1..(i - 1) : d[j].row.ts < d[i].row.ts}
  IN  [n \in 1..Cardinality(starts) |->
         LET i == CHOOSE i \in starts : Cardinality({j \in starts : j <= i}) = n
         IN  [ts |-> d[i].row.ts, first |-> i]]

Compact(order) ==
  /\ data' = [i \in DOMAIN order |-> data[order[i]]]
  /\ hash' = [k \in Keys |-> IF hash[k] = 0 THEN 0
                             ELSE CHOOSE i \in DOMAIN order : order[i] = hash[k]]
  /\ offsets' = OffsetsOf(data')
  /\ staleRows' = 0
  /\ generation' = generation + 1

(* MergeAll resets the indexes of every table when it is done. *)
EndMerge(orders) ==
  /\ merge.phase = "rehash"
  /\ IF TooManyStale THEN \E o \in orders : Compact(o) ELSE UNCHANGED table
  /\ merge' = Idle
  /\ index' = [index EXCEPT !.updated = FALSE]
  /\ UNCHANGED inbox

-----------------------------------------------------------------------------
(* Readers. *)

(* ResettableOnceLock::get_or_update with Index::refresh: from scratch if the *)
(* major version moved, else only the rows appended since.                    *)
RefreshIndex ==
  /\ merge.phase = "idle"
  /\ ~index.updated
  /\ LET full == index.major # generation
         new  == {i \in LiveRows : full \/ i > index.minor}
         kept == IF full THEN {} ELSE index.entries
     IN  index' = [updated |-> TRUE, major |-> generation, minor |-> Len(data),
                   entries |-> kept \union {<<data[i].row.val, i>> : i \in new}]
  /\ UNCHANGED <<table, inbox, merge>>

(* What an index lookup returns. *)
Indexed(v) == {e[2] : e \in {e \in index.entries : e[1] = v}}

(* binary_search_sort_val: the rows of a timestamp, or where they would be.  *)
Position(t) == Cardinality({n \in DOMAIN offsets : offsets[n].ts < t}) + 1
FirstAt(n)  == IF n \in DOMAIN offsets THEN offsets[n].first ELSE NextRow
Known(t)    == Position(t) \in DOMAIN offsets /\ offsets[Position(t)].ts = t
Begin(t)    == FirstAt(Position(t))
End(t)      == IF Known(t) THEN FirstAt(Position(t) + 1) ELSE Begin(t)

FastSubset(op, t) ==
  CASE op = "eq" -> Begin(t)..(End(t) - 1)
    [] op = "lt" -> 1..(Begin(t) - 1)
    [] op = "le" -> 1..(End(t) - 1)
    [] op = "ge" -> Begin(t)..(NextRow - 1)
    [] op = "gt" -> End(t)..(NextRow - 1)

(* scan_generic_bounded over a set of row ids.  Without constraints stale     *)
(* rows are skipped; with them only the constraints are evaluated.  The one   *)
(* here equates the second key column with the value column, neither of which *)
(* is the column that marks a stale row.                                      *)
ScanAll(ids)   == {i \in ids : data[i].live}
ScanEqual(ids) == {i \in ids : data[i].row.key[2] = data[i].row.val}

-----------------------------------------------------------------------------
Next ==
  \/ \E w \in Writers : \/ \E k \in Keys, v \in Values : StageInsert(w, k, v)
                        \/ \E k \in Keys : StageRemove(w, k)
                        \/ DropBuffer(w)
                        \/ \E s \in Shards : DropShard(w, s)
  \/ Tick \/ Clear \/ StartMerge \/ Delete
  \/ \E s \in Shards : InsertNew(s) \/ InsertMerged(s) \/ InsertUnchanged(s)
  \/ NextShard
  \/ \E s \in Shards : Gather(s) \/ FlushBatch(s)
  \/ JoinTasks
  \/ EndMerge(SerialOrders) \/ EndMerge(ShardOrders)
  \/ RefreshIndex

Spec == Init /\ [][Next]_vars

-----------------------------------------------------------------------------
(* Properties. *)

EntryType == [row : Row, live : BOOLEAN]

(* Types of the row buffer, the hash map, the offsets, the queues and of the *)
(* state of a merge: a key leads to a row that exists. (The run checks        *)
(* HashExact, which says more of the rows a key leads to.)                    *)
TypeOK ==
  /\ \A i \in DOMAIN data : data[i] \in EntryType
  /\ hash \in [Keys -> 0..Len(data)]
  /\ \A n \in DOMAIN offsets : offsets[n].ts \in Timestamps /\ offsets[n].first \in 1..Len(data)
  /\ staleRows \in 0..Len(data)
  /\ \A s \in Shards : \A n \in DOMAIN queue[s] : queue[s][n] \in Row
  /\ removals \subseteq Keys
  /\ merge.phase \in {"idle", "delete", "serial", "parallel", "rehash"}
  /\ clock \in Timestamps
  /\ ops \in 0..MaxOps

(* The hash map leads from each key to the one live row that has it, and from *)
(* nowhere else, after any number of overwrites, removals, parallel inserts   *)
(* and compactions; outside of a parallel insert the stale rows are counted   *)
(* exactly, which is what lets a scan skip the check for staleness and what   *)
(* triggers a rehash.                                                         *)
HashExact ==
  /\ \A k \in Keys : {i \in LiveRows : data[i].row.key = k} = {hash[k]} \ {0}
  /\ merge.phase # "parallel" => staleRows = StaleIn(data)

Satisfies(t, op, u) ==
  CASE op = "eq" -> t = u [] op = "lt" -> t < u [] op = "le" -> t <= u
    [] op = "ge" -> t >= u [] op = "gt" -> t > u

(* fast_subset answers a constraint on the timestamp with a range of row ids; *)
(* the live rows in the range are exactly those that satisfy it.  Seminaive   *)
(* evaluation and the incremental rebuild see new rows only through it.       *)
OffsetsExact ==
  merge.phase \in {"idle", "rehash"} =>
    \A t \in 0..(MaxTs + 1), op \in {"eq", "lt", "le", "ge", "gt"} :
      FastSubset(op, t) \intersect LiveRows
        = {i \in LiveRows : Satisfies(data[i].row.ts, op, t)}

(* An index that counts as updated finds exactly the live rows with a value,  *)
(* whatever merges, clears and rehashes happened since it was last refreshed. *)
IndexExact ==
  merge.phase = "idle" /\ index.updated =>
    \A v \in Values :
      ScanAll(Indexed(v) \intersect DOMAIN data) = {i \in LiveRows : data[i].row.val = v}

(* A merge that gives a key a row it did not have reports that rows were      *)
(* added; the engine's loops stop on that answer.                             *)
ChangeReported ==
  [][\A k \in Keys : Lookup(k)' \notin {Lookup(k), NoRow} => merge'.added]_vars

(* The table keeps the promise of KeyedTable.  A row that a task has gathered *)
(* but not written counts as inserted: a lookup after the merge cannot tell.  *)
GatheredRow(k) ==
  LET at == StagedAt(ShardOf[k], k)
  IN  IF at = {} THEN NoRow ELSE merge.staged[ShardOf[k]][CHOOSE i \in at : TRUE].row
Contents ==
  [k \in Keys |-> IF GatheredRow(k) = NoRow THEN Lookup(k) ELSE Applied(Lookup(k), GatheredRow(k))]
Count(q, r) == Cardinality({n \in DOMAIN q : q[n] = r})
Queued == [r \in Row |-> Count(queue[ShardOf[r.key]], r)]
Due ==
  [r \in Row |-> LET s == ShardOf[r.key] IN Count(SubSeq(queue[s], 1, merge.owed[s]), r)]
Phase ==
  CASE merge.phase = "idle" -> "idle"
    [] merge.phase = "delete" -> "removing"
    [] OTHER -> "inserting"
Abstract == INSTANCE KeyedTable WITH
  contents <- Contents, queued <- Queued, removals <- removals, due <- Due, phase <- Phase
ImplementsKeyedTable == Abstract!Spec

(* SortedWritesTable::new: the merge function fills its last argument "with   *)
(* the contents of the new row", and its result says "whether or not the      *)
(* contents of the vector should be used".  A task that writes out its rows   *)
(* leaves, for each of their keys, what the merge function made of the two.   *)
MergedRowIsUsed ==
  [][\A s \in Shards : FlushBatch(s) =>
       \A k \in Keys : StagedAt(s, k) # {} => Lookup(k)' = Contents[k]]_vars

(* Stale rows are "not intended to be read" (core-relations/src/common.rs): a *)
(* scan of the whole table reads live rows only, with or without constraints. *)
ScansReadLive ==
  merge.phase = "idle" => /\ ScanAll(DOMAIN data) \subseteq LiveRows
                          /\ ScanEqual(DOMAIN data) \subseteq LiveRows
=============================================================================
