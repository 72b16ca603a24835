---------------------------- MODULE DisplacedTable ----------------------------
(***************************************************************************)
(* The union-find seen as a table (core-relations/src/uf/mod.rs).  A row   *)
(* says of an id that stopped leading its class which id leads it now and  *)
(* when it was displaced; only the id and the timestamp are stored, the    *)
(* leader is looked up in the forest.  Writers stage pairs to unite in     *)
(* buffers of their own; a merge unites them one by one.  Readers select   *)
(* rows by id or timestamp, a cached index follows the table by versions,  *)
(* and the incremental rebuild asks for the rows that are new since it     *)
(* last asked.                                                             *)
(***************************************************************************)
EXTENDS Naturals, Sequences, FiniteSets, FiniteSetsExt

CONSTANTS
  Ids,      \* e-class ids, an initial segment of Nat
  Writers,  \* holders of mutation buffers
  MaxTs,    \* bound: timestamps are 1..MaxTs
  MaxOps    \* bound: unions staged

ASSUME DisplacedConstants ==
  /\ Ids \subseteq Nat
  /\ MaxTs \in Nat \ {0}
  /\ MaxOps \in Nat

VARIABLES
  parents,    \* id -> its parent in the forest
  displaced,  \* sequence of [id, ts]: the rows
  lookup,     \* id -> number of its row, 0 if it has none
  queue,      \* unions handed over: sequence of [l, r, ts]
  buffers,    \* writer -> the unions it staged
  merging,    \* a merge is under way
  index,      \* the cached index over the cacheable columns
  tracker,    \* the rebuild's mark: rows seen, and the leaders it saw
  clock,      \* the engine's timestamp counter
  ops         \* unions staged so far

table == <<parents, displaced, lookup>>
inbox == <<queue, buffers, clock, ops>>
vars  == <<table, inbox, merging, index, tracker>>

Timestamps == 1..MaxTs
Write      == [l : Ids, r : Ids, ts : Timestamps]
Rows       == DOMAIN displaced

-----------------------------------------------------------------------------
(* The forest: union-find/src/lib.rs. *)

(* find_naive: walks up without writing. *)
LeaderIn(p) == LET up[i \in Ids] == IF p[i] = i THEN i ELSE up[p[i]] IN up
Leader == LeaderIn(parents)

(* find: every id that the walk stops at is hung under its grandparent. *)
Walked(p) ==
  LET walk[i \in Ids] == IF p[i] = i THEN {} ELSE {i} \union walk[p[p[i]]] IN walk
Compressed(p, id) ==
  LET path == Walked(p)[id] IN [i \in Ids |-> IF i \in path THEN p[p[i]] ELSE p[i]]

SidesUnsearched(p, row) == <<row.l, row.r>>  \* mutant: unites the ids, not their leaders

Sides(p, row) == <<LeaderIn(p)[row.l], LeaderIn(p)[row.r]>>

(* union: the lesser leader stays. *)
Ordered(s) ==
  IF s[1] < s[2] THEN [parent |-> s[1], child |-> s[2]] ELSE [parent |-> s[2], child |-> s[1]]

Expand(n) == [id |-> displaced[n].id, leader |-> Leader[displaced[n].id], ts |-> displaced[n].ts]

Init ==
  /\ parents = [i \in Ids |-> i]
  /\ displaced = <<>>
  /\ lookup = [i \in Ids |-> 0]
  /\ queue = <<>>
  /\ buffers = [w \in Writers |-> <<>>]
  /\ merging = FALSE
  /\ index = [updated |-> FALSE, minor |-> 0, entries |-> {}]
  /\ tracker = [minor |-> 0, leader |-> [i \in Ids |-> i]]
  /\ clock = 1
  /\ ops = 0

-----------------------------------------------------------------------------
(* Writers.  Staging touches only the writer's buffer; a buffer is handed   *)
(* over when it is dropped, also while a merge empties the queue.           *)

Stage(w, l, r) ==
  /\ ~merging
  /\ ops < MaxOps
  /\ ops' = ops + 1
  /\ buffers' = [buffers EXCEPT ![w] = Append(@, [l |-> l, r |-> r, ts |-> clock])]
  /\ UNCHANGED <<table, queue, clock, merging, index, tracker>>

DropBuffer(w) ==
  /\ buffers[w] # <<>>
  /\ queue' = queue \o buffers[w]
  /\ buffers' = [buffers EXCEPT ![w] = <<>>]
  /\ UNCHANGED <<table, clock, ops, merging, index, tracker>>

(* The engine advances its timestamp only when everything staged is merged. *)
Tick ==
  /\ ~merging
  /\ clock < MaxTs
  /\ queue = <<>>
  /\ \A w \in Writers : buffers[w] = <<>>
  /\ clock' = clock + 1
  /\ UNCHANGED <<table, queue, buffers, ops, merging, index, tracker>>

-----------------------------------------------------------------------------
(* A merge applies what is queued until the queue is empty. *)

StartMerge ==
  /\ ~merging
  /\ merging' = TRUE
  /\ UNCHANGED <<table, inbox, index, tracker>>

Displace(row) ==
  LET Search(p) == Compressed(Compressed(p, row.l), row.r)
      found     == Search(parents)
      sides     == Sides(found, row)
      new       == Ordered(sides)
  IN  IF sides[1] = sides[2]
      THEN /\ parents' = found
           /\ UNCHANGED <<displaced, lookup>>
      ELSE /\ parents' = [Search(found) EXCEPT ![new.child] = new.parent]
           /\ displaced' = Append(displaced, [id |-> new.child, ts |-> row.ts])
           /\ lookup' = [lookup EXCEPT ![new.child] = Len(displaced')]

Insert ==
  /\ merging
  /\ queue # <<>>
  /\ queue' = Tail(queue)
  /\ Displace(Head(queue))
  /\ UNCHANGED <<buffers, clock, ops, merging, index, tracker>>

(* A merge reports a change if it displaced an id.  When every table is     *)
(* merged the indexes are reset.                                            *)
EndMerge ==
  /\ merging
  /\ queue = <<>>
  /\ merging' = FALSE
  /\ index' = [index EXCEPT !.updated = FALSE]
  /\ UNCHANGED <<table, inbox, tracker>>

-----------------------------------------------------------------------------
(* Readers. *)

CacheableAll == {"id", "leader", "ts"}  \* mutant: column 1 is not declared uncacheable

(* The leader changes in place, so it must not be cached. *)
Cacheable == {"id", "ts"}

UpdatesSinceNext(minor) == (minor + 2)..Len(displaced)  \* mutant: off by one

UpdatesSince(minor) == (minor + 1)..Len(displaced)

(* The major version never moves: only rows appended since are entered.     *)
RefreshIndex ==
  /\ ~merging
  /\ ~index.updated
  /\ index' = [updated |-> TRUE, minor |-> Len(displaced),
               entries |-> index.entries \union
                 {<<c, Expand(n)[c], n>> : c \in Cacheable, n \in UpdatesSince(index.minor)}]
  /\ UNCHANGED <<table, inbox, merging, tracker>>

Indexed(c, v) == {e[3] : e \in {e \in index.entries : e[1] = c /\ e[2] = v}}

(* SubsetTracker::recent_updates, on behalf of an incremental rebuild, which *)
(* then looks up the ids in these rows and leaves only leaders in its table. *)
RecentlyDisplaced == {displaced[n].id : n \in UpdatesSince(tracker.minor)}
Rebuild ==
  /\ ~merging
  /\ tracker' = [minor |-> Len(displaced), leader |-> Leader]
  /\ UNCHANGED <<table, inbox, merging, index>>

(* timestamp_bounds: first row of a timestamp and first row after it, both   *)
(* the place where it would be if there is none.                             *)
At(t)    == {n \in Rows : displaced[n].ts = t}
Place(t) == Cardinality({n \in Rows : displaced[n].ts < t}) + 1
Begin(t) == IF At(t) = {} THEN Place(t) ELSE Min(At(t))
EndAtLast(t) == IF At(t) = {} THEN Place(t) ELSE Max(At(t))  \* mutant: off by one

End(t)   == IF At(t) = {} THEN Place(t) ELSE Max(At(t)) + 1

(* For equality with a timestamp that no row has, the code declines and the  *)
(* caller scans with the constraint: no row either way.                      *)
FastSubset(op, t) ==
  CASE op = "eq" -> Begin(t)..(End(t) - 1)
    [] op = "lt" -> 1..(Begin(t) - 1)
    [] op = "le" -> 1..(End(t) - 1)
    [] op = "gt" -> End(t)..Len(displaced)
    [] op = "ge" -> Begin(t)..Len(displaced)

(* The same for a constraint on the id, and get_row. *)
RowsOf(id) == {lookup[id]} \ {0}

-----------------------------------------------------------------------------
(* The engine never clears the table that holds its own union-find; clear   *)
(* is left out.                                                             *)
Next ==
  \/ \E w \in Writers : \/ \E l, r \in Ids : Stage(w, l, r)
                        \/ DropBuffer(w)
  \/ Tick \/ StartMerge \/ Insert \/ EndMerge
  \/ RefreshIndex \/ Rebuild

Spec == Init /\ [][Next]_vars

-----------------------------------------------------------------------------
(* Properties. *)

(* Types; a parent is never greater than its child, so that every walk in    *)
(* the forest ends. (ImplementsLeaders, which the run checks, needs the ends.) *)
TypeOK ==
  /\ parents \in [Ids -> Ids]
  /\ \A i \in Ids : parents[i] <= i
  /\ \A n \in Rows : displaced[n] \in [id : Ids, ts : Timestamps]
  /\ lookup \in [Ids -> 0..Len(displaced)]
  /\ \A n \in DOMAIN queue : queue[n] \in Write
  /\ \A w \in Writers : \A n \in DOMAIN buffers[w] : buffers[w][n] \in Write
  /\ merging \in BOOLEAN
  /\ index.minor \in 0..Len(displaced)
  /\ tracker.minor \in 0..Len(displaced)
  /\ clock \in Timestamps
  /\ ops \in 0..MaxOps

Satisfies(t, op, u) ==
  CASE op = "eq" -> t = u [] op = "lt" -> t < u [] op = "le" -> t <= u
    [] op = "ge" -> t >= u [] op = "gt" -> t > u

(* Every id that is not a leader has exactly one row, found by its id, and   *)
(* fast_subset answers a constraint on the timestamp, present or absent, with *)
(* exactly the rows that satisfy it, whatever order the unions came in.      *)
RowsExact ==
  /\ \A i \in Ids : {n \in Rows : displaced[n].id = i} = RowsOf(i)
  /\ \A i \in Ids : RowsOf(i) = {} <=> Leader[i] = i
  /\ \A t \in 0..(MaxTs + 1), op \in {"eq", "lt", "le", "ge", "gt"} :
       FastSubset(op, t) = {n \in Rows : Satisfies(displaced[n].ts, op, t)}

(* An index that counts as updated gives, for every value of every cached    *)
(* column, the rows that have it now, although it is only ever extended and  *)
(* the rows of a class change in place when its leader does.                 *)
IndexExact ==
  index.updated /\ ~merging =>
    \A c \in Cacheable, v \in Ids \union Timestamps :
      Indexed(c, v) = {n \in Rows : Expand(n)[c] = v}

(* An incremental rebuild looks only for the ids in the recent rows.  Those  *)
(* are exactly the ids that led a class when it last ran and do not now, so  *)
(* that no id it left in a table stays behind after its class lost its       *)
(* leader, however many unions cascaded since.                               *)
HintComplete ==
  ~merging => RecentlyDisplaced = {i \in Ids : tracker.leader[i] = i /\ Leader[i] # i}

(* The table implements Leaders, read through its row lookup. *)
Abstract == INSTANCE Leaders WITH
  leader <- Leader,
  stamp  <- [i \in Ids |-> IF RowsOf(i) = {} THEN 0 ELSE displaced[lookup[i]].ts]
ImplementsLeaders == Abstract!Spec
=============================================================================
