----------------------------- MODULE KeyedTable -----------------------------
(***************************************************************************)
(* What a table promises: a map from keys to rows and a bag of insertions  *)
(* and a set of removals that wait for the next merge.  A merge removes    *)
(* first, then applies insertions one by one in any order; insertions may  *)
(* arrive while it goes on, and it ends only when every insertion queued   *)
(* before it began has been applied.                                       *)
(***************************************************************************)
EXTENDS TableRows

VARIABLES
  contents,  \* key -> its row, or NoRow
  queued,    \* row -> how often it waits to be inserted
  removals,  \* keys that wait to be removed
  due,       \* row -> how often the merge under way still has to insert it
  phase      \* "idle", "removing" or "inserting"

vars == <<contents, queued, removals, due, phase>>

Nothing == [r \in Row |-> 0]

(* A table starts empty or as a clone of another. *)
Init ==
  /\ DOMAIN contents = Keys
  /\ \A k \in Keys : contents[k] # NoRow => contents[k] \in Row /\ contents[k].key = k
  /\ queued = Nothing
  /\ removals = {}
  /\ due = Nothing
  /\ phase = "idle"

Queue ==
  /\ \A r \in Row : queued'[r] >= queued[r]
  /\ removals \subseteq removals'
  /\ removals' # removals => phase = "idle"
  /\ UNCHANGED <<contents, due, phase>>

StartMerge ==
  /\ phase = "idle"
  /\ phase' = "removing"
  /\ due' = queued
  /\ UNCHANGED <<contents, queued, removals>>

Remove ==
  /\ phase = "removing"
  /\ phase' = "inserting"
  /\ contents' = [k \in Keys |-> IF k \in removals THEN NoRow ELSE contents[k]]
  /\ removals' = {}
  /\ UNCHANGED <<queued, due>>

Insert(r) ==
  /\ phase = "inserting"
  /\ queued[r] > 0
  /\ contents' = [contents EXCEPT ![r.key] = Applied(@, r)]
  /\ queued' = [queued EXCEPT ![r] = @ - 1]
  /\ due' = [due EXCEPT ![r] = IF @ = 0 THEN 0 ELSE @ - 1]
  /\ UNCHANGED <<removals, phase>>

EndMerge ==
  /\ phase = "inserting"
  /\ due = Nothing
  /\ phase' = "idle"
  /\ UNCHANGED <<contents, queued, removals, due>>

(* Clearing drops what is queued too. *)
Clear ==
  /\ phase = "idle"
  /\ contents' = [k \in Keys |-> NoRow]
  /\ queued' = Nothing
  /\ removals' = {}
  /\ UNCHANGED <<due, phase>>

Next ==
  \/ Queue \/ StartMerge \/ Remove \/ EndMerge \/ Clear
  \/ \E r \in Row : Insert(r)

Spec == Init /\ [][Next]_vars
=============================================================================
