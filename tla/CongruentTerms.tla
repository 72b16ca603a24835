---------------------------- MODULE CongruentTerms ----------------------------
(* What an e-graph promises: an equivalence over ids closed under congruence *)
(* and, per constructor, the set of its applications written over leaders.   *)
(* A user union merges at once; deleting the applications asked for is a     *)
(* separate step, since the deletes of an iteration happen after it.         *)
EXTENDS Congruence

VARIABLES
  leader, \* id -> the least id of its class
  rows,   \* constructor -> its applications, over leaders
  doomed, \* constructor -> arguments of the applications to delete
  next    \* the next id

vars == <<leader, rows, doomed, next>>

Init ==
  /\ leader = [i \in Ids |-> i]
  /\ rows = [f \in Names |-> {}]
  /\ doomed = [f \in Names |-> {}]
  /\ next = Cardinality(Leaves) + 1

Learn(pairs, added) ==
  /\ leader' = Closure({<<i, leader[i]>> : i \in Ids} \cup pairs, added)
  /\ rows' = Canonical(leader', added)

\* Two terms are made equal, with all that follows by congruence.
Union ==
  /\ UNCHANGED <<doomed, next>>
  /\ \E x, y \in 1..(next - 1) :
       /\ leader[x] < leader[y] /\ leader'[x] = leader'[y]
       /\ Learn({<<x, y>>}, rows)

\* A new id for an application; if it exists already, congruence unites the two.
Make ==
  /\ next \in Ids
  /\ next' = next + 1
  /\ UNCHANGED doomed
  /\ \E f \in Names : \E args \in [1..Arity[f] -> 1..(next - 1)] :
        Learn({}, [rows EXCEPT ![f] = @ \cup {Row(args, next)}])

\* The application to args is to be deleted.
Doom ==
  /\ \E f \in Names : \E args \in [1..Arity[f] -> 1..(next - 1)] :
        doomed' = [doomed EXCEPT ![f] = @ \cup {args}]
  /\ UNCHANGED <<leader, rows, next>>

\* The applications of f that are to be deleted and that exist go.
Purge ==
  \E f \in Names :
     LET gone == {r \in rows[f] : Args(r) \in doomed[f]}
     IN  /\ gone # {}
         /\ rows' = [rows EXCEPT ![f] = @ \ gone]
         /\ doomed' = [doomed EXCEPT ![f] = @ \ {Args(r) : r \in gone}]
         /\ UNCHANGED <<leader, next>>

Next == Union \/ Make \/ Doom \/ Purge
Spec == Init /\ [][Next]_vars
===============================================================================
