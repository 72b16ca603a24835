------------------------------- MODULE Leaders -------------------------------
(* What the union-find table promises: every id has a leader, the least id   *)
(* of its class, and an id that stops being a leader gets, once and for all, *)
(* the timestamp of the union that displaced it.                             *)
EXTENDS Naturals

CONSTANTS Ids, MaxTs

VARIABLES
  leader,  \* id -> the leader of its class
  stamp    \* id -> when it was displaced, 0 while it leads

Init ==
  /\ leader = [i \in Ids |-> i]
  /\ stamp = [i \in Ids |-> 0]

Union(l, r, t) ==
  LET a == leader[l]
      b == leader[r]
      parent == IF a < b THEN a ELSE b
      child  == IF a < b THEN b ELSE a
  IN  /\ a # b
      /\ \A i \in Ids : stamp[i] <= t
      /\ leader' = [i \in Ids |-> IF leader[i] = child THEN parent ELSE leader[i]]
      /\ stamp' = [stamp EXCEPT ![child] = t]

Next == \E l, r \in Ids, t \in 1..MaxTs : Union(l, r, t)

Spec == Init /\ [][Next]_<<leader, stamp>>
=============================================================================
