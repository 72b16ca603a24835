----------------------------- MODULE TableRows -----------------------------
(***************************************************************************)
(* Rows of a core-relations table with a primary key, one value column and *)
(* a sort column (the timestamp), and what a merge function does with two  *)
(* rows of one key.  Shared by KeyedTable, which says what a table is, and *)
(* SortedWritesTable, which says how it is stored.                         *)
(***************************************************************************)
EXTENDS Naturals

CONSTANTS
  Keys,           \* primary keys: pairs of columns
  Values,         \* what the value column holds
  Combine(_, _),  \* the merge function on the value column: old, incoming
  MaxTs,          \* bound: timestamps are 1..MaxTs
  NoRow           \* what a lookup of an absent key gives

Timestamps == 1..MaxTs
Row        == [key : Keys, val : Values, ts : Timestamps]

ASSUME NoRowIsNoRow == NoRow \notin Row

ASSUME MaxTsPositive == MaxTs \in Nat \ {0}

(* A merge function fills the value column with a value.                    *)
ASSUME CombineTyped == \A v, w \in Values : Combine(v, w) \in Values

(* What a merge leaves for a key that had `cur` when `row` comes in.  The   *)
(* engine's callback gives a changed row the incoming timestamp and keeps   *)
(* the row it had when the value does not change.                           *)
Applied(cur, row) ==
  IF cur = NoRow THEN row
  ELSE LET v == Combine(cur.val, row.val)
       IN  IF v = cur.val THEN cur ELSE [row EXCEPT !.val = v]
=============================================================================
