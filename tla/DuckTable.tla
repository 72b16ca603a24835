------------------------------- MODULE DuckTable -------------------------------
(* The tables of the DuckDB backend: every row carries the timestamp of the  *)
(* iteration that wrote it. A relation maps a row to its timestamp; a        *)
(* function maps a key to its output and its timestamp.                      *)
EXTENDS Integers, Sequences, FiniteSets, FiniteSetsExt, Functions

\* INSERT ... ON CONFLICT DO NOTHING: a row that is there keeps its timestamp.
InsertIgnore(table, new, ts) ==
    [r \in DOMAIN table \cup new |-> IF r \in DOMAIN table THEN table[r] ELSE ts]

\* ON CONFLICT DO UPDATE SET out = LEAST(out, EXCLUDED.out), ts = EXCLUDED.ts:
\* a row is stamped anew even when its output stays.
Incoming(new, k) == {e[2] : e \in {e \in new : e[1] = k}}
InsertLeast(table, new, ts) ==
    [k \in DOMAIN table \cup {e[1] : e \in new} |->
       LET outs == Incoming(new, k)
           old  == IF k \in DOMAIN table THEN {table[k].out} ELSE {}
       IN  IF outs = {} THEN table[k] ELSE [out |-> Min(outs \cup old), ts |-> ts]]

DeleteRows(table, old) == Restrict(table, DOMAIN table \ old)

(* The timestamps of the rows a match joins, in the order of the body's      *)
(* atoms, satisfy one of the branches of the rule's seminaive query: one     *)
(* atom is new since the last run, those before it are not, none is from     *)
(* this iteration.                                                           *)
DeltaAfter(stamps, last, cur) ==
    /\ \A k \in DOMAIN stamps : stamps[k] < cur
    /\ \E k \in DOMAIN stamps : stamps[k] > last
Delta(stamps, last, cur) ==
    \E focus \in DOMAIN stamps :
       /\ stamps[focus] >= last /\ stamps[focus] < cur
       /\ \A k \in DOMAIN stamps : k < focus => stamps[k] < last
       /\ \A k \in DOMAIN stamps : k > focus => stamps[k] < cur

\* The fast rebuild rule has no branch for its first atom, the view.
DeltaBesidesFirst(stamps, last, cur) ==
    stamps[1] < cur /\ Delta(Tail(stamps), last, cur)
================================================================================
