------------------------------- MODULE MCDatabase -------------------------------
(* A union-find that every merge function may write to, a table with a       *)
(* merge function that writes to itself, and one that reads and writes it.   *)
EXTENDS Database

MCReadDeps == (0 :> {}) @@ (1 :> {}) @@ (2 :> {1}) @@ (3 :> {})
MCWriteDeps == (0 :> {}) @@ (1 :> {0, 1}) @@ (2 :> {0, 1}) @@ (3 :> {0})
===============================================================================
