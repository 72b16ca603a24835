------------------------ MODULE MCReadOptimizedLock ------------------------
(* Small instances of ReadOptimizedLock. *)
EXTENDS ReadOptimizedLock
MCThreads == {"t1", "t2", "t3"}
MCMaxOps == [t \in MCThreads |-> IF t = "t1" THEN 2 ELSE 1]
=============================================================================
