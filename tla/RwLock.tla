------------------------------- MODULE RwLock -------------------------------
(* What ReadOptimizedLock promises: many readers or one writer. *)
CONSTANTS Threads

VARIABLES
    readers,    \* threads with a MutexReader
    writers     \* threads with a MutexWriter, at most one

Init == readers = {} /\ writers = {}

AcquireRead(t) ==
    /\ t \notin readers
    /\ writers = {}
    /\ readers' = readers \cup {t}
    /\ UNCHANGED writers

ReleaseRead(t) ==
    /\ t \in readers
    /\ readers' = readers \ {t}
    /\ UNCHANGED writers

AcquireWrite(t) ==
    /\ readers = {} /\ writers = {}
    /\ writers' = {t}
    /\ UNCHANGED readers

ReleaseWrite(t) ==
    /\ t \in writers
    /\ writers' = {}
    /\ UNCHANGED readers

Next == \E t \in Threads :
    AcquireRead(t) \/ ReleaseRead(t) \/ AcquireWrite(t) \/ ReleaseWrite(t)

Spec == Init /\ [][Next]_<<readers, writers>>
=============================================================================
