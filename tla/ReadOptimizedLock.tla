------------------------- MODULE ReadOptimizedLock -------------------------
(***************************************************************************)
(* egglog_concurrency::ReadOptimizedLock and the Notification it blocks on. *)
(* The lock's state is a token in an ArcSwap: ReadOk, whose last reference  *)
(* notifies when it is dropped, or WriteOngoing.  A reader keeps a guard on *)
(* the ReadOk token; a writer swaps in a WriteOngoing token, waits until    *)
(* the old token is gone, and puts in a new ReadOk token when it is done.   *)
(*                                                                          *)
(* Every token carries one notification, known by the token's number.  The  *)
(* ArcSwap is external: load and compare_and_swap are atomic, a guard keeps *)
(* its token alive, and rcu(clone) puts back what it finds.                 *)
(***************************************************************************)
EXTENDS Naturals, Sequences

CONSTANTS
    Threads,
    MaxOps,     \* MaxOps[t]: bound on the operations of t
    None        \* no thread

ASSUME LockAssumption == MaxOps \in [Threads -> Nat] /\ None \notin Threads

VARIABLES
    kinds,      \* the tokens made so far: "ReadOk" or "WriteOngoing"
    token,      \* the token in the ArcSwap
    guard,      \* guard[t]: the token t keeps alive, 0 for none
    notified,   \* the notifications that happened
    holder,     \* holder[n]: who holds the mutex of notification n
    pc,         \* pc[t]: the step thread t takes next
    want,       \* want[t]: is t reading or writing
    note,       \* note[t]: the notification t waits for or performs
    after,      \* after[t]: where t goes when that or dropping a guard is done
    mine,       \* mine[t]: the WriteOngoing token t made
    ops         \* ops[t]: operations t started

arc   == <<kinds, token>>
notes == <<notified, holder>>
vars  == <<arc, guard, notes, pc, want, note, after, mine, ops>>

Tokens == 1 .. Len(kinds)

Init ==
    /\ kinds = <<"ReadOk">>
    /\ token = 1
    /\ guard = [t \in Threads |-> 0]
    /\ notified = {}
    /\ holder = [n \in 1 .. 1 |-> None]
    /\ pc = [t \in Threads |-> "idle"]
    /\ want = [t \in Threads |-> "read"]
    /\ note = [t \in Threads |-> 1]
    /\ after = [t \in Threads |-> "idle"]
    /\ mine = [t \in Threads |-> 1]
    /\ ops = [t \in Threads |-> 0]

Goto(t, step) == pc' = [pc EXCEPT ![t] = step]
ThenGoto(t, step) == after' = [after EXCEPT ![t] = step]

\* A new token, with its notification, becomes the ArcSwap's.
Install(kind) ==
    /\ kinds' = Append(kinds, kind)
    /\ token' = Len(kinds) + 1
    /\ holder' = [n \in 1 .. Len(kinds) + 1 |-> IF n \in Tokens THEN holder[n] ELSE None]

-----------------------------------------------------------------------------
(* Notification *)

\* wait: the fast path ...
WaitReturns(t) ==
    /\ pc[t] = "wait"
    /\ note[t] \in notified
    /\ Goto(t, after[t])
    /\ UNCHANGED <<arc, guard, notes, want, note, after, mine, ops>>

WaitSlowly(t) ==
    /\ pc[t] = "wait"
    /\ note[t] \notin notified
    /\ Goto(t, "waitlock")
    /\ UNCHANGED <<arc, guard, notes, want, note, after, mine, ops>>

\* ... then the mutex, also when the condition variable wakes the thread ...
WaitLock(t) ==
    /\ pc[t] = "waitlock"
    /\ holder[note[t]] = None
    /\ holder' = [holder EXCEPT ![note[t]] = t]
    /\ Goto(t, "waitcheck")
    /\ UNCHANGED <<arc, guard, notified, want, note, after, mine, ops>>

WaitDone(t) ==
    /\ pc[t] = "waitcheck"
    /\ note[t] \in notified
    /\ holder' = [holder EXCEPT ![note[t]] = None]
    /\ Goto(t, after[t])
    /\ UNCHANGED <<arc, guard, notified, want, note, after, mine, ops>>

\* Mutant of LookAgain: the flag is not looked at again.
LookAgainNot(t) ==
    /\ pc[t] = "waitcheck"
    /\ Goto(t, "dozing")
    /\ UNCHANGED <<arc, guard, notes, want, note, after, mine, ops>>
LookAgain(t) ==
    /\ pc[t] = "waitcheck"
    /\ note[t] \notin notified
    /\ Goto(t, "dozing")
    /\ UNCHANGED <<arc, guard, notes, want, note, after, mine, ops>>

\* ... and sleep, which gives up the mutex.
Sleep(t) ==
    /\ pc[t] = "dozing"
    /\ holder' = [holder EXCEPT ![note[t]] = None]
    /\ Goto(t, "asleep")
    /\ UNCHANGED <<arc, guard, notified, want, note, after, mine, ops>>

\* A condition variable may wake a thread for no reason.
Spurious(t) ==
    /\ pc[t] = "asleep"
    /\ Goto(t, "waitlock")
    /\ UNCHANGED <<arc, guard, notes, want, note, after, mine, ops>>

\* notify: take the mutex (mutant: do without), set the flag, wake, unlock.
NotifyUnlocked(t) ==
    /\ pc[t] = "notify"
    /\ Goto(t, "store")
    /\ UNCHANGED <<arc, guard, notes, want, note, after, mine, ops>>
NotifyLock(t) ==
    /\ pc[t] = "notify"
    /\ holder[note[t]] = None
    /\ holder' = [holder EXCEPT ![note[t]] = t]
    /\ Goto(t, "store")
    /\ UNCHANGED <<arc, guard, notified, want, note, after, mine, ops>>

NotifyStore(t) ==
    /\ pc[t] = "store"
    /\ notified' = notified \cup {note[t]}
    /\ Goto(t, "wake")
    /\ UNCHANGED <<arc, guard, holder, want, note, after, mine, ops>>

Sleepers(n) == {u \in Threads : pc[u] = "asleep" /\ note[u] = n}

NotifyAll(t) ==
    /\ pc[t] = "wake"
    /\ pc' = [u \in Threads |-> IF u \in Sleepers(note[t]) THEN "waitlock"
                                ELSE IF u = t THEN "unlock" ELSE pc[u]]
    /\ UNCHANGED <<arc, guard, notes, want, note, after, mine, ops>>

NotifyUnlock(t) ==
    /\ pc[t] = "unlock"
    /\ holder' = [holder EXCEPT ![note[t]] = IF @ = t THEN None ELSE @]
    /\ Goto(t, after[t])
    /\ UNCHANGED <<arc, guard, notified, want, note, after, mine, ops>>

Notification(t) ==
    \/ WaitReturns(t) \/ WaitSlowly(t) \/ WaitLock(t) \/ WaitDone(t) \/ LookAgain(t)
    \/ Sleep(t)
    \/ NotifyLock(t) \/ NotifyStore(t) \/ NotifyAll(t) \/ NotifyUnlock(t)

-----------------------------------------------------------------------------
(* The lock *)

Call(t, w) ==
    /\ pc[t] = "idle"
    /\ ops[t] < MaxOps[t]
    /\ ops' = [ops EXCEPT ![t] = @ + 1]
    /\ want' = [want EXCEPT ![t] = w]
    /\ Goto(t, "load")
    /\ UNCHANGED <<arc, guard, notes, note, after, mine>>

\* read and lock begin alike: look at the token, and keep it alive meanwhile.
Load(t) ==
    /\ pc[t] = "load"
    /\ guard' = [guard EXCEPT ![t] = token]
    /\ Goto(t, IF kinds[token] = "WriteOngoing" THEN "blocked"
               ELSE IF want[t] = "read" THEN "reading" ELSE "cas")
    /\ UNCHANGED <<arc, notes, want, note, after, mine, ops>>

\* A write is under way: let go of the token, wait for the end of the write, retry.
Blocked(t) ==
    /\ pc[t] = "blocked"
    /\ guard' = [guard EXCEPT ![t] = 0]
    /\ note' = [note EXCEPT ![t] = guard[t]]
    /\ ThenGoto(t, "load")
    /\ Goto(t, "wait")
    /\ UNCHANGED <<arc, notes, want, mine, ops>>

\* Mutant of EndRead: the guard outlives the reader.
EndReadLeaks(t) ==
    /\ pc[t] = "reading"
    /\ Goto(t, "idle")
    /\ UNCHANGED <<arc, guard, notes, want, note, after, mine, ops>>

EndRead(t) ==
    /\ pc[t] = "reading"
    /\ ThenGoto(t, "idle")
    /\ Goto(t, "drop")
    /\ UNCHANGED <<arc, guard, notes, want, note, mine, ops>>

\* lock: swap in a WriteOngoing token ...
Announce(t) ==
    /\ pc[t] = "cas"
    /\ token = guard[t]
    /\ Install("WriteOngoing")
    /\ mine' = [mine EXCEPT ![t] = token']
    /\ note' = [note EXCEPT ![t] = token]
    /\ ThenGoto(t, "await")
    /\ Goto(t, "drop")
    /\ UNCHANGED <<guard, notified, want, ops>>

\* ... unless another writer did.
AnnounceFails(t) ==
    /\ pc[t] = "cas"
    /\ token # guard[t]
    /\ ThenGoto(t, "load")
    /\ Goto(t, "drop")
    /\ UNCHANGED <<arc, guard, notes, want, note, mine, ops>>

\* The references to a token: the ArcSwap's and the guards.
LastReference(t) ==
    /\ guard[t] # token
    /\ \A u \in Threads \ {t} : guard[u] # guard[t]

\* A guard is dropped.  The last reference to a ReadOk token runs its destructor.
Drop(t) ==
    /\ pc[t] = "drop"
    /\ guard' = [guard EXCEPT ![t] = 0]
    /\ IF LastReference(t)
       THEN note' = [note EXCEPT ![t] = guard[t]] /\ Goto(t, "notify")
       ELSE Goto(t, after[t]) /\ UNCHANGED note
    /\ UNCHANGED <<arc, notes, want, after, mine, ops>>

\* Mutant of Await: the writer relies on rcu alone.
AwaitNobody(t) ==
    /\ pc[t] = "await"
    /\ Goto(t, "writing")
    /\ UNCHANGED <<arc, guard, notes, want, note, after, mine, ops>>

\* rcu, then readers_done.wait().
Await(t) ==
    /\ pc[t] = "await"
    /\ ThenGoto(t, "writing")
    /\ Goto(t, "wait")
    /\ UNCHANGED <<arc, guard, notes, want, note, mine, ops>>

\* MutexWriter::drop stores a new ReadOk token and notifies who waits.
\* Mutant: it does not notify.
EndWriteSilently(t) ==
    /\ pc[t] = "writing"
    /\ Install("ReadOk")
    /\ Goto(t, "idle")
    /\ UNCHANGED <<guard, notified, want, note, after, mine, ops>>
EndWrite(t) ==
    /\ pc[t] = "writing"
    /\ Install("ReadOk")
    /\ note' = [note EXCEPT ![t] = mine[t]]
    /\ ThenGoto(t, "idle")
    /\ Goto(t, "notify")
    /\ UNCHANGED <<guard, notified, want, mine, ops>>

Lock(t) ==
    \/ Load(t) \/ Blocked(t) \/ EndRead(t)
    \/ Announce(t) \/ AnnounceFails(t) \/ Drop(t) \/ Await(t) \/ EndWrite(t)

-----------------------------------------------------------------------------
Step(t) == Notification(t) \/ Lock(t)

Next == \E t \in Threads :
    \/ \E w \in {"read", "write"} : Call(t, w)
    \/ Step(t)
    \/ Spurious(t)

Spec     == Init /\ [][Next]_vars
\* Threads keep running, and spurious wakeups do not go on forever.
FairSpec ==
    /\ Spec
    /\ \A t \in Threads : WF_vars(Step(t))
    /\ <>[][\A t \in Threads : ~Spurious(t)]_vars
(***************************************************************************)
(* Properties                                                               *)
(***************************************************************************)

\* The typing of the state, with who has a guard on what: none between
\* operations, one on the token that was loaded while looking at it or reading.
TypeOK ==
    /\ kinds \in Seq({"ReadOk", "WriteOngoing"})
    /\ token \in Tokens
    /\ guard \in [Threads -> Tokens \cup {0}]
    /\ notified \subseteq Tokens
    /\ holder \in [Tokens -> Threads \cup {None}]
    /\ pc \in [Threads -> {"idle", "load", "blocked", "reading", "cas", "drop", "await",
                           "writing", "wait", "waitlock", "waitcheck", "dozing",
                           "asleep", "notify", "store", "wake", "unlock"}]
    /\ want \in [Threads -> {"read", "write"}]
    /\ note \in [Threads -> Tokens]
    /\ after \in [Threads -> {"idle", "load", "await", "writing"}]
    /\ mine \in [Threads -> Tokens]
    /\ ops \in [Threads -> Nat]
    /\ \A t \in Threads :
          guard[t] # 0 <=> pc[t] \in {"blocked", "reading", "cas", "drop"}

\* Readers and writers exclude one another: the lock implements RwLock.
readers == {t \in Threads : pc[t] = "reading"}
writers == {t \in Threads : pc[t] = "writing"}
Abstract == INSTANCE RwLock
ImplementsRwLock == Abstract!Spec

\* No wakeup is lost: whoever sleeps on a notification that has happened is about
\* to be woken by the thread that performs it.
NoLostWakeup ==
    \A t \in Threads : pc[t] = "asleep" /\ note[t] \in notified =>
        \E u \in Threads : pc[u] = "wake" /\ note[u] = note[t]

\* Who waits for an event has somebody to bring it about: a guard on the token, the
\* writer that owns it, or a thread that is notifying.
Waiting(t) == pc[t] \in {"wait", "waitlock", "waitcheck", "dozing", "asleep"}
EveryWaitHasANotifier ==
    \A t \in Threads : Waiting(t) /\ note[t] \notin notified =>
        \/ \E u \in Threads \ {t} : guard[u] = note[t]
        \/ \E u \in Threads \ {t} : pc[u] \in {"notify", "store"} /\ note[u] = note[t]
        \/ \E u \in Threads \ {t} :
              /\ mine[u] = note[t] /\ token = note[t]
              /\ \/ after[u] = "await" /\ pc[u] \in {"drop", "notify", "store", "wake", "unlock"}
                 \/ after[u] = "writing" /\ Waiting(u)
                 \/ pc[u] \in {"await", "writing"}

\* Every reader and writer gets the lock and returns.
OperationsReturn == \A t \in Threads : pc[t] # "idle" ~> pc[t] = "idle"
=============================================================================
