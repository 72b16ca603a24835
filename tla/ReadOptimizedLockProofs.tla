---------------------- MODULE ReadOptimizedLockProofs ----------------------
(***************************************************************************)
(* Proofs about ReadOptimizedLock, for every set of threads: it implements  *)
(* a readers-writer lock, no wakeup is lost, and every wait has a notifier. *)
(***************************************************************************)
EXTENDS ReadOptimizedLock, TLAPS

(***************************************************************************)
(* Type correctness                                                         *)
(***************************************************************************)

\* What a new token changes: the older ones and their notifications stay.
LEMMA Installed ==
    ASSUME TypeOK, NEW kind \in {"ReadOk", "WriteOngoing"}, Install(kind)
    PROVE  /\ kinds' \in Seq({"ReadOk", "WriteOngoing"})
           /\ Len(kinds) \in Nat /\ token' = Len(kinds) + 1 /\ Len(kinds') = token'
           /\ Tokens' = Tokens \cup {token'} /\ token' \notin Tokens
           /\ \A n \in Tokens : kinds'[n] = kinds[n] /\ holder'[n] = holder[n]
           /\ kinds'[token'] = kind /\ holder'[token'] = None
           /\ holder' \in [Tokens' -> Threads \cup {None}]
<1>1. /\ kinds \in Seq({"ReadOk", "WriteOngoing"}) /\ kinds' = Append(kinds, kind)
      /\ token' = Len(kinds) + 1 /\ Len(kinds) \in Nat
  BY DEF TypeOK, Install
<1>2. /\ kinds' \in Seq({"ReadOk", "WriteOngoing"}) /\ Len(kinds') = Len(kinds) + 1
      /\ \A n \in 1 .. Len(kinds) : kinds'[n] = kinds[n]
      /\ kinds'[Len(kinds) + 1] = kind
  BY <1>1
<1>3. Tokens' = Tokens \cup {token'} /\ token' \notin Tokens
  BY <1>1, <1>2 DEF Tokens
<1>4. holder' = [n \in Tokens' |-> IF n \in Tokens THEN holder[n] ELSE None]
  BY <1>1, <1>2 DEF Install, Tokens
<1>5. holder \in [Tokens -> Threads \cup {None}]
  BY DEF TypeOK
<1> QED
  BY <1>1, <1>2, <1>3, <1>4, <1>5 DEF Tokens

\* TypeOK holds in every reachable state.
THEOREM TypeCorrect == Spec => []TypeOK
<1>1. Init => TypeOK
  BY LockAssumption DEF Init, TypeOK, Tokens
<1>2. TypeOK /\ [Next]_vars => TypeOK'
  <2> SUFFICES ASSUME TypeOK, [Next]_vars PROVE TypeOK'
    OBVIOUS
  <2> USE DEF TypeOK, Goto, ThenGoto, arc, notes
  <2>1. ASSUME NEW t \in Threads, NEW w \in {"read", "write"}, Call(t, w) PROVE TypeOK'
    <3>1. ops[t] + 1 \in Nat
      OBVIOUS
    <3>2. ops' \in [Threads -> Nat] /\ want' \in [Threads -> {"read", "write"}]
      BY <2>1, <3>1 DEF Call
    <3> QED
      BY <2>1, <3>2 DEF Call, Tokens
  <2>2. ASSUME NEW t \in Threads, WaitReturns(t) PROVE TypeOK'
    BY <2>2 DEF WaitReturns, Tokens
  <2>3. ASSUME NEW t \in Threads, WaitSlowly(t) PROVE TypeOK'
    BY <2>3 DEF WaitSlowly, Tokens
  <2>4. ASSUME NEW t \in Threads, WaitLock(t) PROVE TypeOK'
    BY <2>4 DEF WaitLock, Tokens
  <2>5. ASSUME NEW t \in Threads, WaitDone(t) PROVE TypeOK'
    BY <2>5 DEF WaitDone, Tokens
  <2>6. ASSUME NEW t \in Threads, LookAgain(t) PROVE TypeOK'
    BY <2>6 DEF LookAgain, Tokens
  <2>7. ASSUME NEW t \in Threads, Sleep(t) PROVE TypeOK'
    BY <2>7 DEF Sleep, Tokens
  <2>8. ASSUME NEW t \in Threads, NotifyLock(t) PROVE TypeOK'
    BY <2>8 DEF NotifyLock, Tokens
  <2>9. ASSUME NEW t \in Threads, NotifyStore(t) PROVE TypeOK'
    BY <2>9 DEF NotifyStore, Tokens
  <2>10. ASSUME NEW t \in Threads, NotifyAll(t) PROVE TypeOK'
    BY <2>10 DEF NotifyAll, Sleepers, Tokens
  <2>11. ASSUME NEW t \in Threads, NotifyUnlock(t) PROVE TypeOK'
    BY <2>11 DEF NotifyUnlock, Tokens
  <2>12. ASSUME NEW t \in Threads, Load(t) PROVE TypeOK'
    BY <2>12 DEF Load, Tokens
  <2>13. ASSUME NEW t \in Threads, Blocked(t) PROVE TypeOK'
    BY <2>13 DEF Blocked, Tokens
  <2>14. ASSUME NEW t \in Threads, EndRead(t) PROVE TypeOK'
    BY <2>14 DEF EndRead, Tokens
  <2>15. ASSUME NEW t \in Threads, Announce(t) PROVE TypeOK'
    BY <2>15, Installed DEF Announce
  <2>16. ASSUME NEW t \in Threads, AnnounceFails(t) PROVE TypeOK'
    BY <2>16 DEF AnnounceFails, Tokens
  <2>17. ASSUME NEW t \in Threads, Drop(t) PROVE TypeOK'
    <3>1. CASE LastReference(t)
      BY <2>17, <3>1 DEF Drop, Tokens
    <3>2. CASE ~LastReference(t)
      BY <2>17, <3>2 DEF Drop, Tokens
    <3> QED
      BY <3>1, <3>2
  <2>18. ASSUME NEW t \in Threads, Await(t) PROVE TypeOK'
    BY <2>18 DEF Await, Tokens
  <2>19. ASSUME NEW t \in Threads, EndWrite(t) PROVE TypeOK'
    BY <2>19, Installed DEF EndWrite
  <2>20. ASSUME NEW t \in Threads, Spurious(t) PROVE TypeOK'
    BY <2>20 DEF Spurious, Tokens
  <2>21. CASE UNCHANGED vars
    BY <2>21 DEF vars, Tokens
  <2> QED
    BY <2>1, <2>2, <2>3, <2>4, <2>5, <2>6, <2>7, <2>8, <2>9, <2>10, <2>11, <2>12, <2>13, <2>14, <2>15, <2>16, <2>17, <2>18, <2>19, <2>20, <2>21 DEF Next, Step, Notification, Lock
<1> QED
  BY <1>1, <1>2, PTL DEF Spec

(***************************************************************************)
(* The inductive invariant                                                  *)
(***************************************************************************)

\* A thread that announced a write and has not ended it.
Announced(t) ==
    \/ after[t] = "await" /\ pc[t] \in {"drop", "notify", "store", "wake", "unlock"}
    \/ after[t] = "writing" /\ Waiting(t)
    \/ pc[t] \in {"await", "writing"}

\* A thread that is going to set the flag of notification n.
Notifies(t, n) == pc[t] \in {"notify", "store"} /\ note[t] = n

\* Guards are on the kind of token their step is for; a ReadOk token with a guard
\* is the current one, or the one the current writer replaced.
GuardInv ==
    \A t \in Threads :
       /\ pc[t] = "blocked" => kinds[guard[t]] = "WriteOngoing"
       /\ pc[t] \in {"reading", "cas", "drop"} =>
            /\ kinds[guard[t]] = "ReadOk"
            /\ \/ guard[t] = token
               \/ guard[t] = token - 1 /\ kinds[token] = "WriteOngoing"

\* Who waits knows what comes next.
ControlInv ==
    \A t \in Threads :
       /\ Waiting(t) => after[t] \in {"load", "writing"}
       /\ Waiting(t) /\ after[t] = "load" => kinds[note[t]] = "WriteOngoing"
       /\ pc[t] \in {"drop", "notify", "store", "wake", "unlock"} =>
            after[t] \in {"idle", "load", "await"}

\* The destructor of a ReadOk token runs, or ran, only when nothing refers to it.
RetiredInv ==
    \A n \in Tokens :
       kinds[n] = "ReadOk" /\ (n \in notified \/ \E u \in Threads : Notifies(u, n)) =>
          n # token /\ \A u \in Threads : guard[u] # n

\* A write under way has the current token, and waits for the one before.
WriterInv ==
    /\ \A t \in Threads : Announced(t) =>
          /\ mine[t] = token
          /\ kinds[token] = "WriteOngoing"
          /\ note[t] = token - 1
          /\ kinds[note[t]] = "ReadOk"
          /\ pc[t] = "writing" => note[t] \in notified
    /\ \A t, u \in Threads : Announced(t) /\ Announced(u) => t = u
    /\ kinds[token] = "WriteOngoing" => \E t \in Threads : Announced(t)

\* A token that was replaced has been notified, is about to be, or has a guard
\* whose end will see to it.
ReplacedInv ==
    \A n \in Tokens : n # token =>
       \/ n \in notified
       \/ \E u \in Threads : Notifies(u, n)
       \/ kinds[n] = "ReadOk" /\ \E u \in Threads : guard[u] = n

\* The mutex of a notification.
Holding == {"waitcheck", "dozing", "store", "wake", "unlock"}
MutexInv ==
    /\ \A n \in Tokens, t \in Threads : holder[n] = t <=> note[t] = n /\ pc[t] \in Holding
    /\ \A t \in Threads : pc[t] = "dozing" => note[t] \notin notified

LockInv ==
    /\ token = Len(kinds)
    /\ GuardInv /\ ControlInv /\ RetiredInv /\ WriterInv /\ ReplacedInv
    /\ MutexInv /\ NoLostWakeup

-----------------------------------------------------------------------------
(* Three facts the steps below keep needing *)

\* A guard is on a token exactly while its thread is between load and drop.
LEMMA GuardsTyped ==
    ASSUME TypeOK, NEW t \in Threads
    PROVE  /\ pc[t] \in {"blocked", "reading", "cas", "drop"} => guard[t] \in Tokens
           /\ pc[t] \notin {"blocked", "reading", "cas", "drop"} => guard[t] = 0
           /\ note[t] \in Tokens /\ mine[t] \in Tokens /\ 0 \notin Tokens
<1>1. 0 \notin Tokens
  BY DEF Tokens
<1> QED
  BY <1>1 DEF TypeOK

\* A loaded token sends a thread to wait when it is a WriteOngoing token, and on when
\* it is not.
LEMMA LoadGoes ==
    ASSUME TypeOK, NEW t \in Threads, Load(t)
    PROVE  \E p \in {"blocked", "reading", "cas"} :
              /\ pc' = [pc EXCEPT ![t] = p]
              /\ p = "blocked" <=> kinds[token] = "WriteOngoing"
BY DEF Load, Goto

\* A token is of one of the two kinds.
LEMMA TwoKinds ==
    ASSUME TypeOK, NEW n \in Tokens
    PROVE  kinds[n] \in {"ReadOk", "WriteOngoing"}
BY DEF TypeOK, Tokens

-----------------------------------------------------------------------------
(* The invariant is inductive *)

\* A step that neither ends a wakeup nor puts a thread to sleep leaves the sleepers
\* and who will wake them as they are.
LEMMA SleepersLeftAlone ==
    ASSUME NoLostWakeup, NEW t \in Threads, notified' = notified, pc[t] # "wake", pc'[t] # "asleep",
           \A u \in Threads : u # t => pc'[u] = pc[u] /\ note'[u] = note[u]
    PROVE  NoLostWakeup'
<1> SUFFICES ASSUME NEW u \in Threads, pc'[u] = "asleep", note'[u] \in notified'
             PROVE  \E x \in Threads : pc'[x] = "wake" /\ note'[x] = note'[u]
  BY DEF NoLostWakeup
<1>1. u # t /\ pc[u] = "asleep" /\ note[u] = note'[u] /\ note[u] \in notified
  OBVIOUS
<1>2. PICK x \in Threads : pc[x] = "wake" /\ note[x] = note[u]
  BY <1>1 DEF NoLostWakeup
<1> QED
  BY <1>1, <1>2

\* Notification::wait's fast path: what the waiter waited for has happened.
LEMMA KeepsWaitReturns ==
    ASSUME TypeOK, LockInv, NEW t \in Threads, WaitReturns(t)
    PROVE  LockInv'
<1> USE DEF TypeOK, LockInv, Tokens, Goto, ThenGoto, arc, notes, WaitReturns
<1>a. after[t] \in {"load", "writing"} /\ pc[t] \in {"wait", "waitcheck"} /\ note[t] \in notified
  BY DEF ControlInv, Waiting
<1>b. pc' = [pc EXCEPT ![t] = after[t]] /\ UNCHANGED <<kinds, token, note, after, mine, notified>>
  OBVIOUS
<1>c. \A u \in Threads : Announced(u)' <=> Announced(u)
  BY <1>a, <1>b DEF Announced, Waiting
<1>1. GuardInv'
  BY DEF GuardInv
<1>2. ControlInv'
  BY DEF ControlInv, Waiting
<1>3. RetiredInv'
  BY DEF RetiredInv, Notifies
<1>4. WriterInv'
  BY <1>a, <1>b, <1>c DEF WriterInv
<1>5. ReplacedInv'
  BY DEF ReplacedInv, Notifies
<1>6. MutexInv'
  BY <1>a, <1>b, LockAssumption DEF MutexInv, Holding
<1>7. NoLostWakeup'
  <2>1. /\ notified' = notified /\ pc[t] # "wake" /\ pc'[t] # "asleep"
        /\ \A u \in Threads : u # t => pc'[u] = pc[u] /\ note'[u] = note[u]
    OBVIOUS
  <2> QED
    BY <2>1, SleepersLeftAlone
<1> QED
  BY <1>1, <1>2, <1>3, <1>4, <1>5, <1>6, <1>7

\* Notification::wait's slow path begins; no shared state changes.
LEMMA KeepsWaitSlowly ==
    ASSUME TypeOK, LockInv, NEW t \in Threads, WaitSlowly(t)
    PROVE  LockInv'
<1> USE DEF TypeOK, LockInv, Tokens, Goto, ThenGoto, arc, notes, WaitSlowly
<1>1. GuardInv'
  BY DEF GuardInv
<1>2. ControlInv'
  BY DEF ControlInv, Waiting
<1>3. RetiredInv'
  BY DEF RetiredInv, Notifies
<1>4. WriterInv'
  BY DEF WriterInv, Announced, Waiting
<1>5. ReplacedInv'
  BY DEF ReplacedInv, Notifies
<1>6. MutexInv'
  BY DEF MutexInv, Holding
<1>7. NoLostWakeup'
  <2>1. /\ notified' = notified /\ pc[t] # "wake" /\ pc'[t] # "asleep"
        /\ \A u \in Threads : u # t => pc'[u] = pc[u] /\ note'[u] = note[u]
    OBVIOUS
  <2> QED
    BY <2>1, SleepersLeftAlone
<1> QED
  BY <1>1, <1>2, <1>3, <1>4, <1>5, <1>6, <1>7

\* A waiter takes the mutex of its notification.
LEMMA KeepsWaitLock ==
    ASSUME TypeOK, LockInv, NEW t \in Threads, WaitLock(t)
    PROVE  LockInv'
<1> USE DEF TypeOK, LockInv, Tokens, Goto, ThenGoto, arc, notes, WaitLock
<1>1. GuardInv'
  BY DEF GuardInv
<1>2. ControlInv'
  BY DEF ControlInv, Waiting
<1>3. RetiredInv'
  BY DEF RetiredInv, Notifies
<1>4. WriterInv'
  BY DEF WriterInv, Announced, Waiting
<1>5. ReplacedInv'
  BY DEF ReplacedInv, Notifies
<1>6. MutexInv'
  <2>1. holder' \in [Tokens -> Threads \cup {None}]
    OBVIOUS
  <2> QED
    BY <2>1, LockAssumption DEF MutexInv, Holding
<1>7. NoLostWakeup'
  <2>1. /\ notified' = notified /\ pc[t] # "wake" /\ pc'[t] # "asleep"
        /\ \A u \in Threads : u # t => pc'[u] = pc[u] /\ note'[u] = note[u]
    OBVIOUS
  <2> QED
    BY <2>1, SleepersLeftAlone
<1> QED
  BY <1>1, <1>2, <1>3, <1>4, <1>5, <1>6, <1>7

\* A waiter that finds the flag set gives the mutex back and returns.
LEMMA KeepsWaitDone ==
    ASSUME TypeOK, LockInv, NEW t \in Threads, WaitDone(t)
    PROVE  LockInv'
<1> USE DEF TypeOK, LockInv, Tokens, Goto, ThenGoto, arc, notes, WaitDone
<1>a. after[t] \in {"load", "writing"} /\ pc[t] \in {"wait", "waitcheck"} /\ note[t] \in notified
  BY DEF ControlInv, Waiting
<1>b. pc' = [pc EXCEPT ![t] = after[t]] /\ UNCHANGED <<kinds, token, note, after, mine, notified>>
  OBVIOUS
<1>c. \A u \in Threads : Announced(u)' <=> Announced(u)
  BY <1>a, <1>b DEF Announced, Waiting
<1>1. GuardInv'
  BY DEF GuardInv
<1>2. ControlInv'
  BY DEF ControlInv, Waiting
<1>3. RetiredInv'
  BY DEF RetiredInv, Notifies
<1>4. WriterInv'
  BY <1>a, <1>b, <1>c DEF WriterInv
<1>5. ReplacedInv'
  BY DEF ReplacedInv, Notifies
<1>6. MutexInv'
  BY <1>a, <1>b, LockAssumption DEF MutexInv, Holding
<1>7. NoLostWakeup'
  <2>1. /\ notified' = notified /\ pc[t] # "wake" /\ pc'[t] # "asleep"
        /\ \A u \in Threads : u # t => pc'[u] = pc[u] /\ note'[u] = note[u]
    OBVIOUS
  <2> QED
    BY <2>1, SleepersLeftAlone
<1> QED
  BY <1>1, <1>2, <1>3, <1>4, <1>5, <1>6, <1>7

\* A waiter goes to sleep with the mutex only if the flag is not set.
LEMMA KeepsLookAgain ==
    ASSUME TypeOK, LockInv, NEW t \in Threads, LookAgain(t)
    PROVE  LockInv'
<1> USE DEF TypeOK, LockInv, Tokens, Goto, ThenGoto, arc, notes, LookAgain
<1>1. GuardInv'
  BY DEF GuardInv
<1>2. ControlInv'
  BY DEF ControlInv, Waiting
<1>3. RetiredInv'
  BY DEF RetiredInv, Notifies
<1>4. WriterInv'
  BY DEF WriterInv, Announced, Waiting
<1>5. ReplacedInv'
  BY DEF ReplacedInv, Notifies
<1>6. MutexInv'
  BY DEF MutexInv, Holding
<1>7. NoLostWakeup'
  <2>1. /\ notified' = notified /\ pc[t] # "wake" /\ pc'[t] # "asleep"
        /\ \A u \in Threads : u # t => pc'[u] = pc[u] /\ note'[u] = note[u]
    OBVIOUS
  <2> QED
    BY <2>1, SleepersLeftAlone
<1> QED
  BY <1>1, <1>2, <1>3, <1>4, <1>5, <1>6, <1>7

\* A sleeper gives up the mutex, and nobody set the flag while it had it.
LEMMA KeepsSleep ==
    ASSUME TypeOK, LockInv, NEW t \in Threads, Sleep(t)
    PROVE  LockInv'
<1> USE DEF TypeOK, LockInv, Tokens, Goto, ThenGoto, arc, notes, Sleep
<1>1. GuardInv'
  BY DEF GuardInv
<1>2. ControlInv'
  BY DEF ControlInv, Waiting
<1>3. RetiredInv'
  BY DEF RetiredInv, Notifies
<1>4. WriterInv'
  BY DEF WriterInv, Announced, Waiting
<1>5. ReplacedInv'
  BY DEF ReplacedInv, Notifies
<1>6. MutexInv'
  <2>1. holder' \in [Tokens -> Threads \cup {None}]
    OBVIOUS
  <2> QED
    BY <2>1, LockAssumption DEF MutexInv, Holding
<1>7. NoLostWakeup'
  BY DEF NoLostWakeup, MutexInv
<1> QED
  BY <1>1, <1>2, <1>3, <1>4, <1>5, <1>6, <1>7

\* A notifier takes the mutex, so that no waiter is about to sleep.
LEMMA KeepsNotifyLock ==
    ASSUME TypeOK, LockInv, NEW t \in Threads, NotifyLock(t)
    PROVE  LockInv'
<1> USE DEF TypeOK, LockInv, Tokens, Goto, ThenGoto, arc, notes, NotifyLock
<1>1. GuardInv'
  BY DEF GuardInv
<1>2. ControlInv'
  BY DEF ControlInv, Waiting
<1>3. RetiredInv'
  BY DEF RetiredInv, Notifies
<1>4. WriterInv'
  BY DEF WriterInv, Announced, Waiting
<1>5. ReplacedInv'
  BY DEF ReplacedInv, Notifies
<1>6. MutexInv'
  <2>1. holder' \in [Tokens -> Threads \cup {None}]
    OBVIOUS
  <2> QED
    BY <2>1, LockAssumption DEF MutexInv, Holding
<1>7. NoLostWakeup'
  <2>1. /\ notified' = notified /\ pc[t] # "wake" /\ pc'[t] # "asleep"
        /\ \A u \in Threads : u # t => pc'[u] = pc[u] /\ note'[u] = note[u]
    OBVIOUS
  <2> QED
    BY <2>1, SleepersLeftAlone
<1> QED
  BY <1>1, <1>2, <1>3, <1>4, <1>5, <1>6, <1>7

\* The flag is set under the mutex: nobody dozes, and sleepers are woken next.
LEMMA KeepsNotifyStore ==
    ASSUME TypeOK, LockInv, NEW t \in Threads, NotifyStore(t)
    PROVE  LockInv'
<1> USE DEF TypeOK, LockInv, Tokens, Goto, ThenGoto, arc, notes, NotifyStore
<1>1. GuardInv'
  BY DEF GuardInv
<1>2. ControlInv'
  BY DEF ControlInv, Waiting
<1>3. RetiredInv'
  BY DEF RetiredInv, Notifies
<1>4. WriterInv'
  BY DEF WriterInv, Announced, Waiting
<1>5. ReplacedInv'
  BY DEF ReplacedInv, Notifies
<1>6. MutexInv'
  BY DEF MutexInv, Holding
<1>7. NoLostWakeup'
  BY SMTT(30) DEF NoLostWakeup
<1> QED
  BY <1>1, <1>2, <1>3, <1>4, <1>5, <1>6, <1>7

\* Every sleeper on the notification is woken.
LEMMA KeepsNotifyAll ==
    ASSUME TypeOK, LockInv, NEW t \in Threads, NotifyAll(t)
    PROVE  LockInv'
<1> USE DEF TypeOK, LockInv, Tokens, Goto, ThenGoto, arc, notes, NotifyAll, Sleepers
<1>1. GuardInv'
  BY DEF GuardInv
<1>2. ControlInv'
  BY DEF ControlInv, Waiting
<1>3. RetiredInv'
  BY DEF RetiredInv, Notifies
<1>4. WriterInv'
  BY DEF WriterInv, Announced, Waiting
<1>5. ReplacedInv'
  BY DEF ReplacedInv, Notifies
<1>6. MutexInv'
  BY DEF MutexInv, Holding
<1>7. NoLostWakeup'
  BY DEF NoLostWakeup
<1> QED
  BY <1>1, <1>2, <1>3, <1>4, <1>5, <1>6, <1>7

\* The notifier gives the mutex back and goes where it came from.
LEMMA KeepsNotifyUnlock ==
    ASSUME TypeOK, LockInv, NEW t \in Threads, NotifyUnlock(t)
    PROVE  LockInv'
<1> USE DEF TypeOK, LockInv, Tokens, Goto, ThenGoto, arc, notes, NotifyUnlock
<1>a. after[t] \in {"idle", "load", "await"} /\ pc[t] = "unlock"
  BY DEF ControlInv
<1>b. pc' = [pc EXCEPT ![t] = after[t]] /\ UNCHANGED <<kinds, token, note, after, mine, notified, guard>>
  OBVIOUS
<1>c. \A u \in Threads : Announced(u)' <=> Announced(u)
  BY <1>a, <1>b DEF Announced, Waiting
<1>1. GuardInv'
  BY DEF GuardInv
<1>2. ControlInv'
  BY DEF ControlInv, Waiting
<1>3. RetiredInv'
  BY <1>a, <1>b DEF RetiredInv, Notifies
<1>4. WriterInv'
  BY <1>a, <1>b, <1>c DEF WriterInv
<1>5. ReplacedInv'
  BY DEF ReplacedInv, Notifies
<1>6. MutexInv'
  BY <1>a, <1>b, LockAssumption DEF MutexInv, Holding
<1>7. NoLostWakeup'
  <2>1. /\ notified' = notified /\ pc[t] # "wake" /\ pc'[t] # "asleep"
        /\ \A u \in Threads : u # t => pc'[u] = pc[u] /\ note'[u] = note[u]
    OBVIOUS
  <2> QED
    BY <2>1, SleepersLeftAlone
<1> QED
  BY <1>1, <1>2, <1>3, <1>4, <1>5, <1>6, <1>7

\* The token a thread loads is the current one.
LEMMA KeepsLoad ==
    ASSUME TypeOK, LockInv, NEW t \in Threads, Load(t)
    PROVE  LockInv'
<1> USE DEF TypeOK, LockInv, Tokens, Goto, ThenGoto, arc, notes, Load
<1>a. /\ guard' = [guard EXCEPT ![t] = token] /\ guard[t] = 0
      /\ UNCHANGED <<kinds, token, notified, note>> /\ kinds[token] \in {"ReadOk", "WriteOngoing"}
  <2>1. guard[t] = 0 /\ kinds[token] \in {"ReadOk", "WriteOngoing"}
    BY GuardsTyped, TwoKinds
  <2> QED
    BY <2>1
<1>b. \E p \in {"blocked", "reading", "cas"} :
         pc' = [pc EXCEPT ![t] = p] /\ (p = "blocked" <=> kinds[token] = "WriteOngoing")
  BY LoadGoes
<1>1. GuardInv'
  BY <1>a, <1>b DEF GuardInv
<1>2. ControlInv'
  BY DEF ControlInv, Waiting
<1>3. RetiredInv'
  BY DEF RetiredInv, Notifies
<1>4. WriterInv'
  BY DEF WriterInv, Announced, Waiting
<1>5. ReplacedInv'
  <2>1. \A n \in Tokens, u \in Threads :
           (guard[u] = n => guard'[u] = n) /\ (Notifies(u, n) => Notifies(u, n)')
    BY <1>a, <1>b DEF Notifies
  <2> QED
    BY <1>a, <2>1 DEF ReplacedInv
<1>6. MutexInv'
  BY DEF MutexInv, Holding
<1>7. NoLostWakeup'
  <2>1. /\ notified' = notified /\ pc[t] # "wake" /\ pc'[t] # "asleep"
        /\ \A u \in Threads : u # t => pc'[u] = pc[u] /\ note'[u] = note[u]
    OBVIOUS
  <2> QED
    BY <2>1, SleepersLeftAlone
<1> QED
  BY <1>1, <1>2, <1>3, <1>4, <1>5, <1>6, <1>7

\* Who found a write under way waits for the token it saw.
LEMMA KeepsBlocked ==
    ASSUME TypeOK, LockInv, NEW t \in Threads, Blocked(t)
    PROVE  LockInv'
<1> USE DEF TypeOK, LockInv, Tokens, Goto, ThenGoto, arc, notes, Blocked
<1>1. GuardInv'
  BY DEF GuardInv
<1>2. ControlInv'
  BY DEF ControlInv, Waiting, GuardInv
<1>3. RetiredInv'
  BY DEF RetiredInv, Notifies
<1>4. WriterInv'
  BY DEF WriterInv, Announced, Waiting
<1>5. ReplacedInv'
  <2>1. kinds[guard[t]] # "ReadOk"
    BY DEF GuardInv
  <2> QED
    BY <2>1 DEF ReplacedInv, Notifies
<1>6. MutexInv'
  BY DEF MutexInv, Holding
<1>7. NoLostWakeup'
  <2>1. /\ notified' = notified /\ pc[t] # "wake" /\ pc'[t] # "asleep"
        /\ \A u \in Threads : u # t => pc'[u] = pc[u] /\ note'[u] = note[u]
    OBVIOUS
  <2> QED
    BY <2>1, SleepersLeftAlone
<1> QED
  BY <1>1, <1>2, <1>3, <1>4, <1>5, <1>6, <1>7

\* A reader lets go of its guard next.
LEMMA KeepsEndRead ==
    ASSUME TypeOK, LockInv, NEW t \in Threads, EndRead(t)
    PROVE  LockInv'
<1> USE DEF TypeOK, LockInv, Tokens, Goto, ThenGoto, arc, notes, EndRead
<1>1. GuardInv'
  BY DEF GuardInv
<1>2. ControlInv'
  BY DEF ControlInv, Waiting
<1>3. RetiredInv'
  BY DEF RetiredInv, Notifies
<1>4. WriterInv'
  BY DEF WriterInv, Announced, Waiting
<1>5. ReplacedInv'
  BY DEF ReplacedInv, Notifies
<1>6. MutexInv'
  BY DEF MutexInv, Holding
<1>7. NoLostWakeup'
  <2>1. /\ notified' = notified /\ pc[t] # "wake" /\ pc'[t] # "asleep"
        /\ \A u \in Threads : u # t => pc'[u] = pc[u] /\ note'[u] = note[u]
    OBVIOUS
  <2> QED
    BY <2>1, SleepersLeftAlone
<1> QED
  BY <1>1, <1>2, <1>3, <1>4, <1>5, <1>6, <1>7

\* A writer whose swap failed lets go of its guard and retries.
LEMMA KeepsAnnounceFails ==
    ASSUME TypeOK, LockInv, NEW t \in Threads, AnnounceFails(t)
    PROVE  LockInv'
<1> USE DEF TypeOK, LockInv, Tokens, Goto, ThenGoto, arc, notes, AnnounceFails
<1>1. GuardInv'
  BY DEF GuardInv
<1>2. ControlInv'
  BY DEF ControlInv, Waiting
<1>3. RetiredInv'
  BY DEF RetiredInv, Notifies
<1>4. WriterInv'
  BY DEF WriterInv, Announced, Waiting
<1>5. ReplacedInv'
  BY DEF ReplacedInv, Notifies
<1>6. MutexInv'
  BY DEF MutexInv, Holding
<1>7. NoLostWakeup'
  <2>1. /\ notified' = notified /\ pc[t] # "wake" /\ pc'[t] # "asleep"
        /\ \A u \in Threads : u # t => pc'[u] = pc[u] /\ note'[u] = note[u]
    OBVIOUS
  <2> QED
    BY <2>1, SleepersLeftAlone
<1> QED
  BY <1>1, <1>2, <1>3, <1>4, <1>5, <1>6, <1>7

\* The last guard on a replaced token sees to its notification.
LEMMA KeepsDrop ==
    ASSUME TypeOK, LockInv, NEW t \in Threads, Drop(t)
    PROVE  LockInv'
<1> DEFINE g == guard[t]
<1>1. /\ pc[t] = "drop" /\ g \in Tokens /\ kinds[g] = "ReadOk"
      /\ g = token \/ (g = token - 1 /\ kinds[token] = "WriteOngoing")
      /\ after[t] \in {"idle", "load", "await"}
  BY DEF LockInv, TypeOK, GuardInv, ControlInv, Drop
<1>2. /\ guard' = [guard EXCEPT ![t] = 0] /\ 0 \notin Tokens
      /\ UNCHANGED <<kinds, token, notified, holder, after, mine>> /\ Tokens' = Tokens
  BY DEF Drop, arc, notes, Tokens
<1> USE DEF TypeOK, LockInv
<1>3. CASE LastReference(t)
  <2>1. note' = [note EXCEPT ![t] = g] /\ pc' = [pc EXCEPT ![t] = "notify"]
    BY <1>3 DEF Drop, Goto
  <2>2. g # token /\ \A u \in Threads : guard'[u] # g
    BY <1>1, <1>2, <1>3 DEF LastReference
  <2> HIDE DEF g
  <2>3. Announced(t) => note[t] = g
    BY <1>1, <2>2 DEF WriterInv
  <2>4. \A u \in Threads : Announced(u)' <=> Announced(u)
    BY <1>1, <1>2, <2>1 DEF Announced, Waiting
  <2>5. GuardInv'
    BY <1>1, <1>2, <2>1 DEF GuardInv
  <2>6. ControlInv'
    BY <1>1, <1>2, <2>1 DEF ControlInv, Waiting
  <2>7. RetiredInv'
    BY <1>1, <1>2, <2>1, <2>2 DEF RetiredInv, Notifies
  <2>8. WriterInv'
    BY <1>1, <1>2, <2>1, <2>3, <2>4 DEF WriterInv
  <2>9. ReplacedInv'
    <3> SUFFICES ASSUME NEW n \in Tokens, n # token
                 PROVE  \/ n \in notified
                        \/ \E u \in Threads : Notifies(u, n)'
                        \/ kinds[n] = "ReadOk" /\ \E u \in Threads : guard'[u] = n
      BY <1>2 DEF ReplacedInv
    <3>1. CASE n = g
      BY <2>1, <3>1 DEF Notifies
    <3>2. CASE n # g
      <4>1. \A u \in Threads : (guard[u] = n => guard'[u] = n) /\ (Notifies(u, n) => Notifies(u, n)')
        BY <1>1, <1>2, <2>1, <3>2 DEF Notifies, g
      <4> QED
        BY <4>1 DEF ReplacedInv
    <3> QED
      BY <3>1, <3>2
  <2>10. MutexInv'
    BY <1>1, <1>2, <2>1 DEF MutexInv, Holding
  <2>11. NoLostWakeup'
    BY <1>1, <1>2, <2>1 DEF NoLostWakeup
  <2> QED
    BY <1>2, <2>5, <2>6, <2>7, <2>8, <2>9, <2>10, <2>11
<1>4. CASE ~LastReference(t)
  <2>1. UNCHANGED note /\ pc' = [pc EXCEPT ![t] = after[t]]
    BY <1>4 DEF Drop, Goto
  <2>2. g # token => \E u \in Threads : u # t /\ guard[u] = g
    BY <1>4 DEF LastReference
  <2> HIDE DEF g
  <2>4. \A u \in Threads : Announced(u)' <=> Announced(u)
    BY <1>1, <1>2, <2>1 DEF Announced, Waiting
  <2>5. GuardInv'
    BY <1>1, <1>2, <2>1 DEF GuardInv
  <2>6. ControlInv'
    BY <1>1, <1>2, <2>1 DEF ControlInv, Waiting
  <2>7. RetiredInv'
    BY <1>1, <1>2, <2>1, <2>2 DEF RetiredInv, Notifies
  <2>8. WriterInv'
    BY <1>1, <1>2, <2>1, <2>4 DEF WriterInv
  <2>9. ReplacedInv'
    <3>1. \A n \in Tokens : n # token /\ (\E u \in Threads : guard[u] = n) => \E u \in Threads : guard'[u] = n
      BY <1>1, <1>2, <2>2 DEF g
    <3>2. \A n \in Tokens, u \in Threads : Notifies(u, n) => Notifies(u, n)'
      BY <1>1, <2>1 DEF Notifies
    <3> QED
      BY <1>2, <3>1, <3>2 DEF ReplacedInv
  <2>10. MutexInv'
    BY <1>1, <1>2, <2>1 DEF MutexInv, Holding
  <2>11. NoLostWakeup'
    BY <1>1, <1>2, <2>1 DEF NoLostWakeup
  <2> QED
    BY <1>2, <2>5, <2>6, <2>7, <2>8, <2>9, <2>10, <2>11
<1> QED
  BY <1>3, <1>4

\* A writer waits for the token it replaced.
LEMMA KeepsAwait ==
    ASSUME TypeOK, LockInv, NEW t \in Threads, Await(t)
    PROVE  LockInv'
<1> USE DEF TypeOK, LockInv, Tokens, Goto, ThenGoto, arc, notes, Await
<1>1. GuardInv'
  BY DEF GuardInv
<1>2. ControlInv'
  BY DEF ControlInv, Waiting
<1>3. RetiredInv'
  BY DEF RetiredInv, Notifies
<1>4. WriterInv'
  BY DEF WriterInv, Announced, Waiting
<1>5. ReplacedInv'
  BY DEF ReplacedInv, Notifies
<1>6. MutexInv'
  BY DEF MutexInv, Holding
<1>7. NoLostWakeup'
  <2>1. /\ notified' = notified /\ pc[t] # "wake" /\ pc'[t] # "asleep"
        /\ \A u \in Threads : u # t => pc'[u] = pc[u] /\ note'[u] = note[u]
    OBVIOUS
  <2> QED
    BY <2>1, SleepersLeftAlone
<1> QED
  BY <1>1, <1>2, <1>3, <1>4, <1>5, <1>6, <1>7

\* A spurious wakeup takes the waiter back to the mutex.
LEMMA KeepsSpurious ==
    ASSUME TypeOK, LockInv, NEW t \in Threads, Spurious(t)
    PROVE  LockInv'
<1> USE DEF TypeOK, LockInv, Tokens, Goto, ThenGoto, arc, notes, Spurious
<1>1. GuardInv'
  BY DEF GuardInv
<1>2. ControlInv'
  BY DEF ControlInv, Waiting
<1>3. RetiredInv'
  BY DEF RetiredInv, Notifies
<1>4. WriterInv'
  BY DEF WriterInv, Announced, Waiting
<1>5. ReplacedInv'
  BY DEF ReplacedInv, Notifies
<1>6. MutexInv'
  BY DEF MutexInv, Holding
<1>7. NoLostWakeup'
  <2>1. /\ notified' = notified /\ pc[t] # "wake" /\ pc'[t] # "asleep"
        /\ \A u \in Threads : u # t => pc'[u] = pc[u] /\ note'[u] = note[u]
    OBVIOUS
  <2> QED
    BY <2>1, SleepersLeftAlone
<1> QED
  BY <1>1, <1>2, <1>3, <1>4, <1>5, <1>6, <1>7

\* A writer replaces a ReadOk token, and so is the only one.
LEMMA KeepsAnnounce ==
    ASSUME TypeOK, LockInv, NEW t \in Threads, Announce(t)
    PROVE  LockInv'
<1>1. /\ kinds' \in Seq({"ReadOk", "WriteOngoing"}) /\ token' = token + 1 /\ Len(kinds') = token'
      /\ Tokens' = Tokens \cup {token'} /\ token' \notin Tokens /\ token \in Tokens /\ token \in Nat
      /\ \A n \in Tokens : kinds'[n] = kinds[n] /\ holder'[n] = holder[n]
      /\ kinds'[token'] = "WriteOngoing" /\ holder'[token'] = None
  BY Installed DEF Announce, LockInv, TypeOK
<1>2. /\ pc[t] = "cas" /\ guard[t] = token /\ pc' = [pc EXCEPT ![t] = "drop"]
      /\ after' = [after EXCEPT ![t] = "await"] /\ note' = [note EXCEPT ![t] = token]
      /\ mine' = [mine EXCEPT ![t] = token'] /\ UNCHANGED <<guard, notified>>
  BY DEF Announce, Goto, ThenGoto
<1> USE DEF TypeOK, LockInv
<1>3. kinds[token] = "ReadOk"
  BY <1>2 DEF GuardInv
<1>4. \A u \in Threads : ~Announced(u)
  BY <1>3 DEF WriterInv
<1>5. \A u \in Threads : Announced(u)' <=> u = t
  BY <1>2, <1>4 DEF Announced, Waiting
<1>6. \A u \in Threads : \A n : Notifies(u, n)' <=> Notifies(u, n)
  BY <1>2 DEF Notifies
<1>7. GuardInv'
  <2> SUFFICES ASSUME NEW u \in Threads
               PROVE  /\ pc'[u] = "blocked" => kinds'[guard[u]] = "WriteOngoing"
                      /\ pc'[u] \in {"reading", "cas", "drop"} =>
                           kinds'[guard[u]] = "ReadOk" /\ guard[u] = token
    BY <1>1, <1>2 DEF GuardInv
  <2>1. pc'[u] \in {"blocked", "reading", "cas", "drop"} =>
           guard[u] \in Tokens /\ kinds'[guard[u]] = kinds[guard[u]]
    BY <1>1, <1>2, GuardsTyped
  <2> QED
    BY <1>2, <1>3, <2>1 DEF GuardInv
<1>8. ControlInv'
  <2> SUFFICES ASSUME NEW u \in Threads
               PROVE  /\ Waiting(u)' => after'[u] \in {"load", "writing"}
                      /\ Waiting(u)' /\ after'[u] = "load" => kinds'[note'[u]] = "WriteOngoing"
                      /\ pc'[u] \in {"drop", "notify", "store", "wake", "unlock"} =>
                           after'[u] \in {"idle", "load", "await"}
    BY DEF ControlInv
  <2>1. CASE u = t
    BY <1>2, <2>1 DEF Waiting
  <2>2. CASE u # t
    <3>1. note[u] \in Tokens /\ kinds'[note[u]] = kinds[note[u]]
      BY <1>1, GuardsTyped
    <3> QED
      BY <1>2, <2>2, <3>1 DEF ControlInv, Waiting
  <2> QED
    BY <2>1, <2>2
<1>9. RetiredInv'
  BY <1>1, <1>2, <1>6 DEF RetiredInv
<1>10. WriterInv'
  BY <1>1, <1>2, <1>3, <1>5 DEF WriterInv
<1>11. ReplacedInv'
  BY <1>1, <1>2, <1>3, <1>6 DEF ReplacedInv
<1>12. MutexInv'
  BY <1>1, <1>2, LockAssumption DEF MutexInv, Holding
<1>13. NoLostWakeup'
  <2>1. /\ notified' = notified /\ pc[t] # "wake" /\ pc'[t] # "asleep"
        /\ \A u \in Threads : u # t => pc'[u] = pc[u] /\ note'[u] = note[u]
    BY <1>2
  <2> QED
    BY <2>1, SleepersLeftAlone
<1> QED
  BY <1>1, <1>7, <1>8, <1>9, <1>10, <1>11, <1>12, <1>13

\* A writer ends when nobody refers to the token it replaced, so that no ReadOk
\* token but the new one has a guard from then on.
LEMMA KeepsEndWrite ==
    ASSUME TypeOK, LockInv, NEW t \in Threads, EndWrite(t)
    PROVE  LockInv'
<1>1. /\ kinds' \in Seq({"ReadOk", "WriteOngoing"}) /\ token' = token + 1 /\ Len(kinds') = token'
      /\ Tokens' = Tokens \cup {token'} /\ token' \notin Tokens /\ token \in Tokens /\ token \in Nat
      /\ \A n \in Tokens : kinds'[n] = kinds[n] /\ holder'[n] = holder[n]
      /\ kinds'[token'] = "ReadOk" /\ holder'[token'] = None
  BY Installed DEF EndWrite, LockInv, TypeOK
<1>2. /\ pc[t] = "writing" /\ pc' = [pc EXCEPT ![t] = "notify"]
      /\ after' = [after EXCEPT ![t] = "idle"] /\ note' = [note EXCEPT ![t] = mine[t]]
      /\ UNCHANGED <<guard, notified, mine>>
  BY DEF EndWrite, Goto, ThenGoto
<1> USE DEF TypeOK, LockInv
<1>3. Announced(t)
  BY <1>2 DEF Announced
<1>4. /\ mine[t] = token /\ kinds[token] = "WriteOngoing" /\ note[t] = token - 1
      /\ note[t] \in notified /\ kinds[note[t]] = "ReadOk"
  BY <1>2, <1>3 DEF WriterInv
<1>5. \A u \in Threads : guard[u] # token - 1
  BY <1>4 DEF RetiredInv
<1>6. \A u \in Threads : pc[u] \notin {"reading", "cas", "drop"}
  BY <1>4, <1>5 DEF GuardInv
<1>7. \A u \in Threads : ~Announced(u)'
  <2>1. \A u \in Threads : u # t => ~Announced(u)
    BY <1>3 DEF WriterInv
  <2> QED
    BY <1>2, <2>1 DEF Announced, Waiting
<1>8. \A u \in Threads, n \in Tokens : Notifies(u, n)' <=> Notifies(u, n) \/ (u = t /\ n = token)
  BY <1>2, <1>4 DEF Notifies
<1>9. GuardInv'
  <2>1. \A u \in Threads : pc[u] = "blocked" => kinds'[guard[u]] = kinds[guard[u]]
    BY <1>1, GuardsTyped
  <2> QED
    BY <1>2, <1>6, <2>1 DEF GuardInv
<1>10. ControlInv'
  <2>1. \A u \in Threads : kinds'[note[u]] = kinds[note[u]]
    BY <1>1, GuardsTyped
  <2> QED
    <3> SUFFICES ASSUME NEW u \in Threads
                 PROVE  /\ Waiting(u)' => after'[u] \in {"load", "writing"}
                        /\ Waiting(u)' /\ after'[u] = "load" => kinds'[note'[u]] = "WriteOngoing"
                        /\ pc'[u] \in {"drop", "notify", "store", "wake", "unlock"} =>
                             after'[u] \in {"idle", "load", "await"}
      BY DEF ControlInv
    <3>1. CASE u = t
      BY <1>2, <3>1 DEF Waiting
    <3>2. CASE u # t
      <4>1. pc'[u] = pc[u] /\ note'[u] = note[u] /\ after'[u] = after[u]
        BY <1>2, <3>2
      <4>2. Waiting(u)' <=> Waiting(u)
        BY <4>1 DEF Waiting
      <4> QED
        BY <2>1, <4>1, <4>2 DEF ControlInv
    <3> QED
      BY <3>1, <3>2
<1>11. RetiredInv'
  <2>1. token' \notin notified /\ \A u \in Threads : note'[u] \in Tokens
    BY <1>1, <1>2, GuardsTyped
  <2>2. \A n \in Tokens : n # token'
    BY <1>1
  <2>3. \A n \in Tokens' : n \notin Tokens => n \notin notified /\ \A u \in Threads : ~Notifies(u, n)'
    BY <1>1, <2>1 DEF Notifies
  <2>4. ASSUME NEW n \in Tokens, kinds[n] = "ReadOk"
        PROVE  n # token /\ \A u \in Threads : Notifies(u, n)' <=> Notifies(u, n)
    BY <1>4, <1>8, <2>4
  <2> QED
    BY <1>1, <1>2, <2>2, <2>3, <2>4 DEF RetiredInv
<1>12. WriterInv'
  BY <1>1, <1>7 DEF WriterInv
<1>13. ReplacedInv'
  BY <1>1, <1>2, <1>8 DEF ReplacedInv
<1>14. MutexInv'
  BY <1>1, <1>2, LockAssumption DEF MutexInv, Holding
<1>15. NoLostWakeup'
  <2>1. /\ notified' = notified /\ pc[t] # "wake" /\ pc'[t] # "asleep"
        /\ \A u \in Threads : u # t => pc'[u] = pc[u] /\ note'[u] = note[u]
    BY <1>2
  <2> QED
    BY <2>1, SleepersLeftAlone
<1> QED
  BY <1>1, <1>9, <1>10, <1>11, <1>12, <1>13, <1>14, <1>15

\* An operation begins.
LEMMA KeepsCall ==
    ASSUME TypeOK, LockInv, NEW t \in Threads, NEW w \in {"read", "write"}, Call(t, w)
    PROVE  LockInv'
<1>1. /\ pc[t] = "idle" /\ pc' = [pc EXCEPT ![t] = "load"]
      /\ UNCHANGED <<kinds, token, guard, notified, holder, note, after, mine>>
  BY DEF Call, Goto, arc, notes
<1> USE DEF TypeOK, LockInv, Tokens
<1>2. GuardInv' /\ ControlInv' /\ RetiredInv'
  BY <1>1 DEF GuardInv, ControlInv, RetiredInv, Waiting, Notifies
<1>3. \A u \in Threads : Announced(u)' <=> Announced(u)
  BY <1>1 DEF Announced, Waiting
<1>4. WriterInv'
  BY <1>1, <1>3 DEF WriterInv
<1>5. ReplacedInv'
  BY <1>1 DEF ReplacedInv, Notifies
<1>6. MutexInv'
  BY <1>1 DEF MutexInv, Holding
<1>7. NoLostWakeup'
  BY <1>1 DEF NoLostWakeup
<1> QED
  BY <1>1, <1>2, <1>4, <1>5, <1>6, <1>7

\* The invariant holds at first, when there is one token and nobody runs.
LEMMA LockInvInit == Init => LockInv
BY LockAssumption DEF Init, LockInv, GuardInv, ControlInv, RetiredInv, WriterInv, ReplacedInv,
   MutexInv, NoLostWakeup, Waiting, Notifies, Announced, Holding, Tokens

\* The invariant holds in every reachable state.
LEMMA LockInvHolds == Spec => []LockInv
<1>1. TypeOK /\ LockInv /\ [Next]_vars => LockInv'
  <2> SUFFICES ASSUME TypeOK, LockInv, [Next]_vars PROVE LockInv'
    OBVIOUS
  <2>1. CASE Next
    BY <2>1, KeepsCall, KeepsWaitReturns, KeepsWaitSlowly, KeepsWaitLock, KeepsWaitDone,
       KeepsLookAgain, KeepsSleep, KeepsSpurious, KeepsNotifyLock, KeepsNotifyStore,
       KeepsNotifyAll, KeepsNotifyUnlock, KeepsLoad, KeepsBlocked, KeepsEndRead, KeepsAnnounce,
       KeepsAnnounceFails, KeepsDrop, KeepsAwait, KeepsEndWrite
       DEF Next, Step, Notification, Lock
  <2>2. CASE UNCHANGED vars
    BY <2>2 DEF vars, arc, notes, LockInv, GuardInv, ControlInv, RetiredInv, WriterInv,
       ReplacedInv, MutexInv, NoLostWakeup, Waiting, Notifies, Announced, Tokens
  <2> QED
    BY <2>1, <2>2
<1> QED
  BY <1>1, LockInvInit, TypeCorrect, PTL DEF Spec

-----------------------------------------------------------------------------
(* What follows *)

\* No wakeup is lost (Notification::wait and notify): whoever sleeps on a notification
\* that has happened is about to be woken by the thread that performs it.
THEOREM WakeupsArrive == Spec => []NoLostWakeup
<1>1. LockInv => NoLostWakeup
  BY DEF LockInv
<1> QED
  BY <1>1, LockInvHolds, PTL

\* Whoever waits in ReadOptimizedLock::read or lock waits for an event that a guard,
\* the writer or a notifying thread is going to bring about.
THEOREM WaitsHaveNotifiers == Spec => []EveryWaitHasANotifier
<1>1. TypeOK /\ LockInv => EveryWaitHasANotifier
  <2> SUFFICES ASSUME TypeOK, LockInv, NEW t \in Threads, Waiting(t), note[t] \notin notified
               PROVE  \/ \E u \in Threads \ {t} : guard[u] = note[t]
                      \/ \E u \in Threads \ {t} : Notifies(u, note[t])
                      \/ \E u \in Threads \ {t} : mine[u] = note[t] /\ token = note[t] /\ Announced(u)
    BY DEF EveryWaitHasANotifier, Notifies, Announced
  <2>1. guard[t] = 0 /\ ~Notifies(t, note[t]) /\ note[t] \in Tokens /\ 0 \notin Tokens
    BY GuardsTyped DEF Waiting, Notifies
  <2>2. CASE note[t] = token
    <3>1. after[t] = "load" /\ kinds[token] = "WriteOngoing"
      BY <2>2 DEF LockInv, ControlInv, WriterInv, Announced, TypeOK, Tokens
    <3>2. PICK u \in Threads : Announced(u)
      BY <3>1 DEF LockInv, WriterInv
    <3>3. u # t
      BY <3>1, <3>2 DEF Announced, Waiting
    <3> QED
      BY <2>2, <3>2, <3>3 DEF LockInv, WriterInv
  <2>3. CASE note[t] # token
    BY <2>1, <2>3 DEF LockInv, ReplacedInv
  <2> QED
    BY <2>2, <2>3
<1> QED
  BY <1>1, LockInvHolds, TypeCorrect, PTL

\* ReadOptimizedLock is a readers-writer lock: every step is one of RwLock or changes
\* nothing there.
THEOREM LockRefinesRwLock == Spec => ImplementsRwLock
<1>1. Init => Abstract!Init
  BY DEF Init, Abstract!Init, readers, writers
<1>2. TypeOK /\ LockInv /\ [Next]_vars => [Abstract!Next]_<<readers, writers>>
  <2> SUFFICES ASSUME TypeOK, LockInv, [Next]_vars
               PROVE  [Abstract!Next]_<<readers, writers>>
    OBVIOUS
  <2> USE DEF TypeOK
  <2>1. ASSUME NEW t \in Threads, NEW p, pc' = [pc EXCEPT ![t] = p],
               pc[t] \notin {"reading", "writing"}, p \notin {"reading", "writing"}
        PROVE  UNCHANGED <<readers, writers>>
    BY <2>1 DEF readers, writers
  <2>2. ASSUME NEW t \in Threads, WaitReturns(t) \/ WaitDone(t)
        PROVE  [Abstract!Next]_<<readers, writers>>
    <3>1. /\ pc[t] \in {"wait", "waitcheck"} /\ note[t] \in notified
          /\ pc' = [pc EXCEPT ![t] = after[t]] /\ after[t] \in {"load", "writing"}
      BY <2>2 DEF WaitReturns, WaitDone, Goto, LockInv, ControlInv, Waiting
    <3>2. CASE after[t] = "load"
      BY <2>1, <3>1, <3>2
    <3>3. CASE after[t] = "writing"
      <4>1. /\ Announced(t) /\ kinds[token] = "WriteOngoing" /\ note[t] = token - 1
            /\ kinds[note[t]] = "ReadOk"
        BY <3>1, <3>3 DEF LockInv, WriterInv, Announced, Waiting
      <4>2. writers = {}
        BY <3>1, <4>1 DEF LockInv, WriterInv, Announced, writers
      <4>3. \A u \in Threads : guard[u] # token - 1
        BY <3>1, <4>1 DEF LockInv, RetiredInv
      <4>4. readers = {}
        BY <4>1, <4>3 DEF LockInv, GuardInv, readers
      <4>5. writers' = {t} /\ readers' = readers
        BY <3>1, <3>3, <4>2 DEF writers, readers
      <4> QED
        BY <4>2, <4>4, <4>5 DEF Abstract!Next, Abstract!AcquireWrite
    <3> QED
      BY <3>1, <3>2, <3>3
  <2>3. ASSUME NEW t \in Threads, Load(t)
        PROVE  [Abstract!Next]_<<readers, writers>>
    <3>1. /\ pc[t] = "load" /\ kinds[token] \in {"ReadOk", "WriteOngoing"}
      BY <2>3, TwoKinds DEF Load
    <3>2. \E p \in {"blocked", "reading", "cas"} :
             pc' = [pc EXCEPT ![t] = p] /\ (p = "reading" => kinds[token] = "ReadOk")
      BY <2>3, <3>1, LoadGoes
    <3>3. CASE pc' = [pc EXCEPT ![t] = "reading"] /\ kinds[token] = "ReadOk"
      <4>1. writers = {}
        BY <3>3 DEF LockInv, WriterInv, Announced, writers
      <4>2. t \notin readers /\ readers' = readers \cup {t} /\ writers' = writers
        BY <3>1, <3>3 DEF readers, writers
      <4> QED
        BY <4>1, <4>2 DEF Abstract!Next, Abstract!AcquireRead
    <3> QED
      BY <2>1, <3>1, <3>2, <3>3
  <2>4. ASSUME NEW t \in Threads, EndRead(t)
        PROVE  [Abstract!Next]_<<readers, writers>>
    <3>1. t \in readers /\ readers' = readers \ {t} /\ writers' = writers
      BY <2>4 DEF EndRead, Goto, readers, writers
    <3> QED
      BY <3>1 DEF Abstract!Next, Abstract!ReleaseRead
  <2>5. ASSUME NEW t \in Threads, EndWrite(t)
        PROVE  [Abstract!Next]_<<readers, writers>>
    <3>1. writers = {t}
      BY <2>5 DEF EndWrite, LockInv, WriterInv, Announced, writers
    <3>2. t \in writers /\ writers' = {} /\ readers' = readers
      BY <2>5, <3>1 DEF EndWrite, Goto, readers, writers
    <3> QED
      BY <3>2 DEF Abstract!Next, Abstract!ReleaseWrite
  <2>6. ASSUME NEW t \in Threads,
               \/ WaitSlowly(t) \/ WaitLock(t) \/ LookAgain(t) \/ Sleep(t) \/ Spurious(t)
               \/ NotifyLock(t) \/ NotifyStore(t) \/ Blocked(t) \/ Announce(t)
               \/ AnnounceFails(t) \/ Await(t) \/ \E w \in {"read", "write"} : Call(t, w)
        PROVE  UNCHANGED <<readers, writers>>
    <3>1. /\ pc[t] \notin {"reading", "writing"}
          /\ \E p \in {"waitlock", "waitcheck", "dozing", "asleep", "store", "wake", "wait",
                       "drop", "load"} : pc' = [pc EXCEPT ![t] = p]
      BY <2>6, Zenon DEF WaitSlowly, WaitLock, LookAgain, Sleep, Spurious, NotifyLock, NotifyStore,
         Blocked, Announce, AnnounceFails, Await, Call, Goto
    <3> QED
      BY <2>1, <3>1
  <2>7. ASSUME NEW t \in Threads, NotifyAll(t)
        PROVE  UNCHANGED <<readers, writers>>
    BY <2>7 DEF NotifyAll, Sleepers, readers, writers
  <2>8. ASSUME NEW t \in Threads, NotifyUnlock(t) \/ Drop(t)
        PROVE  UNCHANGED <<readers, writers>>
    <3>1. pc[t] \in {"unlock", "drop"} /\ after[t] \in {"idle", "load", "await"}
      BY <2>8 DEF NotifyUnlock, Drop, LockInv, ControlInv
    <3>2. pc' = [pc EXCEPT ![t] = after[t]] \/ pc' = [pc EXCEPT ![t] = "notify"]
      BY <2>8 DEF NotifyUnlock, Drop, Goto
    <3>3. after[t] \notin {"reading", "writing"} /\ pc[t] \notin {"reading", "writing"}
      BY <3>1
    <3>4. CASE pc' = [pc EXCEPT ![t] = after[t]]
      BY <2>1, <3>3, <3>4
    <3>5. CASE pc' = [pc EXCEPT ![t] = "notify"]
      BY <3>3, <3>5 DEF readers, writers
    <3> QED
      BY <3>2, <3>4, <3>5
  <2>9. CASE UNCHANGED vars
    BY <2>9 DEF vars, readers, writers
  <2> QED
    BY <2>2, <2>3, <2>4, <2>5, <2>6, <2>7, <2>8, <2>9 DEF Next, Step, Notification, Lock
<1> QED
  BY <1>1, <1>2, LockInvHolds, TypeCorrect, PTL DEF Spec, ImplementsRwLock, Abstract!Spec
=============================================================================
