---------------------------- MODULE NotificationList ----------------------------
(* egglog_concurrency::NotificationList over its ConcurrentVec of marks: any *)
(* number of tasks notify items, only the first of an item since the latest  *)
(* reset records it. The lock of the vector (module ReadOptimizedLock) keeps *)
(* it from growing while a mark is being read or set.                        *)
EXTENDS Naturals, Sequences, SequencesExt

CONSTANTS
  Tasks, \* who notifies
  None   \* no task

VARIABLES
  head,     \* length of the vector, as far as it is published
  slots,    \* the marks, from index 0 on; the latest may be unpublished
  writer,   \* the task that holds write_lock
  notified, \* the recorded items
  pc,       \* task -> its next step; "work" outside notify
  item      \* task -> the item it notifies

list == <<head, slots, writer, notified, pc, item>>

ListInit ==
  /\ head = 0 /\ slots = <<>> /\ writer = None /\ notified = <<>>
  /\ pc = [t \in Tasks |-> "idle"]
  /\ item = [t \in Tasks |-> 0]

Goto(t, step) == pc' = [pc EXCEPT ![t] = step]
Marked(t) == slots[item[t]]
\* The one power of two from n on and before 2n, as a set.
NextPowerOfTwo(n) == {p \in n..(2 * n - 1) : \E k \in 0..n : p = 2^k}

StartNotify(t, i) ==
  /\ item' = [item EXCEPT ![t] = i]
  /\ Goto(t, "resize")
  /\ UNCHANGED <<head, slots, writer, notified>>

-------------------------------------------------------------------------------
(* resize_with: the length is looked at, and again under the lock.           *)
Fits(t) ==
  /\ pc[t] = "resize" /\ item[t] < head
  /\ Goto(t, "read")
  /\ UNCHANGED <<head, slots, writer, notified, item>>

TooShort(t) ==
  /\ pc[t] = "resize" /\ item[t] >= head
  /\ Goto(t, "lock")
  /\ UNCHANGED <<head, slots, writer, notified, item>>

FitsByNow(t) ==
  /\ pc[t] = "lock" /\ writer = None /\ item[t] < head
  /\ Goto(t, "read")
  /\ UNCHANGED <<head, slots, writer, notified, item>>

LockUnchecked(t) ==
  /\ pc[t] = "lock" /\ writer = None
  /\ writer' = t
  /\ Goto(t, "push")
  /\ UNCHANGED <<head, slots, notified, item>>
Lock(t) ==
  /\ pc[t] = "lock" /\ writer = None /\ item[t] >= head
  /\ writer' = t
  /\ Goto(t, "push")
  /\ UNCHANGED <<head, slots, notified, item>>

\* push_at: a slot out of bounds makes the vector grow, to clear marks ...
Grow(t) ==
  /\ pc[t] = "push" /\ item[t] \notin DOMAIN slots
  /\ \A u \in Tasks : pc[u] \notin {"check", "swap"}
  /\ \E size \in NextPowerOfTwo(item[t] + 1) :
       slots' = [i \in 0..(size - 1) |-> i \in DOMAIN slots /\ slots[i]]
  /\ UNCHANGED <<head, writer, notified, pc, item>>

\* ... then only the last slot is written.
Place(t) ==
  /\ pc[t] = "push" /\ item[t] \in DOMAIN slots
  /\ slots' = [slots EXCEPT ![item[t]] = FALSE]
  /\ Goto(t, "publish")
  /\ UNCHANGED <<head, writer, notified, item>>

Publish(t) ==
  /\ pc[t] = "publish"
  /\ head' = item[t] + 1
  /\ writer' = None
  /\ Goto(t, "read")
  /\ UNCHANGED <<slots, notified, item>>

-------------------------------------------------------------------------------
(* The mark is looked at, then set; who finds it clear records the item.     *)
Read(t) ==
  /\ pc[t] = "read" /\ item[t] < head
  /\ Goto(t, "check")
  /\ UNCHANGED <<head, slots, writer, notified, item>>

AlreadyNotified(t) ==
  /\ pc[t] = "check" /\ Marked(t)
  /\ Goto(t, "work")
  /\ UNCHANGED <<head, slots, writer, notified, item>>

NotYetNotified(t) ==
  /\ pc[t] = "check" /\ ~Marked(t)
  /\ Goto(t, "swap")
  /\ UNCHANGED <<head, slots, writer, notified, item>>

AttemptNotify(t) ==
  /\ pc[t] = "swap"
  /\ slots' = [slots EXCEPT ![item[t]] = TRUE]
  /\ Goto(t, IF Marked(t) THEN "work" ELSE "record")
  /\ UNCHANGED <<head, writer, notified, item>>

Record(t) ==
  /\ pc[t] = "record"
  /\ notified' = Append(notified, item[t])
  /\ Goto(t, "work")
  /\ UNCHANGED <<head, slots, writer, item>>

Notify(t) ==
  \/ Fits(t) \/ TooShort(t) \/ FitsByNow(t) \/ Lock(t) \/ Grow(t) \/ Place(t) \/ Publish(t)
  \/ Read(t) \/ AlreadyNotified(t) \/ NotYetNotified(t) \/ AttemptNotify(t) \/ Record(t)

\* reset, when nobody notifies: the record is taken, its marks are cleared.
ResetRecord ==
  /\ notified' = <<>>
  /\ UNCHANGED <<head, slots, writer, item>>
Reset ==
  /\ notified' = <<>>
  /\ slots' = [i \in DOMAIN slots |-> slots[i] /\ i \notin Range(notified)]
  /\ UNCHANGED <<head, writer, item>>
===============================================================================
