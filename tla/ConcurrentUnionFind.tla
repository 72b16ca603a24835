------------------------ MODULE ConcurrentUnionFind ------------------------
(***************************************************************************)
(* egglog_union_find::concurrent: a union-find over an array of atomics.    *)
(* Threads find, compare, merge and copy under a shared lock, one atomic    *)
(* load or compare-and-swap a step, while the exclusive lock lets one       *)
(* thread grow or reset the array.                                          *)
(*                                                                          *)
(* Abstractions.  The locations are sequentially consistent: every access   *)
(* is to one location and the argument never relates two.  What a thread    *)
(* does while it holds the exclusive lock is one step; the lock itself is   *)
(* the subject of ReadOptimizedLock.  The variables rep, links and answers  *)
(* are history variables that no action reads.                              *)
(***************************************************************************)
EXTENDS Naturals, FiniteSets

CONSTANTS
    Threads,
    MaxId,      \* ids are 0 .. MaxId - 1
    InitLen,    \* length of the array at first (with_capacity)
    MaxOps,     \* bound on the operations of a thread
    Calls       \* the operations callers choose from

Id == 0 .. MaxId - 1

Op ==
    [kind : {"same_set", "merge"}, l : Id, r : Id]
      \cup [kind : {"find"}, l : Id, r : {0}]
      \cup [kind : {"reset", "deep_copy"}, l : {0}, r : {0}]

ASSUME UnionFindAssumption ==
    /\ MaxId \in Nat \ {0}
    /\ InitLen \in Nat
    /\ MaxOps \in Nat
    /\ Calls \subseteq Op

VARIABLES
    parent,     \* the array; ids past its length are their own parents
    len,        \* its length
    pc,         \* pc[t]: the step thread t takes next
    op,         \* op[t]: the operation t runs
    l, r,       \* the roots a merge or same_set found so far
    side,       \* side[t]: the argument whose root find_impl is looking for
    cur, nxt, grand,  \* find_impl's locals
    result,     \* result[t]: what the operation of t returns, as a pair
    copy,       \* copy[t]: the elements deep_copy read
    ops,        \* ops[t]: operations t started
    rep,        \* history: the representative each id has by the merges done so far
    links,      \* history: merges that returned a child
    answers     \* history: what t's operation could have answered since it got access

array   == <<parent, len>>
locals  == <<op, l, r, side, cur, nxt, grand, result, copy, ops>>
history == <<rep, links, answers>>
vars    == <<array, pc, locals, history>>

\* Threads that hold the shared lock, up to and with their return.
Inside == {"next", "grand", "split", "link", "recheck", "copy", "ret"}
Readers == {t \in Threads : pc[t] \in Inside}

\* What an operation answers when nothing else runs (find and same_set only).
Answer(o, p) ==
    IF o.kind = "find" THEN <<p[o.l], p[o.l]>>
    ELSE IF o.kind = "same_set" /\ p[o.l] = p[o.r] THEN <<1, 0>> ELSE <<0, 0>>

NoOp == [kind |-> "find", l |-> 0, r |-> 0]
Unread == [i \in Id |-> i]

Init ==
    /\ parent = [i \in Id |-> i]
    /\ len = InitLen
    /\ pc = [t \in Threads |-> "idle"]
    /\ op = [t \in Threads |-> NoOp]
    /\ l = [t \in Threads |-> 0] /\ r = [t \in Threads |-> 0]
    /\ side = [t \in Threads |-> "l"]
    /\ cur = [t \in Threads |-> 0] /\ nxt = [t \in Threads |-> 0]
    /\ grand = [t \in Threads |-> 0]
    /\ result = [t \in Threads |-> <<0, 0>>]
    /\ copy = [t \in Threads |-> Unread]
    /\ ops = [t \in Threads |-> 0]
    /\ rep = [i \in Id |-> i]
    /\ links = 0
    /\ answers = [t \in Threads |-> {}]

Goto(t, step) == pc' = [pc EXCEPT ![t] = step]
Return(t, x, y) ==
    /\ Goto(t, "ret")
    /\ result' = [result EXCEPT ![t] = <<x, y>>]

\* find_impl(x) begins; s says whose root it is.
StartFind(t, s, x) ==
    /\ side' = [side EXCEPT ![t] = s]
    /\ cur' = [cur EXCEPT ![t] = x]
    /\ Goto(t, "next")

-----------------------------------------------------------------------------
(* The lock: Buffer::with_access, re_init and clone *)

Call(t) ==
    /\ pc[t] = "idle"
    /\ ops[t] < MaxOps
    /\ ops' = [ops EXCEPT ![t] = @ + 1]
    /\ \E o \in Calls :
         /\ op' = [op EXCEPT ![t] = o]
         /\ l' = [l EXCEPT ![t] = o.l]
         /\ r' = [r EXCEPT ![t] = o.r]
         /\ Goto(t, IF o.kind = "reset" THEN "reset" ELSE "access")
    /\ UNCHANGED <<array, side, cur, nxt, grand, result, copy, history>>

Larger(x, y) == IF x >= y THEN x ELSE y

\* The length an operation needs.  Mutant: the greatest index.
NeedIndex(o) == IF o.kind = "deep_copy" THEN 0 ELSE Larger(o.l, o.r)
Need(o) == IF o.kind = "deep_copy" THEN 0 ELSE Larger(o.l, o.r) + 1

\* The shared lock is taken and the array is long enough: the operation starts.
Enter(t) ==
    /\ pc[t] = "access"
    /\ len >= Need(op[t])
    /\ answers' = [answers EXCEPT ![t] = {Answer(op[t], rep)}]
    /\ IF op[t].kind = "deep_copy"
       THEN Goto(t, "copy") /\ UNCHANGED <<side, cur>>
       ELSE StartFind(t, "l", op[t].l)
    /\ UNCHANGED <<array, op, l, r, nxt, grand, result, copy, ops, rep, links>>

\* It is too short: the shared lock is given up, and the exclusive one wanted.
TooShort(t) ==
    /\ pc[t] = "access"
    /\ len < Need(op[t])
    /\ Goto(t, "grow")
    /\ UNCHANGED <<array, locals, history>>

\* usize::next_power_of_two: the one power of two from n on and before 2n, as a set.
NextPowerOfTwo(n) == {p \in n .. 2 * n - 1 : \E k \in 0 .. n : p = 2 ^ k}

\* The elements from first on, before last, point to themselves.
Initialized(first, last) ==
    [i \in Id |-> IF first <= i /\ i < last THEN i ELSE parent[i]]

\* With the exclusive lock: grow the array, unless another thread has, and retry.
\* Mutant: all of the array is initialised again.
GrowFrom0(t) ==
    /\ pc[t] = "grow"
    /\ Readers = {}
    /\ IF len < Need(op[t])
       THEN /\ len' \in NextPowerOfTwo(Need(op[t]))
            /\ parent' = Initialized(0, len')
       ELSE UNCHANGED array
    /\ Goto(t, "access")
    /\ UNCHANGED <<locals, history>>
Grow(t) ==
    /\ pc[t] = "grow"
    /\ Readers = {}
    /\ IF len < Need(op[t])
       THEN /\ len' \in NextPowerOfTwo(Need(op[t]))
            /\ parent' = Initialized(len, len')
       ELSE UNCHANGED array
    /\ Goto(t, "access")
    /\ UNCHANGED <<locals, history>>

\* Mutant of Reset: under the shared lock.
ResetShared(t) ==
    /\ pc[t] = "reset"
    /\ parent' = Initialized(0, len)
    /\ rep' = [i \in Id |-> i]
    /\ links' = 0
    /\ Goto(t, "idle")
    /\ op' = [op EXCEPT ![t] = NoOp]
    /\ UNCHANGED <<len, l, r, side, cur, nxt, grand, result, copy, ops, answers>>

\* reset: with the exclusive lock, every element points to itself again.
Reset(t) ==
    /\ pc[t] = "reset"
    /\ Readers = {}
    /\ parent' = Initialized(0, len)
    /\ rep' = [i \in Id |-> i]
    /\ links' = 0
    /\ Goto(t, "idle")
    /\ op' = [op EXCEPT ![t] = NoOp]
    /\ UNCHANGED <<len, l, r, side, cur, nxt, grand, result, copy, ops, answers>>

\* The shared lock is released and the operation's locals are gone.
Finish(t) ==
    /\ pc[t] = "ret"
    /\ Goto(t, "idle")
    /\ op' = [op EXCEPT ![t] = NoOp]
    /\ l' = [l EXCEPT ![t] = 0] /\ r' = [r EXCEPT ![t] = 0]
    /\ side' = [side EXCEPT ![t] = "l"]
    /\ cur' = [cur EXCEPT ![t] = 0] /\ nxt' = [nxt EXCEPT ![t] = 0]
    /\ grand' = [grand EXCEPT ![t] = 0]
    /\ result' = [result EXCEPT ![t] = <<0, 0>>]
    /\ copy' = [copy EXCEPT ![t] = Unread]
    /\ answers' = [answers EXCEPT ![t] = {}]
    /\ UNCHANGED <<array, ops, rep, links>>

-----------------------------------------------------------------------------
(* find_impl *)

LoadNext(t) ==
    /\ pc[t] = "next"
    /\ nxt' = [nxt EXCEPT ![t] = parent[cur[t]]]
    /\ Goto(t, "grand")
    /\ UNCHANGED <<array, op, l, r, side, cur, grand, result, copy, ops, history>>

\* The loop goes on: next is not a root.
LoadGrand(t) ==
    /\ pc[t] = "grand"
    /\ parent[nxt[t]] # nxt[t]
    /\ grand' = [grand EXCEPT ![t] = parent[nxt[t]]]
    /\ Goto(t, "split")
    /\ UNCHANGED <<array, op, l, r, side, cur, nxt, result, copy, ops, history>>

\* Compare-and-swap of one element.
Swap(i, old, new) == IF parent[i] = old THEN [parent EXCEPT ![i] = new] ELSE parent

\* Path splitting; whether the swap succeeds is ignored.
Split(t) ==
    /\ pc[t] = "split"
    /\ parent' = Swap(cur[t], nxt[t], grand[t])
    /\ cur' = [cur EXCEPT ![t] = nxt[t]]
    /\ Goto(t, "next")
    /\ UNCHANGED <<len, op, l, r, side, nxt, grand, result, copy, ops, history>>

\* next is a root: find_impl returns it, here to find ...
Found(t, s) ==
    /\ pc[t] = "grand"
    /\ parent[nxt[t]] = nxt[t]
    /\ side[t] = s

FindReturns(t) ==
    /\ Found(t, "l") /\ op[t].kind = "find"
    /\ Return(t, nxt[t], nxt[t])
    /\ UNCHANGED <<array, op, l, r, side, cur, nxt, grand, copy, ops, history>>

\* ... here to the first of two calls ...
LeftFound(t) ==
    /\ Found(t, "l") /\ op[t].kind # "find"
    /\ l' = [l EXCEPT ![t] = nxt[t]]
    /\ StartFind(t, "r", r[t])
    /\ UNCHANGED <<array, op, r, nxt, grand, result, copy, ops, history>>

\* ... here to the second, and the roots are one.
SameRoot(t) ==
    /\ Found(t, "r") /\ nxt[t] = l[t]
    /\ r' = [r EXCEPT ![t] = nxt[t]]
    /\ IF op[t].kind = "merge" THEN Return(t, l[t], l[t]) ELSE Return(t, 1, 0)
    /\ UNCHANGED <<array, op, l, side, cur, nxt, grand, copy, ops, history>>

TwoRoots(t) ==
    /\ Found(t, "r") /\ nxt[t] # l[t]
    /\ r' = [r EXCEPT ![t] = nxt[t]]
    /\ Goto(t, IF op[t].kind = "merge" THEN "link" ELSE "recheck")
    /\ UNCHANGED <<array, op, l, side, cur, nxt, grand, result, copy, ops, history>>

-----------------------------------------------------------------------------
(* same_set, merge and deep_copy with both roots at hand *)

\* Mutant: whatever became of the first root.
StillRootUnchecked(t) ==
    /\ pc[t] = "recheck"
    /\ Return(t, 0, 0)
    /\ UNCHANGED <<array, op, l, r, side, cur, nxt, grand, copy, ops, history>>

\* same_set answers no only if the first root is a root still.
StillRoot(t) ==
    /\ pc[t] = "recheck"
    /\ parent[l[t]] = l[t]
    /\ Return(t, 0, 0)
    /\ UNCHANGED <<array, op, l, r, side, cur, nxt, grand, copy, ops, history>>

Recheck(t) ==
    /\ pc[t] = "recheck"
    /\ parent[l[t]] # l[t]
    /\ StartFind(t, "l", l[t])
    /\ UNCHANGED <<array, op, l, r, nxt, grand, result, copy, ops, history>>

LinkParent(t) == IF l[t] < r[t] THEN l[t] ELSE r[t]
LinkChild(t)  == Larger(l[t], r[t])

\* The partition once the classes of x and y are one.
Joined(p, x, y) ==
    [i \in Id |-> IF p[i] \in {p[x], p[y]}
                  THEN (IF p[x] < p[y] THEN p[x] ELSE p[y])
                  ELSE p[i]]

\* Mutant: both merges that raced for a child link it and report it.
LinkUnchecked(t) ==
    /\ pc[t] = "link"
    /\ parent' = [parent EXCEPT ![LinkChild(t)] = LinkParent(t)]
    /\ rep' = Joined(rep, op[t].l, op[t].r)
    /\ links' = links + 1
    /\ answers' = [u \in Threads |->
                     IF u \in Readers THEN answers[u] \cup {Answer(op[u], rep')}
                                      ELSE answers[u]]
    /\ Return(t, LinkParent(t), LinkChild(t))
    /\ UNCHANGED <<len, op, l, r, side, cur, nxt, grand, copy, ops>>

\* merge links the larger root below the smaller one ...
Link(t) ==
    /\ pc[t] = "link"
    /\ parent[LinkChild(t)] = LinkChild(t)
    /\ parent' = Swap(LinkChild(t), LinkChild(t), LinkParent(t))
    /\ rep' = Joined(rep, op[t].l, op[t].r)
    /\ links' = links + 1
    /\ answers' = [u \in Threads |->
                     IF u \in Readers THEN answers[u] \cup {Answer(op[u], rep')}
                                      ELSE answers[u]]
    /\ Return(t, LinkParent(t), LinkChild(t))
    /\ UNCHANGED <<len, op, l, r, side, cur, nxt, grand, copy, ops>>

\* ... or starts over from the roots it had, the child being no root any more.
\* Mutants: it returns as if it had linked; it tries the same swap again.
LinkFailsReturns(t) ==
    /\ pc[t] = "link"
    /\ parent[LinkChild(t)] # LinkChild(t)
    /\ Return(t, LinkParent(t), LinkChild(t))
    /\ UNCHANGED <<array, op, l, r, side, cur, nxt, grand, copy, ops, history>>
LinkFailsStuck(t) ==
    /\ pc[t] = "link"
    /\ parent[LinkChild(t)] # LinkChild(t)
    /\ Goto(t, "link")
    /\ UNCHANGED <<array, locals, history>>
LinkFails(t) ==
    /\ pc[t] = "link"
    /\ parent[LinkChild(t)] # LinkChild(t)
    /\ StartFind(t, "l", l[t])
    /\ UNCHANGED <<array, op, l, r, nxt, grand, result, copy, ops, history>>

\* deep_copy reads one element after the other.
Copy(t) ==
    /\ pc[t] = "copy"
    /\ IF cur[t] < len /\ cur[t] < MaxId
       THEN /\ copy' = [copy EXCEPT ![t] = [@ EXCEPT ![cur[t]] = parent[cur[t]]]]
            /\ cur' = [cur EXCEPT ![t] = @ + 1]
            /\ UNCHANGED <<pc, result>>
       ELSE Return(t, 0, 0) /\ UNCHANGED <<copy, cur>>
    /\ UNCHANGED <<array, op, l, r, side, nxt, grand, ops, history>>

-----------------------------------------------------------------------------
Step(t) ==
    \/ Enter(t) \/ TooShort(t) \/ Grow(t) \/ Reset(t) \/ Finish(t)
    \/ LoadNext(t) \/ LoadGrand(t) \/ Split(t)
    \/ FindReturns(t) \/ LeftFound(t) \/ SameRoot(t) \/ TwoRoots(t)
    \/ StillRoot(t) \/ Recheck(t) \/ Link(t) \/ LinkFails(t) \/ Copy(t)

Next == \E t \in Threads : Call(t) \/ Step(t)

Spec     == Init /\ [][Next]_vars
Fairness == \A t \in Threads : WF_vars(Step(t))
FairSpec == Spec /\ Fairness
(***************************************************************************)
(* Properties                                                               *)
(***************************************************************************)

\* The typing of the state, with the bounds of the array: whoever uses ids with
\* access to it finds them inside, however it grows.
TypeOK ==
    /\ \A t \in Threads : pc[t] \in Inside /\ op[t].kind # "deep_copy" =>
          op[t].l < len /\ op[t].r < len
    /\ parent \in [Id -> Id]
    /\ len \in Nat
    /\ pc \in [Threads -> Inside \cup {"idle", "access", "grow", "reset", "ret"}]
    /\ op \in [Threads -> Op]
    /\ l \in [Threads -> Id] /\ r \in [Threads -> Id]
    /\ side \in [Threads -> {"l", "r"}]
    /\ cur \in [Threads -> Nat]
    /\ \A t \in Threads : pc[t] \in {"next", "grand", "split"} => cur[t] \in Id
    /\ nxt \in [Threads -> Id] /\ grand \in [Threads -> Id]
    /\ result \in [Threads -> Id \X Id \cup {0, 1} \X {0}]
    /\ answers \in [Threads -> SUBSET (Id \X Id \cup {0, 1} \X {0})]
    /\ copy \in [Threads -> [Id -> Id]]
    /\ ops \in [Threads -> 0 .. MaxOps]
    /\ rep \in [Id -> Id]
    /\ links \in Nat

\* Splitting and linking race on the array and yet it always represents exactly
\* the merges done: a pointer stays within its class and goes down, and only the
\* least id of a class is a root.
ForestRepresents ==
    \A i \in Id : /\ rep[parent[i]] = rep[i]
                  /\ parent[i] <= i
                  /\ parent[i] = i <=> rep[i] = i

\* find and same_set are linearisable: what they return was right at some moment
\* between their getting access and their return.
ReadsLinearize ==
    \A t \in Threads : pc[t] = "ret" /\ op[t].kind \in {"find", "same_set"} =>
        result[t] \in answers[t]

\* merge leaves its arguments and both ids it returns in one class.
MergesUnite ==
    \A t \in Threads : pc[t] = "ret" /\ op[t].kind = "merge" =>
        /\ rep[op[t].l] = rep[op[t].r]
        /\ \A i \in 1 .. 2 : rep[result[t][i]] = rep[op[t].l]

\* Every displaced id is returned as a child exactly once: the classes left are
\* the ids less the merges that returned a child.
ChildrenReportedOnce ==
    Cardinality({rep[i] : i \in Id}) + links = MaxId

\* Whatever a deep copy read holds in the original: a copy taken during merges
\* invents no equality.  (It may miss one; see the README.)
CopySound ==
    \A t \in Threads : pc[t] \in Inside => \A i \in Id : rep[copy[t][i]] = rep[i]

\* Every operation returns: merging and looking for roots cannot go on forever,
\* and who waits for the exclusive lock gets it.
OperationsReturn == \A t \in Threads : pc[t] # "idle" ~> pc[t] = "idle"
=============================================================================
