--------------------- MODULE ConcurrentUnionFindProofs ---------------------
(***************************************************************************)
(* Proofs about ConcurrentUnionFind, for every set of threads, every number *)
(* of ids and every set of calls: the array represents the merges done, the *)
(* reads are linearisable, merges unite, copies are sound, and every child  *)
(* is reported once.                                                        *)
(***************************************************************************)
EXTENDS ConcurrentUnionFind, FiniteSetTheorems, TLAPS

(***************************************************************************)
(* Type correctness                                                         *)
(***************************************************************************)

\* Ids are numbers, and there is one.
LEMMA IdFacts ==
    /\ 0 \in Id /\ MaxId \in Nat
    /\ \A i \in Id : i \in Nat
    /\ \A i \in Nat : i \in Id <=> i < MaxId
BY UnionFindAssumption DEF Id

\* What an operation consists of.
LEMMA OpFacts ==
    ASSUME NEW o \in Op
    PROVE  /\ o.kind \in {"find", "same_set", "merge", "reset", "deep_copy"}
           /\ o.l \in Id /\ o.r \in Id
<1>1. CASE o \in [kind : {"same_set", "merge"}, l : Id, r : Id]
  BY <1>1
<1>2. CASE o \in [kind : {"find"}, l : Id, r : {0}]
  BY <1>2, IdFacts
<1>3. CASE o \in [kind : {"reset", "deep_copy"}, l : {0}, r : {0}]
  BY <1>3, IdFacts
<1> QED
  BY <1>1, <1>2, <1>3 DEF Op

\* An answer is a pair of ids, or of a truth value and 0.
LEMMA AnswerTyped ==
    ASSUME NEW o \in Op, NEW p \in [Id -> Id]
    PROVE  Answer(o, p) \in Id \X Id \cup {0, 1} \X {0}
BY OpFacts DEF Answer

\* The state is well typed, whatever the threads, the number of ids and the calls;
\* who has access to the array finds its arguments inside (Buffer::with_access).
THEOREM TypeCorrect == Spec => []TypeOK
<1>1. Init => TypeOK
  <2> SUFFICES ASSUME Init PROVE TypeOK
    OBVIOUS
  <2>1. NoOp \in Op /\ Unread \in [Id -> Id]
    BY IdFacts DEF NoOp, Op, Unread
  <2>2. <<0, 0>> \in Id \X Id
    BY IdFacts
  <2> QED
    BY <2>1, <2>2, IdFacts, UnionFindAssumption DEF Init, TypeOK, Inside
<1>2. TypeOK /\ [Next]_vars => TypeOK'
  <2> SUFFICES ASSUME TypeOK, [Next]_vars PROVE TypeOK'
    OBVIOUS
  <2> USE IdFacts DEF TypeOK, Goto, Inside, array, locals, history
  <2>1. ASSUME NEW t \in Threads, Call(t) PROVE TypeOK'
    <3>1. PICK o \in Calls : /\ op' = [op EXCEPT ![t] = o]
                             /\ l' = [l EXCEPT ![t] = o.l]
                             /\ r' = [r EXCEPT ![t] = o.r]
                             /\ Goto(t, IF o.kind = "reset" THEN "reset" ELSE "access")
      BY <2>1 DEF Call
    <3>2. o \in Op /\ o.l \in Id /\ o.r \in Id
      BY OpFacts, UnionFindAssumption
    <3>3. ops' \in [Threads -> 0 .. MaxOps]
      BY <2>1, UnionFindAssumption DEF Call
    <3> QED
      BY <2>1, <3>1, <3>2, <3>3 DEF Call
  <2>2. ASSUME NEW t \in Threads, Enter(t) PROVE TypeOK'
    <3>1. op[t] \in Op /\ op[t].l \in Id /\ op[t].r \in Id
      BY OpFacts
    <3>2. op[t].kind # "deep_copy" => op[t].l < len /\ op[t].r < len
      BY <2>2, <3>1 DEF Enter, Need, Larger
    <3>3. answers' \in [Threads -> SUBSET (Id \X Id \cup {0, 1} \X {0})]
      BY <2>2, <3>1, AnswerTyped DEF Enter
    <3>4. CASE op[t].kind = "deep_copy"
      BY <2>2, <3>1, <3>3, <3>4 DEF Enter
    <3>5. CASE op[t].kind # "deep_copy"
      <4>1. /\ pc' = [pc EXCEPT ![t] = "next"]
            /\ side' = [side EXCEPT ![t] = "l"]
            /\ cur' = [cur EXCEPT ![t] = op[t].l]
            /\ UNCHANGED <<parent, len, op, l, r, nxt, grand, result, copy, ops, rep, links>>
        BY <2>2, <3>5 DEF Enter, StartFind
      <4>2. op[t].l \in Id /\ op[t].l \in Nat
        BY <3>1, <3>2
      <4>3. cur' \in [Threads -> Nat] /\ \A u \in Threads : pc'[u] \in {"next", "grand", "split"} => cur'[u] \in Id
        BY <4>1, <4>2
      <4> QED
        BY <3>2, <3>3, <3>5, <4>1, <4>3
    <3> QED
      BY <3>4, <3>5
  <2>3. ASSUME NEW t \in Threads, TooShort(t) PROVE TypeOK'
    BY <2>3 DEF TooShort
  <2>4. ASSUME NEW t \in Threads, Grow(t) PROVE TypeOK'
    <3>1. parent' \in [Id -> Id]
      BY <2>4 DEF Grow, Initialized
    <3>2. op[t].l \in Nat /\ op[t].r \in Nat
      BY OpFacts
    <3>3. Need(op[t]) \in Nat
      BY <3>2 DEF Need, Larger
    <3>4. len' \in Nat
      BY <2>4, <3>3 DEF Grow, NextPowerOfTwo
    <3>5. \A u \in Threads : pc'[u] \notin Inside
      BY <2>4 DEF Grow, Readers
    <3> QED
      BY <2>4, <3>1, <3>4, <3>5 DEF Grow
  <2>5. ASSUME NEW t \in Threads, Reset(t) PROVE TypeOK'
    <3>1. NoOp \in Op
      BY DEF NoOp, Op
    <3> QED
      BY <2>5, <3>1 DEF Reset, Initialized, Readers
  <2>6. ASSUME NEW t \in Threads, Finish(t) PROVE TypeOK'
    <3>1. NoOp \in Op /\ Unread \in [Id -> Id]
      BY DEF NoOp, Op, Unread
    <3>2. <<0, 0>> \in Id \X Id
      OBVIOUS
    <3> QED
      BY <2>6, <3>1, <3>2 DEF Finish
  <2>7. ASSUME NEW t \in Threads, LoadNext(t) PROVE TypeOK'
    BY <2>7 DEF LoadNext
  <2>8. ASSUME NEW t \in Threads, LoadGrand(t) PROVE TypeOK'
    BY <2>8 DEF LoadGrand
  <2>9. ASSUME NEW t \in Threads, Split(t) PROVE TypeOK'
    BY <2>9 DEF Split, Swap
  <2>10. ASSUME NEW t \in Threads, FindReturns(t) PROVE TypeOK'
    BY <2>10 DEF FindReturns, Found, Return
  <2>11. ASSUME NEW t \in Threads, LeftFound(t) PROVE TypeOK'
    BY <2>11 DEF LeftFound, Found, StartFind
  <2>12. ASSUME NEW t \in Threads, SameRoot(t) PROVE TypeOK'
    <3>1. <<l[t], l[t]>> \in Id \X Id /\ <<1, 0>> \in {0, 1} \X {0}
      OBVIOUS
    <3>2. /\ pc' = [pc EXCEPT ![t] = "ret"] /\ r' = [r EXCEPT ![t] = nxt[t]]
          /\ \E x \in {<<l[t], l[t]>>, <<1, 0>>} : result' = [result EXCEPT ![t] = x]
      BY <2>12 DEF SameRoot, Return
    <3>3. result' \in [Threads -> Id \X Id \cup {0, 1} \X {0}]
      BY <3>1, <3>2
    <3> QED
      BY <2>12, <3>2, <3>3 DEF SameRoot, Found
  <2>13. ASSUME NEW t \in Threads, TwoRoots(t) PROVE TypeOK'
    BY <2>13 DEF TwoRoots, Found
  <2>14. ASSUME NEW t \in Threads, StillRoot(t) PROVE TypeOK'
    BY <2>14 DEF StillRoot, Return
  <2>15. ASSUME NEW t \in Threads, Recheck(t) PROVE TypeOK'
    BY <2>15 DEF Recheck, StartFind
  <2>16. ASSUME NEW t \in Threads, Link(t) PROVE TypeOK'
    <3>1. LinkParent(t) \in Id /\ LinkChild(t) \in Id
      BY DEF LinkParent, LinkChild, Larger
    <3>2. parent' \in [Id -> Id]
      BY <2>16, <3>1 DEF Link, Swap
    <3>3. op[t].l \in Id /\ op[t].r \in Id
      BY OpFacts
    <3>4. rep' \in [Id -> Id]
      BY <2>16, <3>3 DEF Link, Joined
    <3>5. ASSUME NEW u \in Threads PROVE op[u] \in Op
      OBVIOUS
    <3>6. \A u \in Threads : Answer(op[u], rep') \in Id \X Id \cup {0, 1} \X {0}
      BY <3>4, <3>5, AnswerTyped
    <3>7. answers' \in [Threads -> SUBSET (Id \X Id \cup {0, 1} \X {0})]
      BY <2>16, <3>6 DEF Link
    <3> QED
      BY <2>16, <3>1, <3>2, <3>4, <3>7 DEF Link, Return
  <2>17. ASSUME NEW t \in Threads, LinkFails(t) PROVE TypeOK'
    BY <2>17 DEF LinkFails, StartFind
  <2>18. ASSUME NEW t \in Threads, Copy(t) PROVE TypeOK'
    <3>1. CASE cur[t] < len /\ cur[t] < MaxId
      <4>1. cur[t] \in Id /\ cur[t] + 1 \in Nat
        BY <3>1
      <4>2. [copy[t] EXCEPT ![cur[t]] = parent[cur[t]]] \in [Id -> Id]
        BY <4>1
      <4>3. /\ copy' = [copy EXCEPT ![t] = [copy[t] EXCEPT ![cur[t]] = parent[cur[t]]]]
            /\ cur' = [cur EXCEPT ![t] = cur[t] + 1] /\ UNCHANGED <<pc, result>>
            /\ pc[t] = "copy"
        BY <2>18, <3>1 DEF Copy
      <4>4. copy' \in [Threads -> [Id -> Id]]
        BY <4>2, <4>3
      <4>5. cur' \in [Threads -> Nat]
        BY <4>1, <4>3
      <4>6. UNCHANGED <<array, op, l, r, side, nxt, grand, ops, history>>
        BY <2>18 DEF Copy
      <4> QED
        BY <4>3, <4>4, <4>5, <4>6
    <3>2. CASE ~(cur[t] < len /\ cur[t] < MaxId)
      <4>1. <<0, 0>> \in Id \X Id
        OBVIOUS
      <4>2. /\ result' = [result EXCEPT ![t] = <<0, 0>>] /\ pc' = [pc EXCEPT ![t] = "ret"]
            /\ pc[t] = "copy" /\ UNCHANGED <<copy, cur>>
        BY <2>18, <3>2 DEF Copy, Return
      <4>3. UNCHANGED <<array, op, l, r, side, nxt, grand, ops, history>>
        BY <2>18 DEF Copy
      <4> QED
        BY <4>1, <4>2, <4>3
    <3> QED
      BY <3>1, <3>2
  <2>19. CASE UNCHANGED vars
    BY <2>19 DEF vars
  <2> QED
    BY <2>1, <2>2, <2>3, <2>4, <2>5, <2>6, <2>7, <2>8, <2>9,
       <2>10, <2>11, <2>12, <2>13, <2>14, <2>15, <2>16, <2>17, <2>18, <2>19 DEF Next, Step
<1> QED
  BY <1>1, <1>2, PTL DEF Spec

(***************************************************************************)
(* The inductive invariant                                                  *)
(***************************************************************************)

\* find_impl is under way.
Finding(t) == pc[t] \in {"next", "grand", "split"}

\* The argument whose root find_impl is looking for.
Arg(t) == IF side[t] = "l" THEN op[t].l ELSE op[t].r

\* Which operations are at which step.
Stage(t) ==
    /\ Finding(t) => op[t].kind \in {"find", "same_set", "merge"}
    /\ Finding(t) /\ side[t] = "r" => op[t].kind # "find"
    /\ pc[t] = "link" => op[t].kind = "merge" /\ l[t] # r[t]
    /\ pc[t] = "recheck" => op[t].kind = "same_set"
    /\ pc[t] = "copy" => op[t].kind = "deep_copy"
    /\ pc[t] \in {"access", "grow"} =>
         op[t].kind # "reset" /\ l[t] = op[t].l /\ r[t] = op[t].r
    /\ pc[t] \notin Inside => copy[t] = Unread

\* What a thread holds is in the class of its argument, and no greater; what it
\* is about to split around is not a root, and stays none.
Near(t) ==
    pc[t] \in Inside /\ op[t].kind # "deep_copy" =>
       /\ rep[l[t]] = rep[op[t].l] /\ l[t] <= op[t].l
       /\ rep[r[t]] = rep[op[t].r] /\ r[t] <= op[t].r
       /\ Finding(t) => rep[cur[t]] = rep[Arg(t)] /\ cur[t] <= Arg(t)
       /\ pc[t] \in {"grand", "split"} => rep[nxt[t]] = rep[cur[t]] /\ nxt[t] <= cur[t]
       /\ pc[t] = "split" => /\ rep[grand[t]] = rep[nxt[t]]
                             /\ grand[t] < nxt[t]
                             /\ rep[nxt[t]] # nxt[t]

\* The answer of the moment is among those an operation may give; once same_set saw
\* two roots, "no" is one as long as the first root stays one.
Linear(t) ==
    /\ pc[t] \in Inside => Answer(op[t], rep) \in answers[t]
    /\ pc[t] = "recheck" /\ rep[l[t]] = l[t] => <<0, 0>> \in answers[t]
    /\ pc[t] = "ret" /\ op[t].kind \in {"find", "same_set"} => result[t] \in answers[t]

\* What merge returns and what deep_copy has read.
United(t) ==
    pc[t] = "ret" /\ op[t].kind = "merge" =>
        /\ rep[op[t].l] = rep[op[t].r]
        /\ result[t] \in Id \X Id
        /\ rep[result[t][1]] = rep[op[t].l] /\ rep[result[t][2]] = rep[op[t].l]
Copied(t) == pc[t] \in Inside => \A i \in Id : rep[copy[t][i]] = rep[i]

ThreadInv(t) == Stage(t) /\ Near(t) /\ Linear(t) /\ United(t) /\ Copied(t)

\* The representatives are the least ids of their classes, and the ids past the end
\* of the array are roots.
RepInv ==
    /\ \A i \in Id : rep[rep[i]] = rep[i] /\ rep[i] <= i
    /\ \A i \in Id : i >= len => parent[i] = i

UnionInv == RepInv /\ ForestRepresents /\ \A t \in Threads : ThreadInv(t)

-----------------------------------------------------------------------------
(* Steps that leave the representatives alone *)

\* A step that changes neither the representatives nor what other threads hold keeps
\* what is known of the other threads.
LEMMA OthersKeep ==
    ASSUME NEW u \in Threads, ThreadInv(u), UNCHANGED rep,
           pc'[u] = pc[u], op'[u] = op[u], l'[u] = l[u], r'[u] = r[u], side'[u] = side[u],
           cur'[u] = cur[u], nxt'[u] = nxt[u], grand'[u] = grand[u],
           result'[u] = result[u], copy'[u] = copy[u], answers'[u] = answers[u]
    PROVE  ThreadInv(u)'
<1>1. Stage(u)' /\ Near(u)'
  BY DEF ThreadInv, Stage, Near, Finding, Arg
<1>2. Linear(u)' /\ United(u)' /\ Copied(u)'
  BY DEF ThreadInv, Linear, United, Copied, Answer
<1> QED
  BY <1>1, <1>2 DEF ThreadInv

\* A step of t on its own variables need only be looked at in t.
LEMMA LocalStep ==
    ASSUME TypeOK, UnionInv, NEW t \in Threads, UNCHANGED <<parent, len, rep>>, ThreadInv(t)',
           \A u \in Threads \ {t} :
              /\ pc'[u] = pc[u] /\ op'[u] = op[u] /\ l'[u] = l[u] /\ r'[u] = r[u]
              /\ side'[u] = side[u] /\ cur'[u] = cur[u] /\ nxt'[u] = nxt[u]
              /\ grand'[u] = grand[u] /\ result'[u] = result[u] /\ copy'[u] = copy[u]
              /\ answers'[u] = answers[u]
    PROVE  UnionInv'
<1>1. RepInv' /\ ForestRepresents'
  BY DEF UnionInv, RepInv, ForestRepresents
<1>2. ASSUME NEW u \in Threads \ {t} PROVE ThreadInv(u)'
  BY <1>2, OthersKeep DEF UnionInv
<1> QED
  BY <1>1, <1>2 DEF UnionInv

\* An operation begins, without access to the array yet.
LEMMA KeepsCall ==
    ASSUME TypeOK, UnionInv, NEW t \in Threads, Call(t)
    PROVE  UnionInv'
<1> USE IdFacts DEF Goto, Call, array, locals, history
<1>1. RepInv /\ ForestRepresents /\ Stage(t) /\ Near(t) /\ Linear(t) /\ United(t) /\ Copied(t)
  BY DEF UnionInv, ThreadInv
<1>2. op[t].kind \in {"find", "same_set", "merge", "reset", "deep_copy"} /\ op[t].l \in Id /\ op[t].r \in Id
  BY OpFacts DEF TypeOK
<1>3. Stage(t)'
  BY <1>1, <1>2 DEF TypeOK, Stage, Finding, Inside
<1>4. Near(t)'
  BY <1>1, <1>2 DEF TypeOK, Stage, Near, Finding, Arg, Inside, ForestRepresents
<1>5. Linear(t)'
  BY <1>1, <1>2 DEF TypeOK, Stage, Near, Finding, Arg, Linear, Answer, Inside, ForestRepresents
<1>6. United(t)'
  BY <1>1, <1>2 DEF TypeOK, Stage, Near, Finding, Arg, United, Inside
<1>7. Copied(t)'
  BY <1>1, <1>2 DEF TypeOK, Stage, Copied, Inside, ForestRepresents
<1> QED
  BY <1>3, <1>4, <1>5, <1>6, <1>7, LocalStep DEF ThreadInv, TypeOK

\* With access, find_impl starts at the first argument.
LEMMA KeepsEnter ==
    ASSUME TypeOK, UnionInv, NEW t \in Threads, Enter(t)
    PROVE  UnionInv'
<1> USE IdFacts DEF Goto, Enter, StartFind, array, locals, history
<1>1. RepInv /\ ForestRepresents /\ Stage(t) /\ Near(t) /\ Linear(t) /\ United(t) /\ Copied(t)
  BY DEF UnionInv, ThreadInv
<1>2. op[t].kind \in {"find", "same_set", "merge", "reset", "deep_copy"} /\ op[t].l \in Id /\ op[t].r \in Id
  BY OpFacts DEF TypeOK
<1>3. Stage(t)'
  BY <1>1, <1>2 DEF TypeOK, Stage, Finding, Inside
<1>4. Near(t)'
  BY <1>1, <1>2 DEF TypeOK, Stage, Near, Finding, Arg, Inside, ForestRepresents
<1>5. Linear(t)'
  BY <1>1, <1>2 DEF TypeOK, Linear, Answer, Inside
<1>6. United(t)'
  BY <1>1, <1>2 DEF TypeOK, Stage, Near, Finding, Arg, United, Inside
<1>7. Copied(t)'
  BY <1>1, <1>2 DEF TypeOK, Stage, Copied, Inside, Unread
<1> QED
  BY <1>3, <1>4, <1>5, <1>6, <1>7, LocalStep DEF ThreadInv, TypeOK

\* An operation finds the array too short.
LEMMA KeepsTooShort ==
    ASSUME TypeOK, UnionInv, NEW t \in Threads, TooShort(t)
    PROVE  UnionInv'
<1> USE IdFacts DEF Goto, TooShort, array, locals, history
<1>1. RepInv /\ ForestRepresents /\ Stage(t) /\ Near(t) /\ Linear(t) /\ United(t) /\ Copied(t)
  BY DEF UnionInv, ThreadInv
<1>2. op[t].kind \in {"find", "same_set", "merge", "reset", "deep_copy"} /\ op[t].l \in Id /\ op[t].r \in Id
  BY OpFacts DEF TypeOK
<1>3. Stage(t)'
  BY <1>1, <1>2 DEF TypeOK, Stage, Finding, Inside
<1>4. Near(t)'
  BY <1>1, <1>2 DEF TypeOK, Stage, Near, Finding, Arg, Inside, ForestRepresents
<1>5. Linear(t)'
  BY <1>1, <1>2 DEF TypeOK, Stage, Near, Finding, Arg, Linear, Answer, Inside, ForestRepresents
<1>6. United(t)'
  BY <1>1, <1>2 DEF TypeOK, Stage, Near, Finding, Arg, United, Inside
<1>7. Copied(t)'
  BY <1>1, <1>2 DEF TypeOK, Stage, Copied, Inside, ForestRepresents
<1> QED
  BY <1>3, <1>4, <1>5, <1>6, <1>7, LocalStep DEF ThreadInv, TypeOK

\* An operation returns.
LEMMA KeepsFinish ==
    ASSUME TypeOK, UnionInv, NEW t \in Threads, Finish(t)
    PROVE  UnionInv'
<1> USE IdFacts DEF Goto, Finish, array, locals, history
<1>1. RepInv /\ ForestRepresents /\ Stage(t) /\ Near(t) /\ Linear(t) /\ United(t) /\ Copied(t)
  BY DEF UnionInv, ThreadInv
<1>2. op[t].kind \in {"find", "same_set", "merge", "reset", "deep_copy"} /\ op[t].l \in Id /\ op[t].r \in Id
  BY OpFacts DEF TypeOK
<1>3. Stage(t)'
  BY <1>1, <1>2 DEF TypeOK, Stage, Finding, Inside
<1>4. Near(t)'
  BY <1>1, <1>2 DEF TypeOK, Stage, Near, Finding, Arg, Inside, ForestRepresents
<1>5. Linear(t)'
  BY <1>1, <1>2 DEF TypeOK, Stage, Near, Finding, Arg, Linear, Answer, Inside, ForestRepresents
<1>6. United(t)'
  BY <1>1, <1>2 DEF TypeOK, Stage, Near, Finding, Arg, United, Inside
<1>7. Copied(t)'
  BY <1>1, <1>2 DEF TypeOK, Stage, Copied, Inside, ForestRepresents
<1> QED
  BY <1>3, <1>4, <1>5, <1>6, <1>7, LocalStep DEF ThreadInv, TypeOK

\* A parent is in the class of its child, and no greater.
LEMMA KeepsLoadNext ==
    ASSUME TypeOK, UnionInv, NEW t \in Threads, LoadNext(t)
    PROVE  UnionInv'
<1> USE IdFacts DEF Goto, LoadNext, array, locals, history
<1>1. RepInv /\ ForestRepresents /\ Stage(t) /\ Near(t) /\ Linear(t) /\ United(t) /\ Copied(t)
  BY DEF UnionInv, ThreadInv
<1>2. op[t].kind \in {"find", "same_set", "merge", "reset", "deep_copy"} /\ op[t].l \in Id /\ op[t].r \in Id
  BY OpFacts DEF TypeOK
<1>3. Stage(t)'
  BY <1>1, <1>2 DEF TypeOK, Stage, Finding, Inside
<1>4. Near(t)'
  BY <1>1, <1>2 DEF TypeOK, Stage, Near, Finding, Arg, Inside, ForestRepresents
<1>5. Linear(t)'
  BY <1>1, <1>2 DEF TypeOK, Stage, Near, Finding, Arg, Linear, Answer, Inside, ForestRepresents
<1>6. United(t)'
  BY <1>1, <1>2 DEF TypeOK, Stage, Near, Finding, Arg, United, Inside
<1>7. Copied(t)'
  BY <1>1, <1>2 DEF TypeOK, Stage, Copied, Inside, ForestRepresents
<1> QED
  BY <1>3, <1>4, <1>5, <1>6, <1>7, LocalStep DEF ThreadInv, TypeOK

\* A parent that is another id is less, and its child is no root.
LEMMA KeepsLoadGrand ==
    ASSUME TypeOK, UnionInv, NEW t \in Threads, LoadGrand(t)
    PROVE  UnionInv'
<1> USE IdFacts DEF Goto, LoadGrand, array, locals, history
<1>1. RepInv /\ ForestRepresents /\ Stage(t) /\ Near(t) /\ Linear(t) /\ United(t) /\ Copied(t)
  BY DEF UnionInv, ThreadInv
<1>2. op[t].kind \in {"find", "same_set", "merge", "reset", "deep_copy"} /\ op[t].l \in Id /\ op[t].r \in Id
  BY OpFacts DEF TypeOK
<1>3. Stage(t)'
  BY <1>1, <1>2 DEF TypeOK, Stage, Finding, Inside
<1>4. Near(t)'
  <2>1. nxt[t] \in Id /\ parent[nxt[t]] \in Id
    BY DEF TypeOK
  <2>2. /\ rep[parent[nxt[t]]] = rep[nxt[t]] /\ parent[nxt[t]] < nxt[t]
        /\ rep[nxt[t]] # nxt[t]
    BY <1>1, <2>1 DEF ForestRepresents
  <2>3. grand'[t] = parent[nxt[t]] /\ pc[t] = "grand" /\ pc'[t] = "split"
    BY DEF TypeOK
  <2> QED
    BY <1>1, <2>2, <2>3 DEF TypeOK, Near, Finding, Arg, Inside
<1>5. Linear(t)'
  BY <1>1, <1>2 DEF TypeOK, Stage, Near, Finding, Arg, Linear, Answer, Inside, ForestRepresents
<1>6. United(t)'
  BY <1>1, <1>2 DEF TypeOK, Stage, Near, Finding, Arg, United, Inside
<1>7. Copied(t)'
  BY <1>1, <1>2 DEF TypeOK, Stage, Copied, Inside, ForestRepresents
<1> QED
  BY <1>3, <1>4, <1>5, <1>6, <1>7, LocalStep DEF ThreadInv, TypeOK

\* The root find returns is the representative of its argument.
LEMMA KeepsFindReturns ==
    ASSUME TypeOK, UnionInv, NEW t \in Threads, FindReturns(t)
    PROVE  UnionInv'
<1> USE IdFacts DEF Goto, FindReturns, Found, Return, array, locals, history
<1>1. RepInv /\ ForestRepresents /\ Stage(t) /\ Near(t) /\ Linear(t) /\ United(t) /\ Copied(t)
  BY DEF UnionInv, ThreadInv
<1>2. op[t].kind \in {"find", "same_set", "merge", "reset", "deep_copy"} /\ op[t].l \in Id /\ op[t].r \in Id
  BY OpFacts DEF TypeOK
<1>3. Stage(t)'
  BY <1>1, <1>2 DEF TypeOK, Stage, Finding, Inside
<1>4. Near(t)'
  BY <1>1, <1>2 DEF TypeOK, Stage, Near, Finding, Arg, Inside, ForestRepresents
<1>5. Linear(t)'
  BY <1>1, <1>2 DEF TypeOK, Stage, Near, Finding, Arg, Linear, Answer, Inside, ForestRepresents
<1>6. United(t)'
  BY <1>1, <1>2 DEF TypeOK, Stage, Near, Finding, Arg, United, Inside
<1>7. Copied(t)'
  BY <1>1, <1>2 DEF TypeOK, Stage, Copied, Inside, ForestRepresents
<1> QED
  BY <1>3, <1>4, <1>5, <1>6, <1>7, LocalStep DEF ThreadInv, TypeOK

\* The first root is in the class of the first argument.
LEMMA KeepsLeftFound ==
    ASSUME TypeOK, UnionInv, NEW t \in Threads, LeftFound(t)
    PROVE  UnionInv'
<1> USE IdFacts DEF Goto, LeftFound, Found, StartFind, array, locals, history
<1>1. RepInv /\ ForestRepresents /\ Stage(t) /\ Near(t) /\ Linear(t) /\ United(t) /\ Copied(t)
  BY DEF UnionInv, ThreadInv
<1>2. op[t].kind \in {"find", "same_set", "merge", "reset", "deep_copy"} /\ op[t].l \in Id /\ op[t].r \in Id
  BY OpFacts DEF TypeOK
<1>3. Stage(t)'
  BY <1>1, <1>2 DEF TypeOK, Stage, Finding, Inside
<1>4. Near(t)'
  BY <1>1, <1>2 DEF TypeOK, Stage, Near, Finding, Arg, Inside, ForestRepresents
<1>5. Linear(t)'
  BY <1>1, <1>2 DEF TypeOK, Stage, Near, Finding, Arg, Linear, Answer, Inside, ForestRepresents
<1>6. United(t)'
  BY <1>1, <1>2 DEF TypeOK, Stage, Near, Finding, Arg, United, Inside
<1>7. Copied(t)'
  BY <1>1, <1>2 DEF TypeOK, Stage, Copied, Inside, ForestRepresents
<1> QED
  BY <1>3, <1>4, <1>5, <1>6, <1>7, LocalStep DEF ThreadInv, TypeOK

\* One root for both arguments: they are in one class now.
LEMMA KeepsSameRoot ==
    ASSUME TypeOK, UnionInv, NEW t \in Threads, SameRoot(t)
    PROVE  UnionInv'
<1> USE IdFacts DEF Goto, SameRoot, Found, Return, array, locals, history
<1>1. RepInv /\ ForestRepresents /\ Stage(t) /\ Near(t) /\ Linear(t) /\ United(t) /\ Copied(t)
  BY DEF UnionInv, ThreadInv
<1>2. op[t].kind \in {"find", "same_set", "merge", "reset", "deep_copy"} /\ op[t].l \in Id /\ op[t].r \in Id
  BY OpFacts DEF TypeOK
<1>3. Stage(t)'
  BY <1>1, <1>2 DEF TypeOK, Stage, Finding, Inside
<1>4. Near(t)'
  BY <1>1, <1>2 DEF TypeOK, Stage, Near, Finding, Arg, Inside, ForestRepresents
<1>5. Linear(t)'
  <2>1. Finding(t) /\ side[t] = "r" /\ pc[t] \in Inside
    BY DEF Finding, Inside
  <2>2. op[t].kind \in {"same_set", "merge"}
    BY <1>1, <2>1 DEF Stage
  <2>3. rep[op[t].l] = rep[op[t].r]
    BY <1>1, <2>1, <2>2 DEF Near, Arg
  <2>4. CASE op[t].kind = "same_set"
    <3>1. Answer(op[t], rep) = <<1, 0>>
      BY <2>3, <2>4 DEF Answer
    <3>2. result'[t] = <<1, 0>> /\ pc'[t] = "ret"
      BY <2>4 DEF TypeOK
    <3> QED
      BY <1>1, <2>1, <3>1, <3>2 DEF Linear
  <2>5. CASE op[t].kind = "merge"
    BY <1>1, <2>1, <2>5 DEF Linear, TypeOK
  <2> QED
    BY <2>2, <2>4, <2>5
<1>6. United(t)'
  BY <1>1, <1>2 DEF TypeOK, Stage, Near, Finding, Arg, United, Inside
<1>7. Copied(t)'
  BY <1>1, <1>2 DEF TypeOK, Stage, Copied, Inside, ForestRepresents
<1> QED
  BY <1>3, <1>4, <1>5, <1>6, <1>7, LocalStep DEF ThreadInv, TypeOK

\* Two roots: if the first is one still, the arguments are in two classes.
LEMMA KeepsTwoRoots ==
    ASSUME TypeOK, UnionInv, NEW t \in Threads, TwoRoots(t)
    PROVE  UnionInv'
<1> USE IdFacts DEF Goto, TwoRoots, Found, array, locals, history
<1>1. RepInv /\ ForestRepresents /\ Stage(t) /\ Near(t) /\ Linear(t) /\ United(t) /\ Copied(t)
  BY DEF UnionInv, ThreadInv
<1>2. op[t].kind \in {"find", "same_set", "merge", "reset", "deep_copy"} /\ op[t].l \in Id /\ op[t].r \in Id
  BY OpFacts DEF TypeOK
<1>3. Stage(t)'
  BY <1>1, <1>2 DEF TypeOK, Stage, Finding, Inside
<1>4. Near(t)'
  BY <1>1, <1>2 DEF TypeOK, Stage, Near, Finding, Arg, Inside, ForestRepresents
<1>5. Linear(t)'
  BY <1>1, <1>2 DEF TypeOK, Stage, Near, Finding, Arg, Linear, Answer, Inside, ForestRepresents
<1>6. United(t)'
  BY <1>1, <1>2 DEF TypeOK, Stage, Near, Finding, Arg, United, Inside
<1>7. Copied(t)'
  BY <1>1, <1>2 DEF TypeOK, Stage, Copied, Inside, ForestRepresents
<1> QED
  BY <1>3, <1>4, <1>5, <1>6, <1>7, LocalStep DEF ThreadInv, TypeOK

\* same_set may answer no if the first root is one still.
LEMMA KeepsStillRoot ==
    ASSUME TypeOK, UnionInv, NEW t \in Threads, StillRoot(t)
    PROVE  UnionInv'
<1> USE IdFacts DEF Goto, StillRoot, Return, array, locals, history
<1>1. RepInv /\ ForestRepresents /\ Stage(t) /\ Near(t) /\ Linear(t) /\ United(t) /\ Copied(t)
  BY DEF UnionInv, ThreadInv
<1>2. op[t].kind \in {"find", "same_set", "merge", "reset", "deep_copy"} /\ op[t].l \in Id /\ op[t].r \in Id
  BY OpFacts DEF TypeOK
<1>3. Stage(t)'
  BY <1>1, <1>2 DEF TypeOK, Stage, Finding, Inside
<1>4. Near(t)'
  BY <1>1, <1>2 DEF TypeOK, Stage, Near, Finding, Arg, Inside, ForestRepresents
<1>5. Linear(t)'
  BY <1>1, <1>2 DEF TypeOK, Stage, Near, Finding, Arg, Linear, Answer, Inside, ForestRepresents
<1>6. United(t)'
  BY <1>1, <1>2 DEF TypeOK, Stage, Near, Finding, Arg, United, Inside
<1>7. Copied(t)'
  BY <1>1, <1>2 DEF TypeOK, Stage, Copied, Inside, ForestRepresents
<1> QED
  BY <1>3, <1>4, <1>5, <1>6, <1>7, LocalStep DEF ThreadInv, TypeOK

\* same_set starts over from the first root it had.
LEMMA KeepsRecheck ==
    ASSUME TypeOK, UnionInv, NEW t \in Threads, Recheck(t)
    PROVE  UnionInv'
<1> USE IdFacts DEF Goto, Recheck, StartFind, array, locals, history
<1>1. RepInv /\ ForestRepresents /\ Stage(t) /\ Near(t) /\ Linear(t) /\ United(t) /\ Copied(t)
  BY DEF UnionInv, ThreadInv
<1>2. op[t].kind \in {"find", "same_set", "merge", "reset", "deep_copy"} /\ op[t].l \in Id /\ op[t].r \in Id
  BY OpFacts DEF TypeOK
<1>3. Stage(t)'
  BY <1>1, <1>2 DEF TypeOK, Stage, Finding, Inside
<1>4. Near(t)'
  BY <1>1, <1>2 DEF TypeOK, Stage, Near, Finding, Arg, Inside, ForestRepresents
<1>5. Linear(t)'
  BY <1>1, <1>2 DEF TypeOK, Stage, Near, Finding, Arg, Linear, Answer, Inside, ForestRepresents
<1>6. United(t)'
  BY <1>1, <1>2 DEF TypeOK, Stage, Near, Finding, Arg, United, Inside
<1>7. Copied(t)'
  BY <1>1, <1>2 DEF TypeOK, Stage, Copied, Inside, ForestRepresents
<1> QED
  BY <1>3, <1>4, <1>5, <1>6, <1>7, LocalStep DEF ThreadInv, TypeOK

\* merge starts over from the first root it had.
LEMMA KeepsLinkFails ==
    ASSUME TypeOK, UnionInv, NEW t \in Threads, LinkFails(t)
    PROVE  UnionInv'
<1> USE IdFacts DEF Goto, LinkFails, StartFind, array, locals, history
<1>1. RepInv /\ ForestRepresents /\ Stage(t) /\ Near(t) /\ Linear(t) /\ United(t) /\ Copied(t)
  BY DEF UnionInv, ThreadInv
<1>2. op[t].kind \in {"find", "same_set", "merge", "reset", "deep_copy"} /\ op[t].l \in Id /\ op[t].r \in Id
  BY OpFacts DEF TypeOK
<1>3. Stage(t)'
  BY <1>1, <1>2 DEF TypeOK, Stage, Finding, Inside
<1>4. Near(t)'
  BY <1>1, <1>2 DEF TypeOK, Stage, Near, Finding, Arg, Inside, ForestRepresents
<1>5. Linear(t)'
  BY <1>1, <1>2 DEF TypeOK, Stage, Near, Finding, Arg, Linear, Answer, Inside, ForestRepresents
<1>6. United(t)'
  BY <1>1, <1>2 DEF TypeOK, Stage, Near, Finding, Arg, United, Inside
<1>7. Copied(t)'
  BY <1>1, <1>2 DEF TypeOK, Stage, Copied, Inside, ForestRepresents
<1> QED
  BY <1>3, <1>4, <1>5, <1>6, <1>7, LocalStep DEF ThreadInv, TypeOK

\* deep_copy reads a parent, which is in the class of its child.
LEMMA KeepsCopy ==
    ASSUME TypeOK, UnionInv, NEW t \in Threads, Copy(t)
    PROVE  UnionInv'
<1> USE IdFacts DEF Goto, Copy, Return, array, locals, history
<1>1. RepInv /\ ForestRepresents /\ Stage(t) /\ Near(t) /\ Linear(t) /\ United(t) /\ Copied(t)
  BY DEF UnionInv, ThreadInv
<1>2. op[t].kind \in {"find", "same_set", "merge", "reset", "deep_copy"} /\ op[t].l \in Id /\ op[t].r \in Id
  BY OpFacts DEF TypeOK
<1>3. Stage(t)'
  BY <1>1, <1>2 DEF TypeOK, Stage, Finding, Inside
<1>4. Near(t)'
  BY <1>1, <1>2 DEF TypeOK, Stage, Near, Finding, Arg, Inside, ForestRepresents
<1>5. Linear(t)'
  BY <1>1, <1>2 DEF TypeOK, Stage, Near, Finding, Arg, Linear, Answer, Inside, ForestRepresents
<1>6. United(t)'
  BY <1>1, <1>2 DEF TypeOK, Stage, Near, Finding, Arg, United, Inside
<1>7. Copied(t)'
  <2>1. CASE cur[t] < len /\ cur[t] < MaxId
    <3>1. cur[t] \in Id /\ copy'[t] = [copy[t] EXCEPT ![cur[t]] = parent[cur[t]]]
      BY <2>1 DEF TypeOK
    <3>2. copy[t] \in [Id -> Id]
      BY DEF TypeOK
    <3>3. pc[t] \in Inside
      BY DEF Inside
    <3> QED
      BY <1>1, <3>1, <3>2, <3>3 DEF Copied, ForestRepresents
  <2>2. CASE ~(cur[t] < len /\ cur[t] < MaxId)
    BY <1>1, <2>2 DEF Copied, Inside
  <2> QED
    BY <2>1, <2>2
<1> QED
  BY <1>3, <1>4, <1>5, <1>6, <1>7, LocalStep DEF ThreadInv, TypeOK

-----------------------------------------------------------------------------
(* Steps on the array *)

\* Splitting a path: if the swap succeeds then the element was no root and its new
\* parent is in its class, below it (find_impl).
LEMMA KeepsSplit ==
    ASSUME TypeOK, UnionInv, NEW t \in Threads, Split(t)
    PROVE  UnionInv'
<1> USE IdFacts
<1>1. RepInv /\ ForestRepresents /\ Stage(t) /\ Near(t) /\ Linear(t) /\ United(t) /\ Copied(t)
  BY DEF UnionInv, ThreadInv
<1>2. /\ pc[t] = "split" /\ pc' = [pc EXCEPT ![t] = "next"] /\ cur' = [cur EXCEPT ![t] = nxt[t]]
      /\ parent' = Swap(cur[t], nxt[t], grand[t])
      /\ UNCHANGED <<len, op, l, r, side, nxt, grand, result, copy, ops, rep, links, answers>>
  BY DEF Split, Goto, history
<1>3. /\ op[t].kind # "deep_copy" /\ op[t].l \in Id /\ op[t].r \in Id
      /\ cur[t] \in Id /\ nxt[t] \in Id /\ grand[t] \in Id
  BY <1>1, <1>2, OpFacts DEF TypeOK, Stage, Finding
<1>4. /\ rep[nxt[t]] = rep[cur[t]] /\ nxt[t] <= cur[t] /\ rep[grand[t]] = rep[nxt[t]]
      /\ grand[t] < nxt[t] /\ rep[nxt[t]] # nxt[t] /\ rep[cur[t]] = rep[Arg(t)] /\ cur[t] <= Arg(t)
  BY <1>1, <1>2, <1>3 DEF Near, Inside, Finding
<1>5. ASSUME parent[cur[t]] = nxt[t] PROVE RepInv' /\ ForestRepresents'
  <2>1. parent' = [parent EXCEPT ![cur[t]] = grand[t]]
    BY <1>2, <1>5 DEF Swap
  <2>2. rep[cur[t]] # cur[t] /\ cur[t] < len
    BY <1>1, <1>3, <1>4, <1>5 DEF ForestRepresents, RepInv, TypeOK
  <2>3. ForestRepresents'
    BY <1>1, <1>2, <1>3, <1>4, <2>1, <2>2 DEF ForestRepresents, TypeOK
  <2> QED
    BY <1>1, <1>2, <1>3, <2>1, <2>2, <2>3 DEF RepInv, TypeOK
<1>6. ASSUME parent[cur[t]] # nxt[t] PROVE RepInv' /\ ForestRepresents'
  BY <1>1, <1>2, <1>6 DEF Swap, RepInv, ForestRepresents
<1>7. ThreadInv(t)'
  <2>1. Stage(t)' /\ Linear(t)' /\ United(t)' /\ Copied(t)'
    BY <1>1, <1>2 DEF Stage, Linear, United, Copied, Finding, Inside, TypeOK, Answer
  <2>2. Near(t)'
    <3>1. Arg(t) \in Nat /\ Arg(t)' = Arg(t)
      BY <1>2, <1>3 DEF Arg
    <3>2. nxt[t] <= Arg(t) /\ rep[nxt[t]] = rep[Arg(t)]
      BY <1>3, <1>4, <3>1
    <3>3. pc'[t] = "next" /\ cur'[t] = nxt[t]
      BY <1>2 DEF TypeOK
    <3> QED
      BY <1>1, <1>2, <1>3, <3>1, <3>2, <3>3 DEF Near, Finding, Inside
  <2> QED
    BY <2>1, <2>2 DEF ThreadInv
<1>8. ASSUME NEW u \in Threads \ {t} PROVE ThreadInv(u)'
  <2>1. pc'[u] = pc[u] /\ cur'[u] = cur[u]
    BY <1>2 DEF TypeOK
  <2> QED
    BY <1>2, <2>1, OthersKeep DEF UnionInv
<1> QED
  BY <1>5, <1>6, <1>7, <1>8 DEF UnionInv

\* Growing: the new elements were roots by definition, and become so in the array
\* (Buffer::with_access).
LEMMA KeepsGrow ==
    ASSUME TypeOK, UnionInv, NEW t \in Threads, Grow(t)
    PROVE  UnionInv'
<1> USE IdFacts
<1>1. RepInv /\ ForestRepresents
  BY DEF UnionInv
<1>2. /\ pc[t] = "grow" /\ pc' = [pc EXCEPT ![t] = "access"]
      /\ UNCHANGED <<op, l, r, side, cur, nxt, grand, result, copy, ops, rep, links, answers>>
  BY DEF Grow, Goto, locals, history
<1>3. UNCHANGED parent /\ len' \in Nat /\ len <= len'
  <2>1. CASE len < Need(op[t])
    <3>1. op[t].l \in Nat /\ op[t].r \in Nat
      BY OpFacts DEF TypeOK
    <3>2. Need(op[t]) \in Nat
      BY <3>1 DEF Need, Larger
    <3>3. len' \in Nat /\ len' >= Need(op[t]) /\ len \in Nat
      BY <2>1, <3>2 DEF Grow, NextPowerOfTwo, TypeOK
    <3>4. parent' = Initialized(len, len')
      BY <2>1 DEF Grow
    <3>5. parent' = [i \in Id |-> parent[i]]
      BY <1>1, <3>3, <3>4 DEF Initialized, RepInv
    <3> QED
      BY <2>1, <3>2, <3>3, <3>5 DEF TypeOK
  <2>2. CASE ~(len < Need(op[t]))
    BY <2>2 DEF Grow, array, TypeOK
  <2> QED
    BY <2>1, <2>2
<1>4. RepInv' /\ ForestRepresents'
  <2>1. \A i \in Id : i >= len' => i >= len
    BY <1>3 DEF TypeOK
  <2> QED
    BY <1>1, <1>2, <1>3, <2>1 DEF RepInv, ForestRepresents
<1>5. ThreadInv(t)'
  BY <1>2 DEF UnionInv, ThreadInv, Stage, Near, Linear, United, Copied, Finding, Inside, TypeOK
<1>6. ASSUME NEW u \in Threads \ {t} PROVE ThreadInv(u)'
  <2>1. pc'[u] = pc[u]
    BY <1>2 DEF TypeOK
  <2> QED
    BY <1>2, <2>1, OthersKeep DEF UnionInv
<1> QED
  BY <1>4, <1>5, <1>6 DEF UnionInv

\* Resetting: nobody has access, and every class falls apart (Buffer::re_init).
LEMMA KeepsReset ==
    ASSUME TypeOK, UnionInv, NEW t \in Threads, Reset(t)
    PROVE  UnionInv'
<1> USE IdFacts
<1>1. /\ pc[t] = "reset" /\ pc' = [pc EXCEPT ![t] = "idle"] /\ op' = [op EXCEPT ![t] = NoOp]
      /\ parent' = Initialized(0, len) /\ rep' = [i \in Id |-> i]
      /\ UNCHANGED <<len, l, r, side, cur, nxt, grand, result, copy>>
  BY DEF Reset, Goto
<1>2. \A u \in Threads : pc[u] \notin Inside
  BY DEF Reset, Readers
<1>3. \A i \in Id : parent'[i] = i
  <2>1. \A i \in Id : parent[i] # i => i < len
    BY DEF UnionInv, RepInv, TypeOK
  <2> QED
    BY <1>1, <2>1 DEF Initialized, TypeOK
<1>4. RepInv' /\ ForestRepresents'
  BY <1>1, <1>3 DEF RepInv, ForestRepresents
<1>5. ASSUME NEW u \in Threads PROVE ThreadInv(u)'
  <2>1. Stage(u) /\ pc[u] \notin Inside /\ copy[u] = Unread
    BY <1>2 DEF UnionInv, ThreadInv, Stage
  <2>2. pc'[u] \notin Inside /\ (u # t => pc'[u] = pc[u] /\ op'[u] = op[u]) /\ (u = t => pc'[u] = "idle")
    BY <1>1, <2>1 DEF TypeOK, Inside
  <2>3. Stage(u)'
    BY <1>1, <2>1, <2>2 DEF Stage, Finding, Inside
  <2>4. Near(u)' /\ Linear(u)' /\ United(u)' /\ Copied(u)'
    BY <2>2 DEF Near, Linear, United, Copied, Inside
  <2> QED
    BY <2>3, <2>4 DEF ThreadInv
<1> QED
  BY <1>4, <1>5 DEF UnionInv

\* What a link does to the representatives: the class of the child, which was a root,
\* gets the representative of the parent's (merge).
LEMMA Linked ==
    ASSUME TypeOK, UnionInv, NEW t \in Threads, Link(t),
           NEW c, c = LinkChild(t), NEW p, p = LinkParent(t)
    PROVE  /\ c \in Id /\ p \in Id /\ p < c /\ c < len /\ {c, p} = {l[t], r[t]}
           /\ rep[c] = c /\ rep[p] \in Id /\ rep[p] < c
           /\ parent' = [parent EXCEPT ![c] = p]
           /\ rep' = [i \in Id |-> IF rep[i] = c THEN rep[p] ELSE rep[i]]
           /\ {rep[op[t].l], rep[op[t].r]} = {c, rep[p]}
<1> USE IdFacts
<1>1. RepInv /\ ForestRepresents /\ Stage(t) /\ Near(t)
  BY DEF UnionInv, ThreadInv
<1>2. /\ pc[t] = "link" /\ parent[c] = c /\ parent' = Swap(c, c, p)
      /\ rep' = Joined(rep, op[t].l, op[t].r)
  BY DEF Link
<1>3. /\ op[t].kind = "merge" /\ l[t] # r[t] /\ l[t] \in Id /\ r[t] \in Id
      /\ op[t].l \in Id /\ op[t].r \in Id /\ op[t].l < len /\ op[t].r < len /\ len \in Nat
  BY <1>1, <1>2, OpFacts DEF Stage, TypeOK, Inside
<1>4. /\ rep[l[t]] = rep[op[t].l] /\ l[t] <= op[t].l
      /\ rep[r[t]] = rep[op[t].r] /\ r[t] <= op[t].r
  BY <1>1, <1>2, <1>3 DEF Near, Inside
<1>5. (c = l[t] /\ p = r[t] /\ r[t] < l[t]) \/ (c = r[t] /\ p = l[t] /\ l[t] < r[t])
  BY <1>3 DEF LinkChild, LinkParent, Larger
<1>6. c \in Id /\ p \in Id /\ p < c /\ c < len /\ {c, p} = {l[t], r[t]}
  BY <1>3, <1>4, <1>5
<1>7. rep[c] = c /\ rep[p] \in Id /\ rep[p] < c
  BY <1>1, <1>2, <1>6 DEF ForestRepresents, RepInv, TypeOK
<1>8. parent' = [parent EXCEPT ![c] = p]
  BY <1>2 DEF Swap
<1>9. /\ {rep[op[t].l], rep[op[t].r]} = {c, rep[p]}
      /\ (IF rep[op[t].l] < rep[op[t].r] THEN rep[op[t].l] ELSE rep[op[t].r]) = rep[p]
  <2>1. rep[p] \in Nat /\ c \in Nat /\ ~(c < rep[p])
    BY <1>6, <1>7
  <2>2. CASE c = l[t] /\ p = r[t]
    BY <1>4, <1>7, <2>1, <2>2
  <2>3. CASE c = r[t] /\ p = l[t]
    BY <1>4, <1>7, <2>1, <2>3
  <2> QED
    BY <1>5, <2>2, <2>3
<1>10. rep' = [i \in Id |-> IF rep[i] \in {c, rep[p]} THEN rep[p] ELSE rep[i]]
  BY <1>2, <1>9 DEF Joined
<1>11. rep' = [i \in Id |-> IF rep[i] = c THEN rep[p] ELSE rep[i]]
  BY <1>10
<1> QED
  BY <1>6, <1>7, <1>8, <1>9, <1>11

\* A link joins two classes and changes nothing else: equal ids stay equal, and what
\* is a root afterwards was one before.
LEMMA KeepsLink ==
    ASSUME TypeOK, UnionInv, NEW t \in Threads, Link(t)
    PROVE  UnionInv'
<1> USE IdFacts
<1> DEFINE c == LinkChild(t)
           p == LinkParent(t)
<1>1. /\ c \in Id /\ p \in Id /\ p < c /\ c < len /\ {c, p} = {l[t], r[t]}
      /\ rep[c] = c /\ rep[p] \in Id /\ rep[p] < c
      /\ parent' = [parent EXCEPT ![c] = p]
      /\ rep' = [i \in Id |-> IF rep[i] = c THEN rep[p] ELSE rep[i]]
      /\ {rep[op[t].l], rep[op[t].r]} = {c, rep[p]}
  BY Linked
<1>2. /\ pc[t] = "link" /\ pc' = [pc EXCEPT ![t] = "ret"] /\ result' = [result EXCEPT ![t] = <<p, c>>]
      /\ UNCHANGED <<len, op, l, r, side, cur, nxt, grand, copy>>
      /\ \A u \in Threads : pc[u] \in Inside => answers'[u] = answers[u] \cup {Answer(op[u], rep')}
  BY DEF Link, Return, Goto, Readers
<1> HIDE DEF c, p
<1>3. RepInv /\ ForestRepresents /\ rep \in [Id -> Id] /\ parent \in [Id -> Id]
  BY DEF UnionInv, TypeOK
<1>4. /\ \A i, j \in Id : rep[i] = rep[j] => rep'[i] = rep'[j]
      /\ \A i \in Id : rep'[i] = i => rep[i] = i
  BY <1>1, <1>3 DEF RepInv
<1>5. RepInv'
  <2>1. \A i \in Id : rep'[i] <= i /\ rep'[i] \in Id
    BY <1>1, <1>3 DEF RepInv
  <2>2. \A i \in Id : rep'[rep[p]] = rep[p] /\ (rep[i] # c => rep'[rep[i]] = rep[i])
    BY <1>1, <1>3 DEF RepInv
  <2>3. \A i \in Id : rep'[rep'[i]] = rep'[i]
    BY <1>1, <2>2
  <2>4. \A i \in Id : i >= len => i # c /\ parent'[i] = i
    BY <1>1, <1>3 DEF RepInv, TypeOK
  <2> QED
    BY <1>2, <2>1, <2>3, <2>4 DEF RepInv
<1>6. ForestRepresents'
  <2> SUFFICES ASSUME NEW i \in Id
               PROVE  /\ rep'[parent'[i]] = rep'[i] /\ parent'[i] <= i
                      /\ parent'[i] = i <=> rep'[i] = i
    BY DEF ForestRepresents
  <2>1. CASE i = c
    BY <1>1, <1>3, <2>1 DEF RepInv
  <2>2. CASE i # c
    <3>1. parent'[i] = parent[i] /\ parent[i] \in Id
      BY <1>1, <1>3, <2>2
    <3>2. rep[parent[i]] = rep[i] /\ parent[i] <= i /\ (parent[i] = i <=> rep[i] = i)
      BY <1>3 DEF ForestRepresents
    <3>3. rep'[parent[i]] = rep'[i]
      BY <1>4, <3>1, <3>2
    <3>4. rep'[i] = i <=> rep[i] = i
      BY <1>1, <1>4, <2>2
    <3> QED
      BY <3>1, <3>2, <3>3, <3>4
  <2> QED
    BY <2>1, <2>2
<1>7. \A u \in Threads : ThreadInv(u) /\ op[u].l \in Id /\ op[u].r \in Id
                         /\ l[u] \in Id /\ r[u] \in Id /\ nxt[u] \in Id /\ grand[u] \in Id
                         /\ (Finding(u) => cur[u] \in Id /\ Arg(u) \in Id)
  BY OpFacts DEF UnionInv, TypeOK, Finding, Arg
<1>8. ThreadInv(t)'
  <2>1. Stage(t) /\ Near(t) /\ Copied(t) /\ op[t].kind = "merge" /\ pc[t] \in Inside /\ pc'[t] = "ret"
    BY <1>2, <1>7 DEF ThreadInv, Stage, Inside, TypeOK
  <2>2. Stage(t)'
    BY <1>2, <2>1 DEF Stage, Finding, Inside
  <2>3. Near(t)'
    BY <1>2, <1>4, <1>7, <2>1 DEF Near, Finding
  <2>4. Linear(t)'
    BY <1>2, <2>1 DEF Linear
  <2>5. United(t)'
    <3>1. rep'[op[t].l] = rep[p] /\ rep'[op[t].r] = rep[p] /\ rep'[c] = rep[p] /\ rep'[p] = rep[p]
      BY <1>1, <1>7
    <3>2. result'[t] = <<p, c>> /\ <<p, c>> \in Id \X Id
      BY <1>1, <1>2 DEF TypeOK
    <3> QED
      BY <1>2, <3>1, <3>2 DEF United
  <2>6. Copied(t)'
    <3>1. copy[t] \in [Id -> Id]
      BY DEF TypeOK
    <3> QED
      BY <1>2, <1>4, <2>1, <3>1 DEF Copied
  <2> QED
    BY <2>2, <2>3, <2>4, <2>5, <2>6 DEF ThreadInv
<1>9. ASSUME NEW u \in Threads \ {t} PROVE ThreadInv(u)'
  <2>1. pc'[u] = pc[u] /\ result'[u] = result[u] /\ copy[u] \in [Id -> Id]
    BY <1>2 DEF TypeOK
  <2>2. Stage(u) /\ Near(u) /\ Linear(u) /\ United(u) /\ Copied(u)
    BY <1>7 DEF ThreadInv
  <2>3. Stage(u)'
    BY <1>2, <2>1, <2>2 DEF Stage, Finding
  <2>4. Near(u)'
    <3>1. Arg(u)' = Arg(u) /\ (Finding(u)' <=> Finding(u))
      BY <1>2, <2>1 DEF Arg, Finding
    <3> QED
      BY <1>2, <1>4, <1>7, <2>1, <2>2, <3>1 DEF Near, Finding
  <2>5. Linear(u)'
    <3>1. pc[u] \in Inside => answers'[u] = answers[u] \cup {Answer(op[u], rep')}
      BY <1>2
    <3>2. pc'[u] \in Inside => Answer(op[u], rep)' \in answers'[u]
      BY <1>2, <2>1, <3>1 DEF Answer
    <3> QED
      BY <1>2, <1>4, <1>7, <2>1, <2>2, <3>1, <3>2 DEF Linear, Inside
  <2>6. United(u)'
    BY <1>2, <1>4, <1>7, <2>1, <2>2 DEF United
  <2>7. Copied(u)'
    BY <1>2, <1>4, <2>1, <2>2 DEF Copied
  <2> QED
    BY <2>3, <2>4, <2>5, <2>6, <2>7 DEF ThreadInv
<1> QED
  BY <1>5, <1>6, <1>8, <1>9 DEF UnionInv

-----------------------------------------------------------------------------
(* What follows *)

\* The invariant holds in every reachable state.
LEMMA UnionInvHolds == Spec => []UnionInv
<1>1. Init => UnionInv
  <2> SUFFICES ASSUME Init PROVE UnionInv
    OBVIOUS
  <2>1. RepInv /\ ForestRepresents
    BY IdFacts DEF Init, RepInv, ForestRepresents
  <2>2. ASSUME NEW t \in Threads PROVE ThreadInv(t)
    BY DEF Init, ThreadInv, Stage, Near, Linear, United, Copied, Finding, Inside
  <2> QED
    BY <2>1, <2>2 DEF UnionInv
<1>2. TypeOK /\ UnionInv /\ [Next]_vars => UnionInv'
  <2> SUFFICES ASSUME TypeOK, UnionInv, [Next]_vars PROVE UnionInv'
    OBVIOUS
  <2>1. CASE Next
    BY <2>1, KeepsCall, KeepsEnter, KeepsTooShort, KeepsGrow, KeepsReset, KeepsFinish,
       KeepsLoadNext, KeepsLoadGrand, KeepsSplit, KeepsFindReturns, KeepsLeftFound,
       KeepsSameRoot, KeepsTwoRoots, KeepsStillRoot, KeepsRecheck, KeepsLink,
       KeepsLinkFails, KeepsCopy DEF Next, Step
  <2>2. CASE UNCHANGED vars
    <3>1. ASSUME NEW t \in Threads PROVE ThreadInv(t)'
      BY <2>2, OthersKeep DEF vars, array, locals, history, UnionInv
    <3> QED
      BY <2>2, <3>1 DEF vars, array, history, UnionInv, RepInv, ForestRepresents
  <2> QED
    BY <2>1, <2>2
<1> QED
  BY <1>1, <1>2, TypeCorrect, PTL DEF Spec

\* Whatever threads split and link at once, the array represents exactly the merges
\* done (ConcurrentUnionFind::merge, find_impl, Buffer::with_access, re_init).
THEOREM ArrayRepresents == Spec => []ForestRepresents
<1>1. UnionInv => ForestRepresents
  BY DEF UnionInv
<1> QED
  BY <1>1, UnionInvHolds, PTL

\* find and same_set return what was right at a moment between getting access and
\* returning.
THEOREM ReadsAreLinearizable == Spec => []ReadsLinearize
<1>1. UnionInv => ReadsLinearize
  BY DEF UnionInv, ThreadInv, Linear, ReadsLinearize
<1> QED
  BY <1>1, UnionInvHolds, PTL

\* merge leaves its arguments and both ids it returns in one class.
THEOREM MergeUnites == Spec => []MergesUnite
<1>1. UnionInv => MergesUnite
  <2> SUFFICES ASSUME UnionInv, NEW t \in Threads, pc[t] = "ret", op[t].kind = "merge"
               PROVE  /\ rep[op[t].l] = rep[op[t].r]
                      /\ \A i \in 1 .. 2 : rep[result[t][i]] = rep[op[t].l]
    BY DEF MergesUnite
  <2>1. /\ rep[op[t].l] = rep[op[t].r]
        /\ rep[result[t][1]] = rep[op[t].l] /\ rep[result[t][2]] = rep[op[t].l]
    BY DEF UnionInv, ThreadInv, United
  <2>2. \A i \in 1 .. 2 : i = 1 \/ i = 2
    OBVIOUS
  <2> QED
    BY <2>1, <2>2
<1> QED
  BY <1>1, UnionInvHolds, PTL

\* A deep copy taken while merges go on invents no equality.
THEOREM CopiesAreSound == Spec => []CopySound
<1>1. UnionInv => CopySound
  BY DEF UnionInv, ThreadInv, Copied, CopySound
<1> QED
  BY <1>1, UnionInvHolds, PTL

-----------------------------------------------------------------------------
(* Every child is reported once *)

\* The representatives are ids, so there are finitely many.
LEMMA ClassesFinite ==
    ASSUME TypeOK
    PROVE  /\ IsFiniteSet(Id) /\ Cardinality(Id) = MaxId
           /\ IsFiniteSet({rep[i] : i \in Id})
           /\ Cardinality({rep[i] : i \in Id}) \in Nat
<1>1. 0 \in Int /\ MaxId - 1 \in Int /\ MaxId \in Nat /\ MaxId >= 1
  BY UnionFindAssumption
<1>2. IsFiniteSet(Id) /\ Cardinality(Id) = MaxId
  BY <1>1, FS_Interval DEF Id
<1>3. {rep[i] : i \in Id} \subseteq Id
  BY DEF TypeOK
<1>4. IsFiniteSet({rep[i] : i \in Id})
  BY <1>2, <1>3, FS_Subset
<1> QED
  BY <1>2, <1>4, FS_CardinalityType

\* A link takes exactly one representative away, the child that merge reports.
LEMMA LinkCounts ==
    ASSUME TypeOK, UnionInv, ChildrenReportedOnce, NEW t \in Threads, Link(t)
    PROVE  ChildrenReportedOnce'
<1> USE IdFacts
<1> DEFINE c == LinkChild(t)
           p == LinkParent(t)
           Reps == {rep[i] : i \in Id}
<1>1. /\ c \in Id /\ p \in Id
      /\ rep[c] = c /\ rep[p] \in Id /\ rep[p] < c
      /\ rep' = [i \in Id |-> IF rep[i] = c THEN rep[p] ELSE rep[i]]
  BY Linked
<1>2. links' = links + 1 /\ links \in Nat /\ rep \in [Id -> Id]
  BY DEF Link, TypeOK
<1> HIDE DEF c, p
<1>3. c \in Reps /\ Reps' = Reps \ {c}
  <2>1. c \in Reps
    BY <1>1
  <2>2. \A i \in Id : rep'[i] \in Reps \ {c}
    BY <1>1, <1>2
  <2>3. \A i \in Id : rep[i] # c => rep'[i] = rep[i]
    BY <1>1
  <2> QED
    BY <2>1, <2>2, <2>3
<1>4. IsFiniteSet(Reps) /\ Cardinality(Reps) \in Nat
  BY ClassesFinite
<1>5. Cardinality(Reps \ {c}) = Cardinality(Reps) - 1
  BY <1>3, <1>4, FS_RemoveElement
<1>6. Cardinality(Reps) + links = MaxId /\ (ChildrenReportedOnce' <=> Cardinality(Reps') + links' = MaxId)
  BY DEF ChildrenReportedOnce
<1> HIDE DEF Reps
<1>7. Cardinality(Reps') = Cardinality(Reps) - 1
  BY <1>3, <1>5
<1> QED
  BY <1>2, <1>4, <1>6, <1>7

\* Every id that merge displaces is returned as a child by exactly one merge: the
\* classes left are the ids less the merges that returned a child.
THEOREM ChildrenAreReportedOnce == Spec => []ChildrenReportedOnce
<1>1. TypeOK /\ rep = [i \in Id |-> i] /\ links = 0 => ChildrenReportedOnce
  <2> SUFFICES ASSUME TypeOK, rep = [i \in Id |-> i], links = 0 PROVE ChildrenReportedOnce
    OBVIOUS
  <2>1. {rep[i] : i \in Id} = Id
    OBVIOUS
  <2> QED
    BY <2>1, ClassesFinite, IdFacts DEF ChildrenReportedOnce
<1>2. Init => rep = [i \in Id |-> i] /\ links = 0
  BY DEF Init
<1>3. TypeOK /\ TypeOK' /\ UnionInv /\ ChildrenReportedOnce /\ [Next]_vars => ChildrenReportedOnce'
  <2> SUFFICES ASSUME TypeOK, TypeOK', UnionInv, ChildrenReportedOnce, [Next]_vars
               PROVE  ChildrenReportedOnce'
    OBVIOUS
  <2>1. ASSUME NEW t \in Threads, Link(t) PROVE ChildrenReportedOnce'
    BY <2>1, LinkCounts
  <2>2. ASSUME NEW t \in Threads, Reset(t) PROVE ChildrenReportedOnce'
    <3>1. rep' = [i \in Id |-> i] /\ links' = 0
      BY <2>2 DEF Reset
    <3>2. (TypeOK /\ rep = [i \in Id |-> i] /\ links = 0 => ChildrenReportedOnce)'
      BY <1>1, PTL
    <3> QED
      BY <3>1, <3>2
  <2>3. ASSUME UNCHANGED <<rep, links>> PROVE ChildrenReportedOnce'
    BY <2>3 DEF ChildrenReportedOnce
  <2>4. ASSUME NEW t \in Threads,
               \/ Call(t) \/ Enter(t) \/ TooShort(t) \/ Grow(t) \/ Finish(t)
               \/ LoadNext(t) \/ LoadGrand(t) \/ Split(t)
               \/ FindReturns(t) \/ LeftFound(t) \/ SameRoot(t) \/ TwoRoots(t)
               \/ StillRoot(t) \/ Recheck(t) \/ LinkFails(t) \/ Copy(t)
        PROVE  UNCHANGED <<rep, links>>
    BY <2>4 DEF Call, Enter, TooShort, Grow, Finish, LoadNext, LoadGrand, Split, FindReturns,
       LeftFound, SameRoot, TwoRoots, StillRoot, Recheck, LinkFails, Copy, history
  <2>5. CASE UNCHANGED vars
    BY <2>3, <2>5 DEF vars, history
  <2> QED
    BY <2>1, <2>2, <2>3, <2>4, <2>5 DEF Next, Step
<1> QED
  BY <1>1, <1>2, <1>3, TypeCorrect, UnionInvHolds, PTL DEF Spec
=============================================================================
