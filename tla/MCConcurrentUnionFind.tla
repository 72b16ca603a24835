----------------------- MODULE MCConcurrentUnionFind -----------------------
(* Small instances of ConcurrentUnionFind.  The runs start from every forest   *)
(* merges can leave: linking the ids of a forest in decreasing order builds it. *)
EXTENDS ConcurrentUnionFind

MCThreads == {"t1", "t2"}

C(kind, x, y) == [kind |-> kind, l |-> x, r |-> y]
MCCalls ==
    {C("find", 3, 0), C("same_set", 2, 3), C("same_set", 3, 1),
     C("merge", 3, 2), C("merge", 1, 3), C("merge", 2, 1),
     C("reset", 0, 0), C("deep_copy", 0, 0)}

Forests == {p \in [Id -> Id] : \A i \in Id : p[i] <= i}

RECURSIVE RootIn(_, _)
RootIn(p, i) == IF p[i] = i THEN i ELSE RootIn(p, p[i])

MCInit ==
    \E p \in Forests :
        /\ parent = p
        /\ rep = [i \in Id |-> RootIn(p, i)]
        /\ links = Cardinality({i \in Id : p[i] # i})
        /\ \E n \in {InitLen, MaxId} :
             /\ len = n
             /\ \A i \in Id : i >= n => p[i] = i
        /\ pc = [t \in Threads |-> "idle"]
        /\ op = [t \in Threads |-> NoOp]
        /\ l = [t \in Threads |-> 0] /\ r = [t \in Threads |-> 0]
        /\ side = [t \in Threads |-> "l"]
        /\ cur = [t \in Threads |-> 0] /\ nxt = [t \in Threads |-> 0]
        /\ grand = [t \in Threads |-> 0]
        /\ result = [t \in Threads |-> <<0, 0>>]
        /\ copy = [t \in Threads |-> Unread]
        /\ ops = [t \in Threads |-> 0]
        /\ answers = [t \in Threads |-> {}]

MCSpec == MCInit /\ [][Next]_vars /\ Fairness
=============================================================================
