------------------------ MODULE MCSortedWritesTable ------------------------
(* Instances of SortedWritesTable: three keys on two shards.               *)
EXTENDS SortedWritesTable

MCKeys == {<<1, 1>>, <<1, 2>>, <<2, 1>>}
MCShardOf == [k \in MCKeys |-> k[1]]

(* `:merge (min old new)`: one of its arguments, as in most programs.      *)
MCMin(v, w) == IF w < v THEN w ELSE v

(* Union of sets as bit masks, which is neither of its arguments.          *)
MCOr(v, w) == IF v = w THEN v ELSE 3

(* Besides the empty table, one that two insertions and a merge have filled, *)
(* so that two more mutations make it overwrite rows and rehash several.   *)
MCLoaded ==
  LET rows == <<[key |-> <<2, 1>>, val |-> 2, ts |-> 1], [key |-> <<1, 1>>, val |-> 2, ts |-> 1]>>
  IN  /\ data = [i \in 1..2 |-> Entry(rows[i])]
      /\ hash = (<<2, 1>> :> 1 @@ <<1, 1>> :> 2 @@ <<1, 2>> :> 0)
      /\ offsets = <<[ts |-> 1, first |-> 1]>>
      /\ staleRows = 0
      /\ generation = 0
      /\ queue = [s \in Shards |-> <<>>]
      /\ removals = {}
      /\ buffers = [w \in Writers |-> EmptyBuffer]
      /\ merge = Idle
      /\ index = [updated |-> FALSE, major |-> 0, minor |-> 0, entries |-> {}]
      /\ clock = 1
      /\ ops = 1
MCSpec == (Init \/ MCLoaded) /\ [][Next]_vars
=============================================================================
