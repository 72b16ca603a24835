------------------------------ MODULE Congruence ------------------------------
(* Rows of constructor applications and the congruences over their ids.      *)
EXTENDS Integers, Sequences, FiniteSets, FiniteSetsExt, SequencesExt

CONSTANTS
  MaxId,  \* bound: ids are 1..MaxId
  Leaves, \* the ids that exist from the start, 1..n
  Ctors,  \* constructors, in the order of their declaration
  Arity   \* constructor -> how many arguments it takes

Ids == 1..MaxId
Names == Range(Ctors)

ASSUME CongruenceAssumption ==
  /\ MaxId \in Nat \ {0}
  /\ \E n \in 0..MaxId : Leaves = 1..n
  /\ Ctors \in Seq(Names)
  /\ Arity \in [Names -> Nat]

\* A row of a constructor: its arguments, then the id of the application.
Row(args, id) == Append(args, id)
Args(row) == Front(row)
Class(row) == Last(row)
Renamed(l, ids) == [k \in DOMAIN ids |-> l[ids[k]]]
Canonical(l, rows) == [f \in Names |-> {Renamed(l, row) : row \in rows[f]}]

\* The ids that l makes equal by congruence.
Congruent(l, rows) ==
    UNION {{<<Class(p[1]), Class(p[2])>> :
              p \in {p \in rows[f] \X rows[f] : Renamed(l, Args(p[1])) = Renamed(l, Args(p[2]))}} :
           f \in Names}

(* The least congruence that contains the pairs, as a map from an id to the  *)
(* least id of its class: every round but the last removes a label.          *)
Round(l, pairs, rows) ==
    LET equated == {<<l[p[1]], l[p[2]]>> : p \in pairs \cup Congruent(l, rows)}
        near(x) == {x} \cup {e[1] : e \in {e \in equated : e[2] = x}}
                       \cup {e[2] : e \in {e \in equated : e[1] = x}}
    IN  [i \in Ids |-> Min(near(l[i]))]

Closure(pairs, rows) ==
    LET label[n \in 0..(MaxId - 1)] ==
          IF n = 0 THEN [i \in Ids |-> i] ELSE Round(label[n - 1], pairs, rows)
    IN  label[MaxId - 1]
===============================================================================
