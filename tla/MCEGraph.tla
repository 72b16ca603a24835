------------------------------ MODULE MCEGraph ------------------------------
(* Small instances of EGraph: constants a, b, a unary function f, four rules. *)
EXTENDS EGraph

MCFns == {"a", "b", "f"}
MCArity == [f \in MCFns |-> IF f = "f" THEN 1 ELSE 0]
MCVars == {"x", "y"}

F(v, w)  == [fn |-> "f", args |-> <<v>>, out |-> w]
C(c, w)  == [fn |-> c, args |-> <<>>, out |-> w]
Rule(atoms, op, head) ==
    [seminaive |-> TRUE, atoms |-> atoms, op |-> op, head |-> head]

\* f(x) = y becomes f(y) = y
Idempotent == Rule(<<F("x", "y")>>, "rewrite", F("y", "y"))
\* a = x and f(x) = y: f(y) = x
Back       == Rule(<<C("a", "x"), F("x", "y")>>, "set", F("y", "x"))
\* f(x) = x is deleted
Forget     == Rule(<<F("x", "x")>>, "delete", F("x", "x"))
\* a = b is an error
Apart      == Rule(<<C("a", "x"), C("b", "x")>>, "panic", C("a", "x"))

MCRules == {Idempotent, Back, Forget, Apart}
MCRulesets == {{Idempotent, Back, Forget}, {Idempotent, Apart}}

MCBulk == {Fact("b", <<>>, 0), Fact("f", <<0>>, 1)}
=============================================================================
