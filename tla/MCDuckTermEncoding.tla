-------------------------- MODULE MCDuckTermEncoding --------------------------
(* Two leaves, one unary constructor: chains and cycles of applications.     *)
EXTENDS DuckTermEncoding

MCCtors == <<"F">>
MCArity == [f \in {"F"} |-> 1]
===============================================================================
