-------------------------- MODULE MCDisplacedTable --------------------------
(* Instances of DisplacedTable.                                             *)
EXTENDS DisplacedTable

MCIds == 0..3
=============================================================================
