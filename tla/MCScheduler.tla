----------------------------- MODULE MCScheduler -----------------------------
(* Two rules over four facts: "join" has up to three matches, two of them     *)
(* with the same tuple, so that it is banned twice before its limit suffices; *)
(* what each rule inserts can make the other one match.                       *)
EXTENDS Scheduler, TLC

MCMatch ==
  {<<"join", "a", "x">>, <<"join", "b", "x">>, <<"join", "c", "y">>,
   <<"step", "c", "u">>, <<"step", "d", "v">>}
MCEffect ==
  <<"join", "x">> :> {"c"} @@ <<"join", "y">> :> {"d"}
    @@ <<"step", "u">> :> {"d"} @@ <<"step", "v">> :> {"b"}
MCRulesets == {<<"join", "step">>, <<"join">>, <<"step">>}
(* A limit that is reached twice; bans without length; no match ever chosen.  *)
MCDoubling == {[limit |-> 1, ban |-> 2]}
MCConfigs == MCDoubling \cup {[limit |-> 1, ban |-> 0], [limit |-> 0, ban |-> 1]}
=============================================================================
