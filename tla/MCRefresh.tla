------------------------------- MODULE MCRefresh -------------------------------
(***************************************************************************)
(* Instances of RefreshRate for TLC: a game that may have rates of its own *)
(* and a reader that has none.                                             *)
(***************************************************************************)
EXTENDS RefreshRate

CONSTANTS game, reader

MCPkgs == {game, reader}
MCRates == {60, 90, 120}

Set(t, a, i) == [timeout |-> t, active |-> a, idle |-> i]
Conf(g, own) == [global |-> g, apps |-> [p \in MCPkgs |-> IF p = game THEN own ELSE None]]

\* Without and with rates for the game; without an idle rate.
Plain == Conf(Set(3, 120, 60), None)
WithGame == Conf(Set(3, 120, 60), Set(2, 90, 60))
NoIdle == Conf(Set(3, 120, 120), Set(2, 90, 60))

AllFiles == {Plain, WithGame, NoIdle}
PlainOnly == {Plain}
=============================================================================
