-------------------------- MODULE MCGameReplication --------------------------
(* Instances of GameReplication: one player with two units and an obstacle, *)
(* and two players with a unit each.                                        *)
EXTENDS GameReplication, TLC

CONSTANTS c1, c2
OnePlayer == {c1}
TwoPlayers == {c1, c2}
TwoUnitsAndObstacle == <<4, 4, 0>>
UnitEach == <<4, 5>>

\* Owner names player IDs, never clients: clients are interchangeable.
Symmetric == Permutations(TwoPlayers)
=============================================================================
