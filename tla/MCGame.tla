------------------------------- MODULE MCGame -------------------------------
(* Game on a floor of one lane: two sheep and a hunter, places 1 to 4 from   *)
(* the sheep's end, 4 the goal; units collide on the same place.             *)
EXTENDS Game

CONSTANTS s1, s2, h1
MCSheep == {s1, s2}
MCHunter == {h1}
MCPlace == 1..4
MCGoal == {4}
MCClose == {<<p, p>> : p \in MCPlace}
MCSpawn == [u \in MCSheep \cup MCHunter |-> IF u = h1 THEN 3 ELSE 1]
=============================================================================
