----------------------------- MODULE MCGameUnit -----------------------------
(* GameUnit with the code's numbers divided by four, on the column x = 240 of *)
(* levels 2 and 3; half pixels, frames of 50 and of 150 milliseconds.         *)
EXTENDS GameUnit

MCObstacle(c, r) == [centre |-> c, radius |-> r]
MCColumns == {<<MCObstacle(60, 12)>>,
              <<MCObstacle(0, 19), MCObstacle(120, 19),
                MCObstacle(20, 15), MCObstacle(100, 15)>>}
MCAccelerations == {-500, 0, 500}
MCFrames == {1, 3}
=============================================================================
