---------------------------- MODULE MCApplication ----------------------------
(* Two places to click on; the depth camera sees the floor or a foot on it.  *)
EXTENDS Application

CONSTANTS left, right, floor, foot, noise
MCPoint == {left, right}
MCScene == {floor, foot}
=============================================================================
