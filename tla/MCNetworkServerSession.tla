----------------------- MODULE MCNetworkServerSession -----------------------
(* NetworkServerSession on a small instance: two different messages, three  *)
(* calls of deliver, and sockets that hold less than two whole messages.    *)
EXTENDS NetworkServerSession

CONSTANTS m1, m2
MCMessage == {m1, m2}
=============================================================================
