---------------------------- MODULE MCPortLeases ----------------------------
(* PortLeases for TLC: two ports, and an instance that is started next to  *)
(* one of which everything is requested.                                   *)
EXTENDS PortLeases, TLC

CONSTANTS i1, i2

MCPort == 1..2

MCRequests == i1 :> {"restarting", "resetting", "stopping"} @@ i2 :> {}
=============================================================================
