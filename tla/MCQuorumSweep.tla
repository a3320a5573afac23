---------------------------- MODULE MCQuorumSweep ----------------------------
(* Four witnesses, one of which may be faulty, over a short line of instants *)
EXTENDS QuorumSweep

MCInstant == 0 .. 3
===============================================================================
