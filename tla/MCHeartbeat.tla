---------------------------- MODULE MCHeartbeat ----------------------------
(* Heartbeats with the interval of the code; the cfg gives the bounds.     *)
EXTENDS Heartbeat
=============================================================================
