----------------------------- MODULE MCPairing -----------------------------
(* The credential of one device with a few keys, runs of pairing-code and  *)
(* faults.                                                                 *)
EXTENDS Pairing
=============================================================================
