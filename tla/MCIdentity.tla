---------------------------- MODULE MCIdentity ----------------------------
(* Two processes, such as the daemon and pairing-code. *)
EXTENDS Identity

CONSTANTS agent, cli

MCProc == {agent, cli}
=============================================================================
