---------------------------- MODULE MCCommands ----------------------------
(* Up to two commands; the first is encrypted, the second plain.           *)
EXTENDS Commands

CONSTANTS c1, c2

OneCommand == {c1}
TwoCommands == {c1, c2}
MCEncrypted == {c1}
MCTransports == {"mqtt", "redis"}
MqttOnly == {"mqtt"}
=============================================================================
