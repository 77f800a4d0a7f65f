---------------------------- MODULE MCTelemetry ----------------------------
(* Instances of the telemetry pipeline; the cfg files give the bounds.     *)
EXTENDS Telemetry
=============================================================================
