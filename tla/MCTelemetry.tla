---------------------------- MODULE MCTelemetry -----------------------------
(* Instances of Telemetry for TLC.                                           *)
EXTENDS Telemetry
CONSTANTS h1, h2

TwoHandlers == {h1, h2}
=============================================================================
