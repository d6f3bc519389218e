----------------------------- MODULE MCMqttLink -----------------------------
(***************************************************************************)
(* A small instance of MqttLink for TLC.                                   *)
(***************************************************************************)
EXTENDS MqttLink, TLC

=============================================================================
