----------------------------- MODULE MCMqttBridge -----------------------------
(* MqttBridge for TLC: the constants of the code are given in the .cfg files. *)
EXTENDS MqttBridge
=============================================================================
