---------------------------- MODULE MCMqttClient ----------------------------
(* MqttClient for TLC: the restricted behaviours that some runs look at.   *)
EXTENDS MqttClient

(* Nobody restores the defaults: the configuration only changes through    *)
(* accepted or refused POSTs, and by loading flash at boot.                *)
ConfiguredSpec == Init /\ [][Next /\ ~RestoreDefaults]_vars
=============================================================================
