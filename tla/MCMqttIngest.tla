--------------------------- MODULE MCMqttIngest ----------------------------
(* Small instances of MqttIngest.  The order of the limits is that of the  *)
(* code: per second < burst, and a pause after an error within a breach    *)
(* window.                                                                 *)
EXTENDS MqttIngest, TLC

CONSTANTS n1

ASSUME OrderOfLimits == PerSecMax < BurstMax /\ ErrorRetrySec <= BreachSec
=============================================================================
