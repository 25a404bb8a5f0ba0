---------------------------- MODULE MCMqttClient ----------------------------
(* MqttClient for TLC.  The first connection supplies a client id and a     *)
(* will, the second one only a client id.                                   *)
EXTENDS MqttClient

CONSTANTS x1, x2

OneXio == {x1}
TwoXios == {x1, x2}
Fields == {"clientId", "willTopic"}
SuppliesOne == [x \in OneXio |-> Fields]
SuppliesAll == [x \in TwoXios |-> Fields]
SuppliesTwo == [x \in TwoXios |-> IF x = x1 THEN Fields ELSE {"clientId"}]
=============================================================================
