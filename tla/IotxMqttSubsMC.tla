--------------------------- MODULE IotxMqttSubsMC ---------------------------
(* IotxMqttSubs with a plain and a wildcard filter and two functions. *)
EXTENDS IotxMqttSubs

CONSTANTS t1, any, f, g, nil

MCHandle == {<<t1, f>>, <<any, f>>, <<any, g>>}
MCTopic == {t1}
=============================================================================
