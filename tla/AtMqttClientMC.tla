-------------------------- MODULE AtMqttClientMC --------------------------
(* AtMqttClient with three handles, two topics and a wildcard. *)
EXTENDS AtMqttClient

CONSTANTS h1, h2, h3, nil, t1, t2, any

MCHandle == {h1, h2, h3}
MCTopic == {t1, t2}
=============================================================================
