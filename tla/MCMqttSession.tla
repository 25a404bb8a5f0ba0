--------------------------- MODULE MCMqttSession ---------------------------
(* MqttSession for TLC.                                                    *)
EXTENDS MqttSession, TLC

CONSTANTS u1, u2, d0, d1, d2

QosOf == (u1 :> 1) @@ (u2 :> 2) @@ (d0 :> 0) @@ (d1 :> 1) @@ (d2 :> 2)
Ids == (SUBSCRIBE_TYPE :> 11) @@ (UNSUBSCRIBE_TYPE :> 12)

\* Publishing and receiving, identifiers used again; requests in between.
Mixes == {{u1, u2, d1, d2}, {u2, d0, d1, d2}, {u1, u2, SUBSCRIBE_TYPE},
          {d2, SUBSCRIBE_TYPE, UNSUBSCRIBE_TYPE}}

\* Two filters: granted, refused, a code that is none, an empty answer.
Answers == {<<1, 128>>, <<3, 2>>, <<0, 4>>, <<>>}
=============================================================================
