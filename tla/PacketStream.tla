---------------------------- MODULE PacketStream ----------------------------
(***************************************************************************)
(* What mqtt_codec_bytesReceived promises the client of a connection: the  *)
(* packets of the peer, whole and in order, up to the first one that is    *)
(* not a packet.  That one, or a lack of memory, breaks the stream, and    *)
(* the client starts a new connection.  Module MqttCodec implements it,    *)
(* byte by byte.                                                           *)
(***************************************************************************)
EXTENDS Naturals, Sequences

CONSTANTS
    Packet,      \* what the peer may send
    Garbage      \* what it may send instead

VARIABLES
    sent,        \* by the peer, on this connection
    received,    \* what the client was given of it
    broken       \* "no", or why the connection is of no more use

vars == <<sent, received, broken>>

Init == sent = <<>> /\ received = <<>> /\ broken = "no"

Transmit ==
    /\ \E content \in Packet \cup {Garbage} : sent' = Append(sent, content)
    /\ UNCHANGED <<received, broken>>

Pending == Len(received) < Len(sent)
NextSent == sent[Len(received) + 1]

Receive ==
    /\ broken = "no"
    /\ Pending /\ NextSent # Garbage
    /\ received' = Append(received, NextSent)
    /\ UNCHANGED <<sent, broken>>

Break ==
    /\ \/ broken' = "malformed" /\ Pending /\ NextSent = Garbage
       \/ broken' = "fault"
    /\ UNCHANGED <<sent, received>>

Restart == sent' = <<>> /\ received' = <<>> /\ broken' = "no"

Next == Transmit \/ Receive \/ Break \/ Restart

Spec == Init /\ [][Next]_vars
=============================================================================
