------------------------------ MODULE KeepAlive ------------------------------
(***************************************************************************)
(* The keep-alive of src/src/mqtt_client.c with its clock: when            *)
(* mqtt_client_dowork sends a PINGREQ, and when it reports                 *)
(* MQTT_CLIENT_NO_PING_RESPONSE, to a peer that may answer late or never.  *)
(* The state is that of one MQTT_CLIENT over successive connections; what  *)
(* the callbacks may do in between is the subject of module MqttClient.    *)
(*                                                                         *)
(* Time is counted in ticks, TicksPerSecond of them; it starts at 1, since *)
(* 0 is the code's "no ping outstanding".                                  *)
(***************************************************************************)
EXTENDS Naturals

CONSTANTS
    Intervals,       \* the values of keepAliveInterval, in seconds
    DefaultMaxPing,  \* DEFAULT_MAX_PING_RESPONSE_TIME
    TicksPerSecond,
    Poll,            \* the application calls mqtt_client_dowork at least this often
    Lag,             \* ticks that may pass between two readings of the clock
    Faults,          \* which of "clock", "send" and "alloc" can strike
    MaxTime          \* bound: the time at which the model stops

ASSUME ConstantsAssumption ==
    /\ Intervals \subseteq Nat
    /\ DefaultMaxPing \in Nat
    /\ TicksPerSecond \in Nat \ {0}
    /\ Poll \in Nat \ {0}
    /\ Lag \in Nat
    /\ Faults \subseteq {"clock", "send", "alloc"}
    /\ MaxTime \in Nat

VARIABLES
    now,
    \* MQTT_CLIENT
    opening,             \* xio_open was called, onOpenComplete was not
    socket,              \* MQTT_STATUS_SOCKET_CONNECTED
    closing,             \* MQTT_STATUS_PENDING_CLOSE
    client,              \* MQTT_STATUS_CLIENT_CONNECTED, never cleared
    keepAliveInterval,
    maxPingRespTime,
    packetSendTimeMs,
    timeSincePing,       \* when the PINGREQ was sent; 0: none outstanding
    pumped,              \* mqtt_client_dowork is past its xio_dowork
    \* the peer
    owed,                \* a PINGREQ it has not answered
    arrived,             \* when the unread PINGRESP reached the socket, or 0
    \* history of the connection
    polled,              \* when mqtt_client_dowork was last called
    armed,               \* when both flags were first set, or 0
    lastSent,            \* when a packet was last sent, or 0
    awaiting,            \* when the first PINGREQ with no PINGRESP read was sent, or 0
    alarms,              \* how often it reported NO_PING_RESPONSE
    faulty               \* a clock, a send or an allocation failed

status  == <<opening, socket, closing, client>>
options == <<keepAliveInterval, maxPingRespTime>>
clocks  == <<packetSendTimeMs, timeSincePing>>
peer    == <<owed, arrived>>
vars == <<now, status, options, clocks, pumped, peer, polled, armed, lastSent, awaiting,
          alarms, faulty>>

TypeOK ==
    /\ now \in Nat \ {0}
    /\ opening \in BOOLEAN /\ socket \in BOOLEAN
    /\ closing \in BOOLEAN /\ client \in BOOLEAN
    /\ keepAliveInterval \in Nat /\ maxPingRespTime \in Nat
    /\ packetSendTimeMs \in 0 .. now /\ timeSincePing \in 0 .. now
    /\ pumped \in BOOLEAN
    /\ owed \in BOOLEAN
    /\ arrived \in 0 .. now
    /\ polled \in 0 .. now /\ armed \in 0 .. now
    /\ lastSent \in 0 .. now /\ awaiting \in 0 .. now
    /\ alarms \in Nat
    /\ faulty \in BOOLEAN

\* mqtt_client_init
Init ==
    /\ now = 1
    /\ opening = FALSE /\ socket = FALSE /\ closing = FALSE /\ client = FALSE
    /\ keepAliveInterval = 0 /\ maxPingRespTime = DefaultMaxPing
    /\ packetSendTimeMs = 0 /\ timeSincePing = 0
    /\ pumped = FALSE
    /\ owed = FALSE /\ arrived = 0
    /\ polled = 0 /\ armed = 0 /\ lastSent = 0 /\ awaiting = 0
    /\ alarms = 0 /\ faulty = FALSE

Seconds(n) == n * TicksPerSecond

-----------------------------------------------------------------------------
\* A definition with a suffix is the one after it with a slip (see "mutants").
PingTime_Interval(interval) == interval

\* maxPingRespTime: half the interval, at most DEFAULT_MAX_PING_RESPONSE_TIME.
PingTime(interval) ==
    IF DefaultMaxPing < interval \div 2 THEN DefaultMaxPing ELSE interval \div 2

\* mqtt_client_connect that leaves timeSincePing alone.
mqtt_client_connect_KeepsPing(interval) ==
    /\ ~opening /\ ~socket /\ ~pumped
    /\ keepAliveInterval' = interval
    /\ maxPingRespTime' = PingTime(interval)
    /\ opening' = TRUE
    /\ owed' = FALSE /\ arrived' = 0 /\ awaiting' = 0
    /\ polled' = now /\ armed' = 0 /\ lastSent' = 0
    /\ alarms' = 0 /\ faulty' = FALSE
    /\ UNCHANGED <<now, socket, closing, client, clocks, pumped>>

\* The options may not be cloned, or xio_open fails.
mqtt_client_connect(interval) ==
    /\ ~opening /\ ~socket /\ ~pumped
    /\ keepAliveInterval' = interval
    /\ maxPingRespTime' = PingTime(interval)
    /\ timeSincePing' = 0
    /\ opening' = TRUE \/ ("alloc" \in Faults /\ opening' = FALSE)
    /\ owed' = FALSE /\ arrived' = 0 /\ awaiting' = 0
    /\ polled' = now /\ armed' = 0 /\ lastSent' = 0
    /\ alarms' = 0 /\ faulty' = FALSE
    /\ UNCHANGED <<now, socket, closing, client, packetSendTimeMs, pumped>>

(***************************************************************************)
(* onOpenComplete, which sends the CONNECT.  There may be no memory for    *)
(* it: then the connection is just up.  If xio_send or the clock after it  *)
(* fails, the connection is up until the next mqtt_client_dowork.  A       *)
(* CLIENT_CONNECTED left by an earlier connection arms the keep-alive at   *)
(* once.                                                                   *)
(***************************************************************************)
onOpenComplete ==
    /\ opening
    /\ opening' = FALSE /\ socket' = TRUE
    /\ armed' = IF client THEN now ELSE 0
    /\ \/ packetSendTimeMs' = now /\ lastSent' = now /\ UNCHANGED <<closing, faulty>>
       \/ /\ "alloc" \in Faults
          /\ faulty' = TRUE /\ UNCHANGED <<closing, packetSendTimeMs, lastSent>>
       \/ /\ \/ "send" \in Faults /\ UNCHANGED lastSent
             \/ "clock" \in Faults /\ lastSent' = now
          /\ closing' = TRUE
          /\ faulty' = TRUE /\ UNCHANGED packetSendTimeMs
    /\ UNCHANGED <<now, client, options, timeSincePing, pumped, peer, polled, awaiting, alarms>>

\* An accepting CONNACK, delivered by xio_dowork.
Connack ==
    /\ socket /\ ~client
    /\ client' = TRUE
    /\ armed' = now
    /\ UNCHANGED <<now, opening, socket, closing, options, clocks, pumped, peer, polled,
                   lastSent, awaiting, alarms, faulty>>

(***************************************************************************)
(* sendPacketItem for a packet of the application or an answer: a clock    *)
(* that fails leaves the time of the send before.                          *)
(***************************************************************************)
Send ==
    /\ socket /\ client
    /\ lastSent' = now
    /\ \/ packetSendTimeMs' = now /\ UNCHANGED faulty
       \/ "clock" \in Faults /\ faulty' = TRUE /\ UNCHANGED packetSendTimeMs
    /\ UNCHANGED <<now, status, options, timeSincePing, pumped, peer, polled, armed,
                   awaiting, alarms>>

Down ==
    /\ opening' = FALSE /\ socket' = FALSE
    /\ owed' = FALSE /\ arrived' = 0
    /\ polled' = 0 /\ armed' = 0 /\ lastSent' = 0
    /\ alarms' = 0 /\ faulty' = FALSE

\* The xio goes down for another reason: an error, a disconnect.  Or it does not come up:
\* then MQTT_STATUS_PENDING_CLOSE is set until the next mqtt_client_dowork, which may come
\* after the next mqtt_client_connect.
Drop ==
    /\ opening \/ socket
    /\ Down
    /\ closing' \in {closing, closing \/ opening}
    /\ UNCHANGED <<now, client, options, clocks, pumped, awaiting>>

-----------------------------------------------------------------------------
(* mqtt_client_dowork: a close that is pending, or xio_dowork and then the *)
(* keep-alive check.                                                       *)

\* close_connection leaves an xio alone that is still opening.
ClosePending ==
    /\ opening \/ socket
    /\ closing /\ ~pumped
    /\ closing' = FALSE
    /\ \/ socket /\ Down
       \/ /\ ~socket
          /\ polled' = now
          /\ UNCHANGED <<opening, socket, peer, armed, lastSent, alarms, faulty>>
    /\ UNCHANGED <<now, client, options, clocks, pumped, awaiting>>

\* xio_dowork reads what has arrived; a PINGRESP clears timeSincePing.
Pump ==
    /\ opening \/ socket
    /\ ~closing /\ ~pumped
    /\ pumped' = TRUE
    /\ polled' = now
    /\ arrived' = 0
    /\ IF arrived # 0 THEN timeSincePing' = 0 /\ awaiting' = 0
                      ELSE UNCHANGED <<timeSincePing, awaiting>>
    /\ UNCHANGED <<now, status, options, packetSendTimeMs, owed, armed, lastSent, alarms,
                   faulty>>

Armed == socket /\ client /\ keepAliveInterval > 0

\* The code divides differences by 1000 and drops the fraction: d / 1000 > m is d >= 1000 (m + 1).
Overdue_Early == timeSincePing > 0 /\ now - timeSincePing >= Seconds(maxPingRespTime)
Overdue == timeSincePing > 0 /\ now - timeSincePing >= Seconds(maxPingRespTime + 1)
PingDue_Late == now - packetSendTimeMs >= Seconds(2 * keepAliveInterval)
PingDue == now - packetSendTimeMs >= Seconds(keepAliveInterval)

\* set_error_callback closes the xio; what it was about is then reset.
Fail ==
    /\ socket' = FALSE
    /\ timeSincePing' = 0
    /\ packetSendTimeMs' = 0

ReportNoResponse ==
    /\ Overdue
    /\ Fail
    /\ alarms' = alarms + 1
    /\ UNCHANGED <<now, owed, lastSent, awaiting, faulty>>

\* timeSincePing holding the deadline instead of the time of the PINGREQ.
PingSent_Deadline ==
    \E lag \in 0 .. Lag :
        /\ now' = now + lag
        /\ packetSendTimeMs' = now /\ lastSent' = now
        /\ timeSincePing' = now + lag + Seconds(maxPingRespTime)
        /\ owed' = TRUE
        /\ awaiting' = IF awaiting = 0 THEN now ELSE awaiting
        /\ UNCHANGED <<socket, alarms, faulty>>

\* Some time after the clock was read for the check, the PINGREQ goes out; the clock is
\* read for packetSendTimeMs and later again for timeSincePing, which keeps its value when
\* that reading fails.
PingSent ==
    \E before \in 0 .. Lag, after \in 0 .. Lag :
        LET sentAt == now + before IN
        /\ now' = sentAt + after
        /\ packetSendTimeMs' = sentAt /\ lastSent' = sentAt
        /\ \/ timeSincePing' = sentAt + after /\ UNCHANGED faulty
           \/ "clock" \in Faults /\ faulty' = TRUE /\ UNCHANGED timeSincePing
        /\ owed' = TRUE
        /\ awaiting' = IF awaiting = 0 THEN sentAt ELSE awaiting
        /\ UNCHANGED <<socket, alarms>>

\* xio_send fails, or succeeds and the clock fails: COMMUNICATION_ERROR.
PingFailed ==
    /\ \/ "send" \in Faults /\ UNCHANGED <<lastSent, owed, awaiting>>
       \/ /\ "clock" \in Faults
          /\ lastSent' = now /\ owed' = TRUE
          /\ awaiting' = IF awaiting = 0 THEN now ELSE awaiting
    /\ Fail
    /\ faulty' = TRUE
    /\ UNCHANGED <<now, alarms>>

SendPing ==
    /\ ~Overdue /\ PingDue
    /\ PingSent \/ PingFailed

\* The clock fails, or mqtt_codec_ping has no memory.
Skip ==
    /\ "clock" \in Faults \/ ("alloc" \in Faults /\ ~Overdue /\ PingDue)
    /\ faulty' = TRUE
    /\ UNCHANGED <<now, socket, clocks, owed, lastSent, awaiting, alarms>>

Idle ==
    /\ ~Armed \/ (~Overdue /\ ~PingDue)
    /\ UNCHANGED <<now, socket, clocks, owed, lastSent, awaiting, alarms, faulty>>

mqtt_client_dowork ==
    /\ pumped
    /\ pumped' = FALSE
    /\ Idle \/ (Armed /\ (ReportNoResponse \/ SendPing \/ Skip))
    /\ UNCHANGED <<opening, closing, client, options, arrived, polled, armed>>

-----------------------------------------------------------------------------
(* The peer and the passing of time.                                       *)

Respond ==
    /\ socket /\ owed
    /\ owed' = FALSE
    /\ arrived' = IF arrived = 0 THEN now ELSE arrived
    /\ UNCHANGED <<now, status, options, clocks, pumped, polled, armed, lastSent, awaiting,
                   alarms, faulty>>

Tick ==
    /\ now < MaxTime
    /\ opening \/ socket => now - polled < Poll
    /\ now' = now + 1
    /\ UNCHANGED <<status, options, clocks, pumped, peer, polled, armed, lastSent, awaiting,
                   alarms, faulty>>

Next ==
    \/ \E interval \in Intervals : mqtt_client_connect(interval)
    \/ onOpenComplete \/ Connack \/ Send \/ Drop
    \/ ClosePending \/ Pump \/ mqtt_client_dowork
    \/ Respond \/ Tick

Spec == Init /\ [][Next]_vars

-----------------------------------------------------------------------------
(***************************************************************************)
(* SRS_MQTT_CLIENT_07_035, no false alarm: MQTT_CLIENT_NO_PING_RESPONSE is *)
(* reported only on a connection where a PINGREQ was sent more than        *)
(* maxPingRespTime ago (in whole seconds) and no PINGRESP was there to be  *)
(* read when mqtt_client_dowork was called.                                *)
(***************************************************************************)
NoFalseAlarm ==
    [][alarms' > alarms =>
        /\ awaiting # 0 /\ now - awaiting >= Seconds(maxPingRespTime + 1)
        /\ arrived # 0 => arrived >= polled]_vars

(***************************************************************************)
(* SRS_MQTT_CLIENT_07_035, no missed alarm: a connection without faults,   *)
(* of an interval of 3 seconds or more, with an unanswered PINGREQ is not  *)
(* up much longer than maxPingRespTime: the second whose fraction is       *)
(* dropped, two polls, and the lag of the clock.  (It is, when the lag can *)
(* be more than a second: a second PINGREQ moves timeSincePing.)           *)
(***************************************************************************)
SilenceReported ==
    ~faulty /\ keepAliveInterval >= 3 /\ socket /\ awaiting # 0 /\ arrived = 0 =>
        now - awaiting <= Seconds(maxPingRespTime + 1) + 2 * Poll + Lag

(***************************************************************************)
(* SRS_MQTT_CLIENT_07_026, what the peer was promised by the CONNECT: on a *)
(* connection without faults, whatever struck the ones before, the last    *)
(* packet is never longer ago than keepAliveInterval, two polls and the    *)
(* lag of the clock, once the connection is up.  (The PINGREQ that ends    *)
(* such a gap goes out at most Lag after the check.)                       *)
(***************************************************************************)
KeepAliveKept ==
    ~faulty /\ Armed =>
        \/ now - lastSent <= Seconds(keepAliveInterval) + 2 * Poll + Lag
        \/ now - armed <= 2 * Poll + Lag

-----------------------------------------------------------------------------
(***************************************************************************)
(* Why there is no false alarm, as an inductive invariant: timeSincePing   *)
(* is not before the first PINGREQ that waits for a response, and what is  *)
(* in the socket after xio_dowork came later.                              *)
(***************************************************************************)
PingTracked ==
    /\ timeSincePing # 0 => awaiting # 0 /\ awaiting <= timeSincePing
    /\ pumped /\ arrived # 0 => arrived >= polled
=============================================================================
