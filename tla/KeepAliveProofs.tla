--------------------------- MODULE KeepAliveProofs ---------------------------
(* Theorems about KeepAlive, for every value of its constants.               *)
EXTENDS KeepAlive, TLAPS

LEMMA SecondsType == \A n \in Nat : Seconds(n) \in Nat
<1> SUFFICES ASSUME NEW n \in Nat PROVE Seconds(n) \in Nat
  OBVIOUS
<1>1. n * TicksPerSecond \in Nat
  BY ConstantsAssumption
<1>2. QED
  BY <1>1 DEF Seconds

LEMMA PingTimeType == \A interval \in Nat : PingTime(interval) \in Nat
<1>1. \A interval \in Nat : interval \div 2 \in Nat
  OBVIOUS
<1>2. DefaultMaxPing \in Nat
  BY ConstantsAssumption
<1>3. QED
  BY <1>1, <1>2 DEF PingTime

\* TypeOK in two parts: the provers do better with Booleans and numbers apart.
Flags ==
    /\ opening \in BOOLEAN /\ socket \in BOOLEAN
    /\ closing \in BOOLEAN /\ client \in BOOLEAN
    /\ pumped \in BOOLEAN /\ owed \in BOOLEAN
    /\ faulty \in BOOLEAN

Times ==
    /\ now \in Nat \ {0}
    /\ keepAliveInterval \in Nat /\ maxPingRespTime \in Nat
    /\ packetSendTimeMs \in 0 .. now /\ timeSincePing \in 0 .. now
    /\ arrived \in 0 .. now
    /\ polled \in 0 .. now /\ armed \in 0 .. now
    /\ lastSent \in 0 .. now /\ awaiting \in 0 .. now
    /\ alarms \in Nat

LEMMA TypeParts == TypeOK <=> Flags /\ Times
BY DEF TypeOK, Flags, Times

LEMMA TypeInit == Init => TypeOK
<1> SUFFICES ASSUME Init PROVE TypeOK
  OBVIOUS
<1>1. Flags
  BY DEF Init, Flags
<1>2. DefaultMaxPing \in Nat
  BY ConstantsAssumption
<1>3. Times
  BY <1>2 DEF Init, Times
<1>4. QED
  BY <1>1, <1>3, TypeParts

LEMMA FlagsNext == ASSUME Flags, [Next]_vars PROVE Flags'
<1>1. CASE UNCHANGED vars
  BY <1>1 DEF Flags, vars, status, peer
<1>2. ASSUME NEW interval \in Intervals, mqtt_client_connect(interval) PROVE Flags'
  BY <1>2 DEF mqtt_client_connect, Flags
<1>3. CASE onOpenComplete
  <2>1. /\ opening' = FALSE /\ socket' = TRUE /\ UNCHANGED <<client, pumped, owed>>
        /\ UNCHANGED closing \/ closing' = TRUE
        /\ UNCHANGED faulty \/ faulty' = TRUE
    BY <1>3 DEF onOpenComplete, peer
  <2>2. QED
    BY <2>1 DEF Flags
<1>4. CASE Connack \/ Send \/ Drop \/ Tick
  BY <1>4 DEF Connack, Send, Drop, Down, Tick, Flags, status, peer
<1>5. CASE ClosePending \/ Pump \/ Respond
  BY <1>5 DEF ClosePending, Down, Pump, Respond, Flags, status, peer
<1>6. CASE mqtt_client_dowork
  <2>1. pumped' = FALSE /\ UNCHANGED <<opening, closing, client>>
    BY <1>6 DEF mqtt_client_dowork
  <2>2. UNCHANGED socket \/ socket' = FALSE
    BY <1>6 DEF mqtt_client_dowork, Idle, Skip, ReportNoResponse, SendPing, PingSent,
                PingFailed, Fail
  <2>3. UNCHANGED owed \/ owed' = TRUE
    BY <1>6 DEF mqtt_client_dowork, Idle, Skip, ReportNoResponse, SendPing, PingSent,
                PingFailed
  <2>4. UNCHANGED faulty \/ faulty' = TRUE
    BY <1>6 DEF mqtt_client_dowork, Idle, Skip, ReportNoResponse, SendPing, PingSent,
                PingFailed
  <2>5. QED
    BY <2>1, <2>2, <2>3, <2>4 DEF Flags
<1>7. QED
  BY <1>1, <1>2, <1>3, <1>4, <1>5, <1>6 DEF Next

\* The steps of mqtt_client_dowork after xio_dowork.
LEMMA TimesDoWork ==
    ASSUME Times, mqtt_client_dowork
    PROVE  Times'
<1>1. UNCHANGED <<keepAliveInterval, maxPingRespTime, arrived, polled, armed>>
  BY DEF mqtt_client_dowork, options
<1>2. CASE Idle \/ Skip
  <2>1. UNCHANGED <<now, packetSendTimeMs, timeSincePing, lastSent, awaiting, alarms>>
    BY <1>2 DEF Idle, Skip, clocks
  <2>2. QED
    BY <1>1, <2>1 DEF Times
<1>3. CASE ReportNoResponse \/ PingFailed
  <2>1. timeSincePing' = 0 /\ packetSendTimeMs' = 0 /\ UNCHANGED now
    BY <1>3 DEF ReportNoResponse, PingFailed, Fail
  <2>2. /\ lastSent' = lastSent \/ lastSent' = now
        /\ awaiting' = awaiting \/ awaiting' = now
        /\ alarms' = alarms \/ alarms' = alarms + 1
    BY <1>3 DEF ReportNoResponse, PingFailed
  <2>3. QED
    BY <1>1, <2>1, <2>2 DEF Times
<1>4. CASE PingSent
  <2>1. PICK before \in 0 .. Lag, after \in 0 .. Lag :
          /\ now' = now + before + after
          /\ packetSendTimeMs' = now + before /\ lastSent' = now + before
          /\ timeSincePing' = now + before + after \/ UNCHANGED timeSincePing
          /\ awaiting' = IF awaiting = 0 THEN now + before ELSE awaiting
          /\ UNCHANGED alarms
    BY <1>4 DEF PingSent
  <2>2. before \in Nat /\ after \in Nat
    BY <2>1, ConstantsAssumption
  <2>3. QED
    BY <1>1, <2>1, <2>2 DEF Times
<1>5. QED
  BY <1>2, <1>3, <1>4 DEF mqtt_client_dowork, SendPing

LEMMA TimesNext == ASSUME Times, [Next]_vars PROVE Times'
<1>1. CASE UNCHANGED vars
  BY <1>1 DEF Times, vars, options, clocks, peer
<1>2. ASSUME NEW interval \in Intervals, mqtt_client_connect(interval) PROVE Times'
  <2>1. interval \in Nat /\ PingTime(interval) \in Nat
    BY ConstantsAssumption, PingTimeType
  <2>2. /\ keepAliveInterval' = interval /\ maxPingRespTime' = PingTime(interval)
        /\ timeSincePing' = 0 /\ arrived' = 0 /\ awaiting' = 0 /\ polled' = now
        /\ armed' = 0 /\ lastSent' = 0 /\ alarms' = 0
        /\ UNCHANGED <<now, packetSendTimeMs>>
    BY <1>2 DEF mqtt_client_connect
  <2>3. QED
    BY <2>1, <2>2 DEF Times
<1>3. CASE onOpenComplete
  <2>1. /\ armed' = now \/ armed' = 0
        /\ packetSendTimeMs' = now \/ UNCHANGED packetSendTimeMs
        /\ lastSent' = now \/ UNCHANGED lastSent
        /\ UNCHANGED <<now, keepAliveInterval, maxPingRespTime, timeSincePing, arrived, polled,
                       awaiting, alarms>>
    BY <1>3 DEF onOpenComplete, options, peer
  <2>2. QED
    BY <2>1 DEF Times
<1>4. CASE Send
  BY <1>4 DEF Send, Times, options, peer
<1>5. CASE Drop \/ ClosePending
  BY <1>5 DEF Drop, ClosePending, Down, Times, options, clocks, peer
<1>6. CASE Connack
  BY <1>6 DEF Connack, Times, options, clocks, peer
<1>7. CASE Pump
  BY <1>7 DEF Pump, Times, options
<1>8. CASE mqtt_client_dowork
  BY <1>8, TimesDoWork
<1>9. CASE Respond
  <2>1. /\ arrived' = arrived \/ arrived' = now
        /\ UNCHANGED <<now, options, clocks, polled, armed, lastSent, awaiting, alarms>>
    BY <1>9 DEF Respond
  <2>2. QED
    BY <2>1 DEF Times, options, clocks
<1>10. CASE Tick
  <2>1. /\ now' = now + 1
        /\ UNCHANGED <<options, clocks, arrived, polled, armed, lastSent, awaiting, alarms>>
    BY <1>10 DEF Tick, peer
  <2>2. QED
    BY <2>1 DEF Times, options, clocks
<1>11. QED
  BY <1>1, <1>2, <1>3, <1>4, <1>5, <1>6, <1>7, <1>8, <1>9, <1>10 DEF Next

LEMMA TypeNext == TypeOK /\ [Next]_vars => TypeOK'
<1> SUFFICES ASSUME TypeOK, [Next]_vars PROVE TypeOK'
  OBVIOUS
<1>1. Flags' /\ Times'
  BY FlagsNext, TimesNext, TypeParts
<1>2. QED
  BY <1>1 DEF Flags, Times, TypeOK

(***************************************************************************)
(* The types hold in every reachable state: in particular no time the      *)
(* client or the socket keeps is ever ahead of the clock.                  *)
(***************************************************************************)
THEOREM TimesCorrect == Spec => []TypeOK
<1>1. QED
  BY TypeInit, TypeNext, PTL DEF Spec

-----------------------------------------------------------------------------
LEMMA TrackedInit == Init => PingTracked
BY DEF Init, PingTracked

LEMMA TrackedNext == TypeOK /\ PingTracked /\ [Next]_vars => PingTracked'
<1> SUFFICES ASSUME TypeOK, PingTracked, [Next]_vars PROVE PingTracked'
  OBVIOUS
<1>1. CASE UNCHANGED vars
  BY <1>1 DEF PingTracked, vars, clocks, peer
<1>2. CASE \E interval \in Intervals : mqtt_client_connect(interval)
  BY <1>2 DEF mqtt_client_connect, PingTracked
<1>3. CASE onOpenComplete \/ Connack \/ Send \/ Drop \/ ClosePending \/ Tick
  BY <1>3 DEF onOpenComplete, Connack, Send, Drop, ClosePending, Down, Tick, PingTracked, clocks, peer
<1>4. CASE Pump
  BY <1>4 DEF Pump, PingTracked
<1>5. CASE mqtt_client_dowork
  <2>1. pumped' = FALSE
    BY <1>5 DEF mqtt_client_dowork
  <2>2. CASE Idle \/ Skip
    BY <2>1, <2>2 DEF Idle, Skip, PingTracked, clocks
  <2>3. CASE ReportNoResponse \/ PingFailed
    BY <2>1, <2>3 DEF ReportNoResponse, PingFailed, Fail, PingTracked
  <2>4. CASE PingSent
    <3>1. PICK before \in 0 .. Lag, after \in 0 .. Lag :
            /\ timeSincePing' = now + before + after \/ UNCHANGED timeSincePing
            /\ awaiting' = IF awaiting = 0 THEN now + before ELSE awaiting
      BY <2>4 DEF PingSent
    <3>2. before \in Nat /\ after \in Nat
      BY <3>1, ConstantsAssumption
    <3>3. QED
      BY <2>1, <3>1, <3>2 DEF TypeOK, PingTracked
  <2>5. QED
    BY <1>5, <2>2, <2>3, <2>4 DEF mqtt_client_dowork, SendPing
\* What arrives while mqtt_client_dowork is past its xio_dowork arrives after it began.
<1>6. CASE Respond
  BY <1>6 DEF Respond, PingTracked, TypeOK, clocks
<1>7. QED
  BY <1>1, <1>2, <1>3, <1>4, <1>5, <1>6 DEF Next

LEMMA AlarmIsTrue ==
    ASSUME TypeOK, PingTracked, [Next]_vars, alarms' > alarms
    PROVE  /\ awaiting # 0 /\ now - awaiting >= Seconds(maxPingRespTime + 1)
           /\ arrived # 0 => arrived >= polled
<1>0. alarms' # alarms /\ alarms' # 0
  BY DEF TypeOK
<1>1. pumped /\ ReportNoResponse
  BY <1>0 DEF Next, vars, options, clocks, peer, mqtt_client_connect, onOpenComplete, Connack, Send,
         Drop, ClosePending, Down, Pump, Respond, Tick, mqtt_client_dowork, Idle, Skip, SendPing, PingSent, PingFailed
<1>2. timeSincePing > 0 /\ now - timeSincePing >= Seconds(maxPingRespTime + 1)
  BY <1>1 DEF ReportNoResponse, Overdue
<1>3. Seconds(maxPingRespTime + 1) \in Nat
  BY SecondsType DEF TypeOK
<1>4. QED
  BY <1>1, <1>2, <1>3 DEF TypeOK, PingTracked

(***************************************************************************)
(* timeSincePing never precedes the first unanswered PINGREQ, even when a  *)
(* clock failure makes mqtt_client_dowork keep an older value.             *)
(***************************************************************************)
THEOREM PingsTracked == Spec => []PingTracked
<1>1. Init => TypeOK /\ PingTracked
  BY TypeInit, TrackedInit
<1>2. TypeOK /\ PingTracked /\ [Next]_vars => (TypeOK /\ PingTracked)'
  BY TypeNext, TrackedNext
<1>3. QED
  BY <1>1, <1>2, PTL DEF Spec

(***************************************************************************)
(* For any intervals, polling, clock and faults: mqtt_client_dowork reports*)
(* NO_PING_RESPONSE only when a PINGREQ has been unanswered for longer     *)
(* than maxPingRespTime and its xio_dowork found no PINGRESP to read.      *)
(***************************************************************************)
THEOREM NoFalseAlarms == Spec => NoFalseAlarm
<1>1. TypeOK /\ PingTracked /\ [Next]_vars =>
        [alarms' > alarms =>
            /\ awaiting # 0 /\ now - awaiting >= Seconds(maxPingRespTime + 1)
            /\ arrived # 0 => arrived >= polled]_vars
  BY AlarmIsTrue
<1>2. QED
  BY <1>1, TimesCorrect, PingsTracked, PTL DEF Spec, NoFalseAlarm
-----------------------------------------------------------------------------
(* The time between two packets, and until a silent peer is noticed.  Both *)
(* are bounded by a deadline: the latest time at which mqtt_client_dowork  *)
(* takes its next step, its xio_dowork or the check after it.              *)

Deadline == IF now >= polled + Poll THEN now ELSE polled + Poll

\* What may pass from the last check to the deadline.
Slack == IF pumped THEN 2 * Poll ELSE Poll

Healthy == socket /\ ~faulty
Usable == opening \/ Healthy

\* A check finds no gap of keepAliveInterval or sends; so does the first one after the connection
\* is up.
GapSmall ==
    \/ Deadline <= lastSent + Seconds(keepAliveInterval) + Slack + Lag
    \/ Deadline <= armed + Slack

Paced ==
    Healthy =>
        /\ packetSendTimeMs = lastSent
        /\ client /\ keepAliveInterval > 0 => GapSmall

\* What holds of a PINGREQ that waits for its response: there is no second one.
Waiting ==
    /\ client
    /\ awaiting <= timeSincePing /\ timeSincePing <= awaiting + Lag
    /\ awaiting <= packetSendTimeMs
    /\ Deadline <= awaiting + Seconds(maxPingRespTime + 1) + Slack + Lag

Patient ==
    /\ opening => ~socket /\ awaiting = 0
    /\ Usable /\ keepAliveInterval >= 3 =>
        /\ maxPingRespTime + 2 <= keepAliveInterval
        /\ awaiting # 0 => Waiting

LEMMA DeadlineType ==
    ASSUME Times
    PROVE  /\ Poll \in Nat \ {0} /\ Lag \in Nat /\ Slack \in Nat
           /\ Deadline \in Nat /\ now <= Deadline /\ Deadline <= now + Poll
           /\ Seconds(keepAliveInterval) \in Nat /\ Seconds(maxPingRespTime + 1) \in Nat
<1>1. Poll \in Nat \ {0} /\ Lag \in Nat
  BY ConstantsAssumption
<1>2. Slack \in Nat
  BY <1>1 DEF Slack
<1>3. Seconds(keepAliveInterval) \in Nat /\ Seconds(maxPingRespTime + 1) \in Nat
  BY SecondsType DEF Times
<1>4. QED
  BY <1>1, <1>2, <1>3 DEF Deadline, Times

\* Between the checks the deadline does not move.
LEMMA TickKeeps ==
    ASSUME Times, Tick, opening \/ socket
    PROVE  Deadline' = Deadline /\ Slack' = Slack
<1>1. now' = now + 1 /\ now - polled < Poll /\ UNCHANGED <<polled, pumped>>
  BY DEF Tick
<1>2. Poll \in Nat
  BY ConstantsAssumption
<1>3. Slack' = Slack
  BY <1>1 DEF Slack
<1>4. QED
  BY <1>1, <1>2, <1>3 DEF Deadline, Times

\* xio_dowork begins by the deadline, and the check follows within Poll.
LEMMA PumpKeeps ==
    ASSUME Times, Pump
    PROVE  Deadline' <= Deadline + Poll /\ Slack' = Slack + Poll
<1>1. polled' = now /\ UNCHANGED now /\ pumped' = TRUE /\ pumped = FALSE
  BY DEF Pump
<1>2. Poll \in Nat
  BY ConstantsAssumption
<1>3. Slack = Poll /\ Slack' = 2 * Poll
  BY <1>1 DEF Slack
<1>4. QED
  BY <1>1, <1>2, <1>3, DeadlineType DEF Deadline, Times

\* The steps that touch neither the time nor the poll.
LEMMA DeadlineSame ==
    ASSUME UNCHANGED <<now, polled, pumped>>
    PROVE  Deadline' = Deadline /\ Slack' = Slack
BY DEF Deadline, Slack

\* The check itself, when it neither reports nor fails.
LEMMA CheckKeeps ==
    ASSUME Times, mqtt_client_dowork, Healthy'
    PROVE  /\ pumped /\ Slack' = Poll /\ Healthy
           /\ \/ /\ PingSent /\ Armed /\ ~Overdue /\ PingDue
                 /\ Deadline' <= lastSent' + Poll + Lag
              \/ /\ Idle /\ UNCHANGED <<now, clocks, lastSent, awaiting>>
                 /\ Deadline' <= now + Poll
<1>1. pumped /\ pumped' = FALSE /\ UNCHANGED polled
  BY DEF mqtt_client_dowork
<1>2. Slack' = Poll
  BY <1>1 DEF Slack
<1>3. Poll \in Nat /\ Lag \in Nat
  BY ConstantsAssumption
<1>4. ~ReportNoResponse /\ ~PingFailed /\ ~Skip
  BY DEF Healthy, ReportNoResponse, PingFailed, Fail, Skip
<1>5. CASE Idle
  <2>1. UNCHANGED <<now, clocks, lastSent, awaiting, socket, faulty>>
    BY <1>5 DEF Idle
  <2>2. Deadline' <= now + Poll
    BY <1>1, <1>3, <2>1 DEF Deadline, Times
  <2>3. QED
    BY <1>1, <1>2, <1>5, <2>1, <2>2 DEF Healthy
<1>6. CASE PingSent /\ Armed /\ ~Overdue /\ PingDue
  <2>1. PICK before \in 0 .. Lag, after \in 0 .. Lag :
          now' = now + before + after /\ lastSent' = now + before
    BY <1>6 DEF PingSent
  <2>2. Deadline' <= lastSent' + Poll + Lag
    BY <1>1, <1>3, <2>1 DEF Deadline, Times
  <2>3. Healthy
    BY <1>6 DEF PingSent, Healthy
  <2>4. QED
    BY <1>1, <1>2, <1>6, <2>2, <2>3
<1>7. QED
  BY <1>4, <1>5, <1>6 DEF mqtt_client_dowork, SendPing

LEMMA PacedNext ==
    ASSUME TypeOK, Paced, [Next]_vars
    PROVE  Paced'
<1> SUFFICES ASSUME Healthy'
             PROVE  /\ packetSendTimeMs' = lastSent'
                    /\ client' /\ keepAliveInterval' > 0 => GapSmall'
  BY DEF Paced
<1>1. Times /\ Times'
  BY TypeParts, TimesNext
<1>2. /\ Poll \in Nat \ {0} /\ Lag \in Nat /\ Slack \in Nat
      /\ Deadline \in Nat /\ now <= Deadline /\ Deadline <= now + Poll
      /\ Seconds(keepAliveInterval) \in Nat
  BY <1>1, DeadlineType
<1>3. Seconds(keepAliveInterval)' \in Nat /\ Seconds(keepAliveInterval)' = Seconds(keepAliveInterval')
  BY <1>1, SecondsType DEF Times, Seconds
<1>4. Slack >= Poll /\ Deadline' \in Nat
  <2>1. now' \in Nat /\ polled' \in Nat
    BY <1>1 DEF Times
  <2>2. \A n, p \in Nat : (IF n >= p + Poll THEN n ELSE p + Poll) \in Nat
    BY <1>2
  <2>3. Deadline' \in Nat
    BY <2>1, <2>2 DEF Deadline
  <2>4. Slack >= Poll
    BY <1>2 DEF Slack
  <2>5. QED
    BY <2>3, <2>4
\* Steps after which the packet just sent, or the connection just made, is the measure.
<1>5. CASE onOpenComplete
  <2>1. /\ packetSendTimeMs' = now /\ lastSent' = now
        /\ UNCHANGED <<now, polled, pumped, keepAliveInterval>>
    BY <1>5 DEF onOpenComplete, Healthy, options
  <2>2. Deadline' <= lastSent' + Seconds(keepAliveInterval)' + Slack' + Lag
    BY <1>1, <1>2, <1>3, <1>4, <2>1, DeadlineSame DEF Times
  <2>3. QED
    BY <2>1, <2>2 DEF GapSmall
<1>6. CASE Connack
  <2>1. /\ armed' = now /\ UNCHANGED <<now, polled, pumped, packetSendTimeMs, lastSent>>
        /\ Healthy
    BY <1>6 DEF Connack, Healthy, clocks
  <2>2. Deadline' <= armed' + Slack'
    BY <1>1, <1>2, <1>4, <2>1, DeadlineSame DEF Times
  <2>3. QED
    BY <2>1, <2>2 DEF Paced, GapSmall
<1>7. CASE Send
  <2>1. /\ packetSendTimeMs' = now /\ lastSent' = now
        /\ UNCHANGED <<now, polled, pumped, keepAliveInterval>>
    BY <1>7 DEF Send, Healthy, options
  <2>2. Deadline' <= lastSent' + Seconds(keepAliveInterval)' + Slack' + Lag
    BY <1>1, <1>2, <1>3, <1>4, <2>1, DeadlineSame DEF Times
  <2>3. QED
    BY <2>1, <2>2 DEF GapSmall
<1>8. CASE Pump
  <2>1. /\ UNCHANGED <<packetSendTimeMs, lastSent, keepAliveInterval, client, armed, socket, faulty>>
        /\ Healthy
    BY <1>8 DEF Pump, status, options, Healthy
  <2>2. Deadline' <= Deadline + Poll /\ Slack' = Slack + Poll /\ Deadline' \in Nat
    BY <1>1, <1>8, PumpKeeps, DeadlineType DEF Deadline, Times
  <2>3. ASSUME GapSmall PROVE GapSmall'
    <3>1. CASE Deadline <= lastSent + Seconds(keepAliveInterval) + Slack + Lag
      BY <1>1, <1>2, <2>1, <2>2, <3>1 DEF GapSmall, Times, Seconds
    <3>2. CASE Deadline <= armed + Slack
      BY <1>1, <1>2, <2>1, <2>2, <3>2 DEF GapSmall, Times
    <3>3. QED
      BY <2>3, <3>1, <3>2 DEF GapSmall
  <2>4. QED
    BY <2>1, <2>3 DEF Paced
<1>9. CASE mqtt_client_dowork
  <2>1. Slack' = Poll /\ Healthy /\ UNCHANGED <<client, keepAliveInterval>>
    BY <1>1, <1>9, CheckKeeps DEF mqtt_client_dowork, options
  <2>2. CASE Idle /\ UNCHANGED <<now, clocks, lastSent, awaiting>> /\ Deadline' <= now + Poll
    <3>1. UNCHANGED <<packetSendTimeMs, lastSent>> /\ packetSendTimeMs = lastSent
      BY <2>1, <2>2 DEF clocks, Paced
    <3>2. ASSUME client', keepAliveInterval' > 0 PROVE GapSmall'
      <4>1. Armed
        BY <2>1, <3>2 DEF Armed, Healthy
      <4>2. now - packetSendTimeMs < Seconds(keepAliveInterval)
        BY <1>1, <1>2, <2>2, <4>1 DEF Idle, PingDue, Times
      <4>3. Deadline' <= lastSent' + Seconds(keepAliveInterval)' + Slack' + Lag
        BY <1>1, <1>2, <1>3, <1>4, <2>1, <2>2, <3>1, <4>2 DEF Times
      <4>4. QED
        BY <4>3 DEF GapSmall
    <3>3. QED
      BY <3>1, <3>2
  <2>3. CASE PingSent /\ Deadline' <= lastSent' + Poll + Lag
    <3>1. packetSendTimeMs' = lastSent'
      <4>1. PICK before \in 0 .. Lag, after \in 0 .. Lag :
              packetSendTimeMs' = now + before /\ lastSent' = now + before
        BY <2>3 DEF PingSent
      <4>2. QED
        BY <4>1
    <3>2. Deadline' <= lastSent' + Seconds(keepAliveInterval)' + Slack' + Lag
      <4>1. Deadline' <= lastSent' + Poll + Lag /\ lastSent' \in Nat
        BY <1>1, <2>3 DEF Times
      <4>2. /\ Deadline' \in Nat /\ Seconds(keepAliveInterval)' \in Nat
            /\ Poll \in Nat /\ Lag \in Nat /\ Slack' = Poll
        BY <1>2, <1>3, <1>4, <2>1
      <4>3. \A d, sent, secs, poll, lag \in Nat :
              d <= sent + poll + lag => d <= sent + secs + poll + lag
        OBVIOUS
      <4>4. QED
        BY <4>1, <4>2, <4>3
    <3>3. QED
      BY <3>1, <3>2 DEF GapSmall
  <2>4. QED
    BY <1>1, <1>9, <2>2, <2>3, CheckKeeps
\* Steps that keep the deadline and what is measured.
<1>10. ASSUME UNCHANGED <<socket, client, faulty, packetSendTimeMs, lastSent, keepAliveInterval, armed>>,
              Deadline' = Deadline, Slack' = Slack
       PROVE  /\ packetSendTimeMs' = lastSent'
              /\ client' /\ keepAliveInterval' > 0 => GapSmall'
  BY <1>3, <1>10 DEF Paced, Healthy, GapSmall
<1>11. CASE Tick
  BY <1>1, <1>10, <1>11, TickKeeps DEF Tick, Healthy, status, options, clocks
<1>12. CASE Respond \/ UNCHANGED vars
  BY <1>10, <1>12, DeadlineSame DEF Respond, vars, status, options, clocks
<1>13. ASSUME NEW interval \in Intervals PROVE ~mqtt_client_connect(interval)
  BY DEF mqtt_client_connect, Healthy
<1>14. QED
  BY <1>5, <1>6, <1>7, <1>8, <1>9, <1>11, <1>12, <1>13 DEF Next, Drop, ClosePending, Down, Healthy

LEMMA PingGap ==
    ASSUME NEW interval \in Nat, interval >= 3
    PROVE  PingTime(interval) + 2 <= interval
<1>1. interval \div 2 \in Nat /\ (interval \div 2) + 2 <= interval
  OBVIOUS
<1>2. DefaultMaxPing \in Nat
  BY ConstantsAssumption
<1>3. QED
  BY <1>1, <1>2 DEF PingTime

LEMMA SecondsApart ==
    ASSUME NEW m \in Nat, NEW n \in Nat, m + 2 <= n
    PROVE  Seconds(m + 1) + TicksPerSecond <= Seconds(n)
<1>1. PICK k \in Nat : n = m + 2 + k
  <2>1. n - (m + 2) \in Nat /\ n = m + 2 + (n - (m + 2))
    OBVIOUS
  <2>2. QED
    BY <2>1
<1>2. TicksPerSecond \in Nat
  BY ConstantsAssumption
<1>3. /\ (m + 1) * TicksPerSecond \in Nat /\ k * TicksPerSecond \in Nat
      /\ (m + 2 + k) * TicksPerSecond = (m + 1) * TicksPerSecond + TicksPerSecond + k * TicksPerSecond
  BY <1>2
<1>4. QED
  BY <1>1, <1>2, <1>3 DEF Seconds

\* A PINGREQ that waits is not followed by another: it is overdue first.
LEMMA OnePing ==
    ASSUME Lag <= TicksPerSecond, Times, Patient, Healthy, keepAliveInterval >= 3, ~Overdue, PingDue
    PROVE  awaiting = 0
<1> SUFFICES ASSUME awaiting # 0 PROVE FALSE
  OBVIOUS
<1>1. Waiting /\ maxPingRespTime + 2 <= keepAliveInterval
  BY DEF Patient, Usable
<1>2. /\ Lag \in Nat /\ TicksPerSecond \in Nat
      /\ Seconds(keepAliveInterval) \in Nat /\ Seconds(maxPingRespTime + 1) \in Nat
  BY SecondsType, ConstantsAssumption DEF Times
<1>3. Seconds(maxPingRespTime + 1) + TicksPerSecond <= Seconds(keepAliveInterval)
  BY <1>1, SecondsApart DEF Times
<1>4. now - packetSendTimeMs >= Seconds(keepAliveInterval)
  BY DEF PingDue
<1>5. now - timeSincePing < Seconds(maxPingRespTime + 1)
  BY <1>1, <1>2 DEF Overdue, Waiting, Times
<1>6. QED
  BY <1>1, <1>2, <1>3, <1>4, <1>5 DEF Waiting, Times

LEMMA PatientNext ==
    ASSUME Lag <= TicksPerSecond, TypeOK, Patient, [Next]_vars
    PROVE  Patient'
<1> DEFINE Measured == maxPingRespTime + 2 <= keepAliveInterval /\ (awaiting # 0 => Waiting)
<1> SUFFICES /\ opening' => ~socket' /\ awaiting' = 0
             /\ Usable' /\ keepAliveInterval' >= 3 => Measured'
  BY DEF Patient
<1>1. Times /\ Times'
  BY TypeParts, TimesNext
<1>2. /\ Poll \in Nat \ {0} /\ Lag \in Nat /\ Slack \in Nat
      /\ Deadline \in Nat /\ now <= Deadline /\ Deadline <= now + Poll
      /\ Seconds(maxPingRespTime + 1) \in Nat
  BY <1>1, DeadlineType
<1>3. UNCHANGED maxPingRespTime => Seconds(maxPingRespTime + 1)' = Seconds(maxPingRespTime + 1)
  BY DEF Seconds
<1>4. Deadline' \in Nat
  <2>1. now' \in Nat /\ polled' \in Nat
    BY <1>1 DEF Times
  <2>2. \A n, p \in Nat : (IF n >= p + Poll THEN n ELSE p + Poll) \in Nat
    BY <1>2
  <2>3. QED
    BY <2>1, <2>2 DEF Deadline
<1>5. ASSUME NEW interval \in Intervals, mqtt_client_connect(interval)
      PROVE  /\ opening' => ~socket' /\ awaiting' = 0
             /\ Usable' /\ keepAliveInterval' >= 3 => Measured'
  BY <1>5, PingGap, ConstantsAssumption DEF mqtt_client_connect
<1>6. CASE onOpenComplete
  BY <1>6 DEF onOpenComplete, Patient, Usable, options
\* Steps that keep the deadline, and the PINGREQ that waits.
<1>7. ASSUME UNCHANGED <<keepAliveInterval, maxPingRespTime, awaiting, timeSincePing>>,
             Usable, keepAliveInterval >= 3, client => client',
             Deadline' = Deadline, Slack' = Slack, packetSendTimeMs' \in {packetSendTimeMs, now}
      PROVE  Measured'
  <2>1. maxPingRespTime' + 2 <= keepAliveInterval'
    BY <1>7 DEF Patient
  <2>2. ASSUME awaiting' # 0 PROVE Waiting'
    <3>1. Waiting
      BY <1>7, <2>2 DEF Patient
    <3>2. awaiting' <= packetSendTimeMs'
      BY <1>1, <1>7, <3>1 DEF Waiting, Times
    <3>3. QED
      BY <1>3, <1>7, <3>1, <3>2 DEF Waiting
  <2>3. QED
    BY <2>1, <2>2
<1>8. CASE Connack \/ Respond \/ UNCHANGED vars
  <2>1. /\ UNCHANGED <<keepAliveInterval, maxPingRespTime, awaiting, timeSincePing, packetSendTimeMs,
                      now, polled, pumped, opening, socket, faulty>>
        /\ client => client'
    BY <1>8 DEF Connack, Respond, vars, status, options, clocks
  <2>2. /\ Usable' = Usable
        /\ opening' => ~socket' /\ awaiting' = 0
    BY <2>1 DEF Usable, Healthy, Patient
  <2>3. QED
    BY <1>7, <2>1, <2>2, DeadlineSame
<1>9. CASE Send
  <2>1. /\ UNCHANGED <<keepAliveInterval, maxPingRespTime, awaiting, timeSincePing, now, polled, pumped,
                       opening, socket, client>>
        /\ socket /\ packetSendTimeMs' \in {packetSendTimeMs, now} /\ (faulty => faulty')
    BY <1>9 DEF Send, status, options
  <2>2. /\ Usable' => Usable
        /\ opening' => ~socket' /\ awaiting' = 0
    BY <2>1 DEF Usable, Healthy, Patient
  <2>3. QED
    BY <1>7, <2>1, <2>2, DeadlineSame
<1>10. CASE Tick
  <2>1. /\ UNCHANGED <<keepAliveInterval, maxPingRespTime, awaiting, timeSincePing, packetSendTimeMs,
                       opening, socket, client, faulty>>
    BY <1>10 DEF Tick, status, options, clocks
  <2>2. /\ Usable' = Usable
        /\ opening' => ~socket' /\ awaiting' = 0
    BY <2>1 DEF Usable, Healthy, Patient
  <2>3. Usable => Deadline' = Deadline /\ Slack' = Slack
    BY <1>1, <1>10, TickKeeps DEF Usable, Healthy
  <2>4. QED
    BY <1>7, <2>1, <2>2, <2>3
<1>11. CASE Pump
  <2>1. /\ UNCHANGED <<packetSendTimeMs, keepAliveInterval, maxPingRespTime, opening, socket, client,
                       faulty>>
        /\ awaiting' = 0 \/ UNCHANGED <<timeSincePing, awaiting>>
    BY <1>11 DEF Pump, status, options
  <2>2. /\ Usable' = Usable
        /\ opening' => ~socket' /\ awaiting' = 0
    BY <2>1 DEF Usable, Healthy, Patient
  <2>3. Deadline' <= Deadline + Poll /\ Slack' = Slack + Poll
    BY <1>1, <1>11, PumpKeeps
  <2>4. Usable /\ keepAliveInterval >= 3 => maxPingRespTime' + 2 <= keepAliveInterval'
    BY <2>1 DEF Patient
  <2>5. ASSUME Usable, keepAliveInterval >= 3, awaiting' # 0 PROVE Waiting'
    <3>1. Waiting /\ UNCHANGED <<timeSincePing, awaiting>>
      BY <2>1, <2>5 DEF Patient
    <3>2. Deadline' <= awaiting + Seconds(maxPingRespTime + 1) + Slack' + Lag
      BY <1>1, <1>2, <1>4, <2>3, <3>1 DEF Waiting, Times
    <3>3. QED
      BY <1>3, <2>1, <3>1, <3>2 DEF Waiting
  <2>6. QED
    BY <2>1, <2>2, <2>4, <2>5
<1>12. CASE mqtt_client_dowork /\ opening
  <2>1. UNCHANGED <<opening, keepAliveInterval, maxPingRespTime>> /\ ~socket /\ awaiting = 0
    BY <1>12 DEF mqtt_client_dowork, options, Patient
  <2>2. Idle
    BY <1>12, <2>1 DEF mqtt_client_dowork, Armed
  <2>3. UNCHANGED <<socket, awaiting>>
    BY <2>2 DEF Idle
  <2>4. QED
    BY <1>12, <2>1, <2>3 DEF Patient, Usable
<1>13. ASSUME mqtt_client_dowork, Healthy', keepAliveInterval' >= 3 PROVE Measured'
  <2>1. Slack' = Poll /\ Healthy /\ UNCHANGED <<client, keepAliveInterval, maxPingRespTime>>
    BY <1>1, <1>13, CheckKeeps DEF mqtt_client_dowork, options
  <2> Usable /\ keepAliveInterval >= 3
    BY <1>13, <2>1 DEF Usable
  <2>2. maxPingRespTime' + 2 <= keepAliveInterval'
    BY <2>1 DEF Patient
  <2>3. CASE Idle /\ UNCHANGED <<now, clocks, lastSent, awaiting>> /\ Deadline' <= now + Poll
    <3>1. ASSUME awaiting' # 0 PROVE Waiting'
      <4>1. Waiting /\ UNCHANGED <<awaiting, timeSincePing, packetSendTimeMs>>
        BY <2>1, <2>3, <3>1 DEF Patient, clocks
      <4>2. Armed
        BY <1>1, <2>1, <4>1 DEF Armed, Healthy, Waiting, Times
      <4>3. now - timeSincePing < Seconds(maxPingRespTime + 1)
        BY <1>1, <1>2, <2>3, <3>1, <4>1, <4>2 DEF Idle, Overdue, Waiting, Times
      <4>4. Deadline' <= awaiting + Seconds(maxPingRespTime + 1) + Slack' + Lag
        BY <1>1, <1>2, <1>4, <2>1, <2>3, <4>1, <4>3 DEF Waiting, Times
      <4>5. QED
        BY <1>3, <2>1, <4>1, <4>4 DEF Waiting
    <3>2. QED
      BY <2>2, <3>1
  <2>4. CASE PingSent /\ Armed /\ ~Overdue /\ PingDue /\ Deadline' <= lastSent' + Poll + Lag
    <3>1. awaiting = 0
      BY <1>1, <2>1, <2>4, OnePing
    <3>2. PICK before \in 0 .. Lag, after \in 0 .. Lag :
            /\ packetSendTimeMs' = now + before /\ lastSent' = now + before
            /\ timeSincePing' = now + before + after /\ awaiting' = now + before
      BY <1>13, <2>4, <3>1 DEF PingSent, Healthy
    <3>3. Deadline' <= awaiting' + Seconds(maxPingRespTime + 1) + Slack' + Lag
      BY <1>1, <1>2, <1>4, <2>1, <2>4, <3>2 DEF Times
    <3>4. /\ client' /\ awaiting' <= timeSincePing' /\ timeSincePing' <= awaiting' + Lag
          /\ awaiting' <= packetSendTimeMs'
      BY <1>1, <1>2, <2>1, <2>4, <3>2 DEF Armed, Times
    <3>5. QED
      BY <1>3, <2>1, <2>2, <3>3, <3>4 DEF Waiting
  <2>5. QED
    BY <1>1, <1>13, <2>3, <2>4, CheckKeeps
<1>14. CASE Drop \/ ClosePending
  <2>1. CASE ~opening' /\ ~socket'
    BY <2>1 DEF Usable, Healthy
  <2>2. CASE /\ ~socket
             /\ UNCHANGED <<opening, socket, client, faulty, keepAliveInterval, maxPingRespTime, awaiting>>
    BY <2>2 DEF Patient, Usable, Healthy
  <2>3. QED
    BY <1>14, <2>1, <2>2 DEF Drop, ClosePending, Down, options
<1>15. CASE mqtt_client_dowork /\ ~opening
  <2>1. ~opening'
    BY <1>15 DEF mqtt_client_dowork
  <2>2. QED
    BY <1>13, <1>15, <2>1 DEF Usable
<1>16. QED
  BY <1>5, <1>8, <1>9, <1>10, <1>11, <1>6, <1>12, <1>14, <1>15 DEF Next

LEMMA PaceInit == Init => Paced /\ Patient
BY DEF Init, Paced, Patient, Usable, Healthy

(***************************************************************************)
(* For any intervals, polling and lag, and whatever struck the connections *)
(* before: mqtt_client_dowork lets no more than keepAliveInterval and two  *)
(* polls pass between two packets of a connection without faults, and no   *)
(* more than two polls until it checks a connection that came up.          *)
(***************************************************************************)
THEOREM PromiseKept == Spec => []KeepAliveKept
<1>1. TypeOK /\ Paced => KeepAliveKept
  <2> SUFFICES ASSUME TypeOK, Paced, ~faulty, Armed
               PROVE  \/ now - lastSent <= Seconds(keepAliveInterval) + 2 * Poll + Lag
                      \/ now - armed <= 2 * Poll + Lag
    BY DEF KeepAliveKept
  <2>1. Times /\ Healthy
    BY TypeParts DEF Armed, Healthy
  <2>2. GapSmall
    BY <2>1 DEF Paced, Armed
  <2>3. /\ Poll \in Nat /\ Lag \in Nat /\ Slack \in Nat /\ Deadline \in Nat /\ now <= Deadline
        /\ Seconds(keepAliveInterval) \in Nat
    BY <2>1, DeadlineType
  <2>4. Slack <= 2 * Poll
    BY <2>3 DEF Slack
  <2>5. CASE Deadline <= lastSent + Seconds(keepAliveInterval) + Slack + Lag
    BY <2>1, <2>3, <2>4, <2>5 DEF Times
  <2>6. CASE Deadline <= armed + Slack
    BY <2>1, <2>3, <2>4, <2>6 DEF Times
  <2>7. QED
    BY <2>2, <2>5, <2>6 DEF GapSmall
<1>2. TypeOK /\ Paced /\ [Next]_vars => Paced'
  BY PacedNext
<1>3. QED
  BY <1>1, <1>2, PaceInit, TimesCorrect, PTL DEF Spec

(***************************************************************************)
(* For intervals of 3 seconds and more, if the clock readings of one       *)
(* mqtt_client_dowork are at most a second apart: a connection without     *)
(* faults whose PINGREQ is not answered is not up for longer than          *)
(* maxPingRespTime, the second whose fraction is dropped, two polls and    *)
(* the lag.  With readings further apart a second PINGREQ can go out first *)
(* and moves timeSincePing.                                                *)
(***************************************************************************)
THEOREM SilenceNoticed ==
    ASSUME Lag <= TicksPerSecond
    PROVE  Spec => []SilenceReported
<1>1. TypeOK /\ Patient => SilenceReported
  <2> SUFFICES ASSUME TypeOK, Patient, ~faulty, keepAliveInterval >= 3, socket, awaiting # 0
               PROVE  now - awaiting <= Seconds(maxPingRespTime + 1) + 2 * Poll + Lag
    BY DEF SilenceReported
  <2>1. Times /\ Waiting
    BY TypeParts DEF Patient, Usable, Healthy
  <2>2. /\ Poll \in Nat /\ Lag \in Nat /\ Slack \in Nat /\ Deadline \in Nat /\ now <= Deadline
        /\ Seconds(maxPingRespTime + 1) \in Nat
    BY <2>1, DeadlineType
  <2>3. Slack <= 2 * Poll
    BY <2>2 DEF Slack
  <2>4. QED
    BY <2>1, <2>2, <2>3 DEF Waiting, Times
<1>2. TypeOK /\ Patient /\ [Next]_vars => Patient'
  BY PatientNext
<1>3. QED
  BY <1>1, <1>2, PaceInit, TimesCorrect, PTL DEF Spec
=============================================================================
