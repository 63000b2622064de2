------------------------ MODULE CommsWatchdogProofs -------------------------
(***************************************************************************)
(* The communication watchdog, for every width of the clock and every      *)
(* period, grace period and timeout that WatchdogAssumption allows; those  *)
(* of the code among them.                                                 *)
(***************************************************************************)
EXTENDS CommsWatchdog, TLAPS

USE DEF taskVars, worldVars, recordVars

(* Until the clock has gone round, a stamp that is not the sentinel tells  *)
(* how long ago it was taken.                                              *)
MqttAgeInv ==
  mqttStamp # Never =>
    /\ petted
    /\ mqttAge < W => Elapsed(mqttStamp) = mqttAge

WifiAgeInv ==
  wifiStamp # Never /\ wifiAge =< WIFI_GRACE => Elapsed(wifiStamp) = wifiAge

(* watchdog_task has looked POLL - pollIn ticks ago.  If the interlock is  *)
(* open, the grace period was not over then, or the watchdog has had its   *)
(* turn, or the operator has, since.                                       *)
LookInv ==
  ~sending /\ ~locked /\ mqttStamp # Never /\ mqttAge < W
    => mqttAge + pollIn =< MQTT_GRACE + POLL \/ sinceOpen + pollIn =< POLL

(* A socket that still takes bytes has been silent for the whole outage.   *)
OutageInv ==
  /\ Reachable => outage = 0
  /\ session # "down" /\ SocketAlive => outage =< silence

(* The last publish that succeeded was within TCP_TIMEOUT of the outage.   *)
LastPetInv == petted /\ mqttAge < W => outage =< TCP_TIMEOUT + mqttAge

WatchdogIInv == WatchdogTypeOK /\ MqttAgeInv /\ WifiAgeInv /\ LookInv /\ OutageInv /\ LastPetInv

-----------------------------------------------------------------------------
(* The clock                                                               *)

LEMMA Constants ==
  /\ W \in Nat /\ POLL \in Nat /\ MQTT_GRACE \in Nat /\ WIFI_GRACE \in Nat
  /\ HEARTBEAT_PERIOD \in Nat /\ TCP_TIMEOUT \in Nat
  /\ W > 0 /\ POLL > 0 /\ MQTT_GRACE > 0 /\ WIFI_GRACE > 0
  /\ HEARTBEAT_PERIOD > 0 /\ TCP_TIMEOUT > 0
  /\ MQTT_GRACE + POLL < W /\ WIFI_GRACE + POLL < W
  /\ Never \in Clock /\ 0 \in Clock
BY WatchdogAssumption DEF Never, Clock

LEMMA ElapsedNow ==
  ASSUME now \in Clock
  PROVE  Elapsed(now) = 0
BY Constants DEF Clock, Elapsed

LEMMA ElapsedFrame ==
  ASSUME UNCHANGED now, NEW stamp
  PROVE  Elapsed(stamp)' = Elapsed(stamp)
BY DEF Elapsed

(* One tick adds one to the wrapping subtraction, wherever the clock is.   *)
LEMMA ElapsedTick ==
  ASSUME now \in Clock, NEW stamp \in Clock, now' = NextInstant, Elapsed(stamp) < W - 1
  PROVE  /\ (IF now' >= stamp THEN now' - stamp ELSE now' - stamp + W) = Elapsed(stamp) + 1
         /\ now' \in Clock
BY Constants DEF Clock, Elapsed, NextInstant
-----------------------------------------------------------------------------
(* Initial states                                                          *)

LEMMA WatchdogInitEstablishes == WatchdogInit => WatchdogIInv
<1>. SUFFICES ASSUME WatchdogInit PROVE WatchdogIInv
  OBVIOUS
<1>. USE Constants DEF WatchdogInit
<1>1. WatchdogTypeOK
  <2>1. {now, mqttStamp, wifiStamp} \subseteq Clock /\ session \in Session
    BY DEF Session
  <2>2. {sending, locked, wifiUp, brokerUp, petted} \subseteq BOOLEAN
    OBVIOUS
  <2>3. 0 \in 0 .. LossBound + 1
    BY DEF LossBound
  <2>. QED  BY <2>1, <2>2, <2>3 DEF WatchdogTypeOK
<1>2. MqttAgeInv /\ WifiAgeInv /\ LookInv
  BY DEF MqttAgeInv, WifiAgeInv, LookInv
<1>3. OutageInv /\ LastPetInv
  BY DEF OutageInv, LastPetInv
<1>. QED  BY <1>1, <1>2, <1>3 DEF WatchdogIInv

-----------------------------------------------------------------------------
(* The steps between two ticks.  A publish that succeeds takes its stamp   *)
(* now, from a socket that is alive; a publish that does not moves none.   *)

LEMMA PetStep ==
  ASSUME WatchdogIInv, Pet, UNCHANGED <<now, pollIn, sending, locked, sinceOpen, outage>>,
         outage =< TCP_TIMEOUT
  PROVE  MqttAgeInv' /\ LookInv' /\ LastPetInv'
<1>. USE Constants DEF WatchdogIInv, Pet
<1>1. now \in Clock /\ Elapsed(now)' = 0
  BY ElapsedNow, ElapsedFrame DEF WatchdogTypeOK
<1>2. MqttAgeInv'
  BY <1>1 DEF MqttAgeInv
<1>3. pollIn \in 0 .. POLL /\ sinceOpen \in Nat
  BY DEF WatchdogTypeOK
<1>4. LookInv'
  BY <1>3 DEF LookInv
<1>5. LastPetInv'
  BY DEF LastPetInv, WatchdogTypeOK
<1>. QED  BY <1>2, <1>4, <1>5

LEMMA NoPetStep ==
  ASSUME WatchdogIInv, NoPet, UNCHANGED <<now, pollIn, sending, locked, sinceOpen, outage>>
  PROVE  MqttAgeInv' /\ LookInv' /\ LastPetInv'
<1>. USE DEF WatchdogIInv, NoPet
<1>1. MqttAgeInv'
  BY ElapsedFrame DEF MqttAgeInv
<1>2. LookInv' /\ LastPetInv'
  BY DEF LookInv, LastPetInv
<1>. QED  BY <1>1, <1>2

LEMMA WifiFrame ==
  ASSUME WifiAgeInv, UNCHANGED <<now, wifiStamp, wifiAge>>
  PROVE  WifiAgeInv'
BY ElapsedFrame DEF WifiAgeInv

LEMMA WatchdogPublisherStep ==
  ASSUME WatchdogIInv, Publisher
  PROVE  WatchdogIInv'
<1>. USE Constants
<1>1. /\ UNCHANGED <<wifiStamp, pollIn, sending, locked, now, wifiUp, brokerUp>>
      /\ UNCHANGED <<wifiAge, outage, sinceOpen>>
  BY DEF Publisher, Connect, Opened, Publish, PublishBlocks, PublishResumes, PublishFails,
         UnchangedByPublisher
<1>2. NoPet \/ (Pet /\ outage =< TCP_TIMEOUT)
  <2>1. CASE Connect
    BY <2>1 DEF Connect, WatchdogIInv, OutageInv
  <2>2. CASE Publish \/ PublishResumes
    BY <2>2 DEF Publish, PublishResumes, WatchdogIInv, OutageInv, SocketAlive, WatchdogTypeOK
  <2>3. CASE Opened \/ PublishBlocks \/ PublishFails
    BY <2>3 DEF Opened, PublishBlocks, PublishFails
  <2>. QED  BY <2>1, <2>2, <2>3 DEF Publisher
<1>3. MqttAgeInv' /\ LookInv' /\ LastPetInv'
  BY <1>1, <1>2, PetStep, NoPetStep
<1>4. WifiAgeInv'
  BY <1>1, WifiFrame DEF WatchdogIInv
<1>5. OutageInv'
  <2>1. CASE Connect
    BY <1>1, <2>1 DEF Connect, WatchdogIInv, OutageInv, Reachable
  <2>2. CASE ~Connect
    <3>1. session # "down" /\ UNCHANGED silence
      BY <2>2 DEF Publisher, Opened, Publish, PublishBlocks, PublishResumes, PublishFails,
                  UnchangedByPublisher
    <3>. QED  BY <1>1, <3>1 DEF WatchdogIInv, OutageInv, Reachable, SocketAlive
  <2>. QED  BY <2>1, <2>2
<1>6. WatchdogTypeOK'
  <2>1. session' \in Session /\ heartbeatIn' \in 0 .. HEARTBEAT_PERIOD /\ silence' \in 0 .. TCP_TIMEOUT
    BY DEF Publisher, Connect, Opened, Publish, PublishBlocks, PublishResumes, PublishFails,
           UnchangedByPublisher, WatchdogIInv, WatchdogTypeOK, Session
  <2>2. mqttStamp' \in Clock /\ petted' \in BOOLEAN /\ mqttAge' \in 0 .. W
    <3>1. CASE Pet
      BY <3>1 DEF Pet, WatchdogIInv, WatchdogTypeOK
    <3>2. CASE NoPet
      BY <3>2 DEF NoPet, WatchdogIInv, WatchdogTypeOK
    <3>. QED  BY <1>2, <3>1, <3>2
  <2>. QED  BY <1>1, <2>1, <2>2 DEF WatchdogIInv, WatchdogTypeOK
<1>. QED  BY <1>3, <1>4, <1>5, <1>6 DEF WatchdogIInv

(* A look that leaves the interlock open has found the stamp fresh.        *)
LEMMA WatchdogPollStep ==
  ASSUME WatchdogIInv, WatchdogPoll
  PROVE  WatchdogIInv'
<1>. USE Constants DEF WatchdogIInv, WatchdogPoll
<1>1. UNCHANGED <<now, mqttStamp, petted, mqttAge, session, outage, silence, wifiUp, brokerUp>>
  OBVIOUS
<1>2. WatchdogTypeOK'
  <2>1. wifiStamp' \in Clock /\ wifiAge' \in 0 .. WIFI_GRACE + 1
    BY DEF WatchdogTypeOK, SeesLink
  <2>2. locked' \in BOOLEAN /\ sending' \in BOOLEAN
    BY DEF WatchdogTypeOK
  <2>. QED  BY <1>1, <2>1, <2>2 DEF WatchdogTypeOK
<1>3. MqttAgeInv'
  BY <1>1, ElapsedFrame DEF MqttAgeInv
<1>4. WifiAgeInv'
  <2>1. CASE wifiUp
    BY <1>1, <2>1, ElapsedFrame, ElapsedNow DEF WifiAgeInv, SeesLink, WatchdogTypeOK
  <2>2. CASE ~wifiUp
    BY <1>1, <2>2, WifiFrame DEF SeesLink
  <2>. QED  BY <2>1, <2>2
<1>5. LookInv'
  <2>1. SUFFICES ASSUME ~locked', mqttStamp # Never, mqttAge < W
                 PROVE  mqttAge + POLL =< MQTT_GRACE + POLL
    BY <1>1 DEF LookInv
  <2>2. ~Down(mqttStamp, MQTT_GRACE)
    BY <2>1
  <2>3. Elapsed(mqttStamp) = mqttAge
    BY <2>1 DEF MqttAgeInv
  <2>. QED  BY <2>1, <2>2, <2>3 DEF Down, WatchdogTypeOK
<1>6. OutageInv' /\ LastPetInv'
  BY <1>1 DEF OutageInv, LastPetInv, Reachable, SocketAlive
<1>. QED  BY <1>2, <1>3, <1>4, <1>5, <1>6

(* Steps that move no stamp and no age: whoever opens the interlock, or    *)
(* sets the watchdog going again, gives it its turn.                       *)
LEMMA OthersStep ==
  ASSUME WatchdogIInv, SendEnds \/ OperatorResets \/ InputLocks \/ WorldChanges
  PROVE  WatchdogIInv'
<1>. USE Constants DEF WatchdogIInv, SendEnds, OperatorResets, InputLocks, WorldChanges
<1>1. UNCHANGED <<now, mqttStamp, wifiStamp, pollIn, session, heartbeatIn, petted, mqttAge, wifiAge>>
  OBVIOUS
<1>2. WatchdogTypeOK'
  <2>1. sending' \in BOOLEAN /\ locked' \in BOOLEAN /\ wifiUp' \in BOOLEAN /\ brokerUp' \in BOOLEAN
    BY DEF WatchdogTypeOK
  <2>2. silence' \in 0 .. TCP_TIMEOUT /\ outage' \in 0 .. LossBound + 1 /\ sinceOpen' \in 0 .. POLL + 1
    BY DEF WatchdogTypeOK, LossBound
  <2>. QED  BY <1>1, <2>1, <2>2 DEF WatchdogTypeOK
<1>3. MqttAgeInv' /\ WifiAgeInv'
  BY <1>1, ElapsedFrame DEF MqttAgeInv, WifiAgeInv
<1>4. LookInv'
  <2>1. pollIn \in 0 .. POLL
    BY DEF WatchdogTypeOK
  <2>. QED  BY <1>1, <2>1 DEF LookInv
<1>5. OutageInv'
  <2>1. CASE WorldChanges
    BY <1>1, <2>1 DEF OutageInv, SocketAlive, WatchdogTypeOK
  <2>2. CASE ~WorldChanges
    BY <1>1, <2>2 DEF OutageInv, Reachable, SocketAlive
  <2>. QED  BY <2>1, <2>2
<1>6. LastPetInv'
  BY <1>1 DEF LastPetInv, WatchdogTypeOK
<1>. QED  BY <1>2, <1>3, <1>4, <1>5, <1>6

(* A restart leaves no stamp, and no session that could hide an outage.    *)
LEMMA ControllerRestartsStep ==
  ASSUME WatchdogIInv, ControllerRestarts
  PROVE  WatchdogIInv'
<1>. USE Constants DEF WatchdogIInv, ControllerRestarts
<1>1. WatchdogTypeOK'
  <2>1. {now', mqttStamp', wifiStamp'} \subseteq Clock /\ session' \in Session
    BY DEF Session
  <2>2. {sending', locked', wifiUp', brokerUp', petted'} \subseteq BOOLEAN
    BY DEF WatchdogTypeOK
  <2>3. 0 \in 0 .. LossBound + 1
    BY DEF LossBound
  <2>. QED  BY <2>1, <2>2, <2>3 DEF WatchdogTypeOK
<1>2. MqttAgeInv' /\ WifiAgeInv' /\ LookInv'
  BY DEF MqttAgeInv, WifiAgeInv, LookInv
<1>3. OutageInv' /\ LastPetInv'
  BY DEF OutageInv, LastPetInv
<1>. QED  BY <1>1, <1>2, <1>3

-----------------------------------------------------------------------------
(* A tick.  All ages grow together, and the time to the next look shrinks. *)

LEMMA TickTypes ==
  ASSUME WatchdogIInv, Tick
  PROVE  WatchdogTypeOK'
<1>. USE Constants DEF WatchdogIInv, Tick, WatchdogTypeOK
<1>1. now' \in Clock
  BY DEF NextInstant, Clock
<1>2. pollIn' \in 0 .. POLL /\ heartbeatIn' \in 0 .. HEARTBEAT_PERIOD
  BY DEF Session
<1>3. silence' \in 0 .. TCP_TIMEOUT
  BY DEF SocketAlive
<1>4. mqttAge' \in 0 .. W /\ wifiAge' \in 0 .. WIFI_GRACE + 1
  BY DEF Later
<1>5. outage' \in 0 .. LossBound + 1
  BY DEF Later, LossBound
<1>6. sinceOpen' \in 0 .. POLL + 1
  OBVIOUS
<1>. QED  BY <1>1, <1>2, <1>3, <1>4, <1>5, <1>6

LEMMA TickStep ==
  ASSUME WatchdogIInv, Tick
  PROVE  WatchdogIInv'
<1>. USE Constants DEF WatchdogIInv, Tick
<1>1. WatchdogTypeOK'
  BY TickTypes
<1>2. /\ now \in Clock /\ mqttStamp \in Clock /\ wifiStamp \in Clock
      /\ mqttAge \in 0 .. W /\ wifiAge \in 0 .. WIFI_GRACE + 1
      /\ pollIn \in 0 .. POLL /\ sinceOpen \in 0 .. POLL + 1
      /\ silence \in 0 .. TCP_TIMEOUT /\ outage \in 0 .. LossBound + 1
  BY DEF WatchdogTypeOK
<1>3. MqttAgeInv'
  <2>1. SUFFICES ASSUME mqttStamp # Never, mqttAge' < W
                 PROVE  petted /\ Elapsed(mqttStamp)' = mqttAge'
    BY DEF MqttAgeInv
  <2>2. petted
    BY <2>1 DEF MqttAgeInv
  <2>3. mqttAge' = mqttAge + 1 /\ mqttAge < W - 1
    BY <1>2, <2>1, <2>2 DEF Later
  <2>4. Elapsed(mqttStamp) = mqttAge
    BY <1>2, <2>1, <2>3 DEF MqttAgeInv
  <2>. QED  BY <1>2, <2>2, <2>3, <2>4, ElapsedTick DEF Elapsed
<1>4. WifiAgeInv'
  <2>1. SUFFICES ASSUME wifiStamp # Never, wifiAge' =< WIFI_GRACE
                 PROVE  Elapsed(wifiStamp)' = wifiAge'
    BY DEF WifiAgeInv
  <2>2. wifiAge' = wifiAge + 1 /\ wifiAge < WIFI_GRACE
    BY <1>2, <2>1 DEF Later
  <2>3. Elapsed(wifiStamp) = wifiAge /\ wifiAge < W - 1
    BY <1>2, <2>1, <2>2 DEF WifiAgeInv
  <2>. QED  BY <1>2, <2>2, <2>3, ElapsedTick DEF Elapsed
<1>5. LookInv'
  <2>1. SUFFICES ASSUME ~sending, ~locked, mqttStamp # Never, mqttAge' < W
                 PROVE  \/ mqttAge' + pollIn' =< MQTT_GRACE + POLL
                        \/ sinceOpen' + pollIn' =< POLL
    BY DEF LookInv
  <2>2. mqttAge' = mqttAge + 1 /\ mqttAge < W
    BY <1>2, <2>1 DEF Later, MqttAgeInv
  <2>3. pollIn' = pollIn - 1
    BY <2>1
  <2>4. CASE mqttAge + pollIn =< MQTT_GRACE + POLL
    BY <1>2, <2>2, <2>3, <2>4
  <2>5. CASE sinceOpen + pollIn =< POLL
    <3>1. sinceOpen' = sinceOpen + 1
      BY <1>2, <2>5
    <3>. QED  BY <1>2, <2>3, <2>5, <3>1
  <2>. QED  BY <2>1, <2>2, <2>4, <2>5 DEF LookInv
<1>6. OutageInv'
  <2>1. (Reachable <=> Reachable') /\ UNCHANGED session
    BY DEF Reachable
  <2>2. CASE Reachable
    BY <1>1, <2>1, <2>2 DEF OutageInv, WatchdogTypeOK
  <2>3. CASE ~Reachable
    <3>1. outage' =< outage + 1
      BY <1>2, <2>3 DEF Later
    <3>2. session # "down" /\ SocketAlive' => SocketAlive /\ silence' = silence + 1
      BY <1>2, <2>3 DEF SocketAlive
    <3>. QED  BY <1>1, <1>2, <2>1, <2>3, <3>1, <3>2 DEF OutageInv, WatchdogTypeOK
  <2>. QED  BY <2>2, <2>3
<1>7. LastPetInv'
  <2>1. SUFFICES ASSUME petted, mqttAge' < W
                 PROVE  outage' =< TCP_TIMEOUT + mqttAge'
    BY DEF LastPetInv
  <2>2. mqttAge' = mqttAge + 1 /\ mqttAge < W
    BY <1>2, <2>1 DEF Later
  <2>3. outage' =< outage + 1 \/ outage' = 0
    BY <1>2 DEF Later
  <2>. QED  BY <1>1, <1>2, <2>1, <2>2, <2>3 DEF LastPetInv, WatchdogTypeOK
<1>. QED  BY <1>1, <1>3, <1>4, <1>5, <1>6, <1>7

LEMMA WatchdogStutterStep ==
  ASSUME WatchdogIInv, UNCHANGED watchdogVars
  PROVE  WatchdogIInv'
<1>. USE DEF WatchdogIInv, watchdogVars
<1>1. WatchdogTypeOK' /\ OutageInv' /\ LastPetInv' /\ LookInv'
  BY DEF WatchdogTypeOK, OutageInv, LastPetInv, LookInv, Reachable, SocketAlive
<1>2. MqttAgeInv' /\ WifiAgeInv'
  BY ElapsedFrame DEF MqttAgeInv, WifiAgeInv
<1>. QED  BY <1>1, <1>2

LEMMA WatchdogNextPreserves == WatchdogIInv /\ [WatchdogNext]_watchdogVars => WatchdogIInv'
<1>. SUFFICES ASSUME WatchdogIInv, [WatchdogNext]_watchdogVars PROVE WatchdogIInv'
  OBVIOUS
<1>1. CASE Publisher
  BY <1>1, WatchdogPublisherStep
<1>2. CASE WatchdogPoll
  BY <1>2, WatchdogPollStep
<1>3. CASE SendEnds \/ OperatorResets \/ InputLocks \/ WorldChanges
  BY <1>3, OthersStep
<1>4. CASE Tick
  BY <1>4, TickStep
<1>5. CASE UNCHANGED watchdogVars
  BY <1>5, WatchdogStutterStep
<1>6. CASE ControllerRestarts
  BY <1>6, ControllerRestartsStep
<1>. QED  BY <1>1, <1>2, <1>3, <1>4, <1>5, <1>6 DEF WatchdogNext

-----------------------------------------------------------------------------
(* The inductive invariant holds of every behaviour.                       *)
THEOREM WatchdogInvariance == WatchdogSpec => []WatchdogIInv
BY WatchdogInitEstablishes, WatchdogNextPreserves, PTL DEF WatchdogSpec

(* Type correctness.                                                       *)
THEOREM WatchdogTypeCorrect == WatchdogSpec => []WatchdogTypeOK
<1>1. WatchdogIInv => WatchdogTypeOK
  BY DEF WatchdogIInv
<1>. QED  BY <1>1, WatchdogInvariance, PTL

(* A silence of the grace period and one poll finds the interlock engaged. *)
THEOREM SilenceAlwaysLocks == WatchdogSpec => []SilenceLocks
<1>1. WatchdogIInv => SilenceLocks
  BY Constants DEF WatchdogIInv, LookInv, SilenceLocks, Watching, WatchdogTypeOK
<1>. QED  BY <1>1, WatchdogInvariance, PTL

(* So does the loss of the broker, after the timeout of TCP in addition.   *)
THEOREM LossAlwaysLocks == WatchdogSpec => []LossLocks
<1>1. WatchdogIInv => LossLocks
  BY Constants DEF WatchdogIInv, LookInv, LastPetInv, LossLocks, LossBound, Watching, WatchdogTypeOK
<1>. QED  BY <1>1, WatchdogInvariance, PTL

(* The watchdog never trips on communication that is not silent, wherever  *)
(* the clock wraps.                                                        *)
THEOREM NeverTripsFalsely == WatchdogSpec => NoFalseTrip
<1>1. ASSUME WatchdogIInv, WatchdogPoll, ~locked, locked'
      PROVE  mqttAge > MQTT_GRACE \/ wifiAge' > WIFI_GRACE
  <2>. USE Constants
  <2>1. WatchdogIInv'
    BY <1>1, WatchdogPollStep
  <2>2. UNCHANGED now
    BY <1>1 DEF WatchdogPoll
  <2>3. Down(mqttStamp, MQTT_GRACE) \/ Down(wifiStamp', WIFI_GRACE)
    BY <1>1 DEF WatchdogPoll
  <2>4. CASE Down(mqttStamp, MQTT_GRACE)
    BY <1>1, <2>4 DEF WatchdogIInv, MqttAgeInv, Down, WatchdogTypeOK
  <2>5. CASE Down(wifiStamp', WIFI_GRACE)
    <3>1. Elapsed(wifiStamp)' = Elapsed(wifiStamp')
      BY <2>2 DEF Elapsed
    <3>. QED  BY <2>1, <2>5, <3>1 DEF WatchdogIInv, WifiAgeInv, Down, WatchdogTypeOK
  <2>. QED  BY <2>3, <2>4, <2>5
<1>2. WatchdogIInv /\ [WatchdogNext]_watchdogVars
        => [WatchdogPoll /\ ~locked /\ locked'
              => mqttAge > MQTT_GRACE \/ wifiAge' > WIFI_GRACE]_watchdogVars
  BY <1>1
<1>. QED  BY <1>2, WatchdogInvariance, PTL DEF WatchdogSpec, NoFalseTrip
=============================================================================
