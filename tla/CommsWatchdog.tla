--------------------------- MODULE CommsWatchdog ----------------------------
(***************************************************************************)
(* The communication fail-safe: watchdog_task (src/watchdog.rs) over the   *)
(* link (src/wifi.rs) and the session of mqtt_publisher_task (src/mqtt.rs) *)
(* that pets it.                                                           *)
(*                                                                         *)
(* Time passes in ticks.  The 32-bit millisecond clock is a clock modulo   *)
(* W, so that it wraps within a run; u32::MAX is W - 1.  A timer that is   *)
(* due fires before the next tick: tasks are cooperative and short.        *)
(* External are the link, the broker and the TCP stack, which accepts      *)
(* bytes for a silent peer until its timeout aborts the socket.            *)
(***************************************************************************)
EXTENDS Integers, LockFlag

CONSTANTS W,                 (* 2^32                                        *)
          POLL,              (* between two looks of watchdog_task          *)
          MQTT_GRACE,        (* silence of the publisher that is tolerated  *)
          WIFI_GRACE,        (* absence of an IP address that is tolerated  *)
          HEARTBEAT_PERIOD,  (* between two publishes of an idle publisher  *)
          TCP_TIMEOUT        (* silence of the peer that aborts the socket  *)

ASSUME WatchdogAssumption ==
  /\ {W, POLL, MQTT_GRACE, WIFI_GRACE, HEARTBEAT_PERIOD, TCP_TIMEOUT} \subseteq Nat \ {0}
  /\ MQTT_GRACE + POLL < W
  /\ WIFI_GRACE + POLL < W

VARIABLES
  now,          \* now_ms_u32()
  mqttStamp,    \* MQTT_LAST_OK_MS
  wifiStamp,    \* WIFI_LAST_OK_MS
  pollIn,       \* ticks until watchdog_task looks again
  sending,      \* watchdog_task is suspended in its send of AllOff
  session,      \* what mqtt_publisher_task is doing
  heartbeatIn,  \* ticks until its heartbeat
  wifiUp,       \* the stack has an address: config_v4().is_some()
  brokerUp,     \* the broker answers, if the link is up
  silence       \* ticks for which the peer of the open socket has been silent

(* Records of what really happened, read by the properties only.           *)
VARIABLES
  petted,       \* a publish has succeeded since boot
  mqttAge,      \* ticks since the last one
  wifiAge,      \* ticks since watchdog_task last saw an address
  outage,       \* ticks since the broker became unreachable
  sinceOpen     \* ticks since the operator's reset, or the end of a send

(* How long a supervisor may have to wait for the relays to be off.        *)
LossBound == TCP_TIMEOUT + MQTT_GRACE + POLL

taskVars   == <<mqttStamp, wifiStamp, pollIn, sending, locked, session, heartbeatIn>>
worldVars  == <<now, wifiUp, brokerUp, silence>>
recordVars == <<petted, mqttAge, wifiAge, outage, sinceOpen>>
watchdogVars == <<taskVars, worldVars, recordVars>>

Clock == 0 .. W - 1
Never == W - 1

(* down: between two sessions; opening: in the publishes that begin one;   *)
(* idle: in the select of the inner loop; blocked: in a send of that loop  *)
(* that waits for room in the socket's buffer.                             *)
Session == {"down", "opening", "idle", "blocked"}

Reachable == wifiUp /\ brokerUp

WatchdogTypeOK == /\ {now, mqttStamp, wifiStamp} \subseteq Clock
                  /\ pollIn \in 0 .. POLL
                  /\ {sending, locked, wifiUp, brokerUp, petted} \subseteq BOOLEAN
                  /\ session \in Session
                  /\ heartbeatIn \in 0 .. HEARTBEAT_PERIOD
                  /\ silence \in 0 .. TCP_TIMEOUT
                  /\ mqttAge \in 0 .. W
                  /\ wifiAge \in 0 .. WIFI_GRACE + 1
                  /\ outage \in 0 .. LossBound + 1
                  /\ sinceOpen \in 0 .. POLL + 1

(* watchdog_task is spawned when the link is up, the other tasks with it.  *)
WatchdogInit == /\ now \in Clock
                /\ mqttStamp = Never
                /\ wifiStamp = Never
                /\ pollIn = 0
                /\ sending = FALSE
                /\ locked \in BOOLEAN
                /\ session = "down"
                /\ heartbeatIn = HEARTBEAT_PERIOD
                /\ wifiUp = TRUE
                /\ brokerUp \in BOOLEAN
                /\ silence = 0
                /\ petted = FALSE
                /\ mqttAge = 0
                /\ wifiAge = 0
                /\ outage = 0
                /\ sinceOpen = POLL + 1

-----------------------------------------------------------------------------
(* mqtt_publisher_task                                                     *)

(* pet_mqtt()                                                              *)
Pet == /\ mqttStamp' = now
       /\ petted' = TRUE
       /\ mqttAge' = 0

NoPet == UNCHANGED <<mqttStamp, petted, mqttAge>>

(* A session opens.  The first publish, QoS 1, may fail and is then not    *)
(* repeated; the session goes on.                                          *)
Connect == /\ session = "down"
           /\ Reachable
           /\ Pet \/ NoPet
           /\ session' = "opening"
           /\ silence' = 0
           /\ UNCHANGED <<wifiStamp, pollIn, sending, locked, heartbeatIn, now, wifiUp,
                          brokerUp, wifiAge, outage, sinceOpen>>

UnchangedByPublisher == UNCHANGED <<wifiStamp, pollIn, sending, locked, worldVars,
                                    wifiAge, outage, sinceOpen>>

(* Mutation: the socket is opened without set_timeout.                     *)
SocketForEver == TRUE

SocketAlive == silence < TCP_TIMEOUT

(* Discovery and the initial state are sent, or their sends failed: both   *)
(* leave the session open and the watchdog unpetted.                       *)
Opened == /\ session = "opening"
          /\ session' = "idle"
          /\ heartbeatIn' = HEARTBEAT_PERIOD
          /\ NoPet
          /\ UnchangedByPublisher

(* The heartbeat, or a publish because of STATE_CHANGED or TEMPERATURE.    *)
(* The socket takes the bytes whether or not the peer still answers.       *)
Publish == /\ session = "idle"
           /\ SocketAlive
           /\ Pet
           /\ heartbeatIn' = HEARTBEAT_PERIOD
           /\ UNCHANGED session
           /\ UnchangedByPublisher

PublishBlocks == /\ session = "idle"
                 /\ SocketAlive
                 /\ ~Reachable
                 /\ session' = "blocked"
                 /\ NoPet
                 /\ UNCHANGED heartbeatIn
                 /\ UnchangedByPublisher

PublishResumes == /\ session = "blocked"
                  /\ SocketAlive
                  /\ Reachable
                  /\ session' = "idle"
                  /\ heartbeatIn' = HEARTBEAT_PERIOD
                  /\ Pet
                  /\ UnchangedByPublisher

(* A send fails: the session ends.  The peer may also close it.            *)
PublishFails == /\ session \in {"idle", "blocked"}
                /\ ~SocketAlive \/ Reachable
                /\ session' = "down"
                /\ NoPet
                /\ UNCHANGED heartbeatIn
                /\ UnchangedByPublisher

-----------------------------------------------------------------------------
(* watchdog_task                                                           *)

(* now.wrapping_sub(stamp)                                                 *)
Elapsed(stamp) == IF now >= stamp THEN now - stamp ELSE now - stamp + W

(* Mutation: the subtraction does not wrap but saturates.                  *)
DownSaturating(stamp, grace) == /\ stamp # Never
                                /\ (IF now >= stamp THEN now - stamp ELSE 0) > grace

(* Mutation: the sentinel is taken for a stamp.                            *)
DownWithoutSentinel(stamp, grace) == Elapsed(stamp) > grace

Down(stamp, grace) == stamp # Never /\ Elapsed(stamp) > grace

SeesLink == IF wifiUp
            THEN wifiStamp' = now /\ wifiAge' = 0
            ELSE UNCHANGED <<wifiStamp, wifiAge>>

WatchdogPoll ==
  /\ ~sending
  /\ pollIn = 0
  /\ SeesLink
  /\ IF (Down(mqttStamp, MQTT_GRACE) \/ Down(wifiStamp', WIFI_GRACE)) /\ ~locked
     THEN locked' = TRUE /\ sending' \in BOOLEAN
     ELSE UNCHANGED <<locked, sending>>
  /\ pollIn' = POLL
  /\ UNCHANGED <<mqttStamp, session, heartbeatIn, worldVars, petted, mqttAge, outage, sinceOpen>>

(* The relay channel takes the AllOff of a suspended watchdog_task.        *)
SendEnds == /\ sending
            /\ sending' = FALSE
            /\ sinceOpen' = 0
            /\ UNCHANGED <<mqttStamp, wifiStamp, pollIn, locked, session, heartbeatIn,
                           worldVars, petted, mqttAge, wifiAge, outage>>

-----------------------------------------------------------------------------
(* The interlock's other users, and the world                              *)

(* kc868/safety/reset.  It may have waited in the subscriber's connection: *)
(* the broker need not be reachable any more.                              *)
OperatorResets == /\ locked
                  /\ locked' = FALSE
                  /\ sinceOpen' = 0
                  /\ UNCHANGED <<mqttStamp, wifiStamp, pollIn, sending, session, heartbeatIn,
                                 worldVars, petted, mqttAge, wifiAge, outage>>

InputLocks == /\ ~locked
              /\ locked' = TRUE
              /\ UNCHANGED <<mqttStamp, wifiStamp, pollIn, sending, session, heartbeatIn,
                             worldVars, recordVars>>

(* A restart loses stamps, session and interlock; the world goes on.  The   *)
(* tasks start again when the link is up, which may be lost at once.       *)
ControllerRestarts ==
  /\ now' \in Clock
  /\ mqttStamp' = Never
  /\ wifiStamp' = Never
  /\ pollIn' = 0
  /\ sending' = FALSE
  /\ locked' = FALSE
  /\ session' = "down"
  /\ heartbeatIn' = HEARTBEAT_PERIOD
  /\ silence' = 0
  /\ petted' = FALSE
  /\ mqttAge' = 0
  /\ wifiAge' = 0
  /\ outage' = 0
  /\ sinceOpen' = POLL + 1
  /\ UNCHANGED <<wifiUp, brokerUp>>

WorldChanges == /\ \/ wifiUp' = ~wifiUp /\ UNCHANGED brokerUp
                   \/ brokerUp' = ~brokerUp /\ UNCHANGED wifiUp
                /\ silence' = IF Reachable' THEN (IF SocketAlive THEN 0 ELSE silence) ELSE silence
                /\ outage' = IF Reachable' THEN 0 ELSE outage
                /\ UNCHANGED <<taskVars, now, petted, mqttAge, wifiAge, sinceOpen>>

(* The records stop counting where the properties stop telling apart.      *)
Later(age, bound) == IF age < bound THEN age + 1 ELSE age

(* Mutation: the milliseconds are not truncated to 32 bits.                *)
NextInstantWide == now + 1

NextInstant == IF now = W - 1 THEN 0 ELSE now + 1

Tick ==
  /\ pollIn > 0 \/ sending
  /\ session = "idle" => heartbeatIn > 0
  /\ now' = NextInstant
  /\ pollIn' = IF sending THEN pollIn ELSE pollIn - 1
  /\ heartbeatIn' = IF session = "idle" THEN heartbeatIn - 1 ELSE heartbeatIn
  /\ silence' = IF session # "down" /\ ~Reachable /\ SocketAlive THEN silence + 1 ELSE silence
  /\ mqttAge' = IF petted THEN Later(mqttAge, W) ELSE mqttAge
  /\ wifiAge' = Later(wifiAge, WIFI_GRACE + 1)
  /\ outage' = IF Reachable THEN 0 ELSE Later(outage, LossBound + 1)
  /\ sinceOpen' = IF sinceOpen > POLL THEN sinceOpen ELSE sinceOpen + 1
  /\ UNCHANGED <<mqttStamp, wifiStamp, sending, locked, session, wifiUp, brokerUp, petted>>

Publisher == Connect \/ Opened \/ Publish \/ PublishBlocks \/ PublishResumes \/ PublishFails

WatchdogNext == \/ Publisher \/ WatchdogPoll \/ SendEnds \/ OperatorResets \/ InputLocks
                \/ ControllerRestarts \/ WorldChanges \/ Tick

WatchdogSpec == WatchdogInit /\ [][WatchdogNext]_watchdogVars

-----------------------------------------------------------------------------
(* watchdog_task has had the time to look, and did not stop in its send.   *)
Watching == ~sending /\ sinceOpen > POLL

(* The watchdog engages the interlock only after a real silence of its     *)
(* grace period, whenever the clock wraps (watchdog.rs watchdog_task).     *)
NoFalseTrip ==
  [][WatchdogPoll /\ ~locked /\ locked'
       => mqttAge > MQTT_GRACE \/ wifiAge' > WIFI_GRACE]_watchdogVars

(* A publisher that has been silent for longer than the grace period and   *)
(* one poll finds the interlock engaged, also when the operator cleared it *)
(* during the silence.  The clock must not have wrapped since the stamp    *)
(* and the stamp must not be the sentinel (watchdog.rs:83-95).             *)
SilenceLocks ==
  Watching /\ mqttStamp # Never /\ mqttAge > MQTT_GRACE + POLL /\ mqttAge < W => locked

(* A supervisor that lost the controller may count on the relays being off *)
(* after the timeout of TCP, the grace period and one poll: publishes that *)
(* still succeed into a dead socket pet the watchdog no longer than that.  *)
LossLocks ==
  Watching /\ petted /\ mqttStamp # Never /\ outage > LossBound
    /\ mqttAge < W => locked

(* watchdog.rs:34-36: wraparound does not affect the freshness check.      *)
WrapIsHarmless ==
  Watching /\ petted /\ outage > LossBound /\ mqttAge < W
    => locked
=============================================================================
