--------------------------- MODULE FailSafeProofs ---------------------------
(***************************************************************************)
(* The firmware with its communication watchdog runs both components, and  *)
(* a loss of communication ends with the relays off, for every width of    *)
(* the clock, every period, capacity and number of relays and attempts.    *)
(***************************************************************************)
EXTENDS FailSafe, InterlockProofs, CommsWatchdogProofs

FailSafeStep == [FailSafeNext]_failSafeVars

-----------------------------------------------------------------------------
(* Every step is one of each component.                                    *)

LEMMA FailSafeIsInterlock == FailSafeStep => [Next]_vars
<1>. SUFFICES ASSUME FailSafeStep
              PROVE  Next \/ UNCHANGED vars
  OBVIOUS
<1>1. CASE Others \/ Spawns
  BY <1>1 DEF Others, Spawns, Next, Boot, Tasks
<1>2. CASE Locks \/ Resets \/ Trips \/ RestartsAll
  BY <1>2 DEF Locks, Resets, Trips, RestartsAll, Next, Boot, Tasks
<1>3. CASE Unblocks
  BY <1>3 DEF Unblocks, Next, Tasks, Sender
<1>4. CASE Looks \/ Sessions \/ World \/ UNCHANGED failSafeVars
  BY <1>4 DEF Looks, Sessions, World, failSafeVars
<1>. QED  BY <1>1, <1>2, <1>3, <1>4 DEF FailSafeStep, FailSafeNext

(* Every theorem about the interlock holds of the firmware with its        *)
(* watchdog: a trip is a lock with its AllOff (watchdog.rs:83-93).         *)
THEOREM FailSafeRunsTheInterlock == FailSafeSpec => Spec
<1>1. FailSafeInit => Init
  BY DEF FailSafeInit
<1>. QED
  BY <1>1, FailSafeIsInterlock, PTL DEF FailSafeSpec, Spec, FailSafeStep

LEMMA FailSafeIsWatchdog == FailSafeStep => [WatchdogNext]_watchdogVars
<1>. SUFFICES ASSUME FailSafeStep
              PROVE  WatchdogNext \/ UNCHANGED watchdogVars
  OBVIOUS
<1>1. CASE Others \/ Spawns \/ UNCHANGED failSafeVars
  BY <1>1 DEF Others, Spawns, failSafeVars
<1>2. CASE Locks \/ Resets \/ Looks \/ Trips \/ Unblocks
  BY <1>2 DEF Locks, Resets, Looks, Trips, Unblocks, WatchdogNext
<1>3. CASE RestartsAll \/ Sessions \/ World
  BY <1>3 DEF RestartsAll, Sessions, World, WatchdogNext
<1>. QED  BY <1>1, <1>2, <1>3 DEF FailSafeStep, FailSafeNext

(* Every theorem about the watchdog holds of the firmware: what engages or *)
(* clears the interlock beside it, and when its send ends, is as module    *)
(* CommsWatchdog allows (inputs.rs:86-125, relays.rs:235-245).             *)
THEOREM FailSafeRunsTheWatchdog == FailSafeSpec => WatchdogSpec
<1>1. FailSafeInit => WatchdogInit
  BY DEF FailSafeInit
<1>. QED
  BY <1>1, FailSafeIsWatchdog, PTL DEF FailSafeSpec, WatchdogSpec, FailSafeStep

-----------------------------------------------------------------------------
(* A watchdog_task that has not finished its send is suspended with the    *)
(* AllOff.                                                                 *)
SendingInv == sending => pending["watchdog"] = AllOff

(* Other tasks leave what the watchdog is suspended with alone.            *)
LEMMA OthersKeepPending ==
  ASSUME IInv, Others
  PROVE  pending'["watchdog"] = pending["watchdog"]
<1>. USE DEF IInv, TypeOK, ChannelTypeOK
<1>1. ASSUME NEW s \in Sender \ {"watchdog"}, NEW c, Send(s, c)
      PROVE  pending'["watchdog"] = pending["watchdog"]
  BY <1>1 DEF Send, Sender
<1>2. CASE UNCHANGED pending
  BY <1>2
<1>3. CASE EarlyFailure \/ RelaysNewOk \/ RelaysNewRetry \/ RelaysNewFails
  BY <1>2, <1>3
  DEF EarlyFailure, RelaysNewOk, RelaysNewRetry, RelaysNewFails, UnchangedTasks, channelVars
<1>4. CASE RelayTask \/ Debounce \/ PublisherWakes \/ Wiring
  BY <1>2, <1>4
  DEF RelayTask, Receive, WriteOk, WriteRetry, WriteGiveUp, Debounce, DebounceExpires,
      PublisherWakes, Wiring, channelVars
<1>5. CASE \E s \in Sender \ {"watchdog"} : Executor(s)
  BY <1>5 DEF Executor, Deliver, Sender
<1>6. CASE InputTask
  BY <1>1, <1>6 DEF InputTask, InputPoll, Sender
<1>7. CASE Button
  BY <1>1, <1>7 DEF Button, ButtonPress, ChaseStep, ChaseEnd, Sender
<1>8. CASE MqttSubscriber
  BY <1>1, <1>8 DEF MqttSubscriber, MqttSet, TrySafetyReset, Sender
<1>9. CASE WebServer
  BY <1>1, <1>9 DEF WebServer, WebSet, Sender
<1>. QED
  BY <1>3, <1>4, <1>5, <1>6, <1>7, <1>8, <1>9 DEF Others

LEMMA SendingInvStep == IInv /\ SendingInv /\ FailSafeStep => SendingInv'
<1>. SUFFICES ASSUME IInv, SendingInv, FailSafeStep
              PROVE  SendingInv'
  OBVIOUS
<1>1. CASE Others
  BY <1>1, OthersKeepPending
  DEF Others, watchdogVars, taskVars, SendingInv
<1>2. CASE Spawns
  BY <1>2
  DEF Spawns, LinkUp, UnchangedTasks, channelVars, watchdogVars, taskVars, SendingInv
<1>3. CASE Locks
  <2>1. UNCHANGED pending \/ \E c : Send("inputs", c)
    BY <1>3 DEF Locks, InputTask, InputPoll
  <2>2. pending'["watchdog"] = pending["watchdog"]
    BY <2>1 DEF Send, IInv, TypeOK, ChannelTypeOK, Sender
  <2>. QED  BY <1>3, <2>2 DEF Locks, InputLocks, SendingInv
<1>4. CASE Resets
  <2>1. UNCHANGED pending
    BY <1>4
    DEF Resets, OperatorResets, MqttSubscriber, MqttSet, TrySafetyReset
  <2>. QED  BY <1>4, <2>1 DEF Resets, OperatorResets, SendingInv
<1>5. CASE Looks
  BY <1>5
  DEF Looks, WatchdogPoll, vars, channelVars, safetyVars, SendingInv, IInv, TypeOK, SafetyTypeOK
<1>6. CASE Trips
  BY <1>6
  DEF Trips, WatchdogTrips, NotSuspended, Send, SendingInv, IInv, TypeOK, ChannelTypeOK, Sender
<1>7. CASE Unblocks \/ RestartsAll
  BY <1>7 DEF Unblocks, SendEnds, RestartsAll, ControllerRestarts, SendingInv
<1>8. CASE Sessions
  BY <1>8
  DEF Sessions, Publisher, Connect, Opened, Publish, PublishBlocks, PublishResumes,
      PublishFails, UnchangedByPublisher, vars, channelVars, SendingInv
<1>9. CASE World
  BY <1>9 DEF World, WorldChanges, Tick, taskVars, vars, channelVars, SendingInv
<1>10. CASE UNCHANGED failSafeVars
  BY <1>10 DEF failSafeVars, vars, channelVars, watchdogVars, taskVars, SendingInv
<1>. QED
  BY <1>1, <1>2, <1>3, <1>4, <1>5, <1>6, <1>7, <1>8, <1>9, <1>10
  DEF FailSafeStep, FailSafeNext

(* The task that CommsWatchdog calls sending is suspended in the channel   *)
(* of RelayChannel, with the AllOff of its trip (watchdog.rs:85-93).       *)
THEOREM SendingIsSuspended == FailSafeSpec => []SendingInv
<1>1. FailSafeInit => SendingInv
  BY DEF FailSafeInit, WatchdogInit, SendingInv
<1>2. FailSafeSpec => []IInv
  BY FailSafeRunsTheInterlock, Invariance, PTL
<1>. QED
  BY <1>1, <1>2, SendingInvStep, PTL DEF FailSafeSpec, FailSafeStep

-----------------------------------------------------------------------------
(* End to end                                                              *)

LEMMA SureWhenLocked ==
  ASSUME OffIsComing, SendingInv, sending \/ locked
  PROVE  OffIsSure
<1>1. CASE sending
  BY <1>1 DEF SendingInv, OffIsSure, AllOffSent, Sender
<1>2. CASE locked
  BY <1>2 DEF OffIsComing, OffIsSure
<1>. QED  BY <1>1, <1>2

(* A lost broker ends with the relays off or the AllOff on its way, in     *)
(* bounded time, whatever fails or blocks meanwhile (watchdog.rs:57-97).   *)
THEOREM LossTurnsOff == FailSafeSpec => []LossIsOff
<1>1. OffIsComing /\ SendingInv /\ LossLocks => LossIsOff
  BY SureWhenLocked DEF LossLocks, Watching, LossIsOff
<1>. QED
  BY <1>1, FailSafeRunsTheInterlock, FailSafeRunsTheWatchdog, SendingIsSuspended,
     OffAlwaysComing, LossAlwaysLocks, PTL

(* So does a publisher that falls silent (watchdog.rs:57-97).              *)
THEOREM SilenceTurnsOff == FailSafeSpec => []SilenceIsOff
<1>1. OffIsComing /\ SendingInv /\ SilenceLocks => SilenceIsOff
  BY SureWhenLocked DEF SilenceLocks, Watching, SilenceIsOff
<1>. QED
  BY <1>1, FailSafeRunsTheInterlock, FailSafeRunsTheWatchdog, SendingIsSuspended,
     OffAlwaysComing, SilenceAlwaysLocks, PTL

LEMMA ReasonStep ==
  ASSUME FailSafeStep, ~locked, locked',
         WatchdogPoll /\ ~locked /\ locked' => mqttAge > MQTT_GRACE \/ wifiAge' > WIFI_GRACE
  PROVE  \/ mqttAge > MQTT_GRACE
         \/ wifiAge' > WIFI_GRACE
         \/ ARM_SAFETY /\ streak' >= DEBOUNCE_REQUIRED
<1>1. ~(locked' = locked)
  OBVIOUS
<1>2. CASE Others \/ Spawns \/ UNCHANGED failSafeVars
  BY <1>1, <1>2 DEF Others, Spawns, failSafeVars, watchdogVars, taskVars
<1>3. CASE Locks
  BY <1>1, <1>3 DEF Locks, InputTask, InputPoll, AlarmCommitted
<1>4. CASE Looks \/ Trips
  BY <1>4 DEF Looks, Trips
<1>5. CASE Resets \/ Unblocks \/ RestartsAll
  BY <1>1, <1>5
  DEF Resets, OperatorResets, Unblocks, SendEnds, RestartsAll, ControllerRestarts
<1>6. CASE Sessions \/ World
  BY <1>1, <1>6 DEF Sessions, World, vars, safetyVars
<1>. QED
  BY <1>2, <1>3, <1>4, <1>5, <1>6 DEF FailSafeStep, FailSafeNext

(* The interlock engages only on a real silence or on a debounced alarm,   *)
(* wherever the clock wraps (watchdog.rs:66-84, inputs.rs:86-94).          *)
THEOREM LocksHaveReasons == FailSafeSpec => LockHasReason
<1>1. ASSUME [WatchdogPoll /\ ~locked /\ locked'
                => mqttAge > MQTT_GRACE \/ wifiAge' > WIFI_GRACE]_watchdogVars,
             FailSafeStep, ~locked, locked'
      PROVE  \/ mqttAge > MQTT_GRACE
             \/ wifiAge' > WIFI_GRACE
             \/ ARM_SAFETY /\ streak' >= DEBOUNCE_REQUIRED
  <2>1. ~UNCHANGED watchdogVars
    BY <1>1 DEF watchdogVars, taskVars
  <2>. QED  BY <1>1, <2>1, ReasonStep
<1>2. ( /\ [WatchdogPoll /\ ~locked /\ locked'
               => mqttAge > MQTT_GRACE \/ wifiAge' > WIFI_GRACE]_watchdogVars
        /\ [FailSafeNext]_failSafeVars )
        => [~locked /\ locked'
              => \/ mqttAge > MQTT_GRACE
                 \/ wifiAge' > WIFI_GRACE
                 \/ ARM_SAFETY /\ streak' >= DEBOUNCE_REQUIRED]_failSafeVars
  BY <1>1 DEF FailSafeStep
<1>. QED
  BY <1>2, FailSafeRunsTheWatchdog, NeverTripsFalsely, PTL
  DEF FailSafeSpec, NoFalseTrip, LockHasReason
=============================================================================
