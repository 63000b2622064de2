------------------------------ MODULE FailSafe ------------------------------
(***************************************************************************)
(* The loss of communication and the relays: module Interlock and module   *)
(* CommsWatchdog as one firmware (src/main.rs, src/watchdog.rs).  The two  *)
(* share LOCKED.  When the watchdog trips, which Interlock leaves open, is *)
(* here what CommsWatchdog says; what becomes of its AllOff, and what else *)
(* engages or clears the interlock, which CommsWatchdog leaves open, is    *)
(* here what the tasks of Interlock do.                                    *)
(***************************************************************************)
EXTENDS Interlock, CommsWatchdog

failSafeVars == <<vars, watchdogVars>>

FailSafeInit == Init /\ WatchdogInit

(* A step that neither concerns the watchdog nor moves the interlock.      *)
Others == /\ \/ EarlyFailure \/ RelaysNewOk \/ RelaysNewRetry \/ RelaysNewFails
             \/ RelayTask \/ Debounce \/ (\E s \in Sender \ {"watchdog"} : Executor(s))
             \/ InputTask \/ Button \/ MqttSubscriber \/ WebServer
             \/ PublisherWakes \/ Wiring
          /\ UNCHANGED watchdogVars

(* wait_for_link() returns while there is an address.                      *)
Spawns == /\ LinkUp
          /\ wifiUp
          /\ UNCHANGED watchdogVars

Locks  == InputTask /\ InputLocks

Resets == MqttSubscriber /\ OperatorResets

(* A look of watchdog_task that leaves the interlock as it is.             *)
Looks == /\ phase = "run"
         /\ NotSuspended("watchdog")
         /\ WatchdogPoll
         /\ UNCHANGED vars

(* A look that engages it: the task sends AllOff, and may be suspended.    *)
Trips == /\ WatchdogTrips
         /\ WatchdogPoll
         /\ sending' = (pending'["watchdog"] # Nothing)

Unblocks == Executor("watchdog") /\ SendEnds

RestartsAll == /\ FatalReset \/ ChipReset \/ PowerCycle \/ RelayTaskResets
               /\ ControllerRestarts

(* mqtt_publisher_task is spawned with the watchdog.                       *)
Sessions == /\ phase = "run"
            /\ Publisher
            /\ UNCHANGED vars

World == /\ WorldChanges \/ Tick
         /\ UNCHANGED vars

FailSafeNext == \/ Others \/ Spawns \/ Locks \/ Resets \/ Looks \/ Trips \/ Unblocks
                \/ RestartsAll \/ Sessions \/ World

FailSafeSpec == FailSafeInit /\ [][FailSafeNext]_failSafeVars

-----------------------------------------------------------------------------
(* An AllOff is on its way, or every relay is open and stays so.           *)
OffIsSure == AllOffSent \/ AllOffRunning \/ (port = {} /\ ~Landing)

(* A supervisor that lost the controller may count on the relays being off *)
(* or on an AllOff that is on its way to them, after the timeout of TCP,   *)
(* the grace period and one poll, unless the operator, or the end of a     *)
(* send that was blocked, has just given the watchdog its turn.  That      *)
(* watchdog_task may be suspended in a full channel makes no difference:   *)
(* its AllOff is then the one on its way (watchdog.rs:57-97, relays.rs     *)
(* apply).                                                                 *)
LossIsOff ==
  sinceOpen > POLL /\ petted /\ mqttStamp # Never /\ outage > LossBound /\ mqttAge < W
    => OffIsSure

(* The same of a publisher that has stopped publishing, for whatever       *)
(* reason, after the grace period and one poll (watchdog.rs:57-97).        *)
SilenceIsOff ==
  sinceOpen > POLL /\ mqttStamp # Never /\ mqttAge > MQTT_GRACE + POLL /\ mqttAge < W
    => OffIsSure

(* Nothing engages the interlock without a reason: a real silence of a     *)
(* grace period, or, with the loop armed, an alarm of DEBOUNCE_REQUIRED    *)
(* samples (watchdog.rs:66-84, inputs.rs:86-94).                           *)
LockHasReason ==
  [][~locked /\ locked'
       => \/ mqttAge > MQTT_GRACE
          \/ wifiAge' > WIFI_GRACE
          \/ ARM_SAFETY /\ streak' >= DEBOUNCE_REQUIRED]_failSafeVars
=============================================================================
