----------------------------- MODULE Controller -----------------------------
(***************************************************************************)
(* The relays and what the broker says about them: module Interlock and    *)
(* module MqttReports as one firmware (src/main.rs, src/mqtt.rs).  The     *)
(* two share ON_MASK, LOCKED and STATE_CHANGED, the restarts, and the      *)
(* connection on which requests arrive.  What MqttReports leaves open,     *)
(* when the mask and the interlock change, is here what the tasks do.      *)
(***************************************************************************)
EXTENDS Interlock, MqttReports

reportVars == <<publisherVars, conn, wire, brokerVars>>
controllerVars == <<vars, reportVars>>

ControllerInit == Init /\ ReportsInit

(* A step of a task that neither restarts the firmware nor uses the        *)
(* network, or of the wiring.                                              *)
Local == /\ \/ EarlyFailure \/ RelaysNewOk \/ RelaysNewRetry \/ RelaysNewFails \/ LinkUp
            \/ RelayTask \/ Debounce \/ (\E s \in Sender : Executor(s))
            \/ InputTask \/ Button \/ WebServer \/ WatchdogTrips \/ Wiring
         /\ UNCHANGED reportVars

(* handle_inbound() runs inside a session of mqtt_subscriber_task.         *)
Inbound == /\ conn["sub"] # "none"
           /\ MqttSubscriber
           /\ UNCHANGED reportVars

(* Every reset of the ESP32 takes both sessions with it; the latch of the  *)
(* relays, the broker and its retained values stay.                        *)
Restarts == /\ FatalReset \/ ChipReset \/ PowerCycle \/ RelayTaskResets
            /\ Restart

(* The publisher takes the signal and reads the mask before it awaits.     *)
SignalWakes == PublisherWakes /\ SignalReport

(* The network tasks are spawned once the link is up.                      *)
PublisherRuns == /\ phase = "run"
                 /\ \/ Connect \/ HelloAcked \/ HelloFails \/ SendReport
                    \/ InitialReportFails \/ ReportFails
                    \/ Heartbeat \/ HeartbeatFails
                    \/ ConnectFails("pub")
                 /\ UNCHANGED vars

(* While the subscriber is suspended in a send, its session waits.         *)
SubscriberRuns == /\ phase = "run"
                  /\ NotSuspended("mqtt")
                  /\ SubConnect \/ SubDrops \/ ConnectFails("sub")
                  /\ UNCHANGED vars

Network == /\ \/ \E c \in Client : Cut(c) \/ BrokerLoses(c)
              \/ SocketAborts \/ BrokerDelivers
           /\ UNCHANGED vars

ControllerNext == \/ Local \/ Inbound \/ Restarts \/ SignalWakes
                  \/ PublisherRuns \/ SubscriberRuns \/ Network

ControllerSpec == ControllerInit /\ [][ControllerNext]_controllerVars

-----------------------------------------------------------------------------
(* The publisher waits, its connection is open, and nothing is signalled.  *)
Reported == at = "wait" /\ conn["pub"] = "open" /\ ~stateChanged

(* What a dashboard at the broker shows as the state of the relays is what *)
(* the latch energises: while no write on the bus fails, between two       *)
(* commands and with no AllOff on its way, once the publisher waits with   *)
(* nothing signalled.  The chain is latch, shadow, reported mask, signal,  *)
(* report, wire, retained value (relays.rs apply, mqtt.rs:119-145).        *)
ReportedIsReal ==
  ~BusFaults /\ Up /\ ~Busy /\ ~AllOffSent /\ Reported
    => \A r \in Relay : Told(r, r \in port)

(* When the topic of the interlock says locked and the AllOff that came    *)
(* with the lock is written, every relay topic says off and every relay is *)
(* off, even on a bus whose writes fail (safety.rs, relays.rs apply).      *)
LockedIsReportedOff ==
  locked /\ ~AllOffSent /\ ~AllOffRunning /\ Reported
    => /\ port = {}
       /\ Told(SafetyTopic, TRUE)
       /\ \A r \in Relay : Told(r, FALSE)
=============================================================================
