------------------------------ MODULE Clients -------------------------------
(***************************************************************************)
(* The tasks that ask for relays: the self-test button (src/button.rs),    *)
(* the MQTT subscriber (src/mqtt.rs, handle_inbound) and the HTTP server   *)
(* (src/webserver.rs, handle_relay).                                       *)
(***************************************************************************)
EXTENDS RelayChannel, Safety

(* The <<index, on>> requests that arrive over MQTT and over HTTP: they     *)
(* bound the inputs of a model.                                            *)
CONSTANTS MqttRequests, WebRequests

ASSUME ClientsAssumption == /\ MqttRequests \subseteq Index \X BOOLEAN
                            /\ WebRequests \subseteq Index \X BOOLEAN

VARIABLE chase  \* relays the running self-test has sent a SetMask for; 0: none

ChaseTypeOK == chase \in 0 .. COUNT

(* button_task sees a debounced press while it waits for one.              *)
ButtonPress ==
  /\ NotSuspended("button")
  /\ chase = 0
  /\ ~locked
  /\ chase' = 1
  /\ Send("button", SetMask({0}))
  /\ UNCHANGED safetyVars

(* CHASE_STEP has passed: the next iteration of chase(), or its last send. *)
ChaseStep ==
  /\ NotSuspended("button")
  /\ chase \in 1 .. COUNT - 1
  /\ chase' = chase + 1
  /\ Send("button", SetMask({chase}))
  /\ UNCHANGED safetyVars

ChaseEnd ==
  /\ NotSuspended("button")
  /\ chase = COUNT
  /\ chase' = 0
  /\ Send("button", AllOff)
  /\ UNCHANGED safetyVars

(* handle_relay_set() refuses an index that is out of range.               *)
MqttSet(i, on) ==
  /\ NotSuspended("mqtt")
  /\ i \in Relay
  /\ Send("mqtt", Set(i, on))
  /\ UNCHANGED <<locked, stateChanged, chase>>

(* handle_relay() passes any u8 on.                                        *)
WebSet(i, on) ==
  /\ NotSuspended("web")
  /\ Send("web", Set(i, on))
  /\ UNCHANGED <<locked, stateChanged, chase>>
=============================================================================
