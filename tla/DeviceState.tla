---------------------------- MODULE DeviceState -----------------------------
(***************************************************************************)
(* What the rest of the firmware shows to the MQTT publisher: the reported *)
(* relay mask, the interlock, and the signal that one of them changed.     *)
(* These three variables are all that the publisher shares with the other  *)
(* tasks: module Interlock implements DeviceSpec, module MqttReports       *)
(* builds on it, and module Controller joins the two.                      *)
(***************************************************************************)
EXTENDS Board, LockFlag

VARIABLES onMask,       \* ON_MASK: the relays reported on
          stateChanged  \* STATE_CHANGED holds an unread signal

deviceVars == <<onMask, locked, stateChanged>>

DeviceTypeOK == /\ onMask \in SUBSET Relay
                /\ locked \in BOOLEAN
                /\ stateChanged \in BOOLEAN

DeviceInit == /\ onMask = {}
              /\ locked = FALSE
              /\ stateChanged = FALSE

(* Mutation: the new mask is stored and not signalled.                     *)
MaskStoredOnly == /\ onMask' \in SUBSET Relay
                  /\ UNCHANGED <<locked, stateChanged>>

(* A write of the relays has succeeded.                                    *)
MaskStored == /\ onMask' \in SUBSET Relay
              /\ stateChanged' = TRUE
              /\ UNCHANGED locked

(* lock() or unlock() flips the interlock.                                 *)
LockFlips == /\ locked' = ~locked
             /\ stateChanged' = TRUE
             /\ UNCHANGED onMask

(* STATE_CHANGED.wait() returns.                                           *)
SignalTaken == /\ stateChanged
               /\ stateChanged' = FALSE
               /\ UNCHANGED <<onMask, locked>>

(* RAM is lost.                                                            *)
DeviceRestarts == /\ onMask' = {}
                  /\ locked' = FALSE
                  /\ stateChanged' = FALSE

DeviceNext == MaskStored \/ LockFlips \/ SignalTaken \/ DeviceRestarts

DeviceSpec == DeviceInit /\ [][DeviceNext]_deviceVars
=============================================================================
