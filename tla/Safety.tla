------------------------------- MODULE Safety -------------------------------
(***************************************************************************)
(* The global safety interlock (src/safety.rs): a flag any task may set    *)
(* and a reset may clear, and the signal that wakes the MQTT publisher.    *)
(*                                                                         *)
(* safety::CHANGED, signalled beside STATE_CHANGED, has no reader in the   *)
(* firmware and is left out.                                               *)
(***************************************************************************)
EXTENDS DeviceState

safetyVars == <<locked, stateChanged>>

SafetyTypeOK == /\ locked \in BOOLEAN
                /\ stateChanged \in BOOLEAN

SafetyInit == /\ locked = FALSE
              /\ stateChanged = FALSE

SafetyReset == /\ locked' = FALSE
               /\ stateChanged' = FALSE

(* lock() and unlock() in a state in which they flip the flag.  In the     *)
(* other state neither has an effect and both return false.                *)
Lock == /\ ~locked
        /\ locked' = TRUE
        /\ stateChanged' = TRUE

(* Mutation: the interlock is cleared without the signal.                  *)
UnlockSilent == /\ locked
                /\ locked' = FALSE
                /\ UNCHANGED stateChanged

Unlock == /\ locked
          /\ locked' = FALSE
          /\ stateChanged' = TRUE
=============================================================================
