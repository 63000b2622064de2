------------------------------- MODULE Inputs -------------------------------
(***************************************************************************)
(* input_task and try_safety_reset (src/inputs.rs): the fail-safe loop on  *)
(* the opto-inputs.  The six inputs are seen only through the question the *)
(* interlock asks, whether all of them are energised.                      *)
(***************************************************************************)
EXTENDS RelayChannel, Safety

CONSTANTS ARM_SAFETY,          (* whether an open input engages the lock    *)
          DEBOUNCE_REQUIRED,   (* consecutive alarm samples that engage it  *)
          MAX_STREAK           (* where the u8 counter saturates            *)

ASSUME InputsAssumption == /\ ARM_SAFETY \in BOOLEAN
                           /\ DEBOUNCE_REQUIRED \in Nat \ {0}
                           /\ MAX_STREAK \in Nat
                           /\ MAX_STREAK >= DEBOUNCE_REQUIRED

VARIABLES loopClosed,  \* the wiring: every input has 12 V (external)
          inputsSafe,  \* INPUT_MASK = MASK, as last sampled
          streak       \* alarm_streak

inputsVars == <<loopClosed, inputsSafe, streak>>

InputsTypeOK == /\ loopClosed \in BOOLEAN
                /\ inputsSafe \in BOOLEAN
                /\ streak \in 0 .. MAX_STREAK

InputsInit == /\ loopClosed \in BOOLEAN
              /\ inputsSafe = FALSE
              /\ streak = 0

InputsReset == /\ inputsSafe' = FALSE
               /\ streak' = 0
               /\ UNCHANGED loopClosed

LoopChanges == /\ loopClosed' = ~loopClosed
               /\ UNCHANGED <<inputsSafe, streak>>

(* Mutation: only the sample that opens the loop counts.                   *)
NextStreakOnEdge == IF loopClosed THEN 0 ELSE IF inputsSafe THEN 1 ELSE streak

NextStreak == IF ~ARM_SAFETY THEN streak
              ELSE IF loopClosed THEN 0
              ELSE IF streak < MAX_STREAK THEN streak + 1
              ELSE streak

AlarmCommitted == ARM_SAFETY /\ ~loopClosed /\ NextStreak >= DEBOUNCE_REQUIRED

(* One poll whose read succeeds, up to the send.  A poll whose read fails  *)
(* leaves INPUT_MASK and alarm_streak as they were.                        *)
InputPoll ==
  /\ NotSuspended("inputs")
  /\ inputsSafe' = loopClosed
  /\ streak' = NextStreak
  /\ IF AlarmCommitted /\ ~locked
     THEN Lock /\ Send("inputs", AllOff)
     ELSE UNCHANGED <<locked, stateChanged, queue, pending>>
  /\ UNCHANGED loopClosed

(* Mutation: the reset does not look at the sampled inputs.                *)
ResetAllowedAlways == TRUE

ResetAllowed == ~ARM_SAFETY \/ inputsSafe

(* try_safety_reset() when it clears the interlock.                        *)
TrySafetyReset == /\ ResetAllowed
                  /\ Unlock
                  /\ UNCHANGED <<queue, pending, loopClosed, inputsSafe, streak>>
=============================================================================
