------------------------------- MODULE Relays -------------------------------
(***************************************************************************)
(* relay_task and the PCF8574 driver it owns (src/relays.rs,               *)
(* src/pcf8574.rs).                                                        *)
(*                                                                         *)
(* A port byte is modelled by the set of relays it energises: the bits of  *)
(* the active-low byte that are 0.  One command is handled in several      *)
(* steps, because every bus write is an await: Receive takes the command,  *)
(* checks the interlock and sets the shadow, then each write attempt ends  *)
(* in WriteOk or in one of the three actions of a failed write.  Every     *)
(* other task can run between two of these steps.                          *)
(*                                                                         *)
(* The PCF8574 itself is external.  An attempt that reports an error may   *)
(* have latched the byte (the error came after the data byte) or not.      *)
(***************************************************************************)
EXTENDS RelayChannel, Safety

CONSTANTS APPLY_ATTEMPTS,          (* writes tried for Set and SetMask      *)
          APPLY_ATTEMPTS_ALLOFF,   (* writes tried for AllOff               *)
          INIT_ATTEMPTS,           (* writes tried by Relays::new           *)
          BusFaults                (* whether a write on the bus may fail   *)

ASSUME RelaysAssumption == /\ APPLY_ATTEMPTS \in Nat \ {0}
                           /\ APPLY_ATTEMPTS_ALLOFF \in Nat \ {0}
                           /\ INIT_ATTEMPTS \in Nat \ {0}
                           /\ BusFaults \in BOOLEAN

VARIABLES port,    \* what the output latch of the PCF8574 energises
          shadow,  \* Pcf8574::shadow, the driver's copy of the latch
          recent,  \* relays whose last_change is less than COMMAND_DEBOUNCE old
          job      \* what relay_task is doing between two receives

relaysRam  == <<shadow, onMask, recent, job>>
relaysVars == <<port, shadow, onMask, recent, job>>

(* A job: the command being applied, whether the interlock refused it (an  *)
(* IDLE port is written in its place), and the attempts that are left.     *)
NoJob == [cmd |-> AllOff, refused |-> FALSE, left |-> 0]

RelaysTypeOK == /\ port \in SUBSET Relay
                /\ shadow \in SUBSET Relay
                /\ onMask \in SUBSET Relay
                /\ recent \in SUBSET Relay
                /\ job \in [cmd : Command, refused : BOOLEAN, left : Nat]

RelaysInit == /\ port = {}
              /\ shadow = {}
              /\ onMask = {}
              /\ recent = {}
              /\ job = NoJob

(* A restart of the ESP32 loses the RAM; the latch keeps its value.        *)
RelaysReset == /\ shadow' = {}
               /\ onMask' = {}
               /\ recent' = {}
               /\ job' = NoJob

Busy == job.left > 0

(* A write of cmd's own byte, not of IDLE, has still to end.               *)
Landing == Busy /\ ~job.refused /\ job.cmd # AllOff

AllOffRunning == Busy /\ ~job.refused /\ job.cmd = AllOff

-----------------------------------------------------------------------------
(* apply(): the synchronous part, from the receive to the first await.     *)

(* Mutation: the interlock check forgets SetMask.                          *)
RefusesSetOnly(cmd) == locked /\ cmd.op = "Set"

Refuses(cmd) == locked /\ cmd # AllOff

(* Mutation: an AllOff that finds the interlock cleared is taken as stale. *)
IgnoresStale(cmd) == IF cmd = AllOff THEN ~locked
                     ELSE cmd.op = "Set" /\ (cmd.index \notin Relay \/ cmd.index \in recent)

Ignores(cmd) == /\ cmd.op = "Set"
                /\ \/ cmd.index \notin Relay
                   \/ cmd.index \in recent

(* Mutation: the new byte is computed from the mask that is reported.      *)
TargetOfMask(cmd) == IF cmd.op = "AllOff" THEN {}
                     ELSE IF cmd.op = "SetMask" THEN cmd.mask
                     ELSE IF cmd.on THEN onMask \cup {cmd.index}
                     ELSE onMask \ {cmd.index}

Target(cmd) == IF cmd.op = "AllOff" THEN {}
               ELSE IF cmd.op = "SetMask" THEN cmd.mask
               ELSE IF cmd.on THEN shadow \cup {cmd.index}
               ELSE shadow \ {cmd.index}

Attempts(cmd) == IF cmd = AllOff THEN APPLY_ATTEMPTS_ALLOFF ELSE APPLY_ATTEMPTS

(* Mutation: a refused command writes the shadow again, not IDLE.          *)
RefuseRewrites(cmd) ==
  /\ Refuses(cmd)
  /\ job' = [cmd |-> cmd, refused |-> TRUE, left |-> APPLY_ATTEMPTS_ALLOFF]
  /\ UNCHANGED shadow

Refuse(cmd) ==
  /\ Refuses(cmd)
  /\ shadow' = {}
  /\ job' = [cmd |-> cmd, refused |-> TRUE, left |-> APPLY_ATTEMPTS_ALLOFF]

Ignore(cmd) ==
  /\ ~Refuses(cmd)
  /\ Ignores(cmd)
  /\ UNCHANGED <<shadow, job>>

Admit(cmd) ==
  /\ ~Refuses(cmd)
  /\ ~Ignores(cmd)
  /\ shadow' = Target(cmd)
  /\ job' = [cmd |-> cmd, refused |-> FALSE, left |-> Attempts(cmd)]

Receive ==
  /\ ~Busy
  /\ queue # <<>>
  /\ queue' = Tail(queue)
  /\ \/ Refuse(Head(queue))
     \/ Ignore(Head(queue))
     \/ Admit(Head(queue))
  /\ UNCHANGED <<pending, locked, stateChanged, port, onMask, recent>>

-----------------------------------------------------------------------------
(* write_with_retry() and what apply() does with its result.               *)

WriteOk ==
  /\ Busy
  /\ port' = shadow
  /\ job' = NoJob
  /\ IF job.refused
     THEN UNCHANGED <<onMask, recent, stateChanged>>
     ELSE /\ onMask' = shadow
          /\ stateChanged' = TRUE
          /\ recent' = recent \cup (IF job.cmd.op = "Set" THEN {job.cmd.index} ELSE {})
  /\ UNCHANGED <<queue, pending, locked, shadow>>

AttemptFails == /\ BusFaults
                /\ Busy
                /\ port' \in {port, shadow}

WriteRetry ==
  /\ AttemptFails
  /\ job.left > 1
  /\ job' = [job EXCEPT !.left = @ - 1]
  /\ UNCHANGED <<queue, pending, locked, stateChanged, shadow, onMask, recent>>

(* The last attempt fails: the command is dropped and the shadow keeps the *)
(* byte that was not written.                                              *)
WriteGiveUp ==
  /\ AttemptFails
  /\ job.left = 1
  /\ ~AllOffRunning
  /\ job' = NoJob
  /\ UNCHANGED <<queue, pending, locked, stateChanged, shadow, onMask, recent>>

(* The last attempt at AllOff fails: software_reset().                     *)
AllOffFails ==
  /\ AttemptFails
  /\ job.left = 1
  /\ AllOffRunning
  /\ ChannelReset
  /\ SafetyReset
  /\ RelaysReset

(* COMMAND_DEBOUNCE has passed since the last Set of relay i.              *)
DebounceExpires(i) ==
  /\ i \in recent
  /\ recent' = recent \ {i}
  /\ UNCHANGED <<queue, pending, locked, stateChanged, port, shadow, onMask, job>>

-----------------------------------------------------------------------------
(* Relays::new: one attempt to write IDLE.                                 *)

(* Mutation: the power-on state of the expander is taken for granted.      *)
InitWriteSkipped == UNCHANGED port

InitWriteOk    == port' = {}
InitWriteFails == BusFaults /\ port' \in {port, {}}
=============================================================================
