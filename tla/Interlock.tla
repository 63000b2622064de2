----------------------------- MODULE Interlock ------------------------------
(***************************************************************************)
(* The firmware from the fail-safe loop and the clients to the relays:     *)
(* boot (src/main.rs), relay_task, input_task, the comms watchdog as far   *)
(* as it engages the interlock, the button, the MQTT subscriber, the HTTP  *)
(* server and the publisher as far as it consumes STATE_CHANGED.           *)
(*                                                                         *)
(* All tasks run on one cooperative executor, so a step of the model is    *)
(* what a task does between two awaits.                                    *)
(***************************************************************************)
EXTENDS Relays, Inputs, Clients

VARIABLES phase,     \* how far main() has come
          initLeft   \* attempts that Relays::new has left

bootVars == <<phase, initLeft>>
vars == <<channelVars, safetyVars, relaysVars, inputsVars, chase, bootVars>>

(* boot: main() before Relays::new returns; fatal: in fatal_init; local:   *)
(* the local tasks run; run: the network tasks run too.                    *)
Phase == {"boot", "fatal", "local", "run"}
Up == phase \in {"local", "run"}

TypeOK == /\ ChannelTypeOK
          /\ SafetyTypeOK
          /\ RelaysTypeOK
          /\ InputsTypeOK
          /\ ChaseTypeOK
          /\ phase \in Phase
          /\ initLeft \in 1 .. INIT_ATTEMPTS

Init == /\ ChannelInit
        /\ SafetyInit
        /\ RelaysInit
        /\ InputsInit
        /\ chase = 0
        /\ phase = "boot"
        /\ initLeft = INIT_ATTEMPTS

-----------------------------------------------------------------------------
(* main()                                                                  *)

UnchangedTasks == UNCHANGED <<channelVars, safetyVars, relaysRam, inputsVars, chase>>

(* The I2C peripheral or the radio does not come up: fatal_init before the *)
(* relay expander was touched.                                             *)
EarlyFailure == /\ phase = "boot"
                /\ initLeft = INIT_ATTEMPTS
                /\ phase' = "fatal"
                /\ UNCHANGED <<port, initLeft>>
                /\ UnchangedTasks

RelaysNewOk == /\ phase = "boot"
               /\ InitWriteOk
               /\ phase' = "local"
               /\ initLeft' = INIT_ATTEMPTS
               /\ UnchangedTasks

RelaysNewRetry == /\ phase = "boot"
                  /\ initLeft > 1
                  /\ InitWriteFails
                  /\ initLeft' = initLeft - 1
                  /\ UNCHANGED phase
                  /\ UnchangedTasks

RelaysNewFails == /\ phase = "boot"
                  /\ initLeft = 1
                  /\ InitWriteFails
                  /\ phase' = "fatal"
                  /\ initLeft' = INIT_ATTEMPTS
                  /\ UnchangedTasks

(* wait_for_link returns; the network tasks are spawned.                   *)
LinkUp == /\ phase = "local"
          /\ phase' = "run"
          /\ UNCHANGED <<port, initLeft>>
          /\ UnchangedTasks

(* Everything in RAM starts over; the PCF8574 is not told.                 *)
Rebooted == /\ InputsReset
            /\ chase' = 0
            /\ phase' = "boot"
            /\ initLeft' = INIT_ATTEMPTS

RamLost == /\ ChannelReset
           /\ SafetyReset
           /\ RelaysReset
           /\ Rebooted

FatalReset == /\ phase = "fatal"
              /\ RamLost
              /\ UNCHANGED port

(* The EN button, the hardware watchdog, or the reboot that ends an OTA.   *)
ChipReset == /\ RamLost
             /\ UNCHANGED port

(* The PCF8574 powers up with every output high: no relay is energised.    *)
PowerCycle == /\ RamLost
              /\ port' = {}

-----------------------------------------------------------------------------
(* The tasks                                                               *)

RelayTask == /\ Up
             /\ Receive \/ WriteOk \/ WriteRetry \/ WriteGiveUp
             /\ UNCHANGED <<inputsVars, chase, bootVars>>

RelayTaskResets == /\ Up
                   /\ AllOffFails
                   /\ Rebooted

Debounce == /\ \E i \in Relay : DebounceExpires(i)
            /\ UNCHANGED <<inputsVars, chase, bootVars>>

Executor(s) == /\ Deliver(s)
               /\ UNCHANGED <<safetyVars, relaysVars, inputsVars, chase, bootVars>>

InputTask == /\ Up
             /\ InputPoll
             /\ UNCHANGED <<relaysVars, chase, bootVars>>

Wiring == /\ LoopChanges
          /\ UNCHANGED <<channelVars, safetyVars, relaysVars, chase, bootVars>>

Button == /\ Up
          /\ ButtonPress \/ ChaseStep \/ ChaseEnd
          /\ UNCHANGED <<relaysVars, inputsVars, bootVars>>

MqttSubscriber ==
  /\ phase = "run"
  /\ \/ /\ \E r \in MqttRequests : MqttSet(r[1], r[2])
        /\ UNCHANGED inputsVars
     \/ /\ NotSuspended("mqtt")
        /\ TrySafetyReset
        /\ UNCHANGED chase
  /\ UNCHANGED <<relaysVars, bootVars>>

WebServer == /\ phase = "run"
             /\ \E r \in WebRequests : WebSet(r[1], r[2])
             /\ UNCHANGED <<relaysVars, inputsVars, bootVars>>

(* watchdog_task finds a peer silent, at a time module CommsWatchdog says. *)
WatchdogTrips == /\ phase = "run"
                 /\ NotSuspended("watchdog")
                 /\ Lock
                 /\ Send("watchdog", AllOff)
                 /\ UNCHANGED <<relaysVars, inputsVars, chase, bootVars>>

(* mqtt_publisher_task wakes on STATE_CHANGED.                             *)
PublisherWakes == /\ phase = "run"
                  /\ stateChanged
                  /\ stateChanged' = FALSE
                  /\ UNCHANGED <<channelVars, locked, relaysVars, inputsVars, chase, bootVars>>

Boot == \/ EarlyFailure \/ RelaysNewOk \/ RelaysNewRetry \/ RelaysNewFails \/ LinkUp
        \/ FatalReset \/ ChipReset \/ PowerCycle

Tasks == \/ RelayTask \/ RelayTaskResets \/ Debounce
         \/ \E s \in Sender : Executor(s)
         \/ InputTask \/ Button \/ MqttSubscriber \/ WebServer
         \/ WatchdogTrips \/ PublisherWakes

Next == Boot \/ Tasks \/ Wiring

Spec == Init /\ [][Next]_vars

(* What the executor and the timers guarantee: relay_task is polled when   *)
(* it can go on, and a task suspended with an AllOff, which is polled each *)
(* time there is room, is not overtaken by other senders every time.  What *)
(* is assumed of the world: reads of the input expander do not fail for    *)
(* ever, and neither does the bring-up of the relay expander.  No write of *)
(* a running relay_task is assumed to succeed.                             *)
Fairness == /\ WF_vars(RelayTask \/ RelayTaskResets)
            /\ SF_vars(Executor("inputs"))
            /\ SF_vars(Executor("watchdog"))
            /\ WF_vars(InputTask)
            /\ WF_vars(FatalReset)
            /\ SF_vars(RelaysNewOk)

FairSpec == Spec /\ Fairness

-----------------------------------------------------------------------------
(* Safety                                                                  *)

(* While the interlock is engaged an AllOff is on its way to the relays,   *)
(* in the channel, held by a suspended sender or being written; or else    *)
(* every relay is open, is reported open, and no write that could close    *)
(* one is under way.  No order of commands, blocked senders, failed writes *)
(* and operator resets loses the AllOff (safety.rs, relays.rs apply).      *)
OffIsComing ==
  locked => \/ AllOffSent \/ AllOffRunning
            \/ port = {} /\ onMask = {} /\ ~Landing

(* An AllOff that was sent is received, and one that was received opens    *)
(* every relay and is reported, or the controller restarts: a reset by the *)
(* operator that comes first, and commands after it, cancel no AllOff that *)
(* is queued, held by a suspended sender or being retried (inputs.rs       *)
(* try_safety_reset, relays.rs apply).                                     *)
AllOffKept ==
  [][/\ AllOffSent => AllOffSent' \/ AllOffRunning' \/ phase' = "boot"
     /\ AllOffRunning => \/ AllOffRunning'
                         \/ port' = {} /\ onMask' = {}
                         \/ phase' = "boot"]_vars

(* With the fail-safe loop armed, an alarm that lasted DEBOUNCE_REQUIRED   *)
(* samples is latched: whatever clears the interlock, a reset accepted on  *)
(* a stale sample included, also ends the alarm streak (inputs.rs).        *)
AlarmIsLatched == ARM_SAFETY /\ streak >= DEBOUNCE_REQUIRED => locked

(* From the moment the interlock engages, relays only open: except for a   *)
(* write admitted before, no step closes a relay, whatever task sent the   *)
(* command and however long it was queued (relays.rs apply).               *)
OnlyOpens ==
  [][locked /\ locked' /\ ~Landing => port' \subseteq port /\ ~Landing']_vars

(* While no write fails, the three copies of the relays' state agree       *)
(* between two commands: the driver's shadow, the latch, and the mask the  *)
(* dashboard reports, which is late only while an AllOff is on its way.    *)
CopiesAgree ==
  ~BusFaults /\ Up /\ ~Busy => /\ shadow = port
                               /\ onMask = port \/ AllOffSent

(* What the Set in hand makes of the relays.                               *)
SetResult == IF job.cmd.on THEN port \cup {job.cmd.index} ELSE port \ {job.cmd.index}

(* While no write fails, the write of a Set switches its relay and leaves  *)
(* the others as they are, whatever was refused, dropped or lost in a      *)
(* restart before it: the byte is computed from a shadow that is the latch *)
(* (relays.rs apply, pcf8574.rs:5-6).                                      *)
SetIsExact ==
  [][~BusFaults /\ Landing /\ job.cmd.op = "Set" /\ phase' # "boot"
       => port' = IF Landing' THEN port ELSE SetResult]_vars

(* The interlock implements the abstract promise.                          *)
Promise == INSTANCE SafeOutputs WITH engaged <- locked,
                                     landing <- IF Landing THEN {shadow} ELSE {},
                                     energised <- port

PromiseKept == Promise!Spec

(* What the tasks show to the publisher: the reported mask and the         *)
(* interlock change only together with the signal that makes it report     *)
(* them, and nothing but the publisher takes a signal (relays.rs apply,    *)
(* safety.rs, mqtt.rs:133).                                                *)
ChangesSignalled == DeviceSpec

-----------------------------------------------------------------------------
(* Liveness, under FairSpec                                                *)

(* An engaged interlock opens every relay, or, when the bus refuses every  *)
(* attempt at AllOff, resets the controller (relays.rs apply): however     *)
(* many commands are queued before the AllOff, and even when the operator  *)
(* clears the interlock before the AllOff is written.                      *)
LockOpensOrResets == locked ~> (port = {} \/ phase = "boot")

(* A controller that restarted with relays energised opens them.           *)
ResetOpens == phase \in {"boot", "fatal"} ~> port = {}

(* An armed loop that stays open engages the interlock.                    *)
OpenLoopLocks == (ARM_SAFETY /\ Up /\ ~loopClosed) ~> (locked \/ loopClosed \/ ~Up)

-----------------------------------------------------------------------------
(* What the documentation says and the code does not do                    *)

(* safety.rs:3-4: while engaged, every command other than AllOff is        *)
(* rejected by relay_task; so no relay closes.                             *)
LockedNeverCloses == [][locked /\ locked' => port' \subseteq port]_vars

(* relays.rs:204-207 and main.rs:203-204: a controller that cannot reach   *)
(* the expander resets, or refuses to run, and the relays are off then.    *)
GivingUpIsOff == [][RelayTaskResets \/ RelaysNewFails => port' = {}]_vars

(* pcf8574.rs:5-6: an update of one bit does not disturb the rest of the   *)
(* port.                                                                   *)
SetTouchesOneRelay ==
  [][\A i \in Relay : (Landing /\ job.cmd.op = "Set" /\ job.cmd.index = i /\ phase' # "boot")
       => port' \ {i} = port \ {i}]_vars
=============================================================================
