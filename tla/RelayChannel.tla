---------------------------- MODULE RelayChannel ----------------------------
(***************************************************************************)
(* The bounded channel on which every task sends commands to relay_task   *)
(* (src/relays.rs, RelayChannel) and the commands it carries.              *)
(*                                                                         *)
(* The channel is embassy_sync::channel::Channel, an external component: a *)
(* send that finds room enqueues at once, even when another sender is      *)
(* blocked; a send that finds the channel full keeps its command and the   *)
(* sending task is suspended until the executor polls it again and there   *)
(* is room.                                                                *)
(***************************************************************************)
EXTENDS Board, Sequences

CONSTANT CAPACITY   (* number of commands the channel holds                 *)

ASSUME ChannelAssumption == CAPACITY \in Nat \ {0}

(* A command names a channel with a u8.  COUNT stands for every u8 that is *)
(* not the number of a relay.                                              *)
Index == 0 .. COUNT

Set(i, on) == [op |-> "Set", index |-> i, on |-> on]
SetMask(m) == [op |-> "SetMask", mask |-> m]
AllOff     == [op |-> "AllOff"]

Command == [op : {"Set"}, index : Index, on : BOOLEAN]
             \cup [op : {"SetMask"}, mask : SUBSET Relay]
             \cup {AllOff}

(* The tasks that hold a sender of the channel.                            *)
Sender == {"inputs", "watchdog", "button", "mqtt", "web"}

Nothing == [op |-> "Nothing"]       \* the task is not suspended in send()

VARIABLES queue,    \* the commands in the channel, oldest first
          pending   \* pending[s]: the command task s is suspended with, if any

channelVars == <<queue, pending>>

ChannelTypeOK == /\ queue \in Seq(Command)
                 /\ Len(queue) =< CAPACITY
                 /\ pending \in [Sender -> Command \cup {Nothing}]

ChannelInit == /\ queue = <<>>
               /\ pending = [s \in Sender |-> Nothing]

(* RAM is lost: the channel is created again by main().                    *)
ChannelReset == /\ queue' = <<>>
                /\ pending' = [s \in Sender |-> Nothing]

NotSuspended(s) == pending[s] = Nothing

(* Mutation: a full channel drops the command.                             *)
TrySend(s, c) == /\ queue' = IF Len(queue) < CAPACITY THEN Append(queue, c) ELSE queue
                 /\ UNCHANGED pending

(* relay_tx.send(c).await up to its first suspension.                      *)
Send(s, c) ==
  IF Len(queue) < CAPACITY
  THEN /\ queue' = Append(queue, c)
       /\ UNCHANGED pending
  ELSE /\ pending' = [pending EXCEPT ![s] = c]
       /\ UNCHANGED queue

(* Mutation: a suspended sender does not wait for room.                    *)
DeliverAlways(s) ==
  /\ ~NotSuspended(s)
  /\ queue' = Append(queue, pending[s])
  /\ pending' = [pending EXCEPT ![s] = Nothing]

(* The executor polls a suspended sender and there is room.                *)
Deliver(s) ==
  /\ ~NotSuspended(s)
  /\ Len(queue) < CAPACITY
  /\ queue' = Append(queue, pending[s])
  /\ pending' = [pending EXCEPT ![s] = Nothing]

(* An AllOff is on its way to relay_task.                                  *)
AllOffSent == \/ \E k \in 1 .. Len(queue) : queue[k] = AllOff
              \/ \E s \in Sender : pending[s] = AllOff
=============================================================================
