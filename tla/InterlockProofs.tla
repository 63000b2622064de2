-------------------------- MODULE InterlockProofs ---------------------------
(***************************************************************************)
(* What module Interlock promises, for every number of relays, capacity of *)
(* the channel and number of attempts.                                     *)
(***************************************************************************)
EXTENDS Interlock, SequenceTheorems, TLAPS

USE DEF channelVars, safetyVars, relaysVars, relaysRam, inputsVars, bootVars

-----------------------------------------------------------------------------
(* The channel                                                             *)

LEMMA CommandIsNotNothing ==
  /\ AllOff \in Command
  /\ Nothing \notin Command
  /\ \A m \in SUBSET Relay : SetMask(m) \in Command /\ SetMask(m) # AllOff
  /\ \A i \in Index, on \in BOOLEAN : Set(i, on) \in Command /\ Set(i, on) # AllOff
BY DEF Command, AllOff, Nothing, Set, SetMask

(* A send keeps the channel well formed and its contents: what was on its  *)
(* way still is, and so is what was sent.                                  *)
LEMMA SendProperties ==
  ASSUME ChannelTypeOK, NEW s \in Sender, NEW c \in Command,
         NotSuspended(s), Send(s, c)
  PROVE  /\ ChannelTypeOK'
         /\ AllOffSent => AllOffSent'
         /\ c = AllOff => AllOffSent'
<1>1. CASE Len(queue) < CAPACITY
  <2>1. queue' = Append(queue, c) /\ pending' = pending
    BY <1>1 DEF Send
  <2>2. /\ queue' \in Seq(Command)
        /\ Len(queue') = Len(queue) + 1
        /\ \A k \in 1 .. Len(queue) : queue'[k] = queue[k]
        /\ queue'[Len(queue) + 1] = c
    BY <2>1, AppendProperties DEF ChannelTypeOK
  <2>3. ChannelTypeOK'
    BY <1>1, <2>1, <2>2, ChannelAssumption DEF ChannelTypeOK
  <2>4. Len(queue) \in Nat
    BY LenProperties DEF ChannelTypeOK
  <2>5. \A k \in 1 .. Len(queue) : k \in 1 .. Len(queue')
    BY <2>2, <2>4
  <2>6. Len(queue) + 1 \in 1 .. Len(queue')
    BY <2>2, <2>4
  <2>7. AllOffSent => AllOffSent'
    BY <2>1, <2>2, <2>5 DEF AllOffSent
  <2>8. c = AllOff => AllOffSent'
    BY <2>2, <2>6 DEF AllOffSent
  <2>. QED  BY <2>3, <2>7, <2>8
<1>2. CASE ~(Len(queue) < CAPACITY)
  <2>1. queue' = queue /\ pending' = [pending EXCEPT ![s] = c]
    BY <1>2 DEF Send
  <2>2. ChannelTypeOK'
    BY <2>1 DEF ChannelTypeOK
  <2>3. AllOffSent => AllOffSent'
    BY <2>1, CommandIsNotNothing DEF AllOffSent, ChannelTypeOK, NotSuspended
  <2>4. c = AllOff => AllOffSent'
    BY <2>1 DEF AllOffSent, ChannelTypeOK
  <2>. QED  BY <2>2, <2>3, <2>4
<1>. QED  BY <1>1, <1>2

LEMMA DeliverProperties ==
  ASSUME ChannelTypeOK, NEW s \in Sender, Deliver(s)
  PROVE  /\ ChannelTypeOK'
         /\ AllOffSent => AllOffSent'
<1>1. pending[s] \in Command
  BY DEF ChannelTypeOK, Deliver, NotSuspended
<1>2. /\ queue' = Append(queue, pending[s])
      /\ pending' = [pending EXCEPT ![s] = Nothing]
      /\ Len(queue) < CAPACITY
  BY DEF Deliver
<1>3. /\ queue' \in Seq(Command)
      /\ Len(queue') = Len(queue) + 1
      /\ \A k \in 1 .. Len(queue) : queue'[k] = queue[k]
      /\ queue'[Len(queue) + 1] = pending[s]
  BY <1>1, <1>2, AppendProperties DEF ChannelTypeOK
<1>4. Len(queue) \in Nat
  BY LenProperties DEF ChannelTypeOK
<1>5. ChannelTypeOK'
  BY <1>2, <1>3, <1>4, ChannelAssumption DEF ChannelTypeOK
<1>6. \A k \in 1 .. Len(queue) + 1 : k \in 1 .. Len(queue')
  BY <1>3
<1>7. ASSUME NEW k \in 1 .. Len(queue), queue[k] = AllOff  PROVE AllOffSent'
  BY <1>3, <1>4, <1>6, <1>7 DEF AllOffSent
<1>8. ASSUME NEW t \in Sender, pending[t] = AllOff  PROVE AllOffSent'
  <2>1. CASE t = s
    BY <1>3, <1>4, <1>6, <1>8, <2>1 DEF AllOffSent
  <2>2. CASE t # s
    BY <1>2, <1>8, <2>2 DEF AllOffSent, ChannelTypeOK
  <2>. QED  BY <2>1, <2>2
<1>. QED  BY <1>5, <1>7, <1>8 DEF AllOffSent

(* A receive takes the oldest command and no other.                        *)
LEMMA ReceiveProperties ==
  ASSUME ChannelTypeOK, queue # <<>>, queue' = Tail(queue), pending' = pending
  PROVE  /\ ChannelTypeOK'
         /\ Head(queue) \in Command
         /\ AllOffSent /\ Head(queue) # AllOff => AllOffSent'
<1>1. /\ Head(queue) \in Command
      /\ queue' \in Seq(Command)
      /\ Len(queue') = Len(queue) - 1
      /\ \A k \in 1 .. Len(queue') : queue'[k] = queue[k + 1]
  BY HeadTailProperties DEF ChannelTypeOK
<1>2. Head(queue) = queue[1] /\ Len(queue) \in Nat
  BY LenProperties DEF ChannelTypeOK
<1>3. ChannelTypeOK'
  BY <1>1, <1>2, ChannelAssumption DEF ChannelTypeOK
<1>4. ASSUME NEW k \in 1 .. Len(queue), queue[k] = AllOff, Head(queue) # AllOff
      PROVE  AllOffSent'
  <2>1. k - 1 \in 1 .. Len(queue')
    BY <1>1, <1>2, <1>4
  <2>2. queue'[k - 1] = queue[k]
    BY <1>1, <2>1
  <2>. QED  BY <1>4, <2>1, <2>2 DEF AllOffSent
<1>. QED  BY <1>1, <1>3, <1>4 DEF AllOffSent

-----------------------------------------------------------------------------
(* The inductive invariant                                                 *)

(* A safe sample ends the alarm streak; while it lasts the interlock is    *)
(* engaged.                                                                *)
StreakInv ==
  ARM_SAFETY => /\ inputsSafe => streak = 0
                /\ streak >= DEBOUNCE_REQUIRED => locked

(* The attempts that write_with_retry is given for the command in hand.    *)
JobAttempts == IF job.refused THEN APPLY_ATTEMPTS_ALLOFF ELSE Attempts(job.cmd)

(* A command is tried no more often than its kind allows, and AllOff is    *)
(* never refused.                                                          *)
AttemptsInv == /\ job.left =< JobAttempts
               /\ job.refused => job.cmd # AllOff

(* A job's attempts match its command.  A write that does not close relays *)
(* writes IDLE, a Set that is being written names a relay, and relay_task  *)
(* runs only after main() has spawned it.                                  *)
JobInv == /\ AttemptsInv
          /\ Busy /\ ~Landing => shadow = {}
          /\ Landing /\ job.cmd.op = "Set" => job.cmd.index \in Relay
          /\ ~Up => ~Busy

IInv == TypeOK /\ OffIsComing /\ StreakInv /\ JobInv

LEMMA NoJobType == /\ NoJob \in [cmd : Command, refused : BOOLEAN, left : Nat]
                   /\ NoJob.left = 0
BY CommandIsNotNothing DEF NoJob

LEMMA AttemptsIdle ==
  /\ job = NoJob => AttemptsInv
  /\ job' = NoJob => AttemptsInv'
BY RelaysAssumption DEF NoJob, AttemptsInv, JobAttempts, Attempts

LEMMA AttemptsFrame ==
  ASSUME AttemptsInv, UNCHANGED job
  PROVE  AttemptsInv'
BY DEF AttemptsInv, JobAttempts, Attempts

(* What the operator's reset and the tasks leave alone of relay_task.      *)
LEMMA RelaysFrame ==
  ASSUME UNCHANGED relaysVars
  PROVE  /\ RelaysTypeOK => RelaysTypeOK'
         /\ Busy' = Busy
         /\ Landing' = Landing
         /\ AllOffRunning' = AllOffRunning
BY DEF RelaysTypeOK, Busy, Landing, AllOffRunning

LEMMA ChannelFrame ==
  ASSUME UNCHANGED channelVars
  PROVE  /\ ChannelTypeOK => ChannelTypeOK'
         /\ AllOffSent' = AllOffSent
BY DEF ChannelTypeOK, AllOffSent

LEMMA StreakFromZero ==
  /\ 0 \in 0 .. MAX_STREAK
  /\ ~(0 >= DEBOUNCE_REQUIRED)
BY InputsAssumption

(* A restart establishes the invariant whatever the latch holds.           *)
LEMMA RamLostProperties ==
  ASSUME TypeOK, ChannelReset, SafetyReset, RelaysReset, Rebooted,
         port' \in SUBSET Relay
  PROVE  IInv'
<1>1. ChannelTypeOK'
  BY EmptySeq, ChannelAssumption DEF ChannelReset, ChannelTypeOK
<1>2. SafetyTypeOK' /\ ~locked'
  BY DEF SafetyReset, SafetyTypeOK
<1>3. RelaysTypeOK' /\ ~Busy'
  BY NoJobType DEF RelaysReset, RelaysTypeOK, Busy
<1>4. InputsTypeOK' /\ StreakInv'
  <2>1. inputsSafe' = FALSE /\ streak' = 0 /\ loopClosed' = loopClosed
    BY DEF Rebooted, InputsReset
  <2>2. InputsTypeOK'
    BY <2>1, StreakFromZero DEF TypeOK, InputsTypeOK
  <2>3. StreakInv'
    BY <2>1, StreakFromZero DEF StreakInv
  <2>. QED  BY <2>2, <2>3
<1>5. ChaseTypeOK' /\ phase' \in Phase /\ initLeft' \in 1 .. INIT_ATTEMPTS
  BY BoardAssumption, RelaysAssumption DEF Rebooted, ChaseTypeOK, Phase
<1>6. AttemptsInv'
  BY AttemptsIdle DEF RelaysReset
<1>. QED
  BY <1>1, <1>2, <1>3, <1>4, <1>5, <1>6
  DEF IInv, TypeOK, OffIsComing, JobInv, Landing

LEMMA InitEstablishes == Init => IInv
<1>. SUFFICES ASSUME Init PROVE IInv
  OBVIOUS
<1>1. ChannelTypeOK
  BY EmptySeq, ChannelAssumption DEF Init, ChannelInit, ChannelTypeOK
<1>2. SafetyTypeOK /\ ~locked
  BY DEF Init, SafetyInit, SafetyTypeOK
<1>3. RelaysTypeOK /\ ~Busy
  BY NoJobType DEF Init, RelaysInit, RelaysTypeOK, Busy
<1>4. InputsTypeOK /\ StreakInv
  <2>1. inputsSafe = FALSE /\ streak = 0 /\ loopClosed \in BOOLEAN
    BY DEF Init, InputsInit
  <2>2. InputsTypeOK
    BY <2>1, StreakFromZero DEF InputsTypeOK
  <2>3. StreakInv
    BY <2>1, StreakFromZero DEF StreakInv
  <2>. QED  BY <2>2, <2>3
<1>5. ChaseTypeOK /\ phase \in Phase /\ initLeft \in 1 .. INIT_ATTEMPTS
  BY BoardAssumption, RelaysAssumption DEF Init, ChaseTypeOK, Phase
<1>6. AttemptsInv
  BY AttemptsIdle DEF Init, RelaysInit
<1>. QED
  BY <1>1, <1>2, <1>3, <1>4, <1>5, <1>6 DEF IInv, TypeOK, OffIsComing, JobInv, Landing

-----------------------------------------------------------------------------
(* relay_task                                                              *)

LEMMA ReceiveStep ==
  ASSUME IInv, Up, Receive, UNCHANGED <<inputsVars, chase, bootVars>>
  PROVE  IInv'
<1>. DEFINE cmd == Head(queue)
<1>1. /\ ChannelTypeOK'
      /\ cmd \in Command
      /\ AllOffSent /\ cmd # AllOff => AllOffSent'
  BY ReceiveProperties DEF IInv, TypeOK, Receive
<1>2. /\ ~Busy
      /\ UNCHANGED <<locked, stateChanged, port, onMask, recent>>
      /\ Refuse(cmd) \/ Ignore(cmd) \/ Admit(cmd)
  BY DEF Receive
<1>. HIDE DEF cmd
<1>3. SafetyTypeOK' /\ InputsTypeOK' /\ ChaseTypeOK' /\ StreakInv'
  BY <1>2 DEF IInv, TypeOK, SafetyTypeOK, InputsTypeOK, ChaseTypeOK, StreakInv
<1>4. phase' \in Phase /\ initLeft' \in 1 .. INIT_ATTEMPTS /\ Up'
  BY DEF IInv, TypeOK, Up
<1>5. CASE Refuse(cmd)
  <2>1. RelaysTypeOK'
    BY <1>1, <1>2, <1>5, RelaysAssumption DEF Refuse, RelaysTypeOK, IInv, TypeOK
  <2>2. OffIsComing'
    BY <1>1, <1>2, <1>5 DEF Refuse, Refuses, OffIsComing, IInv, AllOffRunning, Landing
  <2>3. JobInv'
    <3>1. AttemptsInv'
      BY <1>5, RelaysAssumption DEF Refuse, Refuses, AttemptsInv, JobAttempts
    <3>. QED  BY <1>4, <1>5, <3>1 DEF Refuse, JobInv, Landing
  <2>. QED  BY <1>1, <1>3, <1>4, <2>1, <2>2, <2>3 DEF IInv, TypeOK
<1>6. CASE Ignore(cmd)
  <2>1. RelaysTypeOK'
    BY <1>2, <1>6 DEF Ignore, RelaysTypeOK, IInv, TypeOK
  <2>2. ~locked'
    BY <1>2, <1>6 DEF Ignore, Refuses, Ignores, AllOff
  <2>3. JobInv'
    BY <1>2, <1>4, <1>6, AttemptsFrame DEF Ignore, IInv, JobInv, Busy, Landing
  <2>. QED  BY <1>1, <1>3, <1>4, <2>1, <2>2, <2>3 DEF IInv, TypeOK, OffIsComing
<1>7. CASE Admit(cmd)
  <2>1. /\ job' = [cmd |-> cmd, refused |-> FALSE, left |-> Attempts(cmd)]
        /\ Attempts(cmd) \in Nat \ {0}
        /\ locked => cmd = AllOff
    BY <1>7, RelaysAssumption DEF Admit, Refuses, Attempts
  <2>2. Target(cmd) \in SUBSET Relay
    <3>1. cmd \in [op : {"Set"}, index : Index, on : BOOLEAN]
            => cmd.op = "Set" /\ (cmd.index \in Relay \/ Ignores(cmd))
      BY DEF Ignores
    <3>2. cmd \in [op : {"SetMask"}, mask : SUBSET Relay]
            => cmd.op = "SetMask" /\ cmd.mask \in SUBSET Relay
      OBVIOUS
    <3>3. cmd = AllOff => cmd.op = "AllOff"
      BY DEF AllOff
    <3>. QED
      BY <1>1, <1>7, <3>1, <3>2, <3>3
      DEF Command, Admit, Target, IInv, TypeOK, RelaysTypeOK
  <2>3. RelaysTypeOK'
    BY <1>1, <1>2, <1>7, <2>1, <2>2 DEF Admit, RelaysTypeOK, IInv, TypeOK
  <2>4. OffIsComing'
    BY <1>2, <2>1 DEF OffIsComing, AllOffRunning, Busy
  <2>5. JobInv'
    <3>1. cmd.op = "Set" => cmd.index \in Relay
      BY <1>7 DEF Admit, Ignores
    <3>2. AttemptsInv'
      BY <2>1 DEF AttemptsInv, JobAttempts, Attempts
    <3>. QED
      BY <1>4, <1>7, <2>1, <3>1, <3>2 DEF Admit, JobInv, Landing, Target, AllOff
  <2>. QED  BY <1>1, <1>3, <1>4, <2>3, <2>4, <2>5 DEF IInv, TypeOK
<1>. QED  BY <1>2, <1>5, <1>6, <1>7

LEMMA WriteOkStep ==
  ASSUME IInv, Up, WriteOk, UNCHANGED <<inputsVars, chase, bootVars>>
  PROVE  IInv'
<1>1. ChannelTypeOK' /\ AllOffSent' = AllOffSent
  BY ChannelFrame DEF WriteOk, IInv, TypeOK
<1>2. SafetyTypeOK' /\ InputsTypeOK' /\ ChaseTypeOK' /\ StreakInv'
  BY DEF WriteOk, IInv, TypeOK, SafetyTypeOK, InputsTypeOK, ChaseTypeOK, StreakInv
<1>3. phase' \in Phase /\ initLeft' \in 1 .. INIT_ATTEMPTS /\ Up'
  BY DEF IInv, TypeOK, Up
<1>4. ~Busy'
  BY NoJobType DEF WriteOk, Busy
<1>5. RelaysTypeOK'
  <2>1. job' \in [cmd : Command, refused : BOOLEAN, left : Nat]
    BY NoJobType DEF WriteOk
  <2>2. port' \in SUBSET Relay /\ shadow' \in SUBSET Relay /\ onMask' \in SUBSET Relay
    BY DEF WriteOk, RelaysTypeOK, IInv, TypeOK
  <2>3. recent' \in SUBSET Relay
    <3>1. CASE job.refused
      BY <3>1 DEF WriteOk, RelaysTypeOK, IInv, TypeOK
    <3>2. CASE ~job.refused
      <4>1. job.cmd.op = "Set" => job.cmd.index \in Relay
        BY <3>2 DEF WriteOk, IInv, JobInv, Landing, AllOff
      <4>. QED
        BY <3>2, <4>1 DEF WriteOk, RelaysTypeOK, IInv, TypeOK
    <3>. QED  BY <3>1, <3>2
  <2>. QED  BY <2>1, <2>2, <2>3 DEF RelaysTypeOK
<1>6. OffIsComing'
  <2>1. ~Landing => port' = {} /\ (onMask' = onMask \/ onMask' = {})
    BY DEF WriteOk, IInv, JobInv
  <2>2. AllOffRunning => ~Landing /\ onMask' = {}
    BY <2>1 DEF WriteOk, IInv, JobInv, AllOffRunning, Landing
  <2>. QED
    BY <1>1, <1>4, <2>1, <2>2 DEF OffIsComing, IInv, WriteOk, Landing
<1>7. JobInv'
  BY <1>3, <1>4, AttemptsIdle DEF WriteOk, JobInv, Landing
<1>. QED  BY <1>1, <1>2, <1>3, <1>5, <1>6, <1>7 DEF IInv, TypeOK

(* A failed attempt that is not the last one at AllOff.                    *)
LEMMA WriteFailsStep ==
  ASSUME IInv, Up, WriteRetry \/ WriteGiveUp, UNCHANGED <<inputsVars, chase, bootVars>>
  PROVE  IInv'
<1>1. /\ UNCHANGED <<queue, pending, locked, stateChanged, shadow, onMask, recent>>
      /\ Busy
      /\ port' \in {port, shadow}
  BY DEF WriteRetry, WriteGiveUp, AttemptFails
<1>2. ChannelTypeOK' /\ AllOffSent' = AllOffSent
  BY <1>1, ChannelFrame DEF IInv, TypeOK
<1>3. SafetyTypeOK' /\ InputsTypeOK' /\ ChaseTypeOK' /\ StreakInv'
  BY <1>1 DEF IInv, TypeOK, SafetyTypeOK, InputsTypeOK, ChaseTypeOK, StreakInv
<1>4. phase' \in Phase /\ initLeft' \in 1 .. INIT_ATTEMPTS /\ Up'
  BY DEF IInv, TypeOK, Up
<1>5. port' \in SUBSET Relay
  BY <1>1 DEF IInv, TypeOK, RelaysTypeOK
<1>6. CASE WriteRetry
  <2>1. /\ job \in [cmd : Command, refused : BOOLEAN, left : Nat]
        /\ job' = [job EXCEPT !.left = @ - 1]
        /\ job.left > 1
    BY <1>6 DEF WriteRetry, IInv, TypeOK, RelaysTypeOK
  <2>2. /\ job' \in [cmd : Command, refused : BOOLEAN, left : Nat]
        /\ job'.left > 0
        /\ job'.cmd = job.cmd
        /\ job'.refused = job.refused
    BY <2>1
  <2>3. Busy' /\ Landing' = Landing /\ AllOffRunning' = AllOffRunning
    BY <1>1, <2>2 DEF Busy, Landing, AllOffRunning
  <2>4. RelaysTypeOK'
    BY <1>1, <1>5, <2>2 DEF IInv, TypeOK, RelaysTypeOK
  <2>5. OffIsComing'
    BY <1>1, <1>2, <2>3 DEF IInv, OffIsComing, JobInv
  <2>6. JobInv'
    <3>1. AttemptsInv'
      BY <2>1, <2>2, RelaysAssumption DEF IInv, JobInv, AttemptsInv, JobAttempts, Attempts
    <3>. QED  BY <1>1, <1>4, <2>2, <2>3, <3>1 DEF IInv, JobInv
  <2>. QED  BY <1>2, <1>3, <1>4, <2>4, <2>5, <2>6 DEF IInv, TypeOK
<1>7. CASE WriteGiveUp
  <2>1. job' = NoJob /\ ~AllOffRunning
    BY <1>7 DEF WriteGiveUp
  <2>2. ~Busy'
    BY <2>1, NoJobType DEF Busy
  <2>3. RelaysTypeOK'
    BY <1>1, <1>5, <2>1, NoJobType DEF IInv, TypeOK, RelaysTypeOK
  <2>4. OffIsComing'
    BY <1>1, <1>2, <2>1, <2>2 DEF IInv, OffIsComing, JobInv, Landing
  <2>5. JobInv'
    BY <1>4, <2>1, <2>2, AttemptsIdle DEF JobInv, Landing
  <2>. QED  BY <1>2, <1>3, <1>4, <2>3, <2>4, <2>5 DEF IInv, TypeOK
<1>. QED  BY <1>6, <1>7

LEMMA DebounceStep ==
  ASSUME IInv, Debounce
  PROVE  IInv'
<1>1. /\ UNCHANGED <<queue, pending, locked, stateChanged, port, shadow, onMask, job>>
      /\ UNCHANGED <<inputsVars, chase, bootVars>>
      /\ recent' \subseteq recent
  BY DEF Debounce, DebounceExpires
<1>2. ChannelTypeOK' /\ AllOffSent' = AllOffSent
  BY <1>1, ChannelFrame DEF IInv, TypeOK
<1>3. RelaysTypeOK'
  BY <1>1 DEF IInv, TypeOK, RelaysTypeOK
<1>4. /\ SafetyTypeOK' /\ InputsTypeOK' /\ ChaseTypeOK' /\ StreakInv'
      /\ phase' \in Phase /\ initLeft' \in 1 .. INIT_ATTEMPTS
  BY <1>1 DEF IInv, TypeOK, SafetyTypeOK, InputsTypeOK, ChaseTypeOK, StreakInv
<1>5. OffIsComing' /\ JobInv'
  BY <1>1, <1>2, AttemptsFrame DEF IInv, OffIsComing, JobInv, Busy, Landing, AllOffRunning, Up
<1>. QED  BY <1>2, <1>3, <1>4, <1>5 DEF IInv, TypeOK

-----------------------------------------------------------------------------
(* The tasks that send to relay_task                                       *)

(* What a step of another task owes to relay_task: it loses no AllOff, and *)
(* when it engages the interlock it sends one.                             *)
LEMMA SendingStep ==
  ASSUME IInv, UNCHANGED <<relaysVars, bootVars>>,
         ChannelTypeOK', SafetyTypeOK', InputsTypeOK', ChaseTypeOK', StreakInv',
         AllOffSent => AllOffSent',
         locked' /\ ~locked => AllOffSent'
  PROVE  IInv'
<1>1. /\ RelaysTypeOK'
      /\ Busy' = Busy /\ Landing' = Landing /\ AllOffRunning' = AllOffRunning
  BY RelaysFrame DEF IInv, TypeOK
<1>2. OffIsComing'
  BY <1>1 DEF IInv, OffIsComing
<1>3. JobInv'
  BY <1>1, AttemptsFrame DEF IInv, JobInv, Up
<1>. QED  BY <1>1, <1>2, <1>3 DEF IInv, TypeOK

LEMMA ExecutorStep ==
  ASSUME IInv, NEW s \in Sender, Executor(s)
  PROVE  IInv'
<1>1. ChannelTypeOK' /\ (AllOffSent => AllOffSent')
  BY DeliverProperties DEF Executor, IInv, TypeOK
<1>2. SafetyTypeOK' /\ InputsTypeOK' /\ ChaseTypeOK' /\ StreakInv' /\ locked' = locked
  BY DEF Executor, IInv, TypeOK, SafetyTypeOK, InputsTypeOK, ChaseTypeOK, StreakInv
<1>. QED  BY <1>1, <1>2, SendingStep DEF Executor

LEMMA InputTaskStep ==
  ASSUME IInv, InputTask
  PROVE  IInv'
<1>1. /\ NotSuspended("inputs")
      /\ inputsSafe' = loopClosed
      /\ streak' = NextStreak
      /\ loopClosed' = loopClosed
      /\ UNCHANGED <<relaysVars, chase, bootVars>>
  BY DEF InputTask, InputPoll
<1>2. ChaseTypeOK'
  BY <1>1 DEF IInv, TypeOK, ChaseTypeOK
<1>3. /\ NextStreak \in 0 .. MAX_STREAK
      /\ ARM_SAFETY /\ loopClosed => NextStreak = 0
  BY InputsAssumption DEF NextStreak, IInv, TypeOK, InputsTypeOK
<1>4. InputsTypeOK'
  BY <1>1, <1>3 DEF IInv, TypeOK, InputsTypeOK
<1>5. ChannelTypeOK' /\ SafetyTypeOK' /\ (AllOffSent => AllOffSent')
      /\ (locked' /\ ~locked => AllOffSent')
      /\ (locked => locked') /\ (AlarmCommitted => locked')
  <2>1. CASE AlarmCommitted /\ ~locked
    <3>1. Send("inputs", AllOff) /\ locked' = TRUE /\ stateChanged' = TRUE
      BY <2>1 DEF InputTask, InputPoll, Lock
    <3>2. ChannelTypeOK' /\ AllOffSent'
      BY <1>1, <3>1, SendProperties, CommandIsNotNothing DEF IInv, TypeOK, Sender
    <3>. QED  BY <3>1, <3>2 DEF SafetyTypeOK
  <2>2. CASE ~(AlarmCommitted /\ ~locked)
    <3>1. UNCHANGED <<locked, stateChanged, queue, pending>>
      BY <2>2 DEF InputTask, InputPoll
    <3>. QED  BY <2>2, <3>1, ChannelFrame DEF IInv, TypeOK, SafetyTypeOK
  <2>. QED  BY <2>1, <2>2
<1>6. StreakInv'
  <2>1. ARM_SAFETY /\ loopClosed => StreakInv'
    BY <1>1, <1>3, StreakFromZero DEF StreakInv
  <2>2. ARM_SAFETY /\ ~loopClosed => StreakInv'
    BY <1>1, <1>5 DEF StreakInv, AlarmCommitted
  <2>. QED  BY <2>1, <2>2 DEF StreakInv
<1>. QED  BY <1>1, <1>2, <1>4, <1>5, <1>6, SendingStep

LEMMA ButtonStep ==
  ASSUME IInv, Button
  PROVE  IInv'
<1>1. PICK c \in Command : NotSuspended("button") /\ Send("button", c) /\ chase' \in 0 .. COUNT
  <2>1. CASE ButtonPress
    <3>1. {0} \in SUBSET Relay
      BY BoardAssumption DEF Relay
    <3>. QED
      BY <2>1, <3>1, CommandIsNotNothing, BoardAssumption DEF ButtonPress
  <2>2. CASE ChaseStep
    <3>1. {chase} \in SUBSET Relay /\ chase + 1 \in 0 .. COUNT
      BY <2>2, BoardAssumption DEF ChaseStep, Relay
    <3>. QED  BY <2>2, <3>1, CommandIsNotNothing DEF ChaseStep
  <2>3. CASE ChaseEnd
    BY <2>3, CommandIsNotNothing, BoardAssumption DEF ChaseEnd
  <2>. QED  BY <2>1, <2>2, <2>3 DEF Button
<1>2. UNCHANGED <<safetyVars, relaysVars, inputsVars, bootVars>>
  BY DEF Button, ButtonPress, ChaseStep, ChaseEnd
<1>3. ChannelTypeOK' /\ (AllOffSent => AllOffSent')
  BY <1>1, SendProperties DEF IInv, TypeOK, Sender
<1>4. SafetyTypeOK' /\ InputsTypeOK' /\ ChaseTypeOK' /\ StreakInv'
  BY <1>1, <1>2 DEF IInv, TypeOK, SafetyTypeOK, InputsTypeOK, ChaseTypeOK, StreakInv
<1>. QED  BY <1>2, <1>3, <1>4, SendingStep

(* A client's Set.                                                         *)
LEMMA ClientSends ==
  ASSUME IInv, NEW s \in Sender, NEW c \in Command, NotSuspended(s), Send(s, c),
         UNCHANGED <<safetyVars, chase, relaysVars, inputsVars, bootVars>>
  PROVE  IInv'
<1>1. ChannelTypeOK' /\ (AllOffSent => AllOffSent')
  BY SendProperties DEF IInv, TypeOK
<1>2. SafetyTypeOK' /\ InputsTypeOK' /\ ChaseTypeOK' /\ StreakInv'
  BY DEF IInv, TypeOK, SafetyTypeOK, InputsTypeOK, ChaseTypeOK, StreakInv
<1>. QED  BY <1>1, <1>2, SendingStep

LEMMA MqttSubscriberStep ==
  ASSUME IInv, MqttSubscriber
  PROVE  IInv'
<1>1. CASE (\E r \in MqttRequests : MqttSet(r[1], r[2])) /\ UNCHANGED inputsVars
  <2>1. PICK r \in MqttRequests : MqttSet(r[1], r[2])
    BY <1>1
  <2>2. r[1] \in Index /\ r[2] \in BOOLEAN
    BY ClientsAssumption
  <2>3. Set(r[1], r[2]) \in Command
    BY <2>2, CommandIsNotNothing
  <2>. QED
    BY <1>1, <2>1, <2>3, ClientSends DEF MqttSubscriber, MqttSet, Sender
<1>2. CASE TrySafetyReset /\ UNCHANGED chase
  <2>1. /\ UNCHANGED <<channelVars, chase, relaysVars, inputsVars, bootVars>>
        /\ locked' = FALSE /\ stateChanged' = TRUE
        /\ ARM_SAFETY => inputsSafe
    BY <1>2 DEF TrySafetyReset, Unlock, ResetAllowed, MqttSubscriber
  <2>2. ChannelTypeOK' /\ (AllOffSent => AllOffSent')
    BY <2>1, ChannelFrame DEF IInv, TypeOK
  <2>3. SafetyTypeOK' /\ InputsTypeOK' /\ ChaseTypeOK'
    BY <2>1 DEF IInv, TypeOK, SafetyTypeOK, InputsTypeOK, ChaseTypeOK
  <2>4. StreakInv'
    BY <2>1, StreakFromZero DEF IInv, StreakInv
  <2>. QED  BY <2>1, <2>2, <2>3, <2>4, SendingStep
<1>. QED  BY <1>1, <1>2 DEF MqttSubscriber

LEMMA WebServerStep ==
  ASSUME IInv, WebServer
  PROVE  IInv'
<1>1. PICK r \in WebRequests : WebSet(r[1], r[2])
  BY DEF WebServer
<1>2. r[1] \in Index /\ r[2] \in BOOLEAN
  BY ClientsAssumption
<1>3. Set(r[1], r[2]) \in Command
  BY <1>2, CommandIsNotNothing
<1>. QED  BY <1>1, <1>3, ClientSends DEF WebServer, WebSet, Sender

LEMMA WatchdogTripsStep ==
  ASSUME IInv, WatchdogTrips
  PROVE  IInv'
<1>1. /\ NotSuspended("watchdog") /\ Send("watchdog", AllOff)
      /\ locked' = TRUE /\ stateChanged' = TRUE
      /\ UNCHANGED <<relaysVars, inputsVars, chase, bootVars>>
  BY DEF WatchdogTrips, Lock
<1>2. ChannelTypeOK' /\ AllOffSent'
  BY <1>1, SendProperties, CommandIsNotNothing DEF IInv, TypeOK, Sender
<1>3. SafetyTypeOK' /\ InputsTypeOK' /\ ChaseTypeOK' /\ StreakInv'
  BY <1>1 DEF IInv, TypeOK, SafetyTypeOK, InputsTypeOK, ChaseTypeOK, StreakInv
<1>. QED  BY <1>1, <1>2, <1>3, SendingStep

LEMMA PublisherStep ==
  ASSUME IInv, PublisherWakes
  PROVE  IInv'
<1>1. /\ UNCHANGED <<channelVars, locked, relaysVars, inputsVars, chase, bootVars>>
      /\ stateChanged' = FALSE
  BY DEF PublisherWakes
<1>2. ChannelTypeOK' /\ (AllOffSent => AllOffSent')
  BY <1>1, ChannelFrame DEF IInv, TypeOK
<1>3. SafetyTypeOK' /\ InputsTypeOK' /\ ChaseTypeOK' /\ StreakInv'
  BY <1>1 DEF IInv, TypeOK, SafetyTypeOK, InputsTypeOK, ChaseTypeOK, StreakInv
<1>. QED  BY <1>1, <1>2, <1>3, SendingStep

LEMMA WiringStep ==
  ASSUME IInv, Wiring
  PROVE  IInv'
<1>1. /\ UNCHANGED <<channelVars, safetyVars, relaysVars, chase, bootVars>>
      /\ UNCHANGED <<inputsSafe, streak>>
      /\ loopClosed' = ~loopClosed
  BY DEF Wiring, LoopChanges
<1>2. ChannelTypeOK' /\ (AllOffSent => AllOffSent')
  BY <1>1, ChannelFrame DEF IInv, TypeOK
<1>3. SafetyTypeOK' /\ InputsTypeOK' /\ ChaseTypeOK' /\ StreakInv'
  BY <1>1 DEF IInv, TypeOK, SafetyTypeOK, InputsTypeOK, ChaseTypeOK, StreakInv
<1>. QED  BY <1>1, <1>2, <1>3, SendingStep

-----------------------------------------------------------------------------
(* main()                                                                  *)

(* A step of main() before or after the tasks run: it leaves them alone    *)
(* and may open relays, never close one.                                   *)
LEMMA MainStep ==
  ASSUME IInv, UnchangedTasks, port' \in {port, {}},
         phase' \in Phase, initLeft' \in 1 .. INIT_ATTEMPTS, Up' \/ ~Busy
  PROVE  IInv'
<1>1. ChannelTypeOK' /\ AllOffSent' = AllOffSent
  BY ChannelFrame DEF UnchangedTasks, IInv, TypeOK
<1>2. SafetyTypeOK' /\ InputsTypeOK' /\ ChaseTypeOK' /\ StreakInv'
  BY DEF UnchangedTasks, IInv, TypeOK, SafetyTypeOK, InputsTypeOK, ChaseTypeOK, StreakInv
<1>3. RelaysTypeOK'
  BY DEF UnchangedTasks, IInv, TypeOK, RelaysTypeOK
<1>4. Busy' = Busy /\ Landing' = Landing /\ AllOffRunning' = AllOffRunning
  BY DEF UnchangedTasks, Busy, Landing, AllOffRunning
<1>5. OffIsComing'
  BY <1>1, <1>4 DEF UnchangedTasks, IInv, OffIsComing
<1>6. JobInv'
  BY <1>4, AttemptsFrame DEF UnchangedTasks, IInv, JobInv
<1>. QED  BY <1>1, <1>2, <1>3, <1>5, <1>6 DEF IInv, TypeOK

LEMMA BootStep ==
  ASSUME IInv, Boot
  PROVE  IInv'
<1>1. phase \in Phase /\ initLeft \in 1 .. INIT_ATTEMPTS /\ INIT_ATTEMPTS \in 1 .. INIT_ATTEMPTS
  BY RelaysAssumption DEF IInv, TypeOK
<1>2. ~Up => ~Busy
  BY DEF IInv, JobInv
<1>3. CASE EarlyFailure
  BY <1>1, <1>2, <1>3, MainStep DEF EarlyFailure, Phase, Up
<1>4. CASE RelaysNewOk
  BY <1>1, <1>2, <1>4, MainStep DEF RelaysNewOk, InitWriteOk, Phase, Up
<1>5. CASE RelaysNewRetry
  <2>1. initLeft - 1 \in 1 .. INIT_ATTEMPTS
    BY <1>1, <1>5 DEF RelaysNewRetry
  <2>. QED
    BY <1>1, <1>2, <1>5, <2>1, MainStep DEF RelaysNewRetry, InitWriteFails, Phase, Up
<1>6. CASE RelaysNewFails
  BY <1>1, <1>2, <1>6, MainStep DEF RelaysNewFails, InitWriteFails, Phase, Up
<1>7. CASE LinkUp
  BY <1>1, <1>7, MainStep DEF LinkUp, Phase, Up
<1>8. CASE FatalReset \/ ChipReset \/ PowerCycle
  <2>1. RamLost /\ port' \in SUBSET Relay
    BY <1>8 DEF FatalReset, ChipReset, PowerCycle, IInv, TypeOK, RelaysTypeOK
  <2>. QED  BY <2>1, RamLostProperties DEF RamLost, IInv
<1>. QED  BY <1>3, <1>4, <1>5, <1>6, <1>7, <1>8 DEF Boot

LEMMA RelayTaskResetsStep ==
  ASSUME IInv, RelayTaskResets
  PROVE  IInv'
<1>1. port' \in SUBSET Relay
  BY DEF RelayTaskResets, AllOffFails, AttemptFails, IInv, TypeOK, RelaysTypeOK
<1>. QED  BY <1>1, RamLostProperties DEF RelayTaskResets, AllOffFails, IInv

LEMMA StutterStep ==
  ASSUME IInv, UNCHANGED vars
  PROVE  IInv'
<1>1. ChannelTypeOK' /\ SafetyTypeOK' /\ InputsTypeOK' /\ ChaseTypeOK' /\ StreakInv'
      /\ AllOffSent' = AllOffSent
  BY ChannelFrame
  DEF vars, IInv, TypeOK, SafetyTypeOK, InputsTypeOK, ChaseTypeOK, StreakInv
<1>. QED  BY <1>1, SendingStep DEF vars

LEMMA NextPreserves == IInv /\ [Next]_vars => IInv'
<1>. SUFFICES ASSUME IInv, [Next]_vars PROVE IInv'
  OBVIOUS
<1>1. CASE Boot
  BY <1>1, BootStep
<1>2. CASE RelayTask
  BY <1>2, ReceiveStep, WriteOkStep, WriteFailsStep DEF RelayTask
<1>3. CASE RelayTaskResets
  BY <1>3, RelayTaskResetsStep
<1>4. CASE Debounce
  BY <1>4, DebounceStep
<1>5. CASE \E s \in Sender : Executor(s)
  BY <1>5, ExecutorStep
<1>6. CASE InputTask
  BY <1>6, InputTaskStep
<1>7. CASE Button
  BY <1>7, ButtonStep
<1>8. CASE MqttSubscriber
  BY <1>8, MqttSubscriberStep
<1>9. CASE WebServer
  BY <1>9, WebServerStep
<1>10. CASE WatchdogTrips
  BY <1>10, WatchdogTripsStep
<1>11. CASE PublisherWakes
  BY <1>11, PublisherStep
<1>12. CASE Wiring
  BY <1>12, WiringStep
<1>13. CASE UNCHANGED vars
  BY <1>13, StutterStep
<1>. QED
  BY <1>1, <1>2, <1>3, <1>4, <1>5, <1>6, <1>7, <1>8, <1>9, <1>10, <1>11, <1>12, <1>13
  DEF Next, Tasks

(* The inductive invariant holds in every reachable state.                 *)
THEOREM Invariance == Spec => []IInv
BY InitEstablishes, NextPreserves, PTL DEF Spec

(* Every variable keeps its type; in particular the channel never holds    *)
(* more than its capacity, and a Set that is written names a relay.        *)
THEOREM TypeCorrect == Spec => []TypeOK
<1>1. IInv => TypeOK
  BY DEF IInv
<1>. QED  BY <1>1, Invariance, PTL

(* No interleaving of commands, suspended senders, failed writes, resets   *)
(* and restarts loses the AllOff of an engaged interlock.                  *)
THEOREM OffAlwaysComing == Spec => []OffIsComing
<1>1. IInv => OffIsComing
  BY DEF IInv
<1>. QED  BY <1>1, Invariance, PTL

(* The operator's reset cannot clear the interlock while the alarm that    *)
(* engaged it lasts.                                                       *)
THEOREM AlarmStaysLatched == Spec => []AlarmIsLatched
<1>1. IInv => AlarmIsLatched
  BY DEF IInv, StreakInv, AlarmIsLatched
<1>. QED  BY <1>1, Invariance, PTL

-----------------------------------------------------------------------------
(* No AllOff is lost, whether or not the interlock stays engaged           *)

(* What a step of any other task does to the channel.                      *)
LEMMA TasksKeepAllOff ==
  ASSUME IInv, (\E s \in Sender : Executor(s)) \/ InputTask \/ Button \/ MqttSubscriber
                 \/ WebServer \/ WatchdogTrips \/ PublisherWakes \/ Debounce \/ Wiring
  PROVE  AllOffSent => AllOffSent'
<1>. USE DEF IInv, TypeOK
<1>1. CASE \E s \in Sender : Executor(s)
  BY <1>1, DeliverProperties DEF Executor
<1>2. ASSUME NEW s \in Sender, NEW c \in Command, NotSuspended(s), Send(s, c)
      PROVE  AllOffSent => AllOffSent'
  BY <1>2, SendProperties
<1>3. CASE UNCHANGED channelVars
  BY <1>3, ChannelFrame
<1>4. CASE InputTask
  BY <1>2, <1>3, <1>4, CommandIsNotNothing DEF InputTask, InputPoll, Sender
<1>5. CASE Button
  <2>1. ASSUME NEW i \in Relay  PROVE SetMask({i}) \in Command
    BY CommandIsNotNothing
  <2>2. CASE ButtonPress
    BY <1>2, <2>1, <2>2, BoardAssumption DEF ButtonPress, Relay, Sender
  <2>3. CASE ChaseStep
    <3>1. chase \in Relay
      BY <2>3, BoardAssumption DEF ChaseStep, Relay
    <3>. QED  BY <1>2, <2>1, <2>3, <3>1 DEF ChaseStep, Sender
  <2>4. CASE ChaseEnd
    BY <1>2, <2>4, CommandIsNotNothing DEF ChaseEnd, Sender
  <2>. QED  BY <1>5, <2>2, <2>3, <2>4 DEF Button
<1>6. CASE MqttSubscriber
  <2>1. ASSUME NEW r \in MqttRequests, MqttSet(r[1], r[2])
        PROVE  AllOffSent => AllOffSent'
    <3>1. Set(r[1], r[2]) \in Command
      BY ClientsAssumption, CommandIsNotNothing
    <3>. QED  BY <1>2, <2>1, <3>1 DEF MqttSet, Sender
  <2>. QED  BY <1>3, <1>6, <2>1 DEF MqttSubscriber, TrySafetyReset
<1>7. CASE WebServer
  <2>1. PICK r \in WebRequests : WebSet(r[1], r[2])
    BY <1>7 DEF WebServer
  <2>2. Set(r[1], r[2]) \in Command
    BY ClientsAssumption, CommandIsNotNothing
  <2>. QED  BY <1>2, <2>1, <2>2 DEF WebSet, Sender
<1>8. CASE WatchdogTrips
  BY <1>2, <1>8, CommandIsNotNothing DEF WatchdogTrips, Sender
<1>9. CASE PublisherWakes \/ Debounce \/ Wiring
  BY <1>3, <1>9 DEF PublisherWakes, Debounce, DebounceExpires, Wiring
<1>. QED  BY <1>1, <1>4, <1>5, <1>6, <1>7, <1>8, <1>9

LEMMA KeptByReceive ==
  ASSUME IInv, Receive
  PROVE  AllOffSent => AllOffSent' \/ AllOffRunning'
<1>. DEFINE cmd == Head(queue)
<1>1. AllOffSent /\ cmd # AllOff => AllOffSent'
  BY ReceiveProperties DEF IInv, TypeOK, Receive
<1>2. CASE cmd = AllOff
  <2>1. Admit(cmd)
    BY <1>2 DEF Receive, Refuse, Refuses, Ignore, Ignores, AllOff
  <2>. QED
    BY <1>2, <2>1, RelaysAssumption DEF Admit, Attempts, AllOffRunning, Busy
<1>. QED  BY <1>1, <1>2

(* The end of an AllOff's write is the write of IDLE.                      *)
LEMMA KeptByWriteOk ==
  ASSUME IInv, AllOffRunning, WriteOk
  PROVE  port' = {} /\ onMask' = {}
<1>1. ~job.refused /\ shadow = {}
  BY DEF AllOffRunning, IInv, JobInv, Landing
<1>. QED  BY <1>1 DEF WriteOk

LEMMA KeptByRetry ==
  ASSUME IInv, AllOffRunning, WriteRetry
  PROVE  AllOffRunning'
<1>1. /\ job \in [cmd : Command, refused : BOOLEAN, left : Nat]
      /\ job' = [job EXCEPT !.left = @ - 1]
      /\ job.left > 1
  BY DEF WriteRetry, IInv, TypeOK, RelaysTypeOK
<1>. QED  BY <1>1 DEF AllOffRunning, Busy

LEMMA KeptStep ==
  ASSUME IInv, [Next]_vars
  PROVE  /\ AllOffSent => AllOffSent' \/ AllOffRunning' \/ phase' = "boot"
         /\ AllOffRunning => \/ AllOffRunning'
                             \/ port' = {} /\ onMask' = {}
                             \/ phase' = "boot"
<1>1. CASE UnchangedTasks
  BY <1>1 DEF UnchangedTasks, AllOffSent, AllOffRunning, Busy
<1>2. CASE Boot
  BY <1>1, <1>2
  DEF Boot, EarlyFailure, RelaysNewOk, RelaysNewRetry, RelaysNewFails, LinkUp, FatalReset,
      ChipReset, PowerCycle, RamLost, Rebooted
<1>3. CASE RelayTaskResets
  BY <1>3 DEF RelayTaskResets, Rebooted
<1>4. CASE RelayTask
  <2>1. CASE Receive
    <3>1. ~AllOffRunning
      BY <2>1 DEF Receive, AllOffRunning
    <3>. QED  BY <2>1, <3>1, KeptByReceive
  <2>2. CASE WriteOk \/ WriteRetry \/ WriteGiveUp
    <3>1. AllOffSent' = AllOffSent
      BY <2>2, ChannelFrame DEF WriteOk, WriteRetry, WriteGiveUp
    <3>2. AllOffRunning => ~WriteGiveUp
      BY DEF WriteGiveUp
    <3>. QED  BY <2>2, <3>1, <3>2, KeptByWriteOk, KeptByRetry
  <2>. QED  BY <1>4, <2>1, <2>2 DEF RelayTask
<1>5. CASE (\E s \in Sender : Executor(s)) \/ InputTask \/ Button \/ MqttSubscriber
             \/ WebServer \/ WatchdogTrips \/ PublisherWakes \/ Debounce \/ Wiring
  <2>1. UNCHANGED job
    BY <1>5
    DEF Executor, InputTask, Button, MqttSubscriber, WebServer, WatchdogTrips,
        PublisherWakes, Debounce, DebounceExpires, Wiring
  <2>. QED  BY <1>5, <2>1, TasksKeepAllOff DEF AllOffRunning, Busy
<1>6. CASE UNCHANGED vars
  BY <1>6 DEF vars, AllOffSent, AllOffRunning, Busy
<1>. QED  BY <1>2, <1>3, <1>4, <1>5, <1>6 DEF Next, Tasks

(* The operator's reset before the AllOff is received, or while it is      *)
(* written, cancels neither, and no command after it does.                 *)
THEOREM AllOffNeverCancelled == Spec => AllOffKept
<1>1. IInv /\ [Next]_vars
        => [/\ AllOffSent => AllOffSent' \/ AllOffRunning' \/ phase' = "boot"
            /\ AllOffRunning => \/ AllOffRunning'
                                \/ port' = {} /\ onMask' = {}
                                \/ phase' = "boot"]_vars
  BY KeptStep
<1>. QED  BY <1>1, Invariance, PTL DEF Spec, AllOffKept

-----------------------------------------------------------------------------
(* The copies of the relays' state, while no write on the bus fails        *)

(* Only the end of a write changes the latch.  It makes the three copies   *)
(* one, except the write of IDLE for a refused command, which leaves the   *)
(* reported mask as it was: then the interlock is engaged, and its AllOff  *)
(* is still to come or has been reported.  A restart clears the RAM, and   *)
(* no task runs before Relays::new has cleared the latch.  A Set starts    *)
(* from a shadow that is the latch.                                        *)
CopiesInv ==
  /\ Up /\ ~Busy => shadow = port /\ (onMask = port \/ AllOffSent)
  /\ Busy /\ job.refused => onMask = {} \/ AllOffSent
  /\ ~Up => shadow = {} /\ onMask = {}
  /\ Landing /\ job.cmd.op = "Set" => shadow = SetResult

(* A step that leaves relay_task and main() alone and loses no AllOff.     *)
LEMMA CopiesFrame ==
  ASSUME CopiesInv, UNCHANGED <<shadow, port, onMask, job, phase>>, AllOffSent => AllOffSent'
  PROVE  CopiesInv'
BY DEF CopiesInv, Up, Busy, Landing, SetResult

LEMMA CopiesReceive ==
  ASSUME IInv, CopiesInv, Up, Receive, UNCHANGED bootVars
  PROVE  CopiesInv'
<1>. DEFINE cmd == Head(queue)
<1>1. AllOffSent /\ cmd # AllOff => AllOffSent'
  BY ReceiveProperties DEF IInv, TypeOK, Receive
<1>2. /\ ~Busy /\ UNCHANGED <<port, onMask>> /\ Up'
      /\ Refuse(cmd) \/ Ignore(cmd) \/ Admit(cmd)
  BY DEF Receive, Up
<1>3. shadow = port /\ (onMask = port \/ AllOffSent)
  BY <1>2 DEF CopiesInv
<1>. HIDE DEF cmd
<1>4. CASE Refuse(cmd)
  <2>1. onMask' = {} \/ AllOffSent'
    BY <1>1, <1>2, <1>4 DEF Refuse, Refuses, IInv, OffIsComing, AllOffRunning
  <2>2. Busy' /\ ~Landing'
    BY <1>4, RelaysAssumption DEF Refuse, Busy, Landing
  <2>. QED  BY <1>2, <2>1, <2>2 DEF CopiesInv
<1>5. CASE Ignore(cmd)
  <2>1. cmd # AllOff /\ UNCHANGED <<shadow, job>> /\ ~Busy'
    BY <1>2, <1>5 DEF Ignore, Ignores, AllOff, Busy
  <2>. QED  BY <1>1, <1>2, <1>3, <2>1 DEF CopiesInv, Landing
<1>6. CASE Admit(cmd)
  <2>1. Busy' /\ ~job'.refused /\ job'.cmd = cmd /\ shadow' = Target(cmd)
    BY <1>6, RelaysAssumption DEF Admit, Attempts, Busy
  <2>2. cmd.op = "Set" => shadow' = SetResult'
    BY <1>2, <1>3, <2>1 DEF Target, SetResult
  <2>. QED  BY <1>2, <2>1, <2>2 DEF CopiesInv
<1>. QED  BY <1>2, <1>4, <1>5, <1>6

LEMMA CopiesWrite ==
  ASSUME IInv, CopiesInv, Up, WriteOk, UNCHANGED bootVars
  PROVE  CopiesInv'
<1>1. /\ ~Busy' /\ ~Landing' /\ Up'
      /\ port' = shadow /\ shadow' = shadow
      /\ AllOffSent' = AllOffSent
  BY NoJobType DEF WriteOk, Busy, Landing, Up, AllOffSent
<1>2. CASE job.refused
  <2>1. shadow = {} /\ onMask' = onMask
    BY <1>2 DEF WriteOk, IInv, JobInv, Landing
  <2>. QED  BY <1>1, <1>2, <2>1 DEF WriteOk, CopiesInv
<1>3. CASE ~job.refused
  BY <1>1, <1>3 DEF WriteOk, CopiesInv
<1>. QED  BY <1>2, <1>3

LEMMA CopiesBoot ==
  ASSUME IInv, CopiesInv, Boot
  PROVE  CopiesInv'
<1>1. CASE FatalReset \/ ChipReset \/ PowerCycle
  <2>1. ~Up' /\ ~Busy' /\ shadow' = {} /\ onMask' = {}
    BY <1>1, NoJobType
    DEF FatalReset, ChipReset, PowerCycle, RamLost, Rebooted, RelaysReset, Busy, Up
  <2>. QED  BY <2>1 DEF CopiesInv, Landing
<1>2. CASE UnchangedTasks /\ ~Up
  <2>1. ~Busy' /\ shadow' = {} /\ onMask' = {}
    BY <1>2 DEF UnchangedTasks, IInv, JobInv, Busy, CopiesInv
  <2>2. RelaysNewOk => port' = {}
    BY DEF RelaysNewOk, InitWriteOk
  <2>3. Up' => RelaysNewOk
    BY <1>1, <1>2
    DEF Boot, EarlyFailure, RelaysNewRetry, RelaysNewFails, LinkUp, FatalReset, ChipReset,
        PowerCycle, RamLost, Rebooted, Up
  <2>. QED  BY <2>1, <2>2, <2>3 DEF CopiesInv, Landing
<1>3. CASE LinkUp
  <2>1. Up /\ Up' /\ UNCHANGED <<shadow, port, onMask, job, queue, pending>>
    BY <1>3 DEF LinkUp, UnchangedTasks, Up
  <2>. QED  BY <2>1 DEF CopiesInv, Busy, Landing, SetResult, AllOffSent
<1>. QED
  BY <1>1, <1>2, <1>3
  DEF Boot, EarlyFailure, RelaysNewOk, RelaysNewRetry, RelaysNewFails, Up

LEMMA CopiesPreserved ==
  ASSUME IInv, CopiesInv, ~BusFaults, [Next]_vars
  PROVE  CopiesInv'
<1>1. CASE Boot
  BY <1>1, CopiesBoot
<1>2. CASE RelayTask
  BY <1>2, CopiesReceive, CopiesWrite DEF RelayTask, WriteRetry, WriteGiveUp, AttemptFails
<1>3. CASE RelayTaskResets
  BY <1>3 DEF RelayTaskResets, AllOffFails, AttemptFails
<1>4. CASE (\E s \in Sender : Executor(s)) \/ InputTask \/ Button \/ MqttSubscriber
             \/ WebServer \/ WatchdogTrips \/ PublisherWakes \/ Debounce \/ Wiring
  <2>1. UNCHANGED <<shadow, port, onMask, job, phase>>
    BY <1>4
    DEF Executor, InputTask, Button, MqttSubscriber, WebServer, WatchdogTrips,
        PublisherWakes, Debounce, DebounceExpires, Wiring
  <2>. QED  BY <1>4, <2>1, TasksKeepAllOff, CopiesFrame
<1>5. CASE UNCHANGED vars
  BY <1>5, CopiesFrame DEF vars, AllOffSent
<1>. QED  BY <1>1, <1>2, <1>3, <1>4, <1>5 DEF Next, Tasks

CopiesIInv == ~BusFaults => CopiesInv

(* On a bus without faults the relations between the copies hold in every  *)
(* reachable state, during a command too.                                  *)
THEOREM CopiesInvariance == Spec => []CopiesIInv
<1>1. Init => CopiesIInv
  BY NoJobType DEF Init, RelaysInit, CopiesIInv, CopiesInv, Busy, Landing, Up
<1>2. IInv /\ CopiesIInv /\ [Next]_vars => CopiesIInv'
  BY CopiesPreserved DEF CopiesIInv
<1>. QED  BY <1>1, <1>2, Invariance, PTL DEF Spec

(* While no write fails the driver's shadow never drifts from the latch,   *)
(* and the mask that is reported is late only while an AllOff is coming.   *)
THEOREM CopiesStayTogether == Spec => []CopiesAgree
<1>1. CopiesIInv => CopiesAgree
  BY DEF CopiesIInv, CopiesInv, CopiesAgree
<1>. QED  BY <1>1, CopiesInvariance, PTL

LEMMA SetStep ==
  ASSUME IInv, CopiesInv, ~BusFaults, [Next]_vars,
         Landing, job.cmd.op = "Set", phase' # "boot"
  PROVE  port' = IF Landing' THEN port ELSE SetResult
<1>1. CASE Boot
  <2>1. Up /\ UNCHANGED <<port, job>>
    BY <1>1
    DEF Boot, EarlyFailure, RelaysNewOk, RelaysNewRetry, RelaysNewFails, LinkUp, FatalReset,
        ChipReset, PowerCycle, RamLost, Rebooted, UnchangedTasks, IInv, JobInv, Landing, Up
  <2>. QED  BY <2>1 DEF Landing, Busy
<1>2. CASE RelayTask
  <2>1. WriteOk
    BY <1>2 DEF RelayTask, Receive, WriteRetry, WriteGiveUp, AttemptFails, Landing
  <2>2. ~Landing' /\ port' = shadow
    BY <2>1, NoJobType DEF WriteOk, Landing, Busy
  <2>. QED  BY <2>2 DEF CopiesInv
<1>3. CASE RelayTaskResets
  BY <1>3 DEF RelayTaskResets, Rebooted
<1>4. CASE (\E s \in Sender : Executor(s)) \/ InputTask \/ Button \/ MqttSubscriber
             \/ WebServer \/ WatchdogTrips \/ PublisherWakes \/ Debounce \/ Wiring
  <2>1. UNCHANGED <<port, job>>
    BY <1>4
    DEF Executor, InputTask, Button, MqttSubscriber, WebServer, WatchdogTrips,
        PublisherWakes, Debounce, DebounceExpires, Wiring
  <2>. QED  BY <2>1 DEF Landing, Busy
<1>5. CASE UNCHANGED vars
  BY <1>5 DEF vars, Landing, Busy
<1>. QED  BY <1>1, <1>2, <1>3, <1>4, <1>5 DEF Next, Tasks

(* While no write fails, a Set that is carried out switches its relay and  *)
(* no other, whatever became of the commands before it.                    *)
THEOREM SetsAreExact == Spec => SetIsExact
<1>1. IInv /\ CopiesIInv /\ [Next]_vars
        => [~BusFaults /\ Landing /\ job.cmd.op = "Set" /\ phase' # "boot"
              => port' = IF Landing' THEN port ELSE SetResult]_vars
  BY SetStep DEF CopiesIInv
<1>. QED  BY <1>1, Invariance, CopiesInvariance, PTL DEF Spec, SetIsExact

-----------------------------------------------------------------------------
(* The refinement: every step of the firmware is a step of SafeOutputs, or *)
(* leaves the interlock, the outputs and the admitted pattern as they are. *)

LEMMA Stutters ==
  ASSUME locked' = locked, port' = port, Landing' <=> Landing,
         Landing => shadow' = shadow
  PROVE  UNCHANGED Promise!vars
BY DEF Promise!vars

LEMMA TasksStutter ==
  ASSUME UNCHANGED <<relaysVars, locked>>
  PROVE  UNCHANGED Promise!vars
BY RelaysFrame, Stutters

LEMMA FlipRefines ==
  ASSUME UNCHANGED relaysVars, locked' # locked, locked \in BOOLEAN, locked' \in BOOLEAN
  PROVE  Promise!Next
<1>1. Landing' = Landing /\ port' = port /\ shadow' = shadow
  BY RelaysFrame
<1>2. CASE locked
  BY <1>1, <1>2 DEF Promise!Next, Promise!Release
<1>3. CASE ~locked
  BY <1>1, <1>3 DEF Promise!Next, Promise!Engage
<1>. QED  BY <1>2, <1>3

LEMMA RestartRefines ==
  ASSUME SafetyReset, RelaysReset, port' \in SUBSET port
  PROVE  Promise!Next
<1>1. locked' = FALSE /\ ~Landing'
  BY NoJobType DEF SafetyReset, RelaysReset, Landing, Busy
<1>. QED  BY <1>1 DEF Promise!Next, Promise!Restart

LEMMA BootRefines ==
  ASSUME IInv, Boot
  PROVE  [Promise!Next]_(Promise!vars)
<1>1. ASSUME UnchangedTasks
      PROVE  locked' = locked /\ Landing' = Landing /\ shadow' = shadow
  BY <1>1 DEF UnchangedTasks, Landing, Busy
<1>2. phase = "boot" => ~Landing
  BY DEF IInv, JobInv, Up, Landing
<1>3. CASE EarlyFailure \/ LinkUp
  BY <1>1, <1>3, Stutters DEF EarlyFailure, LinkUp
<1>4. CASE RelaysNewOk \/ RelaysNewRetry \/ RelaysNewFails
  <2>1. UnchangedTasks /\ port' \in {port, {}} /\ ~Landing
    BY <1>2, <1>4
    DEF RelaysNewOk, RelaysNewRetry, RelaysNewFails, InitWriteOk, InitWriteFails
  <2>2. CASE port' = port
    BY <1>1, <2>1, <2>2, Stutters
  <2>3. CASE port' = {}
    BY <1>1, <2>1, <2>3 DEF Promise!Next, Promise!Quench
  <2>. QED  BY <2>1, <2>2, <2>3
<1>5. CASE FatalReset \/ ChipReset \/ PowerCycle
  <2>1. RamLost /\ port' \in SUBSET port
    BY <1>5 DEF FatalReset, ChipReset, PowerCycle
  <2>. QED  BY <2>1, RestartRefines DEF RamLost
<1>. QED  BY <1>3, <1>4, <1>5 DEF Boot

LEMMA ReceiveRefines ==
  ASSUME IInv, IInv', Receive
  PROVE  [Promise!Next]_(Promise!vars)
<1>. DEFINE cmd == Head(queue)
<1>1. /\ ~Busy /\ ~Landing
      /\ UNCHANGED <<locked, port>>
      /\ Refuse(cmd) \/ Ignore(cmd) \/ Admit(cmd)
  BY DEF Receive, Landing
<1>. HIDE DEF cmd
<1>2. CASE Refuse(cmd)
  BY <1>1, <1>2, Stutters DEF Refuse, Landing
<1>3. CASE Ignore(cmd)
  BY <1>1, <1>3, Stutters DEF Ignore, Landing, Busy
<1>4. CASE Admit(cmd)
  <2>1. CASE cmd = AllOff
    BY <1>1, <1>4, <2>1, Stutters DEF Admit, Landing
  <2>2. CASE cmd # AllOff
    <3>1. Landing' /\ ~locked
      BY <1>4, <2>2, RelaysAssumption DEF Admit, Refuses, Landing, Busy, Attempts
    <3>2. shadow' \in SUBSET Relay
      BY DEF IInv, TypeOK, RelaysTypeOK
    <3>. QED  BY <1>1, <3>1, <3>2 DEF Promise!Next, Promise!Admit
  <2>. QED  BY <2>1, <2>2
<1>. QED  BY <1>1, <1>2, <1>3, <1>4

LEMMA WriteRefines ==
  ASSUME IInv, WriteOk \/ WriteRetry \/ WriteGiveUp
  PROVE  [Promise!Next]_(Promise!vars)
<1>1. /\ Busy /\ port' \in {port, shadow} /\ UNCHANGED <<locked, shadow>>
      /\ (WriteOk /\ job' = NoJob) \/ (WriteRetry /\ job' = [job EXCEPT !.left = @ - 1]) \/ job' = NoJob
  BY DEF WriteOk, WriteRetry, WriteGiveUp, AttemptFails
<1>2. Landing' => Landing
  <2>1. CASE job' = NoJob
    BY <2>1, NoJobType DEF Landing, Busy
  <2>2. CASE job' = [job EXCEPT !.left = @ - 1]
    BY <1>1, <2>2 DEF Landing, IInv, TypeOK, RelaysTypeOK
  <2>. QED  BY <1>1, <2>1, <2>2
<1>3. CASE Landing
  BY <1>1, <1>2, <1>3 DEF Promise!Next, Promise!Land
<1>4. CASE ~Landing
  <2>1. shadow = {}
    BY <1>1, <1>4 DEF IInv, JobInv
  <2>2. CASE port' = port
    BY <1>1, <1>2, <1>4, <2>2, Stutters
  <2>3. CASE port' = {}
    BY <1>1, <1>2, <1>4, <2>3 DEF Promise!Next, Promise!Quench
  <2>. QED  BY <1>1, <2>1, <2>2, <2>3
<1>. QED  BY <1>3, <1>4

LEMMA NextRefines == IInv /\ IInv' /\ [Next]_vars => [Promise!Next]_(Promise!vars)
<1>. SUFFICES ASSUME IInv, IInv', [Next]_vars
              PROVE  [Promise!Next]_(Promise!vars)
  OBVIOUS
<1>1. CASE Boot
  BY <1>1, BootRefines
<1>2. CASE RelayTask
  BY <1>2, ReceiveRefines, WriteRefines DEF RelayTask
<1>3. CASE RelayTaskResets
  <2>1. AllOffRunning /\ port' \in {port, shadow} /\ SafetyReset /\ RelaysReset
    BY <1>3 DEF RelayTaskResets, AllOffFails, AttemptFails
  <2>2. shadow = {}
    BY <2>1 DEF IInv, JobInv, AllOffRunning, Landing
  <2>. QED  BY <2>1, <2>2, RestartRefines
<1>4. CASE InputTask \/ MqttSubscriber \/ WatchdogTrips
  <2>1. UNCHANGED relaysVars /\ locked \in BOOLEAN /\ locked' \in BOOLEAN
    BY <1>4
    DEF InputTask, MqttSubscriber, WatchdogTrips, IInv, TypeOK, SafetyTypeOK
  <2>. QED  BY <2>1, FlipRefines, TasksStutter
<1>5. CASE Debounce
  BY <1>5, Stutters DEF Debounce, DebounceExpires, Landing, Busy
<1>6. CASE (\E s \in Sender : Executor(s)) \/ Button \/ WebServer \/ PublisherWakes \/ Wiring
  <2>1. UNCHANGED <<relaysVars, locked>>
    BY <1>6
    DEF Executor, Button, ButtonPress, ChaseStep, ChaseEnd, WebServer, WebSet,
        PublisherWakes, Wiring
  <2>. QED  BY <2>1, TasksStutter
<1>7. CASE UNCHANGED vars
  BY <1>7, TasksStutter DEF vars
<1>. QED
  BY <1>1, <1>2, <1>3, <1>4, <1>5, <1>6, <1>7 DEF Next, Tasks

(* The firmware implements the abstract promise about its outputs.         *)
THEOREM KeepsPromise == Spec => PromiseKept
<1>1. Init => Promise!Init
  BY NoJobType
  DEF Init, SafetyInit, RelaysInit, Promise!Init, Landing, Busy
<1>. QED
  BY <1>1, Invariance, NextRefines, PTL DEF Spec, PromiseKept, Promise!Spec

(* While the interlock stays engaged no step closes a relay, except the    *)
(* write that was admitted before it engaged.                              *)
THEOREM OnlyOpensProved == Spec => OnlyOpens
<1>1. ASSUME [Promise!Next]_(Promise!vars), locked, locked', ~Landing
      PROVE  port' \subseteq port /\ ~Landing'
  BY <1>1
  DEF Promise!Next, Promise!vars, Promise!Engage, Promise!Release, Promise!Admit,
      Promise!Land, Promise!Quench, Promise!Restart
<1>2. IInv /\ IInv' /\ [Next]_vars
        => [locked /\ locked' /\ ~Landing => port' \subseteq port /\ ~Landing']_vars
  BY <1>1, NextRefines
<1>. QED  BY <1>2, Invariance, PTL DEF Spec, OnlyOpens

-----------------------------------------------------------------------------
(* What the tasks show to the publisher                                    *)

DeviceStep == [DeviceNext]_(deviceVars)

(* Of a task that does not restart the firmware and takes no signal.       *)
TaskStep == [MaskStored \/ LockFlips]_(deviceVars)

LEMMA TaskSteps == TaskStep => DeviceStep
BY DEF TaskStep, DeviceStep, DeviceNext

LEMMA DeviceStutters ==
  ASSUME UNCHANGED <<onMask, locked, stateChanged>>
  PROVE  TaskStep
BY DEF TaskStep, deviceVars

(* Any restart, also that of a relay_task that cannot write.               *)
LEMMA DeviceResets ==
  ASSUME SafetyReset, RelaysReset
  PROVE  DeviceStep
BY DEF SafetyReset, RelaysReset, DeviceStep, DeviceNext, DeviceRestarts

(* A lock or an unlock, and what they leave alone.                         *)
LEMMA FlipSignals ==
  ASSUME Lock \/ Unlock \/ UNCHANGED safetyVars, onMask' = onMask, locked \in BOOLEAN
  PROVE  TaskStep
<1>1. CASE Lock \/ Unlock
  <2>1. locked' = ~locked /\ stateChanged' = TRUE
    BY <1>1 DEF Lock, Unlock
  <2>. QED
    BY <2>1 DEF TaskStep, LockFlips
<1>2. CASE UNCHANGED safetyVars
  BY <1>2, DeviceStutters
<1>. QED  BY <1>1, <1>2

LEMMA BootShows ==
  ASSUME Boot
  PROVE  DeviceStep
<1>1. CASE UnchangedTasks
  BY <1>1, DeviceStutters, TaskSteps DEF UnchangedTasks
<1>2. CASE RamLost
  BY <1>2, DeviceResets DEF RamLost
<1>. QED
  BY <1>1, <1>2
  DEF Boot, EarlyFailure, RelaysNewOk, RelaysNewRetry, RelaysNewFails, LinkUp,
      FatalReset, ChipReset, PowerCycle

LEMMA RelayTaskShows ==
  ASSUME RelaysTypeOK, RelayTask
  PROVE  TaskStep
<1>1. CASE Receive \/ WriteRetry \/ WriteGiveUp
  BY <1>1, DeviceStutters DEF Receive, WriteRetry, WriteGiveUp
<1>2. CASE WriteOk /\ job.refused
  BY <1>2, DeviceStutters DEF WriteOk
<1>3. CASE WriteOk /\ ~job.refused
  <2>1. /\ onMask' = shadow /\ shadow \in SUBSET Relay
        /\ stateChanged' = TRUE /\ locked' = locked
    BY <1>3 DEF WriteOk, RelaysTypeOK
  <2>. QED
    BY <2>1 DEF TaskStep, MaskStored, Relay
<1>. QED  BY <1>1, <1>2, <1>3 DEF RelayTask

(* The steps of the tasks that lock, unlock or leave the interlock alone.  *)
LEMMA InterlockShows ==
  ASSUME IInv, InputTask \/ MqttSubscriber \/ WatchdogTrips
  PROVE  TaskStep
<1>1. Lock \/ Unlock \/ UNCHANGED safetyVars
  BY DEF InputTask, InputPoll, MqttSubscriber, MqttSet, TrySafetyReset, WatchdogTrips
<1>2. onMask' = onMask /\ locked \in BOOLEAN
  BY DEF InputTask, MqttSubscriber, WatchdogTrips, IInv, TypeOK, SafetyTypeOK
<1>. QED  BY <1>1, <1>2, FlipSignals

LEMMA OthersShow ==
  ASSUME (\E s \in Sender : Executor(s)) \/ Button \/ WebServer \/ Debounce \/ Wiring
  PROVE  TaskStep
<1>1. UNCHANGED <<onMask, locked, stateChanged>>
  BY DEF Executor, Button, ButtonPress, ChaseStep, ChaseEnd, WebServer, WebSet,
         Debounce, DebounceExpires, Wiring
<1>. QED  BY <1>1, DeviceStutters

LEMMA NextShows == IInv /\ [Next]_vars => DeviceStep
<1>. SUFFICES ASSUME IInv, [Next]_vars
              PROVE  DeviceStep
  OBVIOUS
<1>1. CASE Boot
  BY <1>1, BootShows
<1>2. CASE RelayTask
  BY <1>2, RelayTaskShows, TaskSteps DEF IInv, TypeOK
<1>3. CASE RelayTaskResets
  BY <1>3, DeviceResets DEF RelayTaskResets, AllOffFails
<1>4. CASE InputTask \/ MqttSubscriber \/ WatchdogTrips
  BY <1>4, InterlockShows, TaskSteps
<1>5. CASE PublisherWakes
  BY <1>5
  DEF PublisherWakes, DeviceStep, DeviceNext, SignalTaken
<1>6. CASE (\E s \in Sender : Executor(s)) \/ Button \/ WebServer \/ Debounce \/ Wiring
  BY <1>6, OthersShow, TaskSteps
<1>7. CASE UNCHANGED vars
  BY <1>7, DeviceStutters, TaskSteps DEF vars
<1>. QED
  BY <1>1, <1>2, <1>3, <1>4, <1>5, <1>6, <1>7 DEF Next, Tasks

(* The tasks implement what the publisher relies on: no change of the mask *)
(* or of the interlock without the signal, also across restarts.           *)
THEOREM SignalsEveryChange == Spec => ChangesSignalled
<1>1. Init => DeviceInit
  BY DEF Init, SafetyInit, RelaysInit, DeviceInit
<1>2. IInv /\ [Next]_vars => [DeviceNext]_(deviceVars)
  BY NextShows DEF DeviceStep
<1>. QED
  BY <1>1, <1>2, Invariance, PTL DEF Spec, ChangesSignalled, DeviceSpec
=============================================================================
