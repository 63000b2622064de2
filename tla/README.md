# A TLA+ model of the KC868-A6 relay controller

The firmware drives six mains relays behind an I2C port expander (PCF8574) from
an ESP32.  Commands come from MQTT, from an HTTP dashboard and from a push
button; a safety interlock opens every relay and refuses further commands when a
fail-safe input opens or when communication is lost; firmware is updated over
the air.  This directory holds TLA+ specifications of that behaviour, TLC
configurations that check them on small instances, and TLAPS proofs about the
interlock, the reports to the broker, the communication watchdog and the update
for every value of their parameters.

Paths such as `relays.rs:132` are under the crate's `src/`.

## 1. Inventory

Everything runs as embassy tasks on one cooperative executor: a task runs
undisturbed from one `.await` to the next, and only there do others run.

| component | state | operations | interacts with |
|---|---|---|---|
| relay channel (`relays.rs:84`, `main.rs:183`) | 16 commands, the suspended senders | send, receive | every task that asks for relays; `relay_task` |
| relay task, PCF8574 driver (`relays.rs`, `pcf8574.rs`) | shadow byte, debounce stamps, `ON_MASK`; the latch in the chip | init with retries, apply a command with retries, give up, reset | bus, interlock, `STATE_CHANGED` |
| interlock (`safety.rs`) | `LOCKED` | lock, unlock | set by inputs and watchdog, cleared by MQTT, read by relay task and button |
| fail-safe inputs (`inputs.rs`) | `INPUT_MASK`, `alarm_streak` | poll each 100 ms, operator reset | interlock, relay channel |
| comms watchdog (`watchdog.rs`) | two 32-bit stamps | look each second | link, publisher, interlock, relay channel |
| MQTT publisher (`mqtt.rs:60`) | session, the report it is sending | connect, initial report, heartbeat, report on change | watchdog (pets it), `STATE_CHANGED`, `ON_MASK`, `LOCKED`, the broker's retained topics |
| MQTT subscriber (`mqtt.rs:226`) | session | relay set, safety reset | relay channel, interlock, the broker (its will) |
| HTTP server (`webserver.rs`) | one connection, its only socket | page, status, relay set, OTA, reboot | relay channel, OTA |
| OTA (`ota.rs`) | two app slots, two otadata copies, an upload | begin, write, finish, reboot | HTTP server, bootloader |
| button (`button.rs`) | the running self-test | press, chase | interlock, relay channel |
| boot (`main.rs`) | how far it came | bring-up, `fatal_init`, spawn | everything |
| WiFi (`wifi.rs`), hardware watchdog (`hw_watchdog.rs`) | link; a timer | connect; feed | watchdog; reset |
| HA discovery, display, temperature chain, dashboard | none the rest depends on | output | `TEMPERATURE` |

Hard behaviours, and what correctness means for them (the complete list, with
lines, is `hazards` in `PROJECT.json`):

* the interlock is tested before an awaited write that may be retried for a
  fraction of a second; locks, resets and new commands happen meanwhile;
* the `AllOff` of a lock waits behind queued commands, or its sender waits for
  room in the channel; it must not be lost and the relays must open;
* a write that reports an error may or may not have latched; the driver's copy,
  the latch and the reported mask drift apart;
* a restart forgets the interlock and the shadow, not the latch;
* freshness is judged on a wrapping 32-bit clock with a sentinel value;
* a QoS 0 publish into a dead socket succeeds for a while;
* the relays change while a report of them is being sent, and `STATE_CHANGED` was
  consumed before it; a report that fails ends the session, the first one does not;
* two clients register the same retained will; what the broker retains outlives
  sessions and restarts of the device;
* a client that is lost in the middle of a request or an upload holds the server's
  only socket;
* power may fail at any step of an update, and flash may not hold what was written.

## 2. Modules

    Board --+-- RelayChannel ------+-- Relays ---+
            |                      +-- Inputs ---+-- Interlock ----+---- MCInterlock
            +-- DeviceState        +-- Clients --+    |  |         |
                  |                |                  |  |         +---- InterlockProofs (TLAPS)
                  +-- Safety ------+                  |  |         |
                  |   SafeOutputs <-- implemented by -+  |         |
                  |   DeviceState <-- implemented by ----+         |
                  |                                                |
                  +-- MqttReports --+------------------------------+-- Controller
                                    |                                  |
                                    +-- MqttReportsProofs (TLAPS)      |
                                                                       |
                   InterlockProofs, MqttReportsProofs -------------- ControllerProofs (TLAPS)

    LockFlag --+-- DeviceState
               +-- CommsWatchdog --+-- CommsWatchdogProofs (TLAPS) --+
                                   |                                 |
    Interlock ---------------------+-- FailSafe                      |
                                          |                          |
    InterlockProofs ------------------ FailSafeProofs (TLAPS) -------+

    Ota --- HttpServer --+--- MCOta
                |        +--- OtaProofs (TLAPS)
                |
    AtomicUpdate <-- implemented by

**Board** `COUNT`, the number of relays, and `Relay`, their set.

**LockFlag** `locked` is `LOCKED`, which the interlock's and the watchdog's modules share.

**RelayChannel** `queue` is the channel's content, `pending[s]` the command that
task `s` is suspended with.  `Send` is `send(c).await` up to its first
suspension, `Deliver` the poll that completes it.  embassy's channel is
external: a new sender may take a free place before a suspended one does.

**Safety** locks and unlocks; `stateChanged` is an unread `STATE_CHANGED`.

**Relays** A port byte is the set of relays it energises (the 0 bits of the
active-low byte).  `Receive` is `relay_task`'s receive and `apply()` up to its
first await: refuse (interlock), ignore (range, debounce) or admit.  Each write
attempt is a step of its own, `WriteOk` or one of `WriteRetry`, `WriteGiveUp`,
`AllOffFails`; in a failed attempt the latch takes the byte or keeps the old one.
`job` is the command in hand and the attempts left.  `recent` is the set of
relays inside their 150 ms of debounce; when it ends is not tied to a clock.

**Inputs** One poll is `InputPoll`; `TrySafetyReset` is the operator's reset.  A
failed read has no action: it changes nothing.  The six inputs matter only
through "all energised".  Without `ARM_SAFETY` (the shipped setting) a reset
needs no inputs.

**Clients** Button, MQTT and HTTP requests.  MQTT checks the index's range, HTTP
does not.  `Index` has one value, `COUNT`, for all indices that are no relay.

**Interlock** composes these with boot: `phase` is how far `main()` came.
`RamLost` is any restart that keeps the expander's power; `PowerCycle` is the
other kind.  When the watchdog trips is left open here.

**SafeOutputs** is the abstract specification: the interlock is engaged or not,
at most one admitted pattern has still to land, and the relays are energised or
not.  While engaged, nothing but that pattern and opening happens to the
outputs.  `Interlock` implements it with `engaged <- locked`, `energised <- port`
and `landing` the shadow while an admitted command other than `AllOff` is being
written.

**DeviceState** is the abstract specification of what the publisher is shown:
`onMask`, `locked` and the unread signal; neither of the first two changes
without the signal.  Its variables are those of `Safety` and `Relays`.  `Interlock`
implements it (`ChangesSignalled`); `MqttReports` is built on it, so it need not repeat
relay task, inputs and clients.

**MqttReports** `at` is where `mqtt_publisher_task` is: down, hello (the first
publish is not acknowledged), report (in `publish_all_relay_states` or
`publish_safety_state`), wait (in the `select` of the inner loop).  A report sends one
topic per step; `seen` holds what it has read, the mask before its first await, the
interlock after its last relay.  `conn[c]` is client `c`'s connection as the device
has it: open, cut (sends still succeed and are lost) or dead (sends fail); `wire` are
the messages that will still arrive.  The broker is external: `broker[c]` is the
session it holds, `retained` the values of the topics; it publishes the will of a
client it gives up or that connects again over a live session.  The topics of
discovery are part of the step that ends hello.

**Controller** joins `Interlock` and `MqttReports` on the three variables they share: the
two restart together, a request arrives only inside a session of the subscriber, the
publisher takes the signal in the step that starts its report, and the sessions run
once the link is up.  It states what the two mean together, from the latch of the
expander to the retained value at the broker (`ReportedIsReal`, `LockedIsReportedOff`).
Its smallest instance has more than eight million states, beyond a run of a few
minutes; the two properties are proved instead.

**CommsWatchdog** is timed: `Tick` advances a clock modulo `W`, and a timer that
is due fires before the next tick.  `mqttStamp`, `wifiStamp` are the stamps; the
publisher's session has the states down, opening, idle and blocked.  Records
(`mqttAge`, `outage`, ...) say what really happened and are read by properties
only; they stop counting where the properties stop telling values apart.  What the rest
of the firmware does to the watchdog is left open: inputs may engage the interlock, an
operator may clear it, also by a reset that waited in a connection whose broker is
gone since, the send of its `AllOff` may block, and the controller may restart.

**FailSafe** joins `Interlock` and `CommsWatchdog`, which share `locked`.  Each leaves open
what the other knows: a trip of `Interlock` (`WatchdogTrips`) is now a look of the timed
watchdog that finds a stale stamp, and `sending` of `CommsWatchdog` is the suspension of
`watchdog_task` in the relay channel.  The two restart together, and the link is up
when the network tasks are spawned.  It states the fail-safe end to end, from a lost
broker to the latch (`LossIsOff`, `SilenceIsOff`), and why the interlock is ever engaged
(`LockHasReason`).  Its states are too many for a run of a few minutes; what it says is
proved, after TLC had visited the first eight million of them without a violation.

**Ota** An image is a value, a slot holds a whole image or `Torn`.  An upload runs
through receiving, received, verified, erased, committed; a power loss may
separate any two steps and tear the sector being written.  The bootloader is
external: it boots the slot otadata names, or the other one when that holds no
application.  The CRC is perfect: it tells an image from anything else.

**HttpServer** runs `Ota`.  `conn` is where `webserver_task` is, from `accept()` to the
close and the delay after it, in which a due reboot happens; `client` is the peer:
live, finished (it closed its side and still acknowledges), silent (nothing
comes any more) or aborted.  A read or a flush waits for a silent peer until the
socket's timeout aborts it.  A relay request whose body is not in its first segment is
`Answer`, not `Command`: it is answered and does nothing.

**AtomicUpdate** is the abstract specification of an update: the image that the next
boot runs changes in one step, from one whole application to the one that was
offered, at most once between two boots, and the board may stop between any two steps.
`HttpServer` implements it (`UpdateIsAtomic`) with `boots` the image in the slot that
otadata names, `offer` the image of an upload that the flash has kept intact, and
`committed` the state of the upload after the write of the sequence.

## 3. Runs

| run | instance | shows |
|---|---|---|
| `interlock` | 2 relays, capacity 1, 2 attempts, bus faults, armed loop | `TypeOK`, `OffIsComing`, `AllOffKept`, `AlarmIsLatched`, `OnlyOpens`, `PromiseKept`, `ChangesSignalled` |
| `interlock_healthy` | 2 relays, capacity 2, no faults, not armed, ON and OFF, a request for a relay that does not exist | `CopiesAgree`, `SetIsExact` |
| `interlock_live` | 1 relay, capacity 1, bus faults, armed, fairness | `LockOpensOrResets`, `ResetOpens`, `OpenLoopLocks` |
| `comms_watchdog` | clock modulo 7, grace periods 2 and 3, TCP timeout 2 | `WatchdogTypeOK`, `NoFalseTrip`, `SilenceLocks`, `LossLocks` |
| `mqtt_reports` | 2 relays, 2 messages on the wire, fairness | `ReportsTypeOK`, `ToldWhatIs`, `OnlineHasSession`, `ReportedInTheEnd`, `OnlineReturns`, `CutIsNoticed` |
| `ota` | 2 images of 1 to 5 bytes, sectors of 2 bytes, sequences to 7, fairness | `TypeOK`, `NamedSlotBoots`, `RunningSlotKept`, `SectorsWhole`, `ChoiceMovesForward`, `UpdateIsAtomic`, `CommittedBoots`, `ServesAgain` |

* `OffIsComing`: while the interlock is engaged an `AllOff` is in the channel,
  held by a suspended sender or being written, or else all relays are open, are
  reported open, and no closing write is under way.
* `AllOffKept`: an `AllOff` that was sent is received, and one that was received opens and
  reports every relay or the controller restarts, also after the operator has reset the
  interlock; `OffIsComing` says nothing of that time.
* `OnlyOpens`: while it is engaged no step closes a relay, except a write that
  was admitted before.
* `AlarmIsLatched`: an alarm that lasted its samples is latched, also when a
  reset was accepted on a stale sample.
* `ChangesSignalled`: reported mask and interlock change only with the signal, so no
  change can be missed by a publisher that waits for it.
* `CopiesAgree`: without bus faults, between two commands, the shadow is the
  latch, and the reported mask is late only while an `AllOff` is on its way.
* `SetIsExact`: without bus faults, the write of a `Set` switches its relay and leaves
  the others as they are in the latch, although the byte is computed from the shadow.
  (With faults it does not: `set_touches_one_relay` below.)
* `LockOpensOrResets`, `ResetOpens`, `OpenLoopLocks`: what must eventually happen.
* `NoFalseTrip`, `SilenceLocks`, `LossLocks`: the watchdog trips only after a real
  silence; it does trip one poll after the grace period, also after an operator's
  reset during the outage; a broker that is lost turns the relays off after the
  TCP timeout, the grace period and one poll.
* `ToldWhatIs`: a publisher that waits with no signal pending has told the broker the
  state of every relay and of the interlock, whatever changed during its report
  and whatever the broker retained before.
* `OnlineHasSession`: a retained online has a session behind it whose will is still to
  come, so a device that is gone does not stay online.
* `ReportedInTheEnd`, `OnlineReturns`, `CutIsNoticed`: a session that stays open brings
  the retained topics to the truth once the device no longer changes; the heartbeat
  takes back an offline that the other client's will caused; a cut connection is
  noticed although nothing is ever received on it.
* `NamedSlotBoots`, `ChoiceMovesForward`: at any moment a power loss leaves a named
  slot that boots, and the choice moves only with a verified image.
  `UpdateIsAtomic`: the server, its updates and the bootloader implement `AtomicUpdate`.
  `SectorsWhole`: accumulation writes every sector once.  `CommittedBoots`: a
  committed update is what runs, also when the client is gone before the reply.
  `ServesAgain`: the only socket always becomes free again.

Six runs show where a comment and the code part (`findings`):

| run | the comment | the counterexample |
|---|---|---|
| `locked_never_closes` | `safety.rs:3`: every command but `AllOff` is rejected while engaged | a `Set` admitted before the lock closes its relay after it |
| `giving_up_is_off` | `relays.rs:202`, `main.rs:202`: after the reset the expander is all-off | a software reset does not power-cycle the expander; relays stay as they are until `Relays::new` succeeds |
| `set_touches_one_relay` | `pcf8574.rs:5`: single-bit updates do not disturb the rest | a `Set` that failed stays in the shadow and is carried out by the next `Set` of another relay |
| `wrap_is_harmless` | `watchdog.rs:34`: the wrap does not affect the check | a publish at clock value `u32::MAX` stores the sentinel; the silence after it is not seen |
| `either_death_is_seen` | `mqtt.rs:266`: either client dying tells the broker that the device is gone, and late subscribers see it | the publisher's next heartbeat retains online over the subscriber's will while the subscriber is still gone |
| `running_slot_kept` | `ota.rs:94`: the slot that is not running is selected | after the bootloader's fallback the running slot is not the one otadata names |

### Bounds

* Relays (`COUNT`): 2 suffice to see one command disturb another relay.  The proofs
  are for every `COUNT`.
* `CAPACITY` 1 makes a full channel the common case; 2 lets an `AllOff` stand behind
  another command.  Five senders can be suspended at once.
* Attempts 1 or 2 instead of 3, 6 and 5: a first, a last and, with 2, an attempt in
  between.  `MAX_STREAK` is 2 instead of 255, `DEBOUNCE_REQUIRED` the code's 2.
* `MqttRequests`, `WebRequests` bound what the network clients ask for.
* The clock has 7 values (8 in `wrap_is_harmless`), so it wraps within each silence that the properties
  speak of; `W` exceeds a grace period and a poll, as 2^32 does.
* `WIRE` 2: a report of two relays and the interlock does not fit, so it is under way at
  both ends while the device changes, and a send waits for room.
  `either_death_is_seen` has one relay.  The proofs are for every `COUNT` and `WIRE`.
* Sectors of 2 bytes and images of 1 to 5: a last sector that is full, one that is
  not, one sector only, a header segment with all of the body.
* `MaxSeq` bounds the number of updates; parity and order of the sequences
  have repeated several times by then.

### Fairness

Weak fairness of `RelayTask \/ RelayTaskResets`: the executor polls a task that can
go on; whether the write succeeds is not assumed.  Strong fairness of
`Executor("inputs")` and `Executor("watchdog")`: such a task is woken each time the
channel has room, and is not overtaken by other senders every time.  Weak fairness of `InputTask`:
the 100 ms timer; reads do not fail for ever.  Weak fairness of `FatalReset`: the 5 s
timer.  Strong fairness of `RelaysNewOk`: an assumption about the hardware, that one
of the attempts over all restarts succeeds; without it a restart opens nothing.
In `HttpServer`: `webserver_task` is polled when it can go on; `SocketTimesOut`, the
socket's timeout (`set_timeout`, `webserver.rs:33`; that it aborts a silent peer is
embassy-net's); the bootloader does its work.  A relay request leaves its `send` because
`relay_task` drains the channel, which is its own fairness above.
In `MqttReports`: the publisher's session is polled and its heartbeat timer fires; an open
connection delivers; `TCP_TIMEOUT` kills a cut one; the broker's keep-alive gives up a
publisher that is gone.  That a connection succeeds, or stays, is not assumed: the
properties that need it say so.

`CHECK_DEADLOCK` is left on everywhere.

## 4. Proofs

Six modules hold proofs: one for each of the components `Interlock`, `MqttReports`,
`CommsWatchdog` and `Ota`, and one for each of the joins `Controller` and `FailSafe`.  In
those of the components an inductive invariant (`IInv`, `ReportsIInv`, `WatchdogIInv`,
`OtaIInv`) was first model-checked on the instance of the component's run
and is then shown to hold initially and to be kept by every action, one lemma per
action (or per group of actions that change the same things) and one step per conjunct.
The only assumptions are the named ones on the constants and, for three theorems of
`OtaProofs`, one on what is uploaded.

**InterlockProofs**, for every `COUNT`, `CAPACITY`, number of attempts, threshold,
set of requests, armed or not, with or without bus faults:

| theorem | statement |
|---|---|
| `Invariance` | `Spec => []IInv` |
| `TypeCorrect`, `OffAlwaysComing`, `AlarmStaysLatched` | `Spec => []TypeOK`, `[]OffIsComing`, `[]AlarmIsLatched` |
| `AllOffNeverCancelled` | `Spec => AllOffKept` |
| `OnlyOpensProved` | `Spec => OnlyOpens` |
| `KeepsPromise` | `Spec => PromiseKept`, the refinement of `SafeOutputs` |
| `SignalsEveryChange` | `Spec => ChangesSignalled`, the refinement of `DeviceState` |
| `CopiesStayTogether` | `Spec => []CopiesAgree` |
| `SetsAreExact` | `Spec => SetIsExact` |

`IInv` is `TypeOK /\ OffIsComing /\ StreakInv /\ JobInv`.

* `OffIsComing` is almost inductive: a lock is engaged in the same step as its
  `AllOff` is sent; `Send` and `Deliver` keep every command; only `Receive` removes
  one, and an `AllOff` it removes is being written.  When that write ends in
  `WriteOk` all relays are open and reported open.  It needs `JobInv`, that a job
  which is not `Landing` writes the empty set, for a refused command's write and
  for the end of an `AllOff`.
* `AlarmIsLatched` is not inductive: a reset clears the lock while the streak stands.
  `StreakInv` adds that a safe sample means a streak of 0, so that a reset that is
  accepted finds no streak.
* `AllOffKept` needs of `IInv` that a job which does not close relays writes IDLE, and
  `TasksKeepAllOff`: no task but `relay_task` takes an `AllOff` from the channel.
* `JobInv` also says that a job has at most the attempts of its command (`AttemptsInv`), that
  only a `Set` of an existing relay is admitted and that nothing is written outside the
  phases in which tasks run.
* `CopiesAgree` speaks of the moments between two commands and is not inductive.
  `CopiesInv`, under the hypothesis that no write fails, carries it through a command
  (the write of a refused command finds the reported mask empty or an `AllOff` on its way,
  from `OffIsComing`; the write of a `Set` has as its shadow what the `Set` makes of the
  latch) and through a boot (shadow and mask are empty until `Relays::new` has cleared the
  latch).  Its last conjunct gives `SetsAreExact`.
* `OnlyOpens` and the two refinements follow step by step from `IInv`: one lemma per
  action, one conjunct per step.

The lemmas about the channel (`SendProperties`, `DeliverProperties`,
`ReceiveProperties`) and the frame lemmas are stated once and cited.

**MqttReportsProofs**, for every `COUNT` and `WIRE`: `ReportsInvariance`,
`ReportsTypeCorrect`, `BrokerToldWhatIs` (`[]ToldWhatIs`), `OnlineNeverOrphaned`
(`[]OnlineHasSession`).  `ReportsIInv` is
`ReportsTypeOK /\ ReportInv /\ ToldWhatIs /\ SessionInv /\ OnlineHasSession`.

* `ToldWhatIs` speaks of a publisher that waits.  `ReportInv` carries it through the
  report: while no signal is pending, what was read is what is, and the topics
  below `next` have been told.  A change during the report raises the signal, which
  voids both until the next report; this is where `DeviceState` is used.
* A delivery moves a message from `wire` to `retained` and changes nothing that was
  told; a send appends, and tells its own topic only (`ToldAppend`, `ToldFrame`).
* `SessionInv` (only an open connection carries messages, and the broker holds its
  session) is what keeps a delayed online from arriving after the will.

**ControllerProofs**, for every value of the constants of both: `RunsTheInterlock`
(`ControllerSpec => Spec`) and `RunsTheReports` (`ControllerSpec => ReportsSpec`), so that
every theorem above about the two components holds of the joined firmware, and two
end-to-end results that neither component can state:

* `BrokerShowsTheRelays` (`[]ReportedIsReal`): without bus faults, once `relay_task` is idle,
  no `AllOff` is on its way and the publisher waits with nothing signalled, what the
  broker retains or will retain is what the latch energises.  From `CopiesStayTogether`
  (latch to reported mask) and `BrokerToldWhatIs` (reported mask to broker).
* `LockedShowsOff` (`[]LockedIsReportedOff`): bus faults included, a lock whose `AllOff` is
  written and reported is told as locked, every relay is off and is told off.  From
  `OffAlwaysComing` and `BrokerToldWhatIs`.

`RunsTheReports` is a step simulation: `LocalShows` says that a task changes the mask or the
interlock only as `MaskStored` or `LockFlips` do, so the step is `DeviceChanges`; restarts,
the taking of the signal and the sessions match one to one.

**CommsWatchdogProofs**, for every width `W` of the clock and all periods with
`MQTT_GRACE + POLL < W` and `WIFI_GRACE + POLL < W`, the code's 2^32 ms among them:
`WatchdogInvariance`, `WatchdogTypeCorrect`, `SilenceAlwaysLocks`, `LossAlwaysLocks`,
`NeverTripsFalsely`.

* `MqttAgeInv`, `WifiAgeInv`: until the clock has gone round, the wrapping subtraction of
  a stamp that is not the sentinel is the true age (`ElapsedTick`: a tick adds one,
  wherever the clock is).  `NoFalseTrip` follows.
* `LookInv` dates the last look of `watchdog_task`: if the interlock is open, either the
  age had not passed the grace period then, or the operator has reset, or a
  send has ended, since.  `SilenceLocks` follows.
* `OutageInv`, `LastPetInv`: a socket that still takes bytes has been silent for the whole
  outage, so the last publish that succeeded is at most `TCP_TIMEOUT` into it.
  `LossLocks` follows with `LookInv`.

**FailSafeProofs**, for every value of the constants of both: `FailSafeRunsTheInterlock`
(`FailSafeSpec => Spec`), `FailSafeRunsTheWatchdog` (`FailSafeSpec => WatchdogSpec`), two step
simulations that carry every theorem above over to the join, and

* `SendingIsSuspended` (`[]SendingInv`), the coupling: a watchdog that is `sending` is
  suspended in the channel with `AllOff`.  It is inductive with `IInv`: no other task
  delivers, drops or replaces what the watchdog is suspended with (`OthersKeepPending`).
* `LossTurnsOff` (`[]LossIsOff`), `SilenceTurnsOff` (`[]SilenceIsOff`): `LossLocks` and
  `SilenceLocks` promise a lock only while the watchdog is not suspended in its send.  By
  the coupling that exception is harmless: then its `AllOff` is on its way.  Otherwise
  the interlock is engaged, and `OffIsComing` says the same (`SureWhenLocked`).  "On its way"
  is the most that safety can say; that it arrives is `LockOpensOrResets`, model-checked.
* `LocksHaveReasons` (`LockHasReason`): an engaged interlock was preceded by a silence of a grace
  period or by a debounced alarm, from `NoFalseTrip` and the guards of `input_task`.

**OtaProofs**, for all images, sizes, sector sizes and `MaxSeq`: `Invariance`,
`TypeCorrect`, `SectorsAlwaysWhole`, `ChoiceOnlyForward`, and `NamedSlotAlwaysBoots`,
`RunningSlotAlwaysKept` and `UpdatesAreAtomic`, which assume `Uploads \subseteq Apps`: the firmware checks the
CRC of an upload and not that it is an application.  `running_slot_kept` shows that
the second needs the assumption.

* `SeqInv`: otadata is what `begin()` read until `finish()` erases the lower copy, and the
  target is the slot it does not name; so no write of a sector touches the named
  slot, the erase does not change the choice (`EraseKeepsHigher`), and the write
  moves it to the target (`NextSeqProperties`, `WriteIsInForce`).
* `ImageInv`: in the states that write otadata the target holds the image.
* `CountInv` with `SectorsWhole`: a sector is never full between two reads, and the size
  is reached exactly; alignment is kept by arithmetic (`NextSectorAligned`).
* `RunInv`: otadata names the running slot until an upload commits, since the
  bootloader never falls back; the target is the other slot.
* `UpdatesAreAtomic` (`Spec => UpdateIsAtomic`) is the refinement of `AtomicUpdate`.  The mapping is
  right in the states of `AtomicInv`: `OtaIInv`, `RunInv` and `IntactInv`, which says that
  an upload goes beyond its check only when flash and sender agree with the CRC.  A
  write of a sector touches neither the running nor the named slot, the erase does
  not change the choice, the write of the sequence is `Commit`, and a power loss is `Stop`
  wherever it comes.
* `HttpServer` enters only by `NextIsOtaStep`: each of its steps is one of `Ota` or leaves
  the update alone.

Model-checked only: everything that must eventually happen (`LockOpensOrResets`,
`ResetOpens`, `OpenLoopLocks`, `ReportedInTheEnd`, `OnlineReturns`, `CutIsNoticed`,
`CommittedBoots`, `ServesAgain`), because liveness under fairness is beyond TLAPS.  Every other
property that a passing run checks is a theorem.

## 5. Not modelled

* Home Assistant discovery: a fixed list of publishes without state.  Display and dashboard:
  output only.
* The temperature chain: `temperature_task` is not spawned (`main.rs:218`), so
  `TEMPERATURE` is never signalled.  The rest of it is floating-point arithmetic.
* WiFi's `connection_task`: its retries depend on when esp-wifi sets and clears its
  events, which the source does not show; the models have a link that comes and goes.
* The 8 s of the hardware watchdog against the blocking read-back in `verify()`, the
  timing of flash and of the I2C bus: real time.  `Interlock` lets the chip reset at any
  moment.
* The I2C scan, logging, DNS, the contents of pages; the bytes of ports, topics and HTTP
  heads are abstracted to what they select.
* Six hazards have no property.  Of four the code makes no promise: a restart releases the
  interlock; a command within 150 ms of another is dropped silently; a self-test goes on
  after a reset; a relay request whose body comes in a second segment is answered and does
  nothing.  A device that never stops changing never publishes online again: `OnlineReturns`
  excludes it.  The read-back in `verify()` against the hardware watchdog is real time.
* `CopiesAgree` and `SetIsExact` assume a bus without faults.  That the shadow keeps the byte of
  a failed command is the subject of `set_touches_one_relay`.

## 6. Plan

Done: the core (`Interlock` and its parts), `CommsWatchdog`, `Ota`, the HTTP server around
it, the retained MQTT topics, the abstract specifications of outputs, device state and
update, the joins `Controller` and `FailSafe`, and proofs of the safety of all of them.  Left:

1. The port bytes: `Target`, masks and active-low bits over 8-bit values against the
   sets used here.
2. The `TEMPERATURE` signal with two consumers, when its task is spawned.
