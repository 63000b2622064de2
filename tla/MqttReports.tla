---------------------------- MODULE MqttReports -----------------------------
(***************************************************************************)
(* What the retained topics on the broker say about the device: the        *)
(* session of mqtt_publisher_task, the connection of mqtt_subscriber_task  *)
(* as far as its will matters (src/mqtt.rs), and the broker.               *)
(*                                                                         *)
(* A connection is open, or cut (it will deliver nothing more, and the     *)
(* client does not know), or dead (every send fails).  The broker is       *)
(* external: it delivers in order, and it publishes the will of a client   *)
(* whose connection it gives up or that connects again over it.            *)
(***************************************************************************)
EXTENDS DeviceState, Sequences

CONSTANT WIRE   (* messages that the socket's buffer and the network hold   *)

ASSUME ReportsAssumption == WIRE \in Nat \ {0}

Client == {"pub", "sub"}

(* One topic for each relay, one for the interlock, and the status topic.  *)
(* Mutation: the loop over the relays goes one too far.                    *)
LoopTooFar == COUNT + 1

SafetyTopic == COUNT
StatusTopic == COUNT + 1
Topic   == 0 .. COUNT + 1

(* TRUE stands for the payloads ON, locked and online.                     *)
Message == [topic : Topic, value : BOOLEAN]

VARIABLES
  at,        \* where mqtt_publisher_task is
  next,      \* the topic it sends next
  seen,      \* the values it read for the report it is sending
  initial,   \* the report is the one that opens the session
  conn,      \* conn[c]: the connection of client c, seen from the device
  wire,      \* messages on their way from the publisher to the broker
  broker,    \* broker[c]: the session of client c, seen from the broker
  retained   \* retained[t]: the retained value of topic t

publisherVars == <<at, next, seen, initial>>
brokerVars == <<broker, retained>>
reportsVars == <<deviceVars, publisherVars, conn, wire, brokerVars>>

(* down: between two sessions; hello: connected, the first publish is not  *)
(* acknowledged; report: in publish_all_relay_states or                    *)
(* publish_safety_state; wait: in the select of the inner loop.            *)
ReportsTypeOK == /\ DeviceTypeOK
                 /\ at \in {"down", "hello", "report", "wait"}
                 /\ next \in 0 .. COUNT
                 /\ seen \in [mask : SUBSET Relay, lock : BOOLEAN]
                 /\ initial \in BOOLEAN
                 /\ conn \in [Client -> {"none", "open", "cut", "dead"}]
                 /\ wire \in Seq(Message)
                 /\ Len(wire) =< WIRE
                 /\ broker \in [Client -> {"none", "live", "lost"}]
                 /\ retained \in [Topic -> BOOLEAN]

Unread == [mask |-> {}, lock |-> FALSE]

NotReporting == /\ next' = 0
                /\ seen' = Unread
                /\ initial' = FALSE

(* The broker may retain anything from an earlier life of the device, and  *)
(* may still hold its session.                                             *)
ReportsInit == /\ DeviceInit
               /\ at = "down"
               /\ next = 0
               /\ seen = Unread
               /\ initial = FALSE
               /\ conn = [c \in Client |-> "none"]
               /\ wire = <<>>
               /\ retained \in [Topic -> BOOLEAN]
               /\ broker = [c \in Client |-> IF c = "pub" /\ retained[StatusTopic] THEN "live" ELSE "none"]

-----------------------------------------------------------------------------
(* The will of both clients: offline, retained.                            *)

(* Mutation: the client registers no will.                                 *)
NoWill(r) == r

Will(r) == [r EXCEPT ![StatusTopic] = FALSE]

(* The broker accepts a client; it drops an older session of it first.     *)
Accepts(c) ==
  /\ broker' = [broker EXCEPT ![c] = "live"]
  /\ retained' = IF broker[c] = "live" THEN Will(retained) ELSE retained

Opens(c) == /\ conn' = [conn EXCEPT ![c] = "open"]
            /\ Accepts(c)

(* connect_to_broker() or a subscribe fails after the broker has accepted. *)
ConnectFails(c) ==
  /\ conn[c] = "none"
  /\ Accepts(c)
  /\ UNCHANGED <<deviceVars, publisherVars, conn, wire>>

-----------------------------------------------------------------------------
(* mqtt_publisher_task                                                     *)

Connect == /\ at = "down"
           /\ Opens("pub")
           /\ at' = "hello"
           /\ UNCHANGED <<deviceVars, next, seen, initial, wire>>

(* publish_all_relay_states() reads the mask once, before its first await. *)
StartReport(first) == /\ at' = "report"
                      /\ next' = 0
                      /\ seen' = [mask |-> onMask, lock |-> FALSE]
                      /\ initial' = first

HelloDone == at = "hello" /\ UNCHANGED <<deviceVars, conn, wire, broker>>

Online == retained' = [retained EXCEPT ![StatusTopic] = TRUE]

(* Mutation: nothing is reported when a session opens.                     *)
HelloAckedOnly == /\ HelloDone
                  /\ conn["pub"] = "open"
                  /\ Online
                  /\ at' = "wait"
                  /\ NotReporting

(* The first publish, QoS 1, is acknowledged; discovery follows, and then  *)
(* the initial report, which does not consume the signal.                  *)
HelloAcked == /\ HelloDone
              /\ conn["pub"] = "open"
              /\ Online
              /\ StartReport(TRUE)

(* It fails, and the session goes on.  The broker may have got it.         *)
HelloFails == /\ HelloDone
              /\ conn["pub"] \in {"open", "dead"}
              /\ \/ Online /\ broker["pub"] = "live"
                 \/ UNCHANGED retained
              /\ StartReport(TRUE)

(* A QoS 0 send that succeeds.  A connection that is cut takes it too.     *)
Sends(topic, value) ==
  \/ /\ conn["pub"] = "open"
     /\ Len(wire) < WIRE
     /\ wire' = Append(wire, [topic |-> topic, value |-> value])
  \/ /\ conn["pub"] = "cut"
     /\ UNCHANGED wire

(* publish_safety_state() reads the interlock when all relays are sent.    *)
LockRead == IF next = COUNT - 1 THEN locked ELSE seen.lock

SendReport ==
  /\ at = "report"
  /\ Sends(next, IF next = SafetyTopic THEN seen.lock ELSE next \in seen.mask)
  /\ IF next = SafetyTopic
     THEN at' = "wait" /\ NotReporting
     ELSE /\ next' = next + 1
          /\ seen' = [seen EXCEPT !.lock = LockRead]
          /\ UNCHANGED <<at, initial>>
  /\ UNCHANGED <<deviceVars, conn, brokerVars>>

SessionEnds == /\ at' = "down"
               /\ NotReporting
               /\ conn' = [conn EXCEPT !["pub"] = "none"]
               /\ UNCHANGED <<deviceVars, wire, brokerVars>>

(* The initial report gives up and the session goes on; a later one that   *)
(* fails ends it.                                                          *)
InitialReportFails == /\ at = "report"
                      /\ initial
                      /\ conn["pub"] = "dead"
                      /\ at' = "wait"
                      /\ NotReporting
                      /\ UNCHANGED <<deviceVars, conn, wire, brokerVars>>

ReportFails == /\ at = "report"
               /\ ~initial
               /\ conn["pub"] = "dead"
               /\ SessionEnds

(* The select returns on STATE_CHANGED.                                    *)
SignalReport == /\ at = "wait"
                /\ SignalTaken
                /\ StartReport(FALSE)
                /\ UNCHANGED <<conn, wire, brokerVars>>

(* Mutation: the heartbeat only pets the watchdog.                         *)
HeartbeatSilent == /\ at = "wait"
                   /\ ~stateChanged
                   /\ UNCHANGED reportsVars

(* The select returns on its timer, which every other event re-arms.       *)
Heartbeat == /\ at = "wait"
             /\ ~stateChanged
             /\ Sends(StatusTopic, TRUE)
             /\ UNCHANGED <<deviceVars, publisherVars, conn, brokerVars>>

(* Mutation: a heartbeat that fails is tried again.                        *)
HeartbeatIgnored == /\ at = "wait"
                    /\ ~stateChanged
                    /\ conn["pub"] = "dead"
                    /\ UNCHANGED reportsVars

HeartbeatFails == /\ at = "wait"
                  /\ ~stateChanged
                  /\ conn["pub"] = "dead"
                  /\ SessionEnds

Publisher == \/ HelloAcked \/ HelloFails \/ SendReport \/ InitialReportFails \/ ReportFails
             \/ SignalReport \/ Heartbeat \/ HeartbeatFails

-----------------------------------------------------------------------------
(* mqtt_subscriber_task                                                    *)

SubConnect == /\ conn["sub"] = "none"
              /\ Opens("sub")
              /\ UNCHANGED <<deviceVars, publisherVars, wire>>

(* A subscribe or receive_message() fails: the session ends.               *)
SubDrops == /\ conn["sub"] # "none"
            /\ conn' = [conn EXCEPT !["sub"] = "none"]
            /\ UNCHANGED <<deviceVars, publisherVars, wire, brokerVars>>

-----------------------------------------------------------------------------
(* The network, the broker and the rest of the device                      *)

Cut(c) == /\ conn[c] = "open"
          /\ conn' = [conn EXCEPT ![c] = "cut"]
          /\ wire' = IF c = "pub" THEN <<>> ELSE wire
          /\ UNCHANGED <<deviceVars, publisherVars, brokerVars>>

(* TCP_TIMEOUT, or a reset from the peer.                                  *)
SocketAborts == /\ conn["pub"] = "cut"
                /\ conn' = [conn EXCEPT !["pub"] = "dead"]
                /\ UNCHANGED <<deviceVars, publisherVars, wire, brokerVars>>

BrokerDelivers ==
  /\ wire # <<>>
  /\ retained' = [retained EXCEPT ![Head(wire).topic] = Head(wire).value]
  /\ wire' = Tail(wire)
  /\ UNCHANGED <<deviceVars, publisherVars, conn, broker>>

BrokerLoses(c) ==
  /\ broker[c] = "live"
  /\ conn[c] # "open"
  /\ broker' = [broker EXCEPT ![c] = "lost"]
  /\ retained' = Will(retained)
  /\ UNCHANGED <<deviceVars, publisherVars, conn, wire>>

DeviceChanges == /\ MaskStored \/ LockFlips
                 /\ UNCHANGED <<publisherVars, conn, wire, brokerVars>>

Restart == /\ DeviceRestarts
           /\ at' = "down"
           /\ NotReporting
           /\ conn' = [c \in Client |-> "none"]
           /\ wire' = <<>>
           /\ UNCHANGED brokerVars

ReportsNext == \/ Connect \/ Publisher \/ SubConnect \/ SubDrops
               \/ \E c \in Client : ConnectFails(c) \/ Cut(c) \/ BrokerLoses(c)
               \/ SocketAborts \/ BrokerDelivers \/ DeviceChanges \/ Restart

ReportsSpec == ReportsInit /\ [][ReportsNext]_reportsVars

(* The executor and the timers run the publisher's session; an open        *)
(* connection delivers, a cut one times out; the broker's keep-alive       *)
(* gives up a publisher that is gone.                                      *)
ReportsFairness == /\ WF_reportsVars(Publisher)
                   /\ WF_reportsVars(BrokerDelivers)
                   /\ WF_reportsVars(SocketAborts)
                   /\ WF_reportsVars(BrokerLoses("pub"))

ReportsFairSpec == ReportsSpec /\ ReportsFairness

-----------------------------------------------------------------------------
Truth(t) == IF t = SafetyTopic THEN locked ELSE t \in onMask

(* v is what the retained value of t will be when the wire is empty.       *)
Told(t, v) ==
  \/ /\ \A k \in 1 .. Len(wire) : wire[k].topic # t
     /\ retained[t] = v
  \/ \E k \in 1 .. Len(wire) : /\ wire[k] = [topic |-> t, value |-> v]
                               /\ \A j \in k + 1 .. Len(wire) : wire[j].topic # t

(* A publisher that waits with no signal pending has told the broker the   *)
(* state of every relay and of the interlock, whatever changed while it    *)
(* was reporting and whatever the broker retained before, unless its       *)
(* connection is lost (mqtt.rs:119-145; relays.rs, safety.rs: the signal   *)
(* follows the change).                                                    *)
ToldWhatIs ==
  at = "wait" /\ conn["pub"] = "open" /\ ~stateChanged
    => \A t \in Relay \cup {SafetyTopic} : Told(t, Truth(t))

(* A retained online has a session behind it whose will is still to come,  *)
(* so a device that is gone does not stay online (mqtt.rs:91-94).          *)
OnlineHasSession == retained[StatusTopic] => broker["pub"] = "live"

(* A session that stays open while the device no longer changes brings the *)
(* retained topics to the state of the device and keeps them there.        *)
ReportedInTheEnd ==
  \/ []<>(conn["pub"] # "open")
  \/ []<>stateChanged
  \/ <>[](\A t \in Relay \cup {SafetyTopic} : retained[t] = Truth(t))

(* An offline that the other client's will has caused is taken back while  *)
(* the publisher's session is open, unless the device changes so often     *)
(* that the heartbeat is re-armed for ever (mqtt.rs:131-135).              *)
OnlineReturns ==
  \/ []<>(conn["pub"] # "open")
  \/ []<>stateChanged
  \/ []<>retained[StatusTopic]

(* A cut connection is noticed although nothing is ever received on it:    *)
(* by a send that fails (mqtt.rs:130-164).                                 *)
CutIsNoticed == conn["pub"] = "cut" ~> conn["pub"] = "none"

(* mqtt.rs:266-267: either client dying tells the broker that the device   *)
(* is gone, and late subscribers see it.                                   *)
EitherDeathIsSeen == broker["sub"] = "lost" => ~retained[StatusTopic]
=============================================================================
