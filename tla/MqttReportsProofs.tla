------------------------- MODULE MqttReportsProofs --------------------------
(***************************************************************************)
(* What module MqttReports says about the retained topics, for every       *)
(* number of relays and every capacity of the wire.                        *)
(***************************************************************************)
EXTENDS MqttReports, SequenceTheorems, TLAPS

USE DEF deviceVars, publisherVars, brokerVars

DeviceTopic == Relay \cup {SafetyTopic}

(* While the publisher reports and no signal is pending, what it has read  *)
(* is what is, and what it has sent has been told.                         *)
ReportInv ==
  at = "report" /\ conn["pub"] = "open" /\ ~stateChanged
    => /\ seen.mask = onMask
       /\ next = SafetyTopic => seen.lock = locked
       /\ \A t \in DeviceTopic : t < next => Told(t, Truth(t))

(* Only an open connection carries messages, and the broker holds its      *)
(* session.                                                                *)
SessionInv == /\ wire # <<>> => conn["pub"] = "open"
              /\ conn["pub"] = "open" => broker["pub"] = "live"

ReportsIInv == ReportsTypeOK /\ ReportInv /\ ToldWhatIs /\ SessionInv /\ OnlineHasSession

-----------------------------------------------------------------------------
(* Topics and messages                                                     *)

LEMMA Topics ==
  /\ COUNT \in Nat /\ COUNT > 0
  /\ SafetyTopic = COUNT /\ StatusTopic = COUNT + 1
  /\ DeviceTopic = 0 .. COUNT
  /\ DeviceTopic \subseteq Topic /\ StatusTopic \in Topic
  /\ \A t \in DeviceTopic : t # StatusTopic
  /\ \A t \in 0 .. COUNT : t # SafetyTopic => t \in Relay
  /\ \A t \in Relay : t # SafetyTopic
BY BoardAssumption
DEF DeviceTopic, Relay, SafetyTopic, StatusTopic, Topic

LEMMA TruthFrame ==
  ASSUME UNCHANGED <<onMask, locked>>
  PROVE  \A t : Truth(t)' = Truth(t)
BY DEF Truth

(* A topic is told the same while the wire and its retained value stay.    *)
LEMMA ToldFrame ==
  ASSUME NEW t, NEW v, wire' = wire, retained'[t] = retained[t], Told(t, v)
  PROVE  Told(t, v)'
BY DEF Told

(* What is sent last is what is told.                                      *)
LEMMA ToldAppend ==
  ASSUME wire \in Seq(Message), retained' = retained,
         NEW m \in Message, wire' = Append(wire, m)
  PROVE  /\ Told(m.topic, m.value)'
         /\ \A t, v : t # m.topic /\ Told(t, v) => Told(t, v)'
<1>1. /\ Len(wire) \in Nat
      /\ Len(wire') = Len(wire) + 1
      /\ \A k \in 1 .. Len(wire) : wire'[k] = wire[k]
      /\ wire'[Len(wire) + 1] = m
  BY AppendProperties, LenProperties
<1>2. m = [topic |-> m.topic, value |-> m.value]
  BY DEF Message
<1>3. Told(m.topic, m.value)'
  <2>1. Len(wire) + 1 \in 1 .. Len(wire')
    BY <1>1
  <2>2. \A j \in (Len(wire) + 1) + 1 .. Len(wire') : wire'[j].topic # m.topic
    BY <1>1
  <2>. QED  BY <1>1, <1>2, <2>1, <2>2 DEF Told
<1>4. ASSUME NEW t, NEW v, t # m.topic, Told(t, v)
      PROVE  Told(t, v)'
  <2>1. CASE (\A k \in 1 .. Len(wire) : wire[k].topic # t) /\ retained[t] = v
    <3>1. \A k \in 1 .. Len(wire') : wire'[k].topic # t
      <4>1. TAKE k \in 1 .. Len(wire')
      <4>2. CASE k = Len(wire) + 1
        BY <1>1, <1>4, <4>2
      <4>3. CASE k # Len(wire) + 1
        BY <1>1, <2>1, <4>3
      <4>. QED  BY <4>2, <4>3
    <3>. QED  BY <2>1, <3>1 DEF Told
  <2>2. CASE \E k \in 1 .. Len(wire) : /\ wire[k] = [topic |-> t, value |-> v]
                                       /\ \A j \in k + 1 .. Len(wire) : wire[j].topic # t
    <3>1. PICK k \in 1 .. Len(wire) : /\ wire[k] = [topic |-> t, value |-> v]
                                      /\ \A j \in k + 1 .. Len(wire) : wire[j].topic # t
      BY <2>2
    <3>2. k \in 1 .. Len(wire') /\ wire'[k] = [topic |-> t, value |-> v]
      BY <1>1, <3>1
    <3>3. ASSUME NEW j \in k + 1 .. Len(wire')
          PROVE  wire'[j].topic # t
      <4>1. CASE j = Len(wire) + 1
        BY <1>1, <1>4, <4>1
      <4>2. CASE j # Len(wire) + 1
        BY <1>1, <3>1, <4>2
      <4>. QED  BY <4>1, <4>2
    <3>. QED  BY <3>2, <3>3 DEF Told
  <2>. QED  BY <1>4, <2>1, <2>2 DEF Told
<1>. QED  BY <1>3, <1>4

(* A delivery changes what is retained, not what is told.                  *)
LEMMA ToldDelivered ==
  ASSUME wire \in Seq(Message), retained \in [Topic -> BOOLEAN], BrokerDelivers,
         NEW t \in Topic, NEW v, Told(t, v)
  PROVE  Told(t, v)'
<1>1. /\ wire # <<>> /\ wire' = Tail(wire)
      /\ retained' = [retained EXCEPT ![Head(wire).topic] = Head(wire).value]
  BY DEF BrokerDelivers
<1>2. /\ Len(wire) \in Nat /\ Len(wire) > 0
      /\ Len(wire') = Len(wire) - 1
      /\ \A k \in 1 .. Len(wire') : wire'[k] = wire[k + 1]
      /\ Head(wire) = wire[1] /\ wire[1] \in Message
  BY <1>1, HeadTailProperties, LenProperties, EmptySeq
<1>3. CASE (\A k \in 1 .. Len(wire) : wire[k].topic # t) /\ retained[t] = v
  <2>1. retained'[t] = v
    BY <1>1, <1>2, <1>3 DEF Message
  <2>2. \A k \in 1 .. Len(wire') : wire'[k].topic # t
    BY <1>2, <1>3
  <2>. QED  BY <2>1, <2>2 DEF Told
<1>4. CASE \E k \in 1 .. Len(wire) : /\ wire[k] = [topic |-> t, value |-> v]
                                     /\ \A j \in k + 1 .. Len(wire) : wire[j].topic # t
  <2>1. PICK k \in 1 .. Len(wire) : /\ wire[k] = [topic |-> t, value |-> v]
                                    /\ \A j \in k + 1 .. Len(wire) : wire[j].topic # t
    BY <1>4
  <2>2. CASE k = 1
    <3>1. retained'[t] = v
      BY <1>1, <1>2, <2>1, <2>2
    <3>2. \A j \in 1 .. Len(wire') : wire'[j].topic # t
      BY <1>2, <2>1, <2>2
    <3>. QED  BY <3>1, <3>2 DEF Told
  <2>3. CASE k # 1
    <3>1. k - 1 \in 1 .. Len(wire') /\ wire'[k - 1] = [topic |-> t, value |-> v]
      BY <1>2, <2>1, <2>3
    <3>2. \A j \in (k - 1) + 1 .. Len(wire') : wire'[j].topic # t
      BY <1>2, <2>1, <2>3
    <3>. QED  BY <3>1, <3>2 DEF Told
  <2>. QED  BY <2>2, <2>3
<1>. QED  BY <1>3, <1>4 DEF Told

-----------------------------------------------------------------------------
(* What most steps leave alone                                             *)

LEMMA NothingToTell ==
  ASSUME conn'["pub"] # "open" \/ at' \in {"down", "hello"} \/ stateChanged'
  PROVE  ReportInv' /\ ToldWhatIs'
BY DEF ReportInv, ToldWhatIs

LEMMA StillTold ==
  ASSUME ReportInv, ToldWhatIs, UNCHANGED <<deviceVars, publisherVars>>,
         conn'["pub"] = conn["pub"],
         \A t \in DeviceTopic : \A v : Told(t, v) => Told(t, v)'
  PROVE  ReportInv' /\ ToldWhatIs'
<1>1. \A t : Truth(t)' = Truth(t)
  BY TruthFrame
<1>2. ASSUME NEW t \in DeviceTopic, Told(t, Truth(t))
      PROVE  Told(t, Truth(t))'
  <2>1. PICK v : v = Truth(t)
    OBVIOUS
  <2>2. Told(t, v)'
    BY <1>2, <2>1
  <2>3. Truth(t)' = v
    BY <1>1, <2>1
  <2>. QED  BY <2>2, <2>3 DEF Told
<1>3. ReportInv'
  BY <1>2 DEF ReportInv
<1>4. ToldWhatIs'
  BY <1>2 DEF ToldWhatIs, DeviceTopic
<1>. QED  BY <1>3, <1>4

(* A will and an online change the status topic alone.                     *)
LEMMA StatusFrame ==
  ASSUME retained \in [Topic -> BOOLEAN], wire' = wire,
         retained' \in {retained, Will(retained), [retained EXCEPT ![StatusTopic] = TRUE]}
  PROVE  /\ retained' \in [Topic -> BOOLEAN]
         /\ \A t \in DeviceTopic : \A v : Told(t, v) => Told(t, v)'
<1>1. \A t \in DeviceTopic : retained'[t] = retained[t]
  BY Topics DEF Will
<1>. QED  BY <1>1, ToldFrame DEF Will

LEMMA ReportsNothing ==
  ASSUME NotReporting
  PROVE  /\ next' \in 0 .. COUNT /\ initial' \in BOOLEAN
         /\ seen' \in [mask : SUBSET Relay, lock : BOOLEAN]
<1>1. next' \in 0 .. COUNT
  BY Topics DEF NotReporting
<1>2. seen' \in [mask : SUBSET Relay, lock : BOOLEAN]
  BY DEF NotReporting, Unread
<1>3. initial' \in BOOLEAN
  BY DEF NotReporting
<1>. QED  BY <1>1, <1>2, <1>3

-----------------------------------------------------------------------------
(* One lemma for each action, or for actions of one kind                   *)

LEMMA ReportsInitEstablishes == ReportsInit => ReportsIInv
<1>. SUFFICES ASSUME ReportsInit PROVE ReportsIInv
  OBVIOUS
<1>1. ReportsTypeOK
  <2>1. DeviceTypeOK
    BY DEF ReportsInit, DeviceInit, DeviceTypeOK
  <2>2. /\ at = "down" /\ next \in 0 .. COUNT /\ initial \in BOOLEAN
        /\ seen \in [mask : SUBSET Relay, lock : BOOLEAN]
    BY Topics DEF ReportsInit, Unread
  <2>3. /\ conn \in [Client -> {"none", "open", "cut", "dead"}]
        /\ broker \in [Client -> {"none", "live", "lost"}]
        /\ retained \in [Topic -> BOOLEAN]
    BY DEF ReportsInit
  <2>4. wire \in Seq(Message) /\ Len(wire) =< WIRE
    BY ReportsAssumption, EmptySeq DEF ReportsInit
  <2>. QED  BY <2>1, <2>2, <2>3, <2>4 DEF ReportsTypeOK
<1>2. ReportInv /\ ToldWhatIs
  BY DEF ReportsInit, ReportInv, ToldWhatIs
<1>3. SessionInv /\ OnlineHasSession
  BY DEF ReportsInit, SessionInv, OnlineHasSession, Client
<1>. QED  BY <1>1, <1>2, <1>3 DEF ReportsIInv

(* A client is accepted; the connection of the publisher is open, or none. *)
LEMMA AcceptStep ==
  ASSUME ReportsIInv, NEW c \in Client, Accepts(c)
  PROVE  /\ broker' \in [Client -> {"none", "live", "lost"}]
         /\ broker'[c] = "live"
         /\ broker["pub"] = "live" => broker'["pub"] = "live"
         /\ retained' \in {retained, Will(retained)}
         /\ retained'[StatusTopic] => broker'["pub"] = "live"
<1>1. /\ broker \in [Client -> {"none", "live", "lost"}]
      /\ retained \in [Topic -> BOOLEAN]
      /\ retained[StatusTopic] => broker["pub"] = "live"
      /\ "pub" \in Client
  BY DEF ReportsIInv, ReportsTypeOK, OnlineHasSession, Client
<1>2. ~Will(retained)[StatusTopic]
  BY <1>1, Topics DEF Will
<1>. QED  BY <1>1, <1>2 DEF Accepts

LEMMA ConnectStep == ReportsIInv /\ Connect => ReportsIInv'
<1>. SUFFICES ASSUME ReportsIInv, Connect PROVE ReportsIInv'
  OBVIOUS
<1>0. "pub" \in Client
  BY DEF Client
<1>1. /\ conn' = [conn EXCEPT !["pub"] = "open"] /\ Accepts("pub")
      /\ at' = "hello"
      /\ UNCHANGED <<deviceVars, next, seen, initial, wire>>
  BY DEF Connect, Opens
<1>2. /\ broker' \in [Client -> {"none", "live", "lost"}]
      /\ broker'["pub"] = "live"
      /\ retained' \in {retained, Will(retained)}
  BY <1>0, <1>1, AcceptStep
<1>3. ReportsTypeOK'
  BY <1>1, <1>2, StatusFrame DEF ReportsIInv, ReportsTypeOK, DeviceTypeOK, Relay
<1>4. ReportInv' /\ ToldWhatIs'
  BY <1>1, NothingToTell
<1>5. SessionInv' /\ OnlineHasSession'
  BY <1>0, <1>1, <1>2 DEF ReportsIInv, ReportsTypeOK, SessionInv, OnlineHasSession
<1>. QED  BY <1>3, <1>4, <1>5 DEF ReportsIInv

(* The subscriber connects, or a connect fails half way.                   *)
LEMMA AcceptedStep ==
  ASSUME ReportsIInv, NEW c \in Client, Accepts(c),
         conn' = conn \/ (c = "sub" /\ conn' = [conn EXCEPT ![c] = "open"]),
         UNCHANGED <<deviceVars, publisherVars, wire>>
  PROVE  ReportsIInv'
<1>1. /\ broker' \in [Client -> {"none", "live", "lost"}]
      /\ broker["pub"] = "live" => broker'["pub"] = "live"
      /\ retained' \in {retained, Will(retained)}
      /\ retained'[StatusTopic] => broker'["pub"] = "live"
  BY AcceptStep
<1>2. /\ conn' \in [Client -> {"none", "open", "cut", "dead"}]
      /\ conn'["pub"] = conn["pub"]
  BY DEF ReportsIInv, ReportsTypeOK, Client
<1>3. ReportsTypeOK'
  BY <1>1, <1>2, StatusFrame DEF ReportsIInv, ReportsTypeOK, DeviceTypeOK, Relay
<1>4. ReportInv' /\ ToldWhatIs'
  BY <1>1, <1>2, StatusFrame, StillTold DEF ReportsIInv, ReportsTypeOK
<1>5. SessionInv' /\ OnlineHasSession'
  BY <1>1, <1>2 DEF ReportsIInv, SessionInv, OnlineHasSession
<1>. QED  BY <1>3, <1>4, <1>5 DEF ReportsIInv

LEMMA HelloStep == ReportsIInv /\ (HelloAcked \/ HelloFails) => ReportsIInv'
<1>. SUFFICES ASSUME ReportsIInv, HelloAcked \/ HelloFails PROVE ReportsIInv'
  OBVIOUS
<1>1. /\ UNCHANGED <<deviceVars, conn, wire, broker>>
      /\ StartReport(TRUE)
      /\ (Online /\ broker["pub"] = "live") \/ UNCHANGED retained
  BY DEF HelloAcked, HelloFails, HelloDone, ReportsIInv, SessionInv
<1>2. retained' \in {retained, [retained EXCEPT ![StatusTopic] = TRUE]}
  BY <1>1 DEF Online
<1>3. /\ at' = "report" /\ next' = 0 /\ initial' = TRUE
      /\ seen' = [mask |-> onMask, lock |-> FALSE]
  BY <1>1 DEF StartReport
<1>4. ReportsTypeOK'
  BY <1>1, <1>2, <1>3, StatusFrame, Topics DEF ReportsIInv, ReportsTypeOK, DeviceTypeOK, Relay
<1>5. ReportInv'
  <2>1. next' # SafetyTopic /\ \A t \in DeviceTopic : ~(t < next')
    BY <1>3, Topics
  <2>2. seen'.mask = onMask'
    BY <1>1, <1>3
  <2>. QED  BY <2>1, <2>2 DEF ReportInv, SafetyTopic, DeviceTopic, Relay
<1>6. ToldWhatIs'
  BY <1>3 DEF ToldWhatIs
<1>7. SessionInv' /\ OnlineHasSession'
  BY <1>1 DEF ReportsIInv, SessionInv, OnlineHasSession
<1>. QED  BY <1>4, <1>5, <1>6, <1>7 DEF ReportsIInv

(* What a send into an open connection does to what is told.               *)
LEMMA SendTells ==
  ASSUME ReportsTypeOK, SessionInv, NEW t \in Topic, NEW v \in BOOLEAN, Sends(t, v),
         UNCHANGED <<conn, retained>>
  PROVE  /\ wire' \in Seq(Message) /\ Len(wire') =< WIRE
         /\ wire' # <<>> => conn["pub"] = "open"
         /\ conn["pub"] = "open" => /\ Told(t, v)'
                                    /\ \A u, w : u # t /\ Told(u, w) => Told(u, w)'
<1>. DEFINE m == [topic |-> t, value |-> v]
<1>1. /\ m \in Message /\ m.topic = t /\ m.value = v
      /\ wire \in Seq(Message) /\ Len(wire) \in Nat /\ Len(wire) =< WIRE
      /\ WIRE \in Nat
  BY LenProperties, ReportsAssumption DEF ReportsTypeOK, Message
<1>. HIDE DEF m
<1>2. CASE conn["pub"] = "open" /\ Len(wire) < WIRE /\ wire' = Append(wire, m)
  <2>1. wire' \in Seq(Message) /\ Len(wire') = Len(wire) + 1
    BY <1>1, <1>2, AppendProperties
  <2>2. Told(t, v)' /\ \A u, w : u # t /\ Told(u, w) => Told(u, w)'
    BY <1>1, <1>2, ToldAppend
  <2>. QED  BY <1>1, <1>2, <2>1, <2>2
<1>3. CASE conn["pub"] = "cut" /\ wire' = wire
  BY <1>1, <1>3 DEF SessionInv
<1>. QED  BY <1>2, <1>3 DEF Sends, m

LEMMA SendReportStep == ReportsIInv /\ SendReport => ReportsIInv'
<1>. SUFFICES ASSUME ReportsIInv, SendReport PROVE ReportsIInv'
  OBVIOUS
<1>. PICK n : n = next
  OBVIOUS
<1>. PICK v : v = IF next = SafetyTopic THEN seen.lock ELSE next \in seen.mask
  OBVIOUS
<1>1. /\ at = "report" /\ Sends(n, v)
      /\ UNCHANGED <<deviceVars, conn, brokerVars>>
      /\ ReportsTypeOK /\ SessionInv /\ ReportInv /\ ToldWhatIs
  BY DEF SendReport, ReportsIInv
<1>2. /\ n \in 0 .. COUNT /\ n \in Topic /\ v \in BOOLEAN
      /\ seen.lock \in BOOLEAN
  <2>1. n \in 0 .. COUNT /\ seen.lock \in BOOLEAN
    BY <1>1 DEF ReportsTypeOK
  <2>2. n \in Topic
    BY <2>1, Topics
  <2>3. v \in BOOLEAN
    <3>1. CASE next = SafetyTopic
      BY <2>1, <3>1
    <3>2. CASE next # SafetyTopic
      BY <3>2
    <3>. QED  BY <3>1, <3>2
  <2>. QED  BY <2>1, <2>2, <2>3
<1>3. /\ wire' \in Seq(Message) /\ Len(wire') =< WIRE
      /\ wire' # <<>> => conn["pub"] = "open"
      /\ conn["pub"] = "open" => /\ Told(n, v)'
                                 /\ \A u, w : u # n /\ Told(u, w) => Told(u, w)'
  BY <1>1, <1>2, SendTells
<1>4. SessionInv' /\ OnlineHasSession'
  BY <1>1, <1>3 DEF ReportsIInv, SessionInv, OnlineHasSession
<1>5. \A t : Truth(t)' = Truth(t)
  BY <1>1, TruthFrame
<1>6. ASSUME conn["pub"] = "open", ~stateChanged, NEW t \in DeviceTopic, t =< n
      PROVE  Told(t, Truth(t))'
  <2>. PICK w : w = Truth(t)
    OBVIOUS
  <2>1. /\ seen.mask = onMask
        /\ n = SafetyTopic => seen.lock = locked
        /\ t < n => Told(t, w)
    BY <1>1, <1>6 DEF ReportInv
  <2>. SUFFICES Told(t, w)'
    BY <1>5 DEF Told
  <2>2. CASE t = n
    <3>1. w = v
      BY <2>1, <2>2 DEF Truth
    <3>. QED  BY <1>3, <1>6, <2>2, <3>1
  <2>3. CASE t # n
    <3>1. t < n
      BY <1>2, <1>6, <2>3, Topics
    <3>. QED  BY <1>3, <1>6, <2>1, <2>3, <3>1
  <2>. QED  BY <2>2, <2>3
<1>7. CASE next = SafetyTopic
  <2>1. at' = "wait" /\ NotReporting
    BY <1>7 DEF SendReport
  <2>2. ReportsTypeOK'
    BY <1>1, <1>3, <2>1, ReportsNothing DEF ReportsTypeOK, DeviceTypeOK, Relay
  <2>3. ReportInv'
    BY <2>1 DEF ReportInv
  <2>4. ToldWhatIs'
    <3>1. \A t \in DeviceTopic : t =< next
      BY <1>7, Topics
    <3>. QED  BY <1>1, <1>6, <3>1 DEF ToldWhatIs, DeviceTopic
  <2>. QED  BY <1>4, <2>2, <2>3, <2>4 DEF ReportsIInv
<1>8. CASE next # SafetyTopic
  <2>1. /\ next' = next + 1 /\ UNCHANGED <<at, initial>>
        /\ seen' = [seen EXCEPT !.lock = LockRead]
    BY <1>8 DEF SendReport
  <2>2. next' \in 0 .. COUNT
    BY <1>2, <1>8, <2>1, Topics
  <2>3. LockRead \in BOOLEAN
    BY <1>1, <1>2 DEF LockRead, ReportsTypeOK, DeviceTypeOK
  <2>4. /\ seen' \in [mask : SUBSET Relay, lock : BOOLEAN]
        /\ seen'.mask = seen.mask /\ seen'.lock = LockRead
    BY <1>1, <2>1, <2>3 DEF ReportsTypeOK
  <2>5. ReportsTypeOK'
    BY <1>1, <1>3, <2>1, <2>2, <2>4 DEF ReportsTypeOK, DeviceTypeOK, Relay
  <2>6. ReportInv'
    <3>1. SUFFICES ASSUME conn["pub"] = "open", ~stateChanged
                   PROVE  /\ seen'.mask = onMask
                          /\ next' = SafetyTopic => seen'.lock = locked
                          /\ \A t \in DeviceTopic : t < next' => Told(t, Truth(t))'
      BY <1>1 DEF ReportInv, DeviceTopic, SafetyTopic, Relay
    <3>2. seen'.mask = onMask
      BY <1>1, <2>4, <3>1 DEF ReportInv
    <3>3. next' = SafetyTopic => seen'.lock = locked
      BY <1>2, <2>1, <2>4, Topics DEF LockRead
    <3>4. \A t \in DeviceTopic : t < next' => t =< next
      BY <1>2, <2>1, Topics
    <3>. QED  BY <1>6, <3>1, <3>2, <3>3, <3>4
  <2>7. ToldWhatIs'
    BY <1>1, <2>1 DEF ToldWhatIs
  <2>. QED  BY <1>4, <2>5, <2>6, <2>7 DEF ReportsIInv
<1>. QED  BY <1>7, <1>8

LEMMA InitialReportFailsStep == ReportsIInv /\ InitialReportFails => ReportsIInv'
<1>. SUFFICES ASSUME ReportsIInv, InitialReportFails PROVE ReportsIInv'
  OBVIOUS
<1>1. /\ conn["pub"] = "dead" /\ at' = "wait" /\ NotReporting
      /\ UNCHANGED <<deviceVars, conn, wire, brokerVars>>
  BY DEF InitialReportFails
<1>2. ReportsTypeOK'
  BY <1>1, ReportsNothing DEF ReportsIInv, ReportsTypeOK, DeviceTypeOK, Relay
<1>3. ReportInv' /\ ToldWhatIs'
  BY <1>1, NothingToTell
<1>. QED  BY <1>1, <1>2, <1>3 DEF ReportsIInv, SessionInv, OnlineHasSession

LEMMA SessionEndsStep ==
  ASSUME ReportsIInv, conn["pub"] = "dead", SessionEnds
  PROVE  ReportsIInv'
<1>1. /\ at' = "down" /\ NotReporting
      /\ conn' = [conn EXCEPT !["pub"] = "none"]
      /\ UNCHANGED <<deviceVars, wire, brokerVars>>
  BY DEF SessionEnds
<1>2. ReportsTypeOK'
  BY <1>1, ReportsNothing DEF ReportsIInv, ReportsTypeOK, DeviceTypeOK, Relay
<1>3. ReportInv' /\ ToldWhatIs'
  BY <1>1, NothingToTell
<1>4. SessionInv' /\ OnlineHasSession'
  BY <1>1 DEF ReportsIInv, ReportsTypeOK, Client, SessionInv, OnlineHasSession
<1>. QED  BY <1>2, <1>3, <1>4 DEF ReportsIInv

LEMMA SignalReportStep == ReportsIInv /\ SignalReport => ReportsIInv'
<1>. SUFFICES ASSUME ReportsIInv, SignalReport PROVE ReportsIInv'
  OBVIOUS
<1>1. /\ stateChanged' = FALSE
      /\ UNCHANGED <<onMask, locked, conn, wire, brokerVars>>
      /\ at' = "report" /\ next' = 0 /\ initial' = FALSE
      /\ seen' = [mask |-> onMask, lock |-> FALSE]
  BY DEF SignalReport, SignalTaken, StartReport
<1>2. ReportsTypeOK'
  <2>1. next' \in 0 .. COUNT
    BY <1>1, Topics
  <2>2. initial' \in BOOLEAN /\ seen' \in [mask : SUBSET Relay, lock : BOOLEAN]
    BY <1>1 DEF ReportsIInv, ReportsTypeOK, DeviceTypeOK
  <2>. QED  BY <1>1, <2>1, <2>2 DEF ReportsIInv, ReportsTypeOK, DeviceTypeOK, Relay
<1>3. ReportInv'
  <2>1. next' # SafetyTopic /\ \A t \in DeviceTopic : ~(t < next')
    BY <1>1, Topics
  <2>2. seen'.mask = onMask'
    BY <1>1
  <2>. QED  BY <2>1, <2>2 DEF ReportInv, SafetyTopic, DeviceTopic, Relay
<1>4. ToldWhatIs'
  BY <1>1 DEF ToldWhatIs
<1>. QED  BY <1>1, <1>2, <1>3, <1>4 DEF ReportsIInv, SessionInv, OnlineHasSession

LEMMA HeartbeatStep == ReportsIInv /\ Heartbeat => ReportsIInv'
<1>. SUFFICES ASSUME ReportsIInv, Heartbeat PROVE ReportsIInv'
  OBVIOUS
<1>1. /\ at = "wait" /\ Sends(StatusTopic, TRUE)
      /\ UNCHANGED <<deviceVars, publisherVars, conn, brokerVars>>
      /\ ReportsTypeOK /\ SessionInv /\ ReportInv /\ ToldWhatIs
  BY DEF Heartbeat, ReportsIInv
<1>2. /\ wire' \in Seq(Message) /\ Len(wire') =< WIRE
      /\ wire' # <<>> => conn["pub"] = "open"
      /\ conn["pub"] = "open" => \A u, w : u # StatusTopic /\ Told(u, w) => Told(u, w)'
  BY <1>1, Topics, SendTells
<1>3. ReportsTypeOK'
  BY <1>1, <1>2 DEF ReportsTypeOK, DeviceTypeOK, Relay
<1>4. ReportInv' /\ ToldWhatIs'
  <2>1. CASE conn["pub"] = "open"
    BY <1>1, <1>2, <2>1, Topics, StillTold
  <2>2. CASE conn["pub"] # "open"
    BY <1>1, <2>2, NothingToTell
  <2>. QED  BY <2>1, <2>2
<1>5. SessionInv' /\ OnlineHasSession'
  BY <1>1, <1>2 DEF ReportsIInv, SessionInv, OnlineHasSession
<1>. QED  BY <1>3, <1>4, <1>5 DEF ReportsIInv

LEMMA SubDropsStep == ReportsIInv /\ SubDrops => ReportsIInv'
<1>. SUFFICES ASSUME ReportsIInv, SubDrops PROVE ReportsIInv'
  OBVIOUS
<1>1. /\ conn' = [conn EXCEPT !["sub"] = "none"]
      /\ UNCHANGED <<deviceVars, publisherVars, wire, brokerVars>>
  BY DEF SubDrops
<1>2. /\ conn' \in [Client -> {"none", "open", "cut", "dead"}]
      /\ conn'["pub"] = conn["pub"]
  BY <1>1 DEF ReportsIInv, ReportsTypeOK, Client
<1>3. ReportsTypeOK'
  BY <1>1, <1>2 DEF ReportsIInv, ReportsTypeOK, DeviceTypeOK, Relay
<1>4. ReportInv' /\ ToldWhatIs'
  BY <1>1, <1>2, ToldFrame, StillTold DEF ReportsIInv
<1>5. SessionInv' /\ OnlineHasSession'
  BY <1>1, <1>2 DEF ReportsIInv, SessionInv, OnlineHasSession
<1>. QED  BY <1>3, <1>4, <1>5 DEF ReportsIInv

LEMMA CutStep ==
  ASSUME ReportsIInv, NEW c \in Client, Cut(c)
  PROVE  ReportsIInv'
<1>1. /\ conn' = [conn EXCEPT ![c] = "cut"]
      /\ wire' = IF c = "pub" THEN <<>> ELSE wire
      /\ UNCHANGED <<deviceVars, publisherVars, brokerVars>>
  BY DEF Cut
<1>2. conn' \in [Client -> {"none", "open", "cut", "dead"}]
  BY <1>1 DEF ReportsIInv, ReportsTypeOK
<1>3. ReportsTypeOK'
  <2>1. wire' \in Seq(Message) /\ Len(wire') =< WIRE
    BY <1>1, ReportsAssumption, EmptySeq DEF ReportsIInv, ReportsTypeOK
  <2>. QED  BY <1>1, <1>2, <2>1 DEF ReportsIInv, ReportsTypeOK, DeviceTypeOK, Relay
<1>4. CASE c = "pub"
  <2>1. conn'["pub"] = "cut" /\ wire' = <<>>
    BY <1>1, <1>4 DEF ReportsIInv, ReportsTypeOK, Client
  <2>. QED
    BY <1>1, <1>3, <2>1, NothingToTell DEF ReportsIInv, SessionInv, OnlineHasSession
<1>5. CASE c # "pub"
  <2>1. conn'["pub"] = conn["pub"] /\ wire' = wire
    BY <1>1, <1>5 DEF ReportsIInv, ReportsTypeOK, Client
  <2>2. ReportInv' /\ ToldWhatIs'
    BY <1>1, <2>1, ToldFrame, StillTold DEF ReportsIInv
  <2>. QED  BY <1>1, <1>3, <2>1, <2>2 DEF ReportsIInv, SessionInv, OnlineHasSession
<1>. QED  BY <1>4, <1>5

LEMMA SocketAbortsStep == ReportsIInv /\ SocketAborts => ReportsIInv'
<1>. SUFFICES ASSUME ReportsIInv, SocketAborts PROVE ReportsIInv'
  OBVIOUS
<1>1. /\ conn["pub"] = "cut" /\ conn' = [conn EXCEPT !["pub"] = "dead"]
      /\ UNCHANGED <<deviceVars, publisherVars, wire, brokerVars>>
  BY DEF SocketAborts
<1>2. /\ conn' \in [Client -> {"none", "open", "cut", "dead"}]
      /\ conn'["pub"] = "dead"
  BY <1>1 DEF ReportsIInv, ReportsTypeOK, Client
<1>3. ReportsTypeOK'
  BY <1>1, <1>2 DEF ReportsIInv, ReportsTypeOK, DeviceTypeOK, Relay
<1>4. ReportInv' /\ ToldWhatIs'
  BY <1>2, NothingToTell
<1>5. SessionInv' /\ OnlineHasSession'
  BY <1>1, <1>2 DEF ReportsIInv, SessionInv, OnlineHasSession
<1>. QED  BY <1>3, <1>4, <1>5 DEF ReportsIInv

LEMMA BrokerDeliversStep == ReportsIInv /\ BrokerDelivers => ReportsIInv'
<1>. SUFFICES ASSUME ReportsIInv, BrokerDelivers PROVE ReportsIInv'
  OBVIOUS
<1>1. /\ wire # <<>> /\ wire' = Tail(wire)
      /\ retained' = [retained EXCEPT ![Head(wire).topic] = Head(wire).value]
      /\ UNCHANGED <<deviceVars, publisherVars, conn, broker>>
  BY DEF BrokerDelivers
<1>2. wire \in Seq(Message) /\ Len(wire) =< WIRE /\ retained \in [Topic -> BOOLEAN]
  BY DEF ReportsIInv, ReportsTypeOK
<1>3. /\ wire' \in Seq(Message) /\ Len(wire') =< WIRE
      /\ Head(wire) \in Message
  BY <1>1, <1>2, HeadTailProperties, LenProperties, ReportsAssumption
<1>4. retained' \in [Topic -> BOOLEAN]
  BY <1>1, <1>2, <1>3 DEF Message
<1>5. ReportsTypeOK'
  BY <1>1, <1>3, <1>4 DEF ReportsIInv, ReportsTypeOK, DeviceTypeOK, Relay
<1>6. \A t \in DeviceTopic : \A v : Told(t, v) => Told(t, v)'
  BY <1>2, Topics, ToldDelivered
<1>7. ReportInv' /\ ToldWhatIs'
  BY <1>1, <1>6, StillTold DEF ReportsIInv
<1>8. SessionInv' /\ OnlineHasSession'
  BY <1>1 DEF ReportsIInv, SessionInv, OnlineHasSession
<1>. QED  BY <1>5, <1>7, <1>8 DEF ReportsIInv

LEMMA BrokerLosesStep ==
  ASSUME ReportsIInv, NEW c \in Client, BrokerLoses(c)
  PROVE  ReportsIInv'
<1>1. /\ broker[c] = "live" /\ conn[c] # "open"
      /\ broker' = [broker EXCEPT ![c] = "lost"]
      /\ retained' = Will(retained)
      /\ UNCHANGED <<deviceVars, publisherVars, conn, wire>>
  BY DEF BrokerLoses
<1>2. retained \in [Topic -> BOOLEAN] /\ broker \in [Client -> {"none", "live", "lost"}]
  BY DEF ReportsIInv, ReportsTypeOK
<1>3. /\ retained' \in [Topic -> BOOLEAN]
      /\ \A t \in DeviceTopic : \A v : Told(t, v) => Told(t, v)'
  BY <1>1, <1>2, StatusFrame
<1>4. ReportsTypeOK'
  BY <1>1, <1>2, <1>3 DEF ReportsIInv, ReportsTypeOK, DeviceTypeOK, Relay
<1>5. ReportInv' /\ ToldWhatIs'
  BY <1>1, <1>3, StillTold DEF ReportsIInv
<1>6. SessionInv'
  BY <1>1, <1>2 DEF ReportsIInv, SessionInv
<1>7. OnlineHasSession'
  BY <1>1, <1>2, Topics DEF Will, OnlineHasSession
<1>. QED  BY <1>4, <1>5, <1>6, <1>7 DEF ReportsIInv

LEMMA DeviceChangesStep == ReportsIInv /\ DeviceChanges => ReportsIInv'
<1>. SUFFICES ASSUME ReportsIInv, DeviceChanges PROVE ReportsIInv'
  OBVIOUS
<1>1. /\ stateChanged' = TRUE /\ onMask' \in SUBSET Relay /\ locked' \in BOOLEAN
      /\ UNCHANGED <<publisherVars, conn, wire, brokerVars>>
  BY DEF DeviceChanges, MaskStored, LockFlips, ReportsIInv, ReportsTypeOK, DeviceTypeOK
<1>2. ReportsTypeOK'
  BY <1>1 DEF ReportsIInv, ReportsTypeOK, DeviceTypeOK, Relay
<1>3. ReportInv' /\ ToldWhatIs'
  BY <1>1, NothingToTell
<1>. QED  BY <1>1, <1>2, <1>3 DEF ReportsIInv, SessionInv, OnlineHasSession

LEMMA RestartStep == ReportsIInv /\ Restart => ReportsIInv'
<1>. SUFFICES ASSUME ReportsIInv, Restart PROVE ReportsIInv'
  OBVIOUS
<1>1. /\ onMask' = {} /\ locked' = FALSE /\ stateChanged' = FALSE
      /\ at' = "down" /\ NotReporting
      /\ conn' = [c \in Client |-> "none"] /\ wire' = <<>>
      /\ UNCHANGED brokerVars
  BY DEF Restart, DeviceRestarts
<1>2. ReportsTypeOK'
  <2>1. wire' \in Seq(Message) /\ Len(wire') =< WIRE
    BY <1>1, ReportsAssumption, EmptySeq
  <2>2. DeviceTypeOK'
    BY <1>1 DEF DeviceTypeOK
  <2>. QED  BY <1>1, <2>1, <2>2, ReportsNothing DEF ReportsIInv, ReportsTypeOK
<1>3. ReportInv' /\ ToldWhatIs'
  BY <1>1, NothingToTell
<1>4. SessionInv' /\ OnlineHasSession'
  BY <1>1 DEF ReportsIInv, SessionInv, OnlineHasSession, Client
<1>. QED  BY <1>2, <1>3, <1>4 DEF ReportsIInv

LEMMA ReportsStutterStep == ReportsIInv /\ UNCHANGED reportsVars => ReportsIInv'
<1>. SUFFICES ASSUME ReportsIInv, UNCHANGED reportsVars PROVE ReportsIInv'
  OBVIOUS
<1>1. UNCHANGED <<deviceVars, publisherVars, conn, wire, brokerVars>>
  BY DEF reportsVars
<1>2. ReportInv' /\ ToldWhatIs'
  BY <1>1, ToldFrame, StillTold DEF ReportsIInv
<1>. QED
  BY <1>1, <1>2 DEF ReportsIInv, ReportsTypeOK, DeviceTypeOK, Relay, SessionInv, OnlineHasSession

-----------------------------------------------------------------------------
LEMMA ReportsNextPreserves == ReportsIInv /\ [ReportsNext]_reportsVars => ReportsIInv'
<1>. SUFFICES ASSUME ReportsIInv, [ReportsNext]_reportsVars PROVE ReportsIInv'
  OBVIOUS
<1>1. CASE Connect
  BY <1>1, ConnectStep
<1>2. CASE Publisher
  <2>1. CASE HelloAcked \/ HelloFails
    BY <2>1, HelloStep
  <2>2. CASE ReportFails \/ HeartbeatFails
    BY <2>2, SessionEndsStep DEF ReportFails, HeartbeatFails
  <2>. QED
    BY <1>2, <2>1, <2>2, SendReportStep, InitialReportFailsStep, SignalReportStep,
       HeartbeatStep
    DEF Publisher
<1>3. CASE SubConnect
  BY <1>3, AcceptedStep DEF SubConnect, Opens, Client
<1>4. CASE SubDrops
  BY <1>4, SubDropsStep
<1>5. CASE \E c \in Client : ConnectFails(c) \/ Cut(c) \/ BrokerLoses(c)
  <2>1. PICK c \in Client : ConnectFails(c) \/ Cut(c) \/ BrokerLoses(c)
    BY <1>5
  <2>2. CASE ConnectFails(c)
    BY <2>2, AcceptedStep DEF ConnectFails
  <2>. QED  BY <2>1, <2>2, CutStep, BrokerLosesStep
<1>6. CASE SocketAborts \/ BrokerDelivers \/ DeviceChanges \/ Restart
  BY <1>6, SocketAbortsStep, BrokerDeliversStep, DeviceChangesStep, RestartStep
<1>7. CASE UNCHANGED reportsVars
  BY <1>7, ReportsStutterStep
<1>. QED  BY <1>1, <1>2, <1>3, <1>4, <1>5, <1>6, <1>7 DEF ReportsNext

(* The inductive invariant holds of every behaviour.                       *)
THEOREM ReportsInvariance == ReportsSpec => []ReportsIInv
BY ReportsInitEstablishes, ReportsNextPreserves, PTL DEF ReportsSpec

(* Type correctness.                                                       *)
THEOREM ReportsTypeCorrect == ReportsSpec => []ReportsTypeOK
<1>1. ReportsIInv => ReportsTypeOK
  BY DEF ReportsIInv
<1>. QED  BY <1>1, ReportsInvariance, PTL

(* A waiting publisher with no pending signal has told the broker what is, *)
(* for every number of relays and whatever changed while it reported.      *)
THEOREM BrokerToldWhatIs == ReportsSpec => []ToldWhatIs
<1>1. ReportsIInv => ToldWhatIs
  BY DEF ReportsIInv
<1>. QED  BY <1>1, ReportsInvariance, PTL

(* A retained online always has a session whose will is still to come.     *)
THEOREM OnlineNeverOrphaned == ReportsSpec => []OnlineHasSession
<1>1. ReportsIInv => OnlineHasSession
  BY DEF ReportsIInv
<1>. QED  BY <1>1, ReportsInvariance, PTL
=============================================================================
