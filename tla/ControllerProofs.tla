-------------------------- MODULE ControllerProofs --------------------------
(***************************************************************************)
(* The firmware as a whole runs the two components it is joined from, so   *)
(* what is proved of each of them holds of it, and the end-to-end          *)
(* properties follow from the two together.                                *)
(***************************************************************************)
EXTENDS Controller, InterlockProofs, MqttReportsProofs

ControllerStep == [ControllerNext]_controllerVars

-----------------------------------------------------------------------------
(* Every step is one of module Interlock.                                  *)

LEMMA StepOfInterlock == ControllerStep => [Next]_vars
<1>. SUFFICES ASSUME ControllerStep
              PROVE  Next \/ UNCHANGED vars
  OBVIOUS
<1>1. CASE Local
  BY <1>1 DEF Local, Next, Boot, Tasks
<1>2. CASE Inbound
  BY <1>2 DEF Inbound, Next, Tasks
<1>3. CASE Restarts
  BY <1>3 DEF Restarts, Next, Boot, Tasks
<1>4. CASE SignalWakes
  BY <1>4 DEF SignalWakes, Next, Tasks
<1>5. CASE PublisherRuns \/ SubscriberRuns \/ Network \/ UNCHANGED controllerVars
  BY <1>5 DEF PublisherRuns, SubscriberRuns, Network, controllerVars
<1>. QED
  BY <1>1, <1>2, <1>3, <1>4, <1>5 DEF ControllerStep, ControllerNext

(* The firmware runs the relays, the interlock and the clients as module   *)
(* Interlock says: the sessions with the broker restrict when requests     *)
(* arrive, and change nothing else (main.rs spawns the tasks side by       *)
(* side).  Every theorem about Spec holds of it.                           *)
THEOREM RunsTheInterlock == ControllerSpec => Spec
<1>1. ControllerInit => Init
  BY DEF ControllerInit
<1>. QED
  BY <1>1, StepOfInterlock, PTL DEF ControllerSpec, Spec, ControllerStep

-----------------------------------------------------------------------------
(* Every step is one of module MqttReports.                                *)

LEMMA LocalShows ==
  ASSUME IInv, Local
  PROVE  TaskStep
<1>1. CASE EarlyFailure \/ RelaysNewOk \/ RelaysNewRetry \/ RelaysNewFails \/ LinkUp
  <2>1. UNCHANGED <<onMask, locked, stateChanged>>
    BY <1>1
    DEF EarlyFailure, RelaysNewOk, RelaysNewRetry, RelaysNewFails, LinkUp, UnchangedTasks,
        safetyVars, relaysRam
  <2>. QED  BY <2>1, DeviceStutters
<1>2. CASE RelayTask
  BY <1>2, RelayTaskShows DEF IInv, TypeOK
<1>3. CASE InputTask \/ WatchdogTrips
  BY <1>3, InterlockShows
<1>4. CASE (\E s \in Sender : Executor(s)) \/ Button \/ WebServer \/ Debounce \/ Wiring
  BY <1>4, OthersShow
<1>. QED  BY <1>1, <1>2, <1>3, <1>4 DEF Local

(* What a task does to the device while the sessions stay as they are.     *)
LEMMA TaskReports ==
  ASSUME TaskStep, UNCHANGED reportVars
  PROVE  [ReportsNext]_reportsVars
BY DEF TaskStep, reportVars, ReportsNext, DeviceChanges, reportsVars

LEMMA StepOfReports == IInv /\ ControllerStep => [ReportsNext]_reportsVars
<1>. SUFFICES ASSUME IInv, ControllerStep
              PROVE  [ReportsNext]_reportsVars
  OBVIOUS
<1>1. CASE Local
  BY <1>1, LocalShows, TaskReports DEF Local
<1>2. CASE Inbound
  BY <1>2, InterlockShows, TaskReports DEF Inbound
<1>3. CASE Restarts
  BY <1>3 DEF Restarts, ReportsNext
<1>4. CASE SignalWakes
  BY <1>4 DEF SignalWakes, ReportsNext, Publisher
<1>5. CASE PublisherRuns
  BY <1>5 DEF PublisherRuns, ReportsNext, Publisher, Client
<1>6. CASE SubscriberRuns
  BY <1>6 DEF SubscriberRuns, ReportsNext, Client
<1>7. CASE Network
  BY <1>7 DEF Network, ReportsNext
<1>8. CASE UNCHANGED controllerVars
  BY <1>8
  DEF controllerVars, vars, safetyVars, relaysVars, reportVars, reportsVars, deviceVars
<1>. QED
  BY <1>1, <1>2, <1>3, <1>4, <1>5, <1>6, <1>7, <1>8 DEF ControllerStep, ControllerNext

(* The firmware runs the publisher's and the subscriber's sessions as      *)
(* module MqttReports says: the changes of the mask and of the interlock   *)
(* that this module leaves open are those the tasks make, none of them     *)
(* without the signal (relays.rs apply, safety.rs, mqtt.rs).               *)
THEOREM RunsTheReports == ControllerSpec => ReportsSpec
<1>1. ControllerInit => ReportsInit
  BY DEF ControllerInit
<1>2. ControllerSpec => []IInv
  BY RunsTheInterlock, Invariance, PTL
<1>. QED
  BY <1>1, <1>2, StepOfReports, PTL DEF ControllerSpec, ReportsSpec, ControllerStep

-----------------------------------------------------------------------------
(* End to end                                                              *)

LEMMA ReportedFollows ==
  ASSUME CopiesAgree, ToldWhatIs
  PROVE  ReportedIsReal
<1>. SUFFICES ASSUME ~BusFaults, Up, ~Busy, ~AllOffSent, Reported, NEW r \in Relay
              PROVE  Told(r, r \in port)
  BY DEF ReportedIsReal
<1>1. onMask = port
  BY DEF CopiesAgree
<1>2. Told(r, Truth(r))
  BY DEF Reported, ToldWhatIs
<1>3. Truth(r) = (r \in port)
  BY <1>1, Topics DEF Truth
<1>. QED  BY <1>2, <1>3

LEMMA LockedFollows ==
  ASSUME TypeOK, OffIsComing, ToldWhatIs
  PROVE  LockedIsReportedOff
<1>. SUFFICES ASSUME locked, ~AllOffSent, ~AllOffRunning, Reported
              PROVE  /\ port = {}
                     /\ Told(SafetyTopic, TRUE)
                     /\ \A r \in Relay : Told(r, FALSE)
  BY DEF LockedIsReportedOff
<1>1. port = {} /\ onMask = {}
  BY DEF OffIsComing
<1>2. \A t \in Relay \cup {SafetyTopic} : Told(t, Truth(t))
  BY DEF Reported, ToldWhatIs
<1>3. Told(SafetyTopic, TRUE)
  <2>1. Truth(SafetyTopic) = TRUE
    BY DEF Truth, TypeOK, SafetyTypeOK
  <2>. QED  BY <1>2, <2>1
<1>4. ASSUME NEW r \in Relay
      PROVE  Told(r, FALSE)
  <2>1. Truth(r) = FALSE
    BY <1>1, Topics DEF Truth
  <2>. QED  BY <1>1, <1>2, <2>1
<1>. QED  BY <1>1, <1>3, <1>4

(* What the broker shows is what the relays do, on a bus whose writes do   *)
(* not fail: after any interleaving of commands, refusals, restarts, lost  *)
(* connections and wills, once the publisher waits with nothing signalled  *)
(* (relays.rs apply, mqtt.rs:119-145).                                     *)
THEOREM BrokerShowsTheRelays == ControllerSpec => []ReportedIsReal
BY RunsTheInterlock, RunsTheReports, CopiesStayTogether, BrokerToldWhatIs,
   ReportedFollows, PTL

(* A locked device that has written its AllOff and reported it shows and   *)
(* has every relay off, whichever writes failed before (safety.rs,         *)
(* relays.rs apply, mqtt.rs:119-145).                                      *)
THEOREM LockedShowsOff == ControllerSpec => []LockedIsReportedOff
BY RunsTheInterlock, RunsTheReports, TypeCorrect, OffAlwaysComing, BrokerToldWhatIs,
   LockedFollows, PTL
=============================================================================
