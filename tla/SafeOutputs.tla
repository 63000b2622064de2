---------------------------- MODULE SafeOutputs -----------------------------
(***************************************************************************)
(* What the interlock promises about the relays, without tasks, channel,   *)
(* bus attempts or boot.  A pattern of relays is admitted only while the   *)
(* interlock is open, and may land later than that: once.  While the       *)
(* interlock is engaged the only other thing that happens to the outputs   *)
(* is that they open.                                                      *)
(***************************************************************************)
EXTENDS Naturals

CONSTANT Relay

VARIABLES engaged,    \* the interlock is engaged
          landing,    \* the admitted pattern that has still to land: none or one
          energised   \* the relays that are energised

vars == <<engaged, landing, energised>>

Init == /\ engaged = FALSE
        /\ landing = {}
        /\ energised = {}

Engage == /\ ~engaged
          /\ engaged' = TRUE
          /\ UNCHANGED <<landing, energised>>

Release == /\ engaged
           /\ engaged' = FALSE
           /\ UNCHANGED <<landing, energised>>

Admit == /\ ~engaged
         /\ landing = {}
         /\ \E m \in SUBSET Relay : landing' = {m}
         /\ UNCHANGED <<engaged, energised>>

(* A write of the pattern ends: it is on the outputs or not, and it may    *)
(* be tried again.                                                         *)
Land == /\ \E m \in landing : energised' \in {energised, m}
        /\ landing' \in {landing, {}}
        /\ UNCHANGED engaged

Quench == /\ landing = {}
          /\ energised' = {}
          /\ UNCHANGED <<engaged, landing>>

(* The controller restarts: the interlock and what was admitted are        *)
(* forgotten, and no output is energised by it.                            *)
Restart == /\ engaged' = FALSE
           /\ landing' = {}
           /\ energised' \in SUBSET energised

Next == Engage \/ Release \/ Admit \/ Land \/ Quench \/ Restart

Spec == Init /\ [][Next]_vars
=============================================================================
