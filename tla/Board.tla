------------------------------- MODULE Board --------------------------------
(***************************************************************************)
(* What every task knows of the board (src/bsp.rs).                        *)
(***************************************************************************)
EXTENDS Naturals

CONSTANT COUNT   (* number of relays on the board                           *)

ASSUME BoardAssumption == COUNT \in Nat \ {0}

Relay == 0 .. COUNT - 1
=============================================================================
