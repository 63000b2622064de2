------------------------------ MODULE LockFlag ------------------------------
(***************************************************************************)
(* The flag of the safety interlock (src/safety.rs), which every module    *)
(* that reads or engages the interlock shares.                             *)
(***************************************************************************)
VARIABLE locked   \* LOCKED
=============================================================================
