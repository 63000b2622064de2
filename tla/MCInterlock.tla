---------------------------- MODULE MCInterlock -----------------------------
(* Interlock with two relays, and the requests that arrive from each       *)
(* network client.  Relay 2 does not exist.                                *)
EXTENDS Interlock
OnOff0   == {<<0, TRUE>>, <<0, FALSE>>}
On0      == {<<0, TRUE>>}
On2      == {<<2, TRUE>>}
None     == {}
=============================================================================
