---------------------------- MODULE MCSignaling ----------------------------
(***************************************************************************)
(* Constants of Signaling for TLC: a transport of its own device, and two  *)
(* that claim one device id, as a duplicated or reloaded tab does.         *)
(***************************************************************************)
EXTENDS Signaling

CONSTANTS a, b1, b2

OneDuplicated == (a :> 1) @@ (b1 :> 2) @@ (b2 :> 2)
=============================================================================
