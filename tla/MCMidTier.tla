------------------------------ MODULE MCMidTier ------------------------------
(* Two slots and a factor of 0.4, so that one request in the queue is too   *)
(* many for two servers and none for three.                                 *)
EXTENDS MidTier
=============================================================================
