------------------------------ MODULE MCBooting ------------------------------
(* Booting with a clock of about 330 ms per tick, the thresholds rounded to *)
(* it; the interval between front servers and the limits are scaled down.   *)
EXTENDS Booting
=============================================================================
