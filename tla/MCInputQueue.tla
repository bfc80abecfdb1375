----------------------------- MODULE MCInputQueue -----------------------------
(* TLC instance of InputQueue: the interface numbers are the program's. *)
EXTENDS InputQueue

MCWireless == {3, 4}
=============================================================================
