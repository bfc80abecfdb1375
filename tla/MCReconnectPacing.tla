--------------------------- MODULE MCReconnectPacing ---------------------------
(* TLC instance of ReconnectPacing. *)
EXTENDS ReconnectPacing

CONSTANTS b1, b2

MCBridges == {b1, b2}
================================================================================
