--------------------------- MODULE MCTrezorBridge ---------------------------
(***************************************************************************)
(* TrezorBridge with two reports from each side.                           *)
(***************************************************************************)
EXTENDS TrezorBridge, TLC
=============================================================================
