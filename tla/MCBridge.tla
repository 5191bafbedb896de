------------------------------ MODULE MCBridge ------------------------------
(***************************************************************************)
(* GenericBridge over each of its transports, with a few reports from each *)
(* side, a kernel queue of one event, so that it overflows, and an         *)
(* emulator at a Unix socket that dies once and may come back.             *)
(***************************************************************************)
EXTENDS UnixRelay, TLC

MCTransports == {"tcp", "unix", "dgram"}
=============================================================================
