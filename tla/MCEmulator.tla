----------------------------- MODULE MCEmulator -----------------------------
(***************************************************************************)
(* An emulator of each kind; it may be started as often as there are pids. *)
(***************************************************************************)
EXTENDS Emulator, TLC
CONSTANTS p1, p2, p3

MCPids     == {p1, p2, p3}
MCKinds    == {"connect", "datagram", "sleep"}
MCDatagram == {"datagram"}
=============================================================================
