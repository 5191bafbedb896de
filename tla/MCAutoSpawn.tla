---------------------------- MODULE MCAutoSpawn ----------------------------
(***************************************************************************)
(* Clients that meet at a socket, with and without a daemon by hand.       *)
(***************************************************************************)
EXTENDS AutoSpawn, TLC
CONSTANTS c1, c2, m1

MCClients == {c1, c2}
MCManual  == {m1}
MCNobody  == {}
=============================================================================
