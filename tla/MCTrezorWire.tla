---------------------------- MODULE MCTrezorWire ----------------------------
(***************************************************************************)
(* Packets with room for two bytes and for three, answers that just fill   *)
(* one packet and three; a further packet has the marks of a first one, of *)
(* a request for a button that takes two packets, or has not.              *)
(***************************************************************************)
EXTENDS TrezorWire, TLC

MCSizes == {2, 8}
MCLooks == {[first |-> FALSE, type |-> "answer", size |-> 5],
            [first |-> TRUE, type |-> "button", size |-> 5]}
=============================================================================
