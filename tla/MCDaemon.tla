------------------------------ MODULE MCDaemon ------------------------------
(***************************************************************************)
(* A small instance of the daemon: two connections and one signal.         *)
(***************************************************************************)
EXTENDS Daemon, TLC
CONSTANTS c1, c2, sig, i1, r1, r2

MCCallers == {c1, c2, sig}
MCIds  == {i1}
MCRigs == {r1, r2}
MCOneRig == {r1}

MCRequests == {[op |-> "Start", id |-> None], [op |-> "Stop", id |-> i1],
               [op |-> "Shutdown", id |-> None]}
MCStartOrShutdown == {[op |-> "Start", id |-> None], [op |-> "Shutdown", id |-> None]}
=============================================================================
