----------------------------- MODULE MCRegistry -----------------------------
(***************************************************************************)
(* A small instance of the registry: as many callers as can meet at its    *)
(* one slot, no more ids than rigs so that ids are reused and collide.     *)
(***************************************************************************)
EXTENDS Registry, TLC
CONSTANTS c1, c2, i1, i2, r1, r2

MCTwoCallers == {c1, c2}
MCIds     == {i1, i2}
MCRigs    == {r1, r2}
=============================================================================
