----------------------------- MODULE MCBundler -----------------------------
(***************************************************************************)
(* Two releases whose binaries have different names; the second ships its  *)
(* own manifest.                                                           *)
(***************************************************************************)
EXTENDS Bundler, TLC
CONSTANTS v1, v2, emuA, emuB, data

MCVersions   == {v1, v2}
MCFiles      == {emuA, emuB, data}
MCContents   == v1 :> {emuA, data} @@ v2 :> {emuB, data}
MCShipping   == {v2}
MCCandidates == <<emuA, emuB>>
=============================================================================
