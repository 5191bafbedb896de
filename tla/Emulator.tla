------------------------------ MODULE Emulator ------------------------------
(***************************************************************************)
(* The life of an emulator process in the hands of GenericEmulator or of   *)
(* TrezorEmulator (crate emulators), which differ in nothing modelled here *)
(* but the way they find out whether the process listens.                  *)
(*                                                                         *)
(* The owner makes one call at a time: start and stop take the emulator    *)
(* exclusively.  The process goes its own way meanwhile.                   *)
(***************************************************************************)
EXTENDS Naturals

CONSTANTS
  Pids,       \* the processes that may ever be spawned (bounds the starts)
  None,
  Kinds       \* how emulators may wait in start(): "connect" (TCP and Unix
              \* sockets), "datagram" (UDP, and TrezorEmulator), "sleep"
              \* (skip-probe mode)

ASSUME EmulatorAssumption ==
  /\ None \notin Pids
  /\ Kinds \subseteq {"connect", "datagram", "sleep"}

VARIABLES
  kind,       \* how this emulator waits; it is built that way
  status,     \* the EmulatorStatus
  child,      \* the process whose handle the emulator holds, or None
  call,       \* the await of the call in progress: "idle" if there is none,
              \* "ready", "sleep", "wait", "kill"; "dropped" at last
  victim,     \* the process whose handle stop() has taken, or None
  proc,       \* each process: "none", "booting", "serving" or "dead"
  killed      \* the processes that have been sent SIGKILL

emulatorVars == <<kind, status, child, call, victim, proc, killed>>

EmulatorInit ==
  /\ kind \in Kinds
  /\ status = "Stopped" /\ child = None
  /\ call = "idle" /\ victim = None
  /\ proc = [p \in Pids |-> "none"] /\ killed = {}

Alive(p)  == proc[p] \in {"booting", "serving"}
Listening == \E p \in Pids : proc[p] = "serving"
-----------------------------------------------------------------------------
(***************************************************************************)
(* start().  With status Running or Starting it returns Ok at once, and    *)
(* with no binary or profile directory it returns an error: neither        *)
(* changes anything.                                                       *)
(***************************************************************************)

MayStart == call = "idle" /\ status \in {"Stopped", "Error"}

\* The status is set before the spawn, and stays.
SpawnFails ==
  /\ MayStart
  /\ status' = "Starting"
  /\ UNCHANGED <<kind, child, call, victim, proc, killed>>

\* Mutant: without kill_on_drop.
SpawnKeepsOld ==
  /\ MayStart
  /\ \E p \in Pids :
       /\ proc[p] = "none"
       /\ proc' = [proc EXCEPT ![p] = "booting"]
       /\ child' = p
  /\ status' = "Starting"
  /\ call' = IF kind = "sleep" THEN "sleep" ELSE "ready"
  /\ UNCHANGED <<kind, victim, killed>>

\* A start after an error finds the child of the start before: its handle is
\* replaced once the new child runs, and kill_on_drop does the rest.
Spawn ==
  /\ MayStart
  /\ \E p \in Pids :
       /\ proc[p] = "none"
       /\ proc' = [proc EXCEPT ![p] = "booting"]
       /\ child' = p
  /\ killed' = killed \cup ({child} \ {None})
  /\ status' = "Starting"
  /\ call' = IF kind = "sleep" THEN "sleep" ELSE "ready"
  /\ UNCHANGED <<kind, victim>>

\* One probe finds the transport.  A connection is taken by whoever listens at
\* the address.  A datagram that was sent, from a socket that is not connected, is
\* never reported as refused: recv_from times out, which counts as found.
ProbeFinds ==
  /\ call = "ready"
  /\ kind = "datagram" \/ Listening
  /\ status' = "Running" /\ call' = "idle"
  /\ UNCHANGED <<kind, child, victim, proc, killed>>

\* Mutant: the deadline is never looked at.
ProbesForever ==
  /\ call = "ready"
  /\ UNCHANGED emulatorVars

\* The last probe before the deadline failed: nothing listened, or the probe had
\* no socket or could not send.  Something may listen by now.  The child is kept.
DeadlinePasses ==
  /\ call = "ready"
  /\ status' = "Error" /\ call' = "idle"
  /\ UNCHANGED <<kind, child, victim, proc, killed>>

DelayPasses ==
  /\ call = "sleep"
  /\ status' = "Running" /\ call' = "idle"
  /\ UNCHANGED <<kind, child, victim, proc, killed>>
-----------------------------------------------------------------------------
(***************************************************************************)
(* stop(), and the end of the emulator's scope.                            *)
(***************************************************************************)

StopNothing ==
  /\ call = "idle" /\ child = None
  /\ status' = "Stopped"
  /\ UNCHANGED <<kind, child, call, victim, proc, killed>>

\* Mutant: the handle is borrowed, not taken.
StopBorrows ==
  /\ call = "idle" /\ child # None
  /\ victim' = child
  /\ call' = "wait"
  /\ UNCHANGED <<kind, status, child, proc, killed>>

\* SIGTERM, which the process may or may not heed.
StopAsks ==
  /\ call = "idle" /\ child # None
  /\ victim' = child /\ child' = None
  /\ call' = "wait"
  /\ UNCHANGED <<kind, status, proc, killed>>

\* Mutant: the process had its time, and stop() returns.
GraceForgives ==
  /\ call = "wait"
  /\ status' = "Stopped" /\ call' = "idle" /\ victim' = None
  /\ UNCHANGED <<kind, child, proc, killed>>

\* Mutant: the handle is gone with the timeout that held it.
GraceConsumes ==
  /\ call = "wait"
  /\ killed' = killed \cup {victim}
  /\ call' = "kill" /\ victim' = None
  /\ UNCHANGED <<kind, status, child, proc>>

\* 3 s, or 2 s for the Trezor, are over.
GraceEnds ==
  /\ call = "wait"
  /\ killed' = killed \cup {victim}
  /\ call' = "kill"
  /\ UNCHANGED <<kind, status, child, victim, proc>>

\* wait() in stop() itself, or in kill(), has the exit status.
Reaped ==
  /\ call \in {"wait", "kill"} /\ proc[victim] = "dead"
  /\ status' = "Stopped" /\ call' = "idle" /\ victim' = None
  /\ UNCHANGED <<kind, child, proc, killed>>

DropEmulator ==
  /\ call = "idle"
  /\ call' = "dropped"
  /\ child' = None
  /\ killed' = killed \cup ({child} \ {None})
  /\ UNCHANGED <<kind, status, victim, proc>>
-----------------------------------------------------------------------------
(***************************************************************************)
(* The processes.                                                          *)
(***************************************************************************)

\* The address is bound, unless another process holds it: then the simulator
\* exits.
Boots(p) ==
  /\ proc[p] = "booting"
  /\ proc' = [proc EXCEPT ![p] = IF Listening THEN "dead" ELSE "serving"]
  /\ UNCHANGED <<kind, status, child, call, victim, killed>>

Quits(p) ==
  /\ Alive(p)
  /\ proc' = [proc EXCEPT ![p] = "dead"]
  /\ UNCHANGED <<kind, status, child, call, victim, killed>>

\* SIGKILL takes effect.
Dies(p) == p \in killed /\ Quits(p)
-----------------------------------------------------------------------------
StartReturns == ProbeFinds \/ DeadlinePasses \/ DelayPasses
StopReturns  == GraceEnds \/ Reaped

EmulatorNext ==
  \/ SpawnFails \/ Spawn \/ StartReturns
  \/ StopNothing \/ StopAsks \/ StopReturns
  \/ DropEmulator
  \/ \E p \in Pids : Boots(p) \/ Quits(p)

EmulatorSpec == EmulatorInit /\ [][EmulatorNext]_emulatorVars

\* Calls go on, their timers fire, and the kernel kills whom it was told to.
FairEmulatorSpec ==
  /\ EmulatorSpec
  /\ WF_emulatorVars(StartReturns) /\ WF_emulatorVars(StopReturns)
  /\ \A p \in Pids : WF_emulatorVars(Dies(p))
-----------------------------------------------------------------------------
(***************************************************************************)
(* Properties.                                                             *)
(***************************************************************************)

\* Every variable stays within its type, and each await has what it waits for.
EmulatorTypeOK ==
  /\ kind \in Kinds
  /\ status \in {"Stopped", "Starting", "Running", "Error"}
  /\ child \in Pids \cup {None}
  /\ call \in {"idle", "ready", "sleep", "wait", "kill", "dropped"}
  /\ IF call \in {"wait", "kill"} THEN victim \in Pids ELSE victim = None
  /\ proc \in [Pids -> {"none", "booting", "serving", "dead"}]
  /\ killed \in SUBSET Pids

\* No process is on the loose: of all that were spawned, only the child, or the
\* one that a stop waits for, lives without having been killed, whether starts
\* failed, timed out and were repeated, stops lost their patience, or the
\* emulator was dropped ("the OS will clean up even if stop() was never called").
NoStray == \A p \in Pids : Alive(p) /\ p \notin killed => p \in {child, victim}

\* "Process has not been started or has been stopped cleanly": an emulator that
\* says Stopped holds no process and waits for none; one that says Running, or
\* that timed out, has a child for the next stop to end.
StatusAgrees ==
  call = "idle" => /\ status = "Stopped" => child = None
                   /\ status \in {"Running", "Error"} => child # None

\* Every start and every stop returns, whatever the process does.
CallsReturn == call # "idle" ~> call \in {"idle", "dropped"}

\* A process whose handle the emulator has given up, in a stop, in a start over
\* it or by being dropped, ends.
GivenUpEnds ==
  \A p \in Pids : (proc[p] # "none" /\ p # child) ~> proc[p] = "dead"

\* "Process is running and the transport is reachable" (EmulatorStatus): when
\* an emulator that probes says Running, something listens.
RunningIsReachable ==
  [][status # "Running" /\ status' = "Running" => Listening]_emulatorVars
=============================================================================
