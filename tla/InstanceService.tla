-------------------------- MODULE InstanceService --------------------------
(***************************************************************************)
(* What the daemon's registry promises to the connection tasks that call   *)
(* it: a set of live instance ids on which every command takes effect      *)
(* atomically, at one point between the call and its answer.               *)
(*                                                                         *)
(* The promise is the one made by the registry's module comment            *)
(* ("serializes every state change") and by control's Request and Response *)
(* types.  Registry.tla, the task the code runs, implements it.            *)
(***************************************************************************)
EXTENDS Control

VARIABLES
  live,     \* the ids an observer may be told of
  phase,    \* where each caller stands: "idle", "called" or "performed"
  cmd,      \* the command of each caller that has one
  reply     \* the answer that awaits each caller, once performed

serviceVars == <<live, phase, cmd, reply>>

ServiceInit ==
  /\ live  = {}
  /\ phase = [c \in Callers |-> "idle"]
  /\ cmd   = [c \in Callers |-> NoCommand]
  /\ reply = [c \in Callers |-> NoReply]

Call(c) ==
  /\ phase[c] = "idle"
  /\ \E command \in Commands : cmd' = [cmd EXCEPT ![c] = command]
  /\ phase' = [phase EXCEPT ![c] = "called"]
  /\ UNCHANGED <<live, reply>>

\* The one point at which c's command takes effect and its answer is fixed.
Perform(c, ids, answer) ==
  /\ phase[c] = "called"
  /\ live'  = ids
  /\ phase' = [phase EXCEPT ![c] = "performed"]
  /\ reply' = [reply EXCEPT ![c] = answer]
  /\ UNCHANGED cmd

PerformRead(c) ==
  /\ cmd[c].op \in {"Lookup", "List"}
  /\ Perform(c, live, Snapshot(cmd[c], live))

PerformStart(c) ==
  /\ cmd[c].op = "Start"
  /\ \/ \E id \in Ids : Perform(c, live \cup {id}, [kind |-> "Started", ids |-> {id}])
     \/ \E code \in StartErrors : Perform(c, live, [kind |-> code, ids |-> {}])

\* A stop is idempotent: its answer does not tell whether there was an instance.
PerformStop(c) ==
  /\ cmd[c].op = "Stop"
  /\ Perform(c, live \ {cmd[c].id}, [kind |-> "Stopped", ids |-> {}])

PerformShutdown(c) ==
  /\ cmd[c].op = "Shutdown"
  /\ Perform(c, {}, [kind |-> "ShuttingDown", ids |-> {}])

Return(c) ==
  /\ phase[c] = "performed"
  /\ phase' = [phase EXCEPT ![c] = "idle"]
  /\ cmd'   = [cmd EXCEPT ![c] = NoCommand]
  /\ reply' = [reply EXCEPT ![c] = NoReply]
  /\ UNCHANGED live

ServiceNext ==
  \E c \in Callers :
    \/ Call(c)
    \/ PerformRead(c) \/ PerformStart(c) \/ PerformStop(c) \/ PerformShutdown(c)
    \/ Return(c)

ServiceSpec == ServiceInit /\ [][ServiceNext]_serviceVars
=============================================================================
