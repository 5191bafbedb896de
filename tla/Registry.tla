------------------------------ MODULE Registry ------------------------------
(***************************************************************************)
(* The registry actor of the hwwctl daemon (daemon/registry.rs) with the   *)
(* start sequence it runs (daemon/spawn.rs): one task owns the map of      *)
(* instances and serves, one at a time, the commands that other tasks put  *)
(* on a bounded channel.                                                   *)
(*                                                                         *)
(* An action is a stretch of the task between two awaits.  While the task  *)
(* awaits inside a command, simulators may exit and the threads that own   *)
(* the UHID devices may end, but no other command is looked at.            *)
(*                                                                         *)
(* A rig is what one start acquires from the operating system: a simulator *)
(* process and, later, the virtual HID device of the bridge to it.         *)
(***************************************************************************)
EXTENDS Control, Naturals, Sequences, FiniteSets

CONSTANTS
  Rigs,        \* the rigs that may ever be acquired (bounds the starts)
  ChannelCap   \* capacity of the command channel (64 in the code)

ASSUME RegistryAssumption ==
  /\ ChannelCap \in Nat \ {0}
  /\ None \notin Callers
  /\ None \notin Ids
  /\ None \notin Rigs

VARIABLES
  pc,         \* each caller: "idle", "sending", "awaiting" or "answered"
  cmd,        \* the command of each caller that has one
  reply,      \* its oneshot reply slot
  queue,      \* the callers whose commands wait in the channel
  instances,  \* the rig of each registered id, or None
  step,       \* the await the registry task is at
  who,        \* the caller it serves
  rig,        \* the rig it holds outside the map
  newId,      \* the id allocated by the start it serves
  failure,    \* the error a rollback will answer
  todo,       \* the ids that a drain has yet to stop
  emu,        \* the simulator process of each rig
  uhid        \* the virtual HID device of each rig

callerVars == <<pc, cmd, reply>>
taskVars   == <<step, who, rig, newId, failure, todo>>
vars == <<callerVars, queue, instances, taskVars, emu, uhid>>

Registered == {i \in Ids : instances[i] # None}

\* An id that no start has allocated, an await that is none: the task is idle.
Idle ==
  /\ step' = "recv" /\ who' = None /\ rig' = None
  /\ newId' = None /\ failure' = "None" /\ todo' = {}

Answer(c, answer) ==
  /\ pc'    = [pc EXCEPT ![c] = "answered"]
  /\ reply' = [reply EXCEPT ![c] = answer]
  /\ UNCHANGED cmd

Init ==
  /\ pc        = [c \in Callers |-> "idle"]
  /\ cmd       = [c \in Callers |-> NoCommand]
  /\ reply     = [c \in Callers |-> NoReply]
  /\ queue     = <<>>
  /\ instances = [i \in Ids |-> None]
  /\ step = "recv" /\ who = None /\ rig = None
  /\ newId = None /\ failure = "None" /\ todo = {}
  /\ emu  = [r \in Rigs |-> "none"]
  /\ uhid = [r \in Rigs |-> "none"]
-----------------------------------------------------------------------------
(***************************************************************************)
(* The callers.                                                            *)
(***************************************************************************)

\* A task calls a method of its handle; send() waits for room in the channel.
Send(c, command) ==
  /\ pc[c] = "idle"
  /\ pc'  = [pc EXCEPT ![c] = "sending"]
  /\ cmd' = [cmd EXCEPT ![c] = command]
  /\ UNCHANGED <<reply, queue, instances, taskVars, emu, uhid>>

\* Mutant: a channel without a capacity.
EnqueueUnbounded(c) ==
  /\ pc[c] = "sending"
  /\ pc'    = [pc EXCEPT ![c] = "awaiting"]
  /\ queue' = Append(queue, c)
  /\ UNCHANGED <<cmd, reply, instances, taskVars, emu, uhid>>

\* The channel takes the command; the caller now awaits its oneshot.
Enqueue(c) ==
  /\ pc[c] = "sending"
  /\ Len(queue) < ChannelCap
  /\ pc'    = [pc EXCEPT ![c] = "awaiting"]
  /\ queue' = Append(queue, c)
  /\ UNCHANGED <<cmd, reply, instances, taskVars, emu, uhid>>

\* The caller takes the answer.
TakeReply(c) ==
  /\ pc[c] = "answered"
  /\ pc'    = [pc EXCEPT ![c] = "idle"]
  /\ cmd'   = [cmd EXCEPT ![c] = NoCommand]
  /\ reply' = [reply EXCEPT ![c] = NoReply]
  /\ UNCHANGED <<queue, instances, taskVars, emu, uhid>>
-----------------------------------------------------------------------------
(***************************************************************************)
(* The registry task: commands answered without an await.                  *)
(***************************************************************************)

\* Mutant: the command is looked at but stays in the channel.
ReceivePeek(c) ==
  /\ step = "recv"
  /\ queue # <<>>
  /\ c = Head(queue)
  /\ queue' = queue

\* rx.recv() yields the command of caller c.
Receive(c) ==
  /\ step = "recv"
  /\ queue # <<>>
  /\ c = Head(queue)
  /\ queue' = Tail(queue)

\* Status, Logs and BridgeStats look the id up; Status without one lists all.
Read(c) ==
  /\ Receive(c)
  /\ cmd[c].op \in {"Lookup", "List"}
  /\ Answer(c, Snapshot(cmd[c], Registered))
  /\ UNCHANGED <<instances, taskVars, emu, uhid>>

\* The checks and allocations before the simulator is spawned, or the spawn
\* itself, fail: nothing is held yet.
RejectStart(c) ==
  /\ Receive(c)
  /\ cmd[c].op = "Start"
  /\ \E code \in StartErrors \ {"BridgeFailed"} :
       Answer(c, [kind |-> code, ids |-> {}])
  /\ UNCHANGED <<instances, taskVars, emu, uhid>>

\* Mutant: stop refuses an id it does not know, as ErrorCode's comment suggests.
StopUnknownRefused(c) ==
  /\ Receive(c)
  /\ cmd[c].op = "Stop"
  /\ instances[cmd[c].id] = None
  /\ Answer(c, [kind |-> "InstanceNotFound", ids |-> {}])
  /\ UNCHANGED <<instances, taskVars, emu, uhid>>

\* Stopping an id that is not in the map is no error.  The comments at stop_instance
\* and at Request::Stop agree; those at ErrorCode and in the table of codes list
\* stop among the commands that answer InstanceNotFound, which this one never does.
StopUnknown(c) ==
  /\ Receive(c)
  /\ cmd[c].op = "Stop"
  /\ instances[cmd[c].id] = None
  /\ Answer(c, [kind |-> "Stopped", ids |-> {}])
  /\ UNCHANGED <<instances, taskVars, emu, uhid>>

\* Mutant: the task leaves its loop after a shutdown.
ShutdownLeavesLoop(c) ==
  /\ Receive(c)
  /\ cmd[c].op = "Shutdown"
  /\ Registered = {}
  /\ Answer(c, [kind |-> "ShuttingDown", ids |-> {}])
  /\ step' = "gone"
  /\ UNCHANGED <<instances, who, rig, newId, failure, todo, emu, uhid>>

\* A shutdown that finds no instance.
ShutdownEmpty(c) ==
  /\ Receive(c)
  /\ cmd[c].op = "Shutdown"
  /\ Registered = {}
  /\ Answer(c, [kind |-> "ShuttingDown", ids |-> {}])
  /\ UNCHANGED <<instances, taskVars, emu, uhid>>
-----------------------------------------------------------------------------
(***************************************************************************)
(* The registry task: start_bitbox02.                                      *)
(***************************************************************************)

\* Up to the sleep of the skip-probe delay: the simulator runs.  The 24-bit id
\* suffix is not compared with the ids in use, so any id may come out.
SpawnSimulator(c) ==
  /\ Receive(c)
  /\ cmd[c].op = "Start"
  /\ \E r \in Rigs, i \in Ids :
       /\ emu[r] = "none"
       /\ emu'   = [emu EXCEPT ![r] = "running"]
       /\ rig'   = r
       /\ newId' = i
  /\ step' = "seed" /\ who' = c
  /\ UNCHANGED <<callerVars, instances, failure, todo, uhid>>

\* The wallet restored its seed over TCP.
Seeded ==
  /\ step = "seed"
  /\ emu[rig] = "running"
  /\ step' = "attach"
  /\ UNCHANGED <<callerVars, queue, instances, who, rig, newId, failure, todo, emu, uhid>>

\* Seeding failed, or it answered with the built-in seed's fingerprint although
\* another mnemonic was asked for: the simulator is to be stopped.
SeedFails ==
  /\ step = "seed"
  /\ \/ failure' = "Internal"
     \/ emu[rig] = "running" /\ failure' = "BundleMissing"
  /\ step' = "rollback"
  /\ UNCHANGED <<callerVars, queue, instances, who, rig, newId, todo, emu, uhid>>

\* The UHID device exists and the simulator accepted the bridge.
BridgeUp ==
  /\ step = "attach"
  /\ emu[rig] = "running"
  /\ uhid' = [uhid EXCEPT ![rig] = "open"]
  /\ step' = "settle"
  /\ UNCHANGED <<callerVars, queue, instances, who, rig, newId, failure, todo, emu>>

\* Either no device could be created, or the TCP connection failed after it
\* was; the bridge object, and so the device, lives until the start returns.
BridgeFails ==
  /\ step = "attach"
  /\ \/ UNCHANGED uhid
     \/ uhid' = [uhid EXCEPT ![rig] = "open"]
  /\ failure' = "BridgeFailed"
  /\ step' = "rollback"
  /\ UNCHANGED <<callerVars, queue, instances, who, rig, newId, todo, emu>>

\* Mutant: the thread is not told.
ClosingUntold(r) == uhid[r]

\* A bridge that is dropped or stopped closes the channels to its thread.
Closing(r) == IF uhid[r] = "open" THEN "closing" ELSE uhid[r]

\* Mutants: an error path without emu.stop(); one that also cleans the map.
RollbackKeepsSimulator ==
  /\ step = "rollback"
  /\ uhid' = [uhid EXCEPT ![rig] = Closing(rig)]
  /\ Answer(who, [kind |-> failure, ids |-> {}])
  /\ Idle
  /\ UNCHANGED <<queue, instances, emu>>

RollbackCleansMap ==
  /\ step = "rollback"
  /\ emu'  = [emu EXCEPT ![rig] = "exited"]
  /\ uhid' = [uhid EXCEPT ![rig] = Closing(rig)]
  /\ instances' = [instances EXCEPT ![newId] = None]
  /\ Answer(who, [kind |-> failure, ids |-> {}])
  /\ Idle
  /\ UNCHANGED queue

\* After emu.stop() has waited for the process, or killed it, the start returns.
Rollback ==
  /\ step = "rollback"
  /\ emu'  = [emu EXCEPT ![rig] = "exited"]
  /\ uhid' = [uhid EXCEPT ![rig] = Closing(rig)]
  /\ Answer(who, [kind |-> failure, ids |-> {}])
  /\ Idle
  /\ UNCHANGED <<queue, instances>>

\* hidraw discovery is over, with or without a path.  Inserting under an id in
\* use drops the instance that had it: its child is killed, its bridge closes.
Publish ==
  LET old == instances[newId] IN
  /\ step = "settle"
  /\ instances' = [instances EXCEPT ![newId] = rig]
  /\ emu'  = [r \in Rigs |-> IF r = old THEN "exited" ELSE emu[r]]
  /\ uhid' = [r \in Rigs |-> IF r = old THEN Closing(r) ELSE uhid[r]]
  /\ Answer(who, [kind |-> "Started", ids |-> {newId}])
  /\ Idle
  /\ UNCHANGED queue
-----------------------------------------------------------------------------
(***************************************************************************)
(* The registry task: stop_instance, alone or for each id of a drain.      *)
(***************************************************************************)

\* Mutant: get() in place of remove().
DetachKeepsEntry(i) ==
  /\ UNCHANGED instances
  /\ rig'  = instances[i]
  /\ uhid' = [uhid EXCEPT ![instances[i]] = Closing(instances[i])]
  /\ step' = "kill"

\* Out of the map first, then bridge.stop(), which awaits 200 ms.
Detach(i) ==
  /\ instances' = [instances EXCEPT ![i] = None]
  /\ rig'  = instances[i]
  /\ uhid' = [uhid EXCEPT ![instances[i]] = Closing(instances[i])]
  /\ step' = "kill"

StopKnown(c) ==
  /\ Receive(c)
  /\ cmd[c].op = "Stop"
  /\ instances[cmd[c].id] # None
  /\ Detach(cmd[c].id)
  /\ who' = c
  /\ UNCHANGED <<callerVars, newId, failure, todo, emu>>

BeginDrain(c) ==
  /\ Receive(c)
  /\ cmd[c].op = "Shutdown"
  /\ Registered # {}
  /\ todo' = Registered
  /\ step' = "drain" /\ who' = c
  /\ UNCHANGED <<callerVars, instances, rig, newId, failure, emu, uhid>>

DrainNext ==
  /\ step = "drain"
  /\ \E i \in todo : Detach(i) /\ todo' = todo \ {i}
  /\ UNCHANGED <<callerVars, queue, who, newId, failure, emu>>

StopAnswer(c) == [kind |-> IF cmd[c].op = "Stop" THEN "Stopped" ELSE "ShuttingDown",
                  ids  |-> {}]

\* Mutant: the drain ends with its first instance.
KillEmulatorOnce ==
  /\ step = "kill"
  /\ emu' = [emu EXCEPT ![rig] = "exited"]
  /\ Answer(who, StopAnswer(who))
  /\ Idle
  /\ UNCHANGED <<queue, instances, uhid>>

\* emulator.stop(): SIGTERM, up to 3 s, then SIGKILL.
KillEmulator ==
  /\ step = "kill"
  /\ emu' = [emu EXCEPT ![rig] = "exited"]
  /\ IF todo # {}
     THEN /\ step' = "drain" /\ rig' = None
          /\ UNCHANGED <<callerVars, who, newId, failure, todo>>
     ELSE /\ Answer(who, StopAnswer(who))
          /\ Idle
  /\ UNCHANGED <<queue, instances, uhid>>
-----------------------------------------------------------------------------
(***************************************************************************)
(* The operating system.                                                   *)
(***************************************************************************)

\* A simulator crashes or quits; nothing in the daemon watches it.
SimulatorExits(r) ==
  /\ emu[r] = "running"
  /\ emu' = [emu EXCEPT ![r] = "exited"]
  /\ UNCHANGED <<callerVars, queue, instances, taskVars, uhid>>

\* The UHID thread sees its channel closed and destroys the device.
UhidThreadEnds(r) ==
  /\ uhid[r] = "closing"
  /\ uhid' = [uhid EXCEPT ![r] = "closed"]
  /\ UNCHANGED <<callerVars, queue, instances, taskVars, emu>>

\* The UHID thread gives up on an I/O error; the device goes with it.
UhidThreadFails(r) ==
  /\ uhid[r] = "open"
  /\ uhid' = [uhid EXCEPT ![r] = "closed"]
  /\ UNCHANGED <<callerVars, queue, instances, taskVars, emu>>
-----------------------------------------------------------------------------
Serve(c) ==
  \/ Read(c) \/ RejectStart(c) \/ SpawnSimulator(c)
  \/ StopUnknown(c) \/ StopKnown(c)
  \/ ShutdownEmpty(c) \/ BeginDrain(c)

Task ==
  \/ \E c \in Callers : Serve(c)
  \/ Seeded \/ SeedFails \/ BridgeUp \/ BridgeFails \/ Rollback \/ Publish
  \/ DrainNext \/ KillEmulator

System == \E r \in Rigs : SimulatorExits(r) \/ UhidThreadEnds(r) \/ UhidThreadFails(r)

Client(c) ==
  \/ \E command \in Commands : Send(c, command)
  \/ Enqueue(c)
  \/ TakeReply(c)

Next == Task \/ System \/ \E c \in Callers : Client(c)

Spec == Init /\ [][Next]_vars

\* The scheduler runs every ready task; emu.stop() and bridge.start() return.
\* A sender waits its turn for a free slot (tokio's channel is first come,
\* first served), hence strong fairness.  Seeding ends: the simulator answers
\* or drops the connection.
TaskFairness ==
  /\ \A c \in Callers : WF_vars(Serve(c)) /\ SF_vars(Enqueue(c))
  /\ WF_vars(BridgeUp \/ BridgeFails) /\ WF_vars(Rollback) /\ WF_vars(Publish)
  /\ WF_vars(DrainNext) /\ WF_vars(KillEmulator)
  /\ \A r \in Rigs : WF_vars(UhidThreadEnds(r))
SeedFairness == WF_vars(Seeded \/ SeedFails)

FairSpec == Spec /\ TaskFairness /\ SeedFairness
-----------------------------------------------------------------------------
(***************************************************************************)
(* Properties.                                                             *)
(***************************************************************************)

Steps == {"recv", "seed", "attach", "settle", "rollback", "drain", "kill"}

\* Every variable stays within its type, and the channel within its capacity.
TypeOK ==
  /\ pc    \in [Callers -> {"idle", "sending", "awaiting", "answered"}]
  /\ cmd   \in [Callers -> Commands \cup {NoCommand}]
  /\ reply \in [Callers -> Replies \cup {NoReply}]
  /\ queue \in Seq(Callers) /\ Len(queue) <= ChannelCap
  /\ instances \in [Ids -> Rigs \cup {None}]
  /\ step \in Steps
  /\ who \in Callers \cup {None}
  /\ rig \in Rigs \cup {None}
  /\ newId \in Ids \cup {None}
  /\ failure \in StartErrors \cup {"None"}
  /\ todo \in SUBSET Ids
  /\ emu  \in [Rigs -> {"none", "running", "exited"}]
  /\ uhid \in [Rigs -> {"none", "open", "closing", "closed"}]

\* The rigs someone is responsible for: those in the map, and the one in the
\* hands of the command being served.
Held == {instances[i] : i \in Registered} \cup ({rig} \ {None})

\* No simulator runs and no virtual device is open that the registry has lost
\* track of: each rollback of start_bitbox02, each stop, the drain and the
\* replacement of an instance under a colliding id let go of everything.
NoLeak ==
  \A r \in Rigs : emu[r] = "running" \/ uhid[r] = "open" => r \in Held

\* Two ids never name the same rig, and the rig being started or stopped is
\* under no id: "owned exclusively by the registry task - never aliased".
OneOwner ==
  /\ \A i, j \in Registered : instances[i] = instances[j] => i = j
  /\ \A i \in Registered : instances[i] # rig

\* A caller awaits its oneshot exactly while its command is in the channel,
\* once, or is the one being served: no command is lost or served twice, and
\* no answer goes to a caller that does not expect one.
CommandsTracked ==
  /\ \A k, l \in DOMAIN queue : queue[k] = queue[l] => k = l
  /\ \A k \in DOMAIN queue : queue[k] # who
  /\ \A c \in Callers :
       pc[c] = "awaiting" <=> c = who \/ \E k \in DOMAIN queue : queue[k] = c

\* The instance under an id is taken from it in one of two ways only: by a stop
\* that names the id or a shutdown, for the caller being served; or by a start
\* that drew an id in use (spawn.rs compares none), whose instance takes the
\* place of the other one and whose caller is told so.  In the second way the
\* client that had the instance loses it to a command that is none of its own.
TakenByCommand ==
  [][\A i \in Registered : instances'[i] # instances[i] =>
       \/ /\ instances'[i] = None
          /\ \E c \in Callers :
               c = who' /\ (cmd[c] = [op |-> "Stop", id |-> i] \/ cmd[c].op = "Shutdown")
       \/ \E c \in Callers :
            /\ c = who /\ cmd[c].op = "Start"
            /\ instances'[i] = rig
            /\ reply'[c] = [kind |-> "Started", ids |-> {i}]]_vars

\* When a shutdown is answered, nothing is left of any start before it: the
\* answer is not given before the last simulator is dead and the last device
\* told to go, whatever crashed, failed or was replaced on the way.
ShutdownDrains ==
  [][\A c \in Callers :
        pc[c] = "awaiting" /\ pc'[c] = "answered" /\ reply'[c].kind = "ShuttingDown"
        => \A r \in Rigs : emu'[r] # "running" /\ uhid'[r] # "open"]_vars

\* The registry implements the atomic instance service.  A read takes effect
\* when it is served, a start when the instance enters the map, a stop when it
\* leaves it, and a shutdown when its drain begins: whatever is observed while
\* the drain runs is observed by nobody.  A stop of an id nobody has is answered
\* as any other, never InstanceNotFound: the idempotent of the two readings that
\* the repository documents.
Drains(c) == c = who /\ step \in {"drain", "kill"}

liveBar  == Registered \ todo
phaseBar == [c \in Callers |-> IF pc[c] = "idle" THEN "idle"
                              ELSE IF pc[c] = "answered" \/ Drains(c) THEN "performed"
                              ELSE "called"]
replyBar == [c \in Callers |-> IF Drains(c) THEN StopAnswer(c) ELSE reply[c]]

Service == INSTANCE InstanceService WITH
             live <- liveBar, phase <- phaseBar, reply <- replyBar

Linearizable == Service!ServiceSpec

\* Every command that is sent is answered, however many starts, stops and
\* shutdowns stand before it and whichever of their steps fail.
EveryCommandAnswered ==
  \A c \in Callers : pc[c] \in {"sending", "awaiting"} ~> pc[c] = "answered"

\* A device that the registry has let go of disappears from the host.
DevicesDisappear ==
  \A r \in Rigs : (uhid[r] # "none" /\ r \notin Held) ~> uhid[r] = "closed"
=============================================================================
