--------------------------- MODULE RegistryProofs ---------------------------
(***************************************************************************)
(* Theorems about the registry for any callers, ids and rigs and any       *)
(* channel capacity.  The inductive invariant says where the registry task *)
(* stands in the command it serves and what it holds there.                *)
(***************************************************************************)
EXTENDS Registry, TLAPS

Starting == step \in {"seed", "attach", "settle", "rollback"}

\* The local variables of the task, at each of its awaits.
TaskOK ==
  /\ step = "recv" => who = None /\ rig = None /\ todo = {}
  /\ step # "recv" => who \in Callers
  /\ Starting => /\ rig \in Rigs /\ newId \in Ids /\ todo = {}
                 /\ cmd[who].op = "Start"
  /\ step = "rollback" => failure \in StartErrors
  /\ step = "drain" => /\ rig = None /\ todo # {}
                       /\ cmd[who].op = "Shutdown"
  /\ step = "kill" => /\ rig \in Rigs /\ uhid[rig] # "open"
                      /\ \/ cmd[who].op = "Shutdown"
                         \/ cmd[who].op = "Stop" /\ todo = {}
  /\ step \in {"drain", "kill"} /\ cmd[who].op = "Shutdown" => todo = Registered

\* A caller has a command from the call to the return.
CallersOK ==
  \A c \in Callers : IF pc[c] = "idle" THEN cmd[c] = NoCommand ELSE cmd[c] \in Commands

\* Whatever is held was spawned, so a start never takes a rig that is in use.
HeldSpawned == \A r \in Rigs : r \in Held => emu[r] # "none"

RigsOK == HeldSpawned /\ OneOwner /\ NoLeak

IInv ==
  /\ TypeOK
  /\ TaskOK
  /\ CallersOK
  /\ CommandsTracked
  /\ RigsOK
-----------------------------------------------------------------------------
\* What receiving does to the channel: the head leaves, the rest moves up.
LEMMA ReceiveQueue ==
  ASSUME TypeOK, NEW c \in Callers, Receive(c)
  PROVE  /\ queue' \in Seq(Callers)
         /\ Len(queue') = Len(queue) - 1
         /\ Len(queue) > 0
         /\ c = queue[1]
         /\ \A k \in 1..Len(queue') : queue'[k] = queue[k + 1]
  BY DEF TypeOK, Receive

\* A command that is received names what its operation needs.
LEMMA ReceiveCommand ==
  ASSUME TypeOK, TaskOK, CallersOK, CommandsTracked, NEW c \in Callers, Receive(c)
  PROVE  /\ pc[c] = "awaiting"
         /\ cmd[c] \in Commands
         /\ cmd[c].op \in Targeted => cmd[c].id \in Ids
<1>1. 1 \in DOMAIN queue /\ queue[1] = c
  BY ReceiveQueue DEF TypeOK
<1>2. pc[c] = "awaiting"
  BY <1>1 DEF CommandsTracked
<1>3. cmd[c] \in Commands
  BY <1>2 DEF CallersOK
<1> QED
  BY <1>2, <1>3 DEF Commands, Targeted, Untargeted

\* The answer to a read is a reply.
LEMMA SnapshotType ==
  ASSUME NEW command \in Commands, NEW ids \in SUBSET Ids
  PROVE  Snapshot(command, ids) \in Replies
  BY DEF Snapshot, Replies, Commands, Targeted, Untargeted

\* The initial states.
LEMMA InitIInv == Init => IInv
<1> SUFFICES ASSUME Init PROVE IInv
  OBVIOUS
<1> USE RegistryAssumption DEF Init
<1>1. TypeOK
  BY DEF TypeOK, Steps
<1>2. TaskOK /\ CallersOK
  BY DEF TaskOK, Starting, CallersOK
<1>3. CommandsTracked
  BY DEF CommandsTracked
<1>4. HeldSpawned /\ OneOwner /\ NoLeak
  BY DEF HeldSpawned, OneOwner, NoLeak, Held, Registered
<1> QED
  BY <1>1, <1>2, <1>3, <1>4 DEF IInv, RigsOK
-----------------------------------------------------------------------------
\* Every action keeps the types.
LEMMA TypeStep ==
  ASSUME TypeOK, TaskOK, CallersOK, CommandsTracked, [Next]_vars
  PROVE  TypeOK'
<1> USE RegistryAssumption DEF TypeOK, Steps
<1>1. ASSUME NEW c \in Callers, Serve(c)
      PROVE  TypeOK'
  <2>1. Receive(c) => queue' \in Seq(Callers) /\ Len(queue') <= ChannelCap
    BY ReceiveQueue
  <2>2. CASE Read(c)
    <3>1. Snapshot(cmd[c], Registered) \in Replies
      BY <2>2, ReceiveCommand, SnapshotType DEF Read, Registered
    <3> QED
      BY <2>1, <2>2, <3>1 DEF Read, Answer, taskVars
  <2>3. CASE RejectStart(c)
    <3>1. \A code \in StartErrors : [kind |-> code, ids |-> {}] \in Replies
      BY DEF Replies
    <3> QED
      BY <2>1, <2>3, <3>1 DEF RejectStart, Answer, taskVars
  <2>4. CASE SpawnSimulator(c)
    BY <2>1, <2>4 DEF SpawnSimulator, callerVars
  <2>5. CASE StopUnknown(c)
    BY <2>1, <2>5 DEF StopUnknown, Answer, taskVars, Replies
  <2>6. CASE StopKnown(c)
    <3>1. cmd[c].id \in Ids
      BY <2>6, ReceiveCommand DEF StopKnown, Targeted
    <3>2. instances[cmd[c].id] \in Rigs
      BY <2>6, <3>1 DEF StopKnown
    <3> QED
      BY <2>1, <2>6, <3>1, <3>2 DEF StopKnown, Detach, Closing, callerVars
  <2>7. CASE ShutdownEmpty(c)
    BY <2>1, <2>7 DEF ShutdownEmpty, Answer, taskVars, Replies
  <2>8. CASE BeginDrain(c)
    BY <2>1, <2>8 DEF BeginDrain, callerVars, Registered
  <2> QED
    BY <1>1, <2>2, <2>3, <2>4, <2>5, <2>6, <2>7, <2>8 DEF Serve
<1>2. CASE Seeded
  BY <1>2 DEF Seeded, callerVars
<1>3. CASE SeedFails
  BY <1>3 DEF SeedFails, callerVars, StartErrors
<1>4. CASE BridgeUp
  BY <1>4 DEF BridgeUp, callerVars
<1>5. CASE BridgeFails
  BY <1>5 DEF BridgeFails, callerVars, StartErrors
<1>6. CASE Rollback
  <2>1. [kind |-> failure, ids |-> {}] \in Replies
    BY <1>6 DEF Rollback, TaskOK, Replies
  <2> QED
    BY <1>6, <2>1 DEF Rollback, Answer, Idle, Closing
<1>7. CASE Publish
  <2>1. rig \in Rigs /\ newId \in Ids
    BY <1>7 DEF Publish, TaskOK, Starting
  <2>2. [kind |-> "Started", ids |-> {newId}] \in Replies
    BY <2>1 DEF Replies
  <2> QED
    BY <1>7, <2>1, <2>2 DEF Publish, Answer, Idle, Closing
<1>8. CASE DrainNext
  <2>1. \A i \in todo : instances[i] \in Rigs
    BY <1>8 DEF DrainNext, TaskOK, Registered
  <2> QED
    BY <1>8, <2>1 DEF DrainNext, Detach, Closing, callerVars
<1>9. CASE KillEmulator
  <2>1. \A kind \in {"Stopped", "ShuttingDown"} : [kind |-> kind, ids |-> {}] \in Replies
    BY DEF Replies
  <2>2. CASE todo # {}
    BY <1>9, <2>2 DEF KillEmulator, callerVars
  <2>3. CASE todo = {}
    <3>1. PICK answer \in Replies : Answer(who, answer)
      BY <1>9, <2>1, <2>3, Zenon DEF KillEmulator, StopAnswer
    <3> QED
      BY <1>9, <2>3, <3>1 DEF KillEmulator, Answer, Idle
  <2> QED
    BY <2>2, <2>3
<1>10. CASE System
  BY <1>10 DEF System, SimulatorExits, UhidThreadEnds, UhidThreadFails, callerVars, taskVars
<1>11. ASSUME NEW c \in Callers, Client(c)
       PROVE  TypeOK'
  <2>1. CASE \E command \in Commands : Send(c, command)
    BY <2>1 DEF Send, taskVars
  <2>2. CASE Enqueue(c)
    BY <2>2 DEF Enqueue, taskVars
  <2>3. CASE TakeReply(c)
    BY <2>3 DEF TakeReply, taskVars
  <2> QED
    BY <1>11, <2>1, <2>2, <2>3 DEF Client
<1>12. CASE UNCHANGED vars
  BY <1>12 DEF vars, callerVars, taskVars
<1> QED
  BY <1>1, <1>2, <1>3, <1>4, <1>5, <1>6, <1>7, <1>8, <1>9, <1>10, <1>11, <1>12
     DEF Next, Task
-----------------------------------------------------------------------------
\* A command is given with the call and forgotten with the return.
LEMMA CallersStep ==
  ASSUME TypeOK, TaskOK, CallersOK, CommandsTracked, [Next]_vars
  PROVE  CallersOK'
<1> USE RegistryAssumption DEF CallersOK
<1>1. ASSUME NEW c \in Callers, NEW answer, Answer(c, answer), pc[c] = "awaiting"
      PROVE  CallersOK'
  BY <1>1 DEF Answer, TypeOK
<1>2. CASE UNCHANGED <<pc, cmd>>
  BY <1>2
<1>3. ASSUME NEW c \in Callers, Serve(c)
      PROVE  CallersOK'
  <2>1. Receive(c) => pc[c] = "awaiting"
    BY ReceiveCommand
  <2> QED
    BY <1>1, <1>2, <1>3, <2>1
       DEF Serve, Read, RejectStart, SpawnSimulator, StopUnknown, StopKnown,
           ShutdownEmpty, BeginDrain, callerVars
<1>4. step # "recv" => who \in Callers /\ pc[who] = "awaiting"
  BY DEF TaskOK, CommandsTracked
<1>5. CASE Rollback \/ Publish \/ KillEmulator
  BY <1>1, <1>2, <1>4, <1>5 DEF Rollback, Publish, KillEmulator, callerVars
<1>6. CASE Seeded \/ SeedFails \/ BridgeUp \/ BridgeFails \/ DrainNext
  BY <1>2, <1>6 DEF Seeded, SeedFails, BridgeUp, BridgeFails, DrainNext, callerVars
<1>7. CASE System
  BY <1>2, <1>7 DEF System, SimulatorExits, UhidThreadEnds, UhidThreadFails, callerVars
<1>8. ASSUME NEW c \in Callers, Client(c)
      PROVE  CallersOK'
  BY <1>8 DEF Client, Send, Enqueue, TakeReply, TypeOK
<1>9. CASE UNCHANGED vars
  BY <1>2, <1>9 DEF vars, callerVars
<1> QED
  BY <1>3, <1>5, <1>6, <1>7, <1>8, <1>9 DEF Next, Task

\* The locals of the task are right at its next await.
LEMMA TaskStep ==
  ASSUME TypeOK, TaskOK, CallersOK, CommandsTracked, OneOwner, [Next]_vars
  PROVE  TaskOK'
<1> USE RegistryAssumption DEF TaskOK, Starting
<1>1. CASE Idle
  BY <1>1 DEF Idle
<1>2. ASSUME UNCHANGED <<taskVars, instances, cmd>>,
             \A r \in Rigs : uhid'[r] = "open" => uhid[r] = "open"
      PROVE  TaskOK'
  BY <1>2 DEF taskVars, Registered
<1>3. ASSUME NEW c \in Callers, Serve(c)
      PROVE  TaskOK'
  <2>1. CASE Read(c) \/ RejectStart(c) \/ StopUnknown(c) \/ ShutdownEmpty(c)
    BY <1>2, <2>1 DEF Read, RejectStart, StopUnknown, ShutdownEmpty, Answer
  <2>2. CASE SpawnSimulator(c)
    BY <2>2 DEF SpawnSimulator, Receive, callerVars
  <2>3. CASE StopKnown(c)
    <3>1. instances[cmd[c].id] \in Rigs
      BY <2>3, ReceiveCommand DEF StopKnown, Targeted, TypeOK
    <3> QED
      BY <2>3, <3>1 DEF StopKnown, Receive, Detach, Closing, callerVars, TypeOK
  <2>4. CASE BeginDrain(c)
    BY <2>4 DEF BeginDrain, Receive, callerVars, Registered
  <2> QED
    BY <1>3, <2>1, <2>2, <2>3, <2>4 DEF Serve
<1>4. CASE Rollback \/ Publish
  BY <1>1, <1>4 DEF Rollback, Publish
<1>5. CASE KillEmulator
  <2>1. CASE todo # {}
    BY <1>5, <2>1 DEF KillEmulator, callerVars, Registered
  <2>2. CASE todo = {}
    BY <1>1, <1>5, <2>2 DEF KillEmulator
  <2> QED
    BY <2>1, <2>2
<1>6. CASE Seeded \/ SeedFails \/ BridgeUp \/ BridgeFails
  BY <1>6 DEF Seeded, SeedFails, BridgeUp, BridgeFails, callerVars, StartErrors
<1>7. CASE DrainNext
  <2>1. PICK i \in todo : Detach(i) /\ todo' = todo \ {i}
    BY <1>7 DEF DrainNext
  <2>2. i \in Ids /\ instances[i] \in Rigs
    BY <1>7, <2>1 DEF DrainNext, Registered, TypeOK
  <2>3. Registered' = Registered \ {i}
    BY <2>1, <2>2 DEF Detach, Registered, TypeOK
  <2> QED
    BY <1>7, <2>1, <2>2, <2>3 DEF DrainNext, Detach, Closing, callerVars, TypeOK
<1>8. CASE System
  BY <1>2, <1>8 DEF System, SimulatorExits, UhidThreadEnds, UhidThreadFails, callerVars, TypeOK
<1>9. ASSUME NEW c \in Callers, Client(c)
      PROVE  TaskOK'
  <2>1. UNCHANGED <<taskVars, instances, uhid>>
    BY <1>9 DEF Client, Send, Enqueue, TakeReply
  <2>2. step # "recv" => cmd'[who] = cmd[who]
    BY <1>9 DEF Client, Send, Enqueue, TakeReply, CommandsTracked, TypeOK
  <2> QED
    BY <2>1, <2>2 DEF taskVars, Registered
<1>10. CASE UNCHANGED vars
  BY <1>2, <1>10 DEF vars, callerVars
<1> QED
  BY <1>3, <1>4, <1>5, <1>6, <1>7, <1>8, <1>9, <1>10 DEF Next, Task
-----------------------------------------------------------------------------
\* The channel, the served command and the awaiting callers stay in step.
LEMMA TrackedStep ==
  ASSUME TypeOK, TaskOK, CallersOK, CommandsTracked, [Next]_vars
  PROVE  CommandsTracked'
<1> USE RegistryAssumption DEF CommandsTracked
\* The head of the channel becomes the served caller, or is answered at once.
<1>1. ASSUME NEW c \in Callers, Serve(c)
      PROVE  CommandsTracked'
  <2>1. Receive(c) /\ who = None
    BY <1>1 DEF Serve, Read, RejectStart, SpawnSimulator, StopUnknown, StopKnown,
                ShutdownEmpty, BeginDrain, Receive, TaskOK
  <2>2. /\ queue \in Seq(Callers) /\ queue' \in Seq(Callers)
        /\ Len(queue') = Len(queue) - 1 /\ Len(queue) > 0
        /\ c = queue[1]
        /\ \A k \in 1..Len(queue') : queue'[k] = queue[k + 1]
    BY <2>1, ReceiveQueue DEF TypeOK
  <2>3. \A d \in Callers : (\E k \in DOMAIN queue' : queue'[k] = d)
                          <=> d # c /\ \E k \in DOMAIN queue : queue[k] = d
    <3>1. \A k \in DOMAIN queue' : k + 1 \in DOMAIN queue /\ k + 1 # 1
      BY <2>2
    <3>2. \A k \in DOMAIN queue : k # 1 => k - 1 \in DOMAIN queue' /\ queue'[k - 1] = queue[k]
      BY <2>2
    <3>3. 1 \in DOMAIN queue
      BY <2>2
    <3>4. \A k \in DOMAIN queue' : queue'[k] = queue[k + 1] /\ queue'[k] # c
      BY <2>2, <3>1, <3>3
    <3>5. ASSUME NEW d \in Callers, NEW k \in DOMAIN queue', queue'[k] = d
          PROVE  d # c /\ \E l \in DOMAIN queue : queue[l] = d
      BY <3>1, <3>4, <3>5
    <3>6. ASSUME NEW d \in Callers, d # c, NEW k \in DOMAIN queue, queue[k] = d
          PROVE  \E l \in DOMAIN queue' : queue'[l] = d
      BY <2>2, <3>2, <3>6
    <3> QED
      BY <3>5, <3>6
  <2>4. /\ \A k, l \in DOMAIN queue' : queue'[k] = queue'[l] => k = l
        /\ \A k \in DOMAIN queue' : queue'[k] # None /\ queue'[k] # c
    <3>1. \A k \in DOMAIN queue' : /\ k \in Nat /\ k + 1 \in DOMAIN queue /\ k + 1 # 1
                                  /\ queue'[k] = queue[k + 1]
      BY <2>2
    <3>2. 1 \in DOMAIN queue /\ \A k \in DOMAIN queue : queue[k] \in Callers
      BY <2>2
    <3>3. ASSUME NEW k \in DOMAIN queue', NEW l \in DOMAIN queue', queue'[k] = queue'[l]
          PROVE  k = l
      <4>1. k + 1 = l + 1
        BY <3>1, <3>3
      <4> QED
        BY <3>1, <4>1
    <3> QED
      BY <2>2, <3>1, <3>2, <3>3
  <2>5. pc[c] = "awaiting"
    BY <2>1, ReceiveCommand
  <2>6. CASE Read(c) \/ RejectStart(c) \/ StopUnknown(c) \/ ShutdownEmpty(c)
    <3>1. pc' = [pc EXCEPT ![c] = "answered"] /\ who' = None
      BY <2>1, <2>6 DEF Read, RejectStart, StopUnknown, ShutdownEmpty, Answer, taskVars
    <3> QED
      BY <2>1, <2>3, <2>4, <3>1, RegistryAssumption DEF TypeOK
  <2>7. CASE SpawnSimulator(c) \/ StopKnown(c) \/ BeginDrain(c)
    <3>1. pc' = pc /\ who' = c
      BY <2>7 DEF SpawnSimulator, StopKnown, BeginDrain, callerVars
    <3> QED
      BY <2>1, <2>3, <2>4, <2>5, <3>1, RegistryAssumption
  <2> QED
    BY <1>1, <2>6, <2>7 DEF Serve
\* The served caller is answered and the task is idle again.
<1>2. ASSUME NEW answer, Answer(who, answer), Idle, UNCHANGED queue, step # "recv"
      PROVE  CommandsTracked'
  BY <1>2, RegistryAssumption DEF Answer, Idle, TypeOK, TaskOK
<1>3. CASE UNCHANGED <<pc, queue, who>>
  BY <1>3
<1>4. CASE Rollback \/ Publish \/ KillEmulator
  BY <1>2, <1>3, <1>4 DEF Rollback, Publish, KillEmulator, callerVars
<1>5. CASE Seeded \/ SeedFails \/ BridgeUp \/ BridgeFails \/ DrainNext \/ System
  BY <1>3, <1>5 DEF Seeded, SeedFails, BridgeUp, BridgeFails, DrainNext, System,
                    SimulatorExits, UhidThreadEnds, UhidThreadFails, callerVars, taskVars
<1>6. ASSUME NEW c \in Callers, Enqueue(c)
      PROVE  CommandsTracked'
  <2>1. /\ queue \in Seq(Callers) /\ queue' = Append(queue, c)
        /\ pc[c] = "sending" /\ pc' = [pc EXCEPT ![c] = "awaiting"] /\ who' = who
    BY <1>6 DEF Enqueue, TypeOK, taskVars
  <2>2. /\ DOMAIN queue' = DOMAIN queue \cup {Len(queue) + 1}
        /\ queue'[Len(queue) + 1] = c
        /\ \A k \in DOMAIN queue : queue'[k] = queue[k] /\ k # Len(queue) + 1
    BY <2>1
  <2>3. c # who /\ \A k \in DOMAIN queue : queue[k] # c
    BY <2>1
  <2> QED
    BY <2>1, <2>2, <2>3 DEF TypeOK
<1>7. ASSUME NEW c \in Callers, TakeReply(c) \/ \E command \in Commands : Send(c, command)
      PROVE  CommandsTracked'
  BY <1>7 DEF TakeReply, Send, taskVars, TypeOK
<1>8. CASE UNCHANGED vars
  BY <1>3, <1>8 DEF vars, callerVars, taskVars
<1> QED
  BY <1>1, <1>4, <1>5, <1>6, <1>7, <1>8 DEF Next, Task, Client
-----------------------------------------------------------------------------
\* A rig is held under an id or by the task.
LEMMA HeldMeans ==
  ASSUME TypeOK
  PROVE  \A r \in Rigs : r \in Held <=> rig = r \/ \E i \in Ids : instances[i] = r
  BY RegistryAssumption DEF Held, Registered, TypeOK

\* Nothing about rigs changes for the worse while a rig keeps its holder, only
\* what is held is spawned, and what exits or closes does not come back.
LEMMA SameHolders ==
  ASSUME TypeOK, TypeOK', RigsOK, UNCHANGED <<instances, rig>>,
         \A r \in Rigs : /\ emu[r] # "none" => emu'[r] # "none"
                         /\ emu'[r] = "running" \/ uhid'[r] = "open"
                            => emu[r] = "running" \/ uhid[r] = "open" \/ r = rig
  PROVE  RigsOK'
<1>1. \A r \in Rigs : (r \in Held)' <=> r \in Held
  BY DEF Held, Registered
<1>2. HeldSpawned' /\ OneOwner'
  BY <1>1 DEF RigsOK, HeldSpawned, OneOwner, Registered
<1>3. NoLeak'
  BY <1>1, HeldMeans DEF RigsOK, NoLeak
<1> QED
  BY <1>2, <1>3 DEF RigsOK

\* The task gives up its rig after it killed it and closed its device.
LEMMA LetGo ==
  ASSUME TypeOK, TypeOK', RigsOK, rig \in Rigs, rig' = None,
         UNCHANGED instances,
         emu' = [emu EXCEPT ![rig] = "exited"],
         uhid'[rig] # "open",
         \A r \in Rigs \ {rig} : uhid'[r] = uhid[r]
  PROVE  RigsOK'
<1>1. \A r \in Rigs : (r \in Held)' <=> \E i \in Ids : instances[i] = r
  BY HeldMeans, RegistryAssumption DEF Held, Registered, TypeOK
<1>2. \A r \in Rigs : r \in Held <=> rig = r \/ \E i \in Ids : instances[i] = r
  BY HeldMeans
<1>3. HeldSpawned'
  BY <1>1, <1>2 DEF RigsOK, HeldSpawned, TypeOK
<1>4. OneOwner'
  BY RegistryAssumption DEF RigsOK, OneOwner, Registered, TypeOK
<1>5. NoLeak'
  BY <1>1, <1>2 DEF RigsOK, NoLeak, TypeOK
<1> QED
  BY <1>3, <1>4, <1>5 DEF RigsOK

\* An instance leaves the map for the hands of the task.
LEMMA DetachRigs ==
  ASSUME TypeOK, TypeOK', RigsOK, NEW i \in Ids, instances[i] \in Rigs, rig = None,
         Detach(i), UNCHANGED emu
  PROVE  RigsOK'
<1>1. /\ rig' = instances[i]
      /\ \A j \in Ids : instances'[j] = IF j = i THEN None ELSE instances[j]
      /\ \A r \in Rigs : uhid'[r] = "open" => uhid[r] = "open"
  BY DEF Detach, Closing, TypeOK
<1>2. \A r \in Rigs : (r \in Held)' <=> rig' = r \/ \E j \in Ids : instances'[j] = r
  BY RegistryAssumption DEF Held, Registered, TypeOK
<1>3. \A r \in Rigs : (r \in Held)' <=> r \in Held
  BY <1>1, <1>2, HeldMeans, RegistryAssumption
<1>4. HeldSpawned' /\ NoLeak'
  BY <1>1, <1>3 DEF RigsOK, HeldSpawned, NoLeak
<1>5. OneOwner'
  BY <1>1, RegistryAssumption DEF RigsOK, OneOwner, Registered
<1> QED
  BY <1>4, <1>5 DEF RigsOK

\* Every action keeps track of the rigs.
LEMMA RigsStep ==
  ASSUME TypeOK, TypeOK', TaskOK, CallersOK, CommandsTracked, RigsOK, [Next]_vars
  PROVE  RigsOK'
<1> USE RegistryAssumption
<1>1. CASE UNCHANGED <<instances, rig, emu, uhid>>
  BY <1>1, SameHolders
<1>2. ASSUME NEW c \in Callers, Serve(c)
      PROVE  RigsOK'
  <2>1. CASE Read(c) \/ RejectStart(c) \/ StopUnknown(c) \/ ShutdownEmpty(c) \/ BeginDrain(c)
    BY <1>1, <2>1 DEF Read, RejectStart, StopUnknown, ShutdownEmpty, BeginDrain, taskVars
  <2>2. CASE SpawnSimulator(c)
    <3>1. PICK r \in Rigs : /\ emu[r] = "none" /\ emu' = [emu EXCEPT ![r] = "running"]
                            /\ rig' = r /\ rig = None /\ UNCHANGED <<instances, uhid>>
      BY <2>2 DEF SpawnSimulator, Receive, TaskOK
    <3>2. \A q \in Rigs : (q \in Held)' <=> q = r \/ \E i \in Ids : instances[i] = q
      BY <3>1 DEF Held, Registered, TypeOK
    <3>3. \A q \in Rigs : q \in Held <=> \E i \in Ids : instances[i] = q
      BY <3>1, HeldMeans
    <3>4. HeldSpawned' /\ NoLeak'
      BY <3>1, <3>2, <3>3 DEF RigsOK, HeldSpawned, NoLeak, TypeOK
    <3>5. OneOwner'
      BY <3>1, <3>3 DEF RigsOK, HeldSpawned, OneOwner, Registered
    <3> QED
      BY <3>4, <3>5 DEF RigsOK
  <2>3. CASE StopKnown(c)
    BY <2>3, ReceiveCommand, DetachRigs DEF StopKnown, Receive, TaskOK, Targeted, TypeOK
  <2> QED
    BY <1>2, <2>1, <2>2, <2>3 DEF Serve
<1>3. CASE Seeded \/ SeedFails
  BY <1>1, <1>3 DEF Seeded, SeedFails
<1>4. CASE BridgeUp \/ BridgeFails
  BY <1>4, SameHolders DEF BridgeUp, BridgeFails, TypeOK
<1>5. CASE Rollback
  BY <1>5, LetGo DEF Rollback, TaskOK, Starting, Idle, Closing, TypeOK
<1>6. CASE Publish
  <2>1. /\ rig \in Rigs /\ newId \in Ids /\ rig' = None
        /\ \A i \in Ids : instances'[i] = IF i = newId THEN rig ELSE instances[i]
        /\ \A r \in Rigs : emu'[r] = IF r = instances[newId] THEN "exited" ELSE emu[r]
        /\ \A r \in Rigs : uhid'[r] = IF r = instances[newId] THEN Closing(r) ELSE uhid[r]
    BY <1>6 DEF Publish, Idle, TaskOK, Starting, TypeOK
  <2>2. \A r \in Rigs : (r \in Held)' <=> \E i \in Ids : instances'[i] = r
    BY <2>1 DEF Held, Registered, TypeOK
  <2>3. \A r \in Rigs : r \in Held => (r \in Held)' \/ r = instances[newId]
    BY <2>1, <2>2, HeldMeans
  <2>4. \A r \in Rigs : (r \in Held)' => r \in Held
    BY <2>1, <2>2, HeldMeans
  <2>5. HeldSpawned'
    BY <2>1, <2>4 DEF RigsOK, HeldSpawned
  <2>6. NoLeak'
    BY <2>1, <2>3 DEF RigsOK, NoLeak, Closing
  <2>7. OneOwner'
    BY <2>1 DEF RigsOK, OneOwner, Registered
  <2> QED
    BY <2>5, <2>6, <2>7 DEF RigsOK
<1>7. CASE DrainNext
  <2>1. PICK i \in todo : Detach(i)
    BY <1>7 DEF DrainNext
  <2>2. i \in Ids /\ instances[i] \in Rigs /\ rig = None
    BY <1>7 DEF DrainNext, TaskOK, Registered, TypeOK
  <2> QED
    BY <1>7, <2>1, <2>2, DetachRigs DEF DrainNext
<1>8. CASE KillEmulator
  BY <1>8, LetGo DEF KillEmulator, TaskOK, Idle, TypeOK
<1>9. CASE System
  <2>1. PICK r \in Rigs : SimulatorExits(r) \/ UhidThreadEnds(r) \/ UhidThreadFails(r)
    BY <1>9 DEF System
  <2> QED
    BY <2>1, SameHolders
       DEF SimulatorExits, UhidThreadEnds, UhidThreadFails, taskVars, TypeOK
<1>10. ASSUME NEW c \in Callers, Client(c)
       PROVE  RigsOK'
  BY <1>1, <1>10 DEF Client, Send, Enqueue, TakeReply, taskVars
<1>11. CASE UNCHANGED vars
  BY <1>1, <1>11 DEF vars, taskVars
<1> QED
  BY <1>2, <1>3, <1>4, <1>5, <1>6, <1>7, <1>8, <1>9, <1>10, <1>11 DEF Next, Task
-----------------------------------------------------------------------------
\* Every step of the registry keeps the invariant.
LEMMA InvariantStep ==
  ASSUME IInv, [Next]_vars
  PROVE  IInv'
<1>1. TypeOK /\ TaskOK /\ CallersOK /\ CommandsTracked /\ RigsOK /\ OneOwner
  BY DEF IInv, RigsOK
<1>2. TypeOK'
  BY <1>1, TypeStep
<1>3. TaskOK' /\ CallersOK' /\ CommandsTracked'
  BY <1>1, TaskStep, CallersStep, TrackedStep
<1>4. RigsOK'
  BY <1>1, <1>2, RigsStep
<1> QED
  BY <1>2, <1>3, <1>4 DEF IInv

\* The inductive invariant of the registry.
THEOREM Invariance == Spec => []IInv
<1>1. IInv /\ [Next]_vars => IInv'
  BY InvariantStep
<1> QED
  BY <1>1, InitIInv, PTL DEF Spec

\* The state of the registry is always well typed, the channel never over its
\* capacity.
THEOREM TypeCorrect == Spec => []TypeOK
<1>1. IInv => TypeOK
  BY DEF IInv
<1> QED
  BY <1>1, Invariance, PTL

\* start_bitbox02, stop_instance and the drain never lose track of a running
\* simulator or an open UHID device, under any schedule of failures.
THEOREM NothingLeaks == Spec => []NoLeak
<1>1. IInv => NoLeak
  BY DEF IInv, RigsOK
<1> QED
  BY <1>1, Invariance, PTL

\* No rig is shared by two ids, or by an id and the command being served.
THEOREM ExclusiveOwners == Spec => []OneOwner
<1>1. IInv => OneOwner
  BY DEF IInv, RigsOK
<1> QED
  BY <1>1, Invariance, PTL

\* The oneshot of every awaiting caller is in the channel or in the hands of
\* the registry task, once.
THEOREM NoCommandLost == Spec => []CommandsTracked
<1>1. IInv => CommandsTracked
  BY DEF IInv
<1> QED
  BY <1>1, Invariance, PTL
-----------------------------------------------------------------------------
\* Only stop_instance takes an id out of the map, and only the end of a start puts
\* another instance under one.
LEMMA TakenStep ==
  ASSUME IInv, [Next]_vars, NEW i \in Registered, instances'[i] # instances[i]
  PROVE  \/ /\ instances'[i] = None
            /\ \E c \in Callers :
                 c = who' /\ (cmd[c] = [op |-> "Stop", id |-> i] \/ cmd[c].op = "Shutdown")
         \/ \E c \in Callers :
              /\ c = who /\ cmd[c].op = "Start"
              /\ instances'[i] = rig
              /\ reply'[c] = [kind |-> "Started", ids |-> {i}]
<1> USE RegistryAssumption DEF IInv
<1>1. i \in Ids /\ instances[i] # None
  BY DEF Registered
<1>2. instances' # instances
  OBVIOUS
<1>3. CASE \E c \in Callers : StopKnown(c)
  <2>1. PICK c \in Callers : StopKnown(c)
    BY <1>3
  <2>2. cmd[c] \in Commands /\ cmd[c].op = "Stop" /\ who' = c
    BY <2>1, ReceiveCommand DEF StopKnown
  <2>3. cmd[c].id = i /\ instances'[i] = None
    BY <1>1, <2>1 DEF StopKnown, Detach, TypeOK
  <2> QED
    BY <2>2, <2>3 DEF Commands, Targeted, Untargeted
<1>4. CASE DrainNext
  BY <1>1, <1>4 DEF DrainNext, Detach, TaskOK, TypeOK
<1>5. CASE Publish
  <2>1. i = newId /\ instances'[i] = rig
    BY <1>1, <1>5 DEF Publish, TypeOK
  <2>2. who \in Callers /\ cmd[who].op = "Start"
    BY <1>5 DEF Publish, TaskOK, Starting
  <2>3. reply'[who] = [kind |-> "Started", ids |-> {i}]
    BY <1>5, <2>1, <2>2 DEF Publish, Answer, TypeOK
  <2> QED
    BY <2>1, <2>2, <2>3
<1> QED
  BY <1>2, <1>3, <1>4, <1>5
     DEF Next, Task, Serve, Read, RejectStart, SpawnSimulator, StopUnknown, ShutdownEmpty,
         BeginDrain, Seeded, SeedFails, BridgeUp, BridgeFails, Rollback, KillEmulator,
         System, SimulatorExits, UhidThreadEnds, UhidThreadFails,
         Client, Send, Enqueue, TakeReply, vars

\* An instance is taken from its id by a stop that names it, by a shutdown, or by
\* a start that drew the same id, and by nothing else.
THEOREM TakenIsTold == Spec => TakenByCommand
<1>1. IInv /\ [Next]_vars =>
        [\A i \in Registered : instances'[i] # instances[i] =>
           \/ /\ instances'[i] = None
              /\ \E c \in Callers :
                   c = who' /\ (cmd[c] = [op |-> "Stop", id |-> i] \/ cmd[c].op = "Shutdown")
           \/ \E c \in Callers :
                /\ c = who /\ cmd[c].op = "Start"
                /\ instances'[i] = rig
                /\ reply'[c] = [kind |-> "Started", ids |-> {i}]]_vars
  BY TakenStep
<1> QED
  BY <1>1, Invariance, PTL DEF Spec, TakenByCommand

\* With no id registered and the task done, nothing runs and nothing is open.
LEMMA DrainedStep ==
  ASSUME IInv, IInv', [Next]_vars, NEW c \in Callers,
         pc[c] = "awaiting", pc'[c] = "answered", reply'[c].kind = "ShuttingDown"
  PROVE  \A r \in Rigs : emu'[r] # "running" /\ uhid'[r] # "open"
<1> USE RegistryAssumption DEF IInv
<1>1. SUFFICES Registered' = {} /\ rig' = None
  <2>1. ASSUME Registered' = {}, rig' = None PROVE Held' = {}
    BY <2>1 DEF Held
  <2> QED
    BY <1>1, <2>1 DEF RigsOK, NoLeak
<1>2. CASE \E d \in Callers : ShutdownEmpty(d)
  BY <1>2 DEF ShutdownEmpty, Receive, TaskOK, taskVars, Registered
<1>3. CASE KillEmulator
  <2>1. todo = {} /\ rig' = None
    BY <1>3 DEF KillEmulator, callerVars, Idle
  <2>2. c = who
    BY <1>3, <2>1 DEF KillEmulator, Answer, TypeOK
  <2>3. cmd[who].op # "Stop"
    BY <1>3, <2>1, <2>2 DEF KillEmulator, Answer, StopAnswer, TypeOK
  <2> QED
    BY <1>3, <2>1, <2>3 DEF KillEmulator, TaskOK, Registered
<1>4. ASSUME NEW d \in Callers, Read(d) \/ RejectStart(d) \/ StopUnknown(d)
      PROVE  FALSE
  <2>1. PICK answer : /\ answer.kind # "ShuttingDown"
                      /\ Answer(d, answer)
    <3>1. CASE Read(d)
      BY <3>1 DEF Read, Snapshot
    <3>2. CASE RejectStart(d)
      BY <3>2 DEF RejectStart, StartErrors
    <3>3. CASE StopUnknown(d)
      BY <3>3 DEF StopUnknown
    <3> QED
      BY <1>4, <3>1, <3>2, <3>3
  <2> QED
    BY <2>1 DEF Answer, TypeOK
<1>5. CASE Rollback \/ Publish
  <2>1. PICK answer : /\ answer.kind # "ShuttingDown"
                      /\ Answer(who, answer)
    <3>1. CASE Rollback
      BY <3>1 DEF Rollback, TaskOK, StartErrors
    <3>2. CASE Publish
      BY <3>2 DEF Publish
    <3> QED
      BY <1>5, <3>1, <3>2
  <2> QED
    BY <2>1 DEF Answer, TypeOK
<1>6. pc' # pc
  OBVIOUS
<1>7. ASSUME NEW d \in Callers, Client(d)
      PROVE  FALSE
  BY <1>7 DEF Client, Send, Enqueue, TakeReply, TypeOK
<1> QED
  BY <1>2, <1>3, <1>4, <1>5, <1>6, <1>7
     DEF Next, Task, Serve, SpawnSimulator, StopKnown, BeginDrain, Seeded, SeedFails, BridgeUp,
         BridgeFails, DrainNext, System, SimulatorExits, UhidThreadEnds, UhidThreadFails,
         callerVars, vars

\* A shutdown is answered when every simulator is dead and no device is open.
THEOREM DrainIsComplete == Spec => ShutdownDrains
<1>1. IInv /\ IInv' /\ [Next]_vars =>
        [\A c \in Callers :
           pc[c] = "awaiting" /\ pc'[c] = "answered" /\ reply'[c].kind = "ShuttingDown"
           => \A r \in Rigs : emu'[r] # "running" /\ uhid'[r] # "open"]_vars
  BY DrainedStep
<1> QED
  BY <1>1, Invariance, PTL DEF Spec, ShutdownDrains
-----------------------------------------------------------------------------
(***************************************************************************)
(* The registry implements the instance service.                           *)
(***************************************************************************)

\* A step of the registry that a client cannot see.
LEMMA Unseen ==
  ASSUME TypeOK, TypeOK', UNCHANGED <<liveBar, cmd>>,
         \A c \in Callers : /\ phaseBar'[c] = phaseBar[c]
                            /\ replyBar'[c] = replyBar[c]
  PROVE  UNCHANGED Service!serviceVars
<1>1. phaseBar' = phaseBar /\ replyBar' = replyBar
  BY DEF phaseBar, replyBar
<1> QED
  BY <1>1 DEF Service!serviceVars

\* A command that the task answers itself, from its idle state or at the end of
\* a start, takes effect with the answer.
LEMMA AnswerPerforms ==
  ASSUME TypeOK, TypeOK', TaskOK, CommandsTracked,
         NEW c \in Callers, NEW answer, Answer(c, answer),
         pc[c] = "awaiting", ~Drains(c),
         \A d \in Callers : ~Drains(d) /\ ~Drains(d)'
  PROVE  Service!Perform(c, liveBar', answer)
<1>1. phaseBar[c] = "called"
  BY DEF phaseBar
<1>2. phaseBar' = [phaseBar EXCEPT ![c] = "performed"]
  BY DEF phaseBar, Answer, TypeOK
<1>3. replyBar' = [replyBar EXCEPT ![c] = answer]
  BY DEF replyBar, Answer, TypeOK
<1> QED
  BY <1>1, <1>2, <1>3 DEF Service!Perform, Answer

\* A stop or a drain takes effect when it begins.
LEMMA DrainPerforms ==
  ASSUME TypeOK, TypeOK', NEW c \in Callers, pc[c] = "awaiting", who = None,
         who' = c, step' \in {"drain", "kill"}, UNCHANGED callerVars
  PROVE  Service!Perform(c, liveBar', StopAnswer(c))
<1> USE RegistryAssumption
<1>1. \A d \in Callers : ~Drains(d) /\ (Drains(d)' <=> d = c)
  BY DEF Drains
<1>2. phaseBar[c] = "called"
  BY <1>1 DEF phaseBar
<1>3. phaseBar' = [phaseBar EXCEPT ![c] = "performed"]
  BY <1>1 DEF phaseBar, callerVars
<1>4. replyBar' = [replyBar EXCEPT ![c] = StopAnswer(c)]
  BY <1>1 DEF replyBar, callerVars, StopAnswer
<1> QED
  BY <1>2, <1>3, <1>4 DEF Service!Perform, callerVars

\* Every command served is one operation of the service, or begins one.
LEMMA ServeImplements ==
  ASSUME IInv, IInv', NEW c \in Callers, Serve(c)
  PROVE  Service!ServiceNext \/ UNCHANGED Service!serviceVars
<1> USE RegistryAssumption DEF IInv
<1>1. Receive(c) /\ step = "recv" /\ who = None /\ todo = {}
  BY DEF Serve, Read, RejectStart, SpawnSimulator, StopUnknown, StopKnown,
         ShutdownEmpty, BeginDrain, Receive, TaskOK
<1>2. pc[c] = "awaiting" /\ cmd[c] \in Commands
  BY <1>1, ReceiveCommand
<1>3. \A d \in Callers : ~Drains(d)
  BY <1>1 DEF Drains
<1>4. liveBar = Registered
  BY <1>1 DEF liveBar
<1>5. ASSUME UNCHANGED taskVars PROVE (\A d \in Callers : ~Drains(d)') /\ todo' = {}
  BY <1>1, <1>5 DEF Drains, taskVars
<1>6. CASE Read(c)
  <2>1. Service!Perform(c, liveBar', Snapshot(cmd[c], Registered))
    BY <1>2, <1>3, <1>5, <1>6, AnswerPerforms DEF Read
  <2>2. liveBar' = liveBar
    BY <1>1, <1>5, <1>6 DEF Read, liveBar, Registered
  <2>3. Service!PerformRead(c)
    BY <1>4, <1>6, <2>1, <2>2 DEF Read, Service!PerformRead, Snapshot, Service!Snapshot
  <2> QED
    BY <2>3 DEF Service!ServiceNext
<1>7. CASE RejectStart(c)
  <2>1. PICK code \in StartErrors : Answer(c, [kind |-> code, ids |-> {}])
    BY <1>7 DEF RejectStart
  <2>2. Service!Perform(c, liveBar', [kind |-> code, ids |-> {}])
    BY <1>2, <1>3, <1>5, <1>7, <2>1, AnswerPerforms DEF RejectStart
  <2>3. liveBar' = liveBar
    BY <1>1, <1>5, <1>7 DEF RejectStart, liveBar, Registered
  <2>4. Service!PerformStart(c)
    BY <1>7, <2>2, <2>3 DEF RejectStart, Service!PerformStart, StartErrors, Service!StartErrors
  <2> QED
    BY <2>4 DEF Service!ServiceNext
<1>8. CASE SpawnSimulator(c)
  <2>1. \A d \in Callers : ~Drains(d)'
    BY <1>8 DEF SpawnSimulator, Drains
  <2>2. UNCHANGED <<liveBar, cmd, pc, reply>>
    BY <1>8 DEF SpawnSimulator, callerVars, liveBar, Registered
  <2> QED
    BY <1>3, <2>1, <2>2, Unseen DEF phaseBar, replyBar
<1>9. CASE StopUnknown(c)
  <2>1. Service!Perform(c, liveBar', [kind |-> "Stopped", ids |-> {}])
    BY <1>2, <1>3, <1>5, <1>9, AnswerPerforms DEF StopUnknown
  <2>2. liveBar' = liveBar \ {cmd[c].id}
    BY <1>1, <1>5, <1>9 DEF StopUnknown, liveBar, Registered
  <2>3. Service!PerformStop(c)
    BY <1>9, <2>1, <2>2 DEF StopUnknown, Service!PerformStop
  <2> QED
    BY <2>3 DEF Service!ServiceNext
<1>10. CASE StopKnown(c)
  <2>1. Service!Perform(c, liveBar', [kind |-> "Stopped", ids |-> {}])
    BY <1>1, <1>2, <1>10, DrainPerforms DEF StopKnown, Detach, StopAnswer
  <2>2. liveBar' = liveBar \ {cmd[c].id}
    BY <1>1, <1>10 DEF StopKnown, Detach, liveBar, Registered, TypeOK
  <2>3. Service!PerformStop(c)
    BY <1>10, <2>1, <2>2 DEF StopKnown, Service!PerformStop
  <2> QED
    BY <2>3 DEF Service!ServiceNext
<1>11. CASE ShutdownEmpty(c)
  <2>1. Service!Perform(c, liveBar', [kind |-> "ShuttingDown", ids |-> {}])
    BY <1>2, <1>3, <1>5, <1>11, AnswerPerforms DEF ShutdownEmpty
  <2>2. liveBar' = {}
    BY <1>1, <1>5, <1>11 DEF ShutdownEmpty, liveBar, Registered
  <2>3. Service!PerformShutdown(c)
    BY <1>11, <2>1, <2>2 DEF ShutdownEmpty, Service!PerformShutdown
  <2> QED
    BY <2>3 DEF Service!ServiceNext
<1>12. CASE BeginDrain(c)
  <2>1. Service!Perform(c, liveBar', [kind |-> "ShuttingDown", ids |-> {}])
    BY <1>1, <1>2, <1>12, DrainPerforms DEF BeginDrain, StopAnswer
  <2>2. liveBar' = {}
    BY <1>12 DEF BeginDrain, liveBar, Registered
  <2>3. Service!PerformShutdown(c)
    BY <1>12, <2>1, <2>2 DEF BeginDrain, Service!PerformShutdown
  <2> QED
    BY <2>3 DEF Service!ServiceNext
<1> QED
  BY <1>6, <1>7, <1>8, <1>9, <1>10, <1>11, <1>12 DEF Serve

\* The end of a start is the start's operation; every other step of the task
\* within a command is invisible.
LEMMA TaskImplements ==
  ASSUME IInv, IInv',
         \/ Seeded \/ SeedFails \/ BridgeUp \/ BridgeFails \/ Rollback \/ Publish
         \/ DrainNext \/ KillEmulator
  PROVE  Service!ServiceNext \/ UNCHANGED Service!serviceVars
<1> USE RegistryAssumption DEF IInv
<1>1. who \in Callers /\ pc[who] = "awaiting"
  BY DEF Seeded, SeedFails, BridgeUp, BridgeFails, Rollback, Publish, DrainNext, KillEmulator,
         TaskOK, CommandsTracked
<1>2. ASSUME Idle PROVE \A d \in Callers : ~Drains(d)'
  BY <1>2 DEF Idle, Drains
<1>3. CASE Seeded \/ SeedFails \/ BridgeUp \/ BridgeFails
  <2>1. \A d \in Callers : ~Drains(d) /\ ~Drains(d)'
    BY <1>3 DEF Seeded, SeedFails, BridgeUp, BridgeFails, Drains
  <2>2. UNCHANGED <<liveBar, cmd, pc, reply>>
    BY <1>3 DEF Seeded, SeedFails, BridgeUp, BridgeFails, callerVars, liveBar, Registered
  <2> QED
    BY <2>1, <2>2, Unseen DEF phaseBar, replyBar
<1>4. CASE Rollback
  <2>1. \A d \in Callers : ~Drains(d)
    BY <1>4 DEF Rollback, Drains
  <2>2. Service!Perform(who, liveBar', [kind |-> failure, ids |-> {}])
    BY <1>1, <1>2, <1>4, <2>1, AnswerPerforms DEF Rollback
  <2>3. liveBar' = liveBar
    BY <1>4 DEF Rollback, Idle, TaskOK, Starting, liveBar, Registered
  <2>4. Service!PerformStart(who)
    BY <1>4, <2>2, <2>3
       DEF Rollback, TaskOK, Starting, Service!PerformStart, StartErrors, Service!StartErrors
  <2> QED
    BY <1>1, <2>4 DEF Service!ServiceNext
<1>5. CASE Publish
  <2>1. \A d \in Callers : ~Drains(d)
    BY <1>5 DEF Publish, Drains
  <2>2. Service!Perform(who, liveBar', [kind |-> "Started", ids |-> {newId}])
    BY <1>1, <1>2, <1>5, <2>1, AnswerPerforms DEF Publish
  <2>3. newId \in Ids /\ cmd[who].op = "Start" /\ rig \in Rigs /\ todo = {} /\ todo' = {}
    BY <1>5 DEF Publish, TaskOK, Starting, Idle
  <2>4. liveBar' = liveBar \cup {newId}
    BY <1>5, <2>3 DEF Publish, liveBar, Registered, TypeOK
  <2>5. Service!PerformStart(who)
    BY <2>2, <2>3, <2>4 DEF Service!PerformStart
  <2> QED
    BY <1>1, <2>5 DEF Service!ServiceNext
<1>6. CASE DrainNext
  <2>1. PICK i \in todo : Detach(i) /\ todo' = todo \ {i}
    BY <1>6 DEF DrainNext
  <2>2. liveBar' = liveBar
    BY <1>6, <2>1 DEF DrainNext, Detach, TaskOK, liveBar, Registered, TypeOK
  <2>3. \A d \in Callers : Drains(d)' <=> Drains(d)
    BY <1>6, <2>1 DEF DrainNext, Detach, Drains
  <2>4. UNCHANGED <<cmd, pc, reply>>
    BY <1>6 DEF DrainNext, callerVars
  <2>5. \A d \in Callers : StopAnswer(d)' = StopAnswer(d)
    BY <2>4 DEF StopAnswer
  <2> QED
    BY <2>2, <2>3, <2>4, <2>5, Unseen DEF phaseBar, replyBar
<1>7. CASE KillEmulator
  <2>1. \A d \in Callers : Drains(d) <=> d = who
    BY <1>7 DEF KillEmulator, Drains
  <2>2. UNCHANGED cmd
    BY <1>7 DEF KillEmulator, Answer, callerVars
  <2>3. \A d \in Callers : StopAnswer(d)' = StopAnswer(d)
    BY <2>2 DEF StopAnswer
  <2>4. CASE todo # {}
    <3>1. UNCHANGED <<pc, reply, who, todo, instances>> /\ step' = "drain"
      BY <1>7, <2>4 DEF KillEmulator, callerVars
    <3>2. (\A d \in Callers : Drains(d)' <=> Drains(d)) /\ UNCHANGED liveBar
      BY <2>1, <3>1 DEF Drains, liveBar, Registered
    <3> QED
      BY <2>2, <2>3, <3>1, <3>2, Unseen DEF phaseBar, replyBar
  <2>5. CASE todo = {}
    <3>1. Answer(who, StopAnswer(who)) /\ Idle /\ UNCHANGED instances
      BY <1>7, <2>5 DEF KillEmulator
    <3>2. (\A d \in Callers : ~Drains(d)') /\ UNCHANGED liveBar
      BY <1>2, <2>5, <3>1 DEF Idle, liveBar, Registered
    <3>3. \A d \in Callers : phaseBar'[d] = phaseBar[d]
      BY <1>1, <2>1, <3>1, <3>2 DEF phaseBar, Answer, TypeOK
    <3>4. \A d \in Callers : replyBar'[d] = replyBar[d]
      BY <1>1, <2>1, <3>1, <3>2 DEF replyBar, Answer, TypeOK
    <3> QED
      BY <2>2, <3>2, <3>3, <3>4, Unseen
  <2> QED
    BY <2>4, <2>5
<1> QED
  BY <1>3, <1>4, <1>5, <1>6, <1>7

\* A call and a return are themselves; waiting for the channel is invisible.
LEMMA ClientImplements ==
  ASSUME IInv, IInv', NEW c \in Callers, Client(c)
  PROVE  Service!ServiceNext \/ UNCHANGED Service!serviceVars
<1> USE RegistryAssumption DEF IInv
<1>1. UNCHANGED <<liveBar, who, step>>
  BY DEF Client, Send, Enqueue, TakeReply, taskVars, liveBar, Registered
<1>2. \A d \in Callers : Drains(d)' <=> Drains(d)
  BY <1>1 DEF Drains
<1>3. \A d \in Callers : Drains(d) => pc[d] = "awaiting"
  BY DEF Drains, CommandsTracked
<1>4. ASSUME pc[c] # "awaiting", \A d \in Callers \ {c} : cmd'[d] = cmd[d]
      PROVE  \A d \in Callers : Drains(d) => StopAnswer(d)' = StopAnswer(d)
  BY <1>3, <1>4 DEF StopAnswer
<1>5. ASSUME NEW command \in Commands, Send(c, command)
      PROVE  Service!Call(c)
  <2>1. phaseBar[c] = "idle" /\ phaseBar' = [phaseBar EXCEPT ![c] = "called"]
    <3>1. /\ pc[c] = "idle" /\ pc' = [pc EXCEPT ![c] = "sending"] /\ c \in DOMAIN pc
          /\ ~Drains(c)
      BY <1>3, <1>5 DEF Send, TypeOK
    <3>2. \A d \in Callers : phaseBar'[d] = IF d = c THEN "called" ELSE phaseBar[d]
      BY <1>2, <3>1 DEF phaseBar
    <3> QED
      BY <3>1, <3>2 DEF phaseBar
  <2>2. replyBar' = replyBar
    BY <1>2, <1>3, <1>4, <1>5 DEF replyBar, Send, TypeOK
  <2> QED
    BY <1>1, <1>5, <2>1, <2>2
       DEF Send, Service!Call, Commands, Service!Commands, Targeted, Untargeted,
           Service!Targeted, Service!Untargeted
<1>6. ASSUME Enqueue(c)
      PROVE  UNCHANGED Service!serviceVars
  <2>1. \A d \in Callers : phaseBar'[d] = phaseBar[d]
    BY <1>2, <1>3, <1>6 DEF phaseBar, Enqueue, TypeOK
  <2>2. \A d \in Callers : replyBar'[d] = replyBar[d]
    BY <1>2, <1>3, <1>4, <1>6 DEF replyBar, Enqueue, TypeOK
  <2> QED
    BY <1>1, <1>6, <2>1, <2>2, Unseen DEF Enqueue
<1>7. ASSUME TakeReply(c)
      PROVE  Service!Return(c)
  <2>1. phaseBar[c] = "performed" /\ phaseBar' = [phaseBar EXCEPT ![c] = "idle"]
    <3>1. pc[c] = "answered" /\ pc' = [pc EXCEPT ![c] = "idle"] /\ c \in DOMAIN pc
      BY <1>7 DEF TakeReply, TypeOK
    <3>2. \A d \in Callers : phaseBar'[d] = IF d = c THEN "idle" ELSE phaseBar[d]
      BY <1>2, <3>1 DEF phaseBar
    <3> QED
      BY <3>1, <3>2 DEF phaseBar
  <2>2. replyBar' = [replyBar EXCEPT ![c] = NoReply]
    <3>1. /\ pc[c] = "answered" /\ ~Drains(c)
          /\ reply' = [reply EXCEPT ![c] = NoReply] /\ reply \in [Callers -> Replies \cup {NoReply}]
          /\ \A d \in Callers \ {c} : cmd'[d] = cmd[d]
      BY <1>3, <1>7 DEF TakeReply, TypeOK
    <3>2. \A d \in Callers : Drains(d) => StopAnswer(d)' = StopAnswer(d)
      BY <1>4, <3>1
    <3>3. \A d \in Callers : replyBar'[d] = IF d = c THEN NoReply ELSE replyBar[d]
      BY <1>2, <3>1, <3>2 DEF replyBar
    <3> QED
      BY <3>3 DEF replyBar
  <2> QED
    BY <1>1, <1>7, <2>1, <2>2
       DEF TakeReply, Service!Return, NoReply, NoCommand, Service!NoReply, Service!NoCommand
<1> QED
  BY <1>5, <1>6, <1>7 DEF Client, Service!ServiceNext

\* The registry, with all its failures, is an atomic map of instances to those
\* who call it: commands take effect one at a time, each between its call and
\* its answer.
THEOREM RegistryImplementsService == Spec => Linearizable
<1> USE RegistryAssumption
<1>1. Init => Service!ServiceInit
  <2> SUFFICES ASSUME Init PROVE Service!ServiceInit
    OBVIOUS
  <2>1. \A d \in Callers : ~Drains(d)
    BY DEF Init, Drains
  <2> QED
    BY <2>1 DEF Init, Service!ServiceInit, liveBar, phaseBar, replyBar, Registered,
                NoReply, NoCommand, Service!NoReply, Service!NoCommand
<1>2. IInv /\ IInv' /\ [Next]_vars => [Service!ServiceNext]_(Service!serviceVars)
  <2> SUFFICES ASSUME IInv, IInv', [Next]_vars
               PROVE  Service!ServiceNext \/ UNCHANGED Service!serviceVars
    OBVIOUS
  <2>1. CASE System \/ UNCHANGED vars
    <3>1. UNCHANGED <<pc, cmd, reply, who, step, todo, instances>>
      BY <2>1 DEF System, SimulatorExits, UhidThreadEnds, UhidThreadFails,
                  vars, callerVars, taskVars
    <3>2. UNCHANGED <<liveBar, phaseBar, replyBar>>
      BY <3>1 DEF liveBar, phaseBar, replyBar, Drains, StopAnswer, Registered
    <3> QED
      BY <3>1, <3>2 DEF Service!serviceVars
  <2> QED
    BY <2>1, ServeImplements, TaskImplements, ClientImplements DEF Next, Task
<1> QED
  BY <1>1, <1>2, Invariance, PTL DEF Spec, Linearizable, Service!ServiceSpec
=============================================================================
