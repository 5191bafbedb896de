---------------------------- MODULE DaemonProofs ----------------------------
(***************************************************************************)
(* Theorems about the daemon around the registry, for any number of        *)
(* connections, ids, rigs and slots: it does not exit before a drain is    *)
(* over, nor before a client that asked it to has been told.  A step of    *)
(* the daemon is a step of the registry, or the exit, or neither; so the   *)
(* registry's invariant holds within the daemon, and what is added here    *)
(* says what each connection and the signal task know of the drain.        *)
(***************************************************************************)
EXTENDS Daemon, RegistryProofs

\* What waits in a oneshot is an answer, and a shutdown has only one.
AnswersOK ==
  \A c \in Callers : pc[c] = "answered" =>
    /\ reply[c] \in Replies
    /\ cmd[c].op = "Shutdown" => reply[c].kind = "ShuttingDown"

\* A client has heard nothing before its connection writes; who is about to
\* notify has told its client; the signal task has asked for a shutdown.
ConnectionsOK ==
  /\ \A c \in Conns :
       /\ conn[c] \in {"none", "backlog", "reading", "dispatch", "pong"} => heard[c] = "nothing"
       /\ conn[c] = "notify" => heard[c] = "ShuttingDown"
  /\ signal = "draining" => cmd[SignalTask].op = "Shutdown"

\* Everybody who lets the daemon exit knows that a drain is over, and then every
\* simulator that runs came late.
DrainKnown ==
  /\ drained => \A r \in Rigs : emu[r] = "running" => r \in late
  /\ \A c \in Callers : pc[c] = "answered" /\ cmd[c].op = "Shutdown" => drained
  /\ \A c \in Conns : conn[c] = "notify" => drained
  /\ signal = "done" => drained
  /\ notified => drained
  /\ main # "select" /\ ~failed => drained

\* A loop that has been notified while no signal was served has told a client.
TellingOK ==
  (notified \/ (main # "select" /\ ~failed)) /\ signal # "done"
  => \E c \in Conns : heard[c] = "ShuttingDown"

DInv == IInv /\ DaemonTypeOK /\ AnswersOK /\ ConnectionsOK /\ DrainKnown /\ TellingOK
-----------------------------------------------------------------------------
\* The initial states.
LEMMA DaemonInitInv == DaemonInit => DInv
<1> SUFFICES ASSUME DaemonInit PROVE DInv
  OBVIOUS
<1>1. IInv /\ TypeOK
  BY InitIInv DEF DaemonInit, IInv
<1>2. DaemonTypeOK
  BY <1>1 DEF DaemonTypeOK, DaemonInit
<1>3. AnswersOK
  BY DEF AnswersOK, DaemonInit, Init
<1>4. ConnectionsOK /\ DrainKnown /\ TellingOK
  BY DEF ConnectionsOK, DrainKnown, TellingOK, DaemonInit, Init
<1> QED
  BY <1>1, <1>2, <1>3, <1>4 DEF DInv

\* Every answer the registry gives is one that the command may have.
LEMMA AnswersStep ==
  ASSUME IInv, AnswersOK, [Next]_vars
  PROVE  AnswersOK'
<1> USE RegistryAssumption DEF AnswersOK
<1>1. TypeOK /\ TaskOK /\ CallersOK /\ CommandsTracked
  BY DEF IInv
<1>2. ASSUME NEW c \in Callers, NEW answer \in Replies, Answer(c, answer),
             cmd[c].op = "Shutdown" => answer.kind = "ShuttingDown"
      PROVE  AnswersOK'
  BY <1>1, <1>2 DEF Answer, TypeOK
<1>3. CASE UNCHANGED callerVars
  BY <1>3 DEF callerVars
<1>4. \A kind \in {"Started", "Stopped", "ShuttingDown"} \cup StartErrors, ids \in SUBSET Ids :
        [kind |-> kind, ids |-> ids] \in Replies
  BY DEF Replies
<1>5. ASSUME NEW c \in Callers, Serve(c)
      PROVE  AnswersOK'
  <2>1. CASE Read(c)
    <3>1. Snapshot(cmd[c], Registered) \in Replies
      BY <1>1, <2>1, ReceiveCommand, SnapshotType DEF Read, Registered
    <3> QED
      BY <1>2, <2>1, <3>1 DEF Read
  <2>2. CASE RejectStart(c)
    <3>1. PICK code \in StartErrors : Answer(c, [kind |-> code, ids |-> {}])
      BY <2>2 DEF RejectStart
    <3> QED
      BY <1>2, <1>4, <2>2, <3>1 DEF RejectStart
  <2>3. CASE StopUnknown(c)
    BY <1>2, <1>4, <2>3 DEF StopUnknown
  <2>4. CASE ShutdownEmpty(c)
    BY <1>2, <1>4, <2>4 DEF ShutdownEmpty
  <2>5. CASE SpawnSimulator(c) \/ StopKnown(c) \/ BeginDrain(c)
    BY <1>3, <2>5 DEF SpawnSimulator, StopKnown, BeginDrain
  <2> QED
    BY <1>5, <2>1, <2>2, <2>3, <2>4, <2>5 DEF Serve
<1>6. CASE Rollback
  <2>1. who \in Callers /\ failure \in StartErrors /\ cmd[who].op = "Start"
    BY <1>1, <1>6 DEF Rollback, TaskOK, Starting
  <2> QED
    BY <1>2, <1>4, <1>6, <2>1 DEF Rollback
<1>7. CASE Publish
  <2>1. who \in Callers /\ newId \in Ids /\ cmd[who].op = "Start"
    BY <1>1, <1>7 DEF Publish, TaskOK, Starting
  <2> QED
    BY <1>2, <1>4, <1>7, <2>1 DEF Publish
<1>8. CASE KillEmulator
  <2>1. who \in Callers /\ StopAnswer(who) \in Replies
    BY <1>1, <1>4, <1>8 DEF KillEmulator, TaskOK, StopAnswer
  <2>2. cmd[who].op = "Shutdown" => StopAnswer(who).kind = "ShuttingDown"
    BY DEF StopAnswer
  <2> QED
    BY <1>2, <1>3, <1>8, <2>1, <2>2 DEF KillEmulator
<1>9. CASE Seeded \/ SeedFails \/ BridgeUp \/ BridgeFails \/ DrainNext
  BY <1>3, <1>9 DEF Seeded, SeedFails, BridgeUp, BridgeFails, DrainNext
<1>10. CASE System
  BY <1>3, <1>10 DEF System, SimulatorExits, UhidThreadEnds, UhidThreadFails
<1>11. ASSUME NEW c \in Callers, Client(c)
       PROVE  AnswersOK'
  BY <1>1, <1>11 DEF Client, Send, Enqueue, TakeReply, TypeOK
<1>12. CASE UNCHANGED vars
  BY <1>3, <1>12 DEF vars
<1> QED
  BY <1>5, <1>6, <1>7, <1>8, <1>9, <1>10, <1>11, <1>12 DEF Next, Task

\* What the registry task does to the callers and the simulators: it takes no
\* command away and answers none twice, and only spawns what never ran.
LEMMA WhatTheTaskDoes ==
  ASSUME IInv, Task \/ \E c \in Callers : Enqueue(c)
  PROVE  /\ cmd' = cmd
         /\ \A c \in Callers : pc'[c] = "answered" => pc[c] \in {"awaiting", "answered"}
         /\ \A r \in Rigs : emu'[r] = "running" => emu[r] \in {"none", "running"}
<1> USE RegistryAssumption
<1>1. TypeOK /\ TaskOK /\ CallersOK /\ CommandsTracked
  BY DEF IInv
<1>2. step # "recv" => who \in Callers /\ pc[who] = "awaiting"
  BY <1>1 DEF TaskOK, CommandsTracked
<1>3. ASSUME NEW c \in Callers, Serve(c)
      PROVE  /\ cmd' = cmd
             /\ \A d \in Callers : pc'[d] = "answered" => pc[d] \in {"awaiting", "answered"}
             /\ \A r \in Rigs : emu'[r] = "running" => emu[r] \in {"none", "running"}
  <2>1. Receive(c) => pc[c] = "awaiting"
    BY <1>1, ReceiveCommand
  <2> QED
    BY <1>1, <1>3, <2>1
       DEF Serve, Read, RejectStart, SpawnSimulator, StopUnknown, StopKnown,
           ShutdownEmpty, BeginDrain, Answer, callerVars, TypeOK
<1>4. CASE Rollback \/ Publish \/ KillEmulator
  BY <1>1, <1>2, <1>4 DEF Rollback, Publish, KillEmulator, Answer, callerVars, TypeOK
<1>5. CASE Seeded \/ SeedFails \/ BridgeUp \/ BridgeFails \/ DrainNext
  BY <1>1, <1>5 DEF Seeded, SeedFails, BridgeUp, BridgeFails, DrainNext, callerVars, TypeOK
<1>6. ASSUME NEW c \in Callers, Enqueue(c)
      PROVE  /\ cmd' = cmd
             /\ \A d \in Callers : pc'[d] = "answered" => pc[d] \in {"awaiting", "answered"}
             /\ emu' = emu
  BY <1>1, <1>6 DEF Enqueue, TypeOK
<1> QED
  BY <1>1, <1>3, <1>4, <1>5, <1>6 DEF Task
-----------------------------------------------------------------------------
\* A step of the daemon is one of the registry, or the exit, or leaves the
\* registry alone.
LEMMA DaemonStepIsRegistryStep ==
  ASSUME [DaemonNext]_daemonVars
  PROVE  [Next]_vars \/ Exit
<1> USE DaemonAssumption DEF Conns
<1>1. CASE UNCHANGED daemonVars
  BY <1>1 DEF daemonVars
<1>2. ASSUME NEW c \in Conns, Connect(c) \/ HangUp(c) \/ Accept(c)
      PROVE  UNCHANGED vars
  BY <1>2 DEF Connect, HangUp, Accept
<1>3. ASSUME NEW c \in Conns, Connection(c)
      PROVE  [Next]_vars
  <2>1. CASE ReadRequest(c)
    BY <1>3, <2>1 DEF ReadRequest, Next, Client
  <2>2. CASE WriteReply(c) \/ WriteShuttingDown(c) \/ WriteShuttingDownFails(c)
    BY <1>3, <2>2 DEF WriteReply, WriteShuttingDown, WriteShuttingDownFails, Next, Client
  <2>3. CASE ReadNothing(c) \/ ReadPing(c) \/ WritePong(c) \/ NotifyExit(c)
    BY <2>3 DEF ReadNothing, ReadPing, WritePong, NotifyExit
  <2> QED
    BY <1>3, <2>1, <2>2, <2>3 DEF Connection
<1>4. CASE BreakOnNotify \/ BreakOnAcceptError
  BY <1>4 DEF BreakOnNotify, BreakOnAcceptError
<1>5. CASE SignalArrives
  <2>1. ShutdownCommand \in Commands
    BY DEF ShutdownCommand, Commands, Untargeted
  <2> QED
    BY <1>5, <2>1 DEF SignalArrives, Next, Client
<1>6. CASE SignalNotifies
  BY <1>6 DEF SignalNotifies, Next, Client
<1>7. CASE RegistryStep \/ SystemStep
  BY <1>7 DEF RegistryStep, SystemStep, Next, Client
<1> QED
  BY <1>1, <1>2, <1>3, <1>4, <1>5, <1>6, <1>7 DEF DaemonNext

\* The registry's invariant holds within the daemon, through its exit too.
LEMMA RegistryWithin ==
  ASSUME IInv, [DaemonNext]_daemonVars
  PROVE  IInv'
<1>1. CASE [Next]_vars
  BY <1>1, InvariantStep
<1>2. CASE Exit
  <2> USE RegistryAssumption DEF Exit, callerVars, taskVars
  <2>1. TypeOK /\ TaskOK /\ CallersOK /\ CommandsTracked /\ RigsOK
    BY DEF IInv
  <2>2. \A r \in Rigs : uhid'[r] # "open"
    BY <1>2
  <2>3. TypeOK'
    BY <1>2, <2>1 DEF TypeOK
  <2>4. Registered' = Registered /\ Held' = Held
    BY <1>2 DEF Registered, Held
  <2>5. TaskOK'
    BY <1>2, <2>1, <2>2, <2>4 DEF TaskOK, Starting
  <2>6. CallersOK' /\ CommandsTracked'
    BY <1>2, <2>1 DEF CallersOK, CommandsTracked
  <2>7. RigsOK'
    BY <1>2, <2>1, <2>2, <2>4 DEF RigsOK, HeldSpawned, OneOwner, NoLeak
  <2> QED
    BY <2>3, <2>5, <2>6, <2>7 DEF IInv
<1> QED
  BY <1>1, <1>2, DaemonStepIsRegistryStep

\* Every step keeps the types.
LEMMA DaemonTypeStep ==
  ASSUME DInv, IInv', [DaemonNext]_daemonVars
  PROVE  DaemonTypeOK'
<1> USE DaemonAssumption DEF DaemonTypeOK
<1>1. DaemonTypeOK /\ AnswersOK /\ TypeOK'
  BY DEF DInv, IInv
<1>2. CASE UNCHANGED daemonVars
  BY <1>1, <1>2 DEF daemonVars, loopVars, connVars, historyVars
<1>3. ASSUME NEW c \in Conns, Connect(c) \/ HangUp(c) \/ Accept(c)
      PROVE  DaemonTypeOK'
  BY <1>1, <1>3 DEF Connect, HangUp, Accept, loopVars, historyVars
<1>4. ASSUME NEW c \in Conns, Connection(c)
      PROVE  DaemonTypeOK'
  <2>1. CASE ReadNothing(c) \/ ReadPing(c) \/ ReadRequest(c)
    BY <1>1, <2>1 DEF ReadNothing, ReadPing, ReadRequest, loopVars, historyVars
  <2>2. CASE WritePong(c) \/ NotifyExit(c)
    BY <1>1, <2>2 DEF WritePong, NotifyExit, loopVars, historyVars
  <2>3. TakeReply(c) => reply[c].kind \in {r.kind : r \in Replies}
    BY <1>1 DEF TakeReply, AnswersOK, Conns
  <2>4. CASE WriteReply(c) \/ WriteShuttingDown(c) \/ WriteShuttingDownFails(c)
    BY <1>1, <2>3, <2>4 DEF WriteReply, WriteShuttingDown, WriteShuttingDownFails,
                            loopVars, historyVars
  <2> QED
    BY <1>4, <2>1, <2>2, <2>4 DEF Connection
<1>5. CASE BreakOnNotify \/ BreakOnAcceptError \/ Exit
  BY <1>1, <1>5 DEF BreakOnNotify, BreakOnAcceptError, Exit, connVars, historyVars
<1>6. CASE SignalArrives \/ SignalNotifies
  BY <1>1, <1>6 DEF SignalArrives, SignalNotifies, loopVars, connVars, historyVars
<1>7. CASE RegistryStep \/ SystemStep
  BY <1>1, <1>7 DEF RegistryStep, SystemStep, RecordHistory, loopVars, connVars, historyVars
<1> QED
  BY <1>2, <1>3, <1>4, <1>5, <1>6, <1>7 DEF DaemonNext
-----------------------------------------------------------------------------
\* A step that is not the registry's answers nobody, spawns nothing and leaves
\* the history alone.
LEMMA OutsideTheRegistry ==
  ASSUME DInv, [DaemonNext]_daemonVars, ~RegistryStep
  PROVE  /\ UNCHANGED historyVars
         /\ \A c \in Callers : pc'[c] = "answered" => /\ pc[c] = "answered"
                                                      /\ UNCHANGED <<cmd[c], reply[c]>>
         /\ \A r \in Rigs : emu'[r] = "running" => emu[r] = "running"
<1> USE DaemonAssumption DEF Conns
<1>1. TypeOK
  BY DEF DInv, DaemonTypeOK
<1>2. CASE UNCHANGED daemonVars
  BY <1>2 DEF daemonVars, vars, callerVars, historyVars
<1>3. ASSUME NEW c \in Conns, Connect(c) \/ HangUp(c) \/ Accept(c)
      PROVE  UNCHANGED <<historyVars, vars>>
  BY <1>3 DEF Connect, HangUp, Accept
<1>4. ASSUME NEW c \in Callers, TakeReply(c) \/ \E command \in Commands : Send(c, command)
      PROVE  /\ \A d \in Callers : pc'[d] = "answered" => /\ pc[d] = "answered"
                                                          /\ UNCHANGED <<cmd[d], reply[d]>>
             /\ emu' = emu
  BY <1>1, <1>4 DEF TakeReply, Send, TypeOK
<1>5. ASSUME NEW c \in Conns, Connection(c)
      PROVE  /\ UNCHANGED historyVars
             /\ UNCHANGED vars \/ TakeReply(c) \/ \E command \in Commands : Send(c, command)
  <2>1. CASE ReadRequest(c)
    BY <2>1 DEF ReadRequest
  <2>2. CASE WriteReply(c) \/ WriteShuttingDown(c) \/ WriteShuttingDownFails(c)
    BY <2>2 DEF WriteReply, WriteShuttingDown, WriteShuttingDownFails
  <2>3. CASE ReadNothing(c) \/ ReadPing(c) \/ WritePong(c) \/ NotifyExit(c)
    BY <2>3 DEF ReadNothing, ReadPing, WritePong, NotifyExit
  <2> QED
    BY <1>5, <2>1, <2>2, <2>3 DEF Connection
<1>6. CASE BreakOnNotify \/ BreakOnAcceptError \/ Exit
  BY <1>6 DEF BreakOnNotify, BreakOnAcceptError, Exit, vars, callerVars
<1>7. CASE SignalArrives
  <2>1. ShutdownCommand \in Commands
    BY DEF ShutdownCommand, Commands, Untargeted
  <2> QED
    BY <1>4, <1>7, <2>1 DEF SignalArrives
<1>8. CASE SignalNotifies
  BY <1>4, <1>8 DEF SignalNotifies
<1>9. CASE SystemStep
  BY <1>1, <1>9 DEF SystemStep, System, SimulatorExits, UhidThreadEnds, UhidThreadFails,
                    callerVars, TypeOK
<1>10. UNCHANGED vars => UNCHANGED <<pc, cmd, reply, emu>>
  BY DEF vars, callerVars
<1> QED
  BY <1>2, <1>3, <1>4, <1>5, <1>6, <1>7, <1>8, <1>9, <1>10 DEF DaemonNext

\* Every answer is one that the command may have, within the daemon too.
LEMMA AnswersWithin ==
  ASSUME DInv, [DaemonNext]_daemonVars
  PROVE  AnswersOK'
<1>1. IInv /\ AnswersOK
  BY DEF DInv
<1>2. CASE [Next]_vars
  BY <1>1, <1>2, AnswersStep
<1>3. CASE Exit
  BY <1>1, <1>3 DEF Exit, callerVars, AnswersOK
<1> QED
  BY <1>2, <1>3, DaemonStepIsRegistryStep

\* Every step keeps what the connections and the signal task know.
LEMMA ConnectionsStep ==
  ASSUME DInv, [DaemonNext]_daemonVars
  PROVE  ConnectionsOK'
<1> USE DaemonAssumption DEF Conns, ConnectionsOK
<1>1. DaemonTypeOK /\ TypeOK /\ AnswersOK /\ ConnectionsOK
  BY DEF DInv, DaemonTypeOK
<1>2. UNCHANGED <<conn, heard, signal, cmd>> => ConnectionsOK'
  BY <1>1
<1>3. CASE UNCHANGED daemonVars
  BY <1>2, <1>3 DEF daemonVars, vars, callerVars, connVars
<1>4. ASSUME NEW c \in Conns, Connect(c) \/ HangUp(c) \/ Accept(c)
      PROVE  ConnectionsOK'
  BY <1>1, <1>4 DEF Connect, HangUp, Accept, vars, callerVars, DaemonTypeOK
<1>5. ASSUME NEW c \in Conns, Connection(c)
      PROVE  ConnectionsOK'
  <2>1. CASE ReadNothing(c) \/ ReadPing(c) \/ WritePong(c) \/ NotifyExit(c)
    BY <1>1, <2>1 DEF ReadNothing, ReadPing, WritePong, NotifyExit, vars, callerVars, DaemonTypeOK
  <2>2. CASE ReadRequest(c)
    BY <1>1, <2>2 DEF ReadRequest, Send, DaemonTypeOK, TypeOK
  <2>3. TakeReply(c) => cmd'[SignalTask] = cmd[SignalTask]
    BY <1>1 DEF TakeReply, TypeOK
  <2>4. CASE WriteReply(c) \/ WriteShuttingDownFails(c)
    BY <1>1, <2>3, <2>4 DEF WriteReply, WriteShuttingDownFails, DaemonTypeOK
  <2>5. CASE WriteShuttingDown(c)
    <3>1. reply[c].kind = "ShuttingDown"
      BY <1>1, <2>5 DEF WriteShuttingDown, TakeReply, ShutdownCommand, AnswersOK
    <3> QED
      BY <1>1, <2>3, <2>5, <3>1 DEF WriteShuttingDown, DaemonTypeOK
  <2> QED
    BY <1>5, <2>1, <2>2, <2>4, <2>5 DEF Connection
<1>6. CASE BreakOnNotify \/ BreakOnAcceptError
  BY <1>2, <1>6 DEF BreakOnNotify, BreakOnAcceptError, vars, callerVars, connVars
<1>7. CASE Exit
  BY <1>1, <1>7 DEF Exit, callerVars, DaemonTypeOK
<1>8. CASE SignalArrives \/ SignalNotifies
  BY <1>1, <1>8 DEF SignalArrives, SignalNotifies, Send, ShutdownCommand, connVars, TypeOK
<1>9. CASE RegistryStep
  BY <1>1, <1>2, <1>9, WhatTheTaskDoes DEF RegistryStep, connVars, DInv
<1>10. CASE SystemStep
  BY <1>2, <1>10 DEF SystemStep, System, SimulatorExits, UhidThreadEnds, UhidThreadFails,
                     connVars, callerVars
<1> QED
  BY <1>3, <1>4, <1>5, <1>6, <1>7, <1>8, <1>9, <1>10 DEF DaemonNext

\* Every step keeps what is known of the drain: the registry's answer to a
\* shutdown is the moment at which it becomes true for all.
LEMMA DrainStep ==
  ASSUME DInv, IInv', AnswersOK', [DaemonNext]_daemonVars
  PROVE  DrainKnown'
<1> USE DaemonAssumption DEF Conns
<1>1. IInv /\ DaemonTypeOK /\ TypeOK /\ ConnectionsOK /\ DrainKnown
  BY DEF DInv, DaemonTypeOK
<1>2. CASE RegistryStep
  <2>1. /\ UNCHANGED <<cmd, conn, signal, main, notified, failed>>
        /\ \A c \in Callers : pc'[c] = "answered" => pc[c] \in {"awaiting", "answered"}
        /\ \A r \in Rigs : emu'[r] = "running" => emu[r] \in {"none", "running"}
    BY <1>1, <1>2, WhatTheTaskDoes DEF RegistryStep, loopVars, connVars
  <2>2. drained => drained'
    BY <1>1, <1>2 DEF RegistryStep, RecordHistory
  <2>3. ASSUME drained', ~drained
        PROVE  \A r \in Rigs : emu'[r] # "running"
    <3>1. PICK c \in Callers : /\ pc[c] = "awaiting" /\ pc'[c] = "answered"
                               /\ reply'[c].kind = "ShuttingDown"
      BY <1>1, <1>2, <2>3 DEF RegistryStep, RecordHistory
    <3>2. [Next]_vars
      BY <1>2 DEF RegistryStep, Next, Client
    <3> QED
      BY <1>1, <3>1, <3>2, DrainedStep
  <2>4. ASSUME drained, NEW r \in Rigs, emu'[r] = "running"
        PROVE  r \in late'
    BY <1>1, <1>2, <2>1, <2>4 DEF RegistryStep, RecordHistory, DrainKnown
  <2>5. ASSUME NEW c \in Callers, pc'[c] = "answered", cmd'[c].op = "Shutdown"
        PROVE  drained'
    BY <1>1, <1>2, <2>1, <2>2, <2>5 DEF RegistryStep, RecordHistory, AnswersOK, DrainKnown
  <2>6. drained' \in BOOLEAN /\ drained \in BOOLEAN
    BY <1>1, <1>2 DEF RegistryStep, RecordHistory, DaemonTypeOK
  <2> QED
    BY <1>1, <2>1, <2>2, <2>3, <2>4, <2>5, <2>6 DEF DrainKnown
<1>3. CASE ~RegistryStep
  <2>1. /\ UNCHANGED <<drained, late>>
        /\ \A c \in Callers : pc'[c] = "answered" => pc[c] = "answered" /\ cmd'[c] = cmd[c]
        /\ \A r \in Rigs : emu'[r] = "running" => emu[r] = "running"
    BY <1>3, OutsideTheRegistry DEF historyVars
  <2>2. ASSUME \A c \in Conns : conn'[c] = "notify" => drained,
               signal' = "done" => drained,
               notified' => drained,
               main' # "select" /\ ~failed' => drained
        PROVE  DrainKnown'
    BY <1>1, <2>1, <2>2 DEF DrainKnown
  <2> HIDE DEF Conns
  <2>3. CASE UNCHANGED daemonVars
    BY <1>1, <2>2, <2>3 DEF daemonVars, connVars, loopVars, DrainKnown
  <2>4. ASSUME NEW c \in Conns, Connect(c) \/ HangUp(c) \/ Accept(c)
        PROVE  DrainKnown'
    BY <1>1, <2>2, <2>4 DEF Connect, HangUp, Accept, loopVars, DrainKnown, DaemonTypeOK
  <2>5. ASSUME NEW c \in Conns, Connection(c)
        PROVE  DrainKnown'
    <3>1. CASE \/ ReadNothing(c) \/ ReadPing(c) \/ ReadRequest(c)
               \/ WritePong(c) \/ WriteReply(c) \/ WriteShuttingDownFails(c)
      BY <1>1, <2>2, <3>1
         DEF ReadNothing, ReadPing, ReadRequest, WritePong, WriteReply, WriteShuttingDownFails,
             loopVars, DrainKnown, DaemonTypeOK
    <3>2. CASE WriteShuttingDown(c)
      <4>1. drained
        BY <1>1, <3>2 DEF WriteShuttingDown, TakeReply, ShutdownCommand, DrainKnown, Conns
      <4> QED
        BY <2>2, <4>1
    <3>3. CASE NotifyExit(c)
      <4>1. drained
        BY <1>1, <3>3 DEF NotifyExit, DrainKnown
      <4> QED
        BY <2>2, <4>1
    <3> QED
      BY <2>5, <3>1, <3>2, <3>3 DEF Connection
  <2>6. CASE BreakOnNotify \/ BreakOnAcceptError
    BY <1>1, <2>2, <2>6 DEF BreakOnNotify, BreakOnAcceptError, connVars, DrainKnown
  <2>7. CASE Exit
    BY <1>1, <2>2, <2>7 DEF Exit, DrainKnown
  <2>8. CASE SignalArrives
    BY <1>1, <2>2, <2>8 DEF SignalArrives, loopVars, connVars, DrainKnown
  <2>9. CASE SignalNotifies
    <3>1. drained
      BY <1>1, <2>9 DEF SignalNotifies, TakeReply, DrainKnown, ConnectionsOK
    <3> QED
      BY <2>2, <3>1
  <2>10. CASE SystemStep
    BY <1>1, <2>2, <2>10 DEF SystemStep, loopVars, connVars, DrainKnown
  <2> QED
    BY <1>3, <2>3, <2>4, <2>5, <2>6, <2>7, <2>8, <2>9, <2>10 DEF DaemonNext
<1> QED
  BY <1>2, <1>3

\* Every step keeps a client told, and a loop is notified only by a connection
\* that has told its client or by the signal task.
LEMMA TellingStep ==
  ASSUME DInv, [DaemonNext]_daemonVars
  PROVE  TellingOK'
<1>1. DaemonTypeOK /\ ConnectionsOK /\ TellingOK
  BY DEF DInv
<1>2. \A c \in Conns : heard[c] = "ShuttingDown" => heard'[c] = "ShuttingDown"
  <2>1. CASE UNCHANGED heard
    BY <2>1
  <2>2. ASSUME NEW c \in Conns, conn[c] \in {"dispatch", "pong"},
               NEW word, heard' = [heard EXCEPT ![c] = word]
        PROVE  \A d \in Conns : heard[d] = "ShuttingDown" => heard'[d] = "ShuttingDown"
    BY <1>1, <2>2 DEF ConnectionsOK, DaemonTypeOK
  <2>3. ASSUME NEW c \in Conns, Connection(c)
        PROVE  UNCHANGED heard \/ /\ conn[c] \in {"dispatch", "pong"}
                                  /\ \E word : heard' = [heard EXCEPT ![c] = word]
    BY <2>3 DEF Connection, ReadNothing, ReadPing, ReadRequest, WritePong, WriteReply,
                WriteShuttingDown, WriteShuttingDownFails, NotifyExit
  <2>4. ASSUME \A c \in Conns : ~Connection(c)
        PROVE  UNCHANGED heard
    BY <2>4 DEF DaemonNext, daemonVars, Connect, HangUp, Accept, BreakOnNotify,
                BreakOnAcceptError, Exit, SignalArrives, SignalNotifies, RegistryStep,
                SystemStep, connVars
  <2> QED
    BY <2>1, <2>2, <2>3, <2>4
<1>3. ASSUME (notified' \/ (main' # "select" /\ ~failed')) /\ signal' # "done"
             => (notified \/ (main # "select" /\ ~failed)) /\ signal # "done"
      PROVE  TellingOK'
  BY <1>1, <1>2, <1>3 DEF TellingOK
<1>4. CASE UNCHANGED daemonVars
  BY <1>3, <1>4 DEF daemonVars, loopVars
<1>5. ASSUME NEW c \in Conns, Connect(c) \/ HangUp(c) \/ Accept(c)
      PROVE  TellingOK'
  BY <1>3, <1>5 DEF Connect, HangUp, Accept, loopVars
<1>6. ASSUME NEW c \in Conns, Connection(c)
      PROVE  TellingOK'
  <2>1. CASE NotifyExit(c)
    BY <1>1, <2>1 DEF NotifyExit, ConnectionsOK, TellingOK
  <2>2. CASE \/ ReadNothing(c) \/ ReadPing(c) \/ ReadRequest(c)
             \/ WritePong(c) \/ WriteReply(c)
             \/ WriteShuttingDown(c) \/ WriteShuttingDownFails(c)
    BY <1>3, <2>2 DEF ReadNothing, ReadPing, ReadRequest, WritePong, WriteReply,
                      WriteShuttingDown, WriteShuttingDownFails, loopVars
  <2> QED
    BY <1>6, <2>1, <2>2 DEF Connection
<1>7. CASE BreakOnNotify \/ BreakOnAcceptError \/ Exit
  BY <1>3, <1>7 DEF BreakOnNotify, BreakOnAcceptError, Exit
<1>8. CASE SignalArrives \/ SignalNotifies
  BY <1>3, <1>8 DEF SignalArrives, SignalNotifies, loopVars
<1>9. CASE RegistryStep \/ SystemStep
  BY <1>3, <1>9 DEF RegistryStep, SystemStep, loopVars
<1> QED
  BY <1>4, <1>5, <1>6, <1>7, <1>8, <1>9 DEF DaemonNext
-----------------------------------------------------------------------------
\* The invariant holds for any number of connections, ids, rigs and slots.
THEOREM DaemonInvariance == DaemonSpec => []DInv
<1>1. DInv /\ [DaemonNext]_daemonVars => DInv'
  <2> SUFFICES ASSUME DInv, [DaemonNext]_daemonVars PROVE DInv'
    OBVIOUS
  <2>1. IInv'
    BY RegistryWithin DEF DInv
  <2>2. AnswersOK' /\ ConnectionsOK' /\ TellingOK'
    BY AnswersWithin, ConnectionsStep, TellingStep
  <2>3. DaemonTypeOK' /\ DrainKnown'
    BY <2>1, <2>2, DaemonTypeStep, DrainStep
  <2> QED
    BY <2>1, <2>2, <2>3 DEF DInv
<1> QED
  BY <1>1, DaemonInitInv, PTL DEF DaemonSpec

\* Every variable of the daemon stays within its type.
THEOREM DaemonTyped == DaemonSpec => []DaemonTypeOK
<1>1. DInv => DaemonTypeOK
  BY DEF DInv
<1> QED
  BY <1>1, DaemonInvariance, PTL

\* handle_connection writes the answer to Shutdown before it notifies the loop:
\* however many clients ask, the process does not leave its loop for one of
\* them before one has been told.
THEOREM ExitWaitsForAnswer == DaemonSpec => []ExitAfterAnswer
<1>1. DInv => ExitAfterAnswer
  BY DEF DInv, TellingOK, ExitAfterAnswer
<1> QED
  BY <1>1, DaemonInvariance, PTL

\* Neither a client nor a signal makes the process exit while a simulator that
\* the drain was to stop still runs.
THEOREM ExitWaitsForDrain == DaemonSpec => []ExitAfterDrain
<1>1. DInv => ExitAfterDrain
  BY DEF DInv, DrainKnown, ExitAfterDrain, Up
<1> QED
  BY <1>1, DaemonInvariance, PTL
=============================================================================
