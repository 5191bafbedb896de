------------------------------- MODULE Bridge -------------------------------
(***************************************************************************)
(* GenericBridge (crate bridge, generic.rs), as the daemon uses it: one    *)
(* start, then stop or drop.  This module has the owner's calls, and the   *)
(* relay over TCP; UnixRelay.tla adds the two over Unix sockets.  Task A   *)
(* relays input reports from the emulator's socket to the thread of        *)
(* HidThread.tla, task B relays output reports from the thread to the      *)
(* socket, and both tell the intercept channel, the tap, of every report.  *)
(***************************************************************************)
EXTENDS HidThread, SequencesExt

CONSTANTS
  Transports, \* the transports a bridge may be configured with
  SocketCap   \* how many output reports the emulator's socket buffers

ASSUME BridgeAssumption ==
  Transports \subseteq {"tcp", "unix", "dgram"} /\ SocketCap \in Nat \ {0}

VARIABLES
  transport, \* the one it is configured with
  owner,     \* "new", "starting", "up", "failed", "stopping", "stopped", "dropped"
  running,   \* the flag behind is_running()
  peer,      \* the emulator's end of the connection: "open" or "closed"
  wire,      \* input reports in the socket, on their way to task A
  emuSent,   \* how many reports the emulator has sent
  unread,    \* output reports written to the emulator, in its socket's buffer
  emuGot,    \* the output reports the emulator has read
  taskA,     \* "none", "reading" or "gone"
  taskB,     \* "none", "recv", "writing" or "gone"
  inHand,    \* the report task B is writing, as a sequence
  tap        \* the reports intercepted, in each direction

Directions == {"HostToDevice", "DeviceToHost"}

\* What the intercept channel has been told once it is told of report r.
Intercept(direction, r) == [tap EXCEPT ![direction] = Append(@, r)]

relayVars  == <<taskA, taskB, inHand, tap>>
socketVars == <<peer, wire, emuSent, unread, emuGot>>
bridgeVars == <<threadVars, transport, owner, running, socketVars, relayVars>>

BridgeInit ==
  /\ ThreadInit
  /\ transport \in Transports
  /\ owner = "new" /\ running = FALSE
  /\ peer = "open" /\ wire = <<>> /\ emuSent = 0 /\ unread = <<>> /\ emuGot = <<>>
  /\ taskA = "none" /\ taskB = "none" /\ inHand = <<>>
  /\ tap = [direction \in Directions |-> <<>>]

\* The receiver of uhidRead: start() holds it until it gives it to task B.
Receiver == owner = "starting" \/ taskB \in {"recv", "writing"}
-----------------------------------------------------------------------------
(***************************************************************************)
(* The owner's calls.                                                      *)
(***************************************************************************)

\* start(): the device, its thread, and then an await for the connection.
CreateDevice ==
  /\ owner = "new" /\ ~running
  /\ thread' = "check"
  /\ running' = TRUE
  /\ owner' = "starting"
  /\ UNCHANGED <<told, kernel, overrun, uhidRead, uhidWrite, hostSent, hostGot,
                 transport, socketVars, relayVars>>

Connected ==
  /\ owner = "starting" /\ transport = "tcp" /\ peer = "open"
  /\ owner' = "up"
  /\ taskA' = "reading" /\ taskB' = "recv"
  /\ UNCHANGED <<threadVars, transport, running, socketVars, inHand, tap>>

\* The `?` leaves the thread and the running flag behind.
ConnectFails ==
  /\ owner = "starting" /\ transport = "tcp"
  /\ owner' = "failed"
  /\ UNCHANGED <<threadVars, transport, running, socketVars, relayVars>>

\* stop(): drop the shutdown senders, abort the tasks, wait 200 ms.
Stop ==
  /\ owner = "up"
  /\ owner' = "stopping"
  /\ told' = TRUE
  /\ UNCHANGED <<thread, kernel, overrun, uhidRead, uhidWrite, hostSent, hostGot,
                 transport, running, socketVars, relayVars>>

StopReturns ==
  /\ owner = "stopping"
  /\ owner' = "stopped"
  /\ running' = FALSE
  /\ UNCHANGED <<threadVars, transport, socketVars, relayVars>>

\* The object goes out of scope: after a failed start, or when an instance is
\* replaced in the registry's map.  The tasks are detached, not aborted.
DropBridge ==
  /\ owner \in {"up", "failed"}
  /\ owner' = "dropped"
  /\ told' = TRUE
  /\ UNCHANGED <<thread, kernel, overrun, uhidRead, uhidWrite, hostSent, hostGot,
                 transport, running, socketVars, relayVars>>

Aborted == owner \in {"stopping", "stopped"}
-----------------------------------------------------------------------------
(***************************************************************************)
(* Task A: emulator to host.                                               *)
(***************************************************************************)

\* Mutant: the report is relayed without being intercepted.
RelayInputUntapped ==
  /\ taskA = "reading" /\ wire # <<>>
  /\ wire' = Tail(wire)
  /\ uhidWrite' = Append(uhidWrite, Head(wire))
  /\ UNCHANGED <<thread, told, kernel, overrun, uhidRead, hostSent, hostGot,
                 transport, owner, running, peer, emuSent, unread, emuGot, relayVars>>

RelayInput ==
  /\ taskA = "reading" /\ wire # <<>>
  /\ wire' = Tail(wire)
  /\ tap' = Intercept("DeviceToHost", Head(wire))
  /\ uhidWrite' = Append(uhidWrite, Head(wire))
  /\ UNCHANGED <<thread, told, kernel, overrun, uhidRead, hostSent, hostGot,
                 transport, owner, running, peer, emuSent, unread, emuGot,
                 taskA, taskB, inHand>>

\* End of file, or a reset that discards what is still in the socket.
ReadFails ==
  /\ taskA = "reading" /\ peer = "closed"
  /\ taskA' = "gone"
  /\ running' = FALSE
  /\ UNCHANGED <<threadVars, transport, owner, socketVars, taskB, inHand, tap>>

TaskAEnds ==
  /\ taskA = "reading" /\ told
  /\ taskA' = "gone"
  /\ UNCHANGED <<threadVars, transport, owner, running, socketVars, taskB, inHand, tap>>
-----------------------------------------------------------------------------
(***************************************************************************)
(* Task B: host to emulator.                                               *)
(***************************************************************************)

\* Mutant: all that waits is taken as one write.
TakeOutputCoalesced ==
  /\ taskB = "recv" /\ uhidRead # <<>>
  /\ uhidRead' = <<>>
  /\ tap' = Intercept("HostToDevice", Head(uhidRead))
  /\ inHand' = uhidRead
  /\ taskB' = "writing"
  /\ UNCHANGED <<thread, told, kernel, overrun, uhidWrite, hostSent, hostGot,
                 transport, owner, running, socketVars, taskA>>

TakeOutput ==
  /\ taskB = "recv" /\ uhidRead # <<>>
  /\ uhidRead' = Tail(uhidRead)
  /\ tap' = Intercept("HostToDevice", Head(uhidRead))
  /\ inHand' = <<Head(uhidRead)>>
  /\ taskB' = "writing"
  /\ UNCHANGED <<thread, told, kernel, overrun, uhidWrite, hostSent, hostGot,
                 transport, owner, running, socketVars, taskA>>

\* Mutant: a partial write is taken for a whole one.
WriteOutputPartial ==
  /\ taskB = "writing"
  /\ inHand' = <<>>
  /\ taskB' = "recv"
  /\ UNCHANGED <<threadVars, transport, owner, running, socketVars, taskA, tap>>

\* A write awaits room in the buffer and returns when the report is there.  A
\* closed peer may let a first write pass: the report is lost.
WriteOutput ==
  /\ taskB = "writing"
  /\ \/ peer = "open" /\ Len(unread) < SocketCap /\ unread' = unread \o inHand
     \/ peer = "closed" /\ UNCHANGED unread
  /\ inHand' = <<>>
  /\ taskB' = "recv"
  /\ UNCHANGED <<threadVars, transport, owner, running, peer, wire, emuSent, emuGot, taskA, tap>>

WriteOutputFails ==
  /\ taskB = "writing" /\ peer = "closed"
  /\ inHand' = <<>>
  /\ taskB' = "gone"
  /\ UNCHANGED <<threadVars, transport, owner, running, socketVars, taskA, tap>>

\* The thread dropped its sender, or the task was aborted.
TaskBEnds ==
  /\ \/ taskB = "recv" /\ uhidRead = <<>> /\ thread = "gone"
     \/ taskB \in {"recv", "writing"} /\ Aborted
  /\ taskB' = "gone" /\ inHand' = <<>>
  /\ UNCHANGED <<threadVars, transport, owner, running, socketVars, taskA, tap>>
-----------------------------------------------------------------------------
(***************************************************************************)
(* The emulator and the host.                                              *)
(***************************************************************************)

EmulatorSends ==
  /\ peer = "open" /\ taskA = "reading"
  /\ emuSent < MaxReports
  /\ emuSent' = emuSent + 1
  /\ wire' = Append(wire, emuSent + 1)
  /\ UNCHANGED <<threadVars, transport, owner, running, peer, unread, emuGot, relayVars>>

\* The emulator reads in its own time, or never.
EmulatorReads ==
  /\ unread # <<>>
  /\ emuGot' = Append(emuGot, Head(unread))
  /\ unread' = Tail(unread)
  /\ UNCHANGED <<threadVars, transport, owner, running, peer, wire, emuSent, relayVars>>

\* What it has not read is lost.
EmulatorCloses ==
  /\ transport = "tcp" /\ peer = "open" /\ owner # "new"
  /\ peer' = "closed" /\ unread' = <<>>
  /\ UNCHANGED <<threadVars, transport, owner, running, wire, emuSent, emuGot, relayVars>>

ThreadStep ==
  /\ transport = "tcp"
  /\ ThreadLoop(Receiver)
  /\ UNCHANGED <<transport, owner, running, socketVars, relayVars>>

OutsideStep ==
  /\ HostWrites \/ DeviceFails
  /\ UNCHANGED <<transport, owner, running, socketVars, relayVars>>

TaskAStep == RelayInput \/ ReadFails \/ TaskAEnds
TaskBStep == TakeOutput \/ WriteOutput \/ WriteOutputFails \/ TaskBEnds

BridgeNext ==
  \/ CreateDevice \/ Connected \/ ConnectFails \/ Stop \/ StopReturns \/ DropBridge
  \/ TaskAStep \/ TaskBStep \/ ThreadStep
  \/ EmulatorSends \/ EmulatorReads \/ EmulatorCloses \/ OutsideStep

BridgeSpec == BridgeInit /\ [][BridgeNext]_bridgeVars

\* The runtime polls ready tasks and the kernel schedules the thread.  Owner,
\* host and emulator may stop at any point.
BridgeFairness ==
  /\ WF_bridgeVars(Connected \/ ConnectFails)
  /\ WF_bridgeVars(StopReturns)
  /\ WF_bridgeVars(TaskAStep) /\ WF_bridgeVars(TaskBStep) /\ WF_bridgeVars(ThreadStep)

FairBridgeSpec == BridgeSpec /\ BridgeFairness
-----------------------------------------------------------------------------
(***************************************************************************)
(* Properties.                                                             *)
(***************************************************************************)

\* Every variable stays within its type.
BridgeTypeOK ==
  /\ ThreadTypeOK
  /\ owner \in {"new", "starting", "up", "failed", "stopping", "stopped", "dropped"}
  /\ transport \in Transports /\ running \in BOOLEAN
  /\ peer \in {"open", "closed"}
  /\ wire \in Seq(Reports) /\ emuSent \in 0..MaxReports
  /\ unread \in Seq(Reports) /\ Len(unread) <= SocketCap /\ emuGot \in Seq(Reports)
  /\ taskA \in {"none", "reading", "gone"}
  /\ taskB \in {"none", "recv", "writing", "gone"}
  /\ inHand \in {<<>>} \cup {<<r>> : r \in Reports}
  /\ tap \in [Directions -> Seq(Reports)]

Rising(s) == \A i, j \in 1..Len(s) : i < j => s[i] < s[j]

\* s has the numbers 1..n without those in lost, once and in order.
Counts(s, n, lost) == Rising(s) /\ ToSet(s) = (1..n) \ lost

\* As long as nobody closes the connection or the device, no report is lost,
\* doubled or overtaken between the two ends, but for those that the kernel
\* had no room for: each is read or still on its way, in order.
RelayLossless ==
  /\ DeviceOpen /\ Receiver /\ peer = "open"
     => Counts(emuGot \o unread \o inHand \o uhidRead \o kernel, hostSent, overrun)
  /\ DeviceOpen /\ taskA = "reading" /\ peer = "open"
     => Counts(hostGot \o uhidWrite \o wire, emuSent, {})

\* The emulator never receives a report before one that the host wrote earlier,
\* nor twice.
HostOrder == Rising(emuGot)

\* The log of a session, which `logs` and `bridge-stats` are made from, tells
\* of every report that crossed, in order and before it is written: nothing
\* reaches the emulator or the host unrecorded, even while the bridge stops.
TapTellsAll ==
  transport = "tcp" =>
  /\ IsPrefix(emuGot \o unread, tap["HostToDevice"])
  /\ IsPrefix(hostGot, tap["DeviceToHost"])

\* A report that the kernel has queued reaches the emulator's socket, unless the
\* connection or the device goes first, or the socket is full again and again.
ReportsArrive ==
  \A r \in Reports :
    (transport = "tcp" /\ owner = "up" /\ r \in ToSet(kernel \o uhidRead \o inHand))
    ~> \/ r \in ToSet(emuGot \o unread) \/ Len(unread) = SocketCap
       \/ peer = "closed" \/ told \/ ~DeviceOpen
=============================================================================
