---------------------------- MODULE TrezorBridge ----------------------------
(***************************************************************************)
(* TrezorBridge (crate bridge, trezor.rs): the same thread as that of      *)
(* Bridge.tla but for the way it learns of a shutdown, between the kernel  *)
(* and a UDP socket.  Datagrams may be lost, and a refused one makes the   *)
(* next receive fail.                                                      *)
(***************************************************************************)
EXTENDS HidThread

VARIABLES
  owner,     \* "new", "up", "stopping", "stopped" or "dropped"
  running,   \* the flag behind is_running()
  emulator,  \* whether the emulator listens: "open" or "closed"
  refused,   \* the socket has an error pending
  emuSent,   \* how many datagrams the emulator has sent
  wire,      \* those on their way to task A
  emuGot,    \* the output reports the emulator has received
  taskA,     \* "none", "receiving" or "gone"
  taskB      \* "none", "recv" or "gone"

udpVars    == <<emulator, refused, emuSent, wire, emuGot>>
trezorVars == <<threadVars, owner, running, udpVars, taskA, taskB>>

TrezorInit ==
  /\ ThreadInit
  /\ owner = "new" /\ running = FALSE
  /\ emulator = "open" /\ refused = FALSE
  /\ emuSent = 0 /\ wire = <<>> /\ emuGot = <<>>
  /\ taskA = "none" /\ taskB = "none"
-----------------------------------------------------------------------------
\* start(): a UDP socket connects without asking the other side, so that the
\* device, the thread and the tasks come up together.
Start ==
  /\ owner = "new" /\ ~running
  /\ owner' = "up" /\ running' = TRUE
  /\ thread' = "check" /\ taskA' = "receiving" /\ taskB' = "recv"
  /\ UNCHANGED <<told, kernel, overrun, uhidRead, uhidWrite, hostSent, hostGot, udpVars>>

\* stop(): drop the senders, wait 100 ms; and the end of the object's scope.
Stop ==
  /\ owner = "up"
  /\ owner' \in {"stopping", "dropped"}
  /\ told' = TRUE
  /\ UNCHANGED <<thread, kernel, overrun, uhidRead, uhidWrite, hostSent, hostGot,
                 running, udpVars, taskA, taskB>>

StopReturns ==
  /\ owner = "stopping"
  /\ owner' = "stopped" /\ running' = FALSE
  /\ UNCHANGED <<threadVars, udpVars, taskA, taskB>>

ReceiveDatagram ==
  /\ taskA = "receiving" /\ wire # <<>> /\ ~refused
  /\ wire' = Tail(wire)
  /\ uhidWrite' = Append(uhidWrite, Head(wire))
  /\ UNCHANGED <<thread, told, kernel, overrun, uhidRead, hostSent, hostGot,
                 owner, running, emulator, refused, emuSent, emuGot, taskA, taskB>>

\* One refused datagram, and nothing of the emulator is relayed ever after.
ReceiveFails ==
  /\ taskA = "receiving" /\ refused
  /\ taskA' = "gone" /\ running' = FALSE /\ refused' = FALSE
  /\ UNCHANGED <<threadVars, owner, emulator, emuSent, wire, emuGot, taskB>>

TaskAEnds ==
  /\ taskA = "receiving" /\ told
  /\ taskA' = "gone"
  /\ UNCHANGED <<threadVars, owner, running, udpVars, taskB>>

\* An error of send_to, its own or that of an earlier refusal, is logged, and
\* the loop goes on without the report.
SendDatagram ==
  /\ taskB = "recv" /\ uhidRead # <<>>
  /\ uhidRead' = Tail(uhidRead)
  /\ \/ ~refused /\ emulator = "open"
        /\ emuGot' = Append(emuGot, Head(uhidRead))
        /\ UNCHANGED refused
     \/ /\ (refused \/ emulator = "closed")
        /\ refused' = ~refused
        /\ UNCHANGED emuGot
  /\ UNCHANGED <<thread, told, kernel, overrun, uhidWrite, hostSent, hostGot,
                 owner, running, emulator, emuSent, wire, taskA, taskB>>

TaskBEnds ==
  /\ taskB = "recv" /\ uhidRead = <<>> /\ thread = "gone"
  /\ taskB' = "gone"
  /\ UNCHANGED <<threadVars, owner, running, udpVars, taskA>>
-----------------------------------------------------------------------------
EmulatorSends ==
  /\ emulator = "open" /\ taskA = "receiving"
  /\ emuSent < MaxReports
  /\ emuSent' = emuSent + 1
  /\ wire' \in {wire, Append(wire, emuSent + 1)}
  /\ UNCHANGED <<threadVars, owner, running, emulator, refused, emuGot, taskA, taskB>>

EmulatorComesOrGoes ==
  /\ emulator' = IF emulator = "open" THEN "closed" ELSE "open"
  /\ UNCHANGED <<threadVars, owner, running, refused, emuSent, wire, emuGot, taskA, taskB>>

ThreadStep ==
  /\ ThreadLoop(taskB = "recv")
  /\ UNCHANGED <<owner, running, udpVars, taskA, taskB>>

OutsideStep ==
  /\ HostWrites \/ DeviceFails
  /\ UNCHANGED <<owner, running, udpVars, taskA, taskB>>

TaskAStep == ReceiveDatagram \/ ReceiveFails \/ TaskAEnds
TaskBStep == SendDatagram \/ TaskBEnds

TrezorNext ==
  \/ Start \/ Stop \/ StopReturns
  \/ TaskAStep \/ TaskBStep \/ ThreadStep
  \/ EmulatorSends \/ EmulatorComesOrGoes \/ OutsideStep

\* As for the other bridge: ready tasks are polled, the thread is scheduled.
TrezorSpec ==
  /\ TrezorInit /\ [][TrezorNext]_trezorVars
  /\ WF_trezorVars(StopReturns)
  /\ WF_trezorVars(TaskAStep) /\ WF_trezorVars(TaskBStep) /\ WF_trezorVars(ThreadStep)
=============================================================================
