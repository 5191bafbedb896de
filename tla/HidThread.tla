----------------------------- MODULE HidThread -----------------------------
(***************************************************************************)
(* The blocking thread of a bridge (spawn_uhid_thread of crate bridge): it *)
(* alone owns the virtual HID device, and carries reports between the      *)
(* kernel and two unbounded channels whose other ends are held by the      *)
(* bridge's relay tasks.  Bridge.tla and TrezorBridge.tla add those.       *)
(*                                                                         *)
(* Reports are numbered in the order in which the host, or the emulator,   *)
(* sent them.                                                              *)
(***************************************************************************)
EXTENDS Naturals, Sequences

CONSTANTS
  MaxReports,   \* how many reports each side sends (bounds the behaviours)
  KernelCap,    \* events the kernel keeps for the thread (31 in Linux)
  SeesClosed    \* whether the thread takes a dropped shutdown sender as a call
                \* to end (GenericBridge), or only a message (TrezorBridge)

ASSUME HidThreadAssumption ==
  /\ MaxReports \in Nat
  /\ KernelCap \in Nat \ {0}
  /\ SeesClosed \in BOOLEAN

VARIABLES
  thread,     \* where the loop is: "check", "write", "poll"; "none" or "gone"
  told,       \* the senders of the shutdown channels have been dropped
  kernel,     \* output reports of the host that the thread has yet to read
  overrun,    \* output reports that found the kernel's queue full
  uhidRead,   \* the channel from the thread to the relay towards the emulator
  uhidWrite,  \* the channel from the relay from the emulator to the thread
  hostSent,   \* how many reports the host has written to the device
  hostGot     \* the input reports the host has received

threadVars == <<thread, told, kernel, overrun, uhidRead, uhidWrite, hostSent, hostGot>>

\* The device is there from its creation until the thread lets go of it.
DeviceOpen == thread \in {"check", "write", "poll"}

ThreadInit ==
  /\ thread = "none" /\ told = FALSE
  /\ kernel = <<>> /\ overrun = {}
  /\ uhidRead = <<>> /\ uhidWrite = <<>>
  /\ hostSent = 0 /\ hostGot = <<>>
-----------------------------------------------------------------------------
\* The host writes an output report.  The write succeeds whether or not the
\* kernel has room to queue it for the thread.
HostWrites ==
  /\ DeviceOpen
  /\ hostSent < MaxReports
  /\ hostSent' = hostSent + 1
  /\ IF Len(kernel) < KernelCap
     THEN kernel' = Append(kernel, hostSent + 1) /\ UNCHANGED overrun
     ELSE overrun' = overrun \cup {hostSent + 1} /\ UNCHANGED kernel
  /\ UNCHANGED <<thread, told, uhidRead, uhidWrite, hostGot>>

\* Mutant: the thread of the one bridge asks as that of the other does.
CheckMessageOnly ==
  /\ thread = "check"
  /\ thread' = "write"
  /\ UNCHANGED <<told, kernel, overrun, uhidRead, uhidWrite, hostSent, hostGot>>

\* The top of the loop: shutdown_rx.try_recv().  Nobody ever sends on it.
CheckShutdown ==
  /\ thread = "check"
  /\ thread' = IF told /\ SeesClosed THEN "gone" ELSE "write"
  /\ UNCHANGED <<told, kernel, overrun, uhidRead, uhidWrite, hostSent, hostGot>>

\* The inner loop hands every pending input report to the kernel.
WriteInput ==
  /\ thread = "write" /\ uhidWrite # <<>>
  /\ hostGot'   = Append(hostGot, Head(uhidWrite))
  /\ uhidWrite' = Tail(uhidWrite)
  /\ UNCHANGED <<thread, told, kernel, overrun, uhidRead, hostSent>>

WriteDone ==
  /\ thread = "write" /\ uhidWrite = <<>>
  /\ thread' = "poll"
  /\ UNCHANGED <<told, kernel, overrun, uhidRead, uhidWrite, hostSent, hostGot>>

\* Mutant: the poll puts the report before those that wait.
PollOvertakes(receiver) ==
  /\ thread = "poll" /\ kernel # <<>>
  /\ kernel' = Tail(kernel)
  /\ IF receiver
     THEN uhidRead' = <<Head(kernel)>> \o uhidRead /\ thread' = "check"
     ELSE thread' = "gone" /\ UNCHANGED uhidRead
  /\ UNCHANGED <<told, overrun, uhidWrite, hostSent, hostGot>>

\* One output report per turn of the loop.  If the receiver of the channel has
\* been dropped the report is lost and the thread ends.
PollReport(receiver) ==
  /\ thread = "poll" /\ kernel # <<>>
  /\ kernel' = Tail(kernel)
  /\ IF receiver
     THEN uhidRead' = Append(uhidRead, Head(kernel)) /\ thread' = "check"
     ELSE thread' = "gone" /\ UNCHANGED uhidRead
  /\ UNCHANGED <<told, overrun, uhidWrite, hostSent, hostGot>>

\* No event is queued, or one that is not an output report.
PollNothing ==
  /\ thread = "poll" /\ kernel = <<>>
  /\ thread' = "check"
  /\ UNCHANGED <<told, kernel, overrun, uhidRead, uhidWrite, hostSent, hostGot>>

\* Writing to the device, or reading from it, fails.
DeviceFails ==
  /\ \/ thread = "poll"
     \/ thread = "write" /\ uhidWrite # <<>>
  /\ thread' = "gone"
  /\ UNCHANGED <<told, kernel, overrun, uhidRead, uhidWrite, hostSent, hostGot>>

ThreadLoop(receiver) ==
  CheckShutdown \/ WriteInput \/ WriteDone \/ PollReport(receiver) \/ PollNothing
-----------------------------------------------------------------------------
Reports == 1..MaxReports

ThreadTypeOK ==
  /\ thread \in {"none", "check", "write", "poll", "gone"}
  /\ told \in BOOLEAN
  /\ kernel \in Seq(Reports) /\ Len(kernel) <= KernelCap
  /\ overrun \in SUBSET Reports
  /\ uhidRead \in Seq(Reports) /\ uhidWrite \in Seq(Reports)
  /\ hostSent \in 0..MaxReports
  /\ hostGot \in Seq(Reports)

\* "Gracefully stop the bridge and close the UHID device" (Bridge::stop): once
\* the bridge is stopped, or dropped, the device disappears.
StopClosesDevice == told ~> ~DeviceOpen
=============================================================================
