------------------------------- MODULE Daemon -------------------------------
(***************************************************************************)
(* The daemon process (daemon/mod.rs) around the registry: the accept loop *)
(* with the Notify that ends it, one task per connection, the task that    *)
(* waits for SIGTERM or SIGINT, and the exit of the process, which takes   *)
(* every task with it wherever it stands.                                  *)
(*                                                                         *)
(* The callers of the registry are the connection tasks and the signal     *)
(* task.  Each connection carries one request, as clients use it.          *)
(***************************************************************************)
EXTENDS Registry

CONSTANTS
  SignalTask,       \* the caller that is the signal task
  Requests,         \* the registry commands that clients send
  ClientsMayLeave,  \* whether a client may hang up before it is answered
  AcceptMayFail     \* whether accept() may return an error

Conns == Callers \ {SignalTask}
ShutdownCommand == [op |-> "Shutdown", id |-> None]

ASSUME DaemonAssumption ==
  /\ SignalTask \in Callers
  /\ Requests \subseteq Commands
  /\ ClientsMayLeave \in BOOLEAN
  /\ AcceptMayFail \in BOOLEAN

VARIABLES
  main,      \* the accept loop: "select", "break" once it is left, "exited"
  notified,  \* the Notified future of this turn of the loop has been woken
  conn,      \* each connection's task
  gone,      \* the clients that hung up
  heard,     \* what each client has been answered
  signal,    \* the signal task: "armed", "draining" or "done"
  failed,    \* history: the loop was left because accept() failed
  drained,   \* history: a shutdown command has been answered
  late       \* history: the rigs acquired after that

loopVars    == <<main, notified, failed>>
connVars    == <<conn, gone, heard>>
historyVars == <<drained, late>>
daemonVars  == <<vars, loopVars, connVars, signal, historyVars>>

DaemonInit ==
  /\ Init
  /\ main = "select" /\ notified = FALSE /\ failed = FALSE
  /\ conn  = [c \in Conns |-> "none"]
  /\ gone  = {}
  /\ heard = [c \in Conns |-> "nothing"]
  /\ signal = "armed"
  /\ drained = FALSE /\ late = {}

Up == main # "exited"
-----------------------------------------------------------------------------
(***************************************************************************)
(* Clients.                                                                *)
(***************************************************************************)

\* The kernel queues the connection; accept() has yet to return it.
Connect(c) ==
  /\ Up /\ conn[c] = "none"
  /\ conn' = [conn EXCEPT ![c] = "backlog"]
  /\ UNCHANGED <<vars, loopVars, gone, heard, signal, historyVars>>

\* A client goes away before its answer is written.  One that goes away before
\* it has sent a request is seen as such by ReadNothing.
HangUp(c) ==
  /\ ClientsMayLeave
  /\ Up /\ conn[c] \in {"dispatch", "pong"} /\ c \notin gone
  /\ gone' = gone \cup {c}
  /\ UNCHANGED <<vars, loopVars, conn, heard, signal, historyVars>>
-----------------------------------------------------------------------------
(***************************************************************************)
(* The accept loop.  Each turn of it makes a new Notified future, and a    *)
(* turn that takes a connection drops it, woken or not: select! may pick   *)
(* the connection when both are ready, and notify_waiters() stores nothing *)
(* for a loop that is between two turns.                                   *)
(***************************************************************************)

Accept(c) ==
  /\ main = "select"
  /\ conn[c] = "backlog"
  /\ conn' = [conn EXCEPT ![c] = "reading"]
  /\ notified' = FALSE
  /\ UNCHANGED <<vars, main, failed, gone, heard, signal, historyVars>>

BreakOnNotify ==
  /\ main = "select" /\ notified
  /\ main' = "break"
  /\ UNCHANGED <<vars, notified, failed, connVars, signal, historyVars>>

BreakOnAcceptError ==
  /\ AcceptMayFail
  /\ main = "select"
  /\ main' = "break" /\ failed' = TRUE
  /\ UNCHANGED <<vars, notified, connVars, signal, historyVars>>

\* run() returns and main() calls process::exit: no destructor runs, so child
\* processes live on; the kernel closes the /dev/uhid descriptors.
Exit ==
  /\ main = "break"
  /\ main' = "exited"
  /\ conn' = [c \in Conns |-> IF conn[c] = "none" THEN "none" ELSE "closed"]
  /\ uhid' = [r \in Rigs |-> IF uhid[r] = "none" THEN "none" ELSE "closed"]
  /\ UNCHANGED <<callerVars, queue, instances, taskVars, emu,
                 notified, failed, gone, heard, signal, historyVars>>
-----------------------------------------------------------------------------
(***************************************************************************)
(* handle_connection and dispatch.                                         *)
(***************************************************************************)

\* The client closed before sending, or sent something that does not parse:
\* the task ends without an answer.
ReadNothing(c) ==
  /\ Up /\ conn[c] = "reading"
  /\ conn' = [conn EXCEPT ![c] = "closed"]
  /\ UNCHANGED <<vars, loopVars, gone, heard, signal, historyVars>>

ReadPing(c) ==
  /\ Up /\ conn[c] = "reading"
  /\ conn' = [conn EXCEPT ![c] = "pong"]
  /\ UNCHANGED <<vars, loopVars, gone, heard, signal, historyVars>>

ReadRequest(c) ==
  /\ Up /\ conn[c] = "reading"
  /\ \E command \in Requests : Send(c, command)
  /\ conn' = [conn EXCEPT ![c] = "dispatch"]
  /\ UNCHANGED <<loopVars, gone, heard, signal, historyVars>>

WritePong(c) ==
  /\ Up /\ conn[c] = "pong"
  /\ conn'  = [conn EXCEPT ![c] = "closed"]
  /\ heard' = IF c \in gone THEN heard ELSE [heard EXCEPT ![c] = "Pong"]
  /\ UNCHANGED <<vars, loopVars, gone, signal, historyVars>>

\* Mutant: the answer is lost.
WriteReplyLost(c) ==
  /\ Up /\ conn[c] = "dispatch" /\ cmd[c] # ShutdownCommand
  /\ TakeReply(c)
  /\ conn' = [conn EXCEPT ![c] = "closed"]
  /\ UNCHANGED <<loopVars, gone, heard, signal, historyVars>>

\* The answer of any command but Shutdown is written, or writing it fails.
WriteReply(c) ==
  /\ Up /\ conn[c] = "dispatch" /\ cmd[c] # ShutdownCommand
  /\ TakeReply(c)
  /\ conn'  = [conn EXCEPT ![c] = "closed"]
  /\ heard' = IF c \in gone THEN heard ELSE [heard EXCEPT ![c] = reply[c].kind]
  /\ UNCHANGED <<loopVars, gone, signal, historyVars>>

\* Mutant: the loop is notified with the answer still unwritten (v0.1.1).
NotifyBeforeWrite(c) ==
  /\ Up /\ conn[c] = "dispatch" /\ cmd[c] = ShutdownCommand
  /\ TakeReply(c)
  /\ c \notin gone
  /\ conn' = [conn EXCEPT ![c] = "notify"]
  /\ UNCHANGED <<loopVars, gone, heard, signal, historyVars>>

\* The answer to Shutdown is written before the loop is notified ...
WriteShuttingDown(c) ==
  /\ Up /\ conn[c] = "dispatch" /\ cmd[c] = ShutdownCommand
  /\ TakeReply(c)
  /\ c \notin gone
  /\ conn'  = [conn EXCEPT ![c] = "notify"]
  /\ heard' = [heard EXCEPT ![c] = reply[c].kind]
  /\ UNCHANGED <<loopVars, gone, signal, historyVars>>

\* ... and if that fails, the `?` returns before the notification.
WriteShuttingDownFails(c) ==
  /\ Up /\ conn[c] = "dispatch" /\ cmd[c] = ShutdownCommand
  /\ TakeReply(c)
  /\ c \in gone
  /\ conn' = [conn EXCEPT ![c] = "closed"]
  /\ UNCHANGED <<loopVars, gone, heard, signal, historyVars>>

\* Mutant: the connection ends without a notification.
NotifyForgotten(c) ==
  /\ Up /\ conn[c] = "notify"
  /\ conn' = [conn EXCEPT ![c] = "closed"]
  /\ UNCHANGED <<vars, loopVars, gone, heard, signal, historyVars>>

\* notify_waiters wakes the future the loop waits on, if it waits.
NotifyExit(c) ==
  /\ Up /\ conn[c] = "notify"
  /\ conn' = [conn EXCEPT ![c] = "closed"]
  /\ notified' = (notified \/ main = "select")
  /\ UNCHANGED <<vars, main, failed, gone, heard, signal, historyVars>>
-----------------------------------------------------------------------------
(***************************************************************************)
(* The signal task: it serves one signal in the daemon's life.             *)
(***************************************************************************)

SignalArrives ==
  /\ Up /\ signal = "armed"
  /\ Send(SignalTask, ShutdownCommand)
  /\ signal' = "draining"
  /\ UNCHANGED <<loopVars, connVars, historyVars>>

\* Mutant: the signal task does not wait for the drain.
SignalDoesNotWait ==
  /\ Up /\ signal = "draining"
  /\ signal' = "done"
  /\ notified' = (notified \/ main = "select")
  /\ UNCHANGED <<vars, main, failed, connVars, historyVars>>

SignalNotifies ==
  /\ Up /\ signal = "draining"
  /\ TakeReply(SignalTask)
  /\ signal' = "done"
  /\ notified' = (notified \/ main = "select")
  /\ UNCHANGED <<main, failed, connVars, historyVars>>
-----------------------------------------------------------------------------
(***************************************************************************)
(* The registry within the daemon.                                         *)
(***************************************************************************)

RecordHistory ==
  /\ drained' = (drained \/ \E c \in Callers : /\ pc[c] = "awaiting" /\ pc'[c] = "answered"
                                               /\ reply'[c].kind = "ShuttingDown")
  /\ late' = late \cup {r \in Rigs : drained /\ emu[r] = "none" /\ emu'[r] = "running"}

RegistryStep ==
  /\ Up
  /\ Task \/ \E c \in Callers : Enqueue(c)
  /\ RecordHistory
  /\ UNCHANGED <<loopVars, connVars, signal>>

SystemStep ==
  /\ System
  /\ UNCHANGED <<loopVars, connVars, signal, historyVars>>

Connection(c) ==
  \/ ReadNothing(c) \/ ReadPing(c) \/ ReadRequest(c)
  \/ WritePong(c) \/ WriteReply(c)
  \/ WriteShuttingDown(c) \/ WriteShuttingDownFails(c) \/ NotifyExit(c)

DaemonNext ==
  \/ \E c \in Conns : Connect(c) \/ HangUp(c) \/ Accept(c) \/ Connection(c)
  \/ BreakOnNotify \/ BreakOnAcceptError \/ Exit
  \/ SignalArrives \/ SignalNotifies
  \/ RegistryStep \/ SystemStep

DaemonSpec == DaemonInit /\ [][DaemonNext]_daemonVars

\* The runtime polls every task that is ready; a client that connected sends
\* its request or closes.  Clients, signals and accept errors owe nothing.
DaemonFairness ==
  /\ \A c \in Conns : WF_daemonVars(Accept(c)) /\ WF_daemonVars(Connection(c))
  /\ WF_daemonVars(BreakOnNotify) /\ WF_daemonVars(Exit)
  /\ WF_daemonVars(SignalNotifies)
  /\ \A c \in Callers :
       /\ WF_daemonVars(RegistryStep /\ Serve(c))
       /\ SF_daemonVars(RegistryStep /\ Enqueue(c))
  /\ WF_daemonVars(RegistryStep /\ step # "recv" /\ Task)

FairDaemonSpec == DaemonSpec /\ DaemonFairness
-----------------------------------------------------------------------------
(***************************************************************************)
(* Properties.                                                             *)
(***************************************************************************)

\* Every variable stays within its type.
DaemonTypeOK ==
  /\ TypeOK
  /\ main \in {"select", "break", "exited"}
  /\ notified \in BOOLEAN /\ failed \in BOOLEAN /\ drained \in BOOLEAN
  /\ conn \in [Conns -> {"none", "backlog", "reading", "dispatch", "pong", "notify", "closed"}]
  /\ gone \in SUBSET Conns
  /\ heard \in [Conns -> {r.kind : r \in Replies} \cup {"nothing", "Pong"}]
  /\ signal \in {"armed", "draining", "done"}
  /\ late \in SUBSET Rigs

\* A daemon that leaves its loop because a client asked it to has told a client
\* so: the process does not exit between the drain and the answer ("doing this
\* earlier raced the main loop's process::exit against our write_frame").
ExitAfterAnswer ==
  main # "select" /\ signal # "done" /\ ~failed
  => \E c \in Conns : heard[c] = "ShuttingDown"

\* Whoever asked for the exit, a simulator that outlives the daemon was started
\* after a drain had finished: the drain missed none that came before it, and
\* the loop is not left before the drain is over.
ExitAfterDrain ==
  ~Up /\ ~failed => \A r \in Rigs : emu[r] = "running" => r \in late

\* A client that stays on the line hears one answer to what it asked for, or
\* sees the connection end with the daemon.
ClientsHear ==
  \A c \in Conns :
    conn[c] \in {"dispatch", "pong"} /\ c \notin gone
    ~> heard[c] # "nothing" \/ ~Up \/ c \in gone

\* Once every connection has been accepted, a shutdown that was answered, or a
\* signal that was received, ends the process.
QuietShutdown ==
  (/\ \A c \in Conns : conn[c] \notin {"none", "backlog"}
   /\ \/ \E c \in Conns : conn[c] = "notify"
      \/ signal = "draining")
  ~> ~Up

\* "Drain every instance and exit the daemon cleanly" (docs/cli.md): a shutdown
\* that was answered ends the process.
ShutdownExits ==
  \A c \in Conns : heard[c] = "ShuttingDown" ~> ~Up

\* "Ask the daemon to exit cleanly, dropping all instances" (control's
\* Request::Shutdown): no simulator outlives the daemon.
NoOrphans == ~Up => \A r \in Rigs : emu[r] # "running"
=============================================================================
