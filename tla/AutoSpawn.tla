----------------------------- MODULE AutoSpawn -----------------------------
(***************************************************************************)
(* How clients find a daemon, or make one (auto_spawn.rs), against how     *)
(* daemons come to and leave the socket path (daemon/mod.rs).  Processes   *)
(* share nothing but that path: whoever unlinks it unlinks what is there   *)
(* now, which need not be what was there when it looked.                   *)
(***************************************************************************)
EXTENDS Naturals, FiniteSets

CONSTANTS
  Clients,       \* the clients; each spawns at most one daemon, of its name
  Manual,        \* daemons that are launched by hand
  None,          \* no file at the path
  MayLeave,      \* whether a daemon may be shut down
  MayCrash,      \* whether a daemon may be killed
  MayFail,       \* whether a call to the system may fail for its own reasons
  DeadlinePasses \* whether the 5 s of wait_for_socket may not be enough

Daemons == Clients \cup Manual

ASSUME AutoSpawnAssumption ==
  /\ None \notin Daemons
  /\ Clients \cap Manual = {}
  /\ {MayLeave, MayCrash, MayFail, DeadlinePasses} \subseteq BOOLEAN
  /\ IsFiniteSet(Daemons)

VARIABLES
  path,    \* the daemon whose socket is at the path, dead or alive, or None
  client,  \* "connect", "unlink", "spawn", "poll"; "connected", "failed" or,
           \* where the daemon could not be spawned, "spawnless"
  daemon,  \* "none", "check", "remove", "bind", "listen", "leave", "exit"; with
           \* exit code 2, "gaveup" because of another process at the path or
           \* "unable" for another reason; "dead", or "old" before all began
  raced    \* history: Racing has been true

spawnVars == <<path, client, daemon, raced>>

\* A socket takes connections until its daemon's process has ended.
Listening == {d \in Daemons : daemon[d] \in {"listen", "leave", "exit"}}

\* No daemon runs; one that crashed may have left its socket behind.
SpawnInit ==
  /\ path \in Manual \cup {None}
  /\ client = [c \in Clients |-> "connect"]
  /\ daemon = [d \in Daemons |-> IF d = path THEN "old" ELSE "none"]
  /\ raced = FALSE

ClientGoes(c, to) == client' = [client EXCEPT ![c] = to]
DaemonGoes(d, to) == daemon' = [daemon EXCEPT ![d] = to]
-----------------------------------------------------------------------------
(***************************************************************************)
(* A client: connect_or_spawn.                                             *)
(***************************************************************************)

\* Mutant: spawn first, without a look at the socket.
TryNothing(c) ==
  /\ client[c] = "connect"
  /\ ClientGoes(c, "unlink")
  /\ UNCHANGED <<path, daemon>>

\* The first connect; only a missing or a refusing socket leads to a spawn.
TryConnect(c) ==
  /\ client[c] = "connect"
  /\ ClientGoes(c, IF path \in Listening THEN "connected" ELSE "unlink")
  /\ UNCHANGED <<path, daemon>>

\* Any other error of the first connect ends the client.
ConnectFails(c) ==
  /\ MayFail
  /\ client[c] = "connect"
  /\ ClientGoes(c, "failed")
  /\ UNCHANGED <<path, daemon>>

\* exists() and remove_file(), whose error is ignored: the socket that is at
\* the path by now goes.
UnlinkStale(c) ==
  /\ client[c] = "unlink"
  /\ path' = None
  /\ ClientGoes(c, "spawn")
  /\ UNCHANGED daemon

UnlinkFails(c) ==
  /\ MayFail
  /\ client[c] = "unlink" /\ path # None
  /\ ClientGoes(c, "spawn")
  /\ UNCHANGED <<path, daemon>>

SpawnDaemon(c) ==
  /\ client[c] = "spawn"
  /\ ClientGoes(c, "poll")
  /\ DaemonGoes(c, "check")
  /\ UNCHANGED path

\* current_exe() or spawn() fails, after the socket has been unlinked.
SpawnFails(c) ==
  /\ MayFail
  /\ client[c] = "spawn"
  /\ ClientGoes(c, "spawnless")
  /\ UNCHANGED <<path, daemon>>

\* Mutant: the client waits for the daemon it spawned itself.
PollOwnDaemon(c) ==
  /\ client[c] = "poll" /\ path = c /\ c \in Listening
  /\ ClientGoes(c, "connected")
  /\ UNCHANGED <<path, daemon>>

\* wait_for_socket: any daemon at the path will do.
PollConnects(c) ==
  /\ client[c] = "poll" /\ path \in Listening
  /\ ClientGoes(c, "connected")
  /\ UNCHANGED <<path, daemon>>

\* Mutant: the client spawns once more.
PollSpawnsAgain(c) ==
  /\ DeadlinePasses
  /\ client[c] = "poll"
  /\ ClientGoes(c, "spawn")
  /\ UNCHANGED <<path, daemon>>

PollTimesOut(c) ==
  /\ DeadlinePasses
  /\ client[c] = "poll"
  /\ ClientGoes(c, "failed")
  /\ UNCHANGED <<path, daemon>>
-----------------------------------------------------------------------------
(***************************************************************************)
(* A daemon: run, before and after its loop.                               *)
(***************************************************************************)

LaunchByHand(d) ==
  /\ d \in Manual /\ daemon[d] = "none"
  /\ DaemonGoes(d, "check")
  /\ UNCHANGED <<path, client>>

CheckStale(d) ==
  /\ daemon[d] = "check"
  /\ DaemonGoes(d, IF path = None THEN "bind" ELSE "remove")
  /\ UNCHANGED <<path, client>>

\* A file that has gone in the meantime is an error, and the daemon ends.
RemoveStale(d) ==
  /\ daemon[d] = "remove"
  /\ path' = None
  /\ DaemonGoes(d, IF path = None THEN "gaveup" ELSE "bind")
  /\ UNCHANGED client

\* A file that has come in the meantime makes bind() fail, and the daemon ends.
Bind(d) ==
  /\ daemon[d] = "bind"
  /\ IF path = None
     THEN path' = d /\ DaemonGoes(d, "listen")
     ELSE DaemonGoes(d, "gaveup") /\ UNCHANGED path
  /\ UNCHANGED client

\* Before it listens: the log cannot be opened, or the removal or bind() fails
\* for a reason that is not another process at the path.
StartFails(d) ==
  /\ MayFail
  /\ daemon[d] \in {"check", "remove", "bind"}
  /\ DaemonGoes(d, "unable")
  /\ UNCHANGED <<path, client>>

\* A shutdown, a signal (Daemon.tla) or an error of accept() ends the loop ...
LeaveLoop(d) ==
  /\ MayLeave
  /\ daemon[d] = "listen"
  /\ DaemonGoes(d, "leave")
  /\ UNCHANGED <<path, client>>

\* ... the path is unlinked, whatever is there and unless that fails ...
UnlinkOwn(d) ==
  /\ daemon[d] = "leave"
  /\ path' = None
  /\ DaemonGoes(d, "exit")
  /\ UNCHANGED client

UnlinkOwnFails(d) ==
  /\ MayFail
  /\ daemon[d] = "leave" /\ path # None
  /\ DaemonGoes(d, "exit")
  /\ UNCHANGED <<path, client>>

\* ... and the process ends.
EndProcess(d) ==
  /\ daemon[d] = "exit"
  /\ DaemonGoes(d, "dead")
  /\ UNCHANGED <<path, client>>

Crash(d) ==
  /\ MayCrash
  /\ daemon[d] \in {"check", "remove", "bind", "listen", "leave", "exit"}
  /\ DaemonGoes(d, "dead")
  /\ UNCHANGED <<path, client>>
-----------------------------------------------------------------------------
ClientStep(c) ==
  TryConnect(c) \/ UnlinkStale(c) \/ SpawnDaemon(c) \/ PollConnects(c)

DaemonStep(d) ==
  CheckStale(d) \/ RemoveStale(d) \/ Bind(d) \/ UnlinkOwn(d) \/ EndProcess(d)

\* The processes that are on their way to the socket or away from it.
Moving ==
  {d \in Daemons : \/ daemon[d] \in {"check", "remove", "bind", "leave", "exit"}
                   \/ d \in Clients /\ client[d] \in {"unlink", "spawn"}}

\* Two of them at once, or a launch by hand beside a daemon that serves.
Racing ==
  \/ Cardinality(Moving) > 1
  \/ Listening # {} /\ \E d \in Manual : daemon[d] = "check"

RecordRaces == raced' = (raced \/ Racing')

ClientMoves(c)  == ClientStep(c) /\ RecordRaces
DaemonMoves(d)  == DaemonStep(d) /\ RecordRaces

ClientFails(c) ==
  ConnectFails(c) \/ UnlinkFails(c) \/ SpawnFails(c) \/ PollTimesOut(c)

DaemonFails(d) == StartFails(d) \/ UnlinkOwnFails(d) \/ Crash(d)

\* What no process has to do.
Happens ==
  \/ \E c \in Clients : ClientFails(c)
  \/ \E d \in Daemons : LaunchByHand(d) \/ LeaveLoop(d) \/ DaemonFails(d)

SpawnNext ==
  \/ \E c \in Clients : ClientMoves(c)
  \/ \E d \in Daemons : DaemonMoves(d)
  \/ Happens /\ RecordRaces

SpawnSpec == SpawnInit /\ [][SpawnNext]_spawnVars

\* Every process runs, and a poll is repeated.  Nobody has to leave, to fail, to
\* crash, or to be too slow.
FairSpawnSpec ==
  /\ SpawnSpec
  /\ \A c \in Clients : WF_spawnVars(ClientMoves(c))
  /\ \A d \in Daemons : WF_spawnVars(DaemonMoves(d))
-----------------------------------------------------------------------------
(***************************************************************************)
(* Properties.                                                             *)
(***************************************************************************)

\* Every variable stays within its type, and a client spawns one daemon.
SpawnTypeOK ==
  /\ path \in Daemons \cup {None}
  /\ client \in [Clients -> {"connect", "unlink", "spawn", "poll", "connected",
                          "failed", "spawnless"}]
  /\ daemon \in [Daemons -> {"none", "check", "remove", "bind", "listen", "leave",
                             "exit", "gaveup", "unable", "dead", "old"}]
  /\ raced \in BOOLEAN
  /\ \A c \in Clients : client[c] \in {"connect", "unlink", "spawn"} => daemon[c] = "none"

\* "auto-spawning one if the socket isn't live" (docs/cli.md): a client that
\* waits gets a connection, whichever other clients unlink what it waits for
\* and whichever daemons give up because of each other: the last socket to be
\* unlinked is followed by one that binds.  It may also be left without where
\* its deadline passes ("failed"), where a daemon leaves, taking a socket with
\* it, or crashes, where a daemon can neither open its log, nor unlink, nor bind
\* for reasons of the system, and where a client has unlinked the socket of a
\* daemon and then cannot spawn one itself.
SomebodyBinds ==
  \A c \in Clients :
    client[c] = "poll"
    ~> \/ client[c] \in {"connected", "failed"}
       \/ \E d \in Daemons : daemon[d] \in {"leave", "exit", "dead", "unable"}
       \/ \E b \in Clients : client[b] = "spawnless"

\* Where no two starts, and no start and exit, overlap, and nobody launches a
\* daemon beside another, at most one serves, and clients reach it: crashes,
\* failures, stale files and deadlines that pass do no harm.
AloneUnlessRaced ==
  raced \/ /\ Cardinality(Listening) <= 1
           /\ \A d \in Daemons : daemon[d] = "listen" => path = d

\* "a shared local daemon. Run `hwwctl daemon` once per host (or rely on
\* auto-spawn)" (main.rs): no two daemons serve at once.
OneDaemon == Cardinality(Listening) <= 1
=============================================================================
