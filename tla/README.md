# hwwctl in TLA+

hwwctl drives emulated hardware wallets from tests.  A long-lived daemon owns
the simulators and the virtual HID devices through which host software sees
them; short-lived clients ask it, over a Unix socket, to start, inspect and stop
them.  This directory holds the specifications of that program, the TLC
configurations that check them on small instances, and the theorems that TLAPS
checks for instances of any size.

`PROJECT.json` lists the components, the runs, for each property a mutated
definition that must break it, the source lines each definition stands for, the
findings, the hazards and the theorems.

## The system

Paths are below `src/crates/`.

| Component | State it keeps | Operations | What is hard | What makes it correct |
|---|---|---|---|---|
| instance registry `hwwctl/src/daemon/registry.rs` | the map of instances, a channel of 64 commands | start, stop, status, logs, bridge-stats, shutdown, served one at a time | each command awaits several times while processes and threads die; starts share one queue with everything else | commands take effect atomically, nothing is leaked, every caller is answered, a shutdown leaves nothing behind |
| start sequence `daemon/spawn.rs`, `hidraw_scan.rs` | what the start has acquired so far | pick a port, spawn, seed, attach the bridge, find the hidraw node, insert | six exits after the first acquisition, each with its own cleanup | an exit releases what was acquired before it |
| daemon `daemon/mod.rs`, `main.rs` | the listening socket, a `Notify`, one task per connection | accept, dispatch, signal, exit | exit races the answer, the drain, new connections and other starts | the client that asked for a shutdown is told; the exit waits for the drain; nothing outlives it |
| client and auto-spawn `auto_spawn.rs`, `client.rs` | none but the socket path | connect, unlink, spawn, poll | clients and daemons share only a path, and unlink what they did not look at | whoever waits gets a daemon; there is one daemon |
| control protocol `control/src/lib.rs` | none | framing, codes, mnemonic normalisation | partial frames | a frame is read whole or not at all |
| instance record and logs `daemon/instance.rs` | two ring buffers, four counters | collect logs, count | eviction, a merge of sources of which one has no time stamps | order, bounds |
| emulators `emulators/src/generic.rs`, `trezor.rs` | child process, status, log buffer | start, stop, status, probe | a failed start leaves a status; probes that cannot fail; restart over a live child | the status tells the truth, one child at a time |
| generic bridge `bridge/src/generic.rs` | a device thread, relay tasks, four channels | start, stop, drop, over TCP, Unix stream or Unix datagram | reports in two directions through a thread and tasks, each of which may end first; Unix sockets reconnect, and the reader of the old connection lives on | nothing doubled or overtaken, lost only with a connection; the log is complete; a stopped bridge's device goes |
| Trezor bridge `bridge/src/trezor.rs` | the same over UDP | start, stop, drop | datagrams lost or refused | the same, without the delivery |
| virtual HID device `bridge/src/uhid.rs` | a `/dev/uhid` descriptor | create, write, poll | the kernel's event queue is short and drops | |
| bundler `bundler/src/` | the bundle directory of a wallet, a manifest in it | download, extract, record, remove, status | everything is unpacked into the live directory; failures and crashes at each step; leftovers of older releases | what the manifest records is whole, and the binary it names is of that release |
| Trezor wire clients `protocol/src/` | a UDP socket per port, none of whose datagrams carries a request number | frame, reassemble, call, confirm | late, lost and half-received answers after a timeout | the answer belongs to the question, the Yes to the request |
| wallet tables, output formatting, build scripts, udev rules, docs, website | none | | | |

How they interact.  `client` connects to the daemon's socket, or spawns a daemon
(**AutoSpawn**).  A connection task turns a request into a command on the
registry's channel and awaits a oneshot (**Daemon**).  The registry task runs
the start sequence or a stop, which call the emulator and the bridge
(**Registry**).  The emulator spawns, probes, signals and reaps a process
(**Emulator**).  A bridge has a thread, which owns the device, and relay tasks
connected to it by channels (**HidThread**, **Bridge**, **UnixRelay**,
**TrezorBridge**); its intercept channel feeds the logs.  The binary a start
runs is the one that the bundler's manifest names (**Bundler**).  Tests talk to
a Trezor emulator directly, over UDP (**TrezorWire**).

## Modules

| Module | Models | State and actions |
|---|---|---|
| `Control` | `Request`, `Response`, `ErrorCode`, the registry's `Command` | no state: the sets of commands and answers, and what a read answers |
| `InstanceService` | what callers may assume of the registry | the ids that are live; each command takes effect in one step (`Perform...`) between `Call` and `Return` |
| `Registry` | `registry.rs`, `spawn.rs`, and of the emulator and the bridge what those call | `queue` is the mpsc channel, `pc`/`cmd`/`reply` the oneshots, `instances` the map, `step` the await the task is at, `rig`/`newId`/`failure`/`todo` its locals; one action per stretch between awaits |
| `Daemon` (extends `Registry`) | `daemon/mod.rs`, `main.rs` | `main` is the accept loop, `notified` the `Notified` future of the current `select!`, `conn` the connection tasks, `signal` the signal task |
| `AutoSpawn` | `auto_spawn.rs`, the ends of `daemon::run` | `path` is the file at the socket path, `client` and `daemon` the program counters of the processes |
| `Emulator` | `GenericEmulator`, `TrezorEmulator` | `status` and `child` are the fields, `call` the await of the call in progress, `victim` the handle `stop` has taken, `proc` and `killed` the processes; `kind` is the way a start waits: a connection, a datagram, a delay |
| `HidThread` | `spawn_uhid_thread` of both bridges, `uhid.rs`, the kernel's event queue | `thread` is where the loop is, `kernel` the event queue, `uhidRead`/`uhidWrite` the channels |
| `Bridge` (extends `HidThread`) | `GenericBridge` over TCP | `taskA`, `taskB` the relay tasks, `wire` and `unread` what waits in the socket on the way to the host and to the emulator, `tap` the intercept channel, `owner` the calls of the bridge's owner |
| `UnixRelay` (extends `Bridge`) | `GenericBridge` over Unix stream and Unix datagram sockets | `relay` is where the one relay task is, `conn` and `live` its connection, `reader` and `wires` the reader and the socket of each connection ever made, `deaths` those of the emulator and `swallowed` what it had not read then; `transport` is chosen in the initial state |
| `TrezorBridge` (extends `HidThread`) | `TrezorBridge` | as `Bridge`, over UDP, with the socket's pending error (`refused`) |
| `Bundler` | `BundleManager`, `download.rs`, `storage.rs`, `manifest.rs`, the look of `spawn.rs` at the manifest | `file`, `manifest`, `archive`, `tmp` are the directory, `step` the await the call is at, `left` and `writing` the extraction, `progress` the watch channel; a crash keeps the directory |
| `TrezorWire` | `TrezorWireClient`, `TrezorDebugLink` | `call` is the call in progress with the packets it has, `queue` the socket's buffer, `inbox` and `work` the emulator; `size` and `looks` are the data of the answers |
| `RegistryProofs`, `DaemonProofs`, `AutoSpawnProofs`, `EmulatorProofs`, `BridgeProofs`, `BundlerProofs`, `TrezorBridgeProofs`, `TrezorWireProofs` | | the theorems below; each extends its module, `BridgeProofs` extends `UnixRelay` and so speaks of all transports |
| `MC...` | | the sets of a small instance, for the configurations of the same name |

What the abstractions are.

* A *rig* in `Registry` is what a start acquires: a simulator process (`emu`)
  and a UHID device (`uhid`).  Ports, profile directories and hidraw paths are
  reduced to the success or failure of the start.  The id a start allocates is
  any id, one in use included: the code draws 24 bits and does not compare.
* Status with an id, logs and bridge-stats read the instance record, which is
  not modelled; to the registry's map they are the same command, `Lookup`.
* The daemon runs as on Linux, for BitBox02, the one wallet it starts; the
  others are refused (`WalletUnsupported`).
* `Registry` uses of an emulator that it runs, that it may exit, and that it is
  dead after a stop.  `Emulator` has the rest: calls that return early, a spawn
  that fails after the status was set, a start over the child of a start that
  timed out.  The simulator exits if it cannot bind its address.  The lines it
  prints are left out.
* A report is its number.  The strip of a leading report id, the padding of a
  datagram, hex dumps and decoding are left out.  Events of `/dev/uhid` that are
  not output reports (open, close, start, get-report) are left out of the queue.
* The relay and readers of a datagram bridge differ from those of a stream
  in two points, which the model keeps: the path the client binds is one
  for the process, and a reader hears of no end of the connection.  An open may
  fail whoever listens (`OpenFails`): that path may not be bound, or the
  listener's queue may be full.
* A write returns once the kernel has buffered the report (`unread`); the emulator
  reads it later or never, and a full buffer, of `SocketCap` reports, makes the
  writer wait.  The emulator is taken to read its connections in the order in
  which they were written, so that one buffer stands for those of all: two are
  in use at once only when the thread has gone, for what it left in its channel.
* `AutoSpawn` takes `UnixListener::bind` as one step, although the kernel
  creates the file a moment before it accepts connections.  Where `MayFail` is
  set each call to the system may fail for reasons of its own: `connect` with an
  error that is neither "no such file" nor "refused", an unlink, the spawn of the
  daemon after the stale socket is gone, and of the daemon its log, its unlink and
  its `bind`.
* A probe of `Emulator` that waits for a connection or a datagram may go on to
  its deadline, the datagram kind where no socket can be had or nothing can be
  sent; a delay has no deadline.
* In `Bundler` one call is in progress at a time and runs to its end or to a
  crash.  A caller that drops the future of `download` during the extraction
  leaves it running in `spawn_blocking`; nothing in the program does, and the
  model does not.  `remove_file` of the archive, whose result the code ignores,
  succeeds.  A file is the release it came from, or `Torn`; `tmp` is the file that
  a download is received into, `archive` the one that it is renamed to.
* In `TrezorWire` a message is the number of the request it answers, its type
  and its payload length.  Protobuf fields and the layout of the screen are left
  out.  A packet has its number in the message, which no client sees: a client tells
  a first packet by the bytes 3f 23 23 alone, and a further packet, whose first
  byte is 3f too, has whatever follows it in the payload.  So each further packet
  has a *look* (`looks`): it may read as a first packet with any type and length.
  The emulator is not part of the repository: it answers each request it gets, to
  the socket that sent it, and gives up a request when the next comes.

## Runs

Every run finishes in under five minutes with two workers.

| Run | Shows | Instance |
|---|---|---|
| `registry` | nothing leaks (`NoLeak`); no aliasing (`OneOwner`); no command is lost, served or answered twice (`CommandsTracked`); an instance is taken from its id only by a stop of it, a shutdown, or a start that drew its id (`TakenByCommand`, finding 6); a shutdown leaves nothing (`ShutdownDrains`); the registry implements `InstanceService` (`Linearizable`, finding 7); every command is answered (`EveryCommandAnswered`), every device let go of disappears (`DevicesDisappear`) | 2 callers, 1 slot, 2 ids, 2 rigs; 185,691 states |
| `daemon` | the exit waits for an answer (`ExitAfterAnswer`) and for the drain (`ExitAfterDrain`), with clients that hang up and an accept loop that fails; a client that stays hears an answer or the end of the daemon (`ClientsHear`); an exit that was asked for happens once no connection waits to be accepted (`QuietShutdown`) | 2 connections, a signal, 1 id, 1 rig; 148,427 states |
| `daemon_lost_wakeup` | refutes `ShutdownExits` (finding 1) | the same, nobody hangs up |
| `daemon_orphans` | refutes `NoOrphans` (finding 2) | the same with 2 rigs |
| `bridge_relay` | over TCP, reports cross without loss, doubling or overtaking (`RelayLossless`, `ReportsArrive`) and the log is never behind the wire (`TapTellsAll`); over Unix sockets, a death of the emulator costs what it had not read and one report at most besides (`UnixLossless`), a reconnection doubles and reorders nothing (`UnixInOrder`) and does not wait for the old reader (`UnixReportsArrive`); a stopped or dropped bridge loses its device, over each transport (`StopClosesDevice`) | 3 transports, 3 reports from each side, a kernel queue of 1, a socket of 2, 1 death; 613,737 states |
| `trezor_bridge_stop` | refutes `StopClosesDevice` for the Trezor bridge (finding 3) | 2 reports |
| `emulator` | no process strays (`NoStray`), the status agrees with the child (`StatusAgrees`), calls return and processes given up end, over repeated starts, timeouts, impatient stops and drops | each kind of emulator, 3 processes; 5,443 states |
| `emulator_udp_ready` | refutes `RunningIsReachable` (finding 4) | the datagram kind |
| `auto_spawn` | a daemon is alone and reachable unless starts overlap (`AloneUnlessRaced`); a client that waits gets a connection, but for the exceptions the property lists (`SomebodyBinds`) | 2 clients, 1 daemon by hand, every failure, crash and deadline; 24,066 states |
| `auto_spawn_race` | refutes `OneDaemon` (finding 5) | 2 clients, no crash, no failure, no exit, no deadline |
| `bundle_install` | what the installer recorded is whole (`RecordMeansWhole`), its binary of that release unless an older release left one of a better name (`BinaryOfRelease`), and what a call that returned has told its watcher and its caller and has left of its download (`ReturnLeaves`, findings 8 to 10) | 2 releases with binaries of different names, one shipping a manifest, archives of 2 pieces; 223,782 states |
| `trezor_wire` | on a socket on which every call got its answer, a call gets its own answer (`AnswerBelongs`) and confirms its own request (`ConfirmsOwnRequest`), if no lookalike of a first packet comes with a loss; while no packet is lost an answer is put together from two only on a socket that owes one, by a lookalike (`NeverMixed`); every call returns (`CallsReturn`) | 2 calls, 2 sockets for each port, packets with room for 2 and 3 bytes, answers of 2 and 8, further packets that read as a first one or do not, 2 rounds of confirmation; 889,819 states |

Why the bounds are enough.  Two callers and one slot put a caller in service
and one in the channel; the third situation there is, a caller that waits for
room, occurs in `daemon`, where the signal is a third caller of the same
registry, and the registry's safety is proved for any number.  Two rigs and two
ids give every collision: an id reused, an id taken over while its instance
runs, a drain with more than one instance.  A rig is never reused, so `Rigs`
bounds the number of starts; the theorems lift that bound.  In the daemon two
connections suffice for each race, as each race is between one connection that
asks for the exit and one that gets in its way.  In the bridge, a kernel queue of
one overflows with two reports and a third can overtake; the kernel has 31
places, and nothing depends on the number.  One death with three reports is the
least that fails a write, reconnects with the reader of the old connection still
busy, and writes again; a socket of two reports holds one that is not read when
the next comes, and fills.  In `AutoSpawn` two clients and a third daemon let each
unlink hit a file that is one, or two, daemons younger than the look before it.
Three processes let an emulator be started over a live child twice, or stopped
and started over one.  Two releases make every leftover and every mixture; two
pieces make an archive that is cut short.  In `TrezorWire` the sizes are those
that just fill one packet and three, where the count of packets is easiest to get
wrong: of three packets two may be taken for first ones, and the message that the
first of them announces ends in the middle of the next answer or with its own.
Two calls let an answer be late and be taken, whole or in parts, for that of
the next, and a second socket gives a fresh start after a timeout.

Deadlock is not checked where the system may stop: in the daemon, which exits,
in the bridges, which end with their reports, in the emulator, which ends when
it is dropped, in `AutoSpawn`, which ends with every client served, and in
`TrezorWire`, which ends with its calls.  In the registry and the bundler it is
checked.

No run uses symmetry: the runs it would help also check liveness, for which TLC's
symmetry is unsound.

### Fairness

* The tokio runtime polls a task that is ready: weak fairness for each action of
  the registry task, the connection tasks, the relay tasks, each reader of a
  Unix socket and the accept loop.  The kernel schedules threads and processes:
  weak fairness for the UHID thread, for clients and for daemons.  A process
  that was sent SIGKILL dies, and the timers of `start` and `stop` fire.
* A sender that waits for a slot in the command channel takes its turn (tokio
  queues senders first come, first served): strong fairness for `Enqueue`.
* `select!` picks at random among ready branches, so the daemon's loop may take
  connections for as long as there are any.  They run out: each client connects
  once in the model.
* A connection that was accepted reads its request or its end of file:
  `Connection` has weak fairness.  A client that connects and never writes is
  left out.
* Seeding ends (`SeedFairness`).  The code has no timeout there: it counts on
  the simulator to answer or to drop the connection.  `EveryCommandAnswered`
  and the liveness of the daemon hold under this assumption.
* A Trezor call is polled and its timer fires: weak fairness for `Client` alone.
* The emulator at the end of a bridge need not read its socket: a bridge whose
  writes block on a full one is an exception of `ReportsArrive` and
  `UnixReportsArrive`, which promise the report to the socket, not to the reader.
* Nothing is fair about clients that come, signals, hosts, emulators, the
  network, crashes, I/O errors or deadlines that pass.

### Findings

1. `notify_waiters()` wakes only futures that exist, and `select!` drops a
   woken future when it takes the accept branch.  A connection that is accepted
   as the notification comes makes a daemon stay that has answered
   `ShuttingDown` and drained (`daemon_lost_wakeup`).  `QuietShutdown` says what
   is left of the promise.
2. The registry serves a `Start` that comes between the drain and the exit; the
   exit runs no destructor, so its simulator stays (`daemon_orphans`).
   `ExitAfterDrain` says that such late starts are the only orphans.
3. `TrezorBridge::stop` drops the sender that its thread polls with
   `try_recv().is_ok()`, which a dropped sender never satisfies: the device
   stays (`trezor_bridge_stop`).  `GenericBridge` tests for `Closed` and passes
   the same property.  `NothingElseCloses` proves the cause: no step but a
   failing read or write of the device ever ends that thread.
4. The datagram probe of the emulators sends from a socket that is not
   connected, to which Linux reports no refusal; the receive times out, which
   counts as success whether or not anything listens (`emulator_udp_ready`).
   That a connection probe finds a listener holds by its guard; whether the
   listener is the child is another matter: it may be the child of an earlier
   start, which dies.
5. A client unlinks a socket file some time after it found it refused or
   missing; by then another client's daemon may have bound it.  Two daemons run,
   one without a socket (`auto_spawn_race`).  `SomebodyBinds` shows that the
   clients are served all the same.

6. A start draws 24 bits for its id and compares them with no other
   (`spawn.rs:384`, `:451`).  If the id is in use the new instance takes its
   place in the map and the old one is destroyed under its client.  The
   third alternative of `TakenByCommand` says so, and `NoLeak` that nothing of the old
   one is left; the protocol calls the serial made from the id unique per instance.
7. A stop of an unknown id is answered `Stopped` (`registry.rs:194`), and so it is
   in `InstanceService`.  The documents disagree with each other:
   `control/src/lib.rs:112` calls it idempotent, while `control/src/lib.rs:361`
   and `docs/cli.md:203` have `stop` answer `INSTANCE_NOT_FOUND`.
8. After a failed download the code removes the file of the archive's own name
   (`bundler/src/lib.rs:199`), but the data was received under another
   (`download.rs:152`), which stays, although the comment at `lib.rs:173`
   promises that the partial archive is cleaned up.  `ReturnLeaves` says what is
   left.
9. A directory that cannot be made is an error of which the watcher hears nothing
   (`bundler/src/lib.rs:185`), although `lib.rs:171` promises `Failed` for any step.
10. `BundleManager::download` says that after a failure "previously installed
   content for this wallet type is left untouched" (`bundler/src/lib.rs:174`).
   That is so until the extraction begins, which writes over it in place;
   `RecordMeansWhole` therefore speaks of a record since which no call has begun
   to unpack or remove.  Between a failed extraction and the next success the
   old manifest describes a directory that has changed.

Findings 1 to 5 have a run that refutes the promise.  Findings 6 to 10 are
disagreements that a property of a passing run spells out: what the code does is
an exception in its formula, or, in finding 7, an answer of the service.

What the properties that hold leave open, and a reader of the code should know:

* Nothing verifies an archive, and a response without a length that is cut short
  looks complete until it is unpacked; the HTTP requests have no timeout.
  A directory is never cleared: `BinaryOfRelease` needs `Unshadowed`.
* `SomebodyBinds` has exceptions beside deadlines, crashes and daemons that leave.
  A client unlinks the socket that another one waits for and then cannot spawn a
  daemon itself; or a daemon cannot open its log, unlink or bind for a reason of
  the system.  Those that wait then run into their deadline.
* `AnswerBelongs` needs a socket without a timeout behind it: a late answer is
  taken for the next one, since neither its type nor its sender is compared.  If a
  packet was lost as well, a further packet whose payload reads as a first one
  can pass for it, and the call then gets part of an answer, or presses Yes to a
  request for a button that nobody made.  On a socket with a timeout behind it that
  needs no loss: such a packet, left over, announces a length of its own and
  takes the next message for its rest, which is the exception of `NeverMixed`.
  The two modules of the protocol crate disagree on message numbers
  (`trezor_debug.rs` has 26, 13 and 55 for ButtonRequest, LoadDevice and
  GetFeatures, `trezor.rs` 20, 16 and 19).
* `stop()` of a generic bridge aborts the tasks of TCP only.  Over Unix sockets
  the relay ends when its channel closes, and a reader keeps its connection
  until the emulator sends or closes; that of a datagram socket never ends.
  The datagram bridges of a process share one client path.

## Proofs

Eight modules hold theorems.  Each has an inductive invariant, the two facts that
it holds initially and is kept by every step, case by case and conjunct by
conjunct, and theorems that follow from it.  The assumptions are those the
modules state about their constants: that `None` (in `Bundler` also `Torn`) is no
element of the sets, that bounds are naturals, in `AutoSpawn` that the daemons
are finitely many, and in `TrezorWire` that a packet has room for a byte.

Every invariant and every action property that a passing run checks is a theorem
for instances of any size.  What is left to TLC is liveness.

| Theorem | Statement |
|---|---|
| `RegistryProofs`: `Invariance` | `Spec => []IInv` |
| `TypeCorrect`, `NothingLeaks`, `ExclusiveOwners`, `NoCommandLost` | `Spec => []TypeOK`, `[]NoLeak`, `[]OneOwner`, `[]CommandsTracked` |
| `TakenIsTold`, `DrainIsComplete` | `Spec => TakenByCommand`, `Spec => ShutdownDrains` |
| `RegistryImplementsService` | `Spec => Linearizable` |
| `DaemonProofs`: `DaemonInvariance` | `DaemonSpec => []DInv` |
| `DaemonTyped`, `ExitWaitsForAnswer`, `ExitWaitsForDrain` | `DaemonSpec => []DaemonTypeOK`, `[]ExitAfterAnswer`, `[]ExitAfterDrain` |
| `AutoSpawnProofs`: `SpawnInvariance` | `SpawnSpec => []SpawnInv` |
| `SpawnTyped`, `AloneOrRaced` | `SpawnSpec => []SpawnTypeOK`, `[]AloneUnlessRaced` |
| `EmulatorProofs`: `EmulatorTyped`, `NoProcessStrays`, `StatusIsHonest` | `EmulatorSpec => []EmulatorTypeOK`, `[]NoStray`, `[]StatusAgrees` |
| `BridgeProofs`: `BridgeInvariance` | `UnixSpec => []BridgeInv` |
| `BridgeTyped`, `UnixTyped`, `TapIsTold` | `UnixSpec => []BridgeTypeOK`, `[]UnixTypeOK`, `[]TapTellsAll` |
| `DeathsLoseOne`, `HostOrderHolds` | `UnixSpec => []OneLostPerDeath`, `[]HostOrder`: the parts of `UnixLossless` and `UnixInOrder` that hold whatever dies |
| `RelayIsLossless`, `UnixIsLossless`, `UnixIsInOrder` | `UnixSpec => []RelayLossless`, `[]UnixLossless`, `[]UnixInOrder` |
| `BundlerProofs`: `BundlerInvariance` | `BundlerSpec => []BInv` |
| `BundlerTyped`, `RecordIsWhole`, `BinaryIsOwn`, `ReturnIsAccounted` | `BundlerSpec => []BundlerTypeOK`, `[]RecordMeansWhole`, `[]BinaryOfRelease`, `[]ReturnLeaves` |
| `TrezorBridgeProofs`: `TrezorInvariance` | `TrezorSpec => []TrezorInv` |
| `UdpKeepsOrder`, `NothingElseCloses` | `TrezorSpec => []UdpInOrder`, `~SeesClosed => (TrezorSpec => OnlyFailuresClose)` |
| `TrezorWireProofs`: `WireInvariance` | `WireSpec => []WireInv` |
| `WireTyped`, `AnswersBelong`, `AnswersUnmixed` | `WireSpec => []WireTypeOK`, `[]AnswerBelongs`, `[]NeverMixed` |
| `ConfirmsOwn` | `WireSpec => ConfirmsOwnRequest` |

**The registry**, for any sets of callers, ids and rigs and any capacity of at
least one.  None of the properties is inductive by itself.  `NoLeak` says that
what runs is held; that a rollback or a kill preserves it depends on the task
holding the rig it believes to hold, and that a start does not take a rig that
some id still names.  `IInv` adds this:

* `TaskOK` ties `step` to the task's locals: which steps hold a rig, which
  command is being served, and that during a drain `todo` is exactly the set of
  ids still in the map;
* `CallersOK`: a caller has a command exactly from its call to its return;
* `HeldSpawned`: whatever is held has been spawned, so that a fresh rig is held
  by nobody.

The step is proved conjunct by conjunct (`TypeStep`, `CallersStep`, `TaskStep`,
`TrackedStep`, `RigsStep`), each with a case per action.  Lemmas state once what
recurs: `ReceiveQueue` and `ReceiveCommand` for the channel, `HeldMeans`,
`SameHolders`, `LetGo` and `DetachRigs` for who holds what.  `ShutdownDrains`
follows from `TaskOK`: the answer comes from the empty map or from the last kill
of a drain, when nothing is held, so by `NoLeak` nothing is left.  The
refinement maps a stop to the step that takes the instance out of the map and a
shutdown to the beginning of its drain (`liveBar`, `phaseBar`, `replyBar`);
`ServeImplements`, `TaskImplements` and `ClientImplements` show that every step
of the registry is a step of the service or a stutter.

**The daemon**, for any number of connections.  A step of the daemon is a step
of the registry, or the exit, or leaves the registry alone, so `InvariantStep`
of `RegistryProofs` carries `IInv` over.  `DInv` adds what each party knows:
whoever can end the accept loop (a connection about to notify, the signal task,
the notification, the loop itself) knows of a drain that is over (`DrainKnown`),
and a loop that was notified without a signal has told a client (`TellingOK`).
That the drain left nothing but what came later is `ShutdownDrains` again, seen
from the daemon.

**Auto-spawn**, for any finite number of clients and daemons.  `Calm` says of
behaviours in which no two starts have overlapped that at most one process is
between its look at the path and its bind, that no daemon serves beside it, and
that the one that serves is at the path.  `AloneUnlessRaced` counts; `Calm`
compares any two, and `AtMostOne` and `MoreThanOne` go between.

**The emulators**, for any set of processes and any kinds.  `EInv` adds to the
properties and the types `CallOK`: a start that waits has a child, a stop that
waits has taken it.

**The generic bridge**, over each of its transports, for any number of reports,
deaths and any kernel queue.  `BridgeShape` is the types, that the tasks of one
transport do not run beside those of another (`Apart`), and that each connection
was made for a report (`ReportPerConnection`), which bounds their number.  On
top of it nine invariants are proved, each on its own but where it says otherwise.
`Out` is what has been written to the emulator, `emuGot \o unread`: reading moves a
report within it (`ReadingKeeps`), and writing appends to it (`WritingAppends`).

* `TapInv`: over TCP what the host has received and what waits for it is exactly
  the log, and `Out` followed by what task B has in hand is the log as long as
  task B can still write.  `LogInv` is what is left of this
  over Unix sockets: the log has whatever either side receives or will.
* `LossInv` counts: what lay unread when the emulator died is `swallowed`, and a
  death while the relay holds its connection owes one report more (`Doomed`),
  which the next failed write pays.
* `OrderInv`: `Out` and the three places before it are increasing,
  and everything in one is below everything in the next, so whatever the
  thread, the kernel, the relay or a death drops leaves the rest in order.
* `CarryInv`: as long as somebody takes the reports (`Carrying`), those four
  places hold every report there was but those that found the kernel's queue
  full.  `QuietInv`, that nothing is in the socket before the bridge is up, is what
  it begins with.  With `OrderInv` this is `Counts`, the statement of `RelayLossless` and
  `UnixLossless`.  `AliveInv` is why the relay counts as somebody: while the
  emulator has not died its connection is live and no write fails.
* `UpInv`: over TCP what the host received, what waits for it and what is in the
  socket are the emulator's reports, from the first to the last.
* `ReaderInv`: over Unix sockets the readers of several connections write into one
  channel.  Each connection holds its own reports in increasing order, and they
  are above all that the channel or the host got from it.

**The Trezor bridge**, for any number of reports and any kernel queue.  It has no
passing run of its own; the theorems say what is left of the other bridge's
promises.  `TrezorInv` says that task B lives as long as the device
(`OutlivesThread`), so that the thread never finds its channel closed, and that
the three stations on the way in each direction are in order (`Stations`).
`UdpInOrder` follows from the second, and `OnlyFailuresClose` from the first when
the thread does not take a dropped sender for a call to end, as it does not in
`trezor.rs`; with `SeesClosed` it is false, as `CheckShutdown` then ends the thread.

**The bundler**, for any releases, files and names.  `ProgressOK` says what a
call has done by the time it gets to each step: a file of the release is on
disk once it has left the archive, so at its end the release is whole; the
manifest is written from that state in one step.  It also says when the archive
and the file that it is received into are there and when they are gone, and what
the watcher was told last, from which `ReturnLeaves` follows for a call that
returned.

**The Trezor clients**, for any number of calls, sockets and rounds of
confirmation and any sizes of packets and answers.  The emulator is the one the
model assumes, and the looks of further packets are any.  `Shape` is the types; six
more invariants build on each other.

* `MailsSound`, `PacketsSound`: whatever waits at a port or in a socket, or was
  received, belongs to a request that was made, and a packet is a part of its
  answer.
* `ChainInv`: while no packet of a port was lost, what waits in its socket is
  whole messages, each in order, and a message half received that began with a
  first packet is continued by the first that waits.  `NeverMixed` follows at the
  last packet for a message that began so.
* `StartInv`: on a socket that has lost nothing and owes nothing a message begins
  with a first packet, so the exception of `NeverMixed` needs another.  `LooksInv`:
  what is being received began with the marks of a first packet, whichever it was.
* `FreshInv`: a socket on which every call got its answer is in one of four phases.
  The request waits to be taken (`Asked`), the emulator works on it (`Working`),
  it was answered or lost (`Answered`), or there is no call and nothing to come
  for the socket (`Quiet`).  In `Working` at most one of a button request, its
  acknowledgement and the memory of one is on its way, which is why the Yes is for
  the question that is open; in `Answered` all packets are of the call's own answer.
* Packets may be lost, so the parts received need not be 1, 2, 3; they begin with 1
  unless a further packet of the answer has the marks of a first (`Plain`).  `Pieces`
  bounds the number of each from both sides by its place in the queue and by how
  many are missing.  When the bytes of all received packets reach the length of
  the payload, none is missing: `RoomEnough` says so of the arithmetic of
  `frame_message`, from `RoundsUp` about its division.

Only model-checked is liveness, which needs fairness and `ENABLED`, out of the
prover's reach: `EveryCommandAnswered`, `DevicesDisappear`, `ClientsHear`,
`QuietShutdown`, `StopClosesDevice`, `ReportsArrive`, `UnixReportsArrive`,
`SomebodyBinds`, `GivenUpEnds` and `CallsReturn` of the emulators and of the
Trezor clients.

## What was built in which order, and what could follow

The registry with the service it implements and their proofs came first, then
the daemon around it, the bridges, auto-spawn, the emulators; then the relays
over Unix sockets, the bundler and the Trezor clients; last the proofs of all of
these.  What could follow, in the order of importance:

1. The framing of the control protocol over a stream that ends anywhere
   (`read_frame`): a frame that is cut short is an error of the connection, and
   `Daemon` already has connections that fail.
2. The log buffers of an instance as operators against a reference definition.

## Not modelled

* The instance record, its two ring buffers and four counters: copies for
  display, made from the log whose completeness and order is `TapTellsAll`.  The
  buffers of output lines of an emulator, likewise.
* The framing and the JSON of the control protocol, and mnemonic normalisation:
  conversions without state.  The reading of the answer in `client.rs`.
* Get and set reports of the virtual HID device, answered in place by the
  thread that polls.
* The listing of remote releases, their sizes and time stamps, which keep no
  state.
* The protobuf fields and the layout parser of the Trezor protocol: data, with
  no behaviour but that of a parser.
* The wallet tables and the output formatting have no behaviour; build scripts,
  udev rules, CI and the website are not part of the running program.

The hazards that no property covers are in `PROJECT.json` with a note.  They are
those of ports that are free when they are picked and taken when they are used,
of a seeding that never ends, of a map that is not told of a crashed simulator
until somebody stops it, of two datagram bridges in one process, and of states
in which the code promises nothing.
