----------------------------- MODULE UnixRelay -----------------------------
(***************************************************************************)
(* The relays of GenericBridge over a Unix stream socket ("unix") and over *)
(* Unix datagrams ("dgram").  One task, which stop() does not abort, takes *)
(* a report from the thread, connects, and spawns a reader for this        *)
(* connection.  When a write fails it starts over with the next report, on *)
(* a connection of its own; the reader of the old one is never stopped.    *)
(* The emulator may die and come back at the same path.  It is taken to    *)
(* read its connections in the order in which they were written: unread    *)
(* is one buffer, and two are in use only when the thread is gone.         *)
(***************************************************************************)
EXTENDS Bridge

CONSTANT MaxDeaths  \* how often the emulator dies (bounds the behaviours)

ASSUME UnixAssumption == MaxDeaths \in Nat

VARIABLES
  relay,   \* "none", "first", "opening", "greeting", "open", "writing" or "gone"
  conn,    \* the number of the last connection that was made
  live,    \* the emulator holds its end of that connection
  reader,  \* the read task of each connection: "none", "reading" or "gone"
  wires,   \* the input reports in the socket of each connection
  origin,  \* the connection on which the emulator sent each of its reports
  deaths,  \* how often the emulator has died
  swallowed  \* how many reports lay unread when it did

unixVars == <<relay, conn, live, reader, wires, origin, deaths, swallowed>>
allVars  == <<bridgeVars, unixVars>>

\* Every connection is made for a report.
Conns == 1..MaxReports

UnixInit ==
  /\ BridgeInit
  /\ relay = "none" /\ conn = 0 /\ live = FALSE
  /\ reader = [c \in Conns |-> "none"] /\ wires = [c \in Conns |-> <<>>]
  /\ origin = <<>> /\ deaths = 0 /\ swallowed = 0

\* Of the receiver of uhidRead: the relay holds it until it returns.
UnixReceiver == owner = "starting" \/ relay \notin {"none", "gone"}

\* Nothing but the relay task's own state changes.
RelayOnly ==
  UNCHANGED <<thread, told, kernel, overrun, uhidWrite, hostSent, hostGot, transport,
              owner, peer, wire, emuSent, emuGot, taskA, taskB, wires, origin,
              deaths, swallowed>>
-----------------------------------------------------------------------------
(***************************************************************************)
(* The relay task.                                                         *)
(***************************************************************************)

\* start() spawns it and returns: it has nothing to wait for.
StartRelay ==
  /\ owner = "starting" /\ transport # "tcp"
  /\ owner' = "up" /\ relay' = "first"
  /\ UNCHANGED <<threadVars, transport, running, socketVars, relayVars,
                 conn, live, reader, wires, origin, deaths, swallowed>>

\* The report that makes the relay connect.
TakeFirst ==
  /\ relay = "first" /\ uhidRead # <<>>
  /\ uhidRead' = Tail(uhidRead) /\ inHand' = <<Head(uhidRead)>>
  /\ relay' = "opening"
  /\ RelayOnly /\ UNCHANGED <<running, unread, tap, conn, live, reader>>

Open ==
  /\ relay = "opening" /\ peer = "open"
  /\ conn' = conn + 1 /\ live' = TRUE
  /\ tap' = Intercept("HostToDevice", Head(inHand))
  /\ relay' = "greeting"
  /\ RelayOnly /\ UNCHANGED <<uhidRead, running, inHand, unread, reader>>

\* Nobody listens, or the listener's queue is full; or the path of the datagram
\* socket, which all the bridges of the process share, cannot be bound.  The
\* report in hand goes unrecorded.
OpenFails ==
  /\ relay = "opening"
  /\ running' = FALSE
  /\ relay' = "gone" /\ inHand' = <<>>
  /\ RelayOnly /\ UNCHANGED <<uhidRead, unread, tap, conn, live, reader>>

\* The first report is written to the socket, and the connection gets its reader.
Greet ==
  /\ relay = "greeting" /\ live /\ Len(unread) < SocketCap
  /\ unread' = unread \o inHand /\ inHand' = <<>>
  /\ reader' = [reader EXCEPT ![conn] = "reading"]
  /\ relay' = "open"
  /\ RelayOnly /\ UNCHANGED <<uhidRead, running, tap, conn, live>>

\* Mutant: the relay awaits its reader instead of asking whether it has finished.
TakeNextJoins ==
  /\ relay = "open" /\ uhidRead # <<>> /\ reader[conn] = "gone"
  /\ uhidRead' = Tail(uhidRead) /\ inHand' = <<Head(uhidRead)>>
  /\ tap' = Intercept("HostToDevice", Head(uhidRead))
  /\ relay' = "writing"
  /\ RelayOnly /\ UNCHANGED <<running, unread, conn, live, reader>>

TakeNext ==
  /\ relay = "open" /\ uhidRead # <<>>
  /\ uhidRead' = Tail(uhidRead) /\ inHand' = <<Head(uhidRead)>>
  /\ tap' = Intercept("HostToDevice", Head(uhidRead))
  /\ relay' = "writing"
  /\ RelayOnly /\ UNCHANGED <<running, unread, conn, live, reader>>

\* Between two reports the relay asks whether its reader has finished.
Write ==
  /\ relay = "writing" /\ live /\ Len(unread) < SocketCap
  /\ unread' = unread \o inHand /\ inHand' = <<>>
  /\ relay' = IF reader[conn] = "gone" THEN "first" ELSE "open"
  /\ RelayOnly /\ UNCHANGED <<uhidRead, running, tap, conn, live, reader>>

\* Mutant: the report that could not be written stays in hand.
WriteFailsKeeps ==
  /\ relay \in {"greeting", "writing"} /\ ~live
  /\ relay' = "first"
  /\ RelayOnly /\ UNCHANGED <<uhidRead, running, inHand, unread, tap, conn, live, reader>>

\* Mutant: the relay goes on with the connection it has.
WriteFailsGoesOn ==
  /\ relay \in {"greeting", "writing"} /\ ~live
  /\ inHand' = <<>>
  /\ relay' = "open"
  /\ RelayOnly /\ UNCHANGED <<uhidRead, running, unread, tap, conn, live, reader>>

\* The emulator has gone: the report is lost, the next one reconnects.
WriteFails ==
  /\ relay \in {"greeting", "writing"} /\ ~live
  /\ inHand' = <<>>
  /\ relay' = "first"
  /\ RelayOnly /\ UNCHANGED <<uhidRead, running, unread, tap, conn, live, reader>>

\* The thread dropped its sender, or the owner its shutdown sender.  select!
\* may serve the shutdown before the reports that wait.
RelayEnds ==
  /\ relay \in {"first", "open"}
  /\ told \/ (uhidRead = <<>> /\ thread = "gone")
  /\ relay' = "gone"
  /\ RelayOnly /\ UNCHANGED <<uhidRead, running, inHand, unread, tap, conn, live, reader>>

RelayStep ==
  \/ TakeFirst \/ Open \/ OpenFails \/ Greet
  \/ TakeNext \/ Write \/ WriteFails \/ RelayEnds
-----------------------------------------------------------------------------
(***************************************************************************)
(* The reader of connection c.                                             *)
(***************************************************************************)

\* Mutant: a report that was read stays in the socket.
ReadPeeks(c) ==
  /\ reader[c] = "reading" /\ wires[c] # <<>>
  /\ Len(uhidWrite) < MaxReports
  /\ tap' = Intercept("DeviceToHost", Head(wires[c]))
  /\ uhidWrite' = Append(uhidWrite, Head(wires[c]))
  /\ UNCHANGED <<thread, told, kernel, overrun, uhidRead, hostSent, hostGot, transport,
                 owner, running, socketVars, taskA, taskB, inHand, unixVars>>

\* It records the report and sends it up; without a thread it then ends.
Read(c) ==
  /\ reader[c] = "reading" /\ wires[c] # <<>>
  /\ wires' = [wires EXCEPT ![c] = Tail(@)]
  /\ tap' = Intercept("DeviceToHost", Head(wires[c]))
  /\ IF thread = "gone"
     THEN reader' = [reader EXCEPT ![c] = "gone"] /\ UNCHANGED uhidWrite
     ELSE uhidWrite' = Append(uhidWrite, Head(wires[c])) /\ UNCHANGED reader
  /\ UNCHANGED <<thread, told, kernel, overrun, uhidRead, hostSent, hostGot, transport,
                 owner, running, socketVars, taskA, taskB, inHand,
                 relay, conn, live, origin, deaths, swallowed>>

\* End of file.  A datagram socket has none: its reader waits for ever.
ReadEnds(c) ==
  /\ reader[c] = "reading" /\ wires[c] = <<>>
  /\ transport = "unix"
  /\ c < conn \/ ~live
  /\ reader' = [reader EXCEPT ![c] = "gone"]
  /\ UNCHANGED <<bridgeVars, relay, conn, live, wires, origin, deaths, swallowed>>

ReaderStep(c) == Read(c) \/ ReadEnds(c)
-----------------------------------------------------------------------------
(***************************************************************************)
(* The thread, the emulator, and the specification.                        *)
(***************************************************************************)

UnixThreadStep ==
  /\ transport # "tcp"
  /\ ThreadLoop(UnixReceiver)
  /\ UNCHANGED <<transport, owner, running, socketVars, relayVars, unixVars>>

EmulatorAnswers ==
  /\ live /\ reader[conn] # "gone" /\ emuSent < MaxReports
  /\ emuSent' = emuSent + 1
  /\ wires' = [wires EXCEPT ![conn] = Append(@, emuSent + 1)]
  /\ origin' = Append(origin, conn)
  /\ UNCHANGED <<threadVars, transport, owner, running, peer, wire, unread, emuGot, relayVars,
                 relay, conn, live, reader, deaths, swallowed>>

\* What it has not read goes with it.
EmulatorDies ==
  /\ transport # "tcp" /\ peer = "open" /\ deaths < MaxDeaths
  /\ peer' = "closed" /\ live' = FALSE
  /\ deaths' = deaths + 1
  /\ unread' = <<>> /\ swallowed' = swallowed + Len(unread)
  /\ UNCHANGED <<threadVars, transport, owner, running, wire, emuSent, emuGot, relayVars,
                 relay, conn, reader, wires, origin>>

EmulatorReturns ==
  /\ transport # "tcp" /\ peer = "closed"
  /\ peer' = "open"
  /\ UNCHANGED <<threadVars, transport, owner, running, wire, emuSent, unread, emuGot, relayVars,
                 unixVars>>

UnixNext ==
  \/ BridgeNext /\ UNCHANGED unixVars
  \/ StartRelay \/ RelayStep \/ UnixThreadStep
  \/ \E c \in Conns : ReaderStep(c)
  \/ EmulatorAnswers \/ EmulatorDies \/ EmulatorReturns

UnixSpec == UnixInit /\ [][UnixNext]_allVars

UnixFairness ==
  /\ BridgeFairness
  /\ WF_allVars(StartRelay) /\ WF_allVars(RelayStep) /\ WF_allVars(UnixThreadStep)
  /\ \A c \in Conns : WF_allVars(ReaderStep(c))

FairUnixSpec == UnixSpec /\ UnixFairness
-----------------------------------------------------------------------------
(***************************************************************************)
(* Properties.                                                             *)
(***************************************************************************)

\* Every variable keeps its type; the relay has a report in hand exactly while it
\* opens a connection for it or writes it, and readers only on connections made.
UnixTypeOK ==
  /\ relay \in {"none", "first", "opening", "greeting", "open", "writing", "gone"}
  /\ conn \in 0..MaxReports /\ live \in BOOLEAN
  /\ deaths \in 0..MaxDeaths /\ swallowed \in Nat
  /\ reader \in [Conns -> {"none", "reading", "gone"}]
  /\ wires \in [Conns -> Seq(Reports)]
  /\ origin \in Seq(Conns) /\ (transport = "tcp" \/ Len(origin) = emuSent)
  /\ \A c \in Conns : reader[c] # "none" => c <= conn
  /\ transport # "tcp" =>
       (inHand # <<>> <=> relay \in {"opening", "greeting", "writing"})

\* The report that the relay has recorded and not yet handed over.
Pending == IF relay \in {"greeting", "writing"} THEN inHand ELSE <<>>

\* The relay has recorded no more than has been read, is in the socket or in hand,
\* or died with the emulator: what it had not read, and one report for a death.
OneLostPerDeath ==
  transport # "tcp" =>
    Len(tap["HostToDevice"])
      <= Len(emuGot) + Len(unread) + Len(Pending) + swallowed + deaths

\* Besides the reports that the emulator had in its socket and did not read, a
\* relay over Unix sockets loses at most one for each death of the emulator.
\* And as long as nobody dies or closes the device, nothing is lost, doubled or
\* overtaken on the way to the emulator.
UnixLossless ==
  /\ OneLostPerDeath
  /\ transport # "tcp" /\ DeviceOpen /\ UnixReceiver /\ deaths = 0
       => Counts(emuGot \o unread \o inHand \o uhidRead \o kernel, hostSent, overrun)

\* Reconnecting doubles nothing and records everything: the emulator receives
\* reports in the order of the log, and the host receives what is in the log,
\* once, and in order as far as it comes from the same connection.
UnixInOrder ==
  transport # "tcp" =>
    /\ HostOrder
    /\ ToSet(emuGot) \subseteq ToSet(tap["HostToDevice"])
    /\ IsInjective(hostGot)
    /\ ToSet(hostGot) \subseteq ToSet(tap["DeviceToHost"])
    /\ \A i, j \in DOMAIN hostGot :
         i < j /\ origin[hostGot[i]] = origin[hostGot[j]] => hostGot[i] < hostGot[j]

\* What the thread has taken from the host reaches the emulator's socket, also
\* over a new connection, unless the emulator died or leaves its socket full, the
\* relay gave up, or the bridge or the device went first: with UnixLossless, none
\* of it was lost.
UnixReportsArrive ==
  (transport # "tcp" /\ uhidRead \o inHand # <<>>)
  ~> \/ uhidRead \o inHand = <<>> \/ Len(unread) = SocketCap
     \/ peer = "closed" \/ ~running \/ told \/ ~DeviceOpen
=============================================================================
