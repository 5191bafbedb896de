---------------------------- MODULE BridgeProofs ----------------------------
(***************************************************************************)
(* Theorems about GenericBridge over each of its transports, for any       *)
(* number of reports, any size of the kernel's queue and of the socket's   *)
(* buffer, and any number of deaths of the emulator.                       *)
(***************************************************************************)
EXTENDS UnixRelay, SequenceTheorems, TLAPS

BridgeTypes == BridgeTypeOK /\ UnixTypeOK

\* The tasks of the one kind of relay do not run beside those of the other.
Apart ==
  /\ transport = "tcp" => /\ relay = "none" /\ ~live
                          /\ \A c \in Conns : reader[c] = "none"
                          /\ taskB # "writing" => inHand = <<>>
                          /\ taskB = "writing" => inHand # <<>>
  /\ transport # "tcp" => taskA = "none" /\ taskB = "none"
  /\ owner \in {"new", "starting"} => taskA = "none" /\ taskB = "none" /\ relay = "none"

\* Each connection was made for a report of the host, which is not the same as
\* those on their way.
ReportPerConnection ==
  /\ conn + Len(uhidRead) + Len(kernel) + (IF relay = "opening" THEN 1 ELSE 0) <= hostSent
  /\ live \/ relay \in {"greeting", "open", "writing"} => conn >= 1

BridgeShape == BridgeTypes /\ Apart /\ ReportPerConnection
-----------------------------------------------------------------------------
\* No reports are a sequence of any reports.
LEMMA NoReports == ASSUME NEW S PROVE <<>> \in Seq(S) /\ Len(<<>>) = 0
  OBVIOUS

\* What taking one from a sequence leaves.
LEMMA TakeOne ==
  ASSUME NEW S, NEW s \in Seq(S), s # <<>>
  PROVE  /\ Head(s) \in S /\ <<Head(s)>> \in Seq(S) /\ <<Head(s)>> # <<>>
         /\ Tail(s) \in Seq(S) /\ Len(Tail(s)) = Len(s) - 1
         /\ Len(s) \in Nat /\ Len(s) > 0
<1>1. Tail(s) \in Seq(S) /\ Len(Tail(s)) = Len(s) - 1 /\ Head(s) \in S
  BY HeadTailProperties
<1>2. Len(s) \in Nat /\ Len(s) > 0
  BY EmptySeq
<1> QED
  BY <1>1, <1>2

\* What appending one to a sequence makes.
LEMMA PutOne ==
  ASSUME NEW S, NEW s \in Seq(S), NEW e \in S
  PROVE  /\ Append(s, e) \in Seq(S) /\ Len(Append(s, e)) = Len(s) + 1
         /\ Len(s) \in Nat
  BY AppendProperties

\* What joining two sequences makes.
LEMMA Join ==
  ASSUME NEW S, NEW s \in Seq(S), NEW t \in Seq(S)
  PROVE  s \o t \in Seq(S) /\ Len(s \o t) = Len(s) + Len(t)
  BY ConcatProperties

\* Reports are numbered, and those who number them stop at the last.
LEMMA NextReport ==
  ASSUME NEW n \in 0..MaxReports, n < MaxReports
  PROVE  n + 1 \in Reports /\ n + 1 \in 0..MaxReports
  BY HidThreadAssumption DEF Reports

\* What task B or the relay has in hand is a report or nothing.
LEMMA OneInHand ==
  ASSUME BridgeTypeOK
  PROVE  /\ inHand \in Seq(Reports)
         /\ inHand # <<>> => Head(inHand) \in Reports /\ Len(inHand) = 1
<1>1. CASE inHand = <<>>
  BY <1>1, NoReports
<1>2. ASSUME NEW r \in Reports, inHand = <<r>>
      PROVE  inHand \in Seq(Reports) /\ Head(inHand) = r /\ Len(inHand) = 1
  BY <1>2
<1> QED
  BY <1>1, <1>2 DEF BridgeTypeOK

\* A socket with room has room for what is in hand.
LEMMA WriteFits ==
  ASSUME BridgeTypeOK, Len(unread) < SocketCap
  PROVE  unread \o inHand \in Seq(Reports) /\ Len(unread \o inHand) <= SocketCap
<1>1. /\ unread \in Seq(Reports) /\ inHand \in Seq(Reports) /\ Len(unread) \in Nat
      /\ Len(inHand) \in {0, 1} /\ SocketCap \in Nat
  BY OneInHand, NoReports, LenProperties, BridgeAssumption DEF BridgeTypeOK
<1>2. unread \o inHand \in Seq(Reports) /\ Len(unread \o inHand) = Len(unread) + Len(inHand)
  BY <1>1, Join
<1>3. Len(unread) + Len(inHand) <= SocketCap
  <2>1. Len(inHand) = 0 \/ Len(inHand) = 1
    BY <1>1
  <2>2. Len(unread) + 1 <= SocketCap /\ Len(unread) + 0 <= SocketCap
    BY <1>1
  <2> QED
    BY <2>1, <2>2
<1> QED
  BY <1>2, <1>3

\* The initial states.
LEMMA BridgeInitShape == UnixInit => BridgeShape
<1> SUFFICES ASSUME UnixInit PROVE BridgeShape
  OBVIOUS
<1> USE HidThreadAssumption, BridgeAssumption, UnixAssumption, NoReports
<1>1. ThreadTypeOK
  <2>1. /\ thread = "none" /\ told = FALSE /\ overrun = {} /\ hostSent = 0
        /\ kernel = <<>> /\ uhidRead = <<>> /\ uhidWrite = <<>> /\ hostGot = <<>>
    BY DEF UnixInit, BridgeInit, ThreadInit
  <2>2. kernel \in Seq(Reports) /\ Len(kernel) <= KernelCap
    BY <2>1
  <2>3. uhidRead \in Seq(Reports) /\ uhidWrite \in Seq(Reports) /\ hostGot \in Seq(Reports)
    BY <2>1
  <2>4. hostSent \in 0..MaxReports
    BY <2>1
  <2>5. thread \in {"none", "check", "write", "poll", "gone"} /\ told \in BOOLEAN
    BY <2>1
  <2>6. overrun \in SUBSET Reports
    BY <2>1
  <2> QED
    BY <2>2, <2>3, <2>4, <2>5, <2>6 DEF ThreadTypeOK
<1>2. BridgeTypeOK
  <2>1. tap \in [Directions -> Seq(Reports)] /\ inHand = <<>>
    BY DEF UnixInit, BridgeInit
  <2>2. /\ wire \in Seq(Reports) /\ emuGot \in Seq(Reports) /\ emuSent \in 0..MaxReports
        /\ unread \in Seq(Reports) /\ Len(unread) <= SocketCap
    BY DEF UnixInit, BridgeInit
  <2> QED
    BY <1>1, <2>1, <2>2 DEF BridgeTypeOK, UnixInit, BridgeInit
<1>3. UnixTypeOK
  <2>1. wires \in [Conns -> Seq(Reports)] /\ origin \in Seq(Conns) /\ Len(origin) = 0
    BY DEF UnixInit
  <2>2. reader \in [Conns -> {"none", "reading", "gone"}] /\ \A c \in Conns : reader[c] = "none"
    BY DEF UnixInit
  <2>3. /\ relay = "none" /\ conn = 0 /\ live = FALSE /\ deaths = 0 /\ swallowed = 0
        /\ inHand = <<>> /\ emuSent = 0
    BY DEF UnixInit, BridgeInit
  <2>4. conn \in 0..MaxReports /\ deaths \in 0..MaxDeaths /\ swallowed \in Nat
    BY <2>3
  <2> QED
    BY <2>1, <2>2, <2>3, <2>4 DEF UnixTypeOK
<1>4. Apart
  BY DEF Apart, UnixInit, BridgeInit
<1>5. ReportPerConnection
  <2>1. /\ conn = 0 /\ live = FALSE /\ relay = "none"
        /\ hostSent = 0 /\ Len(uhidRead) = 0 /\ Len(kernel) = 0
    BY DEF UnixInit, BridgeInit, ThreadInit
  <2> QED
    BY <2>1 DEF ReportPerConnection
<1> QED
  BY <1>1, <1>2, <1>3, <1>4, <1>5 DEF BridgeShape, BridgeTypes

\* A turn of the thread, whoever holds the receiver, or something from outside.
ThreadTurn == \/ \E receiver \in BOOLEAN : ThreadLoop(receiver)
              \/ HostWrites \/ DeviceFails

\* The thread hands over what it takes.
LEMMA ThreadTypeStep ==
  ASSUME ThreadTypeOK, ThreadTurn
  PROVE  /\ ThreadTypeOK'
         /\ Len(uhidRead') + Len(kernel') - hostSent' <= Len(uhidRead) + Len(kernel) - hostSent
<1> USE HidThreadAssumption DEF ThreadTypeOK
<1>1. CASE HostWrites
  <2>1. hostSent + 1 \in Reports /\ hostSent + 1 \in 0..MaxReports
    BY <1>1, NextReport DEF HostWrites
  <2>2. CASE Len(kernel) < KernelCap
    <3>1. kernel' \in Seq(Reports) /\ Len(kernel') = Len(kernel) + 1 /\ Len(kernel) \in Nat
      BY SMTT(30), <1>1, <2>1, <2>2, PutOne DEF HostWrites
    <3>2. Len(kernel') <= KernelCap
      BY <2>2, <3>1
    <3> QED
      BY <1>1, <2>1, <2>2, <3>1, <3>2 DEF HostWrites
  <2>3. CASE ~(Len(kernel) < KernelCap)
    BY <1>1, <2>1, <2>3 DEF HostWrites
  <2> QED
    BY <2>2, <2>3
<1>2. CASE DeviceFails
  BY <1>2 DEF DeviceFails
<1>3. CASE CheckShutdown \/ WriteDone \/ PollNothing
  BY <1>3 DEF CheckShutdown, WriteDone, PollNothing
<1>4. CASE WriteInput
  BY <1>4, PutOne, TakeOne DEF WriteInput
<1>5. ASSUME NEW receiver \in BOOLEAN, PollReport(receiver)
      PROVE  /\ ThreadTypeOK'
             /\ Len(uhidRead') + Len(kernel') - hostSent'
                <= Len(uhidRead) + Len(kernel) - hostSent
  <2>1. /\ kernel' \in Seq(Reports) /\ Len(kernel') = Len(kernel) - 1
        /\ Head(kernel) \in Reports /\ Len(kernel) \in Nat /\ Len(uhidRead) \in Nat
    BY <1>5, TakeOne DEF PollReport
  <2>2. CASE receiver
    <3>1. uhidRead \in Seq(Reports) /\ uhidRead' = Append(uhidRead, Head(kernel))
      BY <1>5, <2>2 DEF PollReport
    <3>2. uhidRead' \in Seq(Reports) /\ Len(uhidRead') = Len(uhidRead) + 1
      <4> HIDE DEF ThreadTypeOK
      <4> QED
        BY <2>1, <3>1, PutOne
    <3> QED
      BY <1>5, <2>1, <2>2, <3>2 DEF PollReport
  <2>3. CASE ~receiver
    BY <1>5, <2>1, <2>3 DEF PollReport
  <2> QED
    BY <2>2, <2>3
<1> QED
  BY <1>1, <1>2, <1>3, <1>4, <1>5 DEF ThreadTurn, ThreadLoop

\* The owner's calls.
OwnerStep == CreateDevice \/ Connected \/ ConnectFails \/ Stop \/ StopReturns \/ DropBridge

\* They keep the shape: what a stop or a drop cuts off leaves no hand full.
LEMMA OwnerShape ==
  ASSUME BridgeShape, OwnerStep, UNCHANGED unixVars
  PROVE  BridgeShape'
<1> USE HidThreadAssumption
<1>0. ThreadTypeOK /\ BridgeTypeOK /\ UnixTypeOK /\ Apart /\ ReportPerConnection
  BY DEF BridgeShape, BridgeTypes, BridgeTypeOK
<1>1. CASE CreateDevice
  <2>1. ThreadTypeOK'
    BY <1>0, <1>1 DEF CreateDevice, ThreadTypeOK, threadVars
  <2>2. BridgeTypeOK'
    BY <1>0, <1>1, <2>1 DEF CreateDevice, BridgeTypeOK, socketVars, relayVars
  <2>3. UnixTypeOK'
    BY <1>0, <1>1 DEF CreateDevice, UnixTypeOK, Apart, socketVars, relayVars, unixVars
  <2>4. Apart'
    BY <1>0, <1>1 DEF CreateDevice, Apart, UnixTypeOK, relayVars, unixVars
  <2>5. ReportPerConnection'
    BY <1>0, <1>1
       DEF CreateDevice, ReportPerConnection, UnixTypeOK, ThreadTypeOK, threadVars, unixVars
  <2> QED
    BY <2>2, <2>3, <2>4, <2>5 DEF BridgeShape, BridgeTypes
<1>2. CASE Connected
  <2>1. ThreadTypeOK'
    BY <1>0, <1>2 DEF Connected, ThreadTypeOK, threadVars
  <2>2. BridgeTypeOK'
    BY <1>0, <1>2, <2>1 DEF Connected, BridgeTypeOK, socketVars, relayVars
  <2>3. UnixTypeOK'
    BY <1>0, <1>2 DEF Connected, UnixTypeOK, Apart, socketVars, relayVars, unixVars
  <2>4. Apart'
    BY <1>0, <1>2 DEF Connected, Apart, UnixTypeOK, relayVars, unixVars
  <2>5. ReportPerConnection'
    BY <1>0, <1>2
       DEF Connected, ReportPerConnection, UnixTypeOK, ThreadTypeOK, threadVars, unixVars
  <2> QED
    BY <2>2, <2>3, <2>4, <2>5 DEF BridgeShape, BridgeTypes
<1>3. CASE ConnectFails
  <2>1. ThreadTypeOK'
    BY <1>0, <1>3 DEF ConnectFails, ThreadTypeOK, threadVars
  <2>2. BridgeTypeOK'
    BY <1>0, <1>3, <2>1 DEF ConnectFails, BridgeTypeOK, socketVars, relayVars
  <2>3. UnixTypeOK'
    BY <1>0, <1>3 DEF ConnectFails, UnixTypeOK, Apart, socketVars, relayVars, unixVars
  <2>4. Apart'
    BY <1>0, <1>3 DEF ConnectFails, Apart, UnixTypeOK, relayVars, unixVars
  <2>5. ReportPerConnection'
    BY <1>0, <1>3
       DEF ConnectFails, ReportPerConnection, UnixTypeOK, ThreadTypeOK, threadVars, unixVars
  <2> QED
    BY <2>2, <2>3, <2>4, <2>5 DEF BridgeShape, BridgeTypes
<1>4. CASE Stop
  <2>1. ThreadTypeOK'
    BY <1>0, <1>4 DEF Stop, ThreadTypeOK, threadVars
  <2>2. BridgeTypeOK'
    BY <1>0, <1>4, <2>1 DEF Stop, BridgeTypeOK, socketVars, relayVars
  <2>3. UnixTypeOK'
    BY <1>0, <1>4 DEF Stop, UnixTypeOK, Apart, socketVars, relayVars, unixVars
  <2>4. Apart'
    BY <1>0, <1>4 DEF Stop, Apart, UnixTypeOK, relayVars, unixVars
  <2>5. ReportPerConnection'
    BY <1>0, <1>4 DEF Stop, ReportPerConnection, UnixTypeOK, ThreadTypeOK, threadVars, unixVars
  <2> QED
    BY <2>2, <2>3, <2>4, <2>5 DEF BridgeShape, BridgeTypes
<1>5. CASE StopReturns
  <2>1. ThreadTypeOK'
    BY <1>0, <1>5 DEF StopReturns, ThreadTypeOK, threadVars
  <2>2. BridgeTypeOK'
    BY <1>0, <1>5, <2>1 DEF StopReturns, BridgeTypeOK, socketVars, relayVars
  <2>3. UnixTypeOK'
    BY <1>0, <1>5 DEF StopReturns, UnixTypeOK, Apart, socketVars, relayVars, unixVars
  <2>4. Apart'
    BY <1>0, <1>5 DEF StopReturns, Apart, UnixTypeOK, relayVars, unixVars
  <2>5. ReportPerConnection'
    BY <1>0, <1>5
       DEF StopReturns, ReportPerConnection, UnixTypeOK, ThreadTypeOK, threadVars, unixVars
  <2> QED
    BY <2>2, <2>3, <2>4, <2>5 DEF BridgeShape, BridgeTypes
<1>6. CASE DropBridge
  <2>1. ThreadTypeOK'
    BY <1>0, <1>6 DEF DropBridge, ThreadTypeOK, threadVars
  <2>2. BridgeTypeOK'
    BY <1>0, <1>6, <2>1 DEF DropBridge, BridgeTypeOK, socketVars, relayVars
  <2>3. UnixTypeOK'
    BY <1>0, <1>6 DEF DropBridge, UnixTypeOK, Apart, socketVars, relayVars, unixVars
  <2>4. Apart'
    BY <1>0, <1>6 DEF DropBridge, Apart, UnixTypeOK, relayVars, unixVars
  <2>5. ReportPerConnection'
    BY <1>0, <1>6
       DEF DropBridge, ReportPerConnection, UnixTypeOK, ThreadTypeOK, threadVars, unixVars
  <2> QED
    BY <2>2, <2>3, <2>4, <2>5 DEF BridgeShape, BridgeTypes
<1> QED
  BY <1>1, <1>2, <1>3, <1>4, <1>5, <1>6 DEF OwnerStep

\* The thread, the host and the device.
LEMMA ThreadShape ==
  ASSUME BridgeShape, ThreadTurn,
         UNCHANGED <<transport, owner, running, socketVars, relayVars, unixVars>>
  PROVE  BridgeShape'
<1>1. /\ ThreadTypeOK /\ ThreadTypeOK'
      /\ Len(uhidRead') + Len(kernel') - hostSent' <= Len(uhidRead) + Len(kernel) - hostSent
  BY ThreadTypeStep DEF BridgeShape, BridgeTypes, BridgeTypeOK
<1>2. BridgeTypeOK'
  BY <1>1 DEF BridgeShape, BridgeTypes, BridgeTypeOK, socketVars, relayVars
<1>3. UnixTypeOK'
  BY DEF BridgeShape, BridgeTypes, UnixTypeOK, socketVars, relayVars, unixVars
<1>4. Apart'
  BY DEF BridgeShape, Apart, socketVars, relayVars, unixVars
<1>5. ReportPerConnection'
  <2>1. /\ Len(uhidRead) \in Nat /\ Len(kernel) \in Nat
        /\ Len(uhidRead') \in Nat /\ Len(kernel') \in Nat
        /\ hostSent \in Int /\ hostSent' \in Int
    BY <1>1, LenProperties DEF ThreadTypeOK
  <2> QED
    BY <1>1, <2>1
       DEF BridgeShape, BridgeTypes, UnixTypeOK, ReportPerConnection, unixVars
<1> QED
  BY <1>2, <1>3, <1>4, <1>5 DEF BridgeShape, BridgeTypes

\* The tasks over TCP, and the emulator at their other end.
LEMMA TcpShape ==
  ASSUME BridgeShape,
         TaskAStep \/ TaskBStep \/ EmulatorSends \/ EmulatorReads \/ EmulatorCloses,
         UNCHANGED unixVars
  PROVE  BridgeShape'
<1> USE HidThreadAssumption
<1>0. ThreadTypeOK /\ BridgeTypeOK /\ UnixTypeOK /\ Apart /\ ReportPerConnection
  BY DEF BridgeShape, BridgeTypes, BridgeTypeOK
<1>1. CASE RelayInput
  <2>1. wire' \in Seq(Reports) /\ Head(wire) \in Reports
    BY <1>0, <1>1, TakeOne DEF RelayInput, BridgeTypeOK
  <2>2. uhidWrite' \in Seq(Reports)
    BY <1>0, <1>1, <2>1, PutOne DEF RelayInput, ThreadTypeOK
  <2>3. tap' \in [Directions -> Seq(Reports)]
    BY <1>0, <1>1, <2>1, <2>2, PutOne DEF RelayInput, Intercept, BridgeTypeOK
  <2>4. ThreadTypeOK'
    BY <1>0, <1>1, <2>1, <2>2, <2>3 DEF RelayInput, ThreadTypeOK, threadVars
  <2>5. BridgeTypeOK'
    BY <1>0, <1>1, <2>1, <2>2, <2>3, <2>4 DEF RelayInput, BridgeTypeOK, socketVars, relayVars
  <2>6. UnixTypeOK'
    BY <1>0, <1>1, <2>1, <2>2, <2>3
       DEF RelayInput, UnixTypeOK, Apart, socketVars, relayVars, unixVars
  <2>7. Apart'
    BY <1>0, <1>1, <2>1, <2>2, <2>3 DEF RelayInput, Apart, UnixTypeOK, relayVars, unixVars
  <2>8. ReportPerConnection'
    BY <1>0, <1>1, <2>1, <2>2, <2>3
       DEF RelayInput, ReportPerConnection, UnixTypeOK, ThreadTypeOK, threadVars, unixVars
  <2> QED
    BY <2>5, <2>6, <2>7, <2>8 DEF BridgeShape, BridgeTypes
<1>2. CASE ReadFails
  <2>1. ThreadTypeOK'
    BY <1>0, <1>2 DEF ReadFails, ThreadTypeOK, threadVars
  <2>2. BridgeTypeOK'
    BY <1>0, <1>2, <2>1 DEF ReadFails, BridgeTypeOK, socketVars, relayVars
  <2>3. UnixTypeOK'
    BY <1>0, <1>2 DEF ReadFails, UnixTypeOK, Apart, socketVars, relayVars, unixVars
  <2>4. Apart'
    BY <1>0, <1>2 DEF ReadFails, Apart, UnixTypeOK, relayVars, unixVars
  <2>5. ReportPerConnection'
    BY <1>0, <1>2
       DEF ReadFails, ReportPerConnection, UnixTypeOK, ThreadTypeOK, threadVars, unixVars
  <2> QED
    BY <2>2, <2>3, <2>4, <2>5 DEF BridgeShape, BridgeTypes
<1>3. CASE TaskAEnds
  <2>1. ThreadTypeOK'
    BY <1>0, <1>3 DEF TaskAEnds, ThreadTypeOK, threadVars
  <2>2. BridgeTypeOK'
    BY <1>0, <1>3, <2>1 DEF TaskAEnds, BridgeTypeOK, socketVars, relayVars
  <2>3. UnixTypeOK'
    BY <1>0, <1>3 DEF TaskAEnds, UnixTypeOK, Apart, socketVars, relayVars, unixVars
  <2>4. Apart'
    BY <1>0, <1>3 DEF TaskAEnds, Apart, UnixTypeOK, relayVars, unixVars
  <2>5. ReportPerConnection'
    BY <1>0, <1>3
       DEF TaskAEnds, ReportPerConnection, UnixTypeOK, ThreadTypeOK, threadVars, unixVars
  <2> QED
    BY <2>2, <2>3, <2>4, <2>5 DEF BridgeShape, BridgeTypes
<1>4. CASE TakeOutput
  <2>1. /\ uhidRead' \in Seq(Reports) /\ Len(uhidRead') = Len(uhidRead) - 1
        /\ Len(uhidRead) \in Nat /\ Len(kernel) \in Nat
        /\ Head(uhidRead) \in Reports /\ inHand' # <<>>
    BY <1>0, <1>4, TakeOne, LenProperties DEF TakeOutput, ThreadTypeOK
  <2>2. tap' \in [Directions -> Seq(Reports)]
    BY <1>0, <1>4, <2>1, PutOne DEF TakeOutput, Intercept, BridgeTypeOK
  <2>3. ThreadTypeOK'
    BY <1>0, <1>4, <2>1, <2>2 DEF TakeOutput, ThreadTypeOK, threadVars
  <2>4. BridgeTypeOK'
    BY <1>0, <1>4, <2>1, <2>2, <2>3 DEF TakeOutput, BridgeTypeOK, socketVars, relayVars
  <2>5. UnixTypeOK'
    BY <1>0, <1>4, <2>1, <2>2 DEF TakeOutput, UnixTypeOK, Apart, socketVars, relayVars, unixVars
  <2>6. Apart'
    BY <1>0, <1>4, <2>1, <2>2 DEF TakeOutput, Apart, UnixTypeOK, relayVars, unixVars
  <2>7. ReportPerConnection'
    BY <1>0, <1>4, <2>1, <2>2
       DEF TakeOutput, ReportPerConnection, UnixTypeOK, ThreadTypeOK, threadVars, unixVars
  <2> QED
    BY <2>4, <2>5, <2>6, <2>7 DEF BridgeShape, BridgeTypes
<1>5. CASE WriteOutput
  <2>1. unread' \in Seq(Reports) /\ Len(unread') <= SocketCap
    BY <1>0, <1>5, WriteFits DEF WriteOutput, BridgeTypeOK
  <2>2. ThreadTypeOK'
    BY <1>0, <1>5, <2>1 DEF WriteOutput, ThreadTypeOK, threadVars
  <2>3. BridgeTypeOK'
    BY <1>0, <1>5, <2>1, <2>2 DEF WriteOutput, BridgeTypeOK, socketVars, relayVars
  <2>4. UnixTypeOK'
    BY <1>0, <1>5, <2>1 DEF WriteOutput, UnixTypeOK, Apart, socketVars, relayVars, unixVars
  <2>5. Apart'
    BY <1>0, <1>5, <2>1 DEF WriteOutput, Apart, UnixTypeOK, relayVars, unixVars
  <2>6. ReportPerConnection'
    BY <1>0, <1>5, <2>1
       DEF WriteOutput, ReportPerConnection, UnixTypeOK, ThreadTypeOK, threadVars, unixVars
  <2> QED
    BY <2>3, <2>4, <2>5, <2>6 DEF BridgeShape, BridgeTypes
<1>6. CASE WriteOutputFails
  <2>1. ThreadTypeOK'
    BY <1>0, <1>6 DEF WriteOutputFails, ThreadTypeOK, threadVars
  <2>2. BridgeTypeOK'
    BY <1>0, <1>6, <2>1 DEF WriteOutputFails, BridgeTypeOK, socketVars, relayVars
  <2>3. UnixTypeOK'
    BY <1>0, <1>6 DEF WriteOutputFails, UnixTypeOK, Apart, socketVars, relayVars, unixVars
  <2>4. Apart'
    BY <1>0, <1>6 DEF WriteOutputFails, Apart, UnixTypeOK, relayVars, unixVars
  <2>5. ReportPerConnection'
    BY <1>0, <1>6
       DEF WriteOutputFails, ReportPerConnection, UnixTypeOK, ThreadTypeOK, threadVars, unixVars
  <2> QED
    BY <2>2, <2>3, <2>4, <2>5 DEF BridgeShape, BridgeTypes
<1>7. CASE TaskBEnds
  <2>1. ThreadTypeOK'
    BY <1>0, <1>7 DEF TaskBEnds, ThreadTypeOK, threadVars
  <2>2. BridgeTypeOK'
    BY <1>0, <1>7, <2>1 DEF TaskBEnds, BridgeTypeOK, socketVars, relayVars
  <2>3. UnixTypeOK'
    BY <1>0, <1>7 DEF TaskBEnds, UnixTypeOK, Apart, socketVars, relayVars, unixVars
  <2>4. Apart'
    BY <1>0, <1>7 DEF TaskBEnds, Apart, UnixTypeOK, relayVars, unixVars
  <2>5. ReportPerConnection'
    BY <1>0, <1>7
       DEF TaskBEnds, ReportPerConnection, UnixTypeOK, ThreadTypeOK, threadVars, unixVars
  <2> QED
    BY <2>2, <2>3, <2>4, <2>5 DEF BridgeShape, BridgeTypes
<1>8. CASE EmulatorSends
  <2>1. emuSent + 1 \in Reports /\ emuSent' \in 0..MaxReports
    BY <1>0, <1>8, NextReport DEF EmulatorSends, BridgeTypeOK
  <2>2. wire' \in Seq(Reports)
    BY <1>0, <1>8, <2>1, PutOne DEF EmulatorSends, BridgeTypeOK
  <2>3. ThreadTypeOK'
    BY <1>0, <1>8, <2>1, <2>2 DEF EmulatorSends, ThreadTypeOK, threadVars
  <2>4. BridgeTypeOK'
    BY <1>0, <1>8, <2>1, <2>2, <2>3 DEF EmulatorSends, BridgeTypeOK, socketVars, relayVars
  <2>5. UnixTypeOK'
    BY <1>0, <1>8, <2>1, <2>2
       DEF EmulatorSends, UnixTypeOK, Apart, socketVars, relayVars, unixVars
  <2>6. Apart'
    BY <1>0, <1>8, <2>1, <2>2 DEF EmulatorSends, Apart, UnixTypeOK, relayVars, unixVars
  <2>7. ReportPerConnection'
    BY <1>0, <1>8, <2>1, <2>2
       DEF EmulatorSends, ReportPerConnection, UnixTypeOK, ThreadTypeOK, threadVars, unixVars
  <2> QED
    BY <2>4, <2>5, <2>6, <2>7 DEF BridgeShape, BridgeTypes
<1>9. CASE EmulatorCloses
  <2>0. unread' \in Seq(Reports) /\ Len(unread') <= SocketCap
    BY <1>9, BridgeAssumption DEF EmulatorCloses
  <2>1. ThreadTypeOK'
    BY <1>0, <1>9 DEF EmulatorCloses, ThreadTypeOK, threadVars
  <2>2. BridgeTypeOK'
    BY <1>0, <1>9, <2>0, <2>1 DEF EmulatorCloses, BridgeTypeOK, socketVars, relayVars
  <2>3. UnixTypeOK'
    BY <1>0, <1>9 DEF EmulatorCloses, UnixTypeOK, Apart, socketVars, relayVars, unixVars
  <2>4. Apart'
    BY <1>0, <1>9 DEF EmulatorCloses, Apart, UnixTypeOK, relayVars, unixVars
  <2>5. ReportPerConnection'
    BY <1>0, <1>9
       DEF EmulatorCloses, ReportPerConnection, UnixTypeOK, ThreadTypeOK, threadVars, unixVars
  <2> QED
    BY <2>2, <2>3, <2>4, <2>5 DEF BridgeShape, BridgeTypes
<1>10. CASE EmulatorReads
  <2>1. /\ unread' \in Seq(Reports) /\ Len(unread') <= SocketCap
        /\ Head(unread) \in Reports
    BY <1>0, <1>10, TakeOne, BridgeAssumption DEF EmulatorReads, BridgeTypeOK
  <2>2. emuGot' \in Seq(Reports)
    BY <1>0, <1>10, <2>1, PutOne DEF EmulatorReads, BridgeTypeOK
  <2>3. ThreadTypeOK'
    BY <1>0, <1>10 DEF EmulatorReads, ThreadTypeOK, threadVars
  <2>4. BridgeTypeOK'
    BY <1>0, <1>10, <2>1, <2>2, <2>3 DEF EmulatorReads, BridgeTypeOK, relayVars
  <2>5. UnixTypeOK'
    BY <1>0, <1>10 DEF EmulatorReads, UnixTypeOK, relayVars, unixVars
  <2>6. Apart'
    BY <1>0, <1>10 DEF EmulatorReads, Apart, relayVars, unixVars
  <2>7. ReportPerConnection'
    BY <1>0, <1>10 DEF EmulatorReads, ReportPerConnection, threadVars, unixVars
  <2> QED
    BY <2>4, <2>5, <2>6, <2>7 DEF BridgeShape, BridgeTypes
<1> QED
  BY <1>1, <1>2, <1>3, <1>4, <1>5, <1>6, <1>7, <1>8, <1>9, <1>10 DEF TaskAStep, TaskBStep

\* The relay over Unix sockets.
LEMMA RelayShape ==
  ASSUME BridgeShape, StartRelay \/ RelayStep
  PROVE  BridgeShape'
<1> USE HidThreadAssumption
<1>0. ThreadTypeOK /\ BridgeTypeOK /\ UnixTypeOK /\ Apart /\ ReportPerConnection
  BY DEF BridgeShape, BridgeTypes, BridgeTypeOK
<1>1. CASE StartRelay
  <2>1. ThreadTypeOK'
    BY <1>0, <1>1 DEF StartRelay, ThreadTypeOK, threadVars
  <2>2. BridgeTypeOK'
    BY <1>0, <1>1, <2>1 DEF StartRelay, BridgeTypeOK, socketVars, relayVars
  <2>3. UnixTypeOK'
    BY <1>0, <1>1 DEF StartRelay, UnixTypeOK, Apart, socketVars, relayVars, unixVars
  <2>4. Apart'
    BY <1>0, <1>1 DEF StartRelay, Apart, UnixTypeOK, relayVars, unixVars
  <2>5. ReportPerConnection'
    BY <1>0, <1>1
       DEF StartRelay, ReportPerConnection, UnixTypeOK, ThreadTypeOK, threadVars, unixVars
  <2> QED
    BY <2>2, <2>3, <2>4, <2>5 DEF BridgeShape, BridgeTypes
<1>2. CASE TakeFirst
  <2>1. /\ uhidRead' \in Seq(Reports) /\ Len(uhidRead') = Len(uhidRead) - 1
        /\ Len(uhidRead) \in Nat /\ Len(kernel) \in Nat
        /\ Head(uhidRead) \in Reports /\ inHand' # <<>>
    BY <1>0, <1>2, TakeOne, LenProperties DEF RelayOnly, TakeFirst, ThreadTypeOK
  <2>2. ThreadTypeOK'
    BY <1>0, <1>2, <2>1 DEF RelayOnly, TakeFirst, ThreadTypeOK, threadVars
  <2>3. BridgeTypeOK'
    BY <1>0, <1>2, <2>1, <2>2 DEF RelayOnly, TakeFirst, BridgeTypeOK, socketVars, relayVars
  <2>4. UnixTypeOK'
    BY <1>0, <1>2, <2>1
       DEF RelayOnly, TakeFirst, UnixTypeOK, Apart, socketVars, relayVars, unixVars
  <2>5. Apart'
    BY <1>0, <1>2, <2>1 DEF RelayOnly, TakeFirst, Apart, UnixTypeOK, relayVars, unixVars
  <2>6. ReportPerConnection'
    BY <1>0, <1>2, <2>1
       DEF RelayOnly, TakeFirst, ReportPerConnection, UnixTypeOK, ThreadTypeOK, threadVars, unixVars
  <2> QED
    BY <2>3, <2>4, <2>5, <2>6 DEF BridgeShape, BridgeTypes
<1>3. CASE Open
  <2>1. Len(uhidRead) \in Nat /\ Len(kernel) \in Nat
    BY <1>0, <1>3, LenProperties DEF RelayOnly, Open, ThreadTypeOK
  <2>2. conn' \in 0..MaxReports
    BY <1>0, <1>3, <2>1 DEF RelayOnly, Open, ReportPerConnection, ThreadTypeOK, UnixTypeOK
  <2>3. Head(inHand) \in Reports
    BY <1>0, <1>3, <2>1, <2>2, OneInHand DEF RelayOnly, Open, UnixTypeOK, Apart
  <2>4. \A c \in Conns : reader'[c] # "none" => c <= conn'
    BY <1>0, <1>3, <2>1, <2>2, <2>3 DEF RelayOnly, Open, UnixTypeOK, Conns
  <2>5. tap' \in [Directions -> Seq(Reports)]
    BY <1>0, <1>3, <2>1, <2>2, <2>3, <2>4, PutOne DEF RelayOnly, Open, Intercept, BridgeTypeOK
  <2>6. ThreadTypeOK'
    BY <1>0, <1>3, <2>1, <2>2, <2>3, <2>4, <2>5 DEF RelayOnly, Open, ThreadTypeOK, threadVars
  <2>7. BridgeTypeOK'
    BY <1>0, <1>3, <2>1, <2>2, <2>3, <2>4, <2>5, <2>6
       DEF RelayOnly, Open, BridgeTypeOK, socketVars, relayVars
  <2>8. UnixTypeOK'
    BY <1>0, <1>3, <2>1, <2>2, <2>3, <2>4, <2>5
       DEF RelayOnly, Open, UnixTypeOK, Apart, socketVars, relayVars, unixVars
  <2>9. Apart'
    BY <1>0, <1>3, <2>1, <2>2, <2>3, <2>4, <2>5
       DEF RelayOnly, Open, Apart, UnixTypeOK, relayVars, unixVars
  <2>10. ReportPerConnection'
    BY <1>0, <1>3, <2>1, <2>2, <2>3, <2>4, <2>5
       DEF RelayOnly, Open, ReportPerConnection, UnixTypeOK, ThreadTypeOK, threadVars, unixVars
  <2> QED
    BY <2>7, <2>8, <2>9, <2>10 DEF BridgeShape, BridgeTypes
<1>4. CASE OpenFails
  <2>1. ThreadTypeOK'
    BY <1>0, <1>4 DEF RelayOnly, OpenFails, ThreadTypeOK, threadVars
  <2>2. BridgeTypeOK'
    BY <1>0, <1>4, <2>1 DEF RelayOnly, OpenFails, BridgeTypeOK, socketVars, relayVars
  <2>3. UnixTypeOK'
    BY <1>0, <1>4 DEF RelayOnly, OpenFails, UnixTypeOK, Apart, socketVars, relayVars, unixVars
  <2>4. Apart'
    BY <1>0, <1>4 DEF RelayOnly, OpenFails, Apart, UnixTypeOK, relayVars, unixVars
  <2>5. ReportPerConnection'
    BY <1>0, <1>4
       DEF RelayOnly, OpenFails, ReportPerConnection, UnixTypeOK, ThreadTypeOK, threadVars, unixVars
  <2> QED
    BY <2>2, <2>3, <2>4, <2>5 DEF BridgeShape, BridgeTypes
<1>5. CASE Greet
  <2>1. conn \in Conns
    BY <1>0, <1>5 DEF RelayOnly, Greet, Conns, UnixTypeOK, ReportPerConnection
  <2>2. unread' \in Seq(Reports) /\ Len(unread') <= SocketCap
    BY <1>0, <1>5, WriteFits DEF Greet
  <2>3. ThreadTypeOK'
    BY <1>0, <1>5, <2>1, <2>2 DEF RelayOnly, Greet, ThreadTypeOK, threadVars
  <2>4. BridgeTypeOK'
    BY <1>0, <1>5, <2>1, <2>2, <2>3 DEF RelayOnly, Greet, BridgeTypeOK, socketVars, relayVars
  <2>5. UnixTypeOK'
    BY <1>0, <1>5, <2>1, <2>2
       DEF RelayOnly, Greet, UnixTypeOK, Apart, socketVars, relayVars, unixVars
  <2>6. Apart'
    BY <1>0, <1>5, <2>1, <2>2 DEF RelayOnly, Greet, Apart, UnixTypeOK, relayVars, unixVars
  <2>7. ReportPerConnection'
    BY <1>0, <1>5, <2>1, <2>2
       DEF RelayOnly, Greet, ReportPerConnection, UnixTypeOK, ThreadTypeOK, threadVars, unixVars
  <2> QED
    BY <2>4, <2>5, <2>6, <2>7 DEF BridgeShape, BridgeTypes
<1>6. CASE TakeNext
  <2>1. /\ uhidRead' \in Seq(Reports) /\ Len(uhidRead') = Len(uhidRead) - 1
        /\ Len(uhidRead) \in Nat /\ Len(kernel) \in Nat
        /\ Head(uhidRead) \in Reports /\ inHand' # <<>>
    BY <1>0, <1>6, TakeOne, LenProperties DEF RelayOnly, TakeNext, ThreadTypeOK
  <2>2. tap' \in [Directions -> Seq(Reports)]
    BY <1>0, <1>6, <2>1, PutOne DEF RelayOnly, TakeNext, Intercept, BridgeTypeOK
  <2>3. ThreadTypeOK'
    BY <1>0, <1>6, <2>1, <2>2 DEF RelayOnly, TakeNext, ThreadTypeOK, threadVars
  <2>4. BridgeTypeOK'
    BY <1>0, <1>6, <2>1, <2>2, <2>3 DEF RelayOnly, TakeNext, BridgeTypeOK, socketVars, relayVars
  <2>5. UnixTypeOK'
    BY <1>0, <1>6, <2>1, <2>2
       DEF RelayOnly, TakeNext, UnixTypeOK, Apart, socketVars, relayVars, unixVars
  <2>6. Apart'
    BY <1>0, <1>6, <2>1, <2>2 DEF RelayOnly, TakeNext, Apart, UnixTypeOK, relayVars, unixVars
  <2>7. ReportPerConnection'
    BY <1>0, <1>6, <2>1, <2>2
       DEF RelayOnly, TakeNext, ReportPerConnection, UnixTypeOK, ThreadTypeOK, threadVars, unixVars
  <2> QED
    BY <2>4, <2>5, <2>6, <2>7 DEF BridgeShape, BridgeTypes
<1>7. CASE Write
  <2>1. unread' \in Seq(Reports) /\ Len(unread') <= SocketCap
    BY <1>0, <1>7, WriteFits DEF Write
  <2>2. ThreadTypeOK'
    BY <1>0, <1>7, <2>1 DEF RelayOnly, Write, ThreadTypeOK, threadVars
  <2>3. BridgeTypeOK'
    BY <1>0, <1>7, <2>1, <2>2 DEF RelayOnly, Write, BridgeTypeOK, socketVars, relayVars
  <2>4. UnixTypeOK'
    BY <1>0, <1>7, <2>1 DEF RelayOnly, Write, UnixTypeOK, Apart, socketVars, relayVars, unixVars
  <2>5. Apart'
    BY <1>0, <1>7, <2>1 DEF RelayOnly, Write, Apart, UnixTypeOK, relayVars, unixVars
  <2>6. ReportPerConnection'
    BY <1>0, <1>7, <2>1
       DEF RelayOnly, Write, ReportPerConnection, UnixTypeOK, ThreadTypeOK, threadVars, unixVars
  <2> QED
    BY <2>3, <2>4, <2>5, <2>6 DEF BridgeShape, BridgeTypes
<1>8. CASE WriteFails
  <2>1. ThreadTypeOK'
    BY <1>0, <1>8 DEF RelayOnly, WriteFails, ThreadTypeOK, threadVars
  <2>2. BridgeTypeOK'
    BY <1>0, <1>8, <2>1 DEF RelayOnly, WriteFails, BridgeTypeOK, socketVars, relayVars
  <2>3. UnixTypeOK'
    BY <1>0, <1>8 DEF RelayOnly, WriteFails, UnixTypeOK, Apart, socketVars, relayVars, unixVars
  <2>4. Apart'
    BY <1>0, <1>8 DEF RelayOnly, WriteFails, Apart, UnixTypeOK, relayVars, unixVars
  <2>5. ReportPerConnection'
    BY <1>0, <1>8
       DEF RelayOnly, WriteFails, ReportPerConnection, UnixTypeOK, ThreadTypeOK, threadVars,
           unixVars
  <2> QED
    BY <2>2, <2>3, <2>4, <2>5 DEF BridgeShape, BridgeTypes
<1>9. CASE RelayEnds
  <2>1. ThreadTypeOK'
    BY <1>0, <1>9 DEF RelayOnly, RelayEnds, ThreadTypeOK, threadVars
  <2>2. BridgeTypeOK'
    BY <1>0, <1>9, <2>1 DEF RelayOnly, RelayEnds, BridgeTypeOK, socketVars, relayVars
  <2>3. UnixTypeOK'
    BY <1>0, <1>9 DEF RelayOnly, RelayEnds, UnixTypeOK, Apart, socketVars, relayVars, unixVars
  <2>4. Apart'
    BY <1>0, <1>9 DEF RelayOnly, RelayEnds, Apart, UnixTypeOK, relayVars, unixVars
  <2>5. ReportPerConnection'
    BY <1>0, <1>9
       DEF RelayOnly, RelayEnds, ReportPerConnection, UnixTypeOK, ThreadTypeOK, threadVars, unixVars
  <2> QED
    BY <2>2, <2>3, <2>4, <2>5 DEF BridgeShape, BridgeTypes
<1> QED
  BY <1>1, <1>2, <1>3, <1>4, <1>5, <1>6, <1>7, <1>8, <1>9 DEF RelayStep

\* The readers, and the emulator behind a Unix socket.
LEMMA ReaderShape ==
  ASSUME BridgeShape,
         \/ \E c \in Conns : ReaderStep(c)
         \/ EmulatorAnswers \/ EmulatorDies \/ EmulatorReturns
  PROVE  BridgeShape'
<1> USE HidThreadAssumption, UnixAssumption
<1>0. ThreadTypeOK /\ BridgeTypeOK /\ UnixTypeOK /\ Apart /\ ReportPerConnection
  BY DEF BridgeShape, BridgeTypes, BridgeTypeOK
<1>1. ASSUME NEW c \in Conns, Read(c)
      PROVE  BridgeShape'
  <2>1. /\ wires[c] \in Seq(Reports) /\ Head(wires[c]) \in Reports
        /\ wires' \in [Conns -> Seq(Reports)]
    BY <1>0, <1>1, TakeOne DEF Read, UnixTypeOK
  <2>2. tap' \in [Directions -> Seq(Reports)]
    BY <1>0, <1>1, <2>1, PutOne DEF Read, Intercept, BridgeTypeOK
  <2>3. uhidWrite \in Seq(Reports) /\ Append(uhidWrite, Head(wires[c])) \in Seq(Reports)
    BY <1>0, <1>1, <2>1, <2>2, PutOne DEF Read, ThreadTypeOK
  <2>4. uhidWrite' \in Seq(Reports)
    BY <1>0, <1>1, <2>1, <2>2, <2>3 DEF Read
  <2>5. ThreadTypeOK'
    BY <1>0, <1>1, <2>1, <2>2, <2>3, <2>4 DEF Read, ThreadTypeOK, threadVars
  <2>6. BridgeTypeOK'
    BY <1>0, <1>1, <2>1, <2>2, <2>3, <2>4, <2>5 DEF Read, BridgeTypeOK, socketVars, relayVars
  <2>7. UnixTypeOK'
    BY <1>0, <1>1, <2>1, <2>2, <2>3, <2>4
       DEF Read, UnixTypeOK, Apart, socketVars, relayVars, unixVars
  <2>8. Apart'
    BY <1>0, <1>1, <2>1, <2>2, <2>3, <2>4 DEF Read, Apart, UnixTypeOK, relayVars, unixVars
  <2>9. ReportPerConnection'
    BY <1>0, <1>1, <2>1, <2>2, <2>3, <2>4
       DEF Read, ReportPerConnection, UnixTypeOK, ThreadTypeOK, threadVars, unixVars
  <2> QED
    BY <2>6, <2>7, <2>8, <2>9 DEF BridgeShape, BridgeTypes
<1>2. ASSUME NEW c \in Conns, ReadEnds(c)
      PROVE  BridgeShape'
  <2>1. ThreadTypeOK'
    BY <1>0, <1>2 DEF ReadEnds, bridgeVars, ThreadTypeOK, threadVars
  <2>2. BridgeTypeOK'
    BY <1>0, <1>2, <2>1 DEF ReadEnds, bridgeVars, BridgeTypeOK, socketVars, relayVars
  <2>3. UnixTypeOK'
    BY <1>0, <1>2 DEF ReadEnds, bridgeVars, UnixTypeOK, Apart, socketVars, relayVars, unixVars
  <2>4. Apart'
    BY <1>0, <1>2 DEF ReadEnds, bridgeVars, Apart, UnixTypeOK, relayVars, unixVars
  <2>5. ReportPerConnection'
    BY <1>0, <1>2
       DEF ReadEnds, bridgeVars, ReportPerConnection, UnixTypeOK, ThreadTypeOK, threadVars, unixVars
  <2> QED
    BY <2>2, <2>3, <2>4, <2>5 DEF BridgeShape, BridgeTypes
<1>3. CASE EmulatorAnswers
  <2>1. emuSent + 1 \in Reports /\ emuSent' \in 0..MaxReports
    BY <1>0, <1>3, NextReport DEF EmulatorAnswers, BridgeTypeOK
  <2>2. conn \in Conns
    BY <1>0, <1>3, <2>1 DEF EmulatorAnswers, Conns, UnixTypeOK, ReportPerConnection
  <2>3. wires' \in [Conns -> Seq(Reports)]
    BY <1>0, <1>3, <2>1, <2>2, PutOne DEF EmulatorAnswers, UnixTypeOK
  <2>4. origin' \in Seq(Conns) /\ Len(origin') = Len(origin) + 1
    BY <1>0, <1>3, <2>1, <2>2, <2>3, PutOne DEF EmulatorAnswers, UnixTypeOK
  <2>5. ThreadTypeOK'
    BY <1>0, <1>3, <2>1, <2>2, <2>3, <2>4 DEF EmulatorAnswers, ThreadTypeOK, threadVars
  <2>6. BridgeTypeOK'
    BY <1>0, <1>3, <2>1, <2>2, <2>3, <2>4, <2>5
       DEF EmulatorAnswers, BridgeTypeOK, socketVars, relayVars
  <2>7. UnixTypeOK'
    BY <1>0, <1>3, <2>1, <2>2, <2>3, <2>4
       DEF EmulatorAnswers, UnixTypeOK, Apart, socketVars, relayVars, unixVars
  <2>8. Apart'
    BY <1>0, <1>3, <2>1, <2>2, <2>3, <2>4
       DEF EmulatorAnswers, Apart, UnixTypeOK, relayVars, unixVars
  <2>9. ReportPerConnection'
    BY <1>0, <1>3, <2>1, <2>2, <2>3, <2>4
       DEF EmulatorAnswers, ReportPerConnection, UnixTypeOK, ThreadTypeOK, threadVars, unixVars
  <2> QED
    BY <2>6, <2>7, <2>8, <2>9 DEF BridgeShape, BridgeTypes
<1>4. CASE EmulatorDies
  <2>1. deaths \in 0..MaxDeaths
    BY <1>0, <1>4 DEF EmulatorDies, UnixTypeOK
  <2>2. deaths' = deaths + 1 /\ deaths < MaxDeaths
    BY <1>0, <1>4, <2>1 DEF EmulatorDies
  <2>3. /\ deaths' \in 0..MaxDeaths /\ swallowed' \in Nat
        /\ unread' \in Seq(Reports) /\ Len(unread') <= SocketCap
    <3>1. deaths' \in 0..MaxDeaths
      BY <2>1, <2>2, UnixAssumption
    <3>2. Len(unread) \in Nat /\ swallowed \in Nat /\ swallowed' = swallowed + Len(unread)
      BY <1>0, <1>4, LenProperties DEF EmulatorDies, BridgeTypeOK, UnixTypeOK
    <3> QED
      BY <1>4, <3>1, <3>2, BridgeAssumption DEF EmulatorDies
  <2>4. ThreadTypeOK'
    BY <1>0, <1>4, <2>1, <2>2, <2>3 DEF EmulatorDies, ThreadTypeOK, threadVars
  <2>5. BridgeTypeOK'
    BY <1>0, <1>4, <2>1, <2>2, <2>3, <2>4 DEF EmulatorDies, BridgeTypeOK, socketVars, relayVars
  <2>6. UnixTypeOK'
    BY <1>0, <1>4, <2>1, <2>2, <2>3
       DEF EmulatorDies, UnixTypeOK, Apart, socketVars, relayVars, unixVars
  <2>7. Apart'
    BY <1>0, <1>4, <2>1, <2>2, <2>3 DEF EmulatorDies, Apart, UnixTypeOK, relayVars, unixVars
  <2>8. ReportPerConnection'
    BY <1>0, <1>4, <2>1, <2>2, <2>3
       DEF EmulatorDies, ReportPerConnection, UnixTypeOK, ThreadTypeOK, threadVars, unixVars
  <2> QED
    BY <2>5, <2>6, <2>7, <2>8 DEF BridgeShape, BridgeTypes
<1>5. CASE EmulatorReturns
  <2>1. ThreadTypeOK'
    BY <1>0, <1>5 DEF EmulatorReturns, ThreadTypeOK, threadVars
  <2>2. BridgeTypeOK'
    BY <1>0, <1>5, <2>1 DEF EmulatorReturns, BridgeTypeOK, socketVars, relayVars
  <2>3. UnixTypeOK'
    BY <1>0, <1>5 DEF EmulatorReturns, UnixTypeOK, Apart, socketVars, relayVars, unixVars
  <2>4. Apart'
    BY <1>0, <1>5 DEF EmulatorReturns, Apart, UnixTypeOK, relayVars, unixVars
  <2>5. ReportPerConnection'
    BY <1>0, <1>5
       DEF EmulatorReturns, ReportPerConnection, UnixTypeOK, ThreadTypeOK, threadVars, unixVars
  <2> QED
    BY <2>2, <2>3, <2>4, <2>5 DEF BridgeShape, BridgeTypes
<1> QED
  BY <1>1, <1>2, <1>3, <1>4, <1>5 DEF ReaderStep

\* A step of a bridge keeps its shape, and its transport.
LEMMA BridgeShapeStep ==
  ASSUME BridgeShape, [UnixNext]_allVars
  PROVE  BridgeShape'
<1>1. ASSUME BridgeNext, UNCHANGED unixVars
      PROVE  BridgeShape'
  <2>1. CASE OwnerStep
    BY <1>1, <2>1, OwnerShape
  <2>2. CASE TaskAStep \/ TaskBStep \/ EmulatorSends \/ EmulatorReads \/ EmulatorCloses
    BY <1>1, <2>2, TcpShape
  <2>3. CASE ThreadStep \/ OutsideStep
    <3>1. ThreadTurn /\ UNCHANGED <<transport, owner, running, socketVars, relayVars>>
      BY <2>3 DEF ThreadStep, OutsideStep, ThreadTurn, Receiver
    <3> QED
      BY <1>1, <3>1, ThreadShape
  <2> QED
    BY <1>1, <2>1, <2>2, <2>3 DEF BridgeNext, OwnerStep
<1>2. CASE UnixThreadStep
  <2>1. ThreadTurn
    BY <1>2 DEF UnixThreadStep, ThreadTurn, UnixReceiver
  <2> QED
    BY <1>2, <2>1, ThreadShape DEF UnixThreadStep
<1>3. CASE UNCHANGED allVars
  <2>1. UNCHANGED <<threadVars, transport, owner, running, socketVars, relayVars, unixVars>>
    BY <1>3 DEF allVars, bridgeVars
  <2>2. BridgeTypes'
    BY <2>1 DEF BridgeShape, BridgeTypes, BridgeTypeOK, ThreadTypeOK, UnixTypeOK,
                threadVars, socketVars, relayVars, unixVars
  <2>3. Apart' /\ ReportPerConnection'
    BY <2>1 DEF BridgeShape, Apart, ReportPerConnection, threadVars, relayVars, unixVars
  <2> QED
    BY <2>2, <2>3 DEF BridgeShape
<1> QED
  BY <1>1, <1>2, <1>3, RelayShape, ReaderShape DEF UnixNext
-----------------------------------------------------------------------------
(***************************************************************************)
(* What the tap has been told.                                             *)
(***************************************************************************)

\* A sequence that grows at its end keeps its prefixes.
LEMMA PrefixExtends ==
  ASSUME NEW S, NEW s \in Seq(S), NEW t \in Seq(S), NEW u \in Seq(S), IsPrefix(s, t)
  PROVE  IsPrefix(s, t \o u)
<1>1. /\ Len(s) \in Nat /\ Len(t) \in Nat /\ Len(u) \in Nat /\ Len(s) <= Len(t)
      /\ Len(t \o u) = Len(t) + Len(u)
  BY LenProperties, ConcatProperties DEF IsPrefix
<1>2. SubSeq(t \o u, 1, Len(s)) = SubSeq(t, 1, Len(s))
  <2>1. CASE Len(s) = 0
    BY <2>1, SubSeqEmpty
  <2>2. CASE Len(s) # 0
    <3>1. 1 \in 1..Len(t) /\ Len(s) \in 1..Len(t)
      BY <1>1, <2>2
    <3> QED
      BY <3>1, SubSeqOfConcat1
  <2> QED
    BY <2>1, <2>2
<1> QED
  BY <1>1, <1>2 DEF IsPrefix

\* A sequence is a prefix of itself.
LEMMA PrefixOfSelf ==
  ASSUME NEW S, NEW s \in Seq(S)
  PROVE  IsPrefix(s, s)
<1>1. Len(s) \in Nat
  BY LenProperties
<1> QED
  BY <1>1 DEF IsPrefix

\* Moving the head of one sequence to the end of another.
LEMMA MoveOne ==
  ASSUME NEW S, NEW s \in Seq(S), NEW t \in Seq(S), t # <<>>
  PROVE  Append(s, Head(t)) \o Tail(t) = s \o t
<1>1. /\ Head(t) \in S /\ Tail(t) \in Seq(S) /\ Len(Tail(t)) = Len(t) - 1
      /\ \A i \in 1..Len(Tail(t)) : Tail(t)[i] = t[i + 1]
      /\ Head(t) = t[1]
  BY HeadTailProperties
<1>2. <<Head(t)>> \in Seq(S) /\ Append(s, Head(t)) = s \o <<Head(t)>>
  BY <1>1, AppendIsConcat
<1>3. (s \o <<Head(t)>>) \o Tail(t) = s \o (<<Head(t)>> \o Tail(t))
  BY <1>1, <1>2, ConcatAssociative
<1>4. <<Head(t)>> \o Tail(t) = t
  <2>1. Len(t) \in Nat /\ Len(t) > 0
    BY EmptySeq
  <2>2. SubSeq(t, 1, Len(t)) = <<t[1]>> \o SubSeq(t, 2, Len(t))
    <3>1. 1 \in 1..Len(t) /\ Len(t) \in 1..Len(t)
      BY <2>1
    <3> QED
      BY <3>1, SubSeqRecursiveFirst
  <2> QED
    BY <1>1, <2>2, SubSeqFull, TailIsSubSeq
<1> QED
  BY <1>2, <1>3, <1>4

\* Appending to the second of two sequences appends to both.
LEMMA AppendToConcat ==
  ASSUME NEW S, NEW s \in Seq(S), NEW t \in Seq(S), NEW e \in S
  PROVE  s \o Append(t, e) = Append(s \o t, e)
<1>1. <<e>> \in Seq(S) /\ s \o t \in Seq(S)
  BY ConcatProperties
<1>2. Append(t, e) = t \o <<e>> /\ Append(s \o t, e) = (s \o t) \o <<e>>
  BY <1>1, AppendIsConcat
<1> QED
  BY <1>1, <1>2, ConcatAssociative

\* What has been written to the emulator, whether it has read it or not.
Out == emuGot \o unread

\* Reading moves a report, and touches nothing else.
LEMMA ReadingKeeps ==
  ASSUME BridgeTypeOK, EmulatorReads
  PROVE  /\ Out' = Out
         /\ UNCHANGED <<threadVars, transport, owner, running, peer, wire, emuSent, relayVars>>
<1>1. emuGot \in Seq(Reports) /\ unread \in Seq(Reports)
  BY DEF BridgeTypeOK
<1> QED
  BY <1>1, MoveOne DEF EmulatorReads, Out

\* Writing appends what is in hand.
LEMMA WritingAppends ==
  ASSUME BridgeTypeOK, emuGot' = emuGot, unread' = unread \o inHand
  PROVE  Out' = Out \o inHand
<1>1. emuGot \in Seq(Reports) /\ unread \in Seq(Reports) /\ inHand \in Seq(Reports)
  BY OneInHand DEF BridgeTypeOK
<1> QED
  BY <1>1, ConcatAssociative DEF Out

\* An emulator that goes leaves what it had read.
LEMMA ClosingCuts ==
  ASSUME BridgeTypeOK, emuGot' = emuGot, unread' = <<>>
  PROVE  Out' = emuGot
<1>1. emuGot \in Seq(Reports)
  BY DEF BridgeTypeOK
<1> QED
  BY <1>1, ConcatEmptySeq DEF Out

\* The types of what has been written and of its parts.
LEMMA OutTyped ==
  ASSUME BridgeTypeOK
  PROVE  /\ emuGot \in Seq(Reports) /\ unread \in Seq(Reports) /\ Out \in Seq(Reports)
         /\ Len(Out) = Len(emuGot) + Len(unread) /\ Len(emuGot) \in Nat /\ Len(unread) \in Nat
         /\ \A i \in 1..Len(emuGot) : i \in 1..Len(Out) /\ Out[i] = emuGot[i]
<1>1. emuGot \in Seq(Reports) /\ unread \in Seq(Reports)
  BY DEF BridgeTypeOK
<1> QED
  BY <1>1, ConcatProperties, LenProperties DEF Out

\* What a prefix is, element by element.
LEMMA PrefixElements ==
  ASSUME NEW S, NEW s \in Seq(S), NEW t \in Seq(S)
  PROVE  IsPrefix(s, t) <=> Len(s) <= Len(t) /\ \A i \in 1..Len(s) : s[i] = t[i]
<1>1. Len(s) \in Nat /\ Len(t) \in Nat
  BY LenProperties
<1>2. ASSUME Len(s) <= Len(t)
      PROVE  SubSeq(s, 1, Len(s)) = SubSeq(t, 1, Len(s))
             <=> \A i \in 1..Len(s) : s[i] = t[i]
  <2>1. /\ SubSeq(s, 1, Len(s)) \in Seq(S) /\ Len(SubSeq(s, 1, Len(s))) = Len(s)
        /\ \A i \in 1..Len(s) : SubSeq(s, 1, Len(s))[i] = s[i]
        /\ SubSeq(t, 1, Len(s)) \in Seq(S) /\ Len(SubSeq(t, 1, Len(s))) = Len(s)
        /\ \A i \in 1..Len(s) : SubSeq(t, 1, Len(s))[i] = t[i]
    BY <1>1, <1>2
  <2>2. ASSUME \A i \in 1..Len(s) : s[i] = t[i]
        PROVE  SubSeq(s, 1, Len(s)) = SubSeq(t, 1, Len(s))
    BY <2>1, <2>2, SeqEqual
  <2>3. ASSUME SubSeq(s, 1, Len(s)) = SubSeq(t, 1, Len(s)), NEW i \in 1..Len(s)
        PROVE  s[i] = t[i]
    BY <2>1, <2>3
  <2> QED
    BY <2>2, <2>3
<1> QED
  BY <1>1, <1>2 DEF IsPrefix

\* Over TCP the tap has been told of all that task A has sent up, and of all
\* that task B has taken; a task B that lost a report never writes again.
TapInv ==
  transport = "tcp" =>
  /\ hostGot \o uhidWrite = tap["DeviceToHost"]
  /\ IsPrefix(Out, tap["HostToDevice"])
  /\ peer = "open" /\ taskB # "gone" => Out \o inHand = tap["HostToDevice"]

\* A bridge keeps its transport; a step over TCP is one of Bridge's.
LEMMA TcpSteps ==
  ASSUME BridgeShape, [UnixNext]_allVars
  PROVE  /\ transport' = transport
         /\ transport = "tcp" => BridgeNext \/ UNCHANGED bridgeVars
<1>1. UNCHANGED bridgeVars => transport' = transport
  BY DEF bridgeVars
<1>2. BridgeNext => transport' = transport
  BY DEF BridgeNext, CreateDevice, Connected, ConnectFails, Stop, StopReturns, DropBridge,
         TaskAStep, RelayInput, ReadFails, TaskAEnds, TaskBStep, TakeOutput, WriteOutput,
         WriteOutputFails, TaskBEnds, ThreadStep, EmulatorSends, EmulatorReads, EmulatorCloses,
         OutsideStep
<1>3. StartRelay \/ RelayStep => transport' = transport /\ transport # "tcp"
  BY DEF StartRelay, RelayStep, RelayOnly, TakeFirst, Open, OpenFails, Greet, TakeNext, Write,
         WriteFails, RelayEnds, BridgeShape, Apart
<1>4. ASSUME NEW c \in Conns, ReaderStep(c)
      PROVE  transport' = transport /\ transport # "tcp"
  BY <1>1, <1>4 DEF ReaderStep, Read, ReadEnds, BridgeShape, Apart
<1>5. UnixThreadStep \/ EmulatorAnswers \/ EmulatorDies \/ EmulatorReturns
      => transport' = transport /\ transport # "tcp"
  BY DEF UnixThreadStep, EmulatorAnswers, EmulatorDies, EmulatorReturns, BridgeShape, Apart
<1> QED
  BY <1>1, <1>2, <1>3, <1>4, <1>5 DEF UnixNext, allVars

\* Every step keeps what the tap over TCP has been told.
LEMMA TapStep ==
  ASSUME BridgeShape, TapInv, [UnixNext]_allVars
  PROVE  TapInv'
<1>1. SUFFICES ASSUME transport = "tcp", BridgeNext \/ UNCHANGED bridgeVars
               PROVE  TapInv'
  BY TcpSteps DEF TapInv
<1>2. /\ hostGot \in Seq(Reports) /\ uhidWrite \in Seq(Reports) /\ wire \in Seq(Reports)
      /\ Out \in Seq(Reports) /\ inHand \in Seq(Reports) /\ uhidRead \in Seq(Reports)
      /\ tap \in [Directions -> Seq(Reports)]
  BY OneInHand, OutTyped DEF BridgeShape, BridgeTypes, BridgeTypeOK, ThreadTypeOK
<1>3. /\ hostGot \o uhidWrite = tap["DeviceToHost"]
      /\ IsPrefix(Out, tap["HostToDevice"])
      /\ peer = "open" /\ taskB # "gone" => Out \o inHand = tap["HostToDevice"]
  BY <1>1 DEF TapInv
<1>4. CASE RelayInput
  <2>1. Head(wire) \in Reports
    BY <1>2, <1>4, TakeOne DEF RelayInput
  <2>2. hostGot \o Append(uhidWrite, Head(wire)) = Append(hostGot \o uhidWrite, Head(wire))
    BY <1>2, <2>1, AppendToConcat
  <2>3. /\ tap'["DeviceToHost"] = Append(tap["DeviceToHost"], Head(wire))
        /\ tap'["HostToDevice"] = tap["HostToDevice"]
    BY <1>2, <1>4 DEF RelayInput, Intercept, Directions
  <2> QED
    BY <1>3, <1>4, <2>2, <2>3 DEF RelayInput, TapInv, Out
<1>5. ASSUME WriteInput, UNCHANGED <<transport, socketVars, relayVars>>
      PROVE  TapInv'
  <2>1. Append(hostGot, Head(uhidWrite)) \o Tail(uhidWrite) = hostGot \o uhidWrite
    BY <1>2, <1>5, MoveOne DEF WriteInput
  <2> QED
    BY <1>3, <1>5, <2>1 DEF WriteInput, TapInv, socketVars, relayVars, Out
<1>6. CASE TakeOutput
  <2>1. Head(uhidRead) \in Reports /\ <<Head(uhidRead)>> \in Seq(Reports)
    BY <1>2, <1>6, TakeOne DEF TakeOutput
  <2>2. /\ tap'["HostToDevice"] = Append(tap["HostToDevice"], Head(uhidRead))
        /\ tap'["DeviceToHost"] = tap["DeviceToHost"]
    BY <1>2, <1>6 DEF TakeOutput, Intercept, Directions
  <2>3. tap["HostToDevice"] \in Seq(Reports)
    BY <1>2 DEF Directions
  <2>4. Append(tap["HostToDevice"], Head(uhidRead)) = tap["HostToDevice"] \o <<Head(uhidRead)>>
    BY <2>1, <2>3, AppendIsConcat
  <2>5. IsPrefix(Out, tap'["HostToDevice"])
    BY <1>2, <1>3, <2>1, <2>2, <2>3, <2>4, PrefixExtends
  <2>6. inHand = <<>> /\ Out \o <<>> = Out
    BY <1>1, <1>2, <1>6, ConcatEmptySeq DEF TakeOutput, BridgeShape, Apart
  <2>7. peer = "open" => Out \o inHand' = tap'["HostToDevice"]
    BY <1>3, <1>6, <2>2, <2>4, <2>6 DEF TakeOutput
  <2> QED
    BY <1>3, <1>6, <2>2, <2>5, <2>7 DEF TakeOutput, TapInv, socketVars, Out
<1>7. CASE WriteOutput
  <2>1. /\ taskB = "writing" /\ inHand' = <<>>
        /\ UNCHANGED <<tap, peer, hostGot, uhidWrite, transport>>
    BY <1>7 DEF WriteOutput, threadVars
  <2>2. CASE peer = "open"
    <3>1. Out' = tap["HostToDevice"]
      BY <1>3, <1>7, <2>1, <2>2, WritingAppends DEF WriteOutput, BridgeShape, BridgeTypes
    <3>2. tap["HostToDevice"] \in Seq(Reports)
      BY <1>2 DEF Directions
    <3>3. IsPrefix(Out', tap["HostToDevice"]) /\ Out' \o <<>> = Out'
      BY <3>1, <3>2, PrefixOfSelf, ConcatEmptySeq
    <3> QED
      BY <1>3, <2>1, <3>1, <3>3 DEF TapInv
  <2>3. CASE peer # "open"
    BY <1>3, <1>7, <2>1, <2>3 DEF WriteOutput, TapInv, Out
  <2> QED
    BY <2>2, <2>3
<1>8. ASSUME UNCHANGED <<hostGot, uhidWrite, tap, Out>>,
             peer' = "open" /\ taskB' # "gone"
             => peer = "open" /\ taskB # "gone" /\ inHand' = inHand
      PROVE  TapInv'
  BY <1>3, <1>8 DEF TapInv
<1>9. ASSUME \/ CheckShutdown \/ WriteDone \/ PollNothing \/ PollReport(Receiver)
             \/ HostWrites \/ DeviceFails,
             UNCHANGED <<socketVars, relayVars>>
      PROVE  TapInv'
  <2>1. UNCHANGED <<hostGot, uhidWrite>>
    BY <1>9 DEF CheckShutdown, WriteDone, PollNothing, PollReport, HostWrites, DeviceFails
  <2> QED
    BY <1>8, <1>9, <2>1 DEF socketVars, relayVars, Out
<1>10. CASE ThreadStep \/ OutsideStep
  BY <1>5, <1>9, <1>10 DEF ThreadStep, OutsideStep, ThreadLoop
<1>11. CASE CreateDevice \/ ConnectFails \/ Stop \/ StopReturns \/ DropBridge
  BY <1>8, <1>11 DEF CreateDevice, ConnectFails, Stop, StopReturns, DropBridge,
                     threadVars, socketVars, relayVars, Out
<1>12. CASE Connected
  BY <1>8, <1>12 DEF Connected, threadVars, socketVars, BridgeShape, Apart, Out
<1>13. CASE ReadFails \/ TaskAEnds \/ WriteOutputFails \/ TaskBEnds
  BY <1>8, <1>13 DEF ReadFails, TaskAEnds, WriteOutputFails, TaskBEnds, threadVars, socketVars, Out
<1>14. CASE EmulatorSends
  BY <1>8, <1>14 DEF EmulatorSends, threadVars, relayVars, Out
<1>16. CASE EmulatorReads
  BY <1>8, <1>16, ReadingKeeps DEF threadVars, relayVars, BridgeShape, BridgeTypes
<1>17. CASE EmulatorCloses
  <2>1. Out' = emuGot /\ peer' = "closed" /\ UNCHANGED <<hostGot, uhidWrite, tap>>
    BY <1>17, ClosingCuts DEF EmulatorCloses, threadVars, relayVars, BridgeShape, BridgeTypes
  <2>2. IsPrefix(emuGot, tap["HostToDevice"])
    <3>1. tap["HostToDevice"] \in Seq(Reports)
      BY <1>2 DEF Directions
    <3>2. /\ emuGot \in Seq(Reports) /\ Len(Out) = Len(emuGot) + Len(unread)
          /\ Len(emuGot) \in Nat /\ Len(unread) \in Nat
          /\ \A i \in 1..Len(emuGot) : i \in 1..Len(Out) /\ Out[i] = emuGot[i]
      BY OutTyped DEF BridgeShape, BridgeTypes
    <3>3. /\ Len(Out) <= Len(tap["HostToDevice"])
          /\ \A i \in 1..Len(Out) : Out[i] = tap["HostToDevice"][i]
      BY <1>2, <1>3, <3>1, PrefixElements
    <3>4. /\ Len(emuGot) <= Len(tap["HostToDevice"])
          /\ \A i \in 1..Len(emuGot) : emuGot[i] = tap["HostToDevice"][i]
      BY <3>1, <3>2, <3>3, LenProperties
    <3> QED
      BY <3>1, <3>2, <3>4, PrefixElements
  <2> QED
    BY <1>3, <2>1, <2>2 DEF TapInv
<1>15. CASE UNCHANGED bridgeVars
  BY <1>8, <1>15 DEF bridgeVars, threadVars, socketVars, relayVars, Out
<1> QED
  BY <1>1, <1>4, <1>6, <1>7, <1>10, <1>11, <1>12, <1>13, <1>14, <1>15, <1>16, <1>17
     DEF BridgeNext, TaskAStep, TaskBStep
-----------------------------------------------------------------------------
(***************************************************************************)
(* What a relay over Unix sockets loses.                                   *)
(***************************************************************************)

\* A connection whose emulator has died will cost the next report.
Doomed == IF ~live /\ relay \in {"greeting", "open", "writing"} THEN 1 ELSE 0

\* Each death costs what lay unread and one report at most, and one that has yet
\* to is owed.
LossInv ==
  transport # "tcp" =>
    Len(tap["HostToDevice"]) + Doomed <= Len(Out) + Len(Pending) + swallowed + deaths

\* Every step keeps the account of the losses.
LEMMA LossStep ==
  ASSUME BridgeShape, LossInv, [UnixNext]_allVars
  PROVE  LossInv'
<1>1. SUFFICES ASSUME transport # "tcp", transport' = transport
               PROVE  LossInv'
  BY TcpSteps DEF LossInv
<1>2. /\ Out \in Seq(Reports) /\ inHand \in Seq(Reports) /\ uhidRead \in Seq(Reports)
      /\ tap \in [Directions -> Seq(Reports)] /\ tap["HostToDevice"] \in Seq(Reports)
      /\ deaths \in Nat /\ swallowed \in Nat /\ live \in BOOLEAN
      /\ taskA = "none" /\ taskB = "none"
  BY <1>1, OneInHand, OutTyped, UnixAssumption
     DEF BridgeShape, BridgeTypes, BridgeTypeOK, ThreadTypeOK, UnixTypeOK, Apart, Directions
<1>3. /\ Len(tap["HostToDevice"]) \in Nat /\ Len(Out) \in Nat
      /\ Len(<<>>) = 0 /\ (inHand # <<>> => Len(inHand) = 1)
  BY <1>2, LenProperties, OneInHand, NoReports DEF BridgeShape, BridgeTypes
<1>4. inHand # <<>> <=> relay \in {"opening", "greeting", "writing"}
  BY <1>1 DEF BridgeShape, BridgeTypes, UnixTypeOK
<1>5. Len(tap["HostToDevice"]) + Doomed <= Len(Out) + Len(Pending) + swallowed + deaths
  BY <1>1 DEF LossInv
<1>6. ASSUME UNCHANGED <<tap["HostToDevice"], Out, inHand, relay, live, deaths, swallowed>>
      PROVE  LossInv'
  BY <1>5, <1>6 DEF LossInv, Doomed, Pending
<1>7. ASSUME NEW r \in Reports, tap' = Intercept("HostToDevice", r)
      PROVE  Len(tap'["HostToDevice"]) = Len(tap["HostToDevice"]) + 1
  <2>1. tap'["HostToDevice"] = Append(tap["HostToDevice"], r)
    BY <1>2, <1>7 DEF Intercept, Directions
  <2> QED
    BY <1>2, <2>1, PutOne
<1>8. CASE TakeFirst
  BY <1>3, <1>4, <1>5, <1>8 DEF TakeFirst, RelayOnly, LossInv, Doomed, Pending, Out
<1>9. CASE Open
  <2>1. Head(inHand) \in Reports /\ Len(inHand) = 1
    BY <1>4, <1>9, OneInHand DEF Open, BridgeShape, BridgeTypes
  <2>2. Len(tap'["HostToDevice"]) = Len(tap["HostToDevice"]) + 1
    BY <1>7, <1>9, <2>1 DEF Open
  <2>3. Doomed = 0 /\ Len(Pending) = 0
    BY <1>3, <1>9 DEF Open, Doomed, Pending
  <2>4. /\ Doomed' = 0 /\ Len(Pending') = 1
        /\ UNCHANGED <<Out, deaths, swallowed>>
    BY <1>9, <2>1 DEF Open, RelayOnly, Doomed, Pending, Out
  <2> QED
    BY <1>2, <1>3, <1>5, <2>2, <2>3, <2>4 DEF LossInv
<1>10. CASE OpenFails
  BY <1>3, <1>5, <1>10 DEF OpenFails, RelayOnly, LossInv, Doomed, Pending, Out
<1>11. CASE Greet \/ Write
  <2>1. Len(Out') = Len(Out) + Len(inHand) /\ live /\ Len(inHand) \in Nat
    <3>1. Out' = Out \o inHand /\ live
      BY <1>11, WritingAppends DEF Greet, Write, RelayOnly, BridgeShape, BridgeTypes
    <3> QED
      BY <1>2, <3>1, Join, LenProperties
  <2>2. Doomed = 0 /\ Pending = inHand
    BY <1>11, <2>1 DEF Greet, Write, Doomed, Pending
  <2>3. /\ Doomed' = 0 /\ Len(Pending') = 0
        /\ UNCHANGED <<deaths, swallowed, tap["HostToDevice"]>>
    BY <1>3, <1>11 DEF Greet, Write, RelayOnly, Doomed, Pending
  <2> QED
    BY <1>2, <1>3, <1>5, <2>1, <2>2, <2>3 DEF LossInv
<1>12. CASE TakeNext
  <2>1. Head(uhidRead) \in Reports
    BY <1>2, <1>12, TakeOne DEF TakeNext
  <2>2. Len(tap'["HostToDevice"]) = Len(tap["HostToDevice"]) + 1
    BY <1>7, <1>12, <2>1 DEF TakeNext
  <2>3. Len(<<Head(uhidRead)>>) = 1
    OBVIOUS
  <2>4. /\ Len(Pending) = 0 /\ Doomed' = Doomed /\ Doomed \in {0, 1} /\ Len(Pending') = 1
        /\ UNCHANGED <<Out, deaths, swallowed>>
    BY <1>3, <1>12, <2>3 DEF TakeNext, RelayOnly, Pending, Doomed, Out
  <2> QED
    BY <1>2, <1>3, <1>5, <2>2, <2>4 DEF LossInv
<1>13. CASE WriteFails
  <2>1. Doomed = 1 /\ Len(Pending) = 1 /\ Doomed' = 0 /\ Len(Pending') = 0
    BY <1>3, <1>4, <1>13 DEF WriteFails, Doomed, Pending
  <2>2. UNCHANGED <<tap, Out, deaths, swallowed>>
    BY <1>13 DEF WriteFails, RelayOnly, Out
  <2> QED
    BY <1>2, <1>3, <1>5, <2>1, <2>2 DEF LossInv
<1>14. CASE RelayEnds
  <2>1. Doomed \in {0, 1} /\ Doomed' = 0 /\ Len(Pending) = 0 /\ Len(Pending') = 0
    BY <1>3, <1>14 DEF RelayEnds, Doomed, Pending
  <2>2. UNCHANGED <<tap, Out, deaths, swallowed>>
    BY <1>14 DEF RelayEnds, RelayOnly, Out
  <2> QED
    BY <1>2, <1>3, <1>5, <2>1, <2>2 DEF LossInv
<1>15. CASE EmulatorDies
  <2>1. Doomed \in {0, 1} /\ Doomed' \in {0, 1} /\ deaths' = deaths + 1
    BY <1>15 DEF EmulatorDies, Doomed
  <2>2. UNCHANGED <<tap, Pending>> /\ swallowed' = swallowed + Len(unread)
    BY <1>15 DEF EmulatorDies, relayVars, Pending
  <2>4. Out' = emuGot /\ Len(Out) = Len(emuGot) + Len(unread) /\ Len(unread) \in Nat
    BY <1>15, ClosingCuts, OutTyped DEF EmulatorDies, BridgeShape, BridgeTypes
  <2>3. Len(Pending) \in Nat
    BY <1>3 DEF Pending
  <2> QED
    BY <1>2, <1>3, <1>5, <2>1, <2>2, <2>3, <2>4 DEF LossInv
<1>16. ASSUME NEW c \in Conns, ReaderStep(c)
       PROVE  LossInv'
  <2>1. tap'["HostToDevice"] = tap["HostToDevice"]
    BY <1>2, <1>16 DEF ReaderStep, Read, ReadEnds, bridgeVars, relayVars, Intercept, Directions
  <2> QED
    BY <1>6, <1>16, <2>1 DEF ReaderStep, Read, ReadEnds, bridgeVars, relayVars, socketVars, Out
<1>17. CASE EmulatorAnswers \/ EmulatorReturns \/ UnixThreadStep
  BY <1>6, <1>17 DEF EmulatorAnswers, EmulatorReturns, UnixThreadStep,
                     socketVars, relayVars, unixVars, Out
<1>18. CASE StartRelay
  <2>1. relay = "none"
    BY <1>18 DEF StartRelay, BridgeShape, Apart
  <2>2. Doomed = Doomed' /\ Pending = Pending'
    BY <1>18, <2>1 DEF StartRelay, Doomed, Pending
  <2> QED
    BY <1>5, <1>18, <2>2 DEF StartRelay, LossInv, socketVars, relayVars, Out
<1>19. ASSUME BridgeNext, UNCHANGED unixVars
       PROVE  LossInv'
  <2>0. CASE EmulatorReads
    BY <1>6, <1>19, <2>0, ReadingKeeps DEF relayVars, unixVars, BridgeShape, BridgeTypes
  <2>1. ASSUME ~EmulatorReads PROVE UNCHANGED <<tap, Out, inHand>>
    BY <1>1, <1>2, <1>19, <2>1
       DEF BridgeNext, CreateDevice, Connected, ConnectFails, Stop, StopReturns, DropBridge,
           TaskAStep, RelayInput, ReadFails, TaskAEnds, TaskBStep, TakeOutput, WriteOutput,
           WriteOutputFails, TaskBEnds, ThreadStep, EmulatorSends, EmulatorCloses, OutsideStep,
           socketVars, relayVars, Out
  <2> QED
    BY <1>6, <1>19, <2>0, <2>1 DEF unixVars
<1>20. CASE UNCHANGED allVars
  BY <1>6, <1>20 DEF allVars, bridgeVars, socketVars, relayVars, unixVars, Out
<1> QED
  BY <1>8, <1>9, <1>10, <1>11, <1>12, <1>13, <1>14, <1>15, <1>16, <1>17, <1>18, <1>19, <1>20
     DEF UnixNext, RelayStep
-----------------------------------------------------------------------------
(***************************************************************************)
(* The order of the reports from the host.                                 *)
(***************************************************************************)

Below(s, t) == \A i \in 1..Len(s), j \in 1..Len(t) : s[i] < t[j]
UpTo(s, n)  == \A i \in 1..Len(s) : s[i] <= n

\* Four stations on the way of the host's reports: each holds later reports
\* than the one before it, in order, and none from after the n-th.
InOrder(a, b, c, d, n) ==
  /\ Rising(a) /\ Rising(c) /\ Rising(d)
  /\ Below(a, b) /\ Below(a, c) /\ Below(a, d)
  /\ Below(b, c) /\ Below(b, d) /\ Below(c, d)
  /\ UpTo(a, n) /\ UpTo(b, n) /\ UpTo(c, n) /\ UpTo(d, n)

\* What a sequence promises, its parts do.
LEMMA TailKeeps ==
  ASSUME NEW s \in Seq(Nat), s # <<>>, NEW n \in Nat
  PROVE  /\ Rising(s) => Rising(Tail(s)) /\ Below(<<Head(s)>>, Tail(s))
         /\ UpTo(s, n) => UpTo(Tail(s), n) /\ UpTo(<<Head(s)>>, n)
         /\ \A t \in Seq(Nat) : /\ Below(s, t) => Below(Tail(s), t) /\ Below(<<Head(s)>>, t)
                                /\ Below(t, s) => Below(t, Tail(s)) /\ Below(t, <<Head(s)>>)
<1>1. /\ Len(s) \in Nat /\ Len(s) > 0 /\ Len(Tail(s)) = Len(s) - 1
      /\ \A i \in 1..Len(Tail(s)) : Tail(s)[i] = s[i + 1] /\ i + 1 \in 1..Len(s)
      /\ Len(<<Head(s)>>) = 1 /\ <<Head(s)>>[1] = s[1] /\ 1 \in 1..Len(s)
  BY HeadTailProperties, EmptySeq, LenProperties
<1>2. Rising(s) => Rising(Tail(s)) /\ Below(<<Head(s)>>, Tail(s))
  BY <1>1 DEF Rising, Below
<1>3. UpTo(s, n) => UpTo(Tail(s), n) /\ UpTo(<<Head(s)>>, n)
  BY <1>1 DEF UpTo
<1>4. ASSUME NEW t \in Seq(Nat), Below(s, t)
      PROVE  Below(Tail(s), t) /\ Below(<<Head(s)>>, t)
  BY <1>1, <1>4 DEF Below
<1>5. ASSUME NEW t \in Seq(Nat), Below(t, s)
      PROVE  Below(t, Tail(s)) /\ Below(t, <<Head(s)>>)
  BY <1>1, <1>5 DEF Below
<1> QED
  BY <1>2, <1>3, <1>4, <1>5

\* What two sequences promise, the joined one does.
LEMMA JoinKeeps ==
  ASSUME NEW s \in Seq(Nat), NEW t \in Seq(Nat), NEW n \in Nat
  PROVE  /\ Rising(s) /\ Rising(t) /\ Below(s, t) => Rising(s \o t)
         /\ UpTo(s, n) /\ UpTo(t, n) => UpTo(s \o t, n)
         /\ \A u \in Seq(Nat) : /\ Below(s, u) /\ Below(t, u) => Below(s \o t, u)
                                /\ Below(u, s) /\ Below(u, t) => Below(u, s \o t)
<1>1. /\ Len(s) \in Nat /\ Len(t) \in Nat /\ Len(s \o t) = Len(s) + Len(t)
      /\ \A i \in 1..Len(s \o t) :
           \/ i \in 1..Len(s) /\ (s \o t)[i] = s[i]
           \/ i > Len(s) /\ i - Len(s) \in 1..Len(t) /\ (s \o t)[i] = t[i - Len(s)]
  BY ConcatProperties, LenProperties
<1>2. ASSUME Rising(s), Rising(t), Below(s, t)
      PROVE  Rising(s \o t)
  <2> SUFFICES ASSUME NEW i \in 1..Len(s \o t), NEW j \in 1..Len(s \o t), i < j
               PROVE  (s \o t)[i] < (s \o t)[j]
    BY DEF Rising
  <2>1. CASE i \in 1..Len(s) /\ j \in 1..Len(s)
    BY <1>1, <1>2, <2>1 DEF Rising
  <2>2. CASE i \in 1..Len(s) /\ j > Len(s)
    BY <1>1, <1>2, <2>2 DEF Below
  <2>3. CASE i > Len(s) /\ j > Len(s)
    <3>1. /\ i - Len(s) \in 1..Len(t) /\ j - Len(s) \in 1..Len(t)
          /\ (s \o t)[i] = t[i - Len(s)] /\ (s \o t)[j] = t[j - Len(s)]
          /\ i - Len(s) < j - Len(s)
      BY <1>1, <2>3
    <3> QED
      BY <1>2, <3>1 DEF Rising
  <2> QED
    BY <1>1, <2>1, <2>2, <2>3
<1>3. UpTo(s, n) /\ UpTo(t, n) => UpTo(s \o t, n)
  BY <1>1 DEF UpTo
<1>4. ASSUME NEW u \in Seq(Nat), Below(s, u), Below(t, u)
      PROVE  Below(s \o t, u)
  BY <1>1, <1>4 DEF Below
<1>5. ASSUME NEW u \in Seq(Nat), Below(u, s), Below(u, t)
      PROVE  Below(u, s \o t)
  BY <1>1, <1>5 DEF Below
<1> QED
  BY <1>2, <1>3, <1>4, <1>5

\* A sequence of at most one is in order with itself, and beside nothing.
LEMMA OneIsInOrder ==
  /\ \A s : Len(s) \in {0, 1} => Rising(s)
  /\ \A s, n : Below(s, <<>>) /\ Below(<<>>, s) /\ UpTo(<<>>, n)
  BY DEF Rising, Below, UpTo

\* The host writes its next report.
LEMMA NextInOrder ==
  ASSUME NEW a \in Seq(Nat), NEW b \in Seq(Nat), NEW c \in Seq(Nat), NEW d \in Seq(Nat),
         NEW n \in Nat, InOrder(a, b, c, d, n)
  PROVE  InOrder(a, b, c, d, n + 1) /\ InOrder(a, b, c, Append(d, n + 1), n + 1)
<1>1. \A s \in Seq(Nat) : UpTo(s, n) => UpTo(s, n + 1) /\ Below(s, <<n + 1>>)
  <2> SUFFICES ASSUME NEW s \in Seq(Nat), UpTo(s, n)
               PROVE  UpTo(s, n + 1) /\ Below(s, <<n + 1>>)
    OBVIOUS
  <2>1. \A i \in 1..Len(s) : s[i] \in Nat
    BY ElementOfSeq
  <2> QED
    BY <2>1 DEF UpTo, Below
<1>2. InOrder(a, b, c, d, n + 1)
  BY <1>1 DEF InOrder
<1>5. n + 1 \in Nat
  OBVIOUS
<1>3. Append(d, n + 1) = d \o <<n + 1>> /\ <<n + 1>> \in Seq(Nat)
  <2>1. Append(d, n + 1) = d \o <<n + 1>>
    BY <1>5, AppendIsConcat
  <2>2. <<n + 1>> \in Seq(Nat)
    BY <1>5
  <2> QED
    BY <2>1, <2>2
<1>4. Rising(<<n + 1>>) /\ UpTo(<<n + 1>>, n + 1)
  BY DEF Rising, UpTo
<1>6. Rising(d \o <<n + 1>>) /\ UpTo(d \o <<n + 1>>, n + 1)
  BY <1>1, <1>2, <1>3, <1>4, <1>5, JoinKeeps DEF InOrder
<1>7. Below(a, d \o <<n + 1>>) /\ Below(b, d \o <<n + 1>>) /\ Below(c, d \o <<n + 1>>)
  BY <1>1, <1>3, <1>5, JoinKeeps DEF InOrder
<1> QED
  BY <1>2, <1>3, <1>6, <1>7 DEF InOrder

\* The thread takes a report of the kernel's, and hands it on or loses it.
LEMMA PollInOrder ==
  ASSUME NEW a \in Seq(Nat), NEW b \in Seq(Nat), NEW c \in Seq(Nat), NEW d \in Seq(Nat),
         NEW n \in Nat, InOrder(a, b, c, d, n), d # <<>>
  PROVE  InOrder(a, b, c, Tail(d), n) /\ InOrder(a, b, Append(c, Head(d)), Tail(d), n)
<1>1. Head(d) \in Nat /\ Tail(d) \in Seq(Nat) /\ <<Head(d)>> \in Seq(Nat)
  BY TakeOne
<1>2. /\ Rising(Tail(d)) /\ UpTo(Tail(d), n) /\ UpTo(<<Head(d)>>, n)
      /\ Below(<<Head(d)>>, Tail(d))
      /\ \A t \in {a, b, c} : Below(t, Tail(d)) /\ Below(t, <<Head(d)>>)
  BY TailKeeps DEF InOrder
<1>3. Append(c, Head(d)) = c \o <<Head(d)>>
  BY <1>1, AppendIsConcat
<1>4. Rising(<<Head(d)>>)
  BY DEF Rising
<1>5. Rising(c \o <<Head(d)>>) /\ UpTo(c \o <<Head(d)>>, n)
  BY <1>1, <1>2, <1>4, JoinKeeps DEF InOrder
<1>6. /\ Below(a, c \o <<Head(d)>>) /\ Below(b, c \o <<Head(d)>>)
      /\ Below(c \o <<Head(d)>>, Tail(d))
  BY <1>1, <1>2, JoinKeeps DEF InOrder
<1> QED
  BY <1>2, <1>3, <1>5, <1>6 DEF InOrder

\* A relay takes a report in hand, when it has none.
LEMMA TakeInOrder ==
  ASSUME NEW a \in Seq(Nat), NEW c \in Seq(Nat), NEW d \in Seq(Nat),
         NEW n \in Nat, InOrder(a, <<>>, c, d, n), c # <<>>
  PROVE  InOrder(a, <<Head(c)>>, Tail(c), d, n)
<1>1. /\ Rising(Tail(c)) /\ UpTo(Tail(c), n) /\ UpTo(<<Head(c)>>, n)
      /\ Below(<<Head(c)>>, Tail(c))
      /\ Below(a, Tail(c)) /\ Below(a, <<Head(c)>>)
      /\ Below(Tail(c), d) /\ Below(<<Head(c)>>, d)
  BY TailKeeps DEF InOrder
<1> QED
  BY <1>1 DEF InOrder

\* It hands over what it has in hand, or loses it.
LEMMA WriteInOrder ==
  ASSUME NEW a \in Seq(Nat), NEW b \in Seq(Nat), NEW c \in Seq(Nat), NEW d \in Seq(Nat),
         NEW n \in Nat, InOrder(a, b, c, d, n), Len(b) \in {0, 1}
  PROVE  InOrder(a \o b, <<>>, c, d, n) /\ InOrder(a, <<>>, c, d, n)
<1>1. Rising(b)
  BY OneIsInOrder
<1>2. /\ Rising(a \o b) /\ UpTo(a \o b, n)
      /\ Below(a \o b, c) /\ Below(a \o b, d)
  BY <1>1, JoinKeeps DEF InOrder
<1> QED
  BY <1>2, OneIsInOrder DEF InOrder

\* An emulator that dies takes the end of what was written with it.
LEMMA CutInOrder ==
  ASSUME NEW o \in Seq(Nat), NEW a \in Seq(Nat), NEW b \in Seq(Nat), NEW c \in Seq(Nat),
         NEW d \in Seq(Nat), NEW n \in Nat, InOrder(o, b, c, d, n),
         \A i \in 1..Len(a) : i \in 1..Len(o) /\ o[i] = a[i]
  PROVE  InOrder(a, b, c, d, n)
<1>1. Rising(a) /\ UpTo(a, n)
  BY DEF InOrder, Rising, UpTo
<1>2. \A t \in {b, c, d} : Below(a, t)
  BY DEF InOrder, Below
<1> QED
  BY <1>1, <1>2 DEF InOrder

OrderInv == InOrder(Out, inHand, uhidRead, kernel, hostSent)

\* Every step keeps the order, whatever it loses.
LEMMA OrderStep ==
  ASSUME BridgeShape, OrderInv, [UnixNext]_allVars
  PROVE  OrderInv'
<1>1. /\ Out \in Seq(Nat) /\ inHand \in Seq(Nat) /\ uhidRead \in Seq(Nat)
      /\ kernel \in Seq(Nat) /\ hostSent \in Nat /\ Len(inHand) \in {0, 1}
  <2>1. /\ Out \in Seq(Reports) /\ inHand \in Seq(Reports) /\ uhidRead \in Seq(Reports)
        /\ kernel \in Seq(Reports) /\ hostSent \in 0..MaxReports
    BY OneInHand, OutTyped DEF BridgeShape, BridgeTypes, BridgeTypeOK, ThreadTypeOK
  <2>2. Reports \subseteq Nat /\ 0..MaxReports \subseteq Nat
    BY HidThreadAssumption DEF Reports
  <2>3. Len(inHand) \in {0, 1}
    BY OneInHand, NoReports DEF BridgeShape, BridgeTypes
  <2> QED
    BY <2>1, <2>2, <2>3, SeqMonotonic
<1>2. InOrder(Out, inHand, uhidRead, kernel, hostSent)
  BY DEF OrderInv
<1>3. ASSUME UNCHANGED <<Out, inHand, uhidRead, kernel, hostSent>>
      PROVE  OrderInv'
  BY <1>2, <1>3 DEF OrderInv
<1>4. ASSUME UNCHANGED <<uhidRead, kernel, hostSent>>, inHand' = <<>>,
             Out' \in {Out, Out \o inHand}
      PROVE  OrderInv'
  BY <1>1, <1>2, <1>4, WriteInOrder DEF OrderInv
<1>5. ASSUME UNCHANGED <<Out, kernel, hostSent>>, inHand = <<>>, uhidRead # <<>>,
             inHand' = <<Head(uhidRead)>>, uhidRead' = Tail(uhidRead)
      PROVE  OrderInv'
  BY <1>1, <1>2, <1>5, TakeInOrder DEF OrderInv
<1>6. ASSUME UNCHANGED <<Out, inHand>>, ThreadTurn
      PROVE  OrderInv'
  <2>1. CASE HostWrites
    BY <1>1, <1>2, <1>6, <2>1, NextInOrder DEF HostWrites, OrderInv
  <2>2. ASSUME NEW receiver \in BOOLEAN, PollReport(receiver)
        PROVE  OrderInv'
    BY <1>1, <1>2, <1>6, <2>2, PollInOrder DEF PollReport, OrderInv
  <2>3. CASE CheckShutdown \/ WriteInput \/ WriteDone \/ PollNothing \/ DeviceFails
    BY <1>3, <1>6, <2>3 DEF CheckShutdown, WriteInput, WriteDone, PollNothing, DeviceFails
  <2> QED
    BY <1>6, <2>1, <2>2, <2>3 DEF ThreadTurn, ThreadLoop
<1>7. CASE ThreadStep \/ OutsideStep \/ UnixThreadStep
  <2>1. ThreadTurn /\ UNCHANGED <<socketVars, relayVars>>
    BY <1>7 DEF ThreadStep, OutsideStep, UnixThreadStep, ThreadTurn, Receiver, UnixReceiver
  <2> QED
    BY <1>6, <2>1 DEF socketVars, relayVars, Out
<1>8. CASE OwnerStep \/ StartRelay
  BY <1>3, <1>8 DEF OwnerStep, CreateDevice, Connected, ConnectFails, Stop, StopReturns,
                    DropBridge, StartRelay, threadVars, socketVars, relayVars, Out
<1>9. CASE RelayInput \/ ReadFails \/ TaskAEnds \/ EmulatorSends
  BY <1>3, <1>9 DEF RelayInput, ReadFails, TaskAEnds, EmulatorSends,
                    threadVars, socketVars, relayVars, Out
<1>18. CASE EmulatorReads
  BY <1>3, <1>18, ReadingKeeps DEF threadVars, relayVars, BridgeShape, BridgeTypes
<1>19. CASE EmulatorCloses \/ EmulatorDies
  <2>1. /\ Out' = emuGot /\ UNCHANGED <<inHand, uhidRead, kernel, hostSent>>
    BY <1>19, ClosingCuts DEF EmulatorCloses, EmulatorDies, threadVars, relayVars,
                              BridgeShape, BridgeTypes
  <2>2. /\ emuGot \in Seq(Nat)
        /\ \A i \in 1..Len(emuGot) : i \in 1..Len(Out) /\ Out[i] = emuGot[i]
    <3>1. Seq(Reports) \subseteq Seq(Nat)
      BY SeqMonotonic, HidThreadAssumption DEF Reports
    <3> QED
      BY <3>1, OutTyped DEF BridgeShape, BridgeTypes
  <2>3. InOrder(emuGot, inHand, uhidRead, kernel, hostSent)
    BY <1>1, <1>2, <2>2, CutInOrder
  <2> QED
    BY <2>1, <2>3 DEF OrderInv
<1>10. CASE TakeOutput
  <2>1. inHand = <<>>
    BY <1>10 DEF TakeOutput, BridgeShape, Apart
  <2> QED
    BY <1>5, <1>10, <2>1 DEF TakeOutput, socketVars, Out
<1>11. CASE WriteOutput \/ WriteOutputFails \/ TaskBEnds
  <2>1. CASE WriteOutput /\ peer = "open"
    BY <1>4, <1>11, <2>1, WritingAppends DEF WriteOutput, threadVars, BridgeShape, BridgeTypes
  <2>2. CASE ~(WriteOutput /\ peer = "open")
    BY <1>4, <1>11, <2>2 DEF WriteOutput, WriteOutputFails, TaskBEnds, threadVars, socketVars, Out
  <2> QED
    BY <2>1, <2>2
<1>12. CASE TakeFirst \/ TakeNext
  <2>1. inHand = <<>>
    BY <1>12 DEF TakeFirst, TakeNext, BridgeShape, BridgeTypes, UnixTypeOK, Apart
  <2> QED
    BY <1>5, <1>12, <2>1 DEF TakeFirst, TakeNext, RelayOnly, Out
<1>13. CASE Open \/ RelayEnds
  BY <1>3, <1>13 DEF Open, RelayEnds, RelayOnly, Out
<1>14. CASE OpenFails \/ Greet \/ Write \/ WriteFails
  <2>1. CASE Greet \/ Write
    BY <1>4, <2>1, WritingAppends DEF Greet, Write, RelayOnly, BridgeShape, BridgeTypes
  <2>2. CASE OpenFails \/ WriteFails
    BY <1>4, <2>2 DEF OpenFails, WriteFails, RelayOnly, Out
  <2> QED
    BY <1>14, <2>1, <2>2
<1>15. ASSUME NEW c \in Conns, ReaderStep(c)
       PROVE  OrderInv'
  BY <1>3, <1>15 DEF ReaderStep, Read, ReadEnds, bridgeVars, threadVars, socketVars, relayVars, Out
<1>16. CASE EmulatorAnswers \/ EmulatorReturns
  BY <1>3, <1>16 DEF EmulatorAnswers, EmulatorReturns, threadVars, relayVars, Out
<1>17. CASE UNCHANGED allVars
  BY <1>3, <1>17 DEF allVars, bridgeVars, threadVars, socketVars, relayVars, Out
<1> QED
  BY <1>7, <1>8, <1>9, <1>10, <1>11, <1>12, <1>13, <1>14, <1>15, <1>16, <1>17, <1>18, <1>19
     DEF UnixNext, BridgeNext, OwnerStep, TaskAStep, TaskBStep, RelayStep
-----------------------------------------------------------------------------
(***************************************************************************)
(* What is on its way to the emulator.                                     *)
(***************************************************************************)

\* What taking the first of a sequence leaves of its elements.
LEMMA SetOfTail ==
  ASSUME NEW S, NEW s \in Seq(S), s # <<>>
  PROVE  ToSet(s) = {Head(s)} \cup ToSet(Tail(s))
<1>1. /\ Len(s) \in Nat /\ Len(s) > 0 /\ Len(Tail(s)) = Len(s) - 1 /\ Tail(s) \in Seq(S)
      /\ \A i \in 1..Len(Tail(s)) : Tail(s)[i] = s[i + 1]
      /\ Head(s) = s[1]
  BY HeadTailProperties, EmptySeq, LenProperties
<1>2. DOMAIN s = 1..Len(s) /\ DOMAIN Tail(s) = 1..Len(Tail(s))
  BY <1>1, LenProperties
<1>3. ASSUME NEW i \in 1..Len(s), i # 1
      PROVE  i - 1 \in 1..Len(Tail(s)) /\ Tail(s)[i - 1] = s[i]
  BY <1>1, <1>3
<1>4. \A i \in 1..Len(Tail(s)) : i + 1 \in 1..Len(s)
  BY <1>1
<1>5. ToSet(s) \subseteq {Head(s)} \cup ToSet(Tail(s))
  <2> SUFFICES ASSUME NEW i \in 1..Len(s), s[i] # Head(s) PROVE s[i] \in ToSet(Tail(s))
    BY <1>2 DEF ToSet
  <2>1. i - 1 \in 1..Len(Tail(s)) /\ Tail(s)[i - 1] = s[i]
    BY <1>1, <1>3
  <2> QED
    BY <1>2, <2>1 DEF ToSet
<1>6. Head(s) \in ToSet(s)
  <2>1. 1 \in 1..Len(s)
    BY <1>1
  <2> QED
    BY <1>1, <1>2, <2>1 DEF ToSet
<1>7. ToSet(Tail(s)) \subseteq ToSet(s)
  BY <1>1, <1>2, <1>4 DEF ToSet
<1> QED
  BY <1>5, <1>6, <1>7

\* The elements of two sequences joined.
LEMMA SetOfConcat ==
  ASSUME NEW S, NEW s \in Seq(S), NEW t \in Seq(S)
  PROVE  ToSet(s \o t) = ToSet(s) \cup ToSet(t)
<1>1. /\ Len(s) \in Nat /\ Len(t) \in Nat /\ Len(s \o t) = Len(s) + Len(t)
      /\ DOMAIN s = 1..Len(s) /\ DOMAIN t = 1..Len(t) /\ DOMAIN (s \o t) = 1..Len(s \o t)
  BY ConcatProperties, LenProperties
<1>2. \A i \in 1..Len(s \o t) :
        \/ i \in 1..Len(s) /\ (s \o t)[i] = s[i]
        \/ i - Len(s) \in 1..Len(t) /\ (s \o t)[i] = t[i - Len(s)]
  BY <1>1, ConcatProperties
<1>3. \A i \in 1..Len(s) : i \in 1..Len(s \o t) /\ (s \o t)[i] = s[i]
  BY <1>1, ConcatProperties
<1>4. ASSUME NEW i \in 1..Len(t)
      PROVE  i + Len(s) \in 1..Len(s \o t) /\ (s \o t)[i + Len(s)] = t[i]
  BY <1>1, ConcatProperties
<1>5. ToSet(s \o t) \subseteq ToSet(s) \cup ToSet(t)
  BY <1>1, <1>2 DEF ToSet
<1>6. ToSet(s) \subseteq ToSet(s \o t)
  BY <1>1, <1>3 DEF ToSet
<1>7. ToSet(t) \subseteq ToSet(s \o t)
  BY <1>1, <1>4 DEF ToSet
<1> QED
  BY <1>5, <1>6, <1>7

\* None, and one.
LEMMA SetOfOne == ToSet(<<>>) = {} /\ \A e : ToSet(<<e>>) = {e}
  BY DEF ToSet

\* One more.
LEMMA SetOfAppend ==
  ASSUME NEW S, NEW s \in Seq(S), NEW e \in S
  PROVE  ToSet(Append(s, e)) = ToSet(s) \cup {e}
<1>1. Append(s, e) = s \o <<e>>
  BY AppendIsConcat
<1>2. <<e>> \in Seq(S)
  OBVIOUS
<1>3. ToSet(s \o <<e>>) = ToSet(s) \cup ToSet(<<e>>)
  BY <1>2, SetOfConcat
<1> QED
  BY <1>1, <1>3, SetOfOne, ZenonT(60)

\* Over Unix sockets a connection that is in use is held by an emulator that
\* has never died.
AliveInv ==
  transport # "tcp" /\ deaths = 0 /\ relay \in {"greeting", "open", "writing"} => live

\* Somebody takes what the host writes, and may hand it to the emulator.
Carrying ==
  /\ DeviceOpen
  /\ \/ owner = "starting"
     \/ transport = "tcp" /\ taskB \in {"recv", "writing"} /\ peer = "open"
     \/ transport # "tcp" /\ relay \notin {"none", "gone"} /\ deaths = 0

Carried == ToSet(Out) \cup ToSet(inHand) \cup ToSet(uhidRead) \cup ToSet(kernel)

\* As long as somebody carries the reports, each is in one of the places it passes
\* or found the kernel's queue full; it all begins with none.
CarryInv ==
  /\ owner = "new" => /\ thread = "none" /\ hostSent = 0 /\ overrun = {} /\ Out = <<>>
                      /\ inHand = <<>> /\ uhidRead = <<>> /\ kernel = <<>>
  /\ overrun \subseteq 1..hostSent
  /\ Carrying => Carried = (1..hostSent) \ overrun

\* Every step keeps a connection in use alive that no death has cut.
LEMMA AliveStep ==
  ASSUME BridgeShape, AliveInv, [UnixNext]_allVars
  PROVE  AliveInv'
<1>1. SUFFICES ASSUME transport # "tcp", transport' = transport
               PROVE  AliveInv'
  BY TcpSteps DEF AliveInv
<1>2. deaths \in Nat
  BY UnixAssumption DEF BridgeShape, BridgeTypes, UnixTypeOK
<1>3. ASSUME UNCHANGED <<live, deaths>>,
             relay' \in {"greeting", "open", "writing"} => relay \in {"greeting", "open", "writing"}
      PROVE  AliveInv'
  BY <1>1, <1>3 DEF AliveInv
<1>4. CASE \/ BridgeNext /\ UNCHANGED unixVars
           \/ UnixThreadStep \/ UNCHANGED allVars
  BY <1>3, <1>4 DEF UnixThreadStep, allVars, unixVars
<1>5. CASE StartRelay \/ TakeFirst \/ OpenFails \/ Greet \/ TakeNext \/ Write \/ WriteFails
           \/ RelayEnds
  <2>1. /\ UNCHANGED <<live, deaths>>
        /\ relay' \in {"greeting", "open", "writing"} => relay \in {"greeting", "open", "writing"}
    BY <1>5 DEF StartRelay, TakeFirst, OpenFails, Greet, TakeNext, Write, WriteFails,
                RelayEnds, RelayOnly
  <2> QED
    BY <1>3, <2>1
<1>6. CASE Open
  BY <1>6 DEF Open, AliveInv
<1>7. ASSUME NEW c \in Conns, ReaderStep(c)
      PROVE  AliveInv'
  BY <1>3, <1>7 DEF ReaderStep, Read, ReadEnds
<1>8. CASE EmulatorAnswers \/ EmulatorReturns
  BY <1>3, <1>8 DEF EmulatorAnswers, EmulatorReturns, unixVars
<1>9. CASE EmulatorDies
  BY <1>2, <1>9 DEF EmulatorDies, AliveInv
<1> QED
  BY <1>4, <1>5, <1>6, <1>7, <1>8, <1>9 DEF UnixNext, RelayStep

\* Nothing is in the emulator's socket before the bridge is up.
QuietInv == owner \in {"new", "starting"} => unread = <<>>

\* No step of a bridge that is not up writes.
LEMMA QuietStep ==
  ASSUME BridgeShape, QuietInv, [UnixNext]_allVars
  PROVE  QuietInv'
<1>1. owner \in {"new", "starting"} => taskB = "none" /\ relay = "none"
  BY DEF BridgeShape, Apart
<1>2. ASSUME unread' \in {unread, <<>>},
             owner' \in {"new", "starting"} => owner \in {"new", "starting"}
      PROVE  QuietInv'
  BY <1>2 DEF QuietInv
<1>3. CASE OwnerStep \/ StartRelay
  BY <1>2, <1>3 DEF OwnerStep, CreateDevice, Connected, ConnectFails, Stop, StopReturns,
                    DropBridge, StartRelay, socketVars
<1>4. CASE ThreadStep \/ OutsideStep \/ UnixThreadStep
  BY <1>2, <1>4 DEF ThreadStep, OutsideStep, UnixThreadStep, socketVars
<1>5. CASE TaskAStep \/ EmulatorSends \/ EmulatorCloses
  BY <1>2, <1>5 DEF TaskAStep, RelayInput, ReadFails, TaskAEnds, EmulatorSends, EmulatorCloses,
                    socketVars
<1>6. CASE TakeOutput \/ WriteOutputFails \/ TaskBEnds
  BY <1>2, <1>6 DEF TakeOutput, WriteOutputFails, TaskBEnds, socketVars
<1>7. CASE WriteOutput \/ EmulatorReads
  BY <1>1, <1>7 DEF WriteOutput, EmulatorReads, QuietInv
<1>8. CASE RelayStep
  <2>1. relay # "none" /\ owner' = owner
    BY <1>8 DEF RelayStep, RelayOnly, TakeFirst, Open, OpenFails, Greet, TakeNext, Write,
                WriteFails, RelayEnds
  <2> QED
    BY <1>1, <2>1 DEF QuietInv
<1>9. ASSUME NEW c \in Conns, ReaderStep(c)
      PROVE  QuietInv'
  BY <1>2, <1>9 DEF ReaderStep, Read, ReadEnds, bridgeVars, socketVars
<1>10. CASE EmulatorAnswers \/ EmulatorDies \/ EmulatorReturns \/ UNCHANGED allVars
  BY <1>2, <1>10 DEF EmulatorAnswers, EmulatorDies, EmulatorReturns, allVars, bridgeVars,
                     socketVars
<1> QED
  BY <1>3, <1>4, <1>5, <1>6, <1>7, <1>8, <1>9, <1>10
     DEF UnixNext, BridgeNext, OwnerStep, TaskBStep

\* Every step carries what is carried on.
LEMMA CarryStep ==
  ASSUME BridgeShape, AliveInv, QuietInv, CarryInv, [UnixNext]_allVars
  PROVE  CarryInv'
<1>1. /\ Out \in Seq(Reports) /\ inHand \in Seq(Reports) /\ uhidRead \in Seq(Reports)
      /\ kernel \in Seq(Reports) /\ hostSent \in Nat /\ deaths \in Nat
  BY OneInHand, OutTyped, HidThreadAssumption, UnixAssumption
     DEF BridgeShape, BridgeTypes, BridgeTypeOK, ThreadTypeOK, UnixTypeOK
<1>2. /\ owner \in {"new", "starting"} => taskA = "none" /\ taskB = "none" /\ relay = "none"
      /\ transport # "tcp" => taskB = "none"
      /\ transport = "tcp" => relay = "none"
  BY DEF BridgeShape, Apart
<1>3. /\ overrun \subseteq 1..hostSent
      /\ Carrying => Carried = (1..hostSent) \ overrun
  BY DEF CarryInv
<1>4. owner = "new" => thread = "none" /\ Carried = {} /\ (1..hostSent) \ overrun = {}
  BY SetOfOne DEF CarryInv, Carried
<1>5. ASSUME UNCHANGED <<Out, inHand, uhidRead, kernel, hostSent, overrun>>,
             Carrying' => Carrying \/ owner = "new",
             owner' = "new" => owner = "new" /\ thread' = thread
      PROVE  CarryInv'
  <2>1. Carried' = Carried
    BY <1>5 DEF Carried
  <2> QED
    BY <1>3, <1>4, <1>5, <2>1 DEF CarryInv
<1>6. ASSUME UNCHANGED <<hostSent, overrun>>, owner' # "new",
             Carrying' => Carrying /\ Carried' = Carried
      PROVE  CarryInv'
  BY <1>3, <1>6 DEF CarryInv
<1>7. ASSUME UNCHANGED <<Out, kernel, hostSent, overrun, thread, owner, transport>>,
             inHand = <<>>, uhidRead # <<>>,
             inHand' = <<Head(uhidRead)>>, uhidRead' = Tail(uhidRead),
             owner # "new", Carrying' => Carrying
      PROVE  CarryInv'
  <2>1. ToSet(inHand') \cup ToSet(uhidRead') = ToSet(inHand) \cup ToSet(uhidRead)
    BY <1>1, <1>7, SetOfTail, SetOfOne
  <2>2. Carried' = Carried
    BY <1>7, <2>1 DEF Carried
  <2> QED
    BY <1>6, <1>7, <2>2
<1>8. ASSUME UNCHANGED <<uhidRead, kernel, hostSent, overrun, owner>>,
             inHand' = <<>>, Out' = Out \o inHand,
             owner # "new", Carrying' => Carrying
      PROVE  CarryInv'
  <2>1. ToSet(Out') \cup ToSet(inHand') = ToSet(Out) \cup ToSet(inHand)
    BY <1>1, <1>8, SetOfConcat, SetOfOne
  <2>2. Carried' = Carried
    BY <1>8, <2>1 DEF Carried
  <2> QED
    BY <1>6, <1>8, <2>2
<1>9. ASSUME ThreadTurn, UNCHANGED <<transport, owner, socketVars, relayVars, unixVars>>
      PROVE  DeviceOpen /\ owner # "new" /\ (Carrying' => Carrying)
  <2>1. DeviceOpen
    BY <1>9 DEF ThreadTurn, ThreadLoop, CheckShutdown, WriteInput, WriteDone, PollReport,
                PollNothing, HostWrites, DeviceFails, DeviceOpen
  <2> QED
    BY <1>4, <1>9, <2>1 DEF Carrying, DeviceOpen, socketVars, relayVars, unixVars
<1>10. ASSUME HostWrites, UNCHANGED <<transport, owner, socketVars, relayVars, unixVars>>
       PROVE  CarryInv'
  <2>1. /\ owner' # "new" /\ (Carrying' => Carrying) /\ hostSent' = hostSent + 1
        /\ UNCHANGED <<Out, inHand, uhidRead>>
    BY <1>9, <1>10 DEF ThreadTurn, HostWrites, socketVars, relayVars, Out
  <2>2. 1..hostSent' = (1..hostSent) \cup {hostSent + 1} /\ hostSent + 1 \notin 1..hostSent
    BY <1>1, <2>1
  <2>3. hostSent + 1 \in Reports
    BY <1>1, <1>10, HidThreadAssumption DEF HostWrites, Reports
  <2>4. CASE Len(kernel) < KernelCap
    <3>1. kernel' = Append(kernel, hostSent + 1) /\ overrun' = overrun
      BY <1>10, <2>4 DEF HostWrites
    <3>2. Carried' = Carried \cup {hostSent + 1}
      BY <1>1, <2>1, <2>3, <3>1, SetOfAppend DEF Carried
    <3> QED
      BY <1>3, <2>1, <2>2, <3>1, <3>2 DEF CarryInv
  <2>5. CASE ~(Len(kernel) < KernelCap)
    <3>1. kernel' = kernel /\ overrun' = overrun \cup {hostSent + 1}
      BY <1>10, <2>5 DEF HostWrites
    <3>2. Carried' = Carried
      BY <2>1, <3>1 DEF Carried
    <3> QED
      BY <1>3, <2>1, <2>2, <3>1, <3>2 DEF CarryInv
  <2> QED
    BY <2>4, <2>5
<1>11. ASSUME NEW receiver \in BOOLEAN, PollReport(receiver), Carrying' => receiver,
              UNCHANGED <<transport, owner, socketVars, relayVars, unixVars>>
       PROVE  CarryInv'
  <2>1. /\ owner' # "new" /\ (Carrying' => Carrying)
        /\ UNCHANGED <<Out, inHand, hostSent, overrun>>
    BY <1>9, <1>11 DEF ThreadTurn, ThreadLoop, PollReport, socketVars, relayVars, Out
  <2>2. CASE receiver
    <3>1. /\ kernel # <<>> /\ kernel' = Tail(kernel)
          /\ uhidRead' = Append(uhidRead, Head(kernel))
      BY <1>11, <2>2 DEF PollReport
    <3>2. Head(kernel) \in Reports
      BY <1>1, <3>1, TakeOne
    <3>3. ToSet(uhidRead') = ToSet(uhidRead) \cup {Head(kernel)}
      BY <1>1, <3>1, <3>2, SetOfAppend
    <3>4. ToSet(kernel) = {Head(kernel)} \cup ToSet(kernel')
      BY <1>1, <3>1, SetOfTail
    <3>5. Carried' = Carried
      BY <2>1, <3>3, <3>4 DEF Carried
    <3> QED
      BY <1>6, <2>1, <3>5
  <2>3. CASE ~receiver
    BY <1>6, <1>11, <2>1, <2>3
  <2> QED
    BY <2>2, <2>3
<1>12. ASSUME CheckShutdown \/ WriteInput \/ WriteDone \/ PollNothing \/ DeviceFails,
              UNCHANGED <<transport, owner, socketVars, relayVars, unixVars>>
       PROVE  CarryInv'
  <2>1. /\ owner' # "new" /\ (Carrying' => Carrying)
        /\ UNCHANGED <<Out, inHand, uhidRead, kernel, hostSent, overrun>>
    BY <1>9, <1>12 DEF ThreadTurn, ThreadLoop, CheckShutdown, WriteInput, WriteDone,
                       PollNothing, DeviceFails, socketVars, relayVars, Out
  <2> QED
    BY <1>5, <2>1
<1>13. CASE ThreadStep /\ UNCHANGED unixVars
  <2>1. Receiver \in BOOLEAN /\ transport = "tcp" /\ (Carrying' => Receiver)
    BY <1>13 DEF ThreadStep, Receiver, Carrying, relayVars
  <2> QED
    BY <1>11, <1>12, <1>13, <2>1 DEF ThreadStep, ThreadLoop
<1>14. CASE UnixThreadStep
  <2>1. UnixReceiver \in BOOLEAN /\ (Carrying' => UnixReceiver)
    BY <1>14 DEF UnixThreadStep, UnixReceiver, Carrying, unixVars
  <2> QED
    BY <1>11, <1>12, <1>14, <2>1 DEF UnixThreadStep, ThreadLoop
<1>15. CASE OutsideStep /\ UNCHANGED unixVars
  BY <1>10, <1>12, <1>15 DEF OutsideStep
<1>16. CASE OwnerStep /\ UNCHANGED unixVars
  <2>1. /\ UNCHANGED <<Out, inHand, uhidRead, kernel, hostSent, overrun>>
        /\ owner' # "new"
    BY <1>16 DEF OwnerStep, CreateDevice, Connected, ConnectFails, Stop, StopReturns,
                 DropBridge, threadVars, socketVars, relayVars, Out
  <2>2. Carrying' => Carrying \/ owner = "new"
    BY <1>2, <1>16 DEF OwnerStep, CreateDevice, Connected, ConnectFails, Stop, StopReturns,
                       DropBridge, threadVars, socketVars, relayVars, unixVars, Carrying,
                       DeviceOpen
  <2> QED
    BY <1>5, <2>1, <2>2
<1>17. CASE StartRelay
  <2>1. /\ UNCHANGED <<Out, inHand, uhidRead, kernel, hostSent, overrun>>
        /\ owner' # "new" /\ (Carrying' => Carrying)
    BY <1>17 DEF StartRelay, threadVars, socketVars, relayVars, Carrying, DeviceOpen, Out
  <2> QED
    BY <1>5, <2>1
<1>18. CASE (RelayInput \/ ReadFails \/ TaskAEnds \/ EmulatorSends \/ EmulatorReads)
            /\ UNCHANGED unixVars
  <2>0. UNCHANGED Out
    BY <1>18, ReadingKeeps DEF RelayInput, ReadFails, TaskAEnds, EmulatorSends,
                               socketVars, Out, BridgeShape, BridgeTypes
  <2>1. UNCHANGED <<inHand, uhidRead, kernel, hostSent, overrun, owner, thread,
                    transport, taskB, peer>>
    BY <1>18 DEF RelayInput, ReadFails, TaskAEnds, EmulatorSends, EmulatorReads,
                 threadVars, socketVars, relayVars
  <2>2. Carrying' => Carrying
    BY <1>18, <2>1 DEF unixVars, Carrying, DeviceOpen
  <2> QED
    BY <1>5, <2>0, <2>1, <2>2
<1>29. CASE (EmulatorCloses /\ UNCHANGED unixVars) \/ EmulatorDies
  <2>1. /\ UNCHANGED <<inHand, uhidRead, kernel, hostSent, overrun, owner, thread, transport,
                       taskB, relay, emuGot>>
        /\ unread' = <<>> /\ peer' = "closed"
        /\ transport # "tcp" => deaths' = deaths + 1
    BY <1>29 DEF EmulatorCloses, EmulatorDies, threadVars, relayVars, unixVars
  <2>2. CASE owner \in {"new", "starting"}
    <3>1. UNCHANGED Out
      BY <2>1, <2>2 DEF QuietInv, Out
    <3>2. Carrying' => Carrying \/ owner = "new"
      BY <1>2, <2>1, <2>2 DEF Carrying, DeviceOpen
    <3> QED
      BY <1>5, <2>1, <3>1, <3>2
  <2>3. CASE owner \notin {"new", "starting"}
    <3>1. ~Carrying'
      BY <1>1, <2>1, <2>3 DEF Carrying
    <3> QED
      BY <1>6, <2>1, <2>3, <3>1
  <2> QED
    BY <2>2, <2>3
<1>19. CASE TakeOutput /\ UNCHANGED unixVars
  <2>1. inHand = <<>> /\ owner # "new" /\ transport = "tcp"
    BY <1>2, <1>19 DEF TakeOutput, BridgeShape, Apart
  <2>2. Carrying' => Carrying
    BY <1>19, <2>1 DEF TakeOutput, socketVars, Carrying, DeviceOpen
  <2> QED
    BY <1>7, <1>19, <2>1, <2>2 DEF TakeOutput, socketVars, Out
<1>20. CASE (WriteOutput \/ WriteOutputFails \/ TaskBEnds) /\ UNCHANGED unixVars
  <2>1. /\ owner' \notin {"new", "starting"} /\ transport' = "tcp"
        /\ UNCHANGED <<peer, uhidRead, kernel, hostSent, overrun, owner, thread, transport>>
    BY <1>2, <1>20 DEF WriteOutput, WriteOutputFails, TaskBEnds, threadVars, socketVars
  <2>2. CASE WriteOutput /\ peer = "open"
    <3>1. Carrying' => Carrying
      BY <2>1, <2>2 DEF WriteOutput, Carrying, DeviceOpen
    <3>2. Out' = Out \o inHand
      BY <2>2, WritingAppends DEF WriteOutput, BridgeShape, BridgeTypes
    <3> QED
      BY <1>8, <2>1, <2>2, <3>1, <3>2 DEF WriteOutput
  <2>3. CASE ~(WriteOutput /\ peer = "open")
    <3>1. ~Carrying'
      BY <1>20, <2>1, <2>3 DEF WriteOutput, WriteOutputFails, TaskBEnds, Carrying
    <3> QED
      BY <1>6, <2>1, <3>1
  <2> QED
    BY <2>2, <2>3
<1>21. ASSUME RelayStep
       PROVE  /\ owner' \notin {"new", "starting"} /\ transport' # "tcp"
              /\ UNCHANGED <<kernel, hostSent, overrun, owner, thread, transport, deaths>>
              /\ relay \notin {"none", "gone"} /\ (Carrying' => Carrying)
  <2>1. /\ relay \notin {"none", "gone"}
        /\ UNCHANGED <<kernel, hostSent, overrun, owner, thread, transport, deaths>>
    BY <1>21 DEF RelayStep, RelayOnly, TakeFirst, Open, OpenFails, Greet, TakeNext, Write,
                 WriteFails, RelayEnds
  <2> QED
    BY <1>2, <2>1 DEF Carrying, DeviceOpen
<1>22. CASE TakeFirst \/ TakeNext
  <2>1. inHand = <<>> /\ RelayStep
    BY <1>2, <1>22 DEF TakeFirst, TakeNext, BridgeShape, BridgeTypes, UnixTypeOK, Apart, RelayStep
  <2> QED
    BY <1>7, <1>21, <1>22, <2>1 DEF TakeFirst, TakeNext, RelayOnly, Out
<1>23. CASE Open \/ RelayEnds
  <2>1. RelayStep /\ UNCHANGED <<Out, inHand, uhidRead>>
    BY <1>23 DEF Open, RelayEnds, RelayOnly, RelayStep, Out
  <2> QED
    BY <1>5, <1>21, <2>1
<1>24. CASE Greet \/ Write
  <2>1. RelayStep /\ Out' = Out \o inHand /\ inHand' = <<>> /\ uhidRead' = uhidRead
    BY <1>24, WritingAppends DEF Greet, Write, RelayOnly, RelayStep, BridgeShape, BridgeTypes
  <2> QED
    BY <1>8, <1>21, <2>1
<1>25. CASE OpenFails \/ WriteFails
  <2>1. RelayStep
    BY <1>25 DEF RelayStep
  <2>2. ~Carrying'
    BY <1>2, <1>21, <1>25, <2>1 DEF OpenFails, WriteFails, Carrying, AliveInv
  <2> QED
    BY <1>6, <1>21, <2>1, <2>2
<1>26. ASSUME NEW c \in Conns, ReaderStep(c)
       PROVE  CarryInv'
  <2>1. UNCHANGED <<Out, inHand, uhidRead, kernel, hostSent, overrun, owner, thread,
                    transport, taskB, peer, relay, deaths>>
    BY <1>26 DEF ReaderStep, Read, ReadEnds, bridgeVars, threadVars, socketVars, relayVars, Out
  <2>2. Carrying' = Carrying
    BY <2>1 DEF Carrying, DeviceOpen
  <2> QED
    BY <1>5, <2>1, <2>2
<1>27. CASE EmulatorAnswers \/ EmulatorReturns
  <2>1. /\ UNCHANGED <<Out, inHand, uhidRead, kernel, hostSent, overrun, owner, thread,
                       transport, taskB, relay, deaths>>
        /\ peer' = peer \/ transport # "tcp"
    BY <1>2, <1>27 DEF EmulatorAnswers, EmulatorReturns, threadVars, relayVars, unixVars, Out
  <2>2. Carrying' => Carrying
    BY <1>1, <2>1 DEF Carrying, DeviceOpen
  <2> QED
    BY <1>5, <2>1, <2>2
<1>28. CASE UNCHANGED allVars
  <2>1. UNCHANGED <<Out, inHand, uhidRead, kernel, hostSent, overrun, owner, thread,
                    transport, taskB, peer, relay, deaths>>
    BY <1>28 DEF allVars, bridgeVars, threadVars, socketVars, relayVars, unixVars, Out
  <2>2. Carrying' = Carrying
    BY <2>1 DEF Carrying, DeviceOpen
  <2> QED
    BY <1>5, <2>1, <2>2
<1> QED
  BY <1>13, <1>14, <1>15, <1>16, <1>17, <1>18, <1>19, <1>20, <1>22, <1>23, <1>24, <1>25,
     <1>26, <1>27, <1>28, <1>29
     DEF UnixNext, BridgeNext, OwnerStep, TaskAStep, TaskBStep, RelayStep
-----------------------------------------------------------------------------
(***************************************************************************)
(* What is on its way to the host.                                         *)
(***************************************************************************)

Up == hostGot \o uhidWrite

\* Over TCP, as long as task A reads, what the emulator has sent is what the
\* host received, what waits for it, and what is in the socket.
UpInv ==
  transport = "tcp" =>
  /\ taskA = "none" => hostGot = <<>> /\ uhidWrite = <<>> /\ wire = <<>> /\ emuSent = 0
  /\ taskA = "reading" => Up \o wire = [k \in 1..emuSent |-> k]

\* One more number in a row of them.
LEMMA OneMore ==
  ASSUME NEW n \in Nat
  PROVE  Append([k \in 1..n |-> k], n + 1) = [k \in 1..(n + 1) |-> k]
<1> DEFINE row == [k \in 1..n |-> k]
           next == [k \in 1..(n + 1) |-> k]
<1>1. row \in Seq(Nat) /\ Len(row) = n /\ next \in Seq(Nat) /\ Len(next) = n + 1
  OBVIOUS
<1>2. \A k \in 1..n : row[k] = k
  OBVIOUS
<1>3. \A k \in 1..(n + 1) : next[k] = k
  OBVIOUS
<1> HIDE DEF row, next
<1>4. /\ Append(row, n + 1) \in Seq(Nat) /\ Len(Append(row, n + 1)) = n + 1
      /\ \A k \in 1..n : Append(row, n + 1)[k] = row[k]
      /\ Append(row, n + 1)[n + 1] = n + 1
  BY <1>1, AppendProperties
<1>5. \A k \in 1..(n + 1) : Append(row, n + 1)[k] = next[k]
  <2> TAKE k \in 1..(n + 1)
  <2>1. k \in 1..n \/ k = n + 1
    OBVIOUS
  <2> QED
    BY <1>2, <1>3, <1>4, <2>1
<1>6. Append(row, n + 1) = next
  BY <1>1, <1>4, <1>5, SeqEqual
<1> QED
  BY <1>6 DEF row, next

\* Every step keeps what is on its way over TCP.
LEMMA UpStep ==
  ASSUME BridgeShape, UpInv, [UnixNext]_allVars
  PROVE  UpInv'
<1>1. SUFFICES ASSUME transport = "tcp", BridgeNext \/ UNCHANGED bridgeVars
               PROVE  UpInv'
  BY TcpSteps DEF UpInv
<1>2. /\ hostGot \in Seq(Reports) /\ uhidWrite \in Seq(Reports) /\ wire \in Seq(Reports)
      /\ Up \in Seq(Reports) /\ emuSent \in 0..MaxReports
  BY Join DEF BridgeShape, BridgeTypes, BridgeTypeOK, ThreadTypeOK, Up
<1>3. /\ taskA = "none" => hostGot = <<>> /\ uhidWrite = <<>> /\ wire = <<>> /\ emuSent = 0
      /\ taskA = "reading" => Up \o wire = [k \in 1..emuSent |-> k]
  BY <1>1 DEF UpInv
<1>4. ASSUME UNCHANGED <<hostGot, uhidWrite, wire, emuSent>>, taskA' \in {taskA, "gone"}
      PROVE  UpInv'
  BY <1>3, <1>4 DEF UpInv, Up
<1>5. CASE RelayInput
  <2>1. Head(wire) \in Reports
    BY <1>2, <1>5, TakeOne DEF RelayInput
  <2>2. Up' = Append(Up, Head(wire))
    BY <1>2, <1>5, <2>1, AppendToConcat DEF RelayInput, Up
  <2>3. Append(Up, Head(wire)) \o Tail(wire) = Up \o wire
    BY <1>2, <1>5, MoveOne DEF RelayInput
  <2> QED
    BY <1>3, <1>5, <2>2, <2>3 DEF RelayInput, UpInv
<1>6. CASE EmulatorSends
  <2>1. emuSent + 1 \in Reports /\ emuSent \in Nat
    BY <1>2, <1>6, NextReport DEF EmulatorSends
  <2>2. Up' \o wire' = Append(Up \o wire, emuSent + 1)
    BY <1>2, <1>6, <2>1, AppendToConcat DEF EmulatorSends, threadVars, Up
  <2>3. Up' \o wire' = [k \in 1..emuSent' |-> k]
    BY <1>3, <1>6, <2>1, <2>2, OneMore DEF EmulatorSends
  <2> QED
    BY <1>6, <2>3 DEF EmulatorSends, UpInv, relayVars
<1>7. ASSUME WriteInput, UNCHANGED <<transport, socketVars, relayVars>>
      PROVE  UpInv'
  <2>1. Up' = Up /\ uhidWrite # <<>>
    BY <1>2, <1>7, MoveOne DEF WriteInput, Up
  <2> QED
    BY <1>3, <1>7, <2>1 DEF UpInv, socketVars, relayVars
<1>8. ASSUME \/ CheckShutdown \/ WriteDone \/ PollNothing \/ PollReport(Receiver)
             \/ HostWrites \/ DeviceFails,
             UNCHANGED <<socketVars, relayVars>>
      PROVE  UpInv'
  <2>1. UNCHANGED <<hostGot, uhidWrite>>
    BY <1>8 DEF CheckShutdown, WriteDone, PollNothing, PollReport, HostWrites, DeviceFails
  <2> QED
    BY <1>4, <1>8, <2>1 DEF socketVars, relayVars
<1>9. CASE ThreadStep \/ OutsideStep
  BY <1>7, <1>8, <1>9 DEF ThreadStep, OutsideStep, ThreadLoop
<1>10. CASE CreateDevice \/ ConnectFails \/ Stop \/ StopReturns \/ DropBridge
  BY <1>4, <1>10 DEF CreateDevice, ConnectFails, Stop, StopReturns, DropBridge,
                     threadVars, socketVars, relayVars
<1>11. CASE Connected
  <2>1. taskA = "none" /\ UNCHANGED <<hostGot, uhidWrite, wire, emuSent, transport>>
    BY <1>11 DEF Connected, BridgeShape, Apart, threadVars, socketVars
  <2>2. Up' \o wire' = <<>> /\ emuSent' = 0
    BY <1>3, <2>1, NoReports, ConcatEmptySeq DEF Up
  <2>3. [k \in 1..0 |-> k] = <<>>
    OBVIOUS
  <2> QED
    BY <1>11, <2>2, <2>3 DEF Connected, UpInv
<1>12. CASE ReadFails \/ TaskAEnds \/ TakeOutput \/ WriteOutput \/ WriteOutputFails \/ TaskBEnds
            \/ EmulatorCloses
  BY <1>4, <1>12 DEF ReadFails, TaskAEnds, TakeOutput, WriteOutput, WriteOutputFails, TaskBEnds,
                     EmulatorCloses, threadVars, socketVars, relayVars
<1>13. CASE EmulatorReads \/ UNCHANGED bridgeVars
  BY <1>4, <1>13 DEF EmulatorReads, bridgeVars, threadVars, socketVars, relayVars
<1> QED
  BY <1>1, <1>5, <1>6, <1>9, <1>10, <1>11, <1>12, <1>13 DEF BridgeNext, TaskAStep, TaskBStep
-----------------------------------------------------------------------------
\* What has gone up from the n reports that the emulator sent, from the
\* connection that is their origin, is in order as far as it comes from the
\* same one, and comes before what is still in its socket, in order too.
UpOrder(up, in, from, n) ==
  /\ \A i \in 1..Len(up) : up[i] \in 1..n
  /\ \A i, j \in 1..Len(up) : i < j /\ from[up[i]] = from[up[j]] => up[i] < up[j]
  /\ \A c \in Conns : Rising(in[c])
  /\ \A c \in Conns : \A k \in 1..Len(in[c]) :
       /\ in[c][k] \in 1..n /\ from[in[c][k]] = c
       /\ \A i \in 1..Len(up) : from[up[i]] = c => up[i] < in[c][k]

ReaderInv == transport # "tcp" => UpOrder(Up, wires, origin, emuSent)

\* The log of a relay over Unix sockets has what either side received or will
\* receive from it.
LogInv ==
  transport # "tcp" =>
    /\ ToSet(Up) \subseteq ToSet(tap["DeviceToHost"])
    /\ ToSet(Out) \cup ToSet(Pending) \subseteq ToSet(tap["HostToDevice"])

\* The emulator sends one more report over a connection.
LEMMA AnswerInOrder ==
  ASSUME NEW n \in Nat, NEW up \in Seq(Nat), NEW in \in [Conns -> Seq(Nat)],
         NEW from \in Seq(Conns), Len(from) = n, UpOrder(up, in, from, n), NEW c \in Conns
  PROVE  UpOrder(up, [in EXCEPT ![c] = Append(@, n + 1)], Append(from, c), n + 1)
<1> DEFINE next == [in EXCEPT ![c] = Append(@, n + 1)]
           more == Append(from, c)
<1>1. /\ \A r \in 1..n : more[r] = from[r] /\ r \in 1..(n + 1)
      /\ more[n + 1] = c
  BY AppendProperties
<1>2. /\ Len(next[c]) = Len(in[c]) + 1 /\ Len(in[c]) \in Nat
      /\ \A k \in 1..Len(in[c]) : next[c][k] = in[c][k]
      /\ next[c][Len(in[c]) + 1] = n + 1
      /\ \A d \in Conns : d # c => next[d] = in[d]
  <2>1. in[c] \in Seq(Nat) /\ n + 1 \in Nat /\ next[c] = Append(in[c], n + 1)
    OBVIOUS
  <2>2. \A d \in Conns : d # c => next[d] = in[d]
    OBVIOUS
  <2> QED
    BY <2>1, <2>2, AppendProperties, LenProperties
<1> HIDE DEF next, more
<1>3. \A i \in 1..Len(up) : up[i] \in 1..n /\ up[i] \in 1..(n + 1) /\ more[up[i]] = from[up[i]]
  BY <1>1 DEF UpOrder
<1>4. \A i, j \in 1..Len(up) : i < j /\ more[up[i]] = more[up[j]] => up[i] < up[j]
  BY <1>3 DEF UpOrder
<1>5. ASSUME NEW d \in Conns, NEW k \in 1..Len(next[d])
      PROVE  /\ next[d][k] \in 1..(n + 1) /\ more[next[d][k]] = d
             /\ \A i \in 1..Len(up) : more[up[i]] = d => up[i] < next[d][k]
  <2>1. CASE k \in 1..Len(in[d])
    <3>1. next[d][k] = in[d][k]
      BY <1>2, <2>1
    <3>2. /\ in[d][k] \in 1..n /\ from[in[d][k]] = d
          /\ \A i \in 1..Len(up) : from[up[i]] = d => up[i] < in[d][k]
      BY <2>1 DEF UpOrder
    <3> QED
      BY <1>1, <1>3, <3>1, <3>2
  <2>2. CASE d = c /\ k = Len(in[c]) + 1
    BY <1>1, <1>2, <1>3, <2>2
  <2> QED
    BY <1>2, <2>1, <2>2
<1>6. ASSUME NEW d \in Conns
      PROVE  Rising(next[d])
  <2>1. Rising(in[d]) /\ \A k \in 1..Len(in[d]) : in[d][k] \in 1..n
    BY DEF UpOrder
  <2>2. CASE d = c
    <3> SUFFICES ASSUME NEW i \in 1..Len(next[c]), NEW j \in 1..Len(next[c]), i < j
                 PROVE  next[c][i] < next[c][j]
      BY <2>2 DEF Rising
    <3>1. i \in 1..Len(in[c]) /\ next[c][i] = in[c][i]
      BY <1>2
    <3>2. CASE j \in 1..Len(in[c])
      BY <1>2, <2>1, <2>2, <3>1, <3>2 DEF Rising
    <3>3. CASE j = Len(in[c]) + 1
      BY <1>2, <2>1, <2>2, <3>1, <3>3
    <3> QED
      BY <1>2, <3>2, <3>3
  <2>3. CASE d # c
    BY <1>2, <2>1, <2>3
  <2> QED
    BY <2>2, <2>3
<1>7. UpOrder(up, next, more, n + 1)
  BY <1>3, <1>4, <1>5, <1>6 DEF UpOrder
<1> QED
  BY <1>7 DEF next, more

\* A reader takes the next report of its connection, and sends it up or not.
LEMMA ReadInOrder ==
  ASSUME NEW n \in Nat, NEW up \in Seq(Nat), NEW in \in [Conns -> Seq(Nat)],
         NEW from, UpOrder(up, in, from, n), NEW c \in Conns, in[c] # <<>>
  PROVE  /\ UpOrder(up, [in EXCEPT ![c] = Tail(@)], from, n)
         /\ UpOrder(Append(up, Head(in[c])), [in EXCEPT ![c] = Tail(@)], from, n)
<1> DEFINE next == [in EXCEPT ![c] = Tail(@)]
           more == Append(up, Head(in[c]))
<1>1. in[c] \in Seq(Nat) /\ next[c] = Tail(in[c]) /\ \A d \in Conns : d # c => next[d] = in[d]
  OBVIOUS
<1>2. /\ Len(in[c]) \in Nat /\ Len(in[c]) > 0 /\ Len(next[c]) = Len(in[c]) - 1
      /\ \A k \in 1..Len(next[c]) : next[c][k] = in[c][k + 1] /\ k + 1 \in 1..Len(in[c])
      /\ Head(in[c]) = in[c][1] /\ 1 \in 1..Len(in[c]) /\ Head(in[c]) \in Nat
  BY <1>1, HeadTailProperties, EmptySeq, LenProperties
<1>3. /\ Len(more) = Len(up) + 1 /\ Len(up) \in Nat
      /\ \A i \in 1..Len(up) : more[i] = up[i]
      /\ more[Len(up) + 1] = in[c][1]
  BY <1>2, AppendProperties, LenProperties
<1> HIDE DEF next, more
<1>4. /\ in[c][1] \in 1..n /\ from[in[c][1]] = c
      /\ \A i \in 1..Len(up) : from[up[i]] = c => up[i] < in[c][1]
  BY <1>2 DEF UpOrder
<1>5. \A d \in Conns : Rising(next[d])
  <2> TAKE d \in Conns
  <2>1. Rising(in[d])
    BY DEF UpOrder
  <2>2. CASE d = c
    BY <1>1, <1>2, <2>1, <2>2, TailKeeps
  <2> QED
    BY <1>1, <2>1, <2>2
<1>6. ASSUME NEW d \in Conns, NEW k \in 1..Len(next[d])
      PROVE  /\ next[d][k] \in 1..n /\ from[next[d][k]] = d
             /\ \A i \in 1..Len(up) : from[up[i]] = d => up[i] < next[d][k]
             /\ d = c => in[c][1] < next[d][k]
  <2>1. CASE d = c
    <3>0. k \in 1..Len(next[c]) /\ k \in Nat /\ 1 < k + 1
      BY <2>1
    <3>1. next[d][k] = in[c][k + 1] /\ k + 1 \in 1..Len(in[c]) /\ 1 < k + 1
      BY <1>2, <2>1, <3>0
    <3>2. Rising(in[c])
      BY DEF UpOrder
    <3>3. in[c][1] < in[c][k + 1]
      BY <1>2, <3>1, <3>2 DEF Rising
    <3> QED
      BY <2>1, <3>1, <3>3 DEF UpOrder
  <2>2. CASE d # c
    BY <1>1, <2>2 DEF UpOrder
  <2> QED
    BY <2>1, <2>2
<1>7. UpOrder(up, next, from, n)
  BY <1>5, <1>6 DEF UpOrder
<1>8. \A i \in 1..Len(more) : i \in 1..Len(up) \/ i = Len(up) + 1
  BY <1>3
<1>9. \A i \in 1..Len(more) : more[i] \in 1..n
  BY <1>3, <1>4, <1>8 DEF UpOrder
<1>10. ASSUME NEW i \in 1..Len(more), NEW j \in 1..Len(more), i < j,
              from[more[i]] = from[more[j]]
       PROVE  more[i] < more[j]
  <2>1. i \in 1..Len(up) /\ more[i] = up[i]
    BY <1>3, <1>8, <1>10
  <2>2. CASE j \in 1..Len(up)
    BY <1>3, <1>10, <2>1, <2>2 DEF UpOrder
  <2>3. CASE j = Len(up) + 1
    BY <1>3, <1>4, <1>10, <2>1, <2>3
  <2> QED
    BY <1>8, <2>2, <2>3
<1>11. ASSUME NEW d \in Conns, NEW k \in 1..Len(next[d]), NEW i \in 1..Len(more),
              from[more[i]] = d
       PROVE  more[i] < next[d][k]
  <2>1. CASE i \in 1..Len(up)
    BY <1>3, <1>6, <1>11, <2>1
  <2>2. CASE i = Len(up) + 1
    BY <1>3, <1>4, <1>6, <1>11, <2>2
  <2> QED
    BY <1>8, <2>1, <2>2
<1>12. UpOrder(more, next, from, n)
  BY <1>5, <1>6, <1>9, <1>10, <1>11 DEF UpOrder
<1> QED
  BY <1>7, <1>12 DEF next, more

\* What the actions of a bridge over Unix sockets do to the host's side, the
\* reader's and the emulator's answer aside.
LEMMA UnixUpKept ==
  ASSUME BridgeShape, transport # "tcp", [UnixNext]_allVars
  PROVE  \/ \E c \in Conns : Read(c)
         \/ EmulatorAnswers
         \/ Up' = Up /\ UNCHANGED <<wires, origin, emuSent, tap["DeviceToHost"]>>
<1>1. /\ hostGot \in Seq(Reports) /\ uhidWrite \in Seq(Reports)
      /\ tap \in [Directions -> Seq(Reports)] /\ taskA = "none" /\ taskB = "none"
  BY DEF BridgeShape, BridgeTypes, BridgeTypeOK, ThreadTypeOK, Apart
<1>2. ASSUME NEW r, tap' = Intercept("HostToDevice", r)
      PROVE  tap'["DeviceToHost"] = tap["DeviceToHost"]
  BY <1>1, <1>2 DEF Intercept, Directions
<1>3. ASSUME UNCHANGED <<hostGot, uhidWrite>> PROVE Up' = Up
  BY <1>3 DEF Up
<1>4. ASSUME ThreadTurn, UNCHANGED <<socketVars, relayVars, unixVars>>
      PROVE  Up' = Up /\ UNCHANGED <<wires, origin, emuSent, tap["DeviceToHost"]>>
  <2>1. WriteInput => Up' = Up
    BY <1>1, MoveOne DEF WriteInput, Up
  <2>2. CheckShutdown \/ WriteDone \/ PollNothing \/ HostWrites \/ DeviceFails => Up' = Up
    BY <1>3 DEF CheckShutdown, WriteDone, PollNothing, HostWrites, DeviceFails
  <2>3. \A receiver \in BOOLEAN : PollReport(receiver) => Up' = Up
    BY <1>3 DEF PollReport
  <2> QED
    BY <1>4, <2>1, <2>2, <2>3 DEF ThreadTurn, ThreadLoop, socketVars, relayVars, unixVars
<1>5. CASE \/ UnixThreadStep
           \/ (OutsideStep \/ ThreadStep) /\ UNCHANGED unixVars
  <2>1. ThreadTurn /\ UNCHANGED <<socketVars, relayVars, unixVars>>
    BY <1>5 DEF UnixThreadStep, OutsideStep, ThreadStep, ThreadTurn, Receiver, UnixReceiver
  <2> QED
    BY <1>4, <2>1
<1>6. CASE \/ OwnerStep /\ UNCHANGED unixVars
           \/ StartRelay
  BY <1>3, <1>6 DEF OwnerStep, CreateDevice, Connected, ConnectFails, Stop, StopReturns,
                    DropBridge, StartRelay, threadVars, socketVars, relayVars, unixVars
<1>7. ~(TaskAStep \/ TaskBStep \/ EmulatorSends \/ EmulatorCloses)
  BY <1>1 DEF TaskAStep, RelayInput, ReadFails, TaskAEnds, TaskBStep, TakeOutput, WriteOutput,
              WriteOutputFails, TaskBEnds, EmulatorSends, EmulatorCloses
<1>8. CASE TakeFirst \/ OpenFails \/ Greet \/ Write \/ WriteFails \/ RelayEnds
  <2>1. UNCHANGED <<hostGot, uhidWrite, wires, origin, emuSent, tap>>
    BY <1>8 DEF TakeFirst, OpenFails, Greet, Write, WriteFails, RelayEnds, RelayOnly
  <2> QED
    BY <1>3, <2>1
<1>9. CASE Open \/ TakeNext
  <2>1. UNCHANGED <<hostGot, uhidWrite, wires, origin, emuSent>>
    BY <1>9 DEF Open, TakeNext, RelayOnly
  <2>2. tap'["DeviceToHost"] = tap["DeviceToHost"]
    BY <1>2, <1>9 DEF Open, TakeNext
  <2> QED
    BY <1>3, <2>1, <2>2
<1>10. ASSUME NEW c \in Conns, ReadEnds(c)
       PROVE  Up' = Up /\ UNCHANGED <<wires, origin, emuSent, tap["DeviceToHost"]>>
  <2>1. UNCHANGED <<hostGot, uhidWrite, wires, origin, emuSent, tap>>
    BY <1>10 DEF ReadEnds, bridgeVars, threadVars, socketVars, relayVars
  <2> QED
    BY <1>3, <2>1
<1>11. CASE \/ EmulatorDies \/ EmulatorReturns \/ UNCHANGED allVars
            \/ EmulatorReads /\ UNCHANGED unixVars
  <2>1. UNCHANGED <<hostGot, uhidWrite, wires, origin, emuSent, tap>>
    BY <1>11 DEF EmulatorDies, EmulatorReturns, EmulatorReads, allVars, bridgeVars, threadVars,
                 socketVars, relayVars, unixVars
  <2> QED
    BY <1>3, <2>1
<1>12. CASE BridgeNext /\ UNCHANGED unixVars
  BY <1>5, <1>6, <1>7, <1>11, <1>12 DEF BridgeNext, OwnerStep
<1>13. CASE RelayStep
  BY <1>8, <1>9, <1>13 DEF RelayStep
<1>14. CASE \E c \in Conns : ReaderStep(c)
  BY <1>10, <1>14 DEF ReaderStep
<1> QED
  BY <1>5, <1>6, <1>11, <1>12, <1>13, <1>14 DEF UnixNext

\* Every step keeps the host's side of a relay over Unix sockets in order.
LEMMA ReaderInvStep ==
  ASSUME BridgeShape, ReaderInv, [UnixNext]_allVars
  PROVE  ReaderInv'
<1>1. SUFFICES ASSUME transport # "tcp" PROVE UpOrder(Up, wires, origin, emuSent)'
  BY TcpSteps DEF ReaderInv
<1>2. /\ hostGot \in Seq(Reports) /\ uhidWrite \in Seq(Reports) /\ Up \in Seq(Reports)
      /\ wires \in [Conns -> Seq(Reports)] /\ origin \in Seq(Conns) /\ Len(origin) = emuSent
      /\ emuSent \in 0..MaxReports
  BY <1>1, Join DEF BridgeShape, BridgeTypes, BridgeTypeOK, ThreadTypeOK, UnixTypeOK, Up
<1>3. emuSent \in Nat /\ Up \in Seq(Nat) /\ wires \in [Conns -> Seq(Nat)]
  <2>1. Reports \subseteq Nat
    BY HidThreadAssumption DEF Reports
  <2>2. Seq(Reports) \subseteq Seq(Nat)
    BY <2>1, SeqMonotonic
  <2> QED
    BY <1>2, <2>2, HidThreadAssumption
<1>4. UpOrder(Up, wires, origin, emuSent)
  BY <1>1 DEF ReaderInv
<1>5. ASSUME NEW c \in Conns, Read(c)
      PROVE  UpOrder(Up, wires, origin, emuSent)'
  <2>1. /\ wires[c] # <<>> /\ wires' = [wires EXCEPT ![c] = Tail(@)]
        /\ UNCHANGED <<origin, emuSent, hostGot>>
    BY <1>5 DEF Read, socketVars
  <2>2. Head(wires[c]) \in Reports
    BY <1>2, <2>1, TakeOne
  <2>3. Up' = Up \/ Up' = Append(Up, Head(wires[c]))
    <3>1. CASE thread = "gone"
      BY <1>5, <2>1, <3>1 DEF Read, Up
    <3>2. CASE thread # "gone"
      <4>1. uhidWrite' = Append(uhidWrite, Head(wires[c]))
        BY <1>5, <3>2 DEF Read
      <4>2. hostGot \o Append(uhidWrite, Head(wires[c]))
              = Append(hostGot \o uhidWrite, Head(wires[c]))
        BY <1>2, <2>2, AppendToConcat
      <4> QED
        BY <2>1, <4>1, <4>2 DEF Up
    <3> QED
      BY <3>1, <3>2
  <2>4. /\ UpOrder(Up, wires', origin, emuSent)
        /\ UpOrder(Append(Up, Head(wires[c])), wires', origin, emuSent)
    BY <1>3, <1>4, <2>1, ReadInOrder
  <2> QED
    BY <2>1, <2>3, <2>4
<1>6. CASE EmulatorAnswers
  <2>1. /\ Up' = Up /\ emuSent' = emuSent + 1
        /\ wires' = [wires EXCEPT ![conn] = Append(@, emuSent + 1)]
        /\ origin' = Append(origin, conn)
    BY <1>6 DEF EmulatorAnswers, threadVars, Up
  <2>2. conn \in Conns
    BY <1>6, HidThreadAssumption
       DEF EmulatorAnswers, BridgeShape, BridgeTypes, UnixTypeOK, ReportPerConnection, Conns
  <2> QED
    BY <1>2, <1>3, <1>4, <2>1, <2>2, AnswerInOrder
<1>7. CASE Up' = Up /\ UNCHANGED <<wires, origin, emuSent>>
  BY <1>4, <1>7
<1> QED
  BY <1>1, <1>5, <1>6, <1>7, UnixUpKept

\* Every step of a relay over Unix sockets records before it hands over.
LEMMA LogStep ==
  ASSUME BridgeShape, LogInv, [UnixNext]_allVars
  PROVE  LogInv'
<1>1. SUFFICES ASSUME transport # "tcp", transport' = transport
               PROVE  /\ ToSet(Up') \subseteq ToSet(tap'["DeviceToHost"])
                      /\ ToSet(Out') \cup ToSet(Pending')
                           \subseteq ToSet(tap'["HostToDevice"])
  BY TcpSteps DEF LogInv
<1>2. /\ hostGot \in Seq(Reports) /\ uhidWrite \in Seq(Reports) /\ Up \in Seq(Reports)
      /\ wires \in [Conns -> Seq(Reports)]
      /\ Out \in Seq(Reports) /\ inHand \in Seq(Reports) /\ uhidRead \in Seq(Reports)
      /\ tap \in [Directions -> Seq(Reports)] /\ tap["HostToDevice"] \in Seq(Reports)
      /\ tap["DeviceToHost"] \in Seq(Reports) /\ taskA = "none" /\ taskB = "none"
  BY <1>1, OneInHand, OutTyped, Join
     DEF BridgeShape, BridgeTypes, BridgeTypeOK, ThreadTypeOK, UnixTypeOK, Up, Directions, Apart
<1>3. /\ ToSet(Up) \subseteq ToSet(tap["DeviceToHost"])
      /\ ToSet(Out) \subseteq ToSet(tap["HostToDevice"])
      /\ ToSet(Pending) \subseteq ToSet(tap["HostToDevice"])
  BY <1>1 DEF LogInv
<1>4. ASSUME NEW d \in Directions, NEW r \in Reports, tap' = Intercept(d, r)
      PROVE  /\ ToSet(tap'[d]) = ToSet(tap[d]) \cup {r}
             /\ \A e \in Directions : e # d => tap'[e] = tap[e]
  <2>1. tap'[d] = Append(tap[d], r) /\ \A e \in Directions : e # d => tap'[e] = tap[e]
    BY <1>2, <1>4 DEF Intercept
  <2>2. tap[d] \in Seq(Reports)
    BY <1>2
  <2> QED
    BY <2>1, <2>2, SetOfAppend
<1>5. ToSet(Up') \subseteq ToSet(tap'["DeviceToHost"])
  <2>1. ASSUME NEW c \in Conns, Read(c)
        PROVE  ToSet(Up') \subseteq ToSet(tap'["DeviceToHost"])
    <3>1. /\ wires[c] # <<>> /\ tap' = Intercept("DeviceToHost", Head(wires[c]))
          /\ hostGot' = hostGot
      BY <2>1 DEF Read
    <3>2. Head(wires[c]) \in Reports
      BY <1>2, <3>1, TakeOne
    <3>3. ToSet(tap'["DeviceToHost"]) = ToSet(tap["DeviceToHost"]) \cup {Head(wires[c])}
      BY <1>4, <3>1, <3>2 DEF Directions
    <3>4. Up' = Up \/ Up' = Append(Up, Head(wires[c]))
      <4>1. CASE thread = "gone"
        BY <2>1, <3>1, <4>1 DEF Read, Up
      <4>2. CASE thread # "gone"
        <5>1. uhidWrite' = Append(uhidWrite, Head(wires[c]))
          BY <2>1, <4>2 DEF Read
        <5>2. hostGot \o Append(uhidWrite, Head(wires[c]))
                = Append(hostGot \o uhidWrite, Head(wires[c]))
          BY <1>2, <3>2, AppendToConcat, SMTT(60)
        <5> QED
          BY <3>1, <5>1, <5>2 DEF Up
      <4> QED
        BY <4>1, <4>2
    <3>5. ToSet(Up') \subseteq ToSet(Up) \cup {Head(wires[c])}
      BY <1>2, <3>2, <3>4, SetOfAppend
    <3> QED
      BY <1>3, <3>3, <3>5
  <2>2. CASE EmulatorAnswers
    BY <1>3, <2>2 DEF EmulatorAnswers, threadVars, relayVars, Up
  <2>3. CASE Up' = Up /\ tap'["DeviceToHost"] = tap["DeviceToHost"]
    BY <1>3, <2>3
  <2> QED
    BY <1>1, <2>1, <2>2, <2>3, UnixUpKept
<1>6. ASSUME UNCHANGED <<Out, inHand, tap["HostToDevice"]>>,
             relay' \in {"greeting", "writing"} => relay \in {"greeting", "writing"}
      PROVE  ToSet(Out') \cup ToSet(Pending') \subseteq ToSet(tap'["HostToDevice"])
  <2>1. Pending' \in {Pending, <<>>}
    BY <1>6 DEF Pending
  <2> QED
    BY <1>3, <1>6, <2>1, SetOfOne
<1>7. ASSUME Out' = Out, tap' = tap, Pending' = <<>>
      PROVE  ToSet(Out') \cup ToSet(Pending') \subseteq ToSet(tap'["HostToDevice"])
  BY <1>3, <1>7, SetOfOne
<1>8. CASE TakeFirst \/ OpenFails \/ WriteFails \/ RelayEnds
  <2>1. UNCHANGED <<Out, tap>> /\ relay' \in {"opening", "gone", "first"}
    BY <1>8 DEF TakeFirst, OpenFails, WriteFails, RelayEnds, RelayOnly, Out
  <2>2. Pending' = <<>>
    BY <2>1 DEF Pending
  <2> QED
    BY <1>5, <1>7, <2>1, <2>2
<1>9. CASE Open \/ TakeNext
  <2>1. PICK r \in Reports : tap' = Intercept("HostToDevice", r) /\ inHand' = <<r>>
    <3>1. CASE TakeNext
      BY <1>2, <3>1, TakeOne DEF TakeNext
    <3>2. CASE Open
      <4>1. inHand # <<>> /\ inHand \in {<<>>} \cup {<<r>> : r \in Reports}
        BY <1>1, <3>2 DEF Open, BridgeShape, BridgeTypes, BridgeTypeOK, UnixTypeOK
      <4>2. PICK r \in Reports : inHand = <<r>>
        BY <4>1
      <4>3. Head(inHand) = r
        BY <4>2
      <4> QED
        BY <3>2, <4>2, <4>3 DEF Open
    <3> QED
      BY <1>9, <3>1, <3>2
  <2>2. ToSet(tap'["HostToDevice"]) = ToSet(tap["HostToDevice"]) \cup {r}
    BY <1>4, <2>1 DEF Directions
  <2>3. Out' = Out /\ Pending' = <<r>>
    BY <1>9, <2>1 DEF Open, TakeNext, RelayOnly, Pending, Out
  <2>4. ToSet(Pending') = {r}
    BY <2>3, SetOfOne
  <2> QED
    BY <1>3, <1>5, <2>2, <2>3, <2>4
<1>10. CASE Greet \/ Write
  <2>1. Out' = Out \o inHand /\ Pending = inHand /\ Pending' = <<>> /\ tap' = tap
    BY <1>10, WritingAppends DEF Greet, Write, RelayOnly, Pending, BridgeShape, BridgeTypes
  <2>2. ToSet(Out') = ToSet(Out) \cup ToSet(inHand)
    BY <1>2, <2>1, SetOfConcat
  <2>3. ToSet(Pending') = {}
    BY <2>1, SetOfOne
  <2> QED
    BY <1>3, <1>5, <2>1, <2>2, <2>3
<1>11. ASSUME NEW c \in Conns, ReaderStep(c)
       PROVE  ToSet(Out') \cup ToSet(Pending') \subseteq ToSet(tap'["HostToDevice"])
  <2>1. tap'["HostToDevice"] = tap["HostToDevice"]
    <3>1. CASE ReadEnds(c)
      BY <3>1 DEF ReadEnds, bridgeVars, relayVars
    <3>2. CASE Read(c)
      BY <1>2, <3>2 DEF Read, Intercept, Directions
    <3> QED
      BY <1>11, <3>1, <3>2 DEF ReaderStep
  <2> QED
    BY <1>6, <1>11, <2>1 DEF ReaderStep, Read, ReadEnds, bridgeVars, socketVars, relayVars, Out
<1>12. CASE UnixThreadStep \/ EmulatorAnswers \/ EmulatorReturns \/ UNCHANGED allVars
  <2>1. UNCHANGED <<Out, inHand, tap, relay>>
    BY <1>12 DEF UnixThreadStep, EmulatorAnswers, EmulatorReturns, allVars,
                 bridgeVars, socketVars, relayVars, unixVars, Out
  <2> QED
    BY <1>5, <1>6, <2>1
<1>16. CASE EmulatorReads /\ UNCHANGED unixVars
  <2>1. UNCHANGED <<Out, inHand, tap, relay>>
    BY <1>16, ReadingKeeps DEF relayVars, unixVars, BridgeShape, BridgeTypes
  <2> QED
    BY <1>5, <1>6, <2>1
<1>17. CASE EmulatorDies
  <2>1. Out' = emuGot /\ UNCHANGED <<Pending, tap>>
    BY <1>17, ClosingCuts DEF EmulatorDies, relayVars, Pending, BridgeShape, BridgeTypes
  <2>2. ToSet(emuGot) \subseteq ToSet(Out)
    <3>1. emuGot \in Seq(Reports) /\ unread \in Seq(Reports)
      BY OutTyped DEF BridgeShape, BridgeTypes
    <3> QED
      BY <3>1, SetOfConcat DEF Out
  <2> QED
    BY <1>3, <1>5, <2>1, <2>2
<1>13. CASE StartRelay
  <2>1. UNCHANGED <<Out, inHand, tap>> /\ relay' = "first"
    BY <1>13 DEF StartRelay, socketVars, relayVars, Out
  <2> QED
    BY <1>5, <1>6, <2>1
<1>14. CASE (OwnerStep \/ ThreadStep \/ OutsideStep) /\ UNCHANGED unixVars
  <2>1. UNCHANGED <<Out, inHand, tap, relay>>
    BY <1>2, <1>14 DEF OwnerStep, CreateDevice, Connected, ConnectFails, Stop, StopReturns,
                       DropBridge, ThreadStep, OutsideStep, socketVars, relayVars, unixVars, Out
  <2> QED
    BY <1>5, <1>6, <2>1
<1>15. ~(TaskAStep \/ TaskBStep \/ EmulatorSends \/ EmulatorCloses)
  BY <1>1, <1>2 DEF TaskAStep, RelayInput, ReadFails, TaskAEnds, TaskBStep, TakeOutput,
                    WriteOutput, WriteOutputFails, TaskBEnds, EmulatorSends, EmulatorCloses
<1> QED
  BY <1>5, <1>8, <1>9, <1>10, <1>11, <1>12, <1>13, <1>14, <1>15, <1>16, <1>17
     DEF UnixNext, BridgeNext, OwnerStep, RelayStep
-----------------------------------------------------------------------------
BridgeInv ==
  /\ BridgeShape /\ TapInv /\ LossInv /\ OrderInv
  /\ AliveInv /\ QuietInv /\ CarryInv /\ UpInv /\ ReaderInv /\ LogInv

\* The invariant holds for any number of reports and deaths, any queue and socket.
THEOREM BridgeInvariance == UnixSpec => []BridgeInv
<1>1. UnixInit => BridgeInv
  <2> SUFFICES ASSUME UnixInit PROVE BridgeInv
    OBVIOUS
  <2>1. BridgeShape
    BY BridgeInitShape
  <2>2. /\ hostGot = <<>> /\ uhidWrite = <<>> /\ inHand = <<>>
        /\ emuGot = <<>> /\ unread = <<>> /\ uhidRead = <<>> /\ kernel = <<>> /\ hostSent = 0
        /\ relay = "none" /\ deaths = 0 /\ swallowed = 0
        /\ wire = <<>> /\ emuSent = 0 /\ taskA = "none"
        /\ thread = "none" /\ owner = "new" /\ overrun = {}
        /\ tap["DeviceToHost"] = <<>> /\ tap["HostToDevice"] = <<>>
        /\ wires = [c \in Conns |-> <<>>]
    BY DEF UnixInit, BridgeInit, ThreadInit, Directions
  <2>3. <<>> \in Seq(Reports) /\ <<>> \o <<>> = <<>> /\ Len(<<>>) = 0
    BY NoReports, ConcatEmptySeq
  <2>12. Out = <<>>
    BY <2>2, <2>3 DEF Out
  <2>4. TapInv
    BY <2>2, <2>3, <2>12, PrefixOfSelf DEF TapInv
  <2>5. LossInv
    BY <2>2, <2>3, <2>12 DEF LossInv, Doomed, Pending
  <2>6. OrderInv
    BY <2>2, <2>3, <2>12 DEF OrderInv, InOrder, Rising, Below, UpTo
  <2>7. AliveInv /\ QuietInv /\ UpInv
    BY <2>2 DEF AliveInv, QuietInv, UpInv
  <2>8. CarryInv
    BY <2>2, <2>12 DEF CarryInv, Carrying, DeviceOpen
  <2>9. Up = <<>> /\ Pending = <<>>
    BY <2>2, <2>3 DEF Up, Pending
  <2>10. ReaderInv
    BY <2>2, <2>3, <2>9 DEF ReaderInv, UpOrder, Rising
  <2>11. LogInv
    BY <2>2, <2>9, <2>12, SetOfOne DEF LogInv
  <2> QED
    BY <2>1, <2>4, <2>5, <2>6, <2>7, <2>8, <2>10, <2>11 DEF BridgeInv
<1>2. BridgeInv /\ [UnixNext]_allVars => BridgeInv'
  BY BridgeShapeStep, TapStep, LossStep, OrderStep, AliveStep, QuietStep, CarryStep, UpStep,
     ReaderInvStep, LogStep DEF BridgeInv
<1> QED
  BY <1>1, <1>2, PTL DEF UnixSpec

\* Every variable of a bridge stays within its type, over each transport.
THEOREM BridgeTyped == UnixSpec => []BridgeTypeOK
<1>1. BridgeInv => BridgeTypeOK
  BY DEF BridgeInv, BridgeShape, BridgeTypes
<1> QED
  BY <1>1, BridgeInvariance, PTL

\* The relay task and its readers stay within their types, and a report is in
\* the relay's hand exactly while it connects for it or writes it.
THEOREM UnixTyped == UnixSpec => []UnixTypeOK
<1>1. BridgeInv => UnixTypeOK
  BY DEF BridgeInv, BridgeShape, BridgeTypes
<1> QED
  BY <1>1, BridgeInvariance, PTL

\* Nothing crosses a bridge over TCP unrecorded, however it ends.
THEOREM TapIsTold == UnixSpec => []TapTellsAll
<1>1. BridgeInv => TapTellsAll
  <2> SUFFICES ASSUME BridgeInv, transport = "tcp"
               PROVE  /\ IsPrefix(emuGot \o unread, tap["HostToDevice"])
                      /\ IsPrefix(hostGot, tap["DeviceToHost"])
    BY DEF TapTellsAll
  <2>1. hostGot \in Seq(Reports) /\ uhidWrite \in Seq(Reports)
    BY DEF BridgeInv, BridgeShape, BridgeTypes, BridgeTypeOK, ThreadTypeOK
  <2>2. IsPrefix(hostGot, hostGot \o uhidWrite)
    BY <2>1, PrefixOfSelf, PrefixExtends
  <2> QED
    BY <2>2 DEF BridgeInv, TapInv, Out
<1> QED
  BY <1>1, BridgeInvariance, PTL

\* A relay over Unix sockets that records a report has written it, or will; or a
\* death of the emulator took it, unread in its socket, or as the one report that
\* this death cost besides.
THEOREM DeathsLoseOne == UnixSpec => []OneLostPerDeath
<1>1. BridgeInv => OneLostPerDeath
  <2> SUFFICES ASSUME BridgeInv, transport # "tcp"
               PROVE  Len(tap["HostToDevice"])
                        <= Len(emuGot) + Len(unread) + Len(Pending) + swallowed + deaths
    BY DEF OneLostPerDeath
  <2>1. /\ tap["HostToDevice"] \in Seq(Reports) /\ inHand \in Seq(Reports)
        /\ deaths \in 0..MaxDeaths /\ swallowed \in Nat
    BY OneInHand DEF BridgeInv, BridgeShape, BridgeTypes, BridgeTypeOK, UnixTypeOK, Directions
  <2>2. /\ Len(tap["HostToDevice"]) \in Nat /\ Len(Pending) \in Nat /\ deaths \in Nat
    BY <2>1, LenProperties, NoReports, UnixAssumption DEF Pending
  <2>3. /\ Len(tap["HostToDevice"]) + Doomed <= Len(Out) + Len(Pending) + swallowed + deaths
        /\ Doomed \in {0, 1}
    BY DEF BridgeInv, LossInv, Doomed
  <2>4. Len(Out) = Len(emuGot) + Len(unread) /\ Len(emuGot) \in Nat /\ Len(unread) \in Nat
    BY OutTyped DEF BridgeInv, BridgeShape, BridgeTypes
  <2> QED
    BY <2>1, <2>2, <2>3, <2>4
<1> QED
  BY <1>1, BridgeInvariance, PTL

\* Over each transport, and whatever is lost, the emulator receives the reports
\* of the host in the order in which they were written, and none twice.
THEOREM HostOrderHolds == UnixSpec => []HostOrder
<1>1. BridgeInv => HostOrder
  <2> SUFFICES ASSUME BridgeInv PROVE HostOrder
    OBVIOUS
  <2>1. Rising(Out)
    BY DEF BridgeInv, OrderInv, InOrder
  <2> QED
    BY <2>1, OutTyped DEF BridgeInv, BridgeShape, BridgeTypes, Rising, HostOrder
<1> QED
  BY <1>1, BridgeInvariance, PTL

\* What is on its way to the emulator, put together, is in order, and has what
\* each of the four places has.
LEMMA WayToEmulator ==
  ASSUME BridgeInv
  PROVE  /\ Rising(Out \o inHand \o uhidRead \o kernel)
         /\ ToSet(Out \o inHand \o uhidRead \o kernel) = Carried
<1>1. /\ Out \in Seq(Reports) /\ inHand \in Seq(Reports) /\ uhidRead \in Seq(Reports)
      /\ kernel \in Seq(Reports) /\ Reports \subseteq Nat
  BY OneInHand, OutTyped, HidThreadAssumption
     DEF BridgeInv, BridgeShape, BridgeTypes, BridgeTypeOK, ThreadTypeOK, Reports
<1>2. /\ Out \in Seq(Nat) /\ inHand \in Seq(Nat) /\ uhidRead \in Seq(Nat)
      /\ kernel \in Seq(Nat)
  BY <1>1, SeqMonotonic
<1>3. /\ Out \o inHand \in Seq(Nat)
      /\ (Out \o inHand) \o uhidRead \in Seq(Nat)
  BY <1>2, ConcatProperties
<1>4. InOrder(Out, inHand, uhidRead, kernel, hostSent)
  BY DEF BridgeInv, OrderInv
<1>5. Rising(inHand)
  <2>1. Len(inHand) \in {0, 1}
    BY OneInHand, NoReports DEF BridgeInv, BridgeShape, BridgeTypes
  <2> QED
    BY <2>1, OneIsInOrder
<1>6. /\ Rising(Out \o inHand) /\ Below(Out \o inHand, uhidRead)
      /\ Below(Out \o inHand, kernel)
  BY <1>2, <1>4, <1>5, JoinKeeps DEF InOrder
<1>7. /\ Rising((Out \o inHand) \o uhidRead)
      /\ Below((Out \o inHand) \o uhidRead, kernel)
  BY <1>2, <1>3, <1>4, <1>6, JoinKeeps DEF InOrder
<1>8. Rising(((Out \o inHand) \o uhidRead) \o kernel)
  BY <1>2, <1>3, <1>4, <1>7, JoinKeeps DEF InOrder
<1>9. ToSet(((Out \o inHand) \o uhidRead) \o kernel)
        = ToSet(Out) \cup ToSet(inHand) \cup ToSet(uhidRead) \cup ToSet(kernel)
  <2>1. ToSet(Out \o inHand) = ToSet(Out) \cup ToSet(inHand)
    BY <1>2, SetOfConcat
  <2>2. ToSet((Out \o inHand) \o uhidRead) = ToSet(Out \o inHand) \cup ToSet(uhidRead)
    <3>1. uhidRead \in Seq(Nat) /\ Out \o inHand \in Seq(Nat)
      BY <1>2, <1>3
    <3> QED
      BY <3>1, SetOfConcat, ZenonT(60)
  <2>3. ToSet(((Out \o inHand) \o uhidRead) \o kernel)
          = ToSet((Out \o inHand) \o uhidRead) \cup ToSet(kernel)
    <3>1. kernel \in Seq(Nat) /\ (Out \o inHand) \o uhidRead \in Seq(Nat)
      BY <1>2, <1>3
    <3> QED
      BY <3>1, SetOfConcat, ZenonT(60)
  <2> QED
    BY <2>1, <2>2, <2>3
<1> QED
  BY <1>8, <1>9 DEF Carried

\* The numbers from 1 to n in a row count them.
LEMMA RowCounts ==
  ASSUME NEW n \in Nat, NEW s, s = [k \in 1..n |-> k]
  PROVE  Counts(s, n, {})
<1>1. DOMAIN s = 1..n /\ Len(s) = n /\ \A k \in 1..n : s[k] = k
  OBVIOUS
<1>2. Rising(s)
  BY <1>1 DEF Rising
<1>3. ToSet(s) = (1..n) \ {}
  BY <1>1 DEF ToSet
<1> QED
  BY <1>2, <1>3 DEF Counts

\* Over each transport: while the connection and the device are there, what the
\* host wrote, and over TCP what the emulator sent, is received or still on its
\* way, once and in order, but for what found the kernel's queue full.
THEOREM RelayIsLossless == UnixSpec => []RelayLossless
<1>1. BridgeInv => RelayLossless
  <2> SUFFICES ASSUME BridgeInv PROVE RelayLossless
    OBVIOUS
  <2>1. /\ transport \in {"tcp", "unix", "dgram"} /\ emuSent \in Nat
        /\ transport # "tcp" => taskA = "none" /\ taskB = "none"
    BY BridgeAssumption, HidThreadAssumption
       DEF BridgeInv, BridgeShape, BridgeTypes, BridgeTypeOK, Apart
  <2>2. ASSUME DeviceOpen, Receiver, peer = "open"
        PROVE  Counts(Out \o inHand \o uhidRead \o kernel, hostSent, overrun)
    <3>1. Carrying
      BY <2>1, <2>2 DEF Carrying, Receiver
    <3>2. Carried = (1..hostSent) \ overrun
      BY <3>1 DEF BridgeInv, CarryInv
    <3> QED
      BY <3>2, WayToEmulator DEF Counts
  <2>3. ASSUME taskA = "reading"
        PROVE  Counts(hostGot \o uhidWrite \o wire, emuSent, {})
    <3>1. (hostGot \o uhidWrite) \o wire = [k \in 1..emuSent |-> k]
      BY <2>1, <2>3 DEF BridgeInv, UpInv, Up
    <3> QED
      BY <2>1, <3>1, RowCounts
  <2> QED
    BY <2>2, <2>3 DEF RelayLossless, Out
<1> QED
  BY <1>1, BridgeInvariance, PTL

\* Over Unix sockets each death of the emulator costs, besides what it had not
\* read, one report at most; and where there was none nothing of what the host
\* wrote is lost, doubled or overtaken.
THEOREM UnixIsLossless == UnixSpec => []UnixLossless
<1>1. BridgeInv => (transport # "tcp" /\ DeviceOpen /\ UnixReceiver /\ deaths = 0
                    => Counts(Out \o inHand \o uhidRead \o kernel, hostSent, overrun))
  <2> SUFFICES ASSUME BridgeInv, transport # "tcp", DeviceOpen, UnixReceiver, deaths = 0
               PROVE  Counts(Out \o inHand \o uhidRead \o kernel, hostSent, overrun)
    OBVIOUS
  <2>1. Carrying
    BY DEF Carrying, UnixReceiver
  <2>2. Carried = (1..hostSent) \ overrun
    BY <2>1 DEF BridgeInv, CarryInv
  <2> QED
    BY <2>2, WayToEmulator DEF Counts
<1>2. BridgeInv /\ OneLostPerDeath => UnixLossless
  BY <1>1 DEF UnixLossless, Out
<1> QED
  BY <1>2, BridgeInvariance, DeathsLoseOne, PTL

\* Over Unix sockets, through deaths, reconnects and readers left behind: each
\* side receives only what the log has, nothing twice, the emulator all in
\* order, the host what came over one connection.
THEOREM UnixIsInOrder == UnixSpec => []UnixInOrder
<1>1. BridgeInv /\ HostOrder => UnixInOrder
  <2> SUFFICES ASSUME BridgeInv, HostOrder, transport # "tcp"
               PROVE  /\ ToSet(emuGot) \subseteq ToSet(tap["HostToDevice"])
                      /\ IsInjective(hostGot)
                      /\ ToSet(hostGot) \subseteq ToSet(tap["DeviceToHost"])
                      /\ \A i, j \in DOMAIN hostGot :
                           i < j /\ origin[hostGot[i]] = origin[hostGot[j]]
                           => hostGot[i] < hostGot[j]
    BY DEF UnixInOrder
  <2>1. hostGot \in Seq(Reports) /\ uhidWrite \in Seq(Reports)
    BY DEF BridgeInv, BridgeShape, BridgeTypes, BridgeTypeOK, ThreadTypeOK
  <2>2. /\ DOMAIN hostGot = 1..Len(hostGot) /\ Len(hostGot) \in Nat
        /\ \A i \in 1..Len(hostGot) : i \in 1..Len(Up) /\ Up[i] = hostGot[i]
    BY <2>1, LenProperties, ConcatProperties DEF Up
  <2>3. \A i, j \in 1..Len(Up) : i < j /\ origin[Up[i]] = origin[Up[j]] => Up[i] < Up[j]
    BY DEF BridgeInv, ReaderInv, UpOrder
  <2>4. \A i, j \in DOMAIN hostGot :
          i < j /\ origin[hostGot[i]] = origin[hostGot[j]] => hostGot[i] < hostGot[j]
    BY <2>2, <2>3
  <2>5. \A i \in DOMAIN hostGot : hostGot[i] \in Nat
    BY <2>1, <2>2, ElementOfSeq, HidThreadAssumption DEF Reports
  <2>6. IsInjective(hostGot)
    <3> SUFFICES ASSUME NEW i \in DOMAIN hostGot, NEW j \in DOMAIN hostGot,
                        hostGot[i] = hostGot[j], i < j
                 PROVE  FALSE
      BY <2>2 DEF IsInjective
    <3> QED
      BY <2>4, <2>5
  <2>7. /\ ToSet(Up) = ToSet(hostGot) \cup ToSet(uhidWrite)
        /\ ToSet(Up) \subseteq ToSet(tap["DeviceToHost"])
        /\ ToSet(emuGot) \subseteq ToSet(tap["HostToDevice"])
    <3>1. emuGot \in Seq(Reports) /\ unread \in Seq(Reports)
      BY OutTyped DEF BridgeInv, BridgeShape, BridgeTypes
    <3>2. ToSet(emuGot) \subseteq ToSet(Out)
      BY <3>1, SetOfConcat DEF Out
    <3> QED
      BY <2>1, <3>2, SetOfConcat DEF Up, BridgeInv, LogInv
  <2> QED
    BY <2>4, <2>6, <2>7
<1> QED
  BY <1>1, BridgeInvariance, HostOrderHolds, PTL
=============================================================================
