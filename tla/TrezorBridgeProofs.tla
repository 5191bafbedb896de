------------------------- MODULE TrezorBridgeProofs -------------------------
(***************************************************************************)
(* Theorems about TrezorBridge, for any number of reports and any size of  *)
(* the kernel's queue: whatever UDP loses, neither side receives a report  *)
(* twice or before an earlier one; and the device goes only by an error of *)
(* its own, never because the bridge was stopped.                          *)
(***************************************************************************)
EXTENDS TrezorBridge, SequenceTheorems, TLAPS

TrezorTypeOK ==
  /\ ThreadTypeOK
  /\ owner \in {"new", "up", "stopping", "stopped", "dropped"}
  /\ running \in BOOLEAN
  /\ emulator \in {"open", "closed"} /\ refused \in BOOLEAN
  /\ emuSent \in 0..MaxReports
  /\ wire \in Seq(Reports) /\ emuGot \in Seq(Reports)
  /\ taskA \in {"none", "receiving", "gone"}
  /\ taskB \in {"none", "recv", "gone"}

\* The thread and the tasks start together, and task B outlives the thread: it
\* keeps the end of the channel into which the thread puts what it polls.
OutlivesThread ==
  /\ owner = "new" => thread = "none" /\ taskA = "none" /\ taskB = "none"
  /\ DeviceOpen => taskB = "recv"

Rising(s) == \A i, j \in 1..Len(s) : i < j => s[i] < s[j]
Below(s, t) == \A i \in 1..Len(s) : \A j \in 1..Len(t) : s[i] < t[j]
UpTo(s, n) == \A i \in 1..Len(s) : s[i] <= n

\* Three stations on the way of a side's reports: each holds later reports than
\* the one before it, in order, and none from after the n-th.
Stations(a, b, c, n) ==
  /\ Rising(a) /\ Rising(b) /\ Rising(c)
  /\ Below(a, b) /\ Below(a, c) /\ Below(b, c)
  /\ UpTo(a, n) /\ UpTo(b, n) /\ UpTo(c, n)

DownOrder == Stations(emuGot, uhidRead, kernel, hostSent)
UpOrder == Stations(hostGot, uhidWrite, wire, emuSent)

TrezorInv == TrezorTypeOK /\ OutlivesThread /\ DownOrder /\ UpOrder

\* Neither side receives a report twice, or one after a later one.
UdpInOrder == Rising(emuGot) /\ Rising(hostGot)

\* The device goes only when reading or writing it fails.
OnlyFailuresClose == [][DeviceOpen /\ ~DeviceOpen' => DeviceFails]_trezorVars
-----------------------------------------------------------------------------
(***************************************************************************)
(* Types.                                                                  *)
(***************************************************************************)

\* No reports are a sequence of any reports.
LEMMA NoReports == ASSUME NEW S PROVE <<>> \in Seq(S) /\ Len(<<>>) = 0
  OBVIOUS

\* What taking one from a sequence leaves.
LEMMA TakeOne ==
  ASSUME NEW S, NEW s \in Seq(S), s # <<>>
  PROVE  /\ Head(s) \in S /\ <<Head(s)>> \in Seq(S)
         /\ Tail(s) \in Seq(S) /\ Len(Tail(s)) = Len(s) - 1
         /\ Len(s) \in Nat /\ Len(s) > 0
<1>1. Tail(s) \in Seq(S) /\ Len(Tail(s)) = Len(s) - 1 /\ Head(s) \in S
  BY HeadTailProperties
<1>2. Len(s) \in Nat /\ Len(s) > 0
  BY EmptySeq
<1> QED
  BY <1>1, <1>2

\* What appending one to a sequence makes.
LEMMA PutOne ==
  ASSUME NEW S, NEW s \in Seq(S), NEW e \in S
  PROVE  /\ Append(s, e) \in Seq(S) /\ Len(Append(s, e)) = Len(s) + 1
         /\ Len(s) \in Nat
  BY AppendProperties

\* The numbers of the reports.
LEMMA Numbers ==
  /\ Reports \subseteq Nat /\ 0..MaxReports \subseteq Nat
  /\ \A n \in 0..MaxReports : n < MaxReports => n + 1 \in Reports /\ n + 1 \in 0..MaxReports
  BY HidThreadAssumption DEF Reports

\* The initial states.
LEMMA TrezorInitial == TrezorInit => TrezorInv
<1> SUFFICES ASSUME TrezorInit PROVE TrezorInv
  OBVIOUS
<1>1. TrezorTypeOK
  <2>1. <<>> \in Seq(Reports) /\ Len(<<>>) = 0
    BY NoReports
  <2>2. 0 \in 0..MaxReports /\ 0 <= KernelCap
    BY HidThreadAssumption
  <2>3. ThreadTypeOK
    BY <2>1, <2>2 DEF TrezorInit, ThreadInit, ThreadTypeOK
  <2> QED
    BY <2>1, <2>2, <2>3 DEF TrezorInit, TrezorTypeOK
<1>2. OutlivesThread
  BY DEF TrezorInit, ThreadInit, OutlivesThread, DeviceOpen
<1>3. DownOrder /\ UpOrder
  BY DEF TrezorInit, ThreadInit, DownOrder, UpOrder, Stations, Rising, Below, UpTo
<1> QED
  BY <1>1, <1>2, <1>3 DEF TrezorInv

\* What the thread, the host and the kernel do between them.
ThreadTurn ==
  /\ ThreadLoop(taskB = "recv") \/ HostWrites \/ DeviceFails
  /\ UNCHANGED <<owner, running, udpVars, taskA, taskB>>

\* Every step keeps the types.
LEMMA TypeStep ==
  ASSUME TrezorTypeOK, [TrezorNext]_trezorVars
  PROVE  TrezorTypeOK'
<1> USE DEF TrezorTypeOK
<1>1. ThreadTypeOK
  OBVIOUS
<1>2. CASE Start \/ Stop \/ StopReturns
  BY <1>1, <1>2 DEF Start, Stop, StopReturns, threadVars, udpVars, ThreadTypeOK
<1>3. CASE ReceiveDatagram
  <2>1. /\ wire \in Seq(Reports) /\ uhidWrite \in Seq(Reports) /\ wire # <<>>
        /\ wire' = Tail(wire) /\ uhidWrite' = Append(uhidWrite, Head(wire))
    BY <1>1, <1>3 DEF ReceiveDatagram, ThreadTypeOK
  <2>2. wire' \in Seq(Reports) /\ uhidWrite' \in Seq(Reports)
    <3>1. Head(wire) \in Reports /\ Tail(wire) \in Seq(Reports)
      BY <2>1, TakeOne
    <3> QED
      BY <2>1, <3>1, PutOne
  <2> QED
    BY <1>1, <1>3, <2>2 DEF ReceiveDatagram, ThreadTypeOK
<1>4. CASE ReceiveFails \/ TaskAEnds \/ TaskBEnds
  BY <1>1, <1>4 DEF ReceiveFails, TaskAEnds, TaskBEnds, threadVars, udpVars, ThreadTypeOK
<1>5. CASE SendDatagram
  <2>1. /\ uhidRead \in Seq(Reports) /\ uhidRead # <<>> /\ emuGot \in Seq(Reports)
        /\ uhidRead' = Tail(uhidRead) /\ emuGot' \in {emuGot, Append(emuGot, Head(uhidRead))}
        /\ refused' \in BOOLEAN
    BY <1>1, <1>5 DEF SendDatagram, ThreadTypeOK
  <2>2. uhidRead' \in Seq(Reports) /\ emuGot' \in Seq(Reports)
    <3>1. Head(uhidRead) \in Reports /\ Tail(uhidRead) \in Seq(Reports)
      BY <2>1, TakeOne
    <3> QED
      BY <2>1, <3>1, PutOne
  <2> QED
    BY <1>1, <1>5, <2>1, <2>2 DEF SendDatagram, ThreadTypeOK
<1>6. CASE EmulatorSends
  <2>1. emuSent + 1 \in Reports /\ emuSent' \in 0..MaxReports
    BY <1>6, Numbers DEF EmulatorSends
  <2>2. wire' \in Seq(Reports)
    BY <1>6, <2>1, PutOne DEF EmulatorSends
  <2> QED
    BY <1>1, <1>6, <2>1, <2>2 DEF EmulatorSends, threadVars, ThreadTypeOK
<1>7. CASE EmulatorComesOrGoes
  BY <1>1, <1>7 DEF EmulatorComesOrGoes, threadVars, ThreadTypeOK
<1>8. CASE ThreadStep \/ OutsideStep
  <2>1. /\ ThreadTurn
        /\ UNCHANGED <<owner, running, udpVars, taskA, taskB>>
    BY <1>8 DEF ThreadStep, OutsideStep, ThreadTurn
  <2>2. ThreadTypeOK'
    <3>1. CASE HostWrites
      <4>1. hostSent + 1 \in Reports /\ hostSent' \in 0..MaxReports
        BY <1>1, <3>1, Numbers DEF HostWrites, ThreadTypeOK
      <4>2. CASE Len(kernel) < KernelCap
        <5>1. /\ Append(kernel, hostSent + 1) \in Seq(Reports)
              /\ Len(Append(kernel, hostSent + 1)) <= KernelCap
          <6>1. /\ Append(kernel, hostSent + 1) \in Seq(Reports) /\ Len(kernel) \in Nat
                /\ Len(Append(kernel, hostSent + 1)) = Len(kernel) + 1
            BY <1>1, <4>1, PutOne DEF ThreadTypeOK
          <6> QED
            BY <4>2, <6>1, HidThreadAssumption
        <5> QED
          BY <1>1, <3>1, <4>1, <4>2, <5>1 DEF HostWrites, ThreadTypeOK
      <4>3. CASE ~(Len(kernel) < KernelCap)
        BY <1>1, <3>1, <4>1, <4>3 DEF HostWrites, ThreadTypeOK
      <4> QED
        BY <4>2, <4>3
    <3>2. CASE WriteInput
      <4>1. uhidWrite' \in Seq(Reports) /\ hostGot' \in Seq(Reports)
        <5>1. Head(uhidWrite) \in Reports /\ Tail(uhidWrite) \in Seq(Reports)
          BY <1>1, <3>2, TakeOne DEF WriteInput, ThreadTypeOK
        <5> QED
          BY <1>1, <3>2, <5>1, PutOne DEF WriteInput, ThreadTypeOK
      <4> QED
        BY <1>1, <3>2, <4>1 DEF WriteInput, ThreadTypeOK
    <3>3. CASE PollReport(taskB = "recv")
      <4>1. /\ Head(kernel) \in Reports /\ Tail(kernel) \in Seq(Reports)
            /\ Len(Tail(kernel)) <= KernelCap
        <5>1. /\ Head(kernel) \in Reports /\ Tail(kernel) \in Seq(Reports)
              /\ Len(Tail(kernel)) = Len(kernel) - 1 /\ Len(kernel) \in Nat
              /\ Len(kernel) <= KernelCap
          BY <1>1, <3>3, TakeOne DEF PollReport, ThreadTypeOK
        <5> QED
          BY <5>1, HidThreadAssumption
      <4>2. uhidRead' \in Seq(Reports)
        BY <1>1, <3>3, <4>1, PutOne DEF PollReport, ThreadTypeOK
      <4>3. kernel' \in Seq(Reports) /\ Len(kernel') <= KernelCap /\ thread' \in {"check", "gone"}
        BY <3>3, <4>1 DEF PollReport
      <4> QED
        BY <1>1, <3>3, <4>2, <4>3 DEF PollReport, ThreadTypeOK
    <3>4. CASE CheckShutdown \/ WriteDone \/ PollNothing \/ DeviceFails
      BY <1>1, <3>4 DEF CheckShutdown, WriteDone, PollNothing, DeviceFails, ThreadTypeOK
    <3> QED
      BY <2>1, <3>1, <3>2, <3>3, <3>4 DEF ThreadTurn, ThreadLoop
  <2> QED
    BY <2>1, <2>2 DEF udpVars
<1>9. CASE UNCHANGED trezorVars
  BY <1>1, <1>9 DEF trezorVars, threadVars, udpVars, ThreadTypeOK
<1> QED
  BY <1>2, <1>3, <1>4, <1>5, <1>6, <1>7, <1>8, <1>9 DEF TrezorNext, TaskAStep, TaskBStep

\* Every step leaves task B alive beside the device.
LEMMA OutlivesStep ==
  ASSUME TrezorTypeOK, OutlivesThread, [TrezorNext]_trezorVars
  PROVE  OutlivesThread'
<1> USE DEF OutlivesThread, DeviceOpen
<1>1. CASE Start \/ Stop \/ StopReturns
  BY <1>1 DEF Start, Stop, StopReturns, threadVars
<1>2. CASE TaskAStep
  BY <1>2 DEF TaskAStep, ReceiveDatagram, ReceiveFails, TaskAEnds, threadVars
<1>3. CASE TaskBStep
  BY <1>3 DEF TaskBStep, SendDatagram, TaskBEnds, threadVars
<1>4. CASE EmulatorSends \/ EmulatorComesOrGoes
  BY <1>4 DEF EmulatorSends, EmulatorComesOrGoes, threadVars
<1>5. CASE ThreadStep \/ OutsideStep
  BY <1>5 DEF ThreadStep, OutsideStep, ThreadLoop, CheckShutdown, WriteInput, WriteDone,
              PollReport, PollNothing, HostWrites, DeviceFails
<1>6. CASE UNCHANGED trezorVars
  BY <1>6 DEF trezorVars, threadVars
<1> QED
  BY <1>1, <1>2, <1>3, <1>4, <1>5, <1>6 DEF TrezorNext

-----------------------------------------------------------------------------
(***************************************************************************)
(* Order.                                                                  *)
(***************************************************************************)

\* A side sends its next report, or one that is lost.
LEMMA SendInOrder ==
  ASSUME NEW a \in Seq(Nat), NEW b \in Seq(Nat), NEW c \in Seq(Nat), NEW n \in Nat,
         Stations(a, b, c, n)
  PROVE  Stations(a, b, c, n + 1) /\ Stations(a, b, Append(c, n + 1), n + 1)
<1> DEFINE e == Append(c, n + 1)
<1>1. /\ Len(c) \in Nat /\ Len(e) = Len(c) + 1 /\ e[Len(c) + 1] = n + 1
      /\ \A i \in 1..Len(c) : e[i] = c[i]
  BY AppendProperties
<1>2. \A s \in Seq(Nat) : \A i \in 1..Len(s) : s[i] \in Nat
  BY ElementOfSeq
<1>3. \A s \in Seq(Nat) : UpTo(s, n) => UpTo(s, n + 1)
  BY <1>2 DEF UpTo
<1>4. \A i \in 1..Len(e) : \/ i \in 1..Len(c) /\ e[i] = c[i]
                           \/ i = Len(c) + 1 /\ e[i] = n + 1
  BY <1>1, SMTT(60)
<1>5. UpTo(e, n + 1)
  BY <1>2, <1>3, <1>4, SMTT(60) DEF UpTo, Stations
<1>6. Rising(e)
  BY <1>1, <1>2, <1>4 DEF Rising, UpTo, Stations
<1>7. \A s \in Seq(Nat) : UpTo(s, n) /\ Below(s, c) => Below(s, e)
  BY <1>2, <1>4 DEF Below, UpTo
<1> QED
  BY <1>3, <1>5, <1>6, <1>7 DEF Stations

\* What a sequence promises, what is left of it does.
LEMMA TailKeeps ==
  ASSUME NEW s \in Seq(Nat), s # <<>>, NEW n \in Nat
  PROVE  /\ Rising(s) => Rising(Tail(s)) /\ \A i \in 1..Len(Tail(s)) : Head(s) < Tail(s)[i]
         /\ UpTo(s, n) => UpTo(Tail(s), n) /\ Head(s) <= n
         /\ \A t \in Seq(Nat) :
              /\ Below(s, t) => Below(Tail(s), t) /\ \A i \in 1..Len(t) : Head(s) < t[i]
              /\ Below(t, s) => Below(t, Tail(s)) /\ \A i \in 1..Len(t) : t[i] < Head(s)
<1>1. /\ Len(s) \in Nat /\ Len(s) > 0 /\ Len(Tail(s)) = Len(s) - 1 /\ Head(s) = s[1]
      /\ \A i \in 1..Len(Tail(s)) : Tail(s)[i] = s[i + 1] /\ i + 1 \in 1..Len(s)
      /\ 1 \in 1..Len(s)
  BY HeadTailProperties, EmptySeq, LenProperties
<1>2. ASSUME Rising(s)
      PROVE  Rising(Tail(s)) /\ \A i \in 1..Len(Tail(s)) : Head(s) < Tail(s)[i]
  BY <1>1, <1>2 DEF Rising
<1>3. ASSUME UpTo(s, n) PROVE UpTo(Tail(s), n) /\ Head(s) <= n
  BY <1>1, <1>3 DEF UpTo
<1>4. ASSUME NEW t \in Seq(Nat), Below(s, t)
      PROVE  Below(Tail(s), t) /\ \A i \in 1..Len(t) : Head(s) < t[i]
  BY <1>1, <1>4 DEF Below
<1>5. ASSUME NEW t \in Seq(Nat), Below(t, s)
      PROVE  Below(t, Tail(s)) /\ \A i \in 1..Len(t) : t[i] < Head(s)
  BY <1>1, <1>5 DEF Below
<1> QED
  BY <1>2, <1>3, <1>4, <1>5

\* One more at the end of a sequence, above what it has.
LEMMA OneMoreInOrder ==
  ASSUME NEW s \in Seq(Nat), NEW r \in Nat, NEW n \in Nat
  PROVE  /\ Rising(s) /\ (\A i \in 1..Len(s) : s[i] < r) => Rising(Append(s, r))
         /\ UpTo(s, n) /\ r <= n => UpTo(Append(s, r), n)
         /\ \A t \in Seq(Nat) :
              /\ Below(s, t) /\ (\A i \in 1..Len(t) : r < t[i]) => Below(Append(s, r), t)
              /\ Below(t, s) /\ (\A i \in 1..Len(t) : t[i] < r) => Below(t, Append(s, r))
<1> DEFINE e == Append(s, r)
<1>1. /\ Len(s) \in Nat /\ Len(e) = Len(s) + 1
      /\ \A i \in 1..Len(e) : \/ i \in 1..Len(s) /\ e[i] = s[i]
                              \/ i = Len(s) + 1 /\ e[i] = r
  <2>1. /\ Len(s) \in Nat /\ Len(e) = Len(s) + 1 /\ e[Len(s) + 1] = r
        /\ \A i \in 1..Len(s) : e[i] = s[i]
    BY AppendProperties
  <2> QED
    BY <2>1
<1>2. ASSUME Rising(s), \A i \in 1..Len(s) : s[i] < r PROVE Rising(e)
  BY <1>1, <1>2 DEF Rising
<1>3. ASSUME UpTo(s, n), r <= n PROVE UpTo(e, n)
  BY <1>1, <1>3 DEF UpTo
<1>4. ASSUME NEW t \in Seq(Nat), Below(s, t), \A i \in 1..Len(t) : r < t[i]
      PROVE  Below(e, t)
  BY <1>1, <1>4 DEF Below
<1>5. ASSUME NEW t \in Seq(Nat), Below(t, s), \A i \in 1..Len(t) : t[i] < r
      PROVE  Below(t, e)
  BY <1>1, <1>5 DEF Below
<1> QED
  BY <1>2, <1>3, <1>4, <1>5

\* A report goes from the last station to the one before, or is lost.
LEMMA LastInOrder ==
  ASSUME NEW a \in Seq(Nat), NEW b \in Seq(Nat), NEW c \in Seq(Nat), NEW n \in Nat,
         Stations(a, b, c, n), c # <<>>
  PROVE  Stations(a, b, Tail(c), n) /\ Stations(a, Append(b, Head(c)), Tail(c), n)
<1>1. Head(c) \in Nat /\ Tail(c) \in Seq(Nat)
  BY TakeOne
<1>2. /\ Rising(Tail(c)) /\ UpTo(Tail(c), n) /\ Head(c) <= n
      /\ \A i \in 1..Len(Tail(c)) : Head(c) < Tail(c)[i]
      /\ Below(a, Tail(c)) /\ \A i \in 1..Len(a) : a[i] < Head(c)
      /\ Below(b, Tail(c)) /\ \A i \in 1..Len(b) : b[i] < Head(c)
  BY TailKeeps DEF Stations
<1>3. /\ Rising(Append(b, Head(c))) /\ UpTo(Append(b, Head(c)), n)
      /\ Below(a, Append(b, Head(c))) /\ Below(Append(b, Head(c)), Tail(c))
  BY <1>1, <1>2, OneMoreInOrder DEF Stations
<1> QED
  BY <1>2, <1>3 DEF Stations

\* A report gets to the other side, or is lost before it.
LEMMA FirstInOrder ==
  ASSUME NEW a \in Seq(Nat), NEW b \in Seq(Nat), NEW c \in Seq(Nat), NEW n \in Nat,
         Stations(a, b, c, n), b # <<>>
  PROVE  Stations(a, Tail(b), c, n) /\ Stations(Append(a, Head(b)), Tail(b), c, n)
<1>1. Head(b) \in Nat /\ Tail(b) \in Seq(Nat)
  BY TakeOne
<1>2. /\ Rising(Tail(b)) /\ UpTo(Tail(b), n) /\ Head(b) <= n
      /\ \A i \in 1..Len(Tail(b)) : Head(b) < Tail(b)[i]
      /\ Below(a, Tail(b)) /\ \A i \in 1..Len(a) : a[i] < Head(b)
      /\ Below(Tail(b), c) /\ \A i \in 1..Len(c) : Head(b) < c[i]
  BY TailKeeps DEF Stations
<1>3. /\ Rising(Append(a, Head(b))) /\ UpTo(Append(a, Head(b)), n)
      /\ Below(Append(a, Head(b)), Tail(b)) /\ Below(Append(a, Head(b)), c)
  BY <1>1, <1>2, OneMoreInOrder DEF Stations
<1> QED
  BY <1>2, <1>3 DEF Stations

\* The stations are sequences of numbers.
LEMMA StationTypes ==
  ASSUME TrezorTypeOK
  PROVE  /\ emuGot \in Seq(Nat) /\ uhidRead \in Seq(Nat) /\ kernel \in Seq(Nat)
         /\ hostGot \in Seq(Nat) /\ uhidWrite \in Seq(Nat) /\ wire \in Seq(Nat)
         /\ hostSent \in Nat /\ emuSent \in Nat
<1>1. /\ emuGot \in Seq(Reports) /\ uhidRead \in Seq(Reports) /\ kernel \in Seq(Reports)
      /\ hostGot \in Seq(Reports) /\ uhidWrite \in Seq(Reports) /\ wire \in Seq(Reports)
      /\ hostSent \in 0..MaxReports /\ emuSent \in 0..MaxReports
  BY DEF TrezorTypeOK, ThreadTypeOK
<1> QED
  BY <1>1, Numbers, SeqMonotonic

\* Every step keeps the reports of the host in order.
LEMMA DownStep ==
  ASSUME TrezorTypeOK, DownOrder, [TrezorNext]_trezorVars
  PROVE  DownOrder'
<1>1. /\ emuGot \in Seq(Nat) /\ uhidRead \in Seq(Nat) /\ kernel \in Seq(Nat)
      /\ hostSent \in Nat /\ Stations(emuGot, uhidRead, kernel, hostSent)
  BY StationTypes DEF DownOrder
<1>2. ASSUME UNCHANGED <<emuGot, uhidRead, kernel, hostSent>>
      PROVE  DownOrder'
  BY <1>1, <1>2 DEF DownOrder
<1>3. CASE Start \/ Stop \/ StopReturns
  BY <1>2, <1>3 DEF Start, Stop, StopReturns, threadVars, udpVars
<1>4. CASE TaskAStep
  BY <1>2, <1>4 DEF TaskAStep, ReceiveDatagram, ReceiveFails, TaskAEnds, threadVars, udpVars
<1>5. CASE SendDatagram
  <2>1. /\ UNCHANGED <<kernel, hostSent>> /\ uhidRead # <<>> /\ uhidRead' = Tail(uhidRead)
        /\ emuGot' \in {emuGot, Append(emuGot, Head(uhidRead))}
    BY <1>5 DEF SendDatagram
  <2> QED
    BY <1>1, <2>1, FirstInOrder DEF DownOrder
<1>6. CASE TaskBEnds \/ EmulatorSends \/ EmulatorComesOrGoes
  BY <1>2, <1>6 DEF TaskBEnds, EmulatorSends, EmulatorComesOrGoes, threadVars, udpVars
<1>7. CASE ThreadStep \/ OutsideStep
  <2>1. UNCHANGED emuGot
    BY <1>7 DEF ThreadStep, OutsideStep, udpVars
  <2>2. CASE HostWrites
    <3>1. UNCHANGED uhidRead /\ hostSent' = hostSent + 1
          /\ kernel' \in {kernel, Append(kernel, hostSent + 1)}
      BY <2>2 DEF HostWrites
    <3> QED
      BY <1>1, <2>1, <3>1, SendInOrder DEF DownOrder
  <2>3. CASE PollReport(taskB = "recv")
    <3>1. UNCHANGED hostSent /\ kernel # <<>> /\ kernel' = Tail(kernel)
          /\ uhidRead' \in {uhidRead, Append(uhidRead, Head(kernel))}
      BY <2>3 DEF PollReport
    <3> QED
      BY <1>1, <2>1, <3>1, LastInOrder DEF DownOrder
  <2>4. CASE CheckShutdown \/ WriteInput \/ WriteDone \/ PollNothing \/ DeviceFails
    BY <1>2, <2>1, <2>4 DEF CheckShutdown, WriteInput, WriteDone, PollNothing, DeviceFails
  <2> QED
    BY <1>7, <2>2, <2>3, <2>4 DEF ThreadStep, OutsideStep, ThreadLoop
<1>8. CASE UNCHANGED trezorVars
  BY <1>2, <1>8 DEF trezorVars, threadVars, udpVars
<1> QED
  BY <1>3, <1>4, <1>5, <1>6, <1>7, <1>8 DEF TrezorNext, TaskBStep

\* Every step keeps the reports of the emulator in order.
LEMMA UpStep ==
  ASSUME TrezorTypeOK, UpOrder, [TrezorNext]_trezorVars
  PROVE  UpOrder'
<1>1. /\ hostGot \in Seq(Nat) /\ uhidWrite \in Seq(Nat) /\ wire \in Seq(Nat)
      /\ emuSent \in Nat /\ Stations(hostGot, uhidWrite, wire, emuSent)
  BY StationTypes DEF UpOrder
<1>2. ASSUME UNCHANGED <<hostGot, uhidWrite, wire, emuSent>>
      PROVE  UpOrder'
  BY <1>1, <1>2 DEF UpOrder
<1>3. CASE Start \/ Stop \/ StopReturns
  BY <1>2, <1>3 DEF Start, Stop, StopReturns, threadVars, udpVars
<1>4. CASE ReceiveDatagram
  <2>1. /\ UNCHANGED <<hostGot, emuSent>> /\ wire # <<>> /\ wire' = Tail(wire)
        /\ uhidWrite' = Append(uhidWrite, Head(wire))
    BY <1>4 DEF ReceiveDatagram
  <2> QED
    BY <1>1, <2>1, LastInOrder DEF UpOrder
<1>5. CASE ReceiveFails \/ TaskAEnds \/ TaskBStep \/ EmulatorComesOrGoes
  BY <1>2, <1>5 DEF ReceiveFails, TaskAEnds, TaskBStep, SendDatagram, TaskBEnds,
                    EmulatorComesOrGoes, threadVars, udpVars
<1>6. CASE EmulatorSends
  <2>1. /\ UNCHANGED <<hostGot, uhidWrite>> /\ emuSent' = emuSent + 1
        /\ wire' \in {wire, Append(wire, emuSent + 1)}
    BY <1>6 DEF EmulatorSends, threadVars
  <2> QED
    BY <1>1, <2>1, SendInOrder DEF UpOrder
<1>7. CASE ThreadStep \/ OutsideStep
  <2>1. UNCHANGED <<wire, emuSent>>
    BY <1>7 DEF ThreadStep, OutsideStep, udpVars
  <2>2. CASE WriteInput
    <3>1. /\ uhidWrite # <<>> /\ uhidWrite' = Tail(uhidWrite)
          /\ hostGot' = Append(hostGot, Head(uhidWrite))
      BY <2>2 DEF WriteInput
    <3> QED
      BY <1>1, <2>1, <3>1, FirstInOrder DEF UpOrder
  <2>3. CASE CheckShutdown \/ WriteDone \/ PollReport(taskB = "recv") \/ PollNothing
             \/ HostWrites \/ DeviceFails
    BY <1>2, <2>1, <2>3 DEF CheckShutdown, WriteDone, PollReport, PollNothing, HostWrites,
                            DeviceFails
  <2> QED
    BY <1>7, <2>2, <2>3 DEF ThreadStep, OutsideStep, ThreadLoop
<1>8. CASE UNCHANGED trezorVars
  BY <1>2, <1>8 DEF trezorVars, threadVars, udpVars
<1> QED
  BY <1>3, <1>4, <1>5, <1>6, <1>7, <1>8 DEF TrezorNext, TaskAStep

-----------------------------------------------------------------------------
(***************************************************************************)
(* Theorems.                                                               *)
(***************************************************************************)

\* TrezorInv ties the tasks to the thread and the reports on their way, in
\* either direction, to the order in which they were sent.
THEOREM TrezorInvariance == TrezorSpec => []TrezorInv
<1>1. TrezorInv /\ [TrezorNext]_trezorVars => TrezorInv'
  BY TypeStep, OutlivesStep, DownStep, UpStep DEF TrezorInv
<1> QED
  BY <1>1, TrezorInitial, PTL DEF TrezorSpec

\* The two relay tasks and the thread double nothing and overtake nothing,
\* although datagrams are lost and refused in between and the emulator comes and
\* goes.
THEOREM UdpKeepsOrder == TrezorSpec => []UdpInOrder
<1>1. TrezorInv => UdpInOrder
  BY DEF TrezorInv, DownOrder, UpOrder, Stations, UdpInOrder
<1> QED
  BY <1>1, TrezorInvariance, PTL

\* try_recv().is_ok() never sees that the sender was dropped, and the channel to
\* task B stays open as long as the thread runs: whatever stop() or a drop do,
\* only a failing read or write of the device ends the thread.
THEOREM NothingElseCloses == ~SeesClosed => (TrezorSpec => OnlyFailuresClose)
<1>1. ASSUME ~SeesClosed, TrezorInv, TrezorNext, DeviceOpen, ~DeviceOpen'
      PROVE  DeviceFails
  <2>1. taskB = "recv" /\ thread # "none"
    BY <1>1 DEF TrezorInv, OutlivesThread, DeviceOpen
  <2>2. CASE ThreadStep
    <3>1. CASE CheckShutdown \/ WriteInput \/ WriteDone \/ PollReport(taskB = "recv") \/ PollNothing
      BY <1>1, <2>1, <3>1 DEF CheckShutdown, WriteInput, WriteDone, PollReport, PollNothing,
                              DeviceOpen
    <3> QED
      BY <2>2, <3>1 DEF ThreadStep, ThreadLoop
  <2>3. CASE OutsideStep
    BY <1>1, <2>3 DEF OutsideStep, HostWrites, DeviceOpen
  <2>4. CASE Start \/ Stop \/ StopReturns
    BY <1>1, <2>4 DEF Start, Stop, StopReturns, threadVars, DeviceOpen
  <2>5. CASE TaskAStep \/ TaskBStep
    BY <1>1, <2>5 DEF TaskAStep, TaskBStep, ReceiveDatagram, ReceiveFails, TaskAEnds,
                      SendDatagram, TaskBEnds, threadVars, DeviceOpen
  <2>6. CASE EmulatorSends \/ EmulatorComesOrGoes
    BY <1>1, <2>6 DEF EmulatorSends, EmulatorComesOrGoes, threadVars, DeviceOpen
  <2> QED
    BY <1>1, <2>2, <2>3, <2>4, <2>5, <2>6 DEF TrezorNext
<1>2. ~SeesClosed /\ TrezorInv /\ TrezorNext => (DeviceOpen /\ ~DeviceOpen' => DeviceFails)
  BY <1>1
<1>3. ~SeesClosed => (TrezorSpec => [][DeviceOpen /\ ~DeviceOpen' => DeviceFails]_trezorVars)
  <2> SUFFICES ASSUME ~SeesClosed
               PROVE  TrezorSpec => [][DeviceOpen /\ ~DeviceOpen' => DeviceFails]_trezorVars
    OBVIOUS
  <2>1. TrezorInv /\ TrezorNext => (DeviceOpen /\ ~DeviceOpen' => DeviceFails)
    BY <1>2
  <2> QED
    BY <2>1, TrezorInvariance, PTL DEF TrezorSpec
<1> QED
  BY <1>3 DEF OnlyFailuresClose
=============================================================================
