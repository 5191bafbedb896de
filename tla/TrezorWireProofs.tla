-------------------------- MODULE TrezorWireProofs --------------------------
(***************************************************************************)
(* The clients of the Trezor emulator, for packets of any room, answers of *)
(* any length, with any payload, and any number of calls, rounds and       *)
(* sockets: on a socket that owes nothing to earlier calls an answer       *)
(* belongs to its request, and while no packet is lost none there is put   *)
(* together from two messages.                                             *)
(***************************************************************************)
EXTENDS TrezorWire, SequenceTheorems, TLAPS

-----------------------------------------------------------------------------
(***************************************************************************)
(* Framing.                                                                *)
(***************************************************************************)

\* Rounding a division up.
LEMMA RoundsUp ==
  ASSUME NEW m \in Nat \ {0}, NEW d \in Nat \ {0}, NEW k \in Nat
  PROVE  /\ (m + (d - 1)) \div d \in Nat
         /\ k * d >= m <=> k >= (m + (d - 1)) \div d
<1> DEFINE q == (m + (d - 1)) \div d
<1>1. q \in Int /\ q * d <= m + (d - 1) /\ m + (d - 1) < (q + 1) * d
  OBVIOUS
<1> HIDE DEF q
<1>2. q >= 0
  <2> SUFFICES ASSUME q + 1 <= 0 PROVE FALSE
    BY <1>1
  <2>1. (q + 1) * d <= 0
    BY <1>1
  <2> QED
    BY <1>1, <2>1
<1>3. ASSUME k >= q PROVE k * d >= m
  <2>1. (k + 1) * d >= (q + 1) * d
    BY <1>1, <1>3
  <2>2. (k + 1) * d = k * d + d
    OBVIOUS
  <2> QED
    BY <1>1, <2>1, <2>2
<1>4. ASSUME k + 1 <= q PROVE k * d < m
  <2>1. (k + 1) * d <= q * d
    BY <1>1, <1>4
  <2>2. (k + 1) * d = k * d + d
    OBVIOUS
  <2> QED
    BY <1>1, <2>1, <2>2
<1>5. k >= q \/ k + 1 <= q
  BY <1>1
<1>6. k * d \in Int
  OBVIOUS
<1> QED
  BY <1>1, <1>2, <1>3, <1>4, <1>5, <1>6 DEF q

\* A message has a first packet, and as many as there is need for.
LEMMA RoomEnough ==
  ASSUME NEW n \in Nat, NEW k \in Nat \ {0}
  PROVE  /\ PacketCount(n) \in Nat \ {0}
         /\ FirstRoom + (k - 1) * NextRoom >= n <=> k >= PacketCount(n)
<1>1. FirstRoom \in Nat \ {0} /\ NextRoom \in Nat \ {0} /\ (k - 1) * NextRoom \in Nat
  <2>1. FirstRoom \in Nat \ {0} /\ NextRoom \in Nat \ {0} /\ k - 1 \in Nat
    BY WireAssumption
  <2> QED
    BY <2>1
<1>2. CASE n <= FirstRoom
  BY <1>1, <1>2 DEF PacketCount
<1>3. CASE ~(n <= FirstRoom)
  <2>1. n - FirstRoom \in Nat \ {0} /\ k - 1 \in Nat
    BY <1>1, <1>3
  <2>2. /\ ((n - FirstRoom) + (NextRoom - 1)) \div NextRoom \in Nat
        /\ (k - 1) * NextRoom >= n - FirstRoom
           <=> k - 1 >= ((n - FirstRoom) + (NextRoom - 1)) \div NextRoom
    BY <1>1, <2>1, RoundsUp
  <2>3. PacketCount(n) = 1 + ((n - FirstRoom) + (NextRoom - 1)) \div NextRoom
    BY <1>3 DEF PacketCount
  <2> QED
    BY <1>1, <2>2, <2>3
<1> QED
  BY <1>2, <1>3

\* The packets of a message.
LEMMA FramePackets ==
  ASSUME NEW q \in Requests, NEW type \in Types, NEW n \in Nat
  PROVE  /\ Frame(q, type, n) \in Seq(Packets)
         /\ Len(Frame(q, type, n)) = PacketCount(n) /\ PacketCount(n) \in Nat \ {0}
         /\ \A i \in 1..PacketCount(n) :
              Frame(q, type, n)[i] = [req |-> q, type |-> type, part |-> i, size |-> n]
<1>1. PacketCount(n) \in Nat \ {0}
  <2>1. 1 \in Nat \ {0}
    OBVIOUS
  <2> QED
    BY <2>1, RoomEnough
<1>2. \A i \in 1..PacketCount(n) : [req |-> q, type |-> type, part |-> i, size |-> n] \in Packets
  BY <1>1 DEF Packets
<1> QED
  BY <1>1, <1>2 DEF Frame

-----------------------------------------------------------------------------
(***************************************************************************)
(* Sequences.                                                              *)
(***************************************************************************)

\* What taking one from a sequence leaves.
LEMMA TakeOne ==
  ASSUME NEW S, NEW s \in Seq(S), s # <<>>
  PROVE  /\ Head(s) \in S /\ Head(s) = s[1] /\ Tail(s) \in Seq(S)
         /\ Len(s) \in Nat \ {0} /\ Len(Tail(s)) = Len(s) - 1
         /\ \A i \in 1..(Len(s) - 1) : Tail(s)[i] = s[i + 1] /\ i + 1 \in 1..Len(s)
<1>1. Len(s) \in Nat /\ Len(s) > 0
  BY EmptySeq, LenProperties
<1>2. /\ Head(s) \in S /\ Head(s) = s[1] /\ Tail(s) \in Seq(S)
      /\ Len(Tail(s)) = Len(s) - 1
      /\ \A i \in 1..Len(Tail(s)) : Tail(s)[i] = s[i + 1]
  BY HeadTailProperties
<1> QED
  BY <1>1, <1>2

\* What putting one to the end of a sequence makes.
LEMMA PutOne ==
  ASSUME NEW S, NEW s \in Seq(S), NEW e \in S
  PROVE  /\ Append(s, e) \in Seq(S) /\ Append(s, e) # <<>>
         /\ Len(s) \in Nat /\ Len(Append(s, e)) = Len(s) + 1
         /\ \A i \in 1..Len(s) : Append(s, e)[i] = s[i]
         /\ Append(s, e)[Len(s) + 1] = e
<1>1. /\ Append(s, e) \in Seq(S) /\ Len(s) \in Nat /\ Len(Append(s, e)) = Len(s) + 1
      /\ \A i \in 1..Len(s) : Append(s, e)[i] = s[i]
      /\ Append(s, e)[Len(s) + 1] = e
  BY AppendProperties, LenProperties
<1>2. Len(Append(s, e)) # 0
  BY <1>1
<1>3. Len(<<>>) = 0
  OBVIOUS
<1> QED
  BY <1>1, <1>2, <1>3

\* What joining two sequences makes.
LEMMA Join ==
  ASSUME NEW S, NEW s \in Seq(S), NEW t \in Seq(S)
  PROVE  /\ s \o t \in Seq(S) /\ Len(s) \in Nat /\ Len(t) \in Nat
         /\ Len(s \o t) = Len(s) + Len(t)
         /\ \A i \in 1..Len(s) : (s \o t)[i] = s[i]
         /\ \A i \in 1..Len(t) : (s \o t)[Len(s) + i] = t[i]
<1>1. /\ s \o t \in Seq(S) /\ Len(s) \in Nat /\ Len(t) \in Nat
      /\ Len(s \o t) = Len(s) + Len(t)
      /\ \A i \in 1..Len(s \o t) :
           (s \o t)[i] = IF i <= Len(s) THEN s[i] ELSE t[i - Len(s)]
  BY ConcatProperties, LenProperties
<1> QED
  BY <1>1

\* Two sequences that are the parts of a third before and after one place.
LEMMA JoinParts ==
  ASSUME NEW S, NEW s, NEW n \in Nat, NEW i \in 1..n, NEW front \in Seq(S), NEW back \in Seq(S),
         Len(front) = i - 1, \A j \in 1..(i - 1) : front[j] = s[j],
         Len(back) = n - i, \A j \in 1..(n - i) : back[j] = s[i + j]
  PROVE  /\ front \o back \in Seq(S) /\ Len(front \o back) = n - 1
         /\ \A j \in 1..(n - 1) :
              (front \o back)[j] = IF j < i THEN s[j] ELSE s[j + 1]
<1>1. /\ front \o back \in Seq(S) /\ Len(front \o back) = Len(front) + Len(back)
      /\ \A j \in 1..Len(front) : (front \o back)[j] = front[j]
      /\ \A j \in 1..Len(back) : (front \o back)[Len(front) + j] = back[j]
  BY ONLY Join, front \in Seq(S), back \in Seq(S)
<1>2. ASSUME NEW j \in 1..(n - 1), j < i
      PROVE  (front \o back)[j] = s[j]
  BY <1>1, <1>2
<1>3. ASSUME NEW j \in 1..(n - 1), ~(j < i)
      PROVE  (front \o back)[j] = s[j + 1]
  <2>1. /\ j - (i - 1) \in 1..(n - i) /\ Len(front) + (j - (i - 1)) = j
        /\ i + (j - (i - 1)) = j + 1
    BY <1>3
  <2> QED
    BY ONLY <1>1, <2>1, Len(back) = n - i, \A k \in 1..(n - i) : back[k] = s[i + k]
<1> QED
  BY <1>1, <1>2, <1>3

\* What removing one from a sequence leaves.
LEMMA RemoveOne ==
  ASSUME NEW S, NEW s \in Seq(S), NEW i \in DOMAIN s
  PROVE  /\ RemoveAt(s, i) \in Seq(S) /\ Len(RemoveAt(s, i)) = Len(s) - 1
         /\ Len(s) \in Nat \ {0} /\ i \in 1..Len(s)
         /\ \A j \in 1..(Len(s) - 1) :
              RemoveAt(s, i)[j] = IF j < i THEN s[j] ELSE s[j + 1]
<1>1. Len(s) \in Nat \ {0} /\ i \in 1..Len(s)
  BY LenProperties
<1>2. /\ SubSeq(s, 1, i - 1) \in Seq(S) /\ Len(SubSeq(s, 1, i - 1)) = i - 1
      /\ \A j \in 1..(i - 1) : SubSeq(s, 1, i - 1)[j] = s[j]
  <2>1. \A j \in 1..(i - 1) : s[j] \in S
    BY <1>1, ElementOfSeq
  <2>2. /\ SubSeq(s, 1, i - 1) \in Seq(S)
        /\ Len(SubSeq(s, 1, i - 1)) = IF 1 <= i - 1 THEN (i - 1) - 1 + 1 ELSE 0
        /\ \A j \in 1..((i - 1) - 1 + 1) : SubSeq(s, 1, i - 1)[j] = s[1 + j - 1]
    <3>1. 1 \in Int /\ i - 1 \in Int
      BY <1>1
    <3> QED
      BY <2>1, <3>1, SubSeqProperties
  <2> QED
    BY <1>1, <2>2
<1>3. /\ SubSeq(s, i + 1, Len(s)) \in Seq(S) /\ Len(SubSeq(s, i + 1, Len(s))) = Len(s) - i
      /\ \A j \in 1..(Len(s) - i) : SubSeq(s, i + 1, Len(s))[j] = s[i + j]
  <2>1. \A j \in (i + 1)..Len(s) : s[j] \in S
    BY <1>1, ElementOfSeq
  <2>2. /\ SubSeq(s, i + 1, Len(s)) \in Seq(S)
        /\ Len(SubSeq(s, i + 1, Len(s))) = IF i + 1 <= Len(s) THEN Len(s) - (i + 1) + 1 ELSE 0
        /\ \A j \in 1..(Len(s) - (i + 1) + 1) : SubSeq(s, i + 1, Len(s))[j] = s[(i + 1) + j - 1]
    <3>1. i + 1 \in Int /\ Len(s) \in Int
      BY <1>1
    <3> QED
      BY <2>1, <3>1, SubSeqProperties
  <2>3. \A j \in 1..(Len(s) - i) : SubSeq(s, i + 1, Len(s))[j] = s[i + j]
    <3> SUFFICES ASSUME NEW j \in 1..(Len(s) - i)
                 PROVE  SubSeq(s, i + 1, Len(s))[j] = s[i + j]
      OBVIOUS
    <3>1. j \in 1..(Len(s) - (i + 1) + 1) /\ (i + 1) + j - 1 = i + j
      BY <1>1
    <3> QED
      BY <2>2, <3>1
  <2> QED
    BY <1>1, <2>2, <2>3
<1>4. /\ RemoveAt(s, i) \in Seq(S) /\ Len(RemoveAt(s, i)) = Len(s) - 1
      /\ \A j \in 1..(Len(s) - 1) :
           RemoveAt(s, i)[j] = IF j < i THEN s[j] ELSE s[j + 1]
  <2> DEFINE front == SubSeq(s, 1, i - 1)
             back == SubSeq(s, i + 1, Len(s))
  <2>1. RemoveAt(s, i) = front \o back
    BY DEF RemoveAt
  <2>2. /\ front \in Seq(S) /\ Len(front) = i - 1
        /\ \A j \in 1..(i - 1) : front[j] = s[j]
        /\ back \in Seq(S) /\ Len(back) = Len(s) - i
        /\ \A j \in 1..(Len(s) - i) : back[j] = s[i + j]
    BY <1>2, <1>3
  <2> HIDE DEF front, back
  <2>3. ASSUME NEW f \in Seq(S), NEW b \in Seq(S),
               Len(f) = i - 1, \A j \in 1..(i - 1) : f[j] = s[j],
               Len(b) = Len(s) - i, \A j \in 1..(Len(s) - i) : b[j] = s[i + j]
        PROVE  /\ f \o b \in Seq(S) /\ Len(f \o b) = Len(s) - 1
               /\ \A j \in 1..(Len(s) - 1) : (f \o b)[j] = IF j < i THEN s[j] ELSE s[j + 1]
    <3>1. Len(s) \in Nat /\ i \in 1..Len(s)
      BY <1>1
    <3> QED
      BY <2>3, <3>1, JoinParts, SMTT(60)
  <2> QED
    BY <2>1, <2>2, <2>3
<1> QED
  BY <1>1, <1>4

-----------------------------------------------------------------------------
(***************************************************************************)
(* The invariant.                                                          *)
(***************************************************************************)

Mails == [kind : Kinds, req : Requests, sock : 1..MaxSockets]
Presses == {[kind |-> "ack"], [kind |-> "press"]}

\* A request that was made, of a socket that was opened, at its port; or what
\* a client sends with a confirmation.
MailOK(p, m, made, opened) ==
  \/ /\ m \in Mails /\ m.req <= made
     /\ m.sock <= opened /\ PortOf(m.kind) = p
  \/ m = [kind |-> IF p = "wire" THEN "ack" ELSE "press"]

Shape ==
  /\ WireTypeOK
  /\ size \in [Requests -> Sizes]
  /\ stale \in [Ports -> BOOLEAN] /\ lost \in [Ports -> BOOLEAN]
  /\ inbox \in [Ports -> Seq(Mails \cup Presses)]

MailsSound ==
  /\ \A p \in Ports : \A i \in 1..Len(inbox[p]) : MailOK(p, inbox[p][i], sent, sock[p])
  /\ work # None => work.sock <= sock["wire"] /\ work.kind # "layout"

\* Every packet, waiting or received, is one of an answer the device gave to a
\* request that was made.
SizeOf(q, type) == IF type = "button" THEN 0 ELSE size[q]

Sound(x, made) ==
  x.req <= made /\ x.size = SizeOf(x.req, x.type) /\ x.part \in 1..PacketCount(x.size)

PacketsSound ==
  /\ \A p \in Ports : \A i \in 1..Len(queue[p]) : Sound(queue[p][i], sent)
  /\ call # None => \A i \in 1..Len(call.got) : Sound(call.got[i], sent)

\* While none was lost the packets that wait make up whole messages, behind the
\* rest of the one being received.
On(p) == call # None /\ Port = p

Follows(x, y) ==
  IF x.part < PacketCount(x.size) THEN y = [x EXCEPT !.part = @ + 1] ELSE y.part = 1

Chain(s) ==
  /\ \A i \in 1..(Len(s) - 1) : Follows(s[i], s[i + 1])
  /\ s # <<>> => s[Len(s)].part = PacketCount(s[Len(s)].size)

Begun(got, s) ==
  /\ \A i \in 1..Len(got) : got[i] = [got[1] EXCEPT !.part = i]
  /\ Len(got) < PacketCount(got[1].size)
  /\ s # <<>> /\ s[1] = [got[1] EXCEPT !.part = Len(got) + 1]

ChainInv ==
  \A p \in Ports : ~lost[p] =>
    /\ Chain(queue[p])
    /\ On(p) /\ call.got # <<>> /\ call.got[1].part = 1 => Begun(call.got, queue[p])

\* A socket that owes nothing to earlier calls has lost none of the first packets
\* then, so that what is received there begins with one.
StartInv ==
  \A p \in Ports : ~lost[p] /\ ~stale[p] =>
    IF On(p) /\ call.got # <<>> THEN call.got[1].part = 1
    ELSE queue[p] # <<>> => queue[p][1].part = 1

\* What is being received began with the marks of a first packet; each further
\* packet of an answer has a look.
LooksInv ==
  /\ \A q \in Requests, i \in Further : i <= PacketCount(size[q]) => looks[q][i] # None
  /\ call # None /\ call.got # <<>> => Announced(call.got[1]).first

\* To a socket that owes nothing to earlier calls the device sends nothing but
\* the answer to the call in progress: the request is still to be taken, or
\* worked on, or was answered or lost.
Ours(m, opened) == m.kind \in Kinds /\ m.sock = opened
WorkOurs(p) == p = "wire" /\ work # None /\ work.sock = sock[p]
Elsewhere(p) ==
  ~WorkOurs(p) /\ \A i \in 1..Len(inbox[p]) : ~Ours(inbox[p][i], sock[p])

Quiet(p) == queue[p] = <<>> /\ Elsewhere(p)

Asked(p) ==
  /\ queue[p] = <<>> /\ call.got = <<>> /\ ~WorkOurs(p)
  /\ inbox[p] # <<>>
  /\ inbox[p][Len(inbox[p])] = [kind |-> call.kind, req |-> call.req, sock |-> sock[p]]
  /\ \A i \in 1..(Len(inbox[p]) - 1) : ~Ours(inbox[p][i], sock[p])

\* The device asks for one confirmation at a time, and nothing else comes
\* before the client has given it.
Working ==
  /\ work # None /\ work.sock = sock["wire"]
  /\ work.req = call.req /\ work.kind = call.kind /\ call.got = <<>>
  /\ \A i \in 1..Len(inbox["wire"]) : inbox["wire"][i].kind = "ack"
  /\ \A i \in 1..Len(queue["wire"]) : queue["wire"][i].type = "button"
  /\ IF work.waiting
     THEN /\ call.kind = "confirm"
          /\ Len(queue["wire"]) + Len(inbox["wire"]) + (IF work.acked THEN 1 ELSE 0) <= 1
     ELSE Len(queue["wire"]) = 0 /\ Len(inbox["wire"]) = 0

\* Packets of the answer to request q in their order, with room for those that
\* were lost: none comes earlier than its place, nor later than the missing
\* ones allow.
Pieces(s, off, total, count, q, type) ==
  \A i \in 1..Len(s) :
    /\ s[i].req = q /\ s[i].type = type
    /\ off + i <= s[i].part /\ s[i].part + total <= count + off + i

Answered(p) ==
  /\ Elsewhere(p)
  /\ \E type \in {"answer", "failure", "state"} :
       LET total == Len(call.got) + Len(queue[p])
           count == PacketCount(size[call.req])
       IN /\ Pieces(call.got, 0, total, count, call.req, type)
          /\ Pieces(queue[p], Len(call.got), total, count, call.req, type)

FreshPort(p) ==
  IF On(p) THEN Asked(p) \/ (p = "wire" /\ Working) \/ Answered(p) ELSE Quiet(p)

FreshInv ==
  /\ call # None => call.fresh = ~stale[Port]
  /\ \A p \in Ports : ~stale[p] => FreshPort(p)

WireInv ==
  /\ Shape /\ MailsSound /\ PacketsSound /\ LooksInv /\ ChainInv /\ StartInv /\ FreshInv
  /\ AnswerBelongs /\ NeverMixed

-----------------------------------------------------------------------------
(***************************************************************************)
(* Types.                                                                  *)
(***************************************************************************)

\* What the types say of one port, and of the call and the work in progress.
LEMMA Typed ==
  ASSUME Shape
  PROVE  /\ \A p \in Ports : /\ queue[p] \in Seq(Packets)
                             /\ inbox[p] \in Seq(Mails \cup Presses)
                             /\ sock[p] \in 1..MaxSockets
         /\ call # None => /\ call \in Calls /\ call.req = sent /\ Port \in Ports
                           /\ call.got \in Seq(Packets) /\ call.kind \in Kinds
         /\ work # None => work \in Works
BY DEF Shape, WireTypeOK, Calls, Port, PortOf, Ports

\* What comes from the device is a sequence of packets.
LEMMA DeliveredTyped ==
  ASSUME Shape, NEW port \in Ports, NEW from, NEW packets \in Seq(Packets),
         Deliver(port, from, packets)
  PROVE  queue' \in [Ports -> Seq(Packets)]
<1>1. queue[port] \o packets \in Seq(Packets)
  BY Typed, Join
<1> QED
  BY <1>1 DEF Deliver, Shape, WireTypeOK

\* The packets of an answer.
LEMMA Answers ==
  ASSUME Shape, NEW q \in Requests, NEW type \in Types
  PROVE  /\ size[q] \in Nat /\ SizeOf(q, type) \in Nat
         /\ Frame(q, type, SizeOf(q, type)) \in Seq(Packets)
         /\ Len(Frame(q, type, SizeOf(q, type))) = PacketCount(SizeOf(q, type))
         /\ PacketCount(SizeOf(q, type)) \in Nat \ {0}
         /\ \A i \in 1..PacketCount(SizeOf(q, type)) :
              Frame(q, type, SizeOf(q, type))[i]
              = [req |-> q, type |-> type, part |-> i, size |-> SizeOf(q, type)]
<1>1. size[q] \in Nat /\ SizeOf(q, type) \in Nat
  BY WireAssumption DEF Shape, SizeOf
<1> QED
  BY <1>1, FramePackets

\* What is being received, with the next packet.
LEMMA GotTyped ==
  ASSUME Shape, call # None, queue[Port] # <<>>
  PROVE  /\ Port \in Ports /\ Head(queue[Port]) \in Packets /\ Head(queue[Port]) = queue[Port][1]
         /\ Got \in Seq(Packets) /\ Got # <<>>
         /\ Len(call.got) \in Nat /\ Len(Got) = Len(call.got) + 1
         /\ \A i \in 1..Len(call.got) : Got[i] = call.got[i]
         /\ Got[Len(call.got) + 1] = Head(queue[Port])
<1>1. Port \in Ports /\ queue[Port] \in Seq(Packets) /\ call.got \in Seq(Packets)
  BY Typed
<1>2. Head(queue[Port]) \in Packets /\ Head(queue[Port]) = queue[Port][1]
  BY <1>1, TakeOne
<1> QED
  BY <1>1, <1>2, PutOne DEF Got

\* A packet taken from the queue, with its one kind of change to the queue.
LEMMA TakenTyped ==
  ASSUME Shape, call # None, queue[Port] # <<>>,
         queue' = [queue EXCEPT ![Port] = Tail(@)]
  PROVE  queue' \in [Ports -> Seq(Packets)]
<1>1. Port \in Ports /\ queue[Port] \in Seq(Packets) /\ Tail(queue[Port]) \in Seq(Packets)
  BY Typed, TakeOne
<1> QED
  BY <1>1 DEF Shape, WireTypeOK

\* The call that is made.
LEMMA CallTyped ==
  ASSUME Shape, NEW kind \in Kinds, Call(kind)
  PROVE  /\ call' \in Calls /\ call' # None /\ Port' = PortOf(kind)
         /\ call'.kind = kind /\ call'.req = sent' /\ call'.got = <<>>
<1>1. sent' \in Requests
  BY WireAssumption DEF Call, Requests, Shape, WireTypeOK
<1>2. 0 \in 0..(MaxRounds - 1)
  BY WireAssumption
<1>3. <<>> \in Seq(Packets) /\ (~stale[PortOf(kind)]) \in BOOLEAN
  OBVIOUS
<1>4. call' \in Calls
  BY <1>1, <1>2, <1>3 DEF Call, Calls
<1> QED
  BY <1>4, WireAssumption DEF Call, Port

\* The call that goes on with what it received.
LEMMA CallKept ==
  ASSUME Shape, call # None, queue[Port] # <<>>, call' = [call EXCEPT !.got = Got]
  PROVE  /\ call' \in Calls /\ call' # None /\ Port' = Port
         /\ call'.got = Got /\ call'.kind = call.kind /\ call'.req = call.req
<1>1. call \in Calls /\ call' \in Calls
  BY Typed, GotTyped DEF Calls
<1> QED
  BY <1>1, WireAssumption DEF Calls, Port

\* A call that ends, and one that gives up.
LEMMA GiveUpTyped ==
  ASSUME Shape, call # None, GiveUp
  PROVE  call' = None /\ stale' \in [Ports -> BOOLEAN]
BY Typed DEF GiveUp, Return, Shape

\* One that took a further packet for a first one.
LEMMA MistakenTyped ==
  ASSUME Shape, call # None, queue[Port] # <<>>, Mistaken
  PROVE  /\ stale' \in [Ports -> BOOLEAN] /\ \A p \in Ports : stale[p] => stale'[p]
         /\ ~stale'[Port] => Got[1].part = 1
         /\ \A p \in Ports \ {Port} : stale'[p] = stale[p]
<1>1. Port \in Ports /\ (Got[1].part # 1) \in BOOLEAN
  BY Typed
<1>2. stale \in [Ports -> BOOLEAN] /\ stale' = [stale EXCEPT ![Port] = @ \/ Got[1].part # 1]
  BY DEF Shape, Mistaken
<1> QED
  BY <1>1, <1>2

LEMMA ShapeInit == WireInit => Shape
BY WireAssumption DEF WireInit, Shape, WireTypeOK, Ports

LEMMA ShapeStep == Shape /\ MailsSound /\ [WireNext]_wireVars => Shape'
<1> SUFFICES ASSUME Shape, MailsSound, [WireNext]_wireVars PROVE Shape'
  OBVIOUS
<1> USE DEF clientVars, deviceVars
<1>1. ASSUME NEW kind \in Kinds, Call(kind) PROVE Shape'
  <2>1. PortOf(kind) \in Ports
    BY DEF PortOf, Ports
  <2>2. sent' \in Requests /\ sent' \in 0..MaxRequests
    BY <1>1, WireAssumption DEF Call, Requests, Shape, WireTypeOK
  <2>3. call' \in Calls /\ call'.req = sent'
    BY <1>1, CallTyped
  <2>4. inbox' \in [Ports -> Seq(Mails \cup Presses)]
    <3> DEFINE m == [kind |-> kind, req |-> sent', sock |-> sock[PortOf(kind)]]
    <3>1. m \in Mails \cup Presses
      BY <2>1, <2>2, Typed DEF Mails
    <3> HIDE DEF m
    <3>2. Append(inbox[PortOf(kind)], m) \in Seq(Mails \cup Presses)
      BY <2>1, <3>1, Typed, PutOne
    <3>3. inbox' = [inbox EXCEPT ![PortOf(kind)] = Append(@, m)]
      BY <1>1 DEF Call, m
    <3> QED
      BY <2>1, <3>2, <3>3 DEF Shape
  <2>5. work # None => work.req <= sent'
    BY <1>1, Typed, WireAssumption DEF Shape, WireTypeOK, Call, Works, Requests
  <2> QED
    BY <1>1, <2>2, <2>3, <2>4, <2>5 DEF Call, Shape, WireTypeOK
<1>2. ASSUME ReceivePart PROVE Shape'
  <2>1. Got \in Seq(Packets) /\ call # None
    BY <1>2, GotTyped DEF ReceivePart, NextPacket
  <2>2. call' \in Calls /\ call'.req = sent'
    BY <1>2, <2>1, Typed DEF ReceivePart, Calls
  <2>3. queue' \in [Ports -> Seq(Packets)]
    BY <1>2, TakenTyped DEF ReceivePart, NextPacket
  <2> QED
    BY <1>2, <2>2, <2>3 DEF ReceivePart, Shape, WireTypeOK
<1>3. ASSUME RejectPacket PROVE Shape'
  BY <1>3, TakenTyped, GiveUpTyped DEF RejectPacket, Shape, WireTypeOK
<1>4. ASSUME ReceiveAnswer PROVE Shape'
  BY <1>4, TakenTyped, MistakenTyped DEF ReceiveAnswer, NextPacket, Return, Shape, WireTypeOK
<1>5. ASSUME UnexpectedType PROVE Shape'
  BY <1>5, TakenTyped, MistakenTyped DEF UnexpectedType, NextPacket, Return, Shape, WireTypeOK
<1>6. ASSUME Confirm PROVE Shape'
  <2>1. queue' \in [Ports -> Seq(Packets)] /\ call # None
    BY <1>6, TakenTyped DEF Confirm, NextPacket
  <2>2. inbox' \in [Ports -> Seq(Mails \cup Presses)]
    <3>1. /\ Append(inbox["wire"], [kind |-> "ack"]) \in Seq(Mails \cup Presses)
          /\ Append(inbox["link"], [kind |-> "press"]) \in Seq(Mails \cup Presses)
      <4>1. /\ [kind |-> "ack"] \in Mails \cup Presses
            /\ [kind |-> "press"] \in Mails \cup Presses
        BY DEF Presses
      <4>2. inbox["wire"] \in Seq(Mails \cup Presses) /\ inbox["link"] \in Seq(Mails \cup Presses)
        BY Typed DEF Ports
      <4> QED
        BY <4>1, <4>2, PutOne
    <3> QED
      BY <1>6, <3>1 DEF Confirm, AckAndPress, Ports, Shape
  <2>3. /\ call' \in Calls \cup {None} /\ (call' # None => call'.req = sent)
        /\ stale' \in [Ports -> BOOLEAN]
    <3>1. CASE call.rounds + 1 = MaxRounds
      BY <1>6, <2>1, <3>1, GiveUpTyped DEF Confirm
    <3>2. CASE call.rounds + 1 # MaxRounds
      <4>1. <<>> \in Seq(Packets) /\ call \in Calls /\ call.req = sent
        BY <2>1, Typed
      <4>2. call.rounds + 1 \in 0..(MaxRounds - 1)
        BY <3>2, <4>1, WireAssumption DEF Calls
      <4> QED
        BY <1>6, <3>2, <4>1, <4>2 DEF Confirm, NextRound, Calls, Shape
    <3> QED
      BY <3>1, <3>2
  <2> QED
    BY <1>6, <2>1, <2>2, <2>3 DEF Confirm, Shape, WireTypeOK
<1>7. ASSUME TimesOut PROVE Shape'
  BY <1>7, GiveUpTyped DEF TimesOut, Shape, WireTypeOK
<1>8. ASSUME SocketFails PROVE Shape'
  BY <1>8, GiveUpTyped DEF SocketFails, Shape, WireTypeOK
<1>9. ASSUME NEW port \in Ports, Connect(port) PROVE Shape'
  <2>1. sock' \in [Ports -> 1..MaxSockets] /\ queue' \in [Ports -> Seq(Packets)]
    BY <1>9, WireAssumption DEF Connect, Shape, WireTypeOK
  <2>2. stale' \in [Ports -> BOOLEAN] /\ lost' \in [Ports -> BOOLEAN]
    BY <1>9 DEF Connect, Shape
  <2> QED
    BY <1>9, <2>1, <2>2 DEF Connect, Shape, WireTypeOK
<1>10. ASSUME NEW port \in Ports, LosePacket(port) PROVE Shape'
  <2>1. PICK i \in DOMAIN queue[port] : queue' = [queue EXCEPT ![port] = RemoveAt(@, i)]
    BY <1>10 DEF LosePacket
  <2>2. RemoveAt(queue[port], i) \in Seq(Packets)
    BY Typed, RemoveOne
  <2>3. queue' \in [Ports -> Seq(Packets)] /\ lost' \in [Ports -> BOOLEAN]
    BY <1>10, <2>1, <2>2 DEF LosePacket, Shape, WireTypeOK
  <2> QED
    BY <1>10, <2>3 DEF LosePacket, Shape, WireTypeOK
<1>11. ASSUME NEW port \in Ports, LoseRequest(port) PROVE Shape'
  <2>1. PICK i \in DOMAIN inbox[port] : inbox' = [inbox EXCEPT ![port] = RemoveAt(@, i)]
    BY <1>11 DEF LoseRequest
  <2>2. RemoveAt(inbox[port], i) \in Seq(Mails \cup Presses)
    BY Typed, RemoveOne
  <2>3. inbox' \in [Ports -> Seq(Mails \cup Presses)]
    BY <2>1, <2>2 DEF Shape
  <2> QED
    BY <1>11, <2>3 DEF LoseRequest, Shape, WireTypeOK
<1>12. ASSUME TakeWire PROVE Shape'
  <2>1. Tail(inbox["wire"]) \in Seq(Mails \cup Presses) /\ inbox["wire"] \in Seq(Mails \cup Presses)
    BY <1>12, Typed, TakeOne DEF TakeWire, Ports
  <2>2. inbox' \in [Ports -> Seq(Mails \cup Presses)]
    BY <1>12, <2>1 DEF TakeWire, Shape, Ports
  <2>3. MailOK("wire", Head(inbox["wire"]), sent, sock["wire"])
    <3>1. Head(inbox["wire"]) = inbox["wire"][1] /\ 1 \in 1..Len(inbox["wire"])
      BY <1>12, <2>1, TakeOne DEF TakeWire
    <3> QED
      BY <3>1 DEF MailsSound, Ports
  <2>4. work' \in Works \cup {None} /\ (work' # None => work'.req <= sent)
    <3>1. CASE Head(inbox["wire"]).kind = "ack"
      BY <1>12, <3>1 DEF TakeWire, Shape, WireTypeOK, Works
    <3>2. CASE Head(inbox["wire"]).kind # "ack"
      <4>1. Head(inbox["wire"]) \in Mails /\ Head(inbox["wire"]).req <= sent
        BY <2>3, <3>2 DEF MailOK
      <4> QED
        BY <1>12, <3>2, <4>1 DEF TakeWire, Mails, Works
    <3> QED
      BY <3>1, <3>2
  <2> QED
    BY <1>12, <2>2, <2>4 DEF TakeWire, Shape, WireTypeOK
<1>13. ASSUME TakeLink PROVE Shape'
  <2>1. Tail(inbox["link"]) \in Seq(Mails \cup Presses) /\ inbox["link"] \in Seq(Mails \cup Presses)
    BY <1>13, Typed, TakeOne DEF TakeLink, Ports
  <2>2. inbox' \in [Ports -> Seq(Mails \cup Presses)]
    BY <1>13, <2>1 DEF TakeLink, Shape, Ports
  <2>3. MailOK("link", Head(inbox["link"]), sent, sock["link"])
    <3>1. Head(inbox["link"]) = inbox["link"][1] /\ 1 \in 1..Len(inbox["link"])
      BY <1>13, <2>1, TakeOne DEF TakeLink
    <3> QED
      BY <3>1 DEF MailsSound, Ports
  <2>4. CASE Head(inbox["link"]).kind = "press"
    <3>1. work' \in Works \cup {None} /\ (work' # None => work'.req <= sent)
      BY <1>13, <2>4 DEF TakeLink, Shape, WireTypeOK, Works
    <3> QED
      BY <1>13, <2>2, <2>4, <3>1 DEF TakeLink, Shape, WireTypeOK
  <2>5. CASE Head(inbox["link"]).kind # "press"
    <3>1. Head(inbox["link"]).req \in Requests
      BY <2>3, <2>5 DEF MailOK, Mails
    <3>2. PICK type \in {"state", "failure"} :
            Deliver("link", Head(inbox["link"]).sock,
                    Frame(Head(inbox["link"]).req, type, size[Head(inbox["link"]).req]))
      BY <1>13, <2>5 DEF TakeLink
    <3>3. Frame(Head(inbox["link"]).req, type, size[Head(inbox["link"]).req]) \in Seq(Packets)
      BY <3>1, Answers DEF SizeOf, Types
    <3>4. queue' \in [Ports -> Seq(Packets)]
      BY <3>2, <3>3, DeliveredTyped DEF Ports
    <3> QED
      BY <1>13, <2>2, <2>5, <3>4 DEF TakeLink, Shape, WireTypeOK
  <2> QED
    BY <2>4, <2>5
<1>14. ASSUME AskButton PROVE Shape'
  <2>1. work \in Works /\ work.req \in Requests
    BY <1>14, Typed DEF AskButton, Works
  <2>2. Frame(work.req, "button", 0) \in Seq(Packets)
    BY <2>1, Answers DEF SizeOf, Types
  <2>3. queue' \in [Ports -> Seq(Packets)]
    BY <1>14, <2>2, DeliveredTyped DEF AskButton, Ports
  <2>4. work' \in Works /\ work'.req = work.req
    BY <1>14, <2>1 DEF AskButton, Works
  <2> QED
    BY <1>14, <2>3, <2>4 DEF AskButton, Shape, WireTypeOK
<1>15. ASSUME Confirmed PROVE Shape'
  <2>1. work \in Works
    BY <1>15, Typed DEF Confirmed
  <2>2. work' \in Works /\ work'.req = work.req
    BY <1>15, <2>1 DEF Confirmed, Works
  <2> QED
    BY <1>15, <2>2 DEF Confirmed, Shape, WireTypeOK
<1>16. ASSUME Finish PROVE Shape'
  <2>1. work.req \in Requests
    BY <1>16, Typed DEF Finish, Works
  <2>2. PICK type \in {"answer", "failure"} :
          Deliver("wire", work.sock, Frame(work.req, type, size[work.req]))
    BY <1>16 DEF Finish
  <2>3. Frame(work.req, type, size[work.req]) \in Seq(Packets)
    BY <2>1, Answers DEF SizeOf, Types
  <2>4. queue' \in [Ports -> Seq(Packets)]
    BY <2>2, <2>3, DeliveredTyped DEF Ports
  <2> QED
    BY <1>16, <2>4 DEF Finish, Shape, WireTypeOK
<1>17. CASE UNCHANGED wireVars
  BY <1>17 DEF wireVars, Shape, WireTypeOK
<1> QED
  BY <1>1, <1>2, <1>3, <1>4, <1>5, <1>6, <1>7, <1>8, <1>9, <1>10, <1>11, <1>12, <1>13, <1>14,
     <1>15, <1>16, <1>17 DEF WireNext, Client, Emulator

-----------------------------------------------------------------------------
(***************************************************************************)
(* What waits at the ports of the emulator.                                *)
(***************************************************************************)

\* A datagram taken from a port leaves the others, and none is made from it.
LEMMA InboxTail ==
  ASSUME Shape, NEW port \in Ports, inbox[port] # <<>>,
         inbox' = [inbox EXCEPT ![port] = Tail(@)]
  PROVE  /\ \A p \in Ports \ {port} : inbox'[p] = inbox[p]
         /\ Len(inbox[port]) \in Nat \ {0} /\ Len(inbox'[port]) = Len(inbox[port]) - 1
         /\ \A i \in 1..Len(inbox'[port]) :
              inbox'[port][i] = inbox[port][i + 1] /\ i + 1 \in 1..Len(inbox[port])
         /\ Head(inbox[port]) = inbox[port][1] /\ 1 \in 1..Len(inbox[port])
<1>1. inbox[port] \in Seq(Mails \cup Presses)
  BY Typed
<1> DEFINE rest == Tail(inbox[port])
<1>2. inbox'[port] = rest /\ \A p \in Ports \ {port} : inbox'[p] = inbox[p]
  BY DEF Shape
<1>3. /\ Head(inbox[port]) = inbox[port][1] /\ Len(inbox[port]) \in Nat \ {0}
      /\ Len(rest) = Len(inbox[port]) - 1
      /\ \A i \in 1..(Len(inbox[port]) - 1) :
           rest[i] = inbox[port][i + 1] /\ i + 1 \in 1..Len(inbox[port])
  BY <1>1, TakeOne
<1> HIDE DEF rest
<1> QED
  BY <1>2, <1>3

\* So does one that is lost.
LEMMA InboxLoses ==
  ASSUME Shape, NEW port \in Ports, LoseRequest(port)
  PROVE  \E k \in 1..Len(inbox[port]) :
         /\ \A p \in Ports \ {port} : inbox'[p] = inbox[p]
         /\ Len(inbox[port]) \in Nat \ {0} /\ Len(inbox'[port]) = Len(inbox[port]) - 1
         /\ \A i \in 1..Len(inbox'[port]) :
              inbox'[port][i] = IF i < k THEN inbox[port][i] ELSE inbox[port][i + 1]
<1>1. PICK k \in DOMAIN inbox[port] : inbox' = [inbox EXCEPT ![port] = RemoveAt(@, k)]
  BY DEF LoseRequest
<1>2. inbox[port] \in Seq(Mails \cup Presses)
  BY Typed
<1>3. inbox'[port] = RemoveAt(inbox[port], k) /\ \A p \in Ports \ {port} : inbox'[p] = inbox[p]
  BY <1>1 DEF Shape
<1>4. /\ Len(RemoveAt(inbox[port], k)) = Len(inbox[port]) - 1
      /\ Len(inbox[port]) \in Nat \ {0} /\ k \in 1..Len(inbox[port])
      /\ \A j \in 1..(Len(inbox[port]) - 1) :
           RemoveAt(inbox[port], k)[j] = IF j < k THEN inbox[port][j] ELSE inbox[port][j + 1]
  BY <1>2, RemoveOne
<1> QED
  BY <1>3, <1>4

\* One that arrives comes last.
LEMMA InboxGains ==
  ASSUME Shape, NEW port \in Ports, NEW m \in Mails \cup Presses,
         inbox'[port] = Append(inbox[port], m)
  PROVE  /\ Len(inbox[port]) \in Nat /\ Len(inbox'[port]) = Len(inbox[port]) + 1
         /\ inbox'[port] # <<>>
         /\ \A i \in 1..Len(inbox[port]) : inbox'[port][i] = inbox[port][i]
         /\ inbox'[port][Len(inbox[port]) + 1] = m
BY Typed, PutOne

\* What a call sends.
LEMMA CallSends ==
  ASSUME Shape, NEW kind \in Kinds, Call(kind)
  PROVE  LET m == [kind |-> kind, req |-> sent', sock |-> sock[PortOf(kind)]]
         IN /\ m \in Mails /\ PortOf(kind) \in Ports
            /\ sent' = sent + 1 /\ sent \in Nat
            /\ inbox'[PortOf(kind)] = Append(inbox[PortOf(kind)], m)
            /\ \A p \in Ports \ {PortOf(kind)} : inbox'[p] = inbox[p]
<1>1. PortOf(kind) \in Ports
  BY DEF PortOf, Ports
<1>2. sent' \in Requests /\ sent' = sent + 1 /\ sent \in Nat
  BY WireAssumption DEF Call, Requests, Shape, WireTypeOK
<1> QED
  BY <1>1, <1>2, Typed DEF Call, Mails, Shape

\* A confirmation goes to both ports.
LEMMA ConfirmSends ==
  ASSUME Shape, AckAndPress
  PROVE  /\ [kind |-> "ack"] \in Presses /\ [kind |-> "press"] \in Presses
         /\ inbox'["wire"] = Append(inbox["wire"], [kind |-> "ack"])
         /\ inbox'["link"] = Append(inbox["link"], [kind |-> "press"])
BY DEF AckAndPress, Shape, Ports, Presses

\* Mail stays sound as more requests are made and more sockets opened.
LEMMA MailsKept ==
  ASSUME Shape, Shape', MailsSound, sent <= sent', \A p \in Ports : sock[p] <= sock'[p],
         \A p \in Ports : \A i \in 1..Len(inbox'[p]) :
           \/ \E j \in 1..Len(inbox[p]) : inbox'[p][i] = inbox[p][j]
           \/ MailOK(p, inbox'[p][i], sent', sock'[p])
  PROVE  (\A p \in Ports : \A i \in 1..Len(inbox[p]) : MailOK(p, inbox[p][i], sent, sock[p]))'
<1> SUFFICES ASSUME NEW p \in Ports, NEW i \in 1..Len(inbox'[p]),
                    NEW j \in 1..Len(inbox[p]), inbox'[p][i] = inbox[p][j]
             PROVE  MailOK(p, inbox'[p][i], sent', sock'[p])
  OBVIOUS
<1>1. MailOK(p, inbox[p][j], sent, sock[p])
  BY DEF MailsSound
<1>2. \A a, b, c \in Nat : a <= b /\ b <= c => a <= c
  OBVIOUS
<1>3. sent \in Nat /\ sent' \in Nat /\ sock[p] \in Nat /\ sock'[p] \in Nat
  BY WireAssumption DEF Shape, WireTypeOK
<1>4. ASSUME inbox[p][j] \in Mails
      PROVE  inbox[p][j].req \in Nat /\ inbox[p][j].sock \in Nat
  BY <1>4, WireAssumption DEF Mails, Requests
<1> QED
  BY <1>1, <1>2, <1>3, <1>4 DEF MailOK

LEMMA MailsInit == WireInit => MailsSound
BY DEF WireInit, MailsSound

LEMMA MailsStep == Shape /\ Shape' /\ MailsSound /\ [WireNext]_wireVars => MailsSound'
<1> SUFFICES ASSUME Shape, Shape', MailsSound, [WireNext]_wireVars PROVE MailsSound'
  OBVIOUS
<1> USE DEF clientVars, deviceVars
<1>1. ASSUME UNCHANGED <<sent, sock, inbox, work>> PROVE MailsSound'
  BY <1>1 DEF MailsSound, MailOK
<1>2. sent \in Nat /\ \A p \in Ports : sock[p] \in Nat
  BY WireAssumption DEF Shape, WireTypeOK
<1>3. ASSUME NEW kind \in Kinds, Call(kind) PROVE MailsSound'
  <2> DEFINE port == PortOf(kind)
             m == [kind |-> kind, req |-> sent', sock |-> sock[port]]
  <2>1. /\ m \in Mails /\ port \in Ports /\ sent' = sent + 1
        /\ inbox'[port] = Append(inbox[port], m)
        /\ \A p \in Ports \ {port} : inbox'[p] = inbox[p]
    BY <1>3, CallSends
  <2>2. MailOK(port, m, sent', sock'[port])
    BY <1>2, <1>3, <2>1 DEF MailOK, Call
  <2> HIDE DEF m, port
  <2>3. /\ Len(inbox[port]) \in Nat /\ Len(inbox'[port]) = Len(inbox[port]) + 1
        /\ \A i \in 1..Len(inbox[port]) : inbox'[port][i] = inbox[port][i]
        /\ inbox'[port][Len(inbox[port]) + 1] = m
    BY <2>1, InboxGains
  <2>4. ASSUME NEW p \in Ports, NEW i \in 1..Len(inbox'[p])
        PROVE  (\E j \in 1..Len(inbox[p]) : inbox'[p][i] = inbox[p][j]) \/ MailOK(p, inbox'[p][i], sent', sock'[p])
    <3>1. CASE p # port
      BY <2>1, <2>4, <3>1
    <3>2. CASE p = port
      <4>1. i \in 1..Len(inbox[port]) \/ i = Len(inbox[port]) + 1
        BY <2>3, <2>4, <3>2
      <4> QED
        BY <2>2, <2>3, <3>2, <4>1
    <3> QED
      BY <3>1, <3>2
  <2>5. sent <= sent' /\ (\A p \in Ports : sock[p] <= sock'[p]) /\ UNCHANGED <<work, sock>>
    BY <1>2, <1>3, <2>1 DEF Call
  <2> QED
    BY <2>4, <2>5, MailsKept DEF MailsSound
<1>4. ASSUME Confirm PROVE MailsSound'
  <2>1. /\ [kind |-> "ack"] \in Presses /\ [kind |-> "press"] \in Presses
        /\ inbox'["wire"] = Append(inbox["wire"], [kind |-> "ack"])
        /\ inbox'["link"] = Append(inbox["link"], [kind |-> "press"])
    BY <1>4, ConfirmSends DEF Confirm
  <2>2. ASSUME NEW p \in Ports, NEW i \in 1..Len(inbox'[p])
        PROVE  (\E j \in 1..Len(inbox[p]) : inbox'[p][i] = inbox[p][j]) \/ MailOK(p, inbox'[p][i], sent', sock'[p])
    <3> DEFINE m == [kind |-> IF p = "wire" THEN "ack" ELSE "press"]
    <3>1. m \in Mails \cup Presses /\ inbox'[p] = Append(inbox[p], m)
      BY <2>1 DEF Ports
    <3>2. MailOK(p, m, sent', sock'[p])
      BY DEF MailOK
    <3> HIDE DEF m
    <3>3. /\ Len(inbox[p]) \in Nat /\ Len(inbox'[p]) = Len(inbox[p]) + 1
          /\ \A k \in 1..Len(inbox[p]) : inbox'[p][k] = inbox[p][k]
          /\ inbox'[p][Len(inbox[p]) + 1] = m
      BY <3>1, InboxGains
    <3>4. i \in 1..Len(inbox[p]) \/ i = Len(inbox[p]) + 1
      BY <2>2, <3>3
    <3> QED
      BY <3>2, <3>3, <3>4
  <2>3. sent <= sent' /\ (\A p \in Ports : sock[p] <= sock'[p]) /\ UNCHANGED <<work, sock>>
    BY <1>2, <1>4 DEF Confirm
  <2> QED
    BY <2>2, <2>3, MailsKept DEF MailsSound
<1>5. ASSUME NEW port \in Ports, Connect(port) PROVE MailsSound'
  <2>1. sent <= sent' /\ (\A p \in Ports : sock[p] <= sock'[p]) /\ UNCHANGED <<work, inbox>>
    BY <1>2, <1>5 DEF Connect, Shape, WireTypeOK
  <2>2. \A p \in Ports : \A i \in 1..Len(inbox'[p]) :
          \E j \in 1..Len(inbox[p]) : inbox'[p][i] = inbox[p][j]
    BY <2>1
  <2>3. work # None => work.sock <= sock'["wire"]
    <3> SUFFICES ASSUME work # None PROVE work.sock <= sock'["wire"]
      OBVIOUS
    <3>1. work.sock \in Nat /\ sock["wire"] \in Nat /\ sock'["wire"] \in Nat
      BY Typed, WireAssumption, SMTT(30) DEF Works, Ports, Shape, WireTypeOK
    <3> QED
      BY <2>1, <3>1 DEF MailsSound, Ports
  <2> QED
    BY <2>1, <2>2, <2>3, MailsKept DEF MailsSound
<1>6. ASSUME NEW port \in Ports, LoseRequest(port) PROVE MailsSound'
  <2>1. PICK k \in 1..Len(inbox[port]) :
          /\ \A p \in Ports \ {port} : inbox'[p] = inbox[p]
          /\ Len(inbox[port]) \in Nat \ {0} /\ Len(inbox'[port]) = Len(inbox[port]) - 1
          /\ \A i \in 1..Len(inbox'[port]) :
               inbox'[port][i] = IF i < k THEN inbox[port][i] ELSE inbox[port][i + 1]
    BY <1>6, InboxLoses
  <2>2. ASSUME NEW p \in Ports, NEW i \in 1..Len(inbox'[p])
        PROVE  \E j \in 1..Len(inbox[p]) : inbox'[p][i] = inbox[p][j]
    <3>1. CASE p # port
      BY <2>1, <2>2, <3>1
    <3>2. CASE p = port
      <4>1. i \in 1..Len(inbox[port]) /\ i + 1 \in 1..Len(inbox[port])
        BY <2>1, <2>2, <3>2
      <4> QED
        BY <2>1, <2>2, <3>2, <4>1
    <3> QED
      BY <3>1, <3>2
  <2>3. sent <= sent' /\ (\A p \in Ports : sock[p] <= sock'[p]) /\ UNCHANGED <<work, sock>>
    BY <1>2, <1>6 DEF LoseRequest
  <2> QED
    BY <2>2, <2>3, MailsKept DEF MailsSound
<1>7. ASSUME NEW port \in Ports, inbox[port] # <<>>, inbox' = [inbox EXCEPT ![port] = Tail(@)],
             UNCHANGED <<sent, sock>>
      PROVE  (\A p \in Ports : \A i \in 1..Len(inbox[p]) : MailOK(p, inbox[p][i], sent, sock[p]))'
  <2>1. /\ \A p \in Ports \ {port} : inbox'[p] = inbox[p]
        /\ \A i \in 1..Len(inbox'[port]) :
             inbox'[port][i] = inbox[port][i + 1] /\ i + 1 \in 1..Len(inbox[port])
    BY <1>7, InboxTail
  <2>2. sent <= sent' /\ \A p \in Ports : sock[p] <= sock'[p]
    BY <1>2, <1>7
  <2>3. \A p \in Ports : \A i \in 1..Len(inbox'[p]) :
          \E j \in 1..Len(inbox[p]) : inbox'[p][i] = inbox[p][j]
    BY <2>1
  <2> QED
    BY <2>2, <2>3, MailsKept
<1>8. ASSUME TakeWire PROVE MailsSound'
  <2>1. MailOK("wire", Head(inbox["wire"]), sent, sock["wire"])
    BY <1>8, InboxTail DEF TakeWire, MailsSound, Ports
  <2>2. (work # None => work.sock <= sock["wire"] /\ work.kind # "layout")'
    <3>1. CASE Head(inbox["wire"]).kind = "ack"
      BY <1>8, <3>1 DEF TakeWire, MailsSound, Shape, WireTypeOK, Works
    <3>2. CASE Head(inbox["wire"]).kind # "ack"
      BY <1>8, <2>1, <3>2 DEF TakeWire, MailOK, PortOf
    <3> QED
      BY <3>1, <3>2
  <2>3. (\A p \in Ports : \A i \in 1..Len(inbox[p]) : MailOK(p, inbox[p][i], sent, sock[p]))'
    BY <1>7, <1>8 DEF TakeWire, Ports
  <2> QED
    BY <2>2, <2>3 DEF MailsSound
<1>9. ASSUME TakeLink PROVE MailsSound'
  <2>1. (work # None => work.sock <= sock["wire"] /\ work.kind # "layout")'
    <3>1. work' = work \/ (work \in Works /\ work' = [work EXCEPT !.pressed = TRUE])
      BY <1>9, Typed DEF TakeLink
    <3> QED
      BY <1>9, <3>1 DEF TakeLink, MailsSound, Works
  <2>2. (\A p \in Ports : \A i \in 1..Len(inbox[p]) : MailOK(p, inbox[p][i], sent, sock[p]))'
    BY <1>7, <1>9 DEF TakeLink, Ports
  <2> QED
    BY <2>1, <2>2 DEF MailsSound
<1>10. ASSUME AskButton \/ Confirmed \/ Finish PROVE MailsSound'
  <2>1. (\A p \in Ports : \A i \in 1..Len(inbox[p]) : MailOK(p, inbox[p][i], sent, sock[p]))'
    <3>1. UNCHANGED <<inbox, sent, sock>>
      BY <1>10 DEF AskButton, Confirmed, Finish
    <3> QED
      BY <3>1 DEF MailsSound, MailOK
  <2>2. (work # None => work.sock <= sock["wire"] /\ work.kind # "layout")'
    BY <1>10 DEF AskButton, Confirmed, Finish, MailsSound, Shape, WireTypeOK, Works
  <2> QED
    BY <2>1, <2>2 DEF MailsSound
<1>11. ASSUME ReceivePart \/ RejectPacket \/ ReceiveAnswer \/ UnexpectedType \/ TimesOut
              \/ SocketFails \/ (\E port \in Ports : LosePacket(port)) \/ UNCHANGED wireVars
       PROVE  UNCHANGED <<sent, sock, inbox, work>>
  BY <1>11 DEF ReceivePart, RejectPacket, ReceiveAnswer, UnexpectedType, TimesOut, SocketFails,
               LosePacket, wireVars
<1> QED
  BY <1>1, <1>3, <1>4, <1>5, <1>6, <1>8, <1>9, <1>10, <1>11 DEF WireNext, Client, Emulator

-----------------------------------------------------------------------------
(***************************************************************************)
(* What waits in the sockets.                                              *)
(***************************************************************************)

\* A packet that is taken leaves the others.
LEMMA QueueTaken ==
  ASSUME Shape, call # None, queue[Port] # <<>>, queue' = [queue EXCEPT ![Port] = Tail(@)]
  PROVE  /\ Port \in Ports /\ \A p \in Ports \ {Port} : queue'[p] = queue[p]
         /\ Len(queue[Port]) \in Nat \ {0} /\ Len(queue'[Port]) = Len(queue[Port]) - 1
         /\ \A i \in 1..Len(queue'[Port]) :
              queue'[Port][i] = queue[Port][i + 1] /\ i + 1 \in 1..Len(queue[Port])
         /\ Head(queue[Port]) = queue[Port][1] /\ 1 \in 1..Len(queue[Port])
<1> DEFINE rest == Tail(queue[Port])
<1>1. Port \in Ports /\ queue[Port] \in Seq(Packets)
  BY Typed
<1>2. queue'[Port] = rest /\ \A p \in Ports \ {Port} : queue'[p] = queue[p]
  BY <1>1 DEF Shape, WireTypeOK
<1>3. /\ Head(queue[Port]) = queue[Port][1] /\ Len(queue[Port]) \in Nat \ {0}
      /\ Len(rest) = Len(queue[Port]) - 1
      /\ \A i \in 1..(Len(queue[Port]) - 1) :
           rest[i] = queue[Port][i + 1] /\ i + 1 \in 1..Len(queue[Port])
  BY <1>1, TakeOne
<1> HIDE DEF rest
<1> QED
  BY <1>1, <1>2, <1>3

\* So does one that is lost.
LEMMA QueueLoses ==
  ASSUME Shape, NEW port \in Ports, LosePacket(port)
  PROVE  \E k \in 1..Len(queue[port]) :
         /\ \A p \in Ports \ {port} : queue'[p] = queue[p]
         /\ Len(queue[port]) \in Nat \ {0} /\ Len(queue'[port]) = Len(queue[port]) - 1
         /\ \A i \in 1..Len(queue'[port]) :
              queue'[port][i] = IF i < k THEN queue[port][i] ELSE queue[port][i + 1]
<1>1. PICK k \in DOMAIN queue[port] : queue' = [queue EXCEPT ![port] = RemoveAt(@, k)]
  BY DEF LosePacket
<1>2. queue[port] \in Seq(Packets)
  BY Typed
<1>3. queue'[port] = RemoveAt(queue[port], k) /\ \A p \in Ports \ {port} : queue'[p] = queue[p]
  BY <1>1 DEF Shape, WireTypeOK
<1>4. /\ Len(RemoveAt(queue[port], k)) = Len(queue[port]) - 1
      /\ Len(queue[port]) \in Nat \ {0} /\ k \in 1..Len(queue[port])
      /\ \A j \in 1..(Len(queue[port]) - 1) :
           RemoveAt(queue[port], k)[j] = IF j < k THEN queue[port][j] ELSE queue[port][j + 1]
  BY <1>2, RemoveOne
<1> QED
  BY <1>3, <1>4

\* What the device sends comes behind the others, or nowhere.
LEMMA QueueJoined ==
  ASSUME Shape, NEW port \in Ports, NEW from, NEW q \in Requests,
         NEW type \in Types,
         Deliver(port, from, Frame(q, type, SizeOf(q, type)))
  PROVE  /\ \A p \in Ports \ {port} : queue'[p] = queue[p]
         /\ from # sock[port] => queue' = queue
         /\ from = sock[port] =>
              /\ Len(queue[port]) \in Nat
              /\ SizeOf(q, type) \in Nat /\ PacketCount(SizeOf(q, type)) \in Nat \ {0}
              /\ Len(queue'[port]) = Len(queue[port]) + PacketCount(SizeOf(q, type))
              /\ \A i \in 1..Len(queue[port]) : queue'[port][i] = queue[port][i]
              /\ \A i \in 1..PacketCount(SizeOf(q, type)) :
                   queue'[port][Len(queue[port]) + i]
                   = [req |-> q, type |-> type, part |-> i, size |-> SizeOf(q, type)]
<1>1. /\ Frame(q, type, SizeOf(q, type)) \in Seq(Packets) /\ SizeOf(q, type) \in Nat
      /\ Len(Frame(q, type, SizeOf(q, type))) = PacketCount(SizeOf(q, type))
      /\ PacketCount(SizeOf(q, type)) \in Nat \ {0}
      /\ \A i \in 1..PacketCount(SizeOf(q, type)) :
           Frame(q, type, SizeOf(q, type))[i]
           = [req |-> q, type |-> type, part |-> i, size |-> SizeOf(q, type)]
  BY Answers
<1> DEFINE f == Frame(q, type, SizeOf(q, type))
<1>2. CASE from = sock[port]
  <2>1. f \in Seq(Packets) /\ queue[port] \in Seq(Packets)
    BY <1>1, Typed
  <2>2. queue' = [queue EXCEPT ![port] = @ \o f]
    BY <1>2 DEF Deliver
  <2> HIDE DEF f
  <2>3. queue'[port] = queue[port] \o f /\ \A p \in Ports \ {port} : queue'[p] = queue[p]
    BY <2>2 DEF Shape, WireTypeOK
  <2>4. /\ Len(queue[port]) \in Nat /\ Len(queue[port] \o f) = Len(queue[port]) + Len(f)
        /\ \A i \in 1..Len(queue[port]) : (queue[port] \o f)[i] = queue[port][i]
        /\ \A i \in 1..Len(f) : (queue[port] \o f)[Len(queue[port]) + i] = f[i]
    BY <2>1, Join
  <2> QED
    BY <1>1, <1>2, <2>3, <2>4 DEF f
<1>3. CASE from # sock[port]
  BY <1>3 DEF Deliver
<1> QED
  BY <1>2, <1>3

\* Each of the device's messages answers a request that was made.
LEMMA DeviceSends ==
  ASSUME Shape, MailsSound, TakeLink \/ AskButton \/ Finish
  PROVE  \/ UNCHANGED queue
         \/ \E port \in Ports, from \in Nat, q \in Requests,
               type \in Types :
              q <= sent /\ Deliver(port, from, Frame(q, type, SizeOf(q, type)))
<1>1. work # None => work.req \in Requests /\ work.req <= sent /\ work.sock \in Nat
  BY Typed, WireAssumption DEF Works, Shape, WireTypeOK
<1>2. CASE AskButton
  <2>1. Deliver("wire", work.sock, Frame(work.req, "button", SizeOf(work.req, "button")))
    BY <1>2 DEF AskButton, SizeOf
  <2> QED
    BY <1>1, <1>2, <2>1 DEF AskButton, Ports, Types
<1>3. CASE Finish
  <2>1. PICK type \in {"answer", "failure"} :
          Deliver("wire", work.sock, Frame(work.req, type, SizeOf(work.req, type)))
    BY <1>3 DEF Finish, SizeOf
  <2> QED
    BY <1>1, <1>3, <2>1 DEF Finish, Ports, Types
<1>4. CASE TakeLink
  <2> DEFINE m == Head(inbox["link"])
  <2>1. CASE m.kind = "press"
    BY <1>4, <2>1 DEF TakeLink
  <2>2. CASE m.kind # "press"
    <3>1. PICK type \in {"state", "failure"} :
            Deliver("link", m.sock, Frame(m.req, type, SizeOf(m.req, type)))
      BY <1>4, <2>2 DEF TakeLink, SizeOf
    <3>2. inbox["link"] # <<>> /\ inbox' = [inbox EXCEPT !["link"] = Tail(@)]
      BY <1>4 DEF TakeLink
    <3>3. Head(inbox["link"]) = inbox["link"][1] /\ 1 \in 1..Len(inbox["link"])
      BY <3>2, InboxTail DEF Ports
    <3>4. MailOK("link", m, sent, sock["link"])
      BY <3>3 DEF MailsSound, Ports
    <3>5. m.req \in Requests /\ m.req <= sent /\ m.sock \in Nat
      BY <2>2, <3>4 DEF MailOK, Mails
    <3> QED
      BY <3>1, <3>5 DEF Ports, Types
  <2> QED
    BY <2>1, <2>2
<1> QED
  BY <1>2, <1>3, <1>4

\* Packets that were sound stay so, waiting or received.
LEMMA PacketsKept ==
  ASSUME Shape, Shape', PacketsSound, UNCHANGED size, sent <= sent',
         \A p \in Ports : \A i \in 1..Len(queue'[p]) :
           \/ \E j \in 1..Len(queue[p]) : queue'[p][i] = queue[p][j]
           \/ Sound(queue'[p][i], sent'),
         call' # None =>
           \A i \in 1..Len(call'.got) :
             \/ \E p \in Ports : \E j \in 1..Len(queue[p]) : call'.got[i] = queue[p][j]
             \/ call # None /\ \E j \in 1..Len(call.got) : call'.got[i] = call.got[j]
  PROVE  PacketsSound'
<1>1. \A a, b, c \in Nat : a <= b /\ b <= c => a <= c
  OBVIOUS
<1>2. sent \in Nat /\ sent' \in Nat
  BY WireAssumption DEF Shape, WireTypeOK
<1>3. ASSUME NEW x, x.req \in Nat, Sound(x, sent) PROVE Sound(x, sent')
  BY <1>1, <1>2, <1>3 DEF Sound
<1>4. ASSUME NEW p \in Ports, NEW j \in 1..Len(queue[p]) PROVE Sound(queue[p][j], sent')
  <2>1. queue[p][j] \in Packets
    BY Typed, ElementOfSeq
  <2>2. queue[p][j].req \in Nat
    BY <2>1 DEF Packets, Requests
  <2> QED
    BY <1>3, <2>2 DEF PacketsSound
<1>5. ASSUME call # None, NEW j \in 1..Len(call.got) PROVE Sound(call.got[j], sent')
  <2>1. call.got[j] \in Packets
    BY <1>5, Typed, ElementOfSeq
  <2>2. call.got[j].req \in Nat
    BY <2>1 DEF Packets, Requests
  <2> QED
    BY <1>3, <1>5, <2>2 DEF PacketsSound
<1>6. \A p \in Ports : \A i \in 1..Len(queue'[p]) : Sound(queue'[p][i], sent')
  BY <1>4
<1>7. call' # None => \A i \in 1..Len(call'.got) : Sound(call'.got[i], sent')
  BY <1>4, <1>5
<1> QED
  BY <1>6, <1>7 DEF PacketsSound, Sound, SizeOf

LEMMA PacketsInit == WireInit => PacketsSound
BY DEF WireInit, PacketsSound

LEMMA PacketsStep ==
  Shape /\ Shape' /\ MailsSound /\ PacketsSound /\ [WireNext]_wireVars => PacketsSound'
<1> SUFFICES ASSUME Shape, Shape', MailsSound, PacketsSound, [WireNext]_wireVars
             PROVE  PacketsSound'
  OBVIOUS
<1> USE DEF clientVars, deviceVars
<1>1. sent \in Nat
  BY WireAssumption DEF Shape, WireTypeOK
<1>2. ASSUME queue' = queue, UNCHANGED size, sent <= sent',
             call' = call \/ call' = None \/ call'.got = <<>>
      PROVE  PacketsSound'
  BY <1>2, PacketsKept
<1>3. ASSUME call # None, queue[Port] # <<>>, queue' = [queue EXCEPT ![Port] = Tail(@)],
             UNCHANGED <<size, sent>>, call' = None \/ call'.got = <<>> \/ call'.got = Got
      PROVE  PacketsSound'
  <2>1. /\ Port \in Ports /\ \A p \in Ports \ {Port} : queue'[p] = queue[p]
        /\ \A i \in 1..Len(queue'[Port]) :
             queue'[Port][i] = queue[Port][i + 1] /\ i + 1 \in 1..Len(queue[Port])
        /\ Head(queue[Port]) = queue[Port][1] /\ 1 \in 1..Len(queue[Port])
    BY <1>3, QueueTaken
  <2>2. \A p \in Ports : \A i \in 1..Len(queue'[p]) :
          \E j \in 1..Len(queue[p]) : queue'[p][i] = queue[p][j]
    BY <2>1
  <2>3. ASSUME NEW i \in 1..Len(Got)
        PROVE  \/ \E p \in Ports : \E j \in 1..Len(queue[p]) : Got[i] = queue[p][j]
               \/ \E j \in 1..Len(call.got) : Got[i] = call.got[j]
    <3>1. /\ Len(call.got) \in Nat /\ Len(Got) = Len(call.got) + 1
          /\ \A k \in 1..Len(call.got) : Got[k] = call.got[k]
          /\ Got[Len(call.got) + 1] = Head(queue[Port])
      BY <1>3, GotTyped
    <3>2. i \in 1..Len(call.got) \/ i = Len(call.got) + 1
      BY <3>1
    <3> QED
      BY <2>1, <3>1, <3>2
  <2>4. call' # None =>
          \A i \in 1..Len(call'.got) :
            \/ \E p \in Ports : \E j \in 1..Len(queue[p]) : call'.got[i] = queue[p][j]
            \/ call # None /\ \E j \in 1..Len(call.got) : call'.got[i] = call.got[j]
    BY <1>3, <2>3
  <2>5. sent <= sent'
    BY <1>1, <1>3
  <2> QED
    BY <1>3, <2>2, <2>4, <2>5, PacketsKept
<1>4. ASSUME NEW kind \in Kinds, Call(kind) PROVE PacketsSound'
  BY <1>1, <1>2, <1>4 DEF Call
<1>5. ASSUME ReceivePart PROVE PacketsSound'
  <2>1. call'.got = Got
    BY <1>5, Typed DEF ReceivePart, NextPacket, Calls
  <2> QED
    BY <1>3, <1>5, <2>1 DEF ReceivePart, NextPacket
<1>6. ASSUME RejectPacket \/ ReceiveAnswer \/ UnexpectedType PROVE PacketsSound'
  BY <1>3, <1>6 DEF RejectPacket, ReceiveAnswer, UnexpectedType, NextPacket, GiveUp, Return
<1>7. ASSUME Confirm PROVE PacketsSound'
  <2>1. call' = None \/ call'.got = <<>>
    BY <1>7, Typed DEF Confirm, NextPacket, NextRound, GiveUp, Return, Calls
  <2> QED
    BY <1>3, <1>7, <2>1 DEF Confirm, NextPacket
<1>8. ASSUME TimesOut \/ SocketFails PROVE PacketsSound'
  BY <1>1, <1>2, <1>8 DEF TimesOut, SocketFails, GiveUp, Return
<1>9. ASSUME NEW port \in Ports, Connect(port) PROVE PacketsSound'
  <2>1. \A p \in Ports : \A i \in 1..Len(queue'[p]) :
          \E j \in 1..Len(queue[p]) : queue'[p][i] = queue[p][j]
    BY <1>9 DEF Connect, Shape, WireTypeOK
  <2>2. UNCHANGED <<size, call>> /\ sent <= sent'
    BY <1>1, <1>9 DEF Connect
  <2> QED
    BY <2>1, <2>2, PacketsKept
<1>10. ASSUME NEW port \in Ports, LosePacket(port) PROVE PacketsSound'
  <2>1. PICK k \in 1..Len(queue[port]) :
          /\ \A p \in Ports \ {port} : queue'[p] = queue[p]
          /\ Len(queue[port]) \in Nat \ {0} /\ Len(queue'[port]) = Len(queue[port]) - 1
          /\ \A i \in 1..Len(queue'[port]) :
               queue'[port][i] = IF i < k THEN queue[port][i] ELSE queue[port][i + 1]
    BY <1>10, QueueLoses
  <2>2. ASSUME NEW p \in Ports, NEW i \in 1..Len(queue'[p])
        PROVE  \E j \in 1..Len(queue[p]) : queue'[p][i] = queue[p][j]
    <3>1. CASE p # port
      BY <2>1, <2>2, <3>1
    <3>2. CASE p = port
      <4>1. i \in 1..Len(queue[port]) /\ i + 1 \in 1..Len(queue[port])
        BY <2>1, <2>2, <3>2
      <4> QED
        BY <2>1, <2>2, <3>2, <4>1
    <3> QED
      BY <3>1, <3>2
  <2>3. UNCHANGED <<size, call>> /\ sent <= sent'
    BY <1>1, <1>10 DEF LosePacket
  <2> QED
    BY <2>2, <2>3, PacketsKept
<1>11. ASSUME TakeLink \/ AskButton \/ Finish PROVE PacketsSound'
  <2>1. UNCHANGED <<size, call, sent>> /\ sent <= sent'
    BY <1>1, <1>11 DEF TakeLink, AskButton, Finish
  <2>2. CASE UNCHANGED queue
    BY <1>2, <2>1, <2>2
  <2>3. ASSUME NEW port \in Ports, NEW from \in Nat, NEW q \in Requests,
               NEW type \in Types,
               q <= sent, Deliver(port, from, Frame(q, type, SizeOf(q, type)))
        PROVE  PacketsSound'
    <3>1. CASE from # sock[port]
      <4>1. queue' = queue
        BY <2>3, <3>1, QueueJoined
      <4> QED
        BY <1>2, <2>1, <4>1
    <3>2. CASE from = sock[port]
      <4> DEFINE n == Len(queue[port])
                 m == PacketCount(SizeOf(q, type))
      <4>1. /\ \A p \in Ports \ {port} : queue'[p] = queue[p]
            /\ n \in Nat /\ m \in Nat \ {0} /\ Len(queue'[port]) = n + m
            /\ \A i \in 1..n : queue'[port][i] = queue[port][i]
            /\ \A i \in 1..m : queue'[port][n + i]
                               = [req |-> q, type |-> type, part |-> i, size |-> SizeOf(q, type)]
        BY <2>3, <3>2, QueueJoined DEF Types
      <4>2. \A i \in 1..m :
              Sound([req |-> q, type |-> type, part |-> i, size |-> SizeOf(q, type)], sent')
        BY <2>1, <2>3 DEF Sound
      <4> HIDE DEF n, m
      <4>3. ASSUME NEW p \in Ports, NEW i \in 1..Len(queue'[p])
            PROVE  \/ \E j \in 1..Len(queue[p]) : queue'[p][i] = queue[p][j]
                   \/ Sound(queue'[p][i], sent')
        <5>1. CASE p # port
          BY <4>1, <4>3, <5>1
        <5>2. CASE p = port /\ i <= n
          BY <4>1, <4>3, <5>2 DEF n
        <5>3. CASE p = port /\ ~(i <= n)
          <6>1. i - n \in 1..m /\ n + (i - n) = i
            BY <4>1, <4>3, <5>3
          <6>2. queue'[port][n + (i - n)]
                = [req |-> q, type |-> type, part |-> i - n, size |-> SizeOf(q, type)]
            BY <4>1, <6>1
          <6> QED
            BY <4>2, <5>3, <6>1, <6>2
        <5> QED
          BY <5>1, <5>2, <5>3
      <4> QED
        BY <2>1, <4>3, PacketsKept
    <3> QED
      BY <3>1, <3>2
  <2> QED
    BY <1>11, <2>2, <2>3, DeviceSends
<1>12. ASSUME TakeWire \/ Confirmed \/ (\E port \in Ports : LoseRequest(port)) \/ UNCHANGED wireVars
       PROVE  PacketsSound'
  BY <1>1, <1>2, <1>12 DEF TakeWire, Confirmed, LoseRequest, wireVars
<1> QED
  BY <1>4, <1>5, <1>6, <1>7, <1>8, <1>9, <1>10, <1>11, <1>12 DEF WireNext, Client, Emulator

-----------------------------------------------------------------------------
(***************************************************************************)
(* Whole messages, while no packet is lost.                                *)
(***************************************************************************)

\* A sequence has elements exactly when it has a length.
LEMMA NotEmpty ==
  ASSUME NEW S, NEW s \in Seq(S)
  PROVE  Len(s) \in Nat /\ (s # <<>> <=> Len(s) # 0) /\ \A i \in 1..Len(s) : s[i] \in S
BY EmptySeq, LenProperties, ElementOfSeq

LEMMA ChainRest ==
  ASSUME NEW s \in Seq(Packets), NEW t \in Seq(Packets), Len(s) # 0, Len(t) = Len(s) - 1,
         \A i \in 1..Len(t) : t[i] = s[i + 1], Chain(s)
  PROVE  Chain(t)
<1>1. Len(s) \in Nat /\ Len(t) \in Nat /\ (t # <<>> <=> Len(t) # 0) /\ (s # <<>> <=> Len(s) # 0)
  BY NotEmpty
<1>2. ASSUME NEW i \in 1..(Len(t) - 1) PROVE Follows(t[i], t[i + 1])
  <2>1. i + 1 \in 1..(Len(s) - 1) /\ t[i] = s[i + 1] /\ t[i + 1] = s[(i + 1) + 1]
    BY <1>1
  <2> QED
    BY <2>1 DEF Chain
<1>3. t # <<>> => t[Len(t)] = s[Len(s)] /\ s # <<>>
  BY <1>1
<1> QED
  BY <1>2, <1>3 DEF Chain

LEMMA ChainJoined ==
  ASSUME NEW s \in Seq(Packets), NEW t \in Seq(Packets), NEW e \in Packets,
         PacketCount(e.size) \in Nat \ {0}, Len(t) = Len(s) + PacketCount(e.size),
         \A i \in 1..Len(s) : t[i] = s[i],
         \A i \in 1..PacketCount(e.size) : t[Len(s) + i] = [e EXCEPT !.part = i],
         Chain(s)
  PROVE  Chain(t)
<1> DEFINE n == Len(s)
           m == PacketCount(e.size)
           x(i) == [e EXCEPT !.part = i]
<1>1. /\ n \in Nat /\ (s # <<>> <=> n # 0) /\ (\A i \in 1..n : s[i] \in Packets)
      /\ m \in Nat \ {0} /\ Len(t) = n + m
  BY NotEmpty
<1>2. \A i \in 1..m : t[n + i] = x(i)
  OBVIOUS
<1>3. ASSUME NEW i \in 1..(m - 1) PROVE Follows(x(i), x(i + 1))
  <2>1. i \in Nat /\ i + 1 \in Nat /\ i < m
    BY <1>1
  <2>2. /\ x(i).part = i /\ x(i).size = e.size
        /\ x(i + 1) = [x(i) EXCEPT !.part = i + 1]
    BY <2>1 DEF Packets
  <2> QED
    BY <2>1, <2>2 DEF Follows
<1>4. x(m).part = PacketCount(x(m).size) /\ x(1).part = 1
  BY DEF Packets
<1>5. n # 0 => Follows(s[n], x(1))
  <2> SUFFICES ASSUME n # 0 PROVE Follows(s[n], x(1))
    OBVIOUS
  <2>1. s # <<>> /\ s[n] \in Packets
    BY <1>1
  <2>2. s[n].part = PacketCount(s[n].size)
    BY <2>1 DEF Chain
  <2>3. s[n].part \in Nat
    BY <2>1 DEF Packets
  <2> QED
    BY <1>4, <2>2, <2>3 DEF Follows
<1>6. \A i \in 1..(n - 1) : Follows(s[i], s[i + 1])
  BY DEF Chain
<1>7. \A i \in 1..n : t[i] = s[i]
  OBVIOUS
<1> HIDE DEF n, m, x
<1>8. ASSUME NEW i \in 1..(Len(t) - 1) PROVE Follows(t[i], t[i + 1])
  <2>1. CASE i < n
    <3>1. i \in 1..(n - 1) /\ i \in 1..n /\ i + 1 \in 1..n
      BY <1>1, <2>1
    <3> QED
      BY <1>6, <1>7, <3>1
  <2>2. CASE i = n
    <3>1. n \in 1..n /\ n # 0 /\ 1 \in 1..m /\ t[n + 1] = x(1)
      BY <1>1, <1>2, <2>2
    <3> QED
      BY <1>5, <1>7, <2>2, <3>1
  <2>3. CASE i > n
    <3>1. PICK k \in 1..(m - 1) : i = n + k
      <4>1. i - n \in 1..(m - 1)
        BY <1>1, <2>3
      <4>2. i = n + (i - n)
        BY <1>1
      <4> QED
        BY <4>1, <4>2
    <3>2. k \in 1..m /\ k + 1 \in 1..m /\ i + 1 = n + (k + 1)
      BY <1>1, <3>1
    <3>3. t[i] = x(k) /\ t[i + 1] = x(k + 1)
      BY <1>2, <3>1, <3>2
    <3> QED
      BY <1>3, <3>1, <3>3
  <2> QED
    BY <1>1, <2>1, <2>2, <2>3
<1>9. t[Len(t)] = x(m)
  <2>1. m \in 1..m
    BY <1>1
  <2> QED
    BY <1>1, <1>2, <2>1
<1> QED
  BY <1>4, <1>8, <1>9 DEF Chain

\* When the packets received have room for the message.
LEMMA CompleteWhen ==
  ASSUME Shape, call # None, queue[Port] # <<>>, Got[1].part = 1
  PROVE  /\ PacketCount(Got[1].size) \in Nat \ {0} /\ Got[1] \in Packets
         /\ Complete(Got) <=> Len(Got) >= PacketCount(Got[1].size)
<1>1. Got \in Seq(Packets) /\ Len(call.got) \in Nat /\ Len(Got) = Len(call.got) + 1
  BY GotTyped
<1>2. Len(Got) \in Nat \ {0} /\ 1 \in 1..Len(Got)
  BY <1>1
<1>3. Got[1] \in Packets
  BY <1>1, <1>2, ElementOfSeq
<1>4. Got[1].size \in Nat
  BY <1>3 DEF Packets
<1>5. Announced(Got[1]).size = Got[1].size
  BY DEF Announced
<1> QED
  BY <1>2, <1>3, <1>4, <1>5, RoomEnough DEF Complete

\* What was received from a first packet on is the beginning of one message, in
\* order.
LEMMA GotInOrder ==
  ASSUME Shape, PacketsSound, ChainInv, NextPacket, ~lost[Port], Got[1].part = 1
  PROVE  /\ \A i \in 1..Len(Got) : Got[i] = [Got[1] EXCEPT !.part = i]
         /\ Len(Got) <= PacketCount(Got[1].size)
         /\ Head(queue[Port]).size = Got[1].size /\ Head(queue[Port]).part = Len(Got)
         /\ Head(queue[Port]) = [Got[1] EXCEPT !.part = Len(Got)]
<1>1. /\ Port \in Ports /\ Head(queue[Port]) \in Packets /\ Head(queue[Port]) = queue[Port][1]
      /\ Got \in Seq(Packets)
      /\ Len(call.got) \in Nat /\ Len(Got) = Len(call.got) + 1
      /\ \A i \in 1..Len(call.got) : Got[i] = call.got[i]
      /\ Got[Len(call.got) + 1] = Head(queue[Port])
  BY GotTyped DEF NextPacket
<1>2. PacketCount(Got[1].size) \in Nat \ {0} /\ Got[1] \in Packets
  BY CompleteWhen DEF NextPacket
<1>3. call.got \in Seq(Packets) /\ (call.got # <<>> <=> Len(call.got) # 0)
  BY Typed, NotEmpty DEF NextPacket
<1>4. CASE call.got = <<>>
  <2>1. Len(Got) = 1 /\ Got[1] = Head(queue[Port]) /\ Got[1].part = 1
    BY <1>1, <1>3, <1>4
  <2>2. Got[1] = [Got[1] EXCEPT !.part = 1]
    BY <1>2, <2>1 DEF Packets
  <2> QED
    BY <1>2, <2>1, <2>2
<1>5. CASE call.got # <<>>
  <2>2. Got[1] = call.got[1]
    BY <1>1, <1>3, <1>5
  <2>1. Begun(call.got, queue[Port])
    BY <1>1, <1>5, <2>2 DEF ChainInv, On, NextPacket
  <2>3. Head(queue[Port]) = [Got[1] EXCEPT !.part = Len(Got)]
    BY <1>1, <2>1, <2>2 DEF Begun
  <2>4. \A i \in 1..Len(Got) : Got[i] = [Got[1] EXCEPT !.part = i]
    <3> SUFFICES ASSUME NEW i \in 1..Len(Got) PROVE Got[i] = [Got[1] EXCEPT !.part = i]
      OBVIOUS
    <3>1. i \in 1..Len(call.got) \/ i = Len(Got)
      BY <1>1
    <3> QED
      BY <1>1, <2>1, <2>2, <2>3, <3>1 DEF Begun
  <2>5. Len(Got) <= PacketCount(Got[1].size)
    BY <1>1, <1>2, <2>1, <2>2 DEF Begun
  <2>6. Head(queue[Port]).size = Got[1].size /\ Head(queue[Port]).part = Len(Got)
    BY <1>2, <2>3 DEF Packets
  <2> QED
    BY <2>3, <2>4, <2>5, <2>6
<1> QED
  BY <1>4, <1>5

LEMMA ChainInit == WireInit => ChainInv
BY EmptySeq DEF WireInit, ChainInv, Chain, On, Ports

LEMMA ChainStep ==
  Shape /\ Shape' /\ MailsSound /\ PacketsSound /\ ChainInv /\ [WireNext]_wireVars => ChainInv'
<1> SUFFICES ASSUME Shape, Shape', MailsSound, PacketsSound, ChainInv, [WireNext]_wireVars,
                    NEW p \in Ports, ~lost'[p]
             PROVE  /\ Chain(queue'[p])
                    /\ On(p)' /\ call'.got # <<>> /\ call'.got[1].part = 1
                       => Begun(call'.got, queue'[p])
  BY DEF ChainInv
<1> USE DEF clientVars, deviceVars
<1> DEFINE Goal == /\ Chain(queue'[p])
                   /\ On(p)' /\ call'.got # <<>> /\ call'.got[1].part = 1
                      => Begun(call'.got, queue'[p])
<1>1. ASSUME lost'[p] = lost[p], queue'[p] = queue[p],
             On(p)' /\ call'.got # <<>> => On(p) /\ call'.got = call.got
      PROVE  Goal
  BY <1>1 DEF ChainInv
<1>2. ASSUME lost' = lost, call # None, queue[Port] # <<>>,
             queue' = [queue EXCEPT ![Port] = Tail(@)]
      PROVE  /\ p = Port => Chain(queue'[p]) /\ Len(queue'[p]) = Len(queue[p]) - 1
             /\ p # Port => queue'[p] = queue[p]
  <2>1. /\ \A r \in Ports \ {Port} : queue'[r] = queue[r]
        /\ Len(queue[Port]) \in Nat \ {0} /\ Len(queue'[Port]) = Len(queue[Port]) - 1
        /\ \A i \in 1..Len(queue'[Port]) :
             queue'[Port][i] = queue[Port][i + 1] /\ i + 1 \in 1..Len(queue[Port])
    BY <1>2, QueueTaken
  <2>2. CASE p = Port
    <3>1. queue[p] \in Seq(Packets) /\ queue'[p] \in Seq(Packets)
      BY DEF Shape, WireTypeOK
    <3>2. Chain(queue[p])
      BY <1>2 DEF ChainInv
    <3>3. Len(queue[p]) # 0
      BY <2>1, <2>2
    <3>4. Len(queue'[p]) = Len(queue[p]) - 1
          /\ \A i \in 1..Len(queue'[p]) : queue'[p][i] = queue[p][i + 1]
      BY <2>1, <2>2
    <3> QED
      BY <2>2, <3>1, <3>2, <3>3, <3>4, ChainRest
  <2> QED
    BY <2>1, <2>2
<1>3. ASSUME lost' = lost, call # None, queue[Port] # <<>>,
             queue' = [queue EXCEPT ![Port] = Tail(@)], call' = None \/ call'.got = <<>>
      PROVE  Goal
  <2>1. On(p)' /\ call'.got # <<>> => FALSE
    BY <1>3 DEF On
  <2>2. CASE p = Port
    BY <1>2, <1>3, <2>1, <2>2
  <2>3. CASE p # Port
    BY <1>1, <1>2, <1>3, <2>1, <2>3
  <2> QED
    BY <2>2, <2>3
<1>4. ASSUME NEW kind \in Kinds, Call(kind) PROVE Goal
  BY <1>1, <1>4 DEF Call, On
<1>5. ASSUME ReceivePart PROVE Goal
  <2>1. call \in Calls /\ Port \in Ports
    BY <1>5, Typed DEF ReceivePart, NextPacket
  <2>2. call'.got = Got /\ Port' = Port
    BY <1>5, <2>1 DEF ReceivePart, Port, Calls
  <2>3. /\ p = Port => Chain(queue'[p]) /\ Len(queue'[p]) = Len(queue[p]) - 1
        /\ p # Port => queue'[p] = queue[p]
    BY <1>2, <1>5 DEF ReceivePart, NextPacket
  <2>4. CASE p # Port
    BY <1>1, <1>5, <2>2, <2>3, <2>4 DEF ReceivePart, On
  <2>6. CASE p = Port /\ Got[1].part # 1
    BY <2>2, <2>3, <2>6
  <2>5. CASE p = Port /\ Got[1].part = 1
    <3>1. ~lost[Port] /\ NextPacket
      BY <1>5, <2>5 DEF ReceivePart
    <3>2. /\ \A i \in 1..Len(Got) : Got[i] = [Got[1] EXCEPT !.part = i]
          /\ Head(queue[Port]).size = Got[1].size /\ Head(queue[Port]).part = Len(Got)
          /\ Head(queue[Port]) = [Got[1] EXCEPT !.part = Len(Got)]
      BY <2>5, <3>1, GotInOrder
    <3>3. PacketCount(Got[1].size) \in Nat \ {0} /\ Got[1] \in Packets
          /\ ~(Len(Got) >= PacketCount(Got[1].size))
      BY <1>5, <2>5, CompleteWhen DEF ReceivePart, NextPacket
    <3>4. Len(Got) \in Nat
      BY <3>1, GotTyped DEF NextPacket
    <3>5. /\ Head(queue[Port]) = queue[Port][1] /\ 1 \in 1..Len(queue[Port])
          /\ Len(queue[Port]) \in Nat \ {0} /\ Len(queue'[Port]) = Len(queue[Port]) - 1
          /\ \A i \in 1..Len(queue'[Port]) : queue'[Port][i] = queue[Port][i + 1]
      BY <1>5, QueueTaken DEF ReceivePart, NextPacket
    <3>6. Chain(queue[Port]) /\ queue[Port] # <<>>
      BY <2>1, <3>1 DEF ChainInv, NextPacket
    <3>7. Head(queue[Port]).part < PacketCount(Head(queue[Port]).size)
      BY <3>2, <3>3, <3>4
    <3>8. Len(queue[Port]) # 1
      <4>1. queue[Port][Len(queue[Port])].part = PacketCount(queue[Port][Len(queue[Port])].size)
        BY <3>6 DEF Chain
      <4>2. Head(queue[Port]).part # PacketCount(Head(queue[Port]).size)
        BY <3>2, <3>3, <3>4
      <4> QED
        BY <3>5, <4>1, <4>2
    <3>9. Follows(queue[Port][1], queue[Port][2]) /\ 1 \in 1..(Len(queue[Port]) - 1)
      <4>1. Len(queue[Port]) \in Nat \ {0}
        BY <3>5
      <4>2. \A n \in Nat \ {0} : n # 1 => 1 \in 1..(n - 1)
        OBVIOUS
      <4>3. 1 \in 1..(Len(queue[Port]) - 1)
        BY <3>8, <4>1, <4>2, Zenon
      <4> QED
        BY <3>6, <4>3 DEF Chain
    <3>10. queue[Port][2] = [Head(queue[Port]) EXCEPT !.part = @ + 1]
      BY <3>5, <3>7, <3>9 DEF Follows
    <3>11. queue[Port][2] = [Got[1] EXCEPT !.part = Len(Got) + 1]
      BY <3>2, <3>3, <3>10 DEF Packets
    <3>12. queue'[Port] # <<>> /\ queue'[Port][1] = queue[Port][2]
      <4>1. 1 \in 1..Len(queue'[Port]) /\ Len(queue'[Port]) # 0 /\ 1 + 1 = 2
        <5>1. Len(queue'[Port]) = Len(queue[Port]) - 1 /\ Len(queue[Port]) \in Nat
          BY <3>5
        <5> QED
          BY <3>9, <5>1
      <4>2. queue'[Port] \in Seq(Packets)
        BY <2>1 DEF Shape, WireTypeOK
      <4> QED
        BY <3>5, <4>1, <4>2, NotEmpty
    <3>13. Begun(Got, queue'[Port])
      BY <3>2, <3>3, <3>4, <3>11, <3>12 DEF Begun
    <3> QED
      BY <2>2, <2>3, <2>5, <3>13
  <2> QED
    BY <2>4, <2>5, <2>6
<1>6. ASSUME RejectPacket \/ ReceiveAnswer \/ UnexpectedType PROVE Goal
  BY <1>3, <1>6 DEF RejectPacket, ReceiveAnswer, UnexpectedType, NextPacket, GiveUp, Return
<1>7. ASSUME Confirm PROVE Goal
  <2>1. call' = None \/ call'.got = <<>>
    BY <1>7, Typed DEF Confirm, NextPacket, NextRound, GiveUp, Return, Calls
  <2> QED
    BY <1>3, <1>7, <2>1 DEF Confirm, NextPacket
<1>8. ASSUME TimesOut \/ SocketFails PROVE Goal
  BY <1>1, <1>8 DEF TimesOut, SocketFails, GiveUp, Return, On
<1>9. ASSUME NEW port \in Ports, Connect(port) PROVE Goal
  <2>1. call' = None
    BY <1>9 DEF Connect
  <2>2. CASE p # port
    BY <1>1, <1>9, <2>1, <2>2 DEF Connect, On, Shape, WireTypeOK
  <2>3. CASE p = port
    <3>1. queue'[p] = <<>>
      BY <1>9, <2>3 DEF Connect, Shape, WireTypeOK
    <3> QED
      BY <2>1, <3>1, EmptySeq DEF On, Chain
  <2> QED
    BY <2>2, <2>3
<1>10. ASSUME NEW port \in Ports, LosePacket(port) PROVE Goal
  <2>1. p # port
    BY <1>10 DEF LosePacket, Shape
  <2>2. queue'[p] = queue[p] /\ lost'[p] = lost[p] /\ call' = call
    BY <1>10, <2>1 DEF LosePacket, Shape, WireTypeOK
  <2> QED
    BY <1>1, <2>2 DEF On, Port
<1>11. ASSUME TakeLink \/ AskButton \/ Finish PROVE Goal
  <2>1. call' = call /\ lost' = lost /\ Port' = Port /\ (On(p)' <=> On(p))
    BY <1>11 DEF TakeLink, AskButton, Finish, On, Port
  <2>2. CASE UNCHANGED queue
    BY <1>1, <2>1, <2>2
  <2>3. ASSUME NEW port \in Ports, NEW from \in Nat, NEW q \in Requests,
               NEW type \in Types,
               Deliver(port, from, Frame(q, type, SizeOf(q, type)))
        PROVE  Goal
    <3>1. CASE from # sock[port] \/ p # port
      <4>1. queue'[p] = queue[p]
        BY <2>3, <3>1, QueueJoined
      <4> QED
        BY <1>1, <2>1, <4>1
    <3>2. CASE from = sock[port] /\ p = port
      <4>0. from = sock[p] /\ Deliver(p, from, Frame(q, type, SizeOf(q, type)))
        BY <2>3, <3>2
      <4> DEFINE e == [req |-> q, type |-> type, part |-> 1, size |-> SizeOf(q, type)]
      <4>1. /\ Len(queue[p]) \in Nat
            /\ SizeOf(q, type) \in Nat /\ PacketCount(SizeOf(q, type)) \in Nat \ {0}
            /\ Len(queue'[p]) = Len(queue[p]) + PacketCount(SizeOf(q, type))
            /\ \A i \in 1..Len(queue[p]) : queue'[p][i] = queue[p][i]
            /\ \A i \in 1..PacketCount(SizeOf(q, type)) :
                 queue'[p][Len(queue[p]) + i]
                 = [req |-> q, type |-> type, part |-> i, size |-> SizeOf(q, type)]
        BY <4>0, QueueJoined
      <4>4. /\ e \in Packets /\ e.size = SizeOf(q, type)
            /\ \A i \in Nat :
                 [e EXCEPT !.part = i]
                 = [req |-> q, type |-> type, part |-> i, size |-> SizeOf(q, type)]
        <5>1. SizeOf(q, type) \in Nat
          BY <4>1
        <5> QED
          BY <5>1 DEF Packets
      <4> HIDE DEF e
      <4>2. queue[p] \in Seq(Packets) /\ queue'[p] \in Seq(Packets) /\ Chain(queue[p])
        BY <2>1 DEF Shape, WireTypeOK, ChainInv
      <4>3. Chain(queue'[p])
        <5>0. ASSUME NEW i \in 1..PacketCount(SizeOf(q, type))
              PROVE  queue'[p][Len(queue[p]) + i] = [e EXCEPT !.part = i]
          <6>1. i \in Nat
            BY <4>1
          <6>2. [e EXCEPT !.part = i]
                = [req |-> q, type |-> type, part |-> i, size |-> SizeOf(q, type)]
            BY <4>4, <6>1
          <6> QED
            BY <4>1, <6>2, Zenon
        <5>1. /\ PacketCount(e.size) \in Nat \ {0}
              /\ Len(queue'[p]) = Len(queue[p]) + PacketCount(e.size)
              /\ \A i \in 1..PacketCount(e.size) :
                   queue'[p][Len(queue[p]) + i] = [e EXCEPT !.part = i]
          BY <4>1, <4>4, <5>0, Zenon
        <5> QED
          BY <4>1, <4>2, <4>4, <5>1, ChainJoined
      <4>5. ASSUME On(p)', call'.got # <<>>, call'.got[1].part = 1
            PROVE  Begun(call'.got, queue'[p])
        <5>1. Begun(call.got, queue[p])
          BY <2>1, <4>5 DEF ChainInv
        <5>2. Len(queue[p]) # 0 /\ 1 \in 1..Len(queue[p])
          BY <4>1, <4>2, <5>1, NotEmpty DEF Begun
        <5>3. Len(queue'[p]) # 0 /\ queue'[p] # <<>>
          BY <4>1, <4>2, <5>2, NotEmpty
        <5>4. queue'[p][1] = queue[p][1]
          BY <4>1, <5>2
        <5> QED
          BY <2>1, <5>1, <5>3, <5>4 DEF Begun
      <4> QED
        BY <4>3, <4>5
    <3> QED
      BY <3>1, <3>2
  <2> QED
    BY <1>11, <2>2, <2>3, DeviceSends
<1>12. ASSUME TakeWire \/ Confirmed \/ (\E port \in Ports : LoseRequest(port)) \/ UNCHANGED wireVars
       PROVE  Goal
  <2>1. call' = call /\ lost' = lost /\ queue' = queue
    BY <1>12 DEF TakeWire, Confirmed, LoseRequest, wireVars
  <2> QED
    BY <1>1, <2>1 DEF On, Port
<1> QED
  BY <1>4, <1>5, <1>6, <1>7, <1>8, <1>9, <1>10, <1>11, <1>12 DEF WireNext, Client, Emulator

-----------------------------------------------------------------------------
(***************************************************************************)
(* Answers.                                                                *)
(***************************************************************************)

\* The results: that of an earlier call, or of one that ends now.
LEMMA Results ==
  ASSUME Shape, [WireNext]_wireVars
  PROVE  /\ UNCHANGED <<size, looks>>
         /\ \/ result' = result
            \/ result' = None
            \/ result'.kind = "error"
            \/ /\ ReceiveAnswer /\ result'.kind \in {"data", "device"}
               /\ result'.req = call.req /\ result'.got = Got
               /\ result'.fresh = call.fresh /\ result'.intact = ~lost[Port]
<1> USE DEF clientVars, deviceVars
<1>1. ASSUME NEW kind \in Kinds, Call(kind) PROVE UNCHANGED <<size, looks>> /\ result' = None
  BY <1>1 DEF Call
<1>2. ASSUME RejectPacket \/ UnexpectedType \/ TimesOut \/ SocketFails
      PROVE  UNCHANGED <<size, looks>> /\ result'.kind = "error"
  BY <1>2 DEF RejectPacket, UnexpectedType, TimesOut, SocketFails, GiveUp, Return
<1>3. ASSUME ReceiveAnswer
      PROVE  /\ UNCHANGED <<size, looks>> /\ result'.kind \in {"data", "device"}
             /\ result'.req = call.req /\ result'.got = Got
             /\ result'.fresh = call.fresh /\ result'.intact = ~lost[Port]
  BY <1>3 DEF ReceiveAnswer, Return
<1>4. ASSUME Confirm PROVE UNCHANGED <<size, looks>> /\ (result' = result \/ result'.kind = "error")
  BY <1>4 DEF Confirm, NextRound, GiveUp, Return
<1>5. ASSUME ReceivePart \/ (\E port \in Ports : Connect(port) \/ LosePacket(port) \/ LoseRequest(port))
             \/ Emulator \/ UNCHANGED wireVars
      PROVE  UNCHANGED <<size, looks>> /\ result' = result
  BY <1>5 DEF ReceivePart, Connect, LosePacket, LoseRequest, Emulator, TakeWire, TakeLink, AskButton,
              Confirmed, Finish, wireVars
<1> QED
  BY <1>1, <1>2, <1>3, <1>4, <1>5 DEF WireNext, Client

\* What was received is sound.
LEMMA GotSound ==
  ASSUME Shape, PacketsSound, call # None, queue[Port] # <<>>, NEW i \in 1..Len(Got)
  PROVE  Got[i] \in Packets /\ Sound(Got[i], sent)
<1>1. /\ Port \in Ports /\ Head(queue[Port]) = queue[Port][1] /\ Got \in Seq(Packets)
      /\ Len(call.got) \in Nat /\ Len(Got) = Len(call.got) + 1
      /\ \A k \in 1..Len(call.got) : Got[k] = call.got[k]
      /\ Got[Len(call.got) + 1] = Head(queue[Port])
  BY GotTyped
<1>2. queue[Port] \in Seq(Packets)
  BY Typed
<1>3. 1 \in 1..Len(queue[Port])
  BY <1>2, NotEmpty
<1>4. i \in 1..Len(call.got) \/ i = Len(call.got) + 1
  BY <1>1
<1>5. Sound(Got[i], sent)
  BY <1>1, <1>3, <1>4 DEF PacketsSound
<1> QED
  BY <1>1, <1>5, ElementOfSeq

\* Packets in order, as many as a message has, are the message.
LEMMA WholeMessage ==
  ASSUME Shape, NEW q \in Requests, NEW type \in Types,
         NEW got \in Seq(Packets), Len(got) = PacketCount(SizeOf(q, type)),
         \A i \in 1..Len(got) :
           got[i] = [req |-> q, type |-> type, part |-> i, size |-> SizeOf(q, type)]
  PROVE  got = Frame(q, type, SizeOf(q, type))
<1> DEFINE f == Frame(q, type, SizeOf(q, type))
<1>1. /\ f \in Seq(Packets) /\ Len(f) = Len(got)
      /\ \A i \in 1..Len(got) :
           f[i] = [req |-> q, type |-> type, part |-> i, size |-> SizeOf(q, type)]
  BY Answers
<1> HIDE DEF f
<1>2. \A i \in 1..Len(got) : got[i] = f[i]
  BY <1>1
<1>3. got = f
  BY <1>1, <1>2, SeqEqual
<1> QED
  BY <1>3 DEF f

\* A socket that has lost nothing and owes nothing yields a first packet, or one
\* that belongs to what began with one.
LEMMA GotStarts ==
  ASSUME Shape, StartInv, call # None, queue[Port] # <<>>, ~lost[Port], ~stale[Port]
  PROVE  Got[1].part = 1
<1>1. /\ Port \in Ports /\ Head(queue[Port]) = queue[Port][1]
      /\ Len(call.got) \in Nat
      /\ \A i \in 1..Len(call.got) : Got[i] = call.got[i]
      /\ Got[Len(call.got) + 1] = Head(queue[Port])
  BY GotTyped
<1>2. call.got \in Seq(Packets) /\ (call.got # <<>> <=> Len(call.got) # 0)
  BY Typed, NotEmpty
<1>3. CASE call.got = <<>>
  BY <1>1, <1>2, <1>3 DEF StartInv, On
<1>4. CASE call.got # <<>>
  <2>1. Got[1] = call.got[1]
    BY <1>1, <1>2, <1>4
  <2> QED
    BY <1>1, <1>4, <2>1 DEF StartInv, On
<1> QED
  BY <1>3, <1>4

\* Behind a whole message comes another's first packet.
LEMMA RestStarts ==
  ASSUME Shape, PacketsSound, ChainInv, StartInv, NextPacket, Complete(Got),
         ~lost[Port], ~stale[Port], queue' = [queue EXCEPT ![Port] = Tail(@)],
         queue'[Port] # <<>>
  PROVE  queue'[Port][1].part = 1
<1>1. call # None /\ queue[Port] # <<>>
  BY DEF NextPacket
<1>2. Got[1].part = 1
  BY <1>1, GotStarts
<1>3. /\ Len(Got) <= PacketCount(Got[1].size)
      /\ Head(queue[Port]).size = Got[1].size /\ Head(queue[Port]).part = Len(Got)
  BY <1>2, GotInOrder
<1>4. PacketCount(Got[1].size) \in Nat \ {0} /\ Len(Got) >= PacketCount(Got[1].size)
  BY <1>1, <1>2, CompleteWhen
<1>5. Len(Got) \in Nat
  BY <1>1, GotTyped
<1>6. ~(Head(queue[Port]).part < PacketCount(Head(queue[Port]).size))
  BY <1>3, <1>4, <1>5
<1>7. /\ Port \in Ports /\ Head(queue[Port]) = queue[Port][1]
      /\ Len(queue[Port]) \in Nat \ {0} /\ Len(queue'[Port]) = Len(queue[Port]) - 1
      /\ \A i \in 1..Len(queue'[Port]) : queue'[Port][i] = queue[Port][i + 1]
  BY <1>1, QueueTaken
<1>8. Len(queue'[Port]) # 0 /\ Len(queue'[Port]) \in Nat
  <2>1. queue'[Port] \in Seq(Packets)
    BY <1>1, <1>7, Typed, TakeOne DEF Shape, WireTypeOK
  <2> QED
    BY <2>1, NotEmpty
<1>9. 1 \in 1..(Len(queue[Port]) - 1) /\ queue'[Port][1] = queue[Port][2]
  <2>1. 1 \in 1..Len(queue'[Port]) /\ 1 + 1 = 2
    BY <1>8
  <2> QED
    BY <1>7, <2>1
<1>10. Follows(queue[Port][1], queue[Port][2])
  BY <1>7, <1>9 DEF ChainInv, Chain
<1> QED
  BY <1>6, <1>7, <1>9, <1>10 DEF Follows

LEMMA StartInit == WireInit => StartInv
BY DEF WireInit, StartInv, On

LEMMA StartStep ==
  Shape /\ Shape' /\ MailsSound /\ PacketsSound /\ ChainInv /\ StartInv /\ [WireNext]_wireVars
  => StartInv'
<1> SUFFICES ASSUME Shape, Shape', MailsSound, PacketsSound, ChainInv, StartInv,
                    [WireNext]_wireVars, NEW p \in Ports, ~lost'[p], ~stale'[p]
             PROVE  IF On(p)' /\ call'.got # <<>> THEN call'.got[1].part = 1
                    ELSE queue'[p] # <<>> => queue'[p][1].part = 1
  BY DEF StartInv
<1> USE DEF clientVars, deviceVars
<1> DEFINE Goal == IF On(p)' /\ call'.got # <<>> THEN call'.got[1].part = 1
                   ELSE queue'[p] # <<>> => queue'[p][1].part = 1
<1>1. ASSUME lost'[p] = lost[p], stale'[p] = stale[p], queue'[p] = queue[p],
             On(p)' /\ call'.got # <<>> <=> On(p) /\ call.got # <<>>,
             On(p)' /\ call'.got # <<>> => call'.got = call.got
      PROVE  Goal
  BY <1>1 DEF StartInv
<1>2. ASSUME NEW kind \in Kinds, Call(kind) PROVE Goal
  BY <1>1, <1>2, CallTyped DEF Call, On
<1>3. ASSUME call # None, queue[Port] # <<>>, queue' = [queue EXCEPT ![Port] = Tail(@)]
      PROVE  p # Port => queue'[p] = queue[p]
  BY <1>3, QueueTaken
<1>4. ASSUME ReceivePart PROVE Goal
  <2>1. Got # <<>> /\ call'.got = Got /\ call' # None /\ Port' = Port
    BY <1>4, GotTyped, CallKept DEF ReceivePart, NextPacket
  <2>2. CASE p # Port
    BY <1>1, <1>3, <1>4, <2>1, <2>2 DEF ReceivePart, NextPacket, On
  <2>3. CASE p = Port
    <3>1. Got[1].part = 1
      BY <1>4, <2>3, GotStarts DEF ReceivePart, NextPacket
    <3> QED
      BY <2>1, <2>3, <3>1 DEF On
  <2> QED
    BY <2>2, <2>3
<1>5. ASSUME RejectPacket \/ TimesOut \/ SocketFails PROVE Goal
  <2>1. /\ call # None /\ call' = None /\ stale' = [stale EXCEPT ![Port] = TRUE] /\ lost' = lost
        /\ \/ queue' = queue
           \/ queue[Port] # <<>> /\ queue' = [queue EXCEPT ![Port] = Tail(@)]
    BY <1>5 DEF RejectPacket, TimesOut, SocketFails, GiveUp, Return
  <2>2. p # Port /\ stale'[p] = stale[p]
    BY <2>1 DEF Shape
  <2>3. queue'[p] = queue[p]
    BY <1>3, <2>1, <2>2
  <2> QED
    BY <1>1, <2>1, <2>2, <2>3 DEF On
<1>6. ASSUME NextPacket, Complete(Got), queue' = [queue EXCEPT ![Port] = Tail(@)], lost' = lost,
             call' = None \/ call'.got = <<>>, stale'[p] = stale[p]
      PROVE  Goal
  <2>1. ~(On(p)' /\ call'.got # <<>>)
    BY <1>6 DEF On
  <2>2. CASE p # Port
    BY <1>1, <1>3, <1>6, <2>1, <2>2 DEF NextPacket, On
  <2>3. CASE p = Port
    BY <1>6, <2>1, <2>3, RestStarts
  <2> QED
    BY <2>2, <2>3
<1>7. ASSUME ReceiveAnswer \/ UnexpectedType PROVE Goal
  <2>1. /\ NextPacket /\ Complete(Got) /\ queue' = [queue EXCEPT ![Port] = Tail(@)]
        /\ lost' = lost /\ call' = None /\ Mistaken
    BY <1>7 DEF ReceiveAnswer, UnexpectedType, NextPacket, Return
  <2>2. stale'[p] = stale[p]
    BY <2>1, MistakenTyped DEF NextPacket, Shape
  <2> QED
    BY <1>6, <2>1, <2>2
<1>8. ASSUME Confirm PROVE Goal
  <2>1. /\ NextPacket /\ Complete(Got) /\ queue' = [queue EXCEPT ![Port] = Tail(@)] /\ lost' = lost
    BY <1>8 DEF Confirm, NextPacket
  <2>2. call' = None \/ call'.got = <<>>
    BY <1>8, Typed DEF Confirm, NextPacket, NextRound, GiveUp, Return, Calls
  <2>3. stale'[p] = stale[p]
    BY <1>8 DEF Confirm, NextRound, GiveUp, Shape
  <2> QED
    BY <1>6, <2>1, <2>2, <2>3
<1>9. ASSUME NEW port \in Ports, Connect(port) PROVE Goal
  <2>1. call = None /\ call' = None
    BY <1>9 DEF Connect
  <2>2. CASE p # port
    BY <1>1, <1>9, <2>1, <2>2 DEF Connect, On, Shape, WireTypeOK
  <2>3. CASE p = port
    <3>1. queue'[p] = <<>>
      BY <1>9, <2>3 DEF Connect, Shape, WireTypeOK
    <3> QED
      BY <2>1, <3>1 DEF On
  <2> QED
    BY <2>2, <2>3
<1>10. ASSUME NEW port \in Ports, LosePacket(port) PROVE Goal
  <2>1. p # port
    BY <1>10 DEF LosePacket, Shape
  <2>2. queue'[p] = queue[p] /\ lost'[p] = lost[p] /\ call' = call /\ stale' = stale
    BY <1>10, <2>1 DEF LosePacket, Shape, WireTypeOK
  <2> QED
    BY <1>1, <2>2 DEF On, Port
<1>11. ASSUME TakeLink \/ AskButton \/ Finish PROVE Goal
  <2>1. call' = call /\ lost' = lost /\ stale' = stale /\ Port' = Port /\ (On(p)' <=> On(p))
    BY <1>11 DEF TakeLink, AskButton, Finish, On, Port
  <2>2. CASE queue'[p] = queue[p]
    BY <1>1, <2>1, <2>2
  <2>3. ASSUME NEW port \in Ports, NEW from \in Nat, NEW q \in Requests,
               NEW type \in Types,
               Deliver(port, from, Frame(q, type, SizeOf(q, type)))
        PROVE  Goal
    <3>1. CASE from # sock[port] \/ p # port
      BY <2>2, <2>3, <3>1, QueueJoined
    <3>2. CASE from = sock[port] /\ p = port
      <4>0. from = sock[p] /\ Deliver(p, from, Frame(q, type, SizeOf(q, type)))
        BY <2>3, <3>2
      <4>1. /\ Len(queue[p]) \in Nat /\ PacketCount(SizeOf(q, type)) \in Nat \ {0}
            /\ \A i \in 1..Len(queue[p]) : queue'[p][i] = queue[p][i]
            /\ \A i \in 1..PacketCount(SizeOf(q, type)) :
                 queue'[p][Len(queue[p]) + i]
                 = [req |-> q, type |-> type, part |-> i, size |-> SizeOf(q, type)]
        BY <4>0, QueueJoined
      <4>2. queue[p] # <<>> <=> Len(queue[p]) # 0
        BY Typed, NotEmpty
      <4>3. queue[p] # <<>> => queue'[p][1] = queue[p][1]
        BY <4>1, <4>2
      <4>4. ASSUME queue[p] = <<>> PROVE queue'[p][1].part = 1
        <5>1. Len(queue[p]) + 1 = 1 /\ 1 \in 1..PacketCount(SizeOf(q, type))
          BY <4>1, <4>2, <4>4
        <5>2. queue'[p][Len(queue[p]) + 1]
              = [req |-> q, type |-> type, part |-> 1, size |-> SizeOf(q, type)]
          BY <4>1, <5>1
        <5> QED
          BY <5>1, <5>2
      <4> QED
        BY <2>1, <4>3, <4>4 DEF StartInv
    <3> QED
      BY <3>1, <3>2
  <2> QED
    BY <1>11, <2>2, <2>3, DeviceSends
<1>12. ASSUME TakeWire \/ Confirmed \/ (\E port \in Ports : LoseRequest(port)) \/ UNCHANGED wireVars
       PROVE  Goal
  <2>1. call' = call /\ lost' = lost /\ queue' = queue /\ stale' = stale
    BY <1>12 DEF TakeWire, Confirmed, LoseRequest, wireVars
  <2> QED
    BY <1>1, <2>1 DEF On, Port
<1> QED
  BY <1>2, <1>4, <1>5, <1>7, <1>8, <1>9, <1>10, <1>11, <1>12 DEF WireNext, Client, Emulator

\* What a call has received when one more packet came began with the marks of a
\* first one.
LEMMA GotMarked ==
  ASSUME Shape, LooksInv, NextPacket
  PROVE  Announced(Got[1]).first
<1>1. /\ Len(call.got) \in Nat
      /\ \A i \in 1..Len(call.got) : Got[i] = call.got[i]
      /\ Got[Len(call.got) + 1] = Head(queue[Port])
  BY GotTyped DEF NextPacket
<1>2. call.got \in Seq(Packets) /\ (call.got # <<>> <=> Len(call.got) # 0)
  BY Typed, NotEmpty DEF NextPacket
<1>3. CASE call.got = <<>>
  BY <1>1, <1>2, <1>3 DEF NextPacket
<1>4. CASE call.got # <<>>
  <2>1. Got[1] = call.got[1]
    BY <1>1, <1>2, <1>4
  <2> QED
    BY <1>4, <2>1 DEF LooksInv, NextPacket
<1> QED
  BY <1>3, <1>4

LEMMA LooksInit == WireInit => LooksInv
<1> SUFFICES ASSUME WireInit PROVE LooksInv
  OBVIOUS
<1>1. \A q \in Requests : size[q] \in Nat /\ PacketCount(size[q]) \in Nat \ {0}
  <2>1. \A q \in Requests : size[q] \in Nat
    BY ShapeInit, WireAssumption DEF Shape
  <2>2. 1 \in Nat \ {0}
    OBVIOUS
  <2> QED
    BY <2>1, <2>2, RoomEnough
<1>2. \A i \in Further : i \in Nat
  BY DEF Further
<1>3. ASSUME NEW q \in Requests, NEW i \in Further, i <= PacketCount(size[q])
      PROVE  looks[q][i] # None
  BY <1>1, <1>2, <1>3 DEF WireInit
<1> QED
  BY <1>3 DEF WireInit, LooksInv

LEMMA LooksStep == Shape /\ LooksInv /\ [WireNext]_wireVars => LooksInv'
<1> SUFFICES ASSUME Shape, LooksInv, [WireNext]_wireVars PROVE LooksInv'
  OBVIOUS
<1> USE DEF clientVars, deviceVars
<1>1. UNCHANGED <<size, looks>>
  BY Results
<1>2. ASSUME call' = call \/ call' = None \/ call'.got = <<>> PROVE LooksInv'
  BY <1>1, <1>2 DEF LooksInv, Announced
<1>3. ASSUME NEW kind \in Kinds, Call(kind) PROVE LooksInv'
  BY <1>2, <1>3 DEF Call
<1>4. ASSUME ReceivePart PROVE LooksInv'
  <2>1. call'.got = Got
    BY <1>4, Typed DEF ReceivePart, NextPacket, Calls
  <2>2. Announced(Got[1]).first
    BY <1>4, GotMarked DEF ReceivePart
  <2> QED
    BY <1>1, <2>1, <2>2 DEF LooksInv, Announced
<1>5. ASSUME RejectPacket \/ ReceiveAnswer \/ UnexpectedType \/ TimesOut \/ SocketFails
      PROVE  LooksInv'
  BY <1>2, <1>5 DEF RejectPacket, ReceiveAnswer, UnexpectedType, TimesOut, SocketFails, GiveUp, Return
<1>6. ASSUME Confirm PROVE LooksInv'
  <2>1. call' = None \/ call'.got = <<>>
    BY <1>6, Typed DEF Confirm, NextPacket, NextRound, GiveUp, Return, Calls
  <2> QED
    BY <1>2, <2>1
<1>7. ASSUME (\E port \in Ports : Connect(port) \/ LosePacket(port) \/ LoseRequest(port))
             \/ Emulator \/ UNCHANGED wireVars
      PROVE  LooksInv'
  BY <1>2, <1>7 DEF Connect, LosePacket, LoseRequest, Emulator, TakeWire, TakeLink, AskButton,
                    Confirmed, Finish, wireVars
<1> QED
  BY <1>3, <1>4, <1>5, <1>6, <1>7 DEF WireNext, Client

LEMMA NeverMixedStep ==
  /\ Shape /\ PacketsSound /\ LooksInv /\ ChainInv /\ StartInv /\ FreshInv /\ NeverMixed
  /\ [WireNext]_wireVars
  => NeverMixed'
<1> SUFFICES ASSUME Shape, PacketsSound, LooksInv, ChainInv, StartInv, FreshInv, NeverMixed,
                    [WireNext]_wireVars
             PROVE  NeverMixed'
  OBVIOUS
<1>1. ASSUME result' = result, UNCHANGED <<size, looks>> PROVE NeverMixed'
  BY <1>1 DEF NeverMixed, Announced
<1>2. ASSUME result' = None \/ result'.kind = "error" PROVE NeverMixed'
  BY <1>2 DEF NeverMixed
<1>3. ASSUME UNCHANGED <<size, looks>>, ReceiveAnswer, result'.req = call.req, result'.got = Got,
             result'.fresh = call.fresh, result'.intact = ~lost[Port]
      PROVE  NeverMixed'
  <2>0. NextPacket /\ call # None /\ queue[Port] # <<>> /\ Complete(Got)
    BY <1>3 DEF ReceiveAnswer, NextPacket
  <2>1. CASE lost[Port]
    BY <1>3, <2>1 DEF NeverMixed
  <2>2. CASE ~lost[Port] /\ Got[1].part = 1
    <3>1. NextPacket /\ call # None /\ queue[Port] # <<>> /\ Complete(Got)
      BY <2>0
    <3>2. /\ \A i \in 1..Len(Got) : Got[i] = [Got[1] EXCEPT !.part = i]
          /\ Len(Got) <= PacketCount(Got[1].size)
      BY <2>2, <3>1, GotInOrder
    <3>3. Len(Got) \in Nat \ {0} /\ 1 \in 1..Len(Got) /\ Got \in Seq(Packets)
      BY <3>1, GotTyped
    <3>4. Len(Got) = PacketCount(Got[1].size)
      BY <2>2, <3>1, <3>2, <3>3, CompleteWhen
    <3>5. Got[1] \in Packets /\ Sound(Got[1], sent)
      BY <3>1, <3>3, GotSound
    <3> DEFINE q == Got[1].req
               type == Got[1].type
    <3>6. /\ q \in Requests /\ type \in Types
          /\ Got[1].size = SizeOf(q, type) /\ q <= sent
      BY <3>5 DEF Sound, Packets
    <3>7. \A i \in 1..Len(Got) :
            Got[i] = [req |-> q, type |-> type, part |-> i, size |-> SizeOf(q, type)]
      BY <3>2, <3>5, <3>6 DEF Packets
    <3> HIDE DEF q, type
    <3>8. Got = Frame(q, type, SizeOf(q, type))
      BY <3>3, <3>4, <3>6, <3>7, WholeMessage
    <3>9. q \in 1..result'.req
      <4>1. result'.req = sent /\ sent \in Nat /\ q \in 1..sent
        BY <1>3, <3>1, <3>6, Typed, WireAssumption DEF Requests, Shape, WireTypeOK
      <4> QED
        BY <4>1
    <3>10. result'.got = Frame(q, type, IF type = "button" THEN 0 ELSE size'[q])
      BY <1>3, <3>8 DEF SizeOf
    <3> QED
      BY <3>6, <3>9, <3>10 DEF NeverMixed, Frame
  <2>3. CASE ~lost[Port] /\ Got[1].part # 1
    <3>1. ~result'.fresh
      <4>1. stale[Port]
        BY <2>0, <2>3, GotStarts
      <4> QED
        BY <1>3, <2>0, <4>1 DEF FreshInv
    <3>2. /\ result'.got[1].part # 1 /\ ~result'.fresh
          /\ (Announced(result.got[1]))'.first
      BY <1>3, <2>3, <3>1, <2>0, GotMarked DEF Announced
    <3> QED
      BY <3>2 DEF NeverMixed
  <2> QED
    BY <2>1, <2>2, <2>3
<1> QED
  BY <1>1, <1>2, <1>3, Results

-----------------------------------------------------------------------------
(***************************************************************************)
(* Sockets that owe nothing.                                               *)
(***************************************************************************)

\* What is not on its way to a socket does not get there but by a call.
LEMMA ElsewhereKept ==
  ASSUME NEW p \in Ports, Elsewhere(p), sock'[p] = sock[p],
         p = "wire" => \/ work' = work \/ work' = None
                       \/ work # None /\ work'.sock = work.sock
                       \/ work'.sock # sock[p],
         \A i \in 1..Len(inbox'[p]) :
           \/ \E j \in 1..Len(inbox[p]) : inbox'[p][i] = inbox[p][j]
           \/ ~Ours(inbox'[p][i], sock[p])
  PROVE  Elsewhere(p)'
<1>1. ~WorkOurs(p)'
  BY DEF Elsewhere, WorkOurs
<1>2. ASSUME NEW i \in 1..Len(inbox'[p]) PROVE ~Ours(inbox'[p][i], sock[p])
  BY DEF Elsewhere
<1> QED
  BY <1>1, <1>2 DEF Elsewhere

\* A port where nothing happens.
LEMMA PortKept ==
  ASSUME NEW p \in Ports, FreshPort(p), UNCHANGED size,
         queue'[p] = queue[p], inbox'[p] = inbox[p], sock'[p] = sock[p],
         p = "wire" => work' = work,
         On(p)' <=> On(p), On(p) => call' = call
  PROVE  FreshPort(p)'
<1>1. WorkOurs(p)' <=> WorkOurs(p)
  BY DEF WorkOurs
<1>2. Elsewhere(p)' <=> Elsewhere(p)
  BY <1>1 DEF Elsewhere
<1>3. CASE ~On(p)
  BY <1>2, <1>3 DEF FreshPort, Quiet
<1>4. CASE On(p)
  <2>1. call' = call
    BY <1>4
  <2>2. Asked(p) => Asked(p)'
    BY <1>1, <2>1 DEF Asked
  <2>3. p = "wire" /\ Working => Working'
    BY <2>1 DEF Working
  <2>4. Answered(p) => Answered(p)'
    BY <1>2, <2>1 DEF Answered
  <2> QED
    BY <1>4, <2>2, <2>3, <2>4 DEF FreshPort
<1> QED
  BY <1>3, <1>4

\* The packets of the answer in the order received.
LEMMA AnsweredGot ==
  ASSUME Shape, PacketsSound, call # None, queue[Port] # <<>>,
         NEW type \in {"answer", "failure", "state"}, NEW total, NEW count,
         total = Len(call.got) + Len(queue[Port]), count = PacketCount(size[call.req]),
         Pieces(call.got, 0, total, count, call.req, type),
         Pieces(queue[Port], Len(call.got), total, count, call.req, type)
  PROVE  /\ total \in Nat /\ count \in Nat \ {0}
         /\ Len(Got) \in Nat \ {0} /\ Len(Got) <= total /\ 1 \in 1..Len(Got)
         /\ total - Len(Got) = Len(queue[Port]) - 1
         /\ Got[1].size = size[call.req]
         /\ Pieces(Got, 0, total, count, call.req, type)
<1>1. /\ Port \in Ports /\ Head(queue[Port]) = queue[Port][1]
      /\ Len(call.got) \in Nat /\ Len(Got) = Len(call.got) + 1
      /\ \A k \in 1..Len(call.got) : Got[k] = call.got[k]
      /\ Got[Len(call.got) + 1] = Head(queue[Port])
  BY GotTyped
<1>2. queue[Port] \in Seq(Packets) /\ call.req = sent /\ call.req \in Requests
  BY Typed DEF Calls
<1>3. Len(queue[Port]) \in Nat \ {0}
  BY <1>2, NotEmpty
<1>4. total \in Nat /\ Len(Got) <= total /\ total - Len(Got) = Len(queue[Port]) - 1
  <2>1. PICK a \in Nat : a = Len(call.got)
    BY <1>1
  <2>2. PICK b \in Nat \ {0} : b = Len(queue[Port])
    BY <1>3
  <2>3. total = a + b /\ Len(Got) = a + 1
    BY <1>1, <2>1, <2>2
  <2>4. a + b \in Nat /\ a + 1 <= a + b /\ (a + b) - (a + 1) = b - 1
    OBVIOUS
  <2> QED
    BY <2>2, <2>3, <2>4
<1>5. Pieces(Got, 0, total, count, call.req, type)
  <2> SUFFICES ASSUME NEW i \in 1..Len(Got)
               PROVE  /\ Got[i].req = call.req /\ Got[i].type = type
                      /\ 0 + i <= Got[i].part /\ Got[i].part + total <= count + 0 + i
    BY DEF Pieces
  <2>0. i \in 1..Len(call.got) \/ i = Len(call.got) + 1
    <3>1. \A a \in Nat : \A k \in 1..(a + 1) : k \in 1..a \/ k = a + 1
      OBVIOUS
    <3> QED
      BY <1>1, <3>1, Zenon
  <2>1. CASE i \in 1..Len(call.got)
    BY <1>1, <2>1, Zenon DEF Pieces
  <2>2. CASE i = Len(call.got) + 1
    <3>1. Got[i] = queue[Port][1] /\ 1 \in 1..Len(queue[Port])
      BY <1>1, <1>3, <2>2
    <3>2. /\ Got[i].req = call.req /\ Got[i].type = type
          /\ Len(call.got) + 1 <= Got[i].part /\ Got[i].part + total <= count + Len(call.got) + 1
      BY <3>1 DEF Pieces
    <3>3. count + Len(call.got) + 1 = count + 0 + i /\ 0 + i = Len(call.got) + 1
      <4>1. count \in Nat
        BY <1>2, Answers DEF SizeOf, Types
      <4> QED
        BY <1>1, <2>2, <4>1
    <3> QED
      BY <3>2, <3>3, Zenon
  <2> QED
    BY <2>0, <2>1, <2>2
<1>6. 1 \in 1..Len(Got) /\ Len(Got) \in Nat \ {0}
  BY <1>1
<1>7. Got[1].size = size[call.req]
  BY <1>5, <1>6, GotSound DEF Pieces, Sound, SizeOf
<1>8. count \in Nat \ {0}
  BY <1>2, Answers DEF SizeOf, Types
<1> QED
  BY <1>4, <1>5, <1>6, <1>7, <1>8

\* The last packet of an answer is the last in the socket.
LEMMA LastOfAnswer ==
  ASSUME Shape, PacketsSound, call # None, queue[Port] # <<>>, Answered(Port), Complete(Got),
         Got[1].part = 1
  PROVE  /\ Len(queue[Port]) = 1
         /\ \E type \in {"answer", "failure", "state"} :
              Got = Frame(call.req, type, size[call.req]) /\ Type = type
<1> DEFINE total == Len(call.got) + Len(queue[Port])
           count == PacketCount(size[call.req])
<1>1. PICK type \in {"answer", "failure", "state"} :
        /\ Pieces(call.got, 0, total, count, call.req, type)
        /\ Pieces(queue[Port], Len(call.got), total, count, call.req, type)
  BY DEF Answered
<1>2. /\ total \in Nat /\ count \in Nat \ {0}
      /\ Len(Got) \in Nat \ {0} /\ Len(Got) <= total /\ 1 \in 1..Len(Got)
      /\ total - Len(Got) = Len(queue[Port]) - 1
      /\ Got[1].size = size[call.req]
      /\ Pieces(Got, 0, total, count, call.req, type)
  BY <1>1, AnsweredGot
<1>3. Len(Got) >= count
  BY <1>2, CompleteWhen
<1>4. \A i \in 1..Len(Got) : Got[i] \in Packets /\ Sound(Got[i], sent)
  BY GotSound
<1> HIDE DEF total, count
<1>5. Got[1].part \in Nat
  BY <1>2, <1>4 DEF Packets
<1>6. total <= count
  BY <1>2, <1>5 DEF Pieces
<1>7. Len(Got) = count /\ total = count
  BY <1>2, <1>3, <1>6
<1>8. call.req \in Requests
  BY Typed DEF Calls
<1>9. ASSUME NEW i \in 1..Len(Got)
      PROVE  Got[i] = [req |-> call.req, type |-> type, part |-> i, size |-> SizeOf(call.req, type)]
  <2>1. Got[i] \in Packets /\ Got[i].part \in Nat /\ i \in Nat
    BY <1>4 DEF Packets
  <2>2. /\ Got[i].req = call.req /\ Got[i].type = type
        /\ i <= Got[i].part /\ Got[i].part + total <= count + 0 + i
    BY <1>2 DEF Pieces
  <2>3. Got[i].part = i
    BY <1>2, <1>7, <2>1, <2>2
  <2>4. Got[i].size = SizeOf(call.req, type)
    BY <1>4, <2>2 DEF Sound
  <2> QED
    BY <2>1, <2>2, <2>3, <2>4 DEF Packets
<1>10. SizeOf(call.req, type) = size[call.req]
  BY DEF SizeOf
<1>11. Got \in Seq(Packets)
  BY GotTyped
<1>12. Got = Frame(call.req, type, size[call.req])
  BY <1>7, <1>8, <1>9, <1>10, <1>11, WholeMessage, ZenonT(60) DEF count, Types
<1>13. Len(queue[Port]) = 1
  <2>1. Len(queue[Port]) \in Nat
    BY Typed, NotEmpty
  <2> QED
    BY <1>2, <1>7, <2>1
<1>14. Type = type
  BY <1>2 DEF Pieces, Type, Announced
<1> QED
  BY <1>12, <1>13, <1>14

\* An answer of which no packet was lost, or no further one has the marks of a
\* first, is read from its first packet on.
LEMMA AnswerStarts ==
  ASSUME Shape, PacketsSound, LooksInv, StartInv, NextPacket, Answered(Port), ~stale[Port],
         ~lost[Port] \/ Plain(call.req)
  PROVE  Got[1].part = 1
<1>1. CASE ~lost[Port]
  BY <1>1, GotStarts DEF NextPacket
<1>2. CASE Plain(call.req)
  <2>1. call # None /\ queue[Port] # <<>> /\ call.req \in Requests
    BY Typed DEF NextPacket, Calls
  <2>2. PICK type \in {"answer", "failure", "state"} :
          /\ 1 \in 1..Len(Got) /\ Got[1].size = size[call.req]
          /\ Pieces(Got, 0, Len(call.got) + Len(queue[Port]), PacketCount(size[call.req]),
                    call.req, type)
    BY <2>1, AnsweredGot DEF Answered
  <2>3. Got[1] \in Packets /\ Sound(Got[1], sent) /\ Got[1].req = call.req
    BY <2>1, <2>2, GotSound DEF Pieces
  <2>4. size[call.req] \in Sizes /\ PacketCount(size[call.req]) \in Nat \ {0}
    BY <2>1, Answers DEF Shape, SizeOf, Types
  <2>5. Got[1].part \in 1..PacketCount(size[call.req])
    BY <2>2, <2>3 DEF Sound
  <2>6. Announced(Got[1]).first
    BY GotMarked
  <2> SUFFICES ASSUME Got[1].part # 1 PROVE FALSE
    OBVIOUS
  <2>7. Got[1].part \in 2..PacketCount(size[call.req])
    BY <2>4, <2>5
  <2>8. Got[1].part \in Further /\ Got[1].part <= PacketCount(size[call.req])
    BY <2>4, <2>7 DEF Further
  <2>9. looks[call.req][Got[1].part] # None
    BY <2>1, <2>8 DEF LooksInv
  <2> QED
    BY <1>2, <2>3, <2>6, <2>8, <2>9 DEF Announced, Plain
<1> QED
  BY <1>1, <1>2

\* A packet that comes while the device works on the request asks for a
\* confirmation, and is all there is.
LEMMA ButtonAsked ==
  ASSUME Shape, PacketsSound, call # None, queue[Port] # <<>>, Port = "wire", Working
  PROVE  /\ call.kind = "confirm" /\ Type = "button" /\ Complete(Got)
         /\ work.waiting /\ ~work.acked
         /\ Len(queue["wire"]) = 1 /\ Len(inbox["wire"]) = 0
<1>1. /\ queue["wire"] \in Seq(Packets) /\ inbox["wire"] \in Seq(Mails \cup Presses)
      /\ call.got = <<>> /\ work \in Works
  BY Typed DEF Ports, Working
<1>2. Len(queue["wire"]) \in Nat \ {0} /\ Len(inbox["wire"]) \in Nat
  BY <1>1, NotEmpty
<1>3. /\ work.waiting /\ call.kind = "confirm"
      /\ Len(queue["wire"]) + Len(inbox["wire"]) + (IF work.acked THEN 1 ELSE 0) <= 1
  BY <1>2 DEF Working
<1>4. Len(queue["wire"]) = 1 /\ Len(inbox["wire"]) = 0 /\ ~work.acked
  <2>1. PICK a \in Nat \ {0}, b \in Nat : a = Len(queue["wire"]) /\ b = Len(inbox["wire"])
    BY <1>2
  <2>2. a + b + (IF work.acked THEN 1 ELSE 0) <= 1 /\ work.acked \in BOOLEAN
    BY <1>1, <1>3, <2>1 DEF Works
  <2>3. a = 1 /\ b = 0 /\ ~work.acked
    BY <2>2
  <2> QED
    BY <2>1, <2>3
<1>5. Len(call.got) = 0
  BY <1>1
<1>6. /\ Got[1] = queue["wire"][1] /\ Len(Got) = 1
      /\ 1 \in 1..Len(queue["wire"]) /\ 1 \in 1..Len(Got)
  BY <1>2, <1>5, GotTyped
<1>7. Got[1].type = "button"
  BY <1>6 DEF Working
<1>8. Got[1].size = 0
  BY <1>6, <1>7, GotSound DEF Sound, SizeOf
<1>9. PacketCount(0) = 1
  BY WireAssumption DEF PacketCount
<1>10. Got[1].part = 1
  BY <1>6, <1>8, <1>9, GotSound DEF Sound
<1>11. Type = "button"
  BY <1>7, <1>10 DEF Type, Announced
<1> QED
  BY <1>3, <1>4, <1>6, <1>8, <1>9, <1>10, <1>11, CompleteWhen

\* What a call takes from such a socket is of its own answer, or asks for its
\* own confirmation.
LEMMA FreshTakes ==
  ASSUME Shape, FreshInv, call # None, queue[Port] # <<>>, ~stale[Port]
  PROVE  Answered(Port) \/ (Port = "wire" /\ Working)
BY Typed DEF FreshInv, FreshPort, Asked, On

LEMMA FreshFlag ==
  ASSUME Shape, FreshInv, [WireNext]_wireVars
  PROVE  (call # None => call.fresh = ~stale[Port])'
<1> USE DEF clientVars, deviceVars
<1>1. ASSUME call' = None PROVE (call # None => call.fresh = ~stale[Port])'
  BY <1>1
<1>2. ASSUME call # None,
             call' = call \/ (call'.kind = call.kind /\ call'.fresh = call.fresh), stale' = stale
      PROVE  (call # None => call.fresh = ~stale[Port])'
  BY <1>2 DEF FreshInv, Port
<1>3. ASSUME NEW kind \in Kinds, Call(kind) PROVE (call # None => call.fresh = ~stale[Port])'
  BY <1>3 DEF Call, Port
<1>4. CASE ReceivePart
  BY <1>2, <1>4, Typed DEF ReceivePart, NextPacket, Calls
<1>5. CASE RejectPacket \/ ReceiveAnswer \/ UnexpectedType \/ TimesOut \/ SocketFails
  BY <1>1, <1>5 DEF RejectPacket, ReceiveAnswer, UnexpectedType, TimesOut, SocketFails, GiveUp, Return
<1>6. CASE Confirm
  <2>1. CASE call.rounds + 1 = MaxRounds
    BY <1>1, <1>6, <2>1 DEF Confirm, GiveUp, Return
  <2>2. CASE call.rounds + 1 # MaxRounds
    BY <1>2, <1>6, <2>2, Typed DEF Confirm, NextPacket, NextRound, Calls
  <2> QED
    BY <2>1, <2>2
<1>7. ASSUME NEW port \in Ports, Connect(port) PROVE (call # None => call.fresh = ~stale[Port])'
  BY <1>1, <1>7 DEF Connect
<1>8. CASE (\E port \in Ports : LosePacket(port) \/ LoseRequest(port)) \/ Emulator \/ UNCHANGED wireVars
  <2>1. call' = call /\ stale' = stale
    BY <1>8 DEF LosePacket, LoseRequest, Emulator, TakeWire, TakeLink, AskButton, Confirmed, Finish,
                wireVars
  <2> QED
    BY <1>1, <1>2, <2>1
<1> QED
  BY <1>3, <1>4, <1>5, <1>6, <1>7, <1>8 DEF WireNext, Client

\* A call is made.
LEMMA FreshCall ==
  ASSUME Shape, FreshInv, NEW kind \in Kinds, Call(kind), NEW p \in Ports, ~stale'[p]
  PROVE  FreshPort(p)'
<1> DEFINE m == [kind |-> kind, req |-> sent', sock |-> sock[PortOf(kind)]]
<1>1. /\ m \in Mails /\ PortOf(kind) \in Ports
      /\ inbox'[PortOf(kind)] = Append(inbox[PortOf(kind)], m)
      /\ \A r \in Ports \ {PortOf(kind)} : inbox'[r] = inbox[r]
  BY CallSends
<1>2. /\ ~On(p) /\ FreshPort(p) /\ Quiet(p)
      /\ UNCHANGED <<size, queue, sock, work>>
      /\ On(p)' <=> p = PortOf(kind)
      /\ call'.kind = kind /\ call'.req = sent' /\ call'.got = <<>>
  BY CallTyped DEF Call, On, FreshInv, FreshPort
<1>3. CASE p # PortOf(kind)
  BY <1>1, <1>2, <1>3, PortKept
<1>4. CASE p = PortOf(kind)
  <2> HIDE DEF m
  <2>1. /\ Len(inbox[p]) \in Nat /\ Len(inbox'[p]) = Len(inbox[p]) + 1
        /\ inbox'[p] # <<>>
        /\ \A i \in 1..Len(inbox[p]) : inbox'[p][i] = inbox[p][i]
        /\ inbox'[p][Len(inbox[p]) + 1] = m
    BY <1>1, <1>4, InboxGains
  <2>2. (Len(inbox'[p]) - 1) = Len(inbox[p])
    BY <2>1
  <2>3. m = [kind |-> call'.kind, req |-> call'.req, sock |-> sock'[p]]
    BY <1>2, <1>4 DEF m
  <2>4. Asked(p)'
    BY <1>2, <2>1, <2>2, <2>3 DEF Asked, Quiet, Elsewhere, WorkOurs
  <2> QED
    BY <1>2, <1>4, <2>4 DEF FreshPort
<1> QED
  BY <1>3, <1>4

\* One more packet is received.
LEMMA FreshPart ==
  ASSUME Shape, PacketsSound, FreshInv, ReceivePart, NEW p \in Ports, ~stale'[p]
  PROVE  FreshPort(p)'
<1>1. /\ call # None /\ queue[Port] # <<>> /\ queue' = [queue EXCEPT ![Port] = Tail(@)]
      /\ UNCHANGED <<size, sock, inbox, work, stale>>
  BY DEF ReceivePart, NextPacket, clientVars, deviceVars
<1>2. /\ Port \in Ports /\ \A r \in Ports \ {Port} : queue'[r] = queue[r]
      /\ Len(queue[Port]) \in Nat \ {0} /\ Len(queue'[Port]) = Len(queue[Port]) - 1
      /\ \A i \in 1..Len(queue'[Port]) :
           queue'[Port][i] = queue[Port][i + 1] /\ i + 1 \in 1..Len(queue[Port])
  BY <1>1, QueueTaken
<1>3. /\ call' # None /\ call'.got = Got /\ call'.kind = call.kind /\ call'.req = call.req
      /\ Port' = Port
  BY <1>1, CallKept DEF ReceivePart
<1>4. FreshPort(p)
  BY <1>1 DEF FreshInv
<1>5. CASE p # Port
  BY <1>1, <1>2, <1>3, <1>4, <1>5, PortKept DEF On
<1>6. CASE p = Port
  <2>1. Answered(Port)
    BY <1>1, <1>6, FreshTakes, ButtonAsked DEF ReceivePart
  <2> DEFINE total == Len(call.got) + Len(queue[Port])
             count == PacketCount(size[call.req])
  <2>2. PICK type \in {"answer", "failure", "state"} :
          /\ Pieces(call.got, 0, total, count, call.req, type)
          /\ Pieces(queue[Port], Len(call.got), total, count, call.req, type)
    BY <2>1 DEF Answered
  <2>3. /\ total \in Nat /\ count \in Nat \ {0} /\ Len(Got) \in Nat \ {0}
        /\ total - Len(Got) = Len(queue[Port]) - 1
        /\ Pieces(Got, 0, total, count, call.req, type)
    BY <1>1, <2>2, AnsweredGot
  <2>4. Len(call.got) \in Nat /\ Len(Got) = Len(call.got) + 1
    BY <1>1, GotTyped
  <2>5. Pieces(queue'[Port], Len(Got), total, count, call.req, type)
    <3> HIDE DEF total, count
    <3> SUFFICES ASSUME NEW i \in 1..Len(queue'[Port])
                 PROVE  /\ queue'[Port][i].req = call.req /\ queue'[Port][i].type = type
                        /\ Len(Got) + i <= queue'[Port][i].part
                        /\ queue'[Port][i].part + total <= count + Len(Got) + i
      BY DEF Pieces
    <3>1. queue'[Port][i] = queue[Port][i + 1] /\ i + 1 \in 1..Len(queue[Port]) /\ i \in Nat
      BY <1>2
    <3>2. /\ Len(Got) + i = Len(call.got) + (i + 1)
          /\ count + Len(Got) + i = count + Len(call.got) + (i + 1)
      <4>1. PICK a \in Nat : a = Len(call.got) /\ Len(Got) = a + 1
        BY <2>4
      <4>2. \A c \in Nat : c + (a + 1) + i = c + a + (i + 1) /\ (a + 1) + i = a + (i + 1)
        BY <3>1
      <4> QED
        BY <2>3, <4>1, <4>2
    <3> QED
      BY <2>2, <3>1, <3>2 DEF Pieces
  <2>6. Len(Got) + Len(queue'[Port]) = total
    <3> HIDE DEF total
    <3>1. PICK a \in Nat : a = Len(Got)
      BY <2>3
    <3>2. total \in Nat /\ total - a = Len(queue'[Port])
      BY <1>2, <2>3, <3>1
    <3> QED
      BY <3>1, <3>2
  <2>7. Elsewhere(p)'
    BY <1>1, <1>6, <2>1 DEF Answered, Elsewhere, WorkOurs
  <2>8. Answered(p)'
    BY <1>1, <1>3, <1>6, <2>3, <2>5, <2>6, <2>7 DEF Answered
  <2> QED
    BY <1>3, <1>6, <2>8 DEF FreshPort, On
<1> QED
  BY <1>5, <1>6

\* A call ends with a message, and gives up.
LEMMA FreshEnds ==
  ASSUME Shape, PacketsSound, FreshInv, ReceiveAnswer \/ UnexpectedType,
         NEW p \in Ports, ~stale'[p]
  PROVE  FreshPort(p)'
<1>1. /\ call # None /\ queue[Port] # <<>> /\ queue' = [queue EXCEPT ![Port] = Tail(@)]
      /\ UNCHANGED <<size, sock, inbox, work>> /\ call' = None /\ Complete(Got) /\ Mistaken
      /\ call.kind = "confirm" => Type # "button"
  BY DEF ReceiveAnswer, UnexpectedType, NextPacket, Return, clientVars, deviceVars
<1>2. /\ Port \in Ports /\ \A r \in Ports \ {Port} : queue'[r] = queue[r]
      /\ Len(queue'[Port]) = Len(queue[Port]) - 1
  BY <1>1, QueueTaken
<1>3. FreshPort(p) /\ ~On(p)' /\ ~stale[p]
  BY <1>1, MistakenTyped DEF FreshInv, On
<1>4. CASE p # Port
  BY <1>1, <1>2, <1>3, <1>4, PortKept DEF On
<1>5. CASE p = Port
  <2>1. Answered(Port)
    BY <1>1, <1>3, <1>5, FreshTakes, ButtonAsked
  <2>2. Len(queue[Port]) = 1
    <3>1. Got[1].part = 1
      BY <1>1, <1>5, MistakenTyped
    <3> QED
      BY <1>1, <2>1, <3>1, LastOfAnswer
  <2>3. queue'[Port] \in Seq(Packets) /\ Len(queue'[Port]) = 0
    BY <1>1, <1>2, <2>2, Typed, TakeOne DEF Shape, WireTypeOK
  <2>4. queue'[p] = <<>>
    BY <1>5, <2>3, NotEmpty
  <2>5. Elsewhere(p)'
    BY <1>1, <1>5, <2>1 DEF Answered, Elsewhere, WorkOurs
  <2> QED
    BY <1>3, <2>4, <2>5 DEF FreshPort, Quiet
<1> QED
  BY <1>4, <1>5

LEMMA FreshGivesUp ==
  ASSUME Shape, FreshInv, RejectPacket \/ TimesOut \/ SocketFails, NEW p \in Ports, ~stale'[p]
  PROVE  FreshPort(p)'
<1>1. /\ call # None /\ UNCHANGED <<size, sock, inbox, work>>
      /\ call' = None /\ stale' = [stale EXCEPT ![Port] = TRUE]
      /\ queue' = queue \/ queue' = [queue EXCEPT ![Port] = Tail(@)]
  BY DEF RejectPacket, TimesOut, SocketFails, GiveUp, Return, clientVars, deviceVars
<1>2. p # Port /\ ~stale[p]
  BY <1>1 DEF Shape
<1>3. FreshPort(p) /\ ~On(p) /\ ~On(p)' /\ queue'[p] = queue[p]
  BY <1>1, <1>2 DEF FreshInv, On, Shape, WireTypeOK
<1> QED
  BY <1>1, <1>3, PortKept

\* What was received of an answer, and taken for a request to confirm, leaves the
\* rest of it.
LEMMA AnswerConfirmed ==
  ASSUME Shape, PacketsSound, call # None, queue[Port] # <<>>, Answered(Port), Port = "wire",
         queue' = [queue EXCEPT ![Port] = Tail(@)], UNCHANGED <<size, sock, work>>,
         inbox'["wire"] = Append(inbox["wire"], [kind |-> "ack"]),
         call'.got = <<>>, call'.req = call.req
  PROVE  Answered("wire")'
<1> DEFINE total == Len(call.got) + Len(queue[Port])
           count == PacketCount(size[call.req])
           rest == Len(queue[Port]) - 1
<1>1. PICK type \in {"answer", "failure", "state"} :
        /\ Pieces(call.got, 0, total, count, call.req, type)
        /\ Pieces(queue[Port], Len(call.got), total, count, call.req, type)
  BY DEF Answered
<1>2. /\ \A i \in 1..Len(queue'[Port]) :
           queue'[Port][i] = queue[Port][i + 1] /\ i + 1 \in 1..Len(queue[Port])
      /\ Len(queue[Port]) \in Nat \ {0} /\ Len(queue'[Port]) = rest /\ rest \in Nat
  BY QueueTaken
<1>3. call.got \in Seq(Packets) /\ Len(call.got) \in Nat /\ queue[Port] \in Seq(Packets)
  BY Typed, NotEmpty
<1>4. count \in Nat \ {0} /\ total = Len(call.got) + (rest + 1)
  <2>1. count \in Nat \ {0}
    BY Typed, Answers DEF Calls, SizeOf, Types
  <2> QED
    BY <1>2, <2>1
<1> HIDE DEF total, count, rest
<1>5. Pieces(queue'[Port], 0, rest, count, call.req, type)
  <2> SUFFICES ASSUME NEW i \in 1..Len(queue'[Port])
               PROVE  /\ queue'[Port][i].req = call.req /\ queue'[Port][i].type = type
                      /\ 0 + i <= queue'[Port][i].part
                      /\ queue'[Port][i].part + rest <= count + 0 + i
    BY DEF Pieces
  <2>1. queue'[Port][i] = queue[Port][i + 1] /\ i + 1 \in 1..Len(queue[Port]) /\ i \in Nat
    BY <1>2
  <2>2. PICK x \in Nat : x = queue[Port][i + 1].part
    <3>1. queue[Port][i + 1] \in Packets
      BY <1>3, <2>1, NotEmpty
    <3> QED
      BY <3>1 DEF Packets
  <2>3. PICK a \in Nat : a = Len(call.got)
    BY <1>3
  <2>4. /\ queue[Port][i + 1].req = call.req /\ queue[Port][i + 1].type = type
        /\ a + (i + 1) <= x /\ x + (a + (rest + 1)) <= count + a + (i + 1)
    BY <1>1, <1>4, <2>1, <2>2, <2>3 DEF Pieces
  <2>5. 0 + i <= x /\ x + rest <= count + 0 + i
    <3>1. PICK r \in Nat, c \in Nat : r = rest /\ c = count
      BY <1>2, <1>4
    <3>2. a + (i + 1) <= x /\ x + (a + (r + 1)) <= c + a + (i + 1)
      BY <2>4, <3>1
    <3>3. 0 + i <= x /\ x + r <= c + 0 + i
      <4>1. \A j, g, y, m, n \in Nat :
              g + (j + 1) <= y /\ y + (g + (m + 1)) <= n + g + (j + 1)
              => 0 + j <= y /\ y + m <= n + 0 + j
        OBVIOUS
      <4>2. i \in Nat
        BY <2>1
      <4> QED
        BY <3>2, <4>1, <4>2, Zenon
    <3> QED
      BY <3>1, <3>3
  <2> QED
    BY <2>1, <2>2, <2>4, <2>5
<1>6. Len(<<>>) = 0 /\ \A i \in 1..0 : FALSE
  OBVIOUS
<1>7. Pieces(call'.got, 0, rest, count, call.req, type)
  BY <1>6 DEF Pieces
<1>8. Elsewhere("wire")'
  <2>1. Elsewhere("wire") /\ [kind |-> "ack"] \in Mails \cup Presses
        /\ ~Ours([kind |-> "ack"], sock["wire"])
    BY DEF Answered, Presses, Ours, Kinds
  <2>2. /\ Len(inbox["wire"]) \in Nat /\ Len(inbox'["wire"]) = Len(inbox["wire"]) + 1
        /\ \A i \in 1..Len(inbox["wire"]) : inbox'["wire"][i] = inbox["wire"][i]
        /\ inbox'["wire"][Len(inbox["wire"]) + 1] = [kind |-> "ack"]
    BY <2>1, InboxGains DEF Ports
  <2>3. ASSUME NEW i \in 1..Len(inbox'["wire"])
        PROVE  \/ \E j \in 1..Len(inbox["wire"]) : inbox'["wire"][i] = inbox["wire"][j]
               \/ ~Ours(inbox'["wire"][i], sock["wire"])
    <3>1. i \in 1..Len(inbox["wire"]) \/ i = Len(inbox["wire"]) + 1
      BY <2>2
    <3> QED
      BY <2>1, <2>2, <3>1
  <2> QED
    BY <2>1, <2>3, ElsewhereKept DEF Ports
<1>9. Len(call'.got) + Len(queue'["wire"]) = rest /\ Len(call'.got) = 0
  BY <1>2, <1>6
<1> QED
  BY <1>5, <1>7, <1>8, <1>9 DEF Answered, count

\* A confirmation is given.
LEMMA FreshConfirm ==
  ASSUME Shape, PacketsSound, FreshInv, Confirm, NEW p \in Ports, ~stale'[p]
  PROVE  FreshPort(p)'
<1>1. /\ call # None /\ queue[Port] # <<>> /\ queue' = [queue EXCEPT ![Port] = Tail(@)]
      /\ UNCHANGED <<size, sock, work>> /\ call.kind = "confirm" /\ Port = "wire"
      /\ Complete(Got) /\ Type = "button"
  BY DEF Confirm, NextPacket, Port, PortOf
<1>2. /\ \A r \in Ports \ {"wire"} : queue'[r] = queue[r]
      /\ Len(queue'["wire"]) = Len(queue["wire"]) - 1
  BY <1>1, QueueTaken
<1>3. /\ [kind |-> "ack"] \in Presses /\ [kind |-> "press"] \in Presses
      /\ inbox'["wire"] = Append(inbox["wire"], [kind |-> "ack"])
      /\ inbox'["link"] = Append(inbox["link"], [kind |-> "press"])
  BY ConfirmSends DEF Confirm
<1>4. CASE p = "link"
  <2>1. ~stale[p] /\ ~On(p) /\ ~On(p)'
    BY <1>1, <1>4, Typed DEF Confirm, NextRound, GiveUp, Return, Shape, On, Port, PortOf, Calls, Ports
  <2>2. Quiet(p)
    BY <2>1 DEF FreshInv, FreshPort
  <2>3. /\ Len(inbox[p]) \in Nat /\ Len(inbox'[p]) = Len(inbox[p]) + 1
        /\ \A i \in 1..Len(inbox[p]) : inbox'[p][i] = inbox[p][i]
        /\ inbox'[p][Len(inbox[p]) + 1] = [kind |-> "press"]
    BY <1>3, <1>4, InboxGains DEF Ports
  <2>4. ~Ours([kind |-> "press"], sock[p])
    BY DEF Ours, Kinds
  <2>5. ASSUME NEW i \in 1..Len(inbox'[p])
        PROVE  (\E j \in 1..Len(inbox[p]) : inbox'[p][i] = inbox[p][j]) \/ ~Ours(inbox'[p][i], sock[p])
    <3>1. i \in 1..Len(inbox[p]) \/ i = Len(inbox[p]) + 1
      BY <2>3
    <3> QED
      BY <2>3, <2>4, <3>1
  <2>6. Elsewhere(p)'
    BY <1>1, <2>2, <2>5, ElsewhereKept DEF Quiet
  <2>7. queue'[p] = <<>>
    BY <1>2, <1>4, <2>2 DEF Quiet
  <2> QED
    BY <2>1, <2>6, <2>7 DEF FreshPort, Quiet
<1>5. CASE p = "wire"
  <2>1. call.rounds + 1 # MaxRounds
    BY <1>1, <1>5 DEF Confirm, GiveUp, Shape, Ports
  <2>2. UNCHANGED stale /\ call' = [call EXCEPT !.got = <<>>, !.rounds = @ + 1]
    BY <2>1 DEF Confirm, NextRound
  <2>3. /\ call' # None /\ call'.got = <<>> /\ call'.kind = call.kind /\ call'.req = call.req
        /\ Port' = Port
    <3>1. call \in Calls /\ <<>> \in Seq(Packets)
      BY <1>1, Typed
    <3>2. call.rounds + 1 \in 0..(MaxRounds - 1)
      BY <2>1, <3>1, WireAssumption DEF Calls
    <3>3. call' \in Calls
      BY <2>2, <3>1, <3>2 DEF Calls
    <3> QED
      BY <2>2, <3>1, <3>3, WireAssumption DEF Calls, Port
  <2>4. ASSUME Answered("wire") PROVE Answered("wire")'
    BY <1>1, <1>3, <2>3, <2>4, AnswerConfirmed
  <2>5. Answered("wire") \/ Working
    BY <1>1, <1>5, <2>2, FreshTakes
  <2>6. CASE Answered("wire")
    BY <1>1, <1>5, <2>3, <2>4, <2>6 DEF FreshPort, On
  <2>7. CASE Working
    <3>1. /\ work.waiting /\ ~work.acked
          /\ Len(queue["wire"]) = 1 /\ Len(inbox["wire"]) = 0
      BY <1>1, <2>7, ButtonAsked
    <3>2. /\ Len(inbox'["wire"]) = 1 /\ inbox'["wire"][1] = [kind |-> "ack"]
      BY <1>3, <3>1, InboxGains DEF Ports
    <3>3. Len(queue'["wire"]) = 0
      BY <1>2, <3>1
    <3>4. Working'
      <4>1. \A i \in 1..Len(inbox'["wire"]) : inbox'["wire"][i].kind = "ack"
        BY <3>2
      <4>2. \A i \in 1..Len(queue'["wire"]) : queue'["wire"][i].type = "button"
        BY <3>3
      <4>3. Len(queue'["wire"]) + Len(inbox'["wire"]) + (IF work'.acked THEN 1 ELSE 0) <= 1
        <5>1. ~work'.acked /\ 0 + 1 + 0 <= 1
          BY <1>1, <3>1
        <5> QED
          BY <3>2, <3>3, <5>1
      <4> QED
        BY <1>1, <2>3, <2>7, <3>1, <4>1, <4>2, <4>3 DEF Working
    <3> QED
      BY <1>1, <1>5, <2>3, <3>4 DEF FreshPort, On
  <2> QED
    BY <2>5, <2>6, <2>7
<1> QED
  BY <1>4, <1>5 DEF Ports

\* The test connects anew.
LEMMA FreshConnect ==
  ASSUME Shape, MailsSound, FreshInv, NEW port \in Ports, Connect(port), NEW p \in Ports, ~stale'[p]
  PROVE  FreshPort(p)'
<1>1. call = None /\ UNCHANGED <<size, call, inbox, work>> /\ ~On(p) /\ ~On(p)'
  BY DEF Connect, On, deviceVars
<1>2. CASE p # port
  <2>1. queue'[p] = queue[p] /\ sock'[p] = sock[p] /\ ~stale[p]
    BY <1>2 DEF Connect, Shape, WireTypeOK
  <2>2. FreshPort(p)
    BY <2>1 DEF FreshInv
  <2> QED
    BY <1>1, <2>1, <2>2, PortKept
<1>3. CASE p = port
  <2>1. queue'[p] = <<>> /\ sock'[p] = sock[p] + 1 /\ sock[p] \in Nat
    BY <1>3, WireAssumption DEF Connect, Shape, WireTypeOK
  <2>2. ASSUME NEW i \in 1..Len(inbox'[p]) PROVE ~Ours(inbox'[p][i], sock'[p])
    <3>1. MailOK(p, inbox[p][i], sent, sock[p])
      BY <1>1, <2>2 DEF MailsSound
    <3> QED
      BY <1>1, <2>1, <3>1, WireAssumption DEF MailOK, Mails, Ours, Kinds
  <2>3. ~WorkOurs(p)'
    BY <1>1, <2>1, Typed, WireAssumption DEF WorkOurs, MailsSound, Works
  <2> QED
    BY <1>1, <2>1, <2>2, <2>3 DEF FreshPort, Quiet, Elsewhere
<1> QED
  BY <1>2, <1>3

\* A packet is lost.
LEMMA FreshLosesPacket ==
  ASSUME Shape, FreshInv, NEW port \in Ports, LosePacket(port), NEW p \in Ports, ~stale'[p]
  PROVE  FreshPort(p)'
<1>1. UNCHANGED <<size, sock, call, stale, inbox, work>> /\ FreshPort(p) /\ (On(p)' <=> On(p))
  BY DEF LosePacket, clientVars, deviceVars, FreshInv, On, Port
<1>2. PICK k \in 1..Len(queue[port]) :
        /\ \A r \in Ports \ {port} : queue'[r] = queue[r]
        /\ Len(queue[port]) \in Nat \ {0} /\ Len(queue'[port]) = Len(queue[port]) - 1
        /\ \A i \in 1..Len(queue'[port]) :
             queue'[port][i] = IF i < k THEN queue[port][i] ELSE queue[port][i + 1]
  BY QueueLoses
<1>3. CASE p # port
  BY <1>1, <1>2, <1>3, PortKept
<1>4. CASE p = port
  <2> DEFINE n == Len(queue[p])
  <2>1. /\ n \in Nat \ {0} /\ Len(queue'[p]) = n - 1 /\ queue[p] # <<>>
    BY <1>2, <1>4
  <2>2. ASSUME NEW i \in 1..Len(queue'[p])
        PROVE  /\ i \in 1..n /\ i + 1 \in 1..n /\ i \in Nat
               /\ queue'[p][i] = queue[p][i] \/ queue'[p][i] = queue[p][i + 1]
    <3>1. i \in 1..n /\ i + 1 \in 1..n /\ i \in Nat
      <4> HIDE DEF n
      <4> QED
        BY <2>1
    <3> QED
      BY <1>2, <1>4, <3>1
  <2>3. On(p) /\ (Answered(p) \/ (p = "wire" /\ Working))
    BY <1>1, <2>1 DEF FreshPort, Asked, Quiet
  <2>4. CASE p = "wire" /\ Working
    <3>1. n = 1 /\ work.waiting /\ call.kind = "confirm" /\ Len(inbox[p]) \in Nat
          /\ n + Len(inbox[p]) + (IF work.acked THEN 1 ELSE 0) <= 1
      <4>1. Len(inbox[p]) \in Nat
        BY Typed, NotEmpty
      <4>2. /\ work.waiting /\ call.kind = "confirm"
            /\ n + Len(inbox[p]) + (IF work.acked THEN 1 ELSE 0) <= 1
        BY <2>1, <2>4 DEF Working
      <4> HIDE DEF n
      <4>3. work.acked \in BOOLEAN
        BY <2>4, Typed DEF Working, Works
      <4>4. \A a \in Nat \ {0}, b \in Nat : a + b + 0 <= 1 \/ a + b + 1 <= 1 => a = 1
        OBVIOUS
      <4>5. n + Len(inbox[p]) + 0 <= 1 \/ n + Len(inbox[p]) + 1 <= 1
        BY <4>2, <4>3
      <4> QED
        BY <2>1, <4>1, <4>2, <4>4, <4>5
    <3>2. Len(queue'[p]) = 0
      BY <2>1, <3>1
    <3>3. Len(queue'[p]) + Len(inbox[p]) + (IF work.acked THEN 1 ELSE 0) <= 1
      <4>1. \A b \in Nat, c \in {0, 1} : 1 + b + c <= 1 => 0 + b + c <= 1
        OBVIOUS
      <4>2. PICK c \in {0, 1} : c = IF work.acked THEN 1 ELSE 0
        OBVIOUS
      <4>3. 1 + Len(inbox[p]) + c <= 1
        BY <3>1, <4>2
      <4>4. 0 + Len(inbox[p]) + c <= 1
        BY <3>1, <4>1, <4>3
      <4> QED
        BY <3>2, <4>2, <4>4
    <3>4. \A i \in 1..Len(queue'["wire"]) : queue'["wire"][i].type = "button"
      BY <2>4, <3>2
    <3>5. Working'
      BY <1>1, <2>4, <3>1, <3>3, <3>4 DEF Working
    <3> QED
      BY <1>1, <2>3, <2>4, <3>5 DEF FreshPort
  <2>5. CASE Answered(p)
    <3> DEFINE total == Len(call.got) + n
               count == PacketCount(size[call.req])
    <3>1. PICK type \in {"answer", "failure", "state"} :
            /\ Pieces(call.got, 0, total, count, call.req, type)
            /\ Pieces(queue[p], Len(call.got), total, count, call.req, type)
      BY <2>5 DEF Answered
    <3>2. /\ Len(call.got) \in Nat /\ queue[p] \in Seq(Packets) /\ count \in Nat
          /\ call.got \in Seq(Packets)
      BY <2>3, Typed, NotEmpty, Answers DEF On, Calls, SizeOf, Types
    <3>3. total \in Nat \ {0} /\ Len(call.got) + Len(queue'[p]) = total - 1
      <4> HIDE DEF n
      <4>1. PICK g \in Nat : g = Len(call.got)
        BY <3>2
      <4>2. total = g + n /\ g + (n - 1) = (g + n) - 1 /\ g + n \in Nat \ {0}
        BY <2>1, <4>1
      <4> QED
        BY <2>1, <4>1, <4>2
    <3> HIDE DEF total, count, n
    <3>4. Pieces(call.got, 0, total - 1, count, call.req, type)
      <4> SUFFICES ASSUME NEW i \in 1..Len(call.got)
                   PROVE  /\ call.got[i].req = call.req /\ call.got[i].type = type
                          /\ 0 + i <= call.got[i].part
                          /\ call.got[i].part + (total - 1) <= count + 0 + i
        BY DEF Pieces
      <4>1. call.got[i] \in Packets /\ i \in Nat
        BY <3>2, NotEmpty
      <4>2. PICK x \in Nat : x = call.got[i].part
        BY <4>1 DEF Packets
      <4>3. /\ call.got[i].req = call.req /\ call.got[i].type = type
            /\ 0 + i <= x /\ x + total <= count + 0 + i
        BY <3>1, <4>2 DEF Pieces
      <4>4. x + (total - 1) <= count + 0 + i
        BY <3>2, <3>3, <4>1, <4>3
      <4> QED
        BY <4>2, <4>3, <4>4
    <3>5. Pieces(queue'[p], Len(call.got), total - 1, count, call.req, type)
      <4> DEFINE g == Len(call.got)
      <4>1. g \in Nat
        BY <3>2
      <4>2. \A j \in 1..n :
              /\ queue[p][j].req = call.req /\ queue[p][j].type = type
              /\ queue[p][j].part \in Nat
              /\ g + j <= queue[p][j].part /\ queue[p][j].part + total <= count + g + j
        <5>1. \A j \in 1..n : queue[p][j] \in Packets
          BY <3>2, NotEmpty DEF n
        <5> QED
          BY <3>1, <5>1 DEF Pieces, Packets, n
      <4> HIDE DEF g
      <4> SUFFICES ASSUME NEW i \in 1..Len(queue'[p])
                   PROVE  /\ queue'[p][i].req = call.req /\ queue'[p][i].type = type
                          /\ g + i <= queue'[p][i].part
                          /\ queue'[p][i].part + (total - 1) <= count + g + i
        BY DEF Pieces, g
      <4>3. PICK j \in 1..n : (j = i \/ j = i + 1) /\ queue'[p][i] = queue[p][j] /\ i \in Nat
        BY <2>2
      <4>4. queue[p][j].part \in Nat /\ g + j <= queue[p][j].part
            /\ queue[p][j].part + total <= count + g + j
        BY <4>2
      <4>5. g + i <= queue[p][j].part /\ queue[p][j].part + (total - 1) <= count + g + i
        <5>1. PICK x \in Nat : x = queue[p][j].part
          BY <4>4
        <5>2. g + j <= x /\ x + total <= count + g + j
          BY <4>4, <5>1
        <5>3. g + i <= x /\ x + (total - 1) <= count + g + i
          <6>1. CASE j = i
            BY <3>2, <3>3, <4>1, <4>3, <5>2, <6>1
          <6>2. CASE j = i + 1
            BY <3>2, <3>3, <4>1, <4>3, <5>2, <6>2
          <6> QED
            BY <4>3, <6>1, <6>2
        <5> QED
          BY <5>1, <5>3
      <4> QED
        BY <4>2, <4>3, <4>5
    <3>6. Elsewhere(p)'
      BY <1>1, <2>5 DEF Answered, Elsewhere, WorkOurs
    <3>7. Answered(p)'
      BY <1>1, <3>3, <3>4, <3>5, <3>6 DEF Answered, count
    <3> QED
      BY <1>1, <2>3, <3>7 DEF FreshPort
  <2> QED
    BY <2>3, <2>4, <2>5
<1> QED
  BY <1>3, <1>4

\* A request is lost, or a confirmation.
LEMMA FreshLosesRequest ==
  ASSUME Shape, FreshInv, NEW port \in Ports, LoseRequest(port), NEW p \in Ports, ~stale'[p]
  PROVE  FreshPort(p)'
<1>1. /\ UNCHANGED <<size, sock, call, stale, queue, work>> /\ FreshPort(p)
      /\ (On(p)' <=> On(p)) /\ (WorkOurs(p)' <=> WorkOurs(p))
  BY DEF LoseRequest, clientVars, FreshInv, On, Port, WorkOurs
<1>2. PICK k \in 1..Len(inbox[port]) :
        /\ \A r \in Ports \ {port} : inbox'[r] = inbox[r]
        /\ Len(inbox[port]) \in Nat \ {0} /\ Len(inbox'[port]) = Len(inbox[port]) - 1
        /\ \A i \in 1..Len(inbox'[port]) :
             inbox'[port][i] = IF i < k THEN inbox[port][i] ELSE inbox[port][i + 1]
  BY InboxLoses
<1>3. CASE p # port
  BY <1>1, <1>2, <1>3, PortKept
<1>4. CASE p = port
  <2> DEFINE n == Len(inbox[p])
  <2>1. n \in Nat \ {0} /\ Len(inbox'[p]) = n - 1 /\ k \in 1..n
    BY <1>2, <1>4
  <2>2. ASSUME NEW i \in 1..Len(inbox'[p])
        PROVE  /\ i \in 1..n /\ i + 1 \in 1..n /\ i \in Nat
               /\ inbox'[p][i] = IF i < k THEN inbox[p][i] ELSE inbox[p][i + 1]
    <3>1. i \in 1..n /\ i + 1 \in 1..n /\ i \in Nat
      <4> HIDE DEF n
      <4> QED
        BY <2>1
    <3> QED
      BY <1>2, <1>4, <3>1
  <2>3. Elsewhere(p) => Elsewhere(p)'
    BY <1>1, <2>2, ElsewhereKept
  <2>4. CASE ~On(p)
    BY <1>1, <2>3, <2>4 DEF FreshPort, Quiet
  <2>5. CASE On(p) /\ Answered(p)
    <3>1. Answered(p)'
      BY <1>1, <2>3, <2>5 DEF Answered
    <3> QED
      BY <1>1, <2>5, <3>1 DEF FreshPort
  <2>6. CASE On(p) /\ p = "wire" /\ Working
    <3>1. \A i \in 1..Len(inbox'[p]) : inbox'[p][i].kind = "ack"
      BY <2>2, <2>6 DEF Working
    <3>2. Len(queue[p]) \in Nat /\ work.acked \in BOOLEAN
      BY <2>6, Typed, NotEmpty DEF Working, Works
    <3>3. /\ work.waiting /\ call.kind = "confirm"
          /\ Len(queue[p]) + n + (IF work.acked THEN 1 ELSE 0) <= 1
      BY <2>1, <2>6 DEF Working
    <3>4. Len(queue[p]) + (n - 1) + (IF work.acked THEN 1 ELSE 0) <= 1
      <4> HIDE DEF n
      <4>1. \A a \in Nat, b \in Nat, c \in {0, 1} : a + b + c <= 1 => a + (b - 1) + c <= 1
        OBVIOUS
      <4>2. (IF work.acked THEN 1 ELSE 0) \in {0, 1}
        OBVIOUS
      <4> QED
        BY <2>1, <3>2, <3>3, <4>1, <4>2, Zenon
    <3>5. Working'
      BY <1>1, <2>1, <2>6, <3>1, <3>3, <3>4 DEF Working
    <3> QED
      BY <1>1, <2>6, <3>5 DEF FreshPort
  <2>7. CASE On(p) /\ Asked(p)
    <3>1. CASE k = n
      <4>1. \A i \in 1..Len(inbox'[p]) : ~Ours(inbox'[p][i], sock[p])
        <5> SUFFICES ASSUME NEW i \in 1..Len(inbox'[p]) PROVE ~Ours(inbox'[p][i], sock[p])
          OBVIOUS
        <5>1. i < k /\ i \in 1..(n - 1)
          <6> HIDE DEF n
          <6> QED
            BY <2>1, <3>1
        <5> QED
          BY <2>2, <2>7, <5>1 DEF Asked
      <4>2. Elsewhere(p)'
        BY <1>1, <2>7, <4>1 DEF Asked, Elsewhere
      <4>3. \A i \in 1..Len(<<>>) : FALSE
        BY EmptySeq
      <4>4. Answered(p)'
        BY <1>1, <2>7, <4>2, <4>3 DEF Answered, Asked, Pieces
      <4> QED
        BY <1>1, <2>7, <4>4 DEF FreshPort
    <3>2. CASE k # n
      <4>1. n - 1 \in 1..Len(inbox'[p]) /\ ~(n - 1 < k) /\ (n - 1) + 1 = n
        <5> HIDE DEF n
        <5> QED
          BY <2>1, <3>2
      <4>2. inbox'[p][Len(inbox'[p])] = inbox[p][n]
        BY <2>1, <2>2, <4>1
      <4>3. ASSUME NEW i \in 1..(Len(inbox'[p]) - 1) PROVE ~Ours(inbox'[p][i], sock[p])
        <5>1. i \in 1..Len(inbox'[p]) /\ i \in 1..(n - 1) /\ i + 1 \in 1..(n - 1)
          <6> HIDE DEF n
          <6> QED
            BY <2>1
        <5> QED
          BY <2>2, <2>7, <5>1 DEF Asked
      <4>4. inbox'[p] # <<>>
        BY <4>1
      <4>5. Asked(p)'
        BY <1>1, <2>7, <4>2, <4>3, <4>4 DEF Asked
      <4> QED
        BY <1>1, <2>7, <4>5 DEF FreshPort
    <3> QED
      BY <3>1, <3>2
  <2> QED
    BY <1>1, <2>4, <2>5, <2>6, <2>7 DEF FreshPort
<1> QED
  BY <1>3, <1>4

\* The device takes a datagram at its wire port.
LEMMA FreshTakeWire ==
  ASSUME Shape, Shape', MailsSound, FreshInv, TakeWire, NEW p \in Ports, ~stale'[p]
  PROVE  FreshPort(p)'
<1>1. /\ UNCHANGED <<size, sock, call, stale, queue>> /\ FreshPort(p) /\ (On(p)' <=> On(p))
      /\ inbox["wire"] # <<>> /\ inbox' = [inbox EXCEPT !["wire"] = Tail(@)]
  BY DEF TakeWire, clientVars, FreshInv, On, Port
<1> DEFINE m == Head(inbox["wire"])
           n == Len(inbox["wire"])
<1>2. /\ \A r \in Ports \ {"wire"} : inbox'[r] = inbox[r]
      /\ n \in Nat \ {0} /\ Len(inbox'["wire"]) = n - 1
      /\ \A i \in 1..Len(inbox'["wire"]) :
           inbox'["wire"][i] = inbox["wire"][i + 1] /\ i + 1 \in 1..n
      /\ m = inbox["wire"][1] /\ 1 \in 1..n
  BY <1>1, InboxTail DEF Ports
<1>3. CASE p # "wire"
  BY <1>1, <1>2, <1>3, PortKept
<1>4. CASE p = "wire"
  <2>1. MailOK("wire", m, sent, sock["wire"])
    BY <1>2 DEF MailsSound, Ports
  <2>2. ASSUME m.kind = "ack"
        PROVE  work' = IF work # None /\ work.waiting THEN [work EXCEPT !.acked = TRUE] ELSE work
    BY <2>2 DEF TakeWire
  <2>3. ASSUME m.kind # "ack"
        PROVE  /\ work' = [req |-> m.req, sock |-> m.sock, kind |-> m.kind,
                           waiting |-> FALSE, acked |-> FALSE, pressed |-> FALSE]
               /\ work' # None /\ m \in Mails /\ m.kind \in Kinds
    <3>1. m \in Mails /\ m.kind \in Kinds
      BY <2>1, <2>3 DEF MailOK, Mails
    <3>2. work' = [req |-> m.req, sock |-> m.sock, kind |-> m.kind,
                   waiting |-> FALSE, acked |-> FALSE, pressed |-> FALSE]
      BY <2>3 DEF TakeWire
    <3>3. work' \in Works
      BY <3>1, <3>2 DEF Mails, Works
    <3> QED
      BY <3>1, <3>2, <3>3, WireAssumption
  <2> HIDE DEF m
  <2>4. ASSUME ~Ours(m, sock[p])
        PROVE  \/ work' = work
               \/ work # None /\ work'.sock = work.sock
               \/ work'.sock # sock[p]
    <3>1. CASE m.kind = "ack"
      BY <2>2, <3>1, Typed DEF Works
    <3>2. CASE m.kind # "ack"
      BY <1>4, <2>3, <2>4, <3>2 DEF Ours
    <3> QED
      BY <3>1, <3>2
  <2>5. \A i \in 1..Len(inbox'[p]) : \E j \in 1..Len(inbox[p]) : inbox'[p][i] = inbox[p][j]
    BY <1>2, <1>4
  <2>6. Elsewhere(p) => Elsewhere(p)'
    <3> SUFFICES ASSUME Elsewhere(p) PROVE Elsewhere(p)'
      OBVIOUS
    <3>1. ~Ours(m, sock[p])
      BY <1>2, <1>4 DEF Elsewhere
    <3> QED
      BY <1>1, <2>4, <2>5, <3>1, ElsewhereKept
  <2>7. CASE ~On(p)
    BY <1>1, <2>6, <2>7 DEF FreshPort, Quiet
  <2>8. CASE On(p) /\ Answered(p)
    <3>1. Answered(p)'
      BY <1>1, <2>6, <2>8 DEF Answered
    <3> QED
      BY <1>1, <2>8, <3>1 DEF FreshPort
  <2>9. CASE On(p) /\ Working
    <3>1. m.kind = "ack"
      BY <1>2, <2>9 DEF Working
    <3>2. work.waiting /\ work # None /\ work \in Works /\ call.kind = "confirm"
          /\ Len(queue["wire"]) + n + (IF work.acked THEN 1 ELSE 0) <= 1
      BY <1>2, <2>9, Typed DEF Working
    <3>3. work' = [work EXCEPT !.acked = TRUE]
      BY <2>2, <3>1, <3>2
    <3>4. /\ work' # None /\ work'.sock = work.sock /\ work'.req = work.req
          /\ work'.kind = work.kind /\ work'.waiting /\ work'.acked
      <4>1. work' \in Works
        BY <3>2, <3>3 DEF Works
      <4> QED
        BY <3>2, <3>3, <4>1, WireAssumption DEF Works
    <3>5. Len(queue["wire"]) + (n - 1) + 1 <= 1
      <4>1. \A a, b \in Nat, c \in {0, 1} : a + b + c <= 1 => a + (b - 1) + 1 <= 1
        OBVIOUS
      <4>2. (IF work.acked THEN 1 ELSE 0) \in {0, 1}
        OBVIOUS
      <4>3. Len(queue["wire"]) \in Nat
        BY Typed, NotEmpty DEF Ports
      <4> HIDE DEF n
      <4>4. n \in Nat
        BY <1>2
      <4> QED
        BY <3>2, <4>1, <4>2, <4>3, <4>4, Zenon
    <3>6. \A i \in 1..Len(inbox'["wire"]) : inbox'["wire"][i].kind = "ack"
      BY <1>2, <2>9 DEF Working
    <3>7. Working'
      BY <1>1, <1>2, <2>9, <3>2, <3>4, <3>5, <3>6 DEF Working
    <3> QED
      BY <1>1, <1>4, <2>9, <3>7 DEF FreshPort
  <2>10. CASE On(p) /\ Asked(p)
    <3>1. CASE n = 1
      <4>1. m = [kind |-> call.kind, req |-> call.req, sock |-> sock["wire"]]
        BY <1>2, <1>4, <2>10, <3>1 DEF Asked
      <4>2. call.kind \in Kinds
        BY <2>10, Typed DEF On
      <4>3. m.kind # "ack"
        BY <4>1, <4>2 DEF Kinds
      <4>4. /\ work' # None /\ work'.req = call.req /\ work'.kind = call.kind
            /\ work'.sock = sock["wire"] /\ work'.waiting = FALSE
        BY <2>3, <4>1, <4>3
      <4>5. Len(inbox'["wire"]) = 0
        BY <1>2, <3>1
      <4>6. Len(queue["wire"]) = 0
        BY <1>4, <2>10, EmptySeq DEF Asked
      <4>7. \A i \in 1..0 : FALSE
        OBVIOUS
      <4>8. Working'
        BY <1>1, <1>4, <2>10, <4>4, <4>5, <4>6, <4>7 DEF Working, Asked
      <4> QED
        BY <1>1, <1>4, <2>10, <4>8 DEF FreshPort
    <3>2. CASE n # 1
      <4>1. n - 1 \in 1..Len(inbox'["wire"]) /\ (n - 1) + 1 = n /\ 1 \in 1..(n - 1)
        <5> HIDE DEF n
        <5> QED
          BY <1>2, <3>2
      <4>2. inbox'[p][Len(inbox'[p])] = inbox[p][n] /\ inbox'[p] # <<>>
        BY <1>2, <1>4, <4>1
      <4>3. ASSUME NEW i \in 1..(Len(inbox'[p]) - 1) PROVE ~Ours(inbox'[p][i], sock[p])
        <5>1. i \in 1..Len(inbox'["wire"]) /\ i + 1 \in 1..(n - 1)
          <6>1. Len(inbox'[p]) = n - 1 /\ n \in Nat
            BY <1>2, <1>4
          <6> HIDE DEF n
          <6> QED
            BY <1>4, <6>1
        <5> QED
          BY <1>2, <1>4, <2>10, <5>1 DEF Asked
      <4>4. ~Ours(m, sock[p])
        BY <1>2, <1>4, <2>10, <4>1 DEF Asked
      <4>5. ~WorkOurs(p)'
        BY <1>1, <2>4, <2>10, <4>4 DEF Asked, WorkOurs
      <4>6. Asked(p)'
        BY <1>1, <1>4, <2>10, <4>2, <4>3, <4>5 DEF Asked
      <4> QED
        BY <1>1, <2>10, <4>6 DEF FreshPort
    <3> QED
      BY <3>1, <3>2
  <2> QED
    BY <1>1, <2>7, <2>8, <2>9, <2>10 DEF FreshPort
<1> QED
  BY <1>3, <1>4

\* The answer to the call in progress comes.
LEMMA AnswerComes ==
  ASSUME Shape, call # None, NEW p \in Ports, NEW type \in {"answer", "failure", "state"},
         Len(queue[p]) = 0, call.got = <<>>, UNCHANGED <<size, call>>, Elsewhere(p)',
         Deliver(p, sock[p], Frame(call.req, type, size[call.req]))
  PROVE  Answered(p)'
<1>1. call.req \in Requests /\ SizeOf(call.req, type) = size[call.req]
  BY Typed DEF Calls, SizeOf
<1> DEFINE count == PacketCount(size[call.req])
<1>2. /\ count \in Nat \ {0} /\ Len(queue'[p]) = 0 + count
      /\ \A i \in 1..count :
           queue'[p][0 + i]
           = [req |-> call.req, type |-> type, part |-> i, size |-> size[call.req]]
  BY <1>1, QueueJoined DEF Types
<1>3. Len(call.got) = 0 /\ \A i \in 1..0 : FALSE
  OBVIOUS
<1>4. Pieces(call.got, 0, count, count, call.req, type)
  BY <1>3 DEF Pieces
<1>5. Pieces(queue'[p], 0, count, count, call.req, type)
  <2> HIDE DEF count
  <2> SUFFICES ASSUME NEW i \in 1..Len(queue'[p])
               PROVE  /\ queue'[p][i].req = call.req /\ queue'[p][i].type = type
                      /\ 0 + i <= queue'[p][i].part
                      /\ queue'[p][i].part + count <= count + 0 + i
    BY DEF Pieces
  <2>1. i \in 1..count /\ i \in Nat /\ 0 + i = i
    BY <1>2
  <2>2. queue'[p][i] = [req |-> call.req, type |-> type, part |-> i, size |-> size[call.req]]
    BY <1>2, <2>1
  <2> QED
    BY <1>2, <2>1, <2>2
<1>6. 0 + count = count
  BY <1>2
<1> QED
  BY <1>2, <1>3, <1>4, <1>5, <1>6 DEF Answered

\* The device takes a datagram at its debug link.
LEMMA FreshTakeLink ==
  ASSUME Shape, MailsSound, FreshInv, TakeLink, NEW p \in Ports, ~stale'[p]
  PROVE  FreshPort(p)'
<1>1. /\ UNCHANGED <<size, sock, call, stale>> /\ FreshPort(p) /\ (On(p)' <=> On(p))
      /\ inbox["link"] # <<>> /\ inbox' = [inbox EXCEPT !["link"] = Tail(@)]
  BY DEF TakeLink, clientVars, FreshInv, On, Port
<1> DEFINE m == Head(inbox["link"])
           n == Len(inbox["link"])
<1>2. /\ \A r \in Ports \ {"link"} : inbox'[r] = inbox[r]
      /\ n \in Nat \ {0} /\ Len(inbox'["link"]) = n - 1
      /\ \A i \in 1..Len(inbox'["link"]) :
           inbox'["link"][i] = inbox["link"][i + 1] /\ i + 1 \in 1..n
      /\ m = inbox["link"][1] /\ 1 \in 1..n
  BY <1>1, InboxTail DEF Ports
<1>3. MailOK("link", m, sent, sock["link"])
  BY <1>2 DEF MailsSound, Ports
<1>4. ASSUME m.kind = "press"
      PROVE  /\ UNCHANGED queue
             /\ work' = work \/ (work # None /\ work.waiting /\ work' = [work EXCEPT !.pressed = TRUE])
  BY <1>4 DEF TakeLink
<1>5. ASSUME m.kind # "press"
      PROVE  /\ work' = work /\ m \in Mails
             /\ \E type \in {"state", "failure"} :
                  Deliver("link", m.sock, Frame(m.req, type, size[m.req]))
             /\ m.sock # sock["link"] => queue' = queue
             /\ queue'["wire"] = queue["wire"]
  <2>1. m \in Mails /\ m.req \in Requests
    BY <1>3, <1>5 DEF MailOK, Mails
  <2>2. PICK type \in {"state", "failure"} :
          Deliver("link", m.sock, Frame(m.req, type, SizeOf(m.req, type)))
    BY <1>5 DEF TakeLink, SizeOf
  <2>3. (m.sock # sock["link"] => queue' = queue) /\ queue'["wire"] = queue["wire"]
    <3> HIDE DEF m
    <3> QED
      BY <2>1, <2>2, QueueJoined DEF Ports, Types
  <2> QED
    BY <1>5, <2>1, <2>3 DEF TakeLink
<1> HIDE DEF m
<1>6. CASE p = "wire"
  <2>1. queue'[p] = queue[p] /\ inbox'[p] = inbox[p]
    BY <1>2, <1>4, <1>5, <1>6 DEF Ports
  <2>2. CASE work' = work
    BY <1>1, <2>1, <2>2, PortKept
  <2>3. CASE work # None /\ work' = [work EXCEPT !.pressed = TRUE]
    <3>1. /\ work' # None /\ work'.sock = work.sock /\ work'.req = work.req
          /\ work'.kind = work.kind /\ work'.waiting = work.waiting /\ work'.acked = work.acked
      <4>1. work \in Works /\ work' \in Works
        BY <2>3, Typed DEF Works
      <4> QED
        BY <2>3, <4>1, WireAssumption DEF Works
    <3>2. WorkOurs(p)' <=> WorkOurs(p)
      BY <1>1, <2>3, <3>1 DEF WorkOurs
    <3>3. Elsewhere(p)' <=> Elsewhere(p)
      BY <1>1, <2>1, <3>2 DEF Elsewhere
    <3>4. CASE ~On(p)
      BY <1>1, <2>1, <3>3, <3>4 DEF FreshPort, Quiet
    <3>5. CASE On(p)
      <4>1. Asked(p) => Asked(p)'
        BY <1>1, <2>1, <3>2 DEF Asked
      <4>2. Working => Working'
        BY <1>1, <1>6, <2>1, <3>1 DEF Working
      <4>3. Answered(p) => Answered(p)'
        BY <1>1, <2>1, <3>3 DEF Answered
      <4> QED
        BY <1>1, <3>5, <4>1, <4>2, <4>3 DEF FreshPort
    <3> QED
      BY <3>4, <3>5
  <2> QED
    BY <1>4, <1>5, <2>2, <2>3
<1>7. CASE p = "link"
  <2>1. ~WorkOurs(p) /\ ~WorkOurs(p)'
    BY <1>7 DEF WorkOurs
  <2>2. \A i \in 1..Len(inbox'[p]) : \E j \in 1..Len(inbox[p]) : inbox'[p][i] = inbox[p][j]
    BY <1>2, <1>7
  <2>3. Elsewhere(p) => Elsewhere(p)'
    BY <1>1, <1>7, <2>2, ElsewhereKept
  <2>4. ~Ours(m, sock[p]) => queue'[p] = queue[p]
    BY <1>4, <1>5, <1>7 DEF Ours, Mails
  <2>5. Elsewhere(p) => ~Ours(m, sock[p])
    BY <1>2, <1>7 DEF Elsewhere
  <2>6. CASE ~On(p)
    BY <1>1, <2>3, <2>4, <2>5, <2>6 DEF FreshPort, Quiet
  <2>7. CASE On(p) /\ Answered(p)
    <3>1. Elsewhere(p) /\ Elsewhere(p)' /\ queue'[p] = queue[p]
      BY <2>3, <2>4, <2>5, <2>7 DEF Answered
    <3>2. Answered(p)'
      BY <1>1, <2>7, <3>1 DEF Answered
    <3> QED
      BY <1>1, <2>7, <3>2 DEF FreshPort
  <2>8. CASE On(p) /\ Asked(p)
    <3>1. CASE n = 1
      <4>1. m = [kind |-> call.kind, req |-> call.req, sock |-> sock[p]]
        BY <1>2, <1>7, <2>8, <3>1 DEF Asked
      <4>2. call # None /\ call.kind \in Kinds
        BY <2>8, Typed DEF On
      <4>3. m.kind # "press"
        BY <4>1, <4>2 DEF Kinds
      <4>4. PICK type \in {"state", "failure"} :
              Deliver(p, sock[p], Frame(call.req, type, size[call.req]))
        BY <1>5, <1>7, <4>1, <4>3
      <4>5. Len(queue[p]) = 0 /\ call.got = <<>>
        BY <2>8 DEF Asked
      <4>6. \A i \in 1..Len(inbox'[p]) : FALSE
        BY <1>2, <1>7, <3>1
      <4>7. Elsewhere(p)'
        BY <2>1, <4>6 DEF Elsewhere
      <4>8. UNCHANGED <<size, call>> /\ type \in {"answer", "failure", "state"}
        BY <1>1
      <4>9. Answered(p)'
        BY <4>2, <4>4, <4>5, <4>7, <4>8, AnswerComes
      <4> QED
        BY <1>1, <2>8, <4>9 DEF FreshPort
    <3>2. CASE n # 1
      <4>1. n - 1 \in 1..Len(inbox'["link"]) /\ (n - 1) + 1 = n /\ 1 \in 1..(n - 1)
        <5> HIDE DEF n
        <5> QED
          BY <1>2, <3>2
      <4>2. inbox'[p][Len(inbox'[p])] = inbox[p][n] /\ inbox'[p] # <<>>
        BY <1>2, <1>7, <4>1
      <4>3. ASSUME NEW i \in 1..(Len(inbox'[p]) - 1) PROVE ~Ours(inbox'[p][i], sock[p])
        <5>1. i \in 1..Len(inbox'["link"]) /\ i + 1 \in 1..(n - 1)
          <6>1. Len(inbox'[p]) = n - 1 /\ n \in Nat
            BY <1>2, <1>7
          <6> HIDE DEF n
          <6> QED
            BY <1>7, <6>1
        <5> QED
          BY <1>2, <1>7, <2>8, <5>1 DEF Asked
      <4>4. ~Ours(m, sock[p])
        BY <1>2, <1>7, <2>8, <4>1 DEF Asked
      <4>5. Asked(p)'
        BY <1>1, <1>7, <2>1, <2>4, <2>8, <4>2, <4>3, <4>4 DEF Asked
      <4> QED
        BY <1>1, <2>8, <4>5 DEF FreshPort
    <3> QED
      BY <3>1, <3>2
  <2> QED
    BY <1>1, <1>7, <2>6, <2>7, <2>8 DEF FreshPort
<1> QED
  BY <1>6, <1>7 DEF Ports

\* The device asks for a confirmation, gets it, and answers.
LEMMA FreshDevice ==
  ASSUME Shape, MailsSound, FreshInv, AskButton \/ Confirmed \/ Finish, NEW p \in Ports, ~stale'[p]
  PROVE  FreshPort(p)'
<1>1. /\ UNCHANGED <<size, sock, call, stale, inbox>> /\ FreshPort(p) /\ (On(p)' <=> On(p))
      /\ work # None
  BY DEF AskButton, Confirmed, Finish, clientVars, FreshInv, On, Port
<1>2. work \in Works /\ work.req \in Requests
  BY <1>1, Typed DEF Works
<1>3. /\ work' = None \/ work'.sock = work.sock
      /\ queue'["link"] = queue["link"]
      /\ ~WorkOurs("wire") => queue'["wire"] = queue["wire"]
  <2>1. CASE Confirmed
    BY <1>2, <2>1 DEF Confirmed, Works
  <2>2. CASE AskButton
    <3>1. Deliver("wire", work.sock, Frame(work.req, "button", SizeOf(work.req, "button")))
      BY <2>2 DEF AskButton, SizeOf
    <3>2. work'.sock = work.sock
      BY <1>2, <2>2 DEF AskButton, Works
    <3> QED
      BY <1>1, <1>2, <3>1, <3>2, QueueJoined DEF WorkOurs, Ports, Types
  <2>3. CASE Finish
    <3>1. PICK type \in {"answer", "failure"} :
            Deliver("wire", work.sock, Frame(work.req, type, SizeOf(work.req, type)))
      BY <2>3 DEF Finish, SizeOf
    <3>2. work' = None
      BY <2>3 DEF Finish
    <3> QED
      BY <1>1, <1>2, <3>1, <3>2, QueueJoined DEF WorkOurs, Ports, Types
  <2> QED
    BY <2>1, <2>2, <2>3
<1>4. CASE p = "link"
  BY <1>1, <1>3, <1>4, PortKept
<1>5. CASE p = "wire"
  <2>1. Elsewhere(p) => Elsewhere(p)' /\ queue'[p] = queue[p]
    BY <1>1, <1>3, <1>5 DEF Elsewhere, WorkOurs
  <2>2. CASE ~On(p)
    BY <1>1, <2>1, <2>2 DEF FreshPort, Quiet
  <2>3. CASE On(p) /\ Answered(p)
    <3>1. Answered(p)'
      BY <1>1, <2>1, <2>3 DEF Answered
    <3> QED
      BY <1>1, <2>3, <3>1 DEF FreshPort
  <2>4. CASE On(p) /\ Asked(p)
    <3>1. ~WorkOurs(p)' /\ queue'[p] = queue[p]
      BY <1>1, <1>3, <1>5, <2>4 DEF Asked, WorkOurs
    <3>2. Asked(p)'
      BY <1>1, <2>4, <3>1 DEF Asked
    <3> QED
      BY <1>1, <2>4, <3>2 DEF FreshPort
  <2>5. CASE On(p) /\ Working
    <3>0. /\ Len(queue["wire"]) \in Nat /\ Len(inbox["wire"]) \in Nat
          /\ work.waiting \in BOOLEAN /\ work.acked \in BOOLEAN
      BY <1>2, Typed, NotEmpty DEF Ports, Works
    <3>1. CASE AskButton
      <4>1. ~work.waiting /\ work.kind = "confirm" /\ work' = [work EXCEPT !.waiting = TRUE,
                                                                   !.acked = FALSE, !.pressed = FALSE]
        BY <3>1 DEF AskButton
      <4>2. Len(queue["wire"]) = 0 /\ Len(inbox["wire"]) = 0 /\ call.kind = "confirm"
        BY <2>5, <4>1 DEF Working
      <4>3. Deliver("wire", sock["wire"], Frame(work.req, "button", SizeOf(work.req, "button")))
        BY <2>5, <3>1 DEF AskButton, SizeOf, Working
      <4>4. PacketCount(SizeOf(work.req, "button")) = 1
        BY WireAssumption DEF PacketCount, SizeOf
      <4>5. /\ Len(queue'["wire"]) = Len(queue["wire"]) + 1
            /\ queue'["wire"][Len(queue["wire"]) + 1]
               = [req |-> work.req, type |-> "button", part |-> 1,
                  size |-> SizeOf(work.req, "button")]
        <5>1. 1 \in 1..1
          OBVIOUS
        <5> QED
          BY <1>2, <4>3, <4>4, <5>1, QueueJoined DEF Ports, Types
      <4>6. Len(queue'["wire"]) = 1 /\ queue'["wire"][1].type = "button"
        BY <4>2, <4>5
      <4>7. /\ work' # None /\ work'.sock = work.sock /\ work'.req = work.req
            /\ work'.kind = work.kind /\ work'.waiting = TRUE /\ work'.acked = FALSE
        <5>1. work' \in Works
          BY <1>2, <4>1 DEF Works
        <5> QED
          BY <1>2, <4>1, <5>1, WireAssumption DEF Works
      <4>8. Working'
        BY <1>1, <2>5, <4>2, <4>6, <4>7 DEF Working
      <4> QED
        BY <1>1, <1>5, <2>5, <4>8 DEF FreshPort
    <3>2. CASE Confirmed
      <4>1. work.waiting /\ work.acked /\ work' = [work EXCEPT !.waiting = FALSE]
        BY <3>2 DEF Confirmed
      <4>2. Len(queue["wire"]) = 0 /\ Len(inbox["wire"]) = 0
        <5>1. \A a, b \in Nat : a + b + 1 <= 1 => a = 0 /\ b = 0
          OBVIOUS
        <5>2. Len(queue["wire"]) + Len(inbox["wire"]) + 1 <= 1
          BY <2>5, <4>1 DEF Working
        <5> QED
          BY <3>0, <5>1, <5>2, Zenon
      <4>3. /\ work' # None /\ work'.sock = work.sock /\ work'.req = work.req
            /\ work'.kind = work.kind /\ work'.waiting = FALSE /\ queue' = queue
        <5>1. work' \in Works
          BY <1>2, <4>1 DEF Works
        <5> QED
          BY <1>2, <3>2, <4>1, <5>1, WireAssumption DEF Works, Confirmed
      <4>4. Working'
        BY <1>1, <2>5, <4>2, <4>3 DEF Working
      <4> QED
        BY <1>1, <1>5, <2>5, <4>4 DEF FreshPort
    <3>3. CASE Finish
      <4>1. ~work.waiting /\ work' = None
        BY <3>3 DEF Finish
      <4>2. Len(queue["wire"]) = 0 /\ Len(inbox["wire"]) = 0 /\ call.got = <<>> /\ call # None
        BY <2>5, <4>1 DEF Working, On
      <4>3. PICK type \in {"answer", "failure"} :
              Deliver("wire", sock["wire"], Frame(call.req, type, size[call.req]))
        BY <2>5, <3>3 DEF Finish, Working
      <4>4. Elsewhere("wire")'
        BY <1>1, <4>1, <4>2 DEF Elsewhere, WorkOurs
      <4>5. UNCHANGED <<size, call>> /\ type \in {"answer", "failure", "state"}
        BY <1>1
      <4>6. Answered("wire")'
        BY <4>2, <4>3, <4>4, <4>5, AnswerComes DEF Ports
      <4> QED
        BY <1>1, <1>5, <2>5, <4>6 DEF FreshPort
    <3> QED
      BY <3>1, <3>2, <3>3
  <2> QED
    BY <1>1, <1>5, <2>2, <2>3, <2>4, <2>5 DEF FreshPort
<1> QED
  BY <1>4, <1>5 DEF Ports

LEMMA FreshInit == WireInit => FreshInv
<1> SUFFICES ASSUME WireInit PROVE FreshInv
  OBVIOUS
<1>1. \A p \in Ports : Len(inbox[p]) = 0 /\ queue[p] = <<>>
  BY EmptySeq DEF WireInit
<1> QED
  BY <1>1 DEF WireInit, FreshInv, FreshPort, On, Quiet, Elsewhere, WorkOurs

LEMMA FreshStep ==
  Shape /\ Shape' /\ MailsSound /\ PacketsSound /\ FreshInv /\ [WireNext]_wireVars => FreshInv'
<1> SUFFICES ASSUME Shape, Shape', MailsSound, PacketsSound, FreshInv, [WireNext]_wireVars
             PROVE  FreshInv'
  OBVIOUS
<1> SUFFICES ASSUME NEW p \in Ports, ~stale'[p] PROVE FreshPort(p)'
  BY FreshFlag DEF FreshInv
<1>1. CASE UNCHANGED wireVars
  <2>1. UNCHANGED <<size, queue, sock, inbox, work, call, stale>>
    BY <1>1 DEF wireVars, clientVars, deviceVars
  <2>2. FreshPort(p) /\ (On(p)' <=> On(p))
    BY <2>1 DEF FreshInv, On, Port
  <2> QED
    BY <2>1, <2>2, PortKept
<1> QED
  BY <1>1, FreshCall, FreshPart, FreshEnds, FreshGivesUp, FreshConfirm, FreshConnect,
     FreshLosesPacket, FreshLosesRequest, FreshTakeWire, FreshTakeLink, FreshDevice
     DEF WireNext, Client, Emulator

LEMMA AnswerBelongsStep ==
  /\ Shape /\ PacketsSound /\ LooksInv /\ StartInv /\ FreshInv /\ AnswerBelongs
  /\ [WireNext]_wireVars
  => AnswerBelongs'
<1> SUFFICES ASSUME Shape, PacketsSound, LooksInv, StartInv, FreshInv, AnswerBelongs,
                    [WireNext]_wireVars
             PROVE  AnswerBelongs'
  OBVIOUS
<1>1. ASSUME result' = result, UNCHANGED <<size, looks>> PROVE AnswerBelongs'
  BY <1>1 DEF AnswerBelongs, Plain
<1>2. ASSUME result' = None \/ result'.kind = "error" PROVE AnswerBelongs'
  BY <1>2 DEF AnswerBelongs
<1>3. ASSUME UNCHANGED <<size, looks>>, ReceiveAnswer, result'.req = call.req, result'.got = Got,
             result'.fresh = call.fresh, result'.intact = ~lost[Port]
      PROVE  AnswerBelongs'
  <2>1. CASE ~call.fresh
    BY <1>3, <2>1 DEF AnswerBelongs
  <2>2. CASE lost[Port] /\ ~Plain(call.req)
    BY <1>3, <2>2 DEF AnswerBelongs, Plain
  <2>3. CASE call.fresh /\ (~lost[Port] \/ Plain(call.req))
    <3>1. /\ call # None /\ queue[Port] # <<>> /\ Complete(Got) /\ NextPacket
          /\ call.kind = "confirm" => Type # "button"
      BY <1>3 DEF ReceiveAnswer, NextPacket
    <3>2. ~stale[Port]
      BY <2>3, <3>1 DEF FreshInv
    <3>3. Answered(Port)
      BY <3>1, <3>2, FreshTakes, ButtonAsked
    <3>4. Got[1].part = 1
      BY <2>3, <3>1, <3>2, <3>3, AnswerStarts
    <3>5. PICK type \in {"answer", "failure", "state"} :
            Got = Frame(call.req, type, size[call.req])
      BY <3>1, <3>3, <3>4, LastOfAnswer
    <3> QED
      BY <1>3, <3>5 DEF AnswerBelongs, Frame
  <2> QED
    BY <2>1, <2>2, <2>3
<1> QED
  BY <1>1, <1>2, <1>3, Results

-----------------------------------------------------------------------------
(***************************************************************************)
(* Theorems.                                                               *)
(***************************************************************************)

\* WireInv follows a packet from the request it answers, through the emulator
\* and the socket, to the call that takes it; every step of the clients, the
\* network and the emulator keeps it.
THEOREM WireInvariance == WireSpec => []WireInv
<1>1. WireInit => WireInv
  BY ShapeInit, MailsInit, PacketsInit, LooksInit, ChainInit, StartInit, FreshInit
     DEF WireInv, WireInit, AnswerBelongs, NeverMixed
<1>2. WireInv /\ [WireNext]_wireVars => WireInv'
  BY ShapeStep, MailsStep, PacketsStep, LooksStep, ChainStep, StartStep, FreshStep,
     AnswerBelongsStep, NeverMixedStep
     DEF WireInv
<1> QED
  BY <1>1, <1>2, PTL DEF WireSpec

\* Every variable of the clients, the sockets and the emulator stays within its
\* type, however many calls are made.
THEOREM WireTyped == WireSpec => []WireTypeOK
<1>1. WireInv => WireTypeOK
  BY DEF WireInv, Shape
<1> QED
  BY <1>1, WireInvariance, PTL

\* On a socket that owes nothing to earlier calls, data and refusals are the
\* whole answer to the call's own request, although recv_message looks at
\* neither the sender nor the type; whatever is lost, if no further packet of
\* the answer has the marks of a first one, and else while no packet is lost.
THEOREM AnswersBelong == WireSpec => []AnswerBelongs
<1>1. WireInv => AnswerBelongs
  BY DEF WireInv
<1> QED
  BY <1>1, WireInvariance, PTL

\* While no packet is lost an answer is put together from two in one way only,
\* although recv_message tells a first packet by its bytes: it begins with a
\* further packet that has them, on a socket on which an earlier call went
\* without its answer.
THEOREM AnswersUnmixed == WireSpec => []NeverMixed
<1>1. WireInv => NeverMixed
  BY DEF WireInv
<1> QED
  BY <1>1, WireInvariance, PTL

\* The Yes that recv_with_confirm presses on such a socket confirms what its
\* own request made the device ask, and the device still asks it, unless a
\* packet is lost and a further packet of the answer has a first one's marks.
THEOREM ConfirmsOwn == WireSpec => ConfirmsOwnRequest
<1>1. ASSUME WireInv, Confirm, call.fresh, ~lost[Port] \/ Plain(call.req)
      PROVE  work # None /\ work.waiting /\ work.req = call.req
  <2>1. Shape /\ PacketsSound /\ LooksInv /\ StartInv /\ FreshInv
    BY <1>1 DEF WireInv
  <2>2. /\ call # None /\ queue[Port] # <<>> /\ call.kind = "confirm" /\ Port = "wire"
        /\ NextPacket /\ Complete(Got) /\ Type = "button"
    BY <1>1 DEF Confirm, NextPacket, Port, PortOf
  <2>3. ~stale[Port]
    BY <1>1, <2>1, <2>2 DEF FreshInv
  <2>4. ~Answered(Port)
    <3>1. ASSUME Answered(Port) PROVE Type # "button"
      <4>1. Got[1].part = 1
        BY <1>1, <2>1, <2>2, <2>3, <3>1, AnswerStarts
      <4> QED
        BY <2>1, <2>2, <3>1, <4>1, LastOfAnswer
    <3> QED
      BY <2>2, <3>1
  <2>5. Working
    BY <2>1, <2>2, <2>3, <2>4, FreshTakes
  <2> QED
    BY <2>1, <2>2, <2>5, ButtonAsked DEF Working
<1>2. WireInv => (Confirm /\ call.fresh /\ (~lost[Port] \/ Plain(call.req))
                  => work # None /\ work.waiting /\ work.req = call.req)
  BY <1>1
<1>3. WireSpec => [][Confirm /\ call.fresh /\ (~lost[Port] \/ Plain(call.req))
                     => work # None /\ work.waiting /\ work.req = call.req]_wireVars
  BY <1>2, WireInvariance, PTL
<1> QED
  BY <1>3 DEF ConfirmsOwnRequest
=============================================================================
