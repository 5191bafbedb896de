----------------------------- MODULE TrezorWire -----------------------------
(***************************************************************************)
(* The UDP clients of the Trezor emulator: TrezorWireClient on the wire    *)
(* port and TrezorDebugLink on the port above it                           *)
(* (protocol/src/trezor_debug.rs).  A call sends a request and takes for   *)
(* its answer whatever message the socket yields next; calls time out, the *)
(* emulator goes on, and its answer comes later.                           *)
(*                                                                         *)
(* One test uses the clients, one call at a time.  The emulator is modelled*)
(* from what the clients rely on: it answers each request it gets to the   *)
(* socket that sent it, asks for confirmations, and gives up a request     *)
(* when the next one arrives.  Datagrams between the two may be lost; on   *)
(* the loopback interface they are neither reordered nor doubled.          *)
(***************************************************************************)
EXTENDS Naturals, Sequences, SequencesExt

CONSTANTS
  FirstRoom, NextRoom,  \* payload a first packet holds (55), and a further one (63)
  Sizes,                \* payload lengths of answers
  Looks,                \* what a further packet may look like, taken for a first one
  MaxRounds,            \* ButtonRequests a call puts up with (10)
  MaxRequests,          \* bound on the calls
  MaxSockets,           \* bound on the sockets opened for each port
  None

Ports == {"wire", "link"}
\* send_and_recv, recv_with_confirm and get_layout.
Kinds == {"plain", "confirm", "layout"}
PortOf(kind) == IF kind = "layout" THEN "link" ELSE "wire"
Requests == 1..MaxRequests
Types == {"answer", "failure", "button", "state"}

VARIABLES
  size,    \* the payload length of each request's answer
  looks,   \* what each further packet of it looks like
  sent,    \* the number of calls made
  call,    \* the call in progress
  result,  \* what the last call returned
  queue,   \* what waits in each socket
  sock,    \* how many sockets were opened for each port
  stale,   \* history: a call on this socket returned without its answer
  lost,    \* history: an answer's packet to this socket was lost
  inbox,   \* what waits at each port of the emulator
  work     \* the wire request the emulator is busy with

clientVars == <<sent, call, result, sock, stale>>
deviceVars == <<inbox, work>>
wireVars == <<size, looks, clientVars, queue, lost, deviceVars>>

Packets == [req : Requests, type : Types, part : Nat, size : Nat]

\* A call in progress: its request, and what of its answer was received.
Calls == [kind : Kinds, req : Requests, got : Seq(Packets), rounds : 0..(MaxRounds - 1),
          fresh : BOOLEAN]

\* A request the emulator works on: whether it waits for a confirmation, and
\* which halves of it came.
Works == [req : Requests, sock : 1..MaxSockets, kind : Kinds,
          waiting : BOOLEAN, acked : BOOLEAN, pressed : BOOLEAN]

ASSUME WireAssumption ==
  /\ FirstRoom \in Nat \ {0} /\ NextRoom \in Nat \ {0} /\ Sizes \subseteq Nat
  /\ Looks \subseteq [first : BOOLEAN, type : Types, size : Nat]
  /\ MaxRounds \in Nat \ {0} /\ MaxSockets \in Nat \ {0} /\ MaxRequests \in Nat
  /\ None \notin Calls /\ None \notin Works

-----------------------------------------------------------------------------
(***************************************************************************)
(* Framing.  Padding fills the last packet, so the receiver holds a        *)
(* message as soon as its packets have room for it.                        *)
(***************************************************************************)

\* The loop of frame_message: a first packet, and further ones for the rest.
PacketCount(n) ==
  IF n <= FirstRoom THEN 1 ELSE 1 + ((n - FirstRoom) + (NextRoom - 1)) \div NextRoom

Frame(q, type, n) ==
  [i \in 1..PacketCount(n) |-> [req |-> q, type |-> type, part |-> i, size |-> n]]

\* The numbers of the packets that are not first ones.
Further == UNION {2..PacketCount(n) : n \in Sizes}

\* What is read of a packet that is taken for a first one.  The payload that a
\* further packet begins with may look like the marks, type and length of one.
Announced(x) ==
  IF x.part = 1 THEN [first |-> TRUE, type |-> x.type, size |-> x.size] ELSE looks[x.req][x.part]

\* The loop of recv_message and its copies: data.len() < payload_len.
Complete(got) == FirstRoom + (Len(got) - 1) * NextRoom >= Announced(got[1]).size

WireInit ==
  /\ size \in [Requests -> Sizes]
  /\ looks \in [Requests -> [Further -> Looks \cup {None}]]
  /\ \A q \in Requests, i \in Further : looks[q][i] = None <=> i > PacketCount(size[q])
  /\ sent = 0 /\ call = None /\ result = None
  /\ queue = [p \in Ports |-> <<>>] /\ sock = [p \in Ports |-> 1]
  /\ stale = [p \in Ports |-> FALSE] /\ lost = [p \in Ports |-> FALSE]
  /\ inbox = [p \in Ports |-> <<>>] /\ work = None
-----------------------------------------------------------------------------
(***************************************************************************)
(* The clients.                                                            *)
(***************************************************************************)

Port == PortOf(call.kind)

Call(kind) ==
  /\ call = None /\ sent < MaxRequests
  /\ sent' = sent + 1
  /\ call' = [kind |-> kind, req |-> sent', got |-> <<>>, rounds |-> 0,
              fresh |-> ~stale[PortOf(kind)]]
  /\ result' = None
  /\ inbox' = [inbox EXCEPT ![PortOf(kind)] =
                 Append(@, [kind |-> kind, req |-> sent', sock |-> sock[PortOf(kind)]])]
  /\ UNCHANGED <<size, looks, queue, sock, stale, lost, work>>

Return(kind, got) ==
  /\ call' = None
  /\ result' = [kind |-> kind, req |-> call.req, got |-> got,
              fresh |-> call.fresh, intact |-> ~lost[Port]]

Got == Append(call.got, Head(queue[Port]))

\* The message that was received, as its first packet announced it.
Type == Announced(Got[1]).type

\* A call that took a further packet for a first one did not get its answer.
Mistaken == stale' = [stale EXCEPT ![Port] = @ \/ Got[1].part # 1]

\* A call that gives up leaves its answer to whoever reads the socket next.
GiveUp == Return("error", <<>>) /\ stale' = [stale EXCEPT ![Port] = TRUE]

\* A message may begin with any packet.
NextPacketAny ==
  /\ call # None /\ queue[Port] # <<>>
  /\ queue' = [queue EXCEPT ![Port] = Tail(@)]

\* The next packet has the marks of a first one, or it belongs to the message
\* being received, whatever it is: each packet starts with the 3f that get_layout
\* looks for, and wire clients do not look.
NextPacket ==
  /\ call # None /\ queue[Port] # <<>>
  /\ call.got # <<>> \/ Announced(Head(queue[Port])).first
  /\ queue' = [queue EXCEPT ![Port] = Tail(@)]

ReceivePart ==
  /\ NextPacket /\ ~Complete(Got)
  /\ call' = [call EXCEPT !.got = Got]
  /\ UNCHANGED <<size, looks, sent, result, sock, stale, lost, deviceVars>>

\* "Invalid wire response": the packet is consumed, the call fails.
RejectPacket ==
  /\ call # None /\ queue[Port] # <<>>
  /\ call.got = <<>> /\ ~Announced(Head(queue[Port])).first
  /\ queue' = [queue EXCEPT ![Port] = Tail(@)]
  /\ GiveUp
  /\ UNCHANGED <<size, looks, sent, sock, lost, deviceVars>>

\* Any message is an answer, but that get_layout wants the type it asked for,
\* and recv_with_confirm knows requests for a button and failures.
ReceiveAnswer ==
  /\ NextPacket /\ Complete(Got)
  /\ call.kind = "layout" => Type = "state"
  /\ call.kind = "confirm" => Type # "button"
  /\ Return(IF call.kind = "confirm" /\ Type = "failure" THEN "device" ELSE "data", Got)
  /\ Mistaken
  /\ UNCHANGED <<size, looks, sent, sock, lost, deviceVars>>

UnexpectedType ==
  /\ NextPacket /\ Complete(Got)
  /\ call.kind = "layout" /\ Type # "state"
  /\ Return("error", <<>>) /\ Mistaken
  /\ UNCHANGED <<size, looks, sent, sock, lost, deviceVars>>

\* ButtonAck on the wire port, then a press of Yes on the debug link.
AckAndPress ==
  inbox' = [inbox EXCEPT !["wire"] = Append(@, [kind |-> "ack"]),
                         !["link"] = Append(@, [kind |-> "press"])]
NextRound == call' = [call EXCEPT !.got = <<>>, !.rounds = @ + 1] /\ UNCHANGED <<result, stale>>

\* Whatever comes is confirmed.
ConfirmAny ==
  /\ NextPacket /\ Complete(Got) /\ call.kind = "confirm"
  /\ AckAndPress
  /\ IF call.rounds + 1 = MaxRounds THEN GiveUp ELSE NextRound
  /\ UNCHANGED <<size, looks, sent, sock, lost, work>>

\* One round more than the loop has.
ConfirmOnceMore ==
  /\ NextPacket /\ Complete(Got)
  /\ call.kind = "confirm" /\ Type = "button"
  /\ AckAndPress
  /\ IF call.rounds = MaxRounds THEN GiveUp ELSE NextRound
  /\ UNCHANGED <<size, looks, sent, sock, lost, work>>

\* The loop has no last round.
ConfirmForever ==
  /\ NextPacket /\ Complete(Got)
  /\ call.kind = "confirm" /\ Type = "button"
  /\ AckAndPress
  /\ call' = [call EXCEPT !.got = <<>>]
  /\ UNCHANGED <<size, looks, sent, result, sock, stale, lost, work>>

\* A request for a button is confirmed, in the last round too, after which the
\* call gives up.
Confirm ==
  /\ NextPacket /\ Complete(Got)
  /\ call.kind = "confirm" /\ Type = "button"
  /\ AckAndPress
  /\ IF call.rounds + 1 = MaxRounds THEN GiveUp ELSE NextRound
  /\ UNCHANGED <<size, looks, sent, sock, lost, work>>

\* timeout() looks at the socket before it looks at the clock.
TimesOut ==
  /\ call # None /\ queue[Port] = <<>>
  /\ GiveUp
  /\ UNCHANGED <<size, looks, sent, queue, sock, lost, deviceVars>>

\* Nobody listened to an earlier datagram, which a connected socket reports.
SocketFails ==
  /\ call # None
  /\ GiveUp
  /\ UNCHANGED <<size, looks, sent, queue, sock, lost, deviceVars>>

\* The test goes on with the old socket and believes it to be new.
ConnectNothing(port) ==
  /\ call = None /\ sock[port] < MaxSockets
  /\ stale' = [stale EXCEPT ![port] = FALSE] /\ lost' = [lost EXCEPT ![port] = FALSE]
  /\ UNCHANGED <<size, looks, sent, call, result, queue, sock, deviceVars>>

\* The test drops its client and connects another; what was under way to the
\* old socket is gone.
Connect(port) ==
  /\ call = None /\ sock[port] < MaxSockets
  /\ sock' = [sock EXCEPT ![port] = @ + 1]
  /\ queue' = [queue EXCEPT ![port] = <<>>]
  /\ stale' = [stale EXCEPT ![port] = FALSE] /\ lost' = [lost EXCEPT ![port] = FALSE]
  /\ UNCHANGED <<size, looks, sent, call, result, deviceVars>>
-----------------------------------------------------------------------------
(***************************************************************************)
(* The emulator, and the datagrams between.                                *)
(***************************************************************************)

\* An answer goes to the socket that asked, if it is still there.
Deliver(port, from, packets) ==
  queue' = IF from = sock[port] THEN [queue EXCEPT ![port] = @ \o packets] ELSE queue

TakeWire ==
  /\ inbox["wire"] # <<>>
  /\ inbox' = [inbox EXCEPT !["wire"] = Tail(@)]
  /\ work' = LET m == Head(inbox["wire"])
             IN IF m.kind # "ack"
                THEN [req |-> m.req, sock |-> m.sock, kind |-> m.kind,
                      waiting |-> FALSE, acked |-> FALSE, pressed |-> FALSE]
                ELSE IF work # None /\ work.waiting THEN [work EXCEPT !.acked = TRUE] ELSE work
  /\ UNCHANGED <<size, looks, clientVars, queue, lost>>

TakeLink ==
  /\ inbox["link"] # <<>>
  /\ inbox' = [inbox EXCEPT !["link"] = Tail(@)]
  /\ LET m == Head(inbox["link"])
     IN IF m.kind = "press"
        THEN /\ work' = IF work # None /\ work.waiting THEN [work EXCEPT !.pressed = TRUE] ELSE work
             /\ UNCHANGED queue
        ELSE /\ \E type \in {"state", "failure"} :
                  Deliver("link", m.sock, Frame(m.req, type, size[m.req]))
             /\ UNCHANGED work
  /\ UNCHANGED <<size, looks, clientVars, lost>>

AskButton ==
  /\ work # None /\ work.kind = "confirm" /\ ~work.waiting
  /\ work' = [work EXCEPT !.waiting = TRUE, !.acked = FALSE, !.pressed = FALSE]
  /\ Deliver("wire", work.sock, Frame(work.req, "button", 0))
  /\ UNCHANGED <<size, looks, clientVars, lost, inbox>>

Confirmed ==
  /\ work # None /\ work.waiting /\ work.acked /\ work.pressed
  /\ work' = [work EXCEPT !.waiting = FALSE]
  /\ UNCHANGED <<size, looks, clientVars, queue, lost, inbox>>

Finish ==
  /\ work # None /\ ~work.waiting
  /\ \E type \in {"answer", "failure"} :
       Deliver("wire", work.sock, Frame(work.req, type, size[work.req]))
  /\ work' = None
  /\ UNCHANGED <<size, looks, clientVars, lost, inbox>>

LosePacket(port) ==
  /\ \E i \in DOMAIN queue[port] : queue' = [queue EXCEPT ![port] = RemoveAt(@, i)]
  /\ lost' = [lost EXCEPT ![port] = TRUE]
  /\ UNCHANGED <<size, looks, clientVars, deviceVars>>

LoseRequest(port) ==
  /\ \E i \in DOMAIN inbox[port] : inbox' = [inbox EXCEPT ![port] = RemoveAt(@, i)]
  /\ UNCHANGED <<size, looks, clientVars, queue, lost, work>>
-----------------------------------------------------------------------------
Client ==
  ReceivePart \/ RejectPacket \/ ReceiveAnswer \/ UnexpectedType \/ Confirm \/ TimesOut

Emulator == TakeWire \/ TakeLink \/ AskButton \/ Confirmed \/ Finish

WireNext ==
  \/ \E kind \in Kinds : Call(kind)
  \/ Client \/ SocketFails
  \/ \E port \in Ports : Connect(port) \/ LosePacket(port) \/ LoseRequest(port)
  \/ Emulator

\* The runtime polls the call, and its timer fires.  The emulator and the
\* network owe nothing.
WireSpec == WireInit /\ [][WireNext]_wireVars /\ WF_wireVars(Client)
-----------------------------------------------------------------------------
(***************************************************************************)
(* Properties.                                                             *)
(***************************************************************************)

\* Every variable stays within its type.
WireTypeOK ==
  /\ sent \in 0..MaxRequests
  /\ call \in Calls \cup {None} /\ (call # None => call.req = sent)
  /\ queue \in [Ports -> Seq(Packets)] /\ sock \in [Ports -> 1..MaxSockets]
  /\ work \in Works \cup {None} /\ (work # None => work.req <= sent)

\* No further packet of the answer has the marks of a first one.
Plain(q) == \A i \in Further : looks[q][i] # None => ~looks[q][i].first

\* On a socket on which every earlier call got its answer, a call that returns
\* data, or the device's refusal, returns the answer to its own request, whole
\* and in order, although neither the type nor the sender of a message is
\* checked; a device failure does not spoil the socket.  Packets may be lost
\* meanwhile, if no other packet of the answer looks like its first.
AnswerBelongs ==
  result # None /\ result.kind \in {"data", "device"} /\ result.fresh
  => \/ ~result.intact /\ ~Plain(result.req)
     \/ \E type \in {"answer", "failure", "state"} :
          result.got = Frame(result.req, type, size[result.req])

\* Late answers may be taken for others, but while no packet is lost no answer
\* is put together from two: what a timeout left of a message is rejected
\* packet by packet until a first packet comes.  Only what looks like one there
\* and is not can be taken for one, and that on no socket but one on which an
\* earlier call went without its answer.
NeverMixed ==
  result # None /\ result.kind \in {"data", "device"} /\ result.intact
  => \/ \E q \in 1..result.req, type \in Types :
          result.got = Frame(q, type, IF type = "button" THEN 0 ELSE size[q])
     \/ result.got[1].part # 1 /\ Announced(result.got[1]).first /\ ~result.fresh

\* The Yes that recv_with_confirm presses by itself, on such a socket, confirms
\* what its own request made the device ask, and the device still asks it; again
\* unless a packet is lost and a further packet of its answer looks like a first.
ConfirmsOwnRequest ==
  [][Confirm /\ call.fresh /\ (~lost[Port] \/ Plain(call.req))
     => work # None /\ work.waiting /\ work.req = call.req]_wireVars

\* Every call returns, however often the device asks for confirmation and
\* whatever is lost.
CallsReturn == call # None ~> call = None
=============================================================================
