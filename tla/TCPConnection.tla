--------------------------- MODULE TCPConnection ---------------------------
(***************************************************************************)
(* The two TCPConnection<T> objects of one connection                      *)
(* (Common/include/NetTCPConnection.h), the byte stream between them and   *)
(* the asio operations they have outstanding.  Each endpoint has its own   *)
(* io_context run by one thread, so its handlers run one at a time; the    *)
(* application's SendPacket and Disconnect only post to that thread.       *)
(*                                                                         *)
(* An asio operation is started by the code ("pending", or "err" at once   *)
(* on a socket that cannot be used), finished by the operating system      *)
(* ("ok" or "err"), and only then does its handler run: between the two    *)
(* other handlers of the endpoint may run, and close the socket.           *)
(*                                                                         *)
(* A byte is a unit.  A header takes one unit, a body header.size units    *)
(* that name the packet they belong to, so that a body read in the place   *)
(* of another packet's, or a body unit read as a header, is seen.          *)
(***************************************************************************)
EXTENDS Naturals, Sequences

CONSTANTS Sizes,            \* body lengths of the packets sent
          MaxServerSend,    \* bounds on the packets sent by each endpoint
          MaxClientSend

ASSUME SizesAssumption == Sizes \subseteq Nat
ASSUME BoundAssumption == MaxServerSend \in Nat /\ MaxClientSend \in Nat

Endpoints == {"server", "client"}
Peer(e)   == IF e = "server" THEN "client" ELSE "server"
MaxSend(e) == IF e = "server" THEN MaxServerSend ELSE MaxClientSend

VARIABLES
    link,           \* the TCP connection: "connecting", "up" or "down"
    sock,           \* m_Socket: "none" (not accepted yet), "open" (is_open()) or "closed"
    posted,         \* handlers posted to the endpoint's io_context: packets and Quit
    m_PktOut,       \* packets being written, the front one on the socket
    wr,             \* outstanding async_write operations
    rd,             \* outstanding async_connect / async_read operation
    wire,           \* wire[e]: units e wrote and its peer has not read
    m_tmpPktIn,     \* the packet being read
    m_PktIn,        \* packets received
    sent,           \* packets passed to SendPacket
    quit,           \* endpoints whose application called Disconnect
    early           \* a write was started before the connection was established

vars == <<link, sock, posted, m_PktOut, wr, rd, wire, m_tmpPktIn, m_PktIn, sent, quit, early>>

\* The n-th packet of an endpoint, with a body of s units that name it.
PacketOf(n, s) == [cmdID |-> n, size |-> s, body |-> [i \in 1..s |-> n]]
Packet == {PacketOf(n, s) : n \in 1..(MaxServerSend + MaxClientSend), s \in Sizes}
Quit == [cmdID |-> 0, size |-> 0, body |-> <<>>]   \* the lambda posted by Disconnect

HeaderUnit(p) == [cmdID |-> p.cmdID, size |-> p.size, val |-> 0]
BodyUnit(v)   == [cmdID |-> 0, size |-> 0, val |-> v]

Ops == [kind : {"connect", "header", "data"}, st : {"pending", "ok", "err"}]
Incoming == [cmdID : Nat, size : Nat, body : Seq(Nat)]

\* Types of the state; an endpoint has at most one read outstanding, so that
\* nothing else writes into m_tmpPktIn while a handler looks at it.
TypeOK ==
    /\ link \in {"connecting", "up", "down"}
    /\ sock \in [Endpoints -> {"none", "open", "closed"}]
    /\ posted \in [Endpoints -> Seq(Packet \union {Quit})]
    /\ m_PktOut \in [Endpoints -> Seq(Packet)]
    /\ wr \in [Endpoints -> Seq(Ops)]
    /\ rd \in [Endpoints -> {<<>>} \union {<<op>> : op \in Ops}]
    /\ wire \in [Endpoints -> Seq([cmdID : Nat, size : Nat, val : Nat])]
    /\ m_tmpPktIn \in [Endpoints -> Incoming]
    /\ m_PktIn \in [Endpoints -> Seq(Incoming)]
    /\ sent \in [Endpoints -> Seq(Packet)]
    /\ quit \in SUBSET Endpoints
    /\ early \in BOOLEAN

\* ClientApp::Connect has called ConnectToServer; the server has not accepted.
Init ==
    /\ link = "connecting"
    /\ sock = [e \in Endpoints |-> IF e = "client" THEN "open" ELSE "none"]
    /\ posted = [e \in Endpoints |-> <<>>]
    /\ m_PktOut = [e \in Endpoints |-> <<>>]
    /\ wr = [e \in Endpoints |-> <<>>]
    /\ rd = [e \in Endpoints |->
                IF e = "client" THEN <<[kind |-> "connect", st |-> "pending"]>> ELSE <<>>]
    /\ wire = [e \in Endpoints |-> <<>>]
    /\ m_tmpPktIn = [e \in Endpoints |-> Quit]
    /\ m_PktIn = [e \in Endpoints |-> <<>>]
    /\ sent = [e \in Endpoints |-> <<>>]
    /\ quit = {}
    /\ early = FALSE
-----------------------------------------------------------------------------
(* asio, as the code uses it *)

\* Starting an operation on a closed or unconnected socket fails at once.
Op(e, k) == [kind |-> k, st |-> IF sock[e] = "open" /\ link # "connecting"
                                THEN "pending" ELSE "err"]

Abort(ops) == [i \in DOMAIN ops |->
                  IF ops[i].st = "pending" THEN [ops[i] EXCEPT !.st = "err"] ELSE ops[i]]

\* m_Socket.close(): pending operations finish with operation_aborted; w and r
\* are the operations left once the running handler's own is gone.
CloseSocket(e, w, r) ==
    /\ sock' = [sock EXCEPT ![e] = "closed"]
    /\ wr' = [wr EXCEPT ![e] = Abort(w)]
    /\ rd' = [rd EXCEPT ![e] = Abort(r)]
    /\ link' = IF link = "connecting" THEN "down" ELSE link

Done(ops, k, st) == ops # <<>> /\ Head(ops).kind = k /\ Head(ops).st = st
Finish(ops, st)  == [ops EXCEPT ![1].st = st]
Pending(ops)     == ops # <<>> /\ Head(ops).st = "pending"

\* A write or a read can fail once the connection is lost or the peer closed.
Failing(e) == link = "down" \/ sock[Peer(e)] = "closed"

\* What the head write puts on the stream.
WriteUnits(e) ==
    LET p == Head(m_PktOut[e])
    IN  IF Head(wr[e]).kind = "header" THEN <<HeaderUnit(p)>>
        ELSE [i \in DOMAIN p.body |-> BodyUnit(p.body[i])]

SendBytes(e) ==
    /\ Pending(wr[e]) /\ link = "up"
    /\ wire' = [wire EXCEPT ![e] = @ \o WriteUnits(e)]
    /\ wr' = [wr EXCEPT ![e] = Finish(@, "ok")]
    /\ UNCHANGED <<link, sock, posted, m_PktOut, rd, m_tmpPktIn, m_PktIn, sent, quit, early>>

FailWrite(e) ==
    /\ Pending(wr[e]) /\ Failing(e)
    /\ wr' = [wr EXCEPT ![e] = Finish(@, "err")]
    /\ UNCHANGED <<link, sock, posted, m_PktOut, rd, wire, m_tmpPktIn, m_PktIn, sent, quit, early>>

\* async_read finishes when the whole buffer is filled, not before.
RecvHeader(e) ==
    /\ Pending(rd[e]) /\ Head(rd[e]).kind = "header"
    /\ wire[Peer(e)] # <<>>
    /\ LET u == Head(wire[Peer(e)])
       IN  m_tmpPktIn' = [m_tmpPktIn EXCEPT ![e].cmdID = u.cmdID, ![e].size = u.size]
    /\ wire' = [wire EXCEPT ![Peer(e)] = Tail(@)]
    /\ rd' = [rd EXCEPT ![e] = Finish(@, "ok")]
    /\ UNCHANGED <<link, sock, posted, m_PktOut, wr, m_PktIn, sent, quit, early>>

RecvData(e) ==
    LET n == Len(m_tmpPktIn[e].body)
    IN  /\ Pending(rd[e]) /\ Head(rd[e]).kind = "data"
        /\ Len(wire[Peer(e)]) >= n
        /\ m_tmpPktIn' = [m_tmpPktIn EXCEPT
                             ![e].body = [i \in 1..n |-> wire[Peer(e)][i].val]]
        /\ wire' = [wire EXCEPT ![Peer(e)] = SubSeq(@, n + 1, Len(@))]
        /\ rd' = [rd EXCEPT ![e] = Finish(@, "ok")]
        /\ UNCHANGED <<link, sock, posted, m_PktOut, wr, m_PktIn, sent, quit, early>>

FailRead(e) ==
    /\ Pending(rd[e]) /\ Head(rd[e]).kind # "connect" /\ Failing(e)
    /\ rd' = [rd EXCEPT ![e] = Finish(@, "err")]
    /\ UNCHANGED <<link, sock, posted, m_PktOut, wr, wire, m_tmpPktIn, m_PktIn, sent, quit, early>>

\* async_connect reaches the listener, or runs out of endpoints.
Establish(outcome) ==
    /\ Pending(rd["client"]) /\ Head(rd["client"]).kind = "connect"
    /\ rd' = [rd EXCEPT !["client"] = Finish(@, outcome)]
    /\ link' = IF outcome = "ok" THEN "up" ELSE "down"
    /\ UNCHANGED <<sock, posted, m_PktOut, wr, wire, m_tmpPktIn, m_PktIn, sent, quit, early>>

LinkFail ==
    /\ link = "up"
    /\ link' = "down"
    /\ UNCHANGED <<sock, posted, m_PktOut, wr, rd, wire, m_tmpPktIn, m_PktIn, sent, quit, early>>
-----------------------------------------------------------------------------
(* Connecting *)

\* The accept handler hands the socket over and ConnectToClient calls ReadHeader.
ConnectToClient ==
    /\ link = "up" /\ sock["server"] = "none"
    /\ sock' = [sock EXCEPT !["server"] = "open"]
    /\ rd' = [rd EXCEPT !["server"] = <<[kind |-> "header", st |-> "pending"]>>]
    /\ UNCHANGED <<link, posted, m_PktOut, wr, wire, m_tmpPktIn, m_PktIn, sent, quit, early>>

\* The handler of ConnectToServer: on an error it does nothing, and the socket stays open.
ConnectToServerDone ==
    /\ rd["client"] # <<>> /\ Head(rd["client"]).kind = "connect" /\ ~Pending(rd["client"])
    /\ rd' = [rd EXCEPT !["client"] =
                 IF Head(@).st = "ok" THEN <<Op("client", "header")>> ELSE <<>>]
    /\ UNCHANGED <<link, sock, posted, m_PktOut, wr, wire, m_tmpPktIn, m_PktIn, sent, quit, early>>

(* The application *)

\* SendPacket copies the packet into a posted handler.
SendPacket(e, n) ==
    LET p == PacketOf(Len(sent[e]) + 1, n)
    IN  /\ Len(sent[e]) < MaxSend(e) /\ sock[e] # "none"
        /\ sent' = [sent EXCEPT ![e] = Append(@, p)]
        /\ posted' = [posted EXCEPT ![e] = Append(@, p)]
        /\ UNCHANGED <<link, sock, m_PktOut, wr, rd, wire, m_tmpPktIn, m_PktIn, quit, early>>

Disconnect(e) ==
    /\ sock[e] = "open" /\ e \notin quit
    /\ posted' = [posted EXCEPT ![e] = Append(@, Quit)]
    /\ quit' = quit \union {e}
    /\ UNCHANGED <<link, sock, m_PktOut, wr, rd, wire, m_tmpPktIn, m_PktIn, sent, early>>
-----------------------------------------------------------------------------
(* Handlers *)

NeverWriting(e) == FALSE

\* bWritingMessage
Writing(e) == m_PktOut[e] # <<>>

RunSend(e) ==
    /\ posted[e] # <<>> /\ Head(posted[e]) # Quit
    /\ posted' = [posted EXCEPT ![e] = Tail(@)]
    /\ m_PktOut' = [m_PktOut EXCEPT ![e] = Append(@, Head(posted[e]))]
    /\ wr' = IF Writing(e) THEN wr ELSE [wr EXCEPT ![e] = Append(@, Op(e, "header"))]
    /\ early' = (early \/ (~Writing(e) /\ link = "connecting"))
    /\ UNCHANGED <<link, sock, rd, wire, m_tmpPktIn, m_PktIn, sent, quit>>

RunClose(e) ==
    /\ posted[e] # <<>> /\ Head(posted[e]) = Quit
    /\ posted' = [posted EXCEPT ![e] = Tail(@)]
    /\ CloseSocket(e, wr[e], rd[e])
    /\ UNCHANGED <<m_PktOut, wire, m_tmpPktIn, m_PktIn, sent, quit, early>>

PopAndStop(e) ==
    /\ m_PktOut' = [m_PktOut EXCEPT ![e] = Tail(@)]
    /\ wr' = [wr EXCEPT ![e] = Tail(@)]

\* pop_front(), and WriteHeader() again if the queue is not empty.
PopAndContinue(e) ==
    /\ m_PktOut' = [m_PktOut EXCEPT ![e] = Tail(@)]
    /\ wr' = [wr EXCEPT ![e] =
                 IF Tail(m_PktOut[e]) = <<>> THEN Tail(@)
                 ELSE Append(Tail(@), Op(e, "header"))]

WriteHeaderDone(e) ==
    /\ Done(wr[e], "header", "ok")
    /\ \/ /\ Head(m_PktOut[e]).body # <<>>
          /\ wr' = [wr EXCEPT ![e] = Append(Tail(@), Op(e, "data"))]
          /\ UNCHANGED m_PktOut
       \/ /\ Head(m_PktOut[e]).body = <<>>
          /\ PopAndContinue(e)
    /\ UNCHANGED <<link, sock, posted, rd, wire, m_tmpPktIn, m_PktIn, sent, quit, early>>

WriteDataDone(e) ==
    /\ Done(wr[e], "data", "ok")
    /\ PopAndContinue(e)
    /\ UNCHANGED <<link, sock, posted, rd, wire, m_tmpPktIn, m_PktIn, sent, quit, early>>

\* The error branches of WriteHeader and WriteData: m_PktOut keeps the packet.
WriteFailed(e) ==
    /\ wr[e] # <<>> /\ Head(wr[e]).st = "err"
    /\ CloseSocket(e, Tail(wr[e]), rd[e])
    /\ UNCHANGED <<posted, m_PktOut, wire, m_tmpPktIn, m_PktIn, sent, quit, early>>

KeepBody(b, n) == b

\* std::vector::resize
Resize(b, n) == [i \in 1..n |-> IF i <= Len(b) THEN b[i] ELSE 0]

PushAndStop(e) ==
    /\ m_PktIn' = [m_PktIn EXCEPT ![e] = Append(@, m_tmpPktIn[e])]
    /\ rd' = [rd EXCEPT ![e] = <<>>]

PushToIncomingQueue(e) ==
    /\ m_PktIn' = [m_PktIn EXCEPT ![e] = Append(@, m_tmpPktIn[e])]
    /\ rd' = [rd EXCEPT ![e] = <<Op(e, "header")>>]

\* The else of ReadHeader's handler lost: the packet is pushed as well.
ReadHeaderFallsThrough(e) ==
    /\ Done(rd[e], "header", "ok")
    /\ m_tmpPktIn' = [m_tmpPktIn EXCEPT ![e].body = Resize(@, m_tmpPktIn[e].size)]
    /\ m_PktIn' = [m_PktIn EXCEPT ![e] = Append(@, m_tmpPktIn[e])]
    /\ rd' = [rd EXCEPT ![e] = IF m_tmpPktIn[e].size > 0
                               THEN <<Op(e, "data"), Op(e, "header")>>
                               ELSE <<Op(e, "header")>>]
    /\ UNCHANGED <<link, sock, posted, m_PktOut, wr, wire, sent, quit, early>>

ReadHeaderDone(e) ==
    /\ Done(rd[e], "header", "ok")
    /\ \/ /\ m_tmpPktIn[e].size > 0
          /\ m_tmpPktIn' = [m_tmpPktIn EXCEPT ![e].body = Resize(@, m_tmpPktIn[e].size)]
          /\ rd' = [rd EXCEPT ![e] = <<Op(e, "data")>>]
          /\ UNCHANGED m_PktIn
       \/ /\ m_tmpPktIn[e].size = 0
          /\ PushToIncomingQueue(e)
          /\ UNCHANGED m_tmpPktIn
    /\ UNCHANGED <<link, sock, posted, m_PktOut, wr, wire, sent, quit, early>>

ReadDataDone(e) ==
    /\ Done(rd[e], "data", "ok")
    /\ PushToIncomingQueue(e)
    /\ UNCHANGED <<link, sock, posted, m_PktOut, wr, wire, m_tmpPktIn, sent, quit, early>>

\* The error branches of ReadHeader and ReadData.
ReadFailed(e) ==
    /\ rd[e] # <<>> /\ Head(rd[e]).kind # "connect" /\ Head(rd[e]).st = "err"
    /\ CloseSocket(e, wr[e], <<>>)
    /\ UNCHANGED <<posted, m_PktOut, wire, m_tmpPktIn, m_PktIn, sent, quit, early>>
-----------------------------------------------------------------------------
System(e) == SendBytes(e) \/ RecvHeader(e) \/ RecvData(e)
Faults(e) == FailWrite(e) \/ FailRead(e)
App(e)    == (\E n \in Sizes : SendPacket(e, n)) \/ Disconnect(e)
Writer(e) == RunSend(e) \/ RunClose(e) \/ WriteHeaderDone(e) \/ WriteDataDone(e) \/ WriteFailed(e)
Reader(e) == ReadHeaderDone(e) \/ ReadDataDone(e) \/ ReadFailed(e)
Opening   == Establish("ok") \/ Establish("err") \/ ConnectToClient \/ ConnectToServerDone

Next ==
    \/ \E e \in Endpoints : System(e) \/ Faults(e) \/ App(e) \/ Writer(e) \/ Reader(e)
    \/ Opening
    \/ LinkFail

Spec == Init /\ [][Next]_vars

\* io_context::run keeps running handlers and a healthy TCP stream keeps moving;
\* the connection attempt ends and the server accepts.  The application never
\* has to send, and nothing has to fail or to be noticed when it failed.
FairSpec ==
    /\ Spec
    /\ WF_vars(Opening)
    /\ \A e \in Endpoints :
        /\ WF_vars(SendBytes(e)) /\ WF_vars(RecvHeader(e) \/ RecvData(e))
        /\ WF_vars(RunSend(e) \/ RunClose(e))
        /\ WF_vars(WriteHeaderDone(e) \/ WriteDataDone(e) \/ WriteFailed(e))
        /\ WF_vars(Reader(e))
-----------------------------------------------------------------------------
(* Properties *)

\* asio allows one async_write on a stream at a time: bWritingMessage and the
\* chain WriteHeader -> WriteData -> WriteHeader never start a second one, and
\* the packet whose bytes asio is sending is still at the front of m_PktOut.
OneWriteAtATime ==
    \A e \in Endpoints : /\ Len(wr[e]) <= 1
                         /\ wr[e] # <<>> => m_PktOut[e] # <<>>

\* A packet waiting in m_PktOut always has a write in progress that will get to
\* it, unless the socket was closed: no hand-over between a finished chain and
\* a posted SendPacket leaves the queue non-empty with nobody writing.
NoStrandedPacket ==
    \A e \in Endpoints : m_PktOut[e] # <<>> /\ wr[e] = <<>> => sock[e] = "closed"

\* A packet sent on an established connection reaches the peer's m_PktIn
\* unless the network fails, an application disconnects, or the client had
\* already written before the connection was up: no error path of the code
\* closes a healthy connection, and no step of the chains gets lost.
SentIsDelivered ==
    \A e \in Endpoints : \A n \in 1..MaxSend(e) :
        (link = "up" /\ Len(sent[e]) >= n)
            ~> (Len(m_PktIn[Peer(e)]) >= n \/ link = "down" \/ quit # {} \/ early)

\* Each direction is a FifoLink, if of a received packet only the header.size
\* first units of the body are looked at.
Seen(p) == [p EXCEPT !.body = [i \in DOMAIN @ \intersect (1..p.size) |-> @[i]]]
Fifo == INSTANCE FifoLink WITH
            delivered <- [e \in Endpoints |->
                             [i \in DOMAIN m_PktIn[Peer(e)] |-> Seen(m_PktIn[Peer(e)][i])]]
ImplementsFifoLink == Fifo!Spec
=============================================================================
