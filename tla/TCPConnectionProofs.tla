------------------------ MODULE TCPConnectionProofs ------------------------
(***************************************************************************)
(* Proofs about TCPConnection for any body sizes and any number of         *)
(* packets: the state keeps its types, an endpoint never has two reads or  *)
(* two writes outstanding, m_PktOut is never left without a writer on an   *)
(* open socket, and each direction is a FifoLink.                          *)
(*                                                                         *)
(* The last of these needs to know where on the stream every header lies:  *)
(* the second half of the module lays the frames of the packets sent out   *)
(* behind one another (Layout) and says how far the writer and the reader  *)
(* have come (Written, Reading).                                           *)
(***************************************************************************)
EXTENDS TCPConnection, SequenceTheorems, TLAPS

OneOp == {<<>>} \union {<<op>> : op \in Ops}
Unit  == [cmdID : Nat, size : Nat, val : Nat]

\* The write chain of endpoint e: its one write works for the front of
\* m_PktOut, and only closing the socket ends the chain early.
Chain(e) ==
    /\ wr[e] \in OneOp
    /\ wr[e] # <<>> => m_PktOut[e] # <<>>
    /\ m_PktOut[e] # <<>> /\ wr[e] = <<>> => sock[e] = "closed"

IInv == TypeOK /\ \A e \in Endpoints : Chain(e)
-----------------------------------------------------------------------------
(* Operations, packets and bodies *)

LEMMA EndpointFacts ==
    /\ \A e \in Endpoints : Peer(e) \in Endpoints /\ MaxSend(e) \in Nat
                            /\ MaxSend(e) <= MaxServerSend + MaxClientSend
    /\ "client" \in Endpoints /\ "server" \in Endpoints
  BY BoundAssumption DEF Endpoints, Peer, MaxSend

\* A list of at most one operation: its head, and what replacing it gives.
LEMMA OneOpFacts ==
    ASSUME NEW ops \in OneOp
    PROVE  /\ ops \in Seq(Ops) /\ Len(ops) <= 1
           /\ ops # <<>> => /\ Head(ops) \in Ops /\ Head(ops) = ops[1]
                            /\ Tail(ops) = <<>>
                            /\ \A op \in Ops : Append(Tail(ops), op) = <<op>>
  <1>1. CASE ops = <<>>
    BY <1>1, EmptySeq
  <1>2. ASSUME NEW o \in Ops, ops = <<o>>
        PROVE  /\ ops \in Seq(Ops) /\ Len(ops) <= 1
               /\ Head(ops) \in Ops /\ Head(ops) = ops[1]
    BY <1>2
  <1>3. ASSUME NEW o \in Ops, ops = <<o>>
        PROVE  /\ Tail(ops) = <<>>
               /\ \A op \in Ops : Append(Tail(ops), op) = <<op>>
    BY <1>3
  <1>. QED  BY <1>1, <1>2, <1>3 DEF OneOp

LEMMA OpType ==
    ASSUME NEW e, NEW k \in {"connect", "header", "data"}
    PROVE  Op(e, k) \in Ops /\ <<Op(e, k)>> \in OneOp /\ <<Op(e, k)>> # <<>>
  BY DEF Op, Ops, OneOp

\* close() turns pending operations into failed ones and drops none.
LEMMA AbortType ==
    ASSUME NEW ops \in OneOp
    PROVE  Abort(ops) \in OneOp /\ (Abort(ops) = <<>> <=> ops = <<>>)
  <1>1. CASE ops = <<>>
    BY <1>1 DEF Abort, OneOp
  <1>2. ASSUME NEW op \in Ops, ops = <<op>>
        PROVE  Abort(ops) \in OneOp /\ Abort(ops) # <<>>
    <2> DEFINE new == IF op.st = "pending" THEN [op EXCEPT !.st = "err"] ELSE op
    <2>1. new \in Ops
      BY DEF Ops
    <2>2. Abort(ops) = <<new>>
      BY <1>2 DEF Abort
    <2>. QED  BY <2>1, <2>2 DEF OneOp
  <1>. QED  BY <1>1, <1>2 DEF OneOp

LEMMA FinishType ==
    ASSUME NEW ops \in OneOp, ops # <<>>, NEW st \in {"ok", "err"}
    PROVE  Finish(ops, st) \in OneOp /\ Finish(ops, st) # <<>>
  <1>1. PICK op \in Ops : ops = <<op>>
    BY DEF OneOp
  <1>2. [op EXCEPT !.st = st] \in Ops
    BY DEF Ops
  <1>3. Finish(ops, st) = <<[op EXCEPT !.st = st]>>
    BY <1>1 DEF Finish, Ops
  <1>. QED  BY <1>2, <1>3 DEF OneOp

LEMMA PacketType ==
    ASSUME NEW p \in Packet
    PROVE  /\ p.cmdID \in Nat /\ p.size \in Nat
           /\ DOMAIN p.body = 1..p.size /\ \A i \in DOMAIN p.body : p.body[i] \in Nat
  BY SizesAssumption, BoundAssumption DEF Packet, PacketOf

LEMMA NewPacket ==
    ASSUME NEW k \in 1..(MaxServerSend + MaxClientSend), NEW n \in Sizes
    PROVE  PacketOf(k, n) \in Packet
  BY DEF Packet

\* A function on 1..n with natural values is a sequence of naturals.
LEMMA NatSeq ==
    ASSUME NEW n \in Nat, NEW f \in [1..n -> Nat]
    PROVE  f \in Seq(Nat)
  BY SeqDef

LEMMA ResizeType ==
    ASSUME NEW b \in Seq(Nat), NEW n \in Nat
    PROVE  Resize(b, n) \in Seq(Nat)
  <1>1. \A i \in 1..n : i <= Len(b) => b[i] \in Nat
    BY LenProperties, ElementOfSeq
  <1>2. Resize(b, n) \in [1..n -> Nat]
    BY <1>1 DEF Resize
  <1>. QED  BY <1>2, NatSeq

\* What a write puts on the stream is units.
LEMMA WriteUnitsType ==
    ASSUME IInv, NEW e \in Endpoints, wr[e] # <<>>
    PROVE  WriteUnits(e) \in Seq(Unit)
  <1> DEFINE p == Head(m_PktOut[e])
  <1>1. p \in Packet
    BY HeadTailProperties DEF IInv, TypeOK, Chain
  <1>2. HeaderUnit(p) \in Unit
    BY <1>1, PacketType DEF HeaderUnit, Unit
  <1>3. p.size \in Nat /\ DOMAIN p.body = 1..p.size
        /\ \A i \in 1..p.size : BodyUnit(p.body[i]) \in Unit
    BY <1>1, PacketType DEF BodyUnit, Unit
  <1>4. [i \in DOMAIN p.body |-> BodyUnit(p.body[i])] \in [1..p.size -> Unit]
    BY <1>3
  <1>5. [i \in DOMAIN p.body |-> BodyUnit(p.body[i])] \in Seq(Unit)
    BY <1>3, <1>4, SeqDef
  <1>. QED  BY <1>2, <1>5 DEF WriteUnits
-----------------------------------------------------------------------------
LEMMA InitIInv == Init => IInv
  <1> SUFFICES ASSUME Init PROVE IInv
    OBVIOUS
  <1>1. \A S : <<>> \in Seq(S)
    BY EmptySeq
  <1>2. Quit \in Incoming
    BY <1>1 DEF Quit, Incoming
  <1>3. <<[kind |-> "connect", st |-> "pending"]>> \in {<<op>> : op \in Ops}
    BY DEF Ops
  <1>4. TypeOK
    BY <1>1, <1>2, <1>3 DEF Init, TypeOK, Endpoints
  <1>5. \A e \in Endpoints : Chain(e)
    BY DEF Init, Chain, OneOp
  <1>. QED  BY <1>4, <1>5 DEF IInv

\* Operations finishing in the operating system.
LEMMA SystemIInv ==
    ASSUME IInv, NEW e \in Endpoints, System(e) \/ Faults(e)
    PROVE  IInv'
  <1> USE EndpointFacts DEF IInv
  <1>1. wr[e] \in OneOp /\ rd[e] \in OneOp
    BY DEF Chain, TypeOK, OneOp
  <1>2. CASE SendBytes(e)
    <2>1. wire' \in [Endpoints -> Seq(Unit)]
      BY <1>2, WriteUnitsType, ConcatProperties DEF SendBytes, Pending, TypeOK, Unit
    <2>2. Finish(wr[e], "ok") \in OneOp /\ Finish(wr[e], "ok") # <<>>
      BY <1>1, <1>2, FinishType DEF SendBytes, Pending
    <2>3. TypeOK'
      BY <1>2, <2>1, <2>2, OneOpFacts DEF SendBytes, TypeOK, Unit
    <2>4. \A d \in Endpoints : Chain(d)'
      BY <1>2, <2>2 DEF SendBytes, Pending, TypeOK, Chain
    <2>. QED  BY <2>3, <2>4
  <1>3. CASE FailWrite(e)
    <2>1. Finish(wr[e], "err") \in OneOp /\ Finish(wr[e], "err") # <<>>
      BY <1>1, <1>3, FinishType DEF FailWrite, Pending
    <2>2. TypeOK'
      BY <1>3, <2>1, OneOpFacts DEF FailWrite, TypeOK
    <2>3. \A d \in Endpoints : Chain(d)'
      BY <1>3, <2>1 DEF FailWrite, Pending, TypeOK, Chain
    <2>. QED  BY <2>2, <2>3
  <1>4. CASE RecvHeader(e)
    <2> DEFINE u == Head(wire[Peer(e)])
    <2>1. u \in Unit /\ Tail(wire[Peer(e)]) \in Seq(Unit)
      BY <1>4, HeadTailProperties DEF RecvHeader, TypeOK, Unit
    <2>2. m_tmpPktIn' \in [Endpoints -> Incoming]
      BY <1>4, <2>1 DEF RecvHeader, TypeOK, Unit, Incoming
    <2>3. Finish(rd[e], "ok") \in OneOp
      BY <1>1, <1>4, FinishType DEF RecvHeader, Pending
    <2>4. TypeOK'
      BY <1>4, <2>1, <2>2, <2>3 DEF RecvHeader, TypeOK, Unit, OneOp
    <2>. QED  BY <1>4, <2>4 DEF RecvHeader, Chain
  <1>5. CASE RecvData(e)
    <2> DEFINE n == Len(m_tmpPktIn[e].body)
               w == wire[Peer(e)]
    <2>1. n \in Nat /\ w \in Seq(Unit) /\ Len(w) >= n
      BY <1>5, LenProperties DEF RecvData, TypeOK, Incoming, Unit
    <2>2. \A i \in 1..n : w[i] \in Unit
      BY <2>1, LenProperties, ElementOfSeq
    <2>3. [i \in 1..n |-> w[i].val] \in [1..n -> Nat]
      BY <2>2 DEF Unit
    <2>4. [i \in 1..n |-> w[i].val] \in Seq(Nat)
      BY <2>1, <2>3, NatSeq
    <2>5. m_tmpPktIn' \in [Endpoints -> Incoming]
      BY <1>5, <2>4 DEF RecvData, TypeOK, Incoming
    <2>6. SubSeq(w, n + 1, Len(w)) \in Seq(Unit)
      <3>1. \A i \in (n + 1)..Len(w) : w[i] \in Unit
        BY <2>1, LenProperties, ElementOfSeq
      <3>. QED  BY <2>1, <3>1, LenProperties, SubSeqProperties
    <2>7. Finish(rd[e], "ok") \in OneOp
      BY <1>1, <1>5, FinishType DEF RecvData, Pending
    <2>8. TypeOK'
      BY <1>5, <2>5, <2>6, <2>7 DEF RecvData, TypeOK, Unit, OneOp
    <2>. QED  BY <1>5, <2>8 DEF RecvData, Chain
  <1>6. CASE FailRead(e)
    <2>1. Finish(rd[e], "err") \in OneOp
      BY <1>1, <1>6, FinishType DEF FailRead, Pending
    <2>2. TypeOK'
      BY <1>6, <2>1 DEF FailRead, TypeOK, OneOp
    <2>. QED  BY <1>6, <2>2 DEF FailRead, Chain
  <1>. QED  BY <1>2, <1>3, <1>4, <1>5, <1>6 DEF System, Faults

\* The connection coming up or going down.
LEMMA OpeningIInv ==
    ASSUME IInv, Opening \/ LinkFail
    PROVE  IInv'
  <1> USE EndpointFacts DEF IInv
  <1>1. CASE Establish("ok") \/ Establish("err")
    <2>1. PICK st \in {"ok", "err"} : Establish(st)
      BY <1>1
    <2>2. Finish(rd["client"], st) \in OneOp
      BY <2>1, FinishType DEF Establish, Pending, TypeOK, OneOp
    <2>3. TypeOK'
      BY <2>1, <2>2 DEF Establish, TypeOK, OneOp
    <2>. QED  BY <2>1, <2>3 DEF Establish, Chain
  <1>2. CASE ConnectToClient
    <2>1. <<[kind |-> "header", st |-> "pending"]>> \in OneOp
      BY DEF OneOp, Ops
    <2>2. TypeOK'
      BY <1>2, <2>1 DEF ConnectToClient, TypeOK, OneOp
    <2>. QED  BY <1>2, <2>2 DEF ConnectToClient, Chain, TypeOK
  <1>3. CASE ConnectToServerDone
    <2>1. <<Op("client", "header")>> \in OneOp
      BY OpType
    <2>2. TypeOK'
      BY <1>3, <2>1 DEF ConnectToServerDone, TypeOK, OneOp
    <2>. QED  BY <1>3, <2>2 DEF ConnectToServerDone, Chain
  <1>4. CASE LinkFail
    <2>1. TypeOK'
      BY <1>4 DEF LinkFail, TypeOK
    <2>. QED  BY <1>4, <2>1 DEF LinkFail, Chain
  <1>. QED  BY <1>1, <1>2, <1>3, <1>4 DEF Opening

\* SendPacket and Disconnect only post.
LEMMA AppIInv ==
    ASSUME IInv, NEW e \in Endpoints, App(e)
    PROVE  IInv'
  <1> USE EndpointFacts DEF IInv
  <1>1. ASSUME NEW n \in Sizes, SendPacket(e, n) PROVE IInv'
    <2> DEFINE k == Len(sent[e]) + 1
               p == PacketOf(k, n)
    <2>1. k \in 1..(MaxServerSend + MaxClientSend)
      <3>1. sent[e] \in Seq(Packet) /\ Len(sent[e]) < MaxSend(e)
        BY <1>1 DEF SendPacket, TypeOK
      <3>2. Len(sent[e]) \in Nat
        BY <3>1, LenProperties
      <3>3. MaxSend(e) \in Nat /\ MaxSend(e) <= MaxServerSend + MaxClientSend
        BY EndpointFacts
      <3>. QED  BY <3>1, <3>2, <3>3, BoundAssumption
    <2>2. p \in Packet
      BY <2>1, NewPacket
    <2>3. sent' = [sent EXCEPT ![e] = Append(@, p)] /\ posted' = [posted EXCEPT ![e] = Append(@, p)]
      BY <1>1 DEF SendPacket
    <2>4. sent' \in [Endpoints -> Seq(Packet)]
      BY <2>2, <2>3, AppendProperties DEF TypeOK
    <2>5. posted' \in [Endpoints -> Seq(Packet \union {Quit})]
      BY <2>2, <2>3, AppendProperties DEF TypeOK
    <2>6. TypeOK'
      BY <1>1, <2>4, <2>5 DEF SendPacket, TypeOK
    <2>. QED  BY <1>1, <2>6 DEF SendPacket, Chain
  <1>2. CASE Disconnect(e)
    <2>1. posted' \in [Endpoints -> Seq(Packet \union {Quit})]
      BY <1>2, AppendProperties DEF Disconnect, TypeOK
    <2>2. TypeOK'
      BY <1>2, <2>1 DEF Disconnect, TypeOK
    <2>. QED  BY <1>2, <2>2 DEF Disconnect, Chain
  <1>. QED  BY <1>1, <1>2 DEF App

\* A socket closed by a handler leaves operations only as many as it had.
LEMMA CloseIInv ==
    ASSUME IInv, NEW e \in Endpoints, NEW w \in OneOp, NEW r \in OneOp,
           CloseSocket(e, w, r), w # <<>> => wr[e] # <<>>,
           posted' \in [Endpoints -> Seq(Packet \union {Quit})],
           UNCHANGED <<m_PktOut, wire, m_tmpPktIn, m_PktIn, sent, quit, early>>
    PROVE  IInv'
  <1>1. Abort(w) \in OneOp /\ (Abort(w) = <<>> <=> w = <<>>) /\ Abort(r) \in OneOp
    BY AbortType
  <1>2. TypeOK'
    BY <1>1, OneOpFacts DEF CloseSocket, IInv, TypeOK, OneOp
  <1>3. \A d \in Endpoints : Chain(d)'
    BY <1>1 DEF CloseSocket, IInv, TypeOK, Chain
  <1>. QED  BY <1>2, <1>3 DEF IInv

\* The handlers of the write chain.
LEMMA WriterIInv ==
    ASSUME IInv, NEW e \in Endpoints, Writer(e)
    PROVE  IInv'
  <1> USE DEF IInv
  <1>1. wr[e] \in OneOp /\ rd[e] \in OneOp /\ <<>> \in OneOp
        /\ m_PktOut[e] \in Seq(Packet)
    BY DEF Chain, TypeOK, OneOp
  <1>2. Op(e, "header") \in Ops /\ <<Op(e, "header")>> \in OneOp
        /\ Op(e, "data") \in Ops /\ <<Op(e, "data")>> \in OneOp
        /\ <<Op(e, "header")>> # <<>> /\ <<Op(e, "data")>> # <<>>
    BY OpType
  <1>3. wr[e] # <<>> => Tail(wr[e]) = <<>> /\ \A op \in Ops : Append(Tail(wr[e]), op) = <<op>>
    BY <1>1, OneOpFacts
  <1>4. posted[e] # <<>> => /\ Head(posted[e]) \in Packet \union {Quit}
                            /\ Tail(posted[e]) \in Seq(Packet \union {Quit})
    BY HeadTailProperties DEF TypeOK
  <1>5. CASE RunSend(e)
    <2>1. Append(m_PktOut[e], Head(posted[e])) \in Seq(Packet)
          /\ Append(m_PktOut[e], Head(posted[e])) # <<>>
      BY <1>1, <1>4, <1>5, AppendProperties DEF RunSend
    <2>2. m_PktOut' = [m_PktOut EXCEPT ![e] = Append(@, Head(posted[e]))]
          /\ posted' = [posted EXCEPT ![e] = Tail(@)]
      BY <1>5 DEF RunSend
    <2>3. CASE Writing(e)
      <3>1. wr' = wr
        BY <1>5, <2>3 DEF RunSend
      <3>2. TypeOK'
        BY <1>4, <1>5, <2>1, <2>2, <3>1 DEF RunSend, TypeOK
      <3>3. \A d \in Endpoints : Chain(d)'
        BY <1>5, <2>1, <2>2, <2>3, <3>1 DEF RunSend, TypeOK, Chain, Writing
      <3>. QED  BY <3>2, <3>3
    <2>4. CASE ~Writing(e)
      <3>1. wr[e] = <<>>
        BY <2>4 DEF Chain, Writing
      <3>2. wr' = [wr EXCEPT ![e] = <<Op(e, "header")>>]
        BY <1>2, <1>5, <2>4, <3>1 DEF RunSend
      <3>3. TypeOK'
        BY <1>2, <1>4, <1>5, <2>1, <2>2, <3>2, OneOpFacts DEF RunSend, TypeOK
      <3>4. \A d \in Endpoints : Chain(d)'
        BY <1>2, <1>5, <2>1, <2>2, <3>2 DEF RunSend, TypeOK, Chain
      <3>. QED  BY <3>3, <3>4
    <2>. QED  BY <2>3, <2>4
  <1>6. CASE RunClose(e)
    <2>1. posted' \in [Endpoints -> Seq(Packet \union {Quit})]
      BY <1>4, <1>6 DEF RunClose, TypeOK
    <2>. QED  BY <1>1, <1>6, <2>1, CloseIInv DEF RunClose
  <1>7. ASSUME wr[e] # <<>>, PopAndContinue(e),
               UNCHANGED <<link, sock, posted, rd, wire, m_tmpPktIn, m_PktIn, sent, quit, early>>
        PROVE  IInv'
    <2> DEFINE rest == Tail(m_PktOut[e])
               ops  == IF rest = <<>> THEN <<>> ELSE <<Op(e, "header")>>
    <2>1. rest \in Seq(Packet)
      BY <1>1, <1>7, HeadTailProperties DEF Chain
    <2>2. wr' = [wr EXCEPT ![e] = ops] /\ m_PktOut' = [m_PktOut EXCEPT ![e] = rest]
      BY <1>2, <1>3, <1>7 DEF PopAndContinue
    <2>3. ops \in OneOp /\ (ops = <<>> <=> rest = <<>>)
      BY <1>1, <1>2
    <2>4. TypeOK'
      BY <1>7, <2>1, <2>2, <2>3, OneOpFacts DEF TypeOK
    <2>5. \A d \in Endpoints : Chain(d)'
      BY <1>7, <2>2, <2>3 DEF TypeOK, Chain
    <2>. QED  BY <2>4, <2>5
  <1>8. CASE WriteHeaderDone(e)
    <2>1. wr[e] # <<>>
      BY <1>8 DEF WriteHeaderDone, Done
    <2>2. CASE PopAndContinue(e)
      BY <1>7, <1>8, <2>1, <2>2 DEF WriteHeaderDone
    <2>3. CASE wr' = [wr EXCEPT ![e] = Append(Tail(@), Op(e, "data"))] /\ UNCHANGED m_PktOut
      <3>1. wr' = [wr EXCEPT ![e] = <<Op(e, "data")>>]
        BY <1>2, <1>3, <2>1, <2>3
      <3>2. UNCHANGED <<link, sock, posted, rd, wire, m_tmpPktIn, m_PktIn, sent, quit, early>>
        BY <1>8 DEF WriteHeaderDone
      <3>3. TypeOK'
        BY <1>2, <2>3, <3>1, <3>2, OneOpFacts DEF TypeOK
      <3>4. \A d \in Endpoints : Chain(d)'
        BY <1>2, <2>1, <2>3, <3>1, <3>2 DEF TypeOK, Chain
      <3>. QED  BY <3>3, <3>4
    <2>. QED  BY <1>8, <2>2, <2>3 DEF WriteHeaderDone
  <1>9. CASE WriteDataDone(e)
    BY <1>7, <1>9 DEF WriteDataDone, Done
  <1>10. CASE WriteFailed(e)
    <2>1. posted' \in [Endpoints -> Seq(Packet \union {Quit})]
      BY <1>10 DEF WriteFailed, TypeOK
    <2>2. wr[e] # <<>> /\ CloseSocket(e, <<>>, rd[e])
      BY <1>3, <1>10 DEF WriteFailed
    <2>. QED  BY <1>1, <1>10, <2>1, <2>2, CloseIInv DEF WriteFailed
  <1>. QED  BY <1>5, <1>6, <1>8, <1>9, <1>10 DEF Writer

\* The handlers of the read chain.
LEMMA ReaderIInv ==
    ASSUME IInv, NEW e \in Endpoints, Reader(e)
    PROVE  IInv'
  <1> USE DEF IInv
  <1>1. wr[e] \in OneOp /\ <<>> \in OneOp
    BY DEF Chain, OneOp
  <1>2. <<Op(e, "header")>> \in OneOp /\ <<Op(e, "data")>> \in OneOp
    BY OpType
  <1>3. m_tmpPktIn[e] \in Incoming
    BY DEF TypeOK
  <1>4. ASSUME PushToIncomingQueue(e),
               UNCHANGED <<link, sock, posted, m_PktOut, wr, wire, m_tmpPktIn, sent, quit, early>>
        PROVE  IInv'
    <2>1. m_PktIn' \in [Endpoints -> Seq(Incoming)]
      BY <1>3, <1>4, AppendProperties DEF PushToIncomingQueue, TypeOK
    <2>2. TypeOK'
      BY <1>2, <1>4, <2>1 DEF PushToIncomingQueue, TypeOK, OneOp
    <2>. QED  BY <1>4, <2>2 DEF Chain
  <1>5. CASE ReadHeaderDone(e)
    <2>1. CASE PushToIncomingQueue(e) /\ UNCHANGED m_tmpPktIn
      BY <1>4, <1>5, <2>1 DEF ReadHeaderDone
    <2>2. CASE /\ m_tmpPktIn' = [m_tmpPktIn EXCEPT ![e].body = Resize(@, m_tmpPktIn[e].size)]
               /\ rd' = [rd EXCEPT ![e] = <<Op(e, "data")>>]
               /\ UNCHANGED m_PktIn
      <3>1. Resize(m_tmpPktIn[e].body, m_tmpPktIn[e].size) \in Seq(Nat)
        BY <1>3, ResizeType DEF Incoming
      <3>2. m_tmpPktIn' \in [Endpoints -> Incoming]
        BY <2>2, <3>1 DEF TypeOK, Incoming
      <3>3. TypeOK'
        BY <1>2, <1>5, <2>2, <3>2 DEF ReadHeaderDone, TypeOK, OneOp
      <3>. QED  BY <1>5, <3>3 DEF ReadHeaderDone, Chain
    <2>. QED  BY <1>5, <2>1, <2>2 DEF ReadHeaderDone
  <1>6. CASE ReadDataDone(e)
    BY <1>4, <1>6 DEF ReadDataDone
  <1>7. CASE ReadFailed(e)
    <2>1. posted' \in [Endpoints -> Seq(Packet \union {Quit})]
      BY <1>7 DEF ReadFailed, TypeOK
    <2>. QED  BY <1>1, <1>7, <2>1, CloseIInv DEF ReadFailed
  <1>. QED  BY <1>5, <1>6, <1>7 DEF Reader

LEMMA NextIInv == IInv /\ [Next]_vars => IInv'
  <1> SUFFICES ASSUME IInv, [Next]_vars PROVE IInv'
    OBVIOUS
  <1>1. ASSUME NEW e \in Endpoints,
               System(e) \/ Faults(e) \/ App(e) \/ Writer(e) \/ Reader(e)
        PROVE  IInv'
    BY <1>1, SystemIInv, AppIInv, WriterIInv, ReaderIInv
  <1>2. CASE Opening \/ LinkFail
    BY <1>2, OpeningIInv
  <1>3. CASE UNCHANGED vars
    BY <1>3 DEF vars, IInv, TypeOK, Chain
  <1>. QED  BY <1>1, <1>2, <1>3 DEF Next
-----------------------------------------------------------------------------
\* The inductive invariant holds in every reachable state.
THEOREM Invariance == Spec => []IInv
  BY InitIInv, NextIInv, PTL DEF Spec

\* The state keeps its types, for any sizes and bounds; in particular no
\* endpoint has two reads outstanding, so m_tmpPktIn has one writer.
THEOREM TypeCorrect == Spec => []TypeOK
  <1>1. IInv => TypeOK
    BY DEF IInv
  <1>. QED  BY <1>1, Invariance, PTL

\* bWritingMessage and the WriteHeader/WriteData chain never let two
\* async_writes overlap, and the packet being written stays in m_PktOut.
THEOREM SingleWriter == Spec => []OneWriteAtATime
  <1>1. IInv => OneWriteAtATime
    BY OneOpFacts DEF IInv, Chain, OneWriteAtATime
  <1>. QED  BY <1>1, Invariance, PTL

\* No interleaving of SendPacket with the end of a chain leaves a packet in
\* m_PktOut of an open socket with nobody writing it.
THEOREM NothingStranded == Spec => []NoStrandedPacket
  <1>1. IInv => NoStrandedPacket
    BY DEF IInv, Chain, NoStrandedPacket
  <1>. QED  BY <1>1, Invariance, PTL
-----------------------------------------------------------------------------
(* The framing of the stream *)

\* The n-th packet passed to SendPacket has number n.
Numbered(s) == /\ s \in Seq(Packet)
               /\ \A n \in 1..Len(s) : s[n] = PacketOf(n, s[n].size)

\* at[n] is where the header of packet n lies on the stream, counted from the
\* unit that is read next; one frame follows the other.
Layout(s, at) ==
    /\ at \in [1..Len(s) + 1 -> Int]
    /\ \A n \in 1..Len(s) : at[n + 1] = at[n] + 1 + s[n].size
    /\ \A n, m \in 1..Len(s) + 1 : n < m => at[n] < at[m]

\* Units u are on the stream.
Carries(s, at, u) ==
    /\ Len(u) < at[Len(s) + 1]
    /\ \A n \in 1..Len(s), j \in 1..Len(u) :
          /\ j = at[n] => u[j] = HeaderUnit(s[n])
          /\ at[n] < j /\ j < at[n + 1] => u[j] = BodyUnit(n)

\* The packets after the first b wait in q, perhaps with the Quit of Disconnect.
Waiting(s, q, b) ==
    \E x \in 1..Len(q) + 1 :
        /\ Len(s) = b + Len(q) - (IF x <= Len(q) THEN 1 ELSE 0)
        /\ \A i \in 1..Len(q) : q[i] = IF i < x THEN s[b + i]
                                       ELSE IF i = x THEN Quit ELSE s[b + i - 1]

\* k packets have been written and out are the next; l is where the stream ends.
Written(at, k, out, ops, l) ==
    /\ ops = <<>> /\ out = <<>> => l + 1 = at[k + 1]
    /\ ops # <<>> =>
         /\ out # <<>> /\ ops[1].kind # "connect"
         /\ ops[1] = [kind |-> "header", st |-> "pending"] => l + 1 = at[k + 1]
         /\ ops[1] = [kind |-> "header", st |-> "ok"] => l = at[k + 1]
         /\ ops[1] = [kind |-> "data", st |-> "pending"] => l = at[k + 1]
         /\ ops[1] = [kind |-> "data", st |-> "ok"] => l + 1 = at[k + 2]

\* in has been read, and tmp is being read.
Reading(s, at, ops, tmp, in) ==
    /\ Len(in) <= Len(s) /\ \A i \in 1..Len(in) : Seen(in[i]) = s[i]
    /\ ops # <<>> =>
         LET d == Len(in) + 1
         IN  /\ ops[1].kind = "connect" => at[d] = 1
             /\ ops[1] = [kind |-> "header", st |-> "pending"] => at[d] = 1
             /\ ops[1] \in {[kind |-> "header", st |-> "ok"], [kind |-> "data", st |-> "pending"]}
                   => d <= Len(s) /\ at[d] = 0 /\ tmp.cmdID = d /\ tmp.size = s[d].size
             /\ ops[1] = [kind |-> "data", st |-> "pending"] => Len(tmp.body) = tmp.size
             /\ ops[1] = [kind |-> "data", st |-> "ok"]
                   => d <= Len(s) /\ at[d + 1] = 1 /\ tmp = s[d]

LEMMA LayoutFacts ==
    ASSUME NEW s, Numbered(s), NEW at, Layout(s, at)
    PROVE  /\ Len(s) \in Nat /\ \A i \in 1..Len(s) + 1 : at[i] \in Int
           /\ \A i \in 1..Len(s) : /\ i + 1 \in 1..Len(s) + 1 /\ i \in 1..Len(s) + 1
                                   /\ s[i].size \in Nat
                                   /\ at[i] \in Int /\ at[i + 1] \in Int
                                   /\ at[i + 1] = at[i] + 1 + s[i].size
           /\ \A i \in 1..Len(s), j \in 1..Len(s) + 1 : i < j => at[i + 1] <= at[j]
           /\ \A i \in 1..Len(s) + 1 : at[i] <= at[Len(s) + 1]
  <1>1. Len(s) \in Nat /\ Len(s) + 1 \in 1..Len(s) + 1
    BY LenProperties DEF Numbered
  <1>2. \A i \in 1..Len(s) + 1 : at[i] \in Int
    BY DEF Layout
  <1>3. \A i \in 1..Len(s) : i + 1 \in 1..Len(s) + 1 /\ i \in 1..Len(s) + 1
    BY <1>1
  <1>4. \A i \in 1..Len(s) : s[i].size \in Nat
    BY PacketType, ElementOfSeq DEF Numbered
  <1>5. \A i, j \in 1..Len(s) + 1 : i < j => at[i] < at[j]
    BY DEF Layout
  <1>6. \A i \in 1..Len(s) : at[i + 1] = at[i] + 1 + s[i].size
    BY DEF Layout
  <1>7. ASSUME NEW i \in 1..Len(s), NEW j \in 1..Len(s) + 1, i < j
        PROVE  at[i + 1] <= at[j]
    <2>1. CASE i + 1 = j
      BY <1>2, <2>1
    <2>2. CASE i + 1 # j
      <3>1. i + 1 < j /\ i + 1 \in 1..Len(s) + 1
        BY <1>1, <1>3, <1>7, <2>2
      <3>2. at[i + 1] < at[j] /\ at[i + 1] \in Int /\ at[j] \in Int
        BY <1>2, <1>5, <3>1
      <3>. QED  BY <3>2
    <2>. QED  BY <2>1, <2>2
  <1>8. ASSUME NEW i \in 1..Len(s) + 1 PROVE at[i] <= at[Len(s) + 1]
    <2>1. at[i] \in Int /\ at[Len(s) + 1] \in Int
      BY <1>1, <1>2
    <2>2. CASE i = Len(s) + 1
      BY <2>1, <2>2
    <2>3. CASE i # Len(s) + 1
      <3>1. i < Len(s) + 1
        BY <1>1, <2>3
      <3>2. at[i] < at[Len(s) + 1]
        BY <1>1, <1>5, <3>1
      <3>. QED  BY <2>1, <3>2
    <2>. QED  BY <2>2, <2>3
  <1>. QED  BY <1>1, <1>2, <1>3, <1>4, <1>6, <1>7, <1>8

\* SendPacket makes room for one more frame.
LEMMA Extends ==
    ASSUME NEW s, Numbered(s), NEW at, Layout(s, at), NEW u \in Seq(Unit), Carries(s, at, u),
           NEW n \in Sizes, PacketOf(Len(s) + 1, n) \in Packet
    PROVE  LET t == Append(s, PacketOf(Len(s) + 1, n))
           IN  /\ Numbered(t) /\ Len(t) = Len(s) + 1
               /\ \A i \in 1..Len(s) : t[i] = s[i]
               /\ \E at2 : /\ Layout(t, at2) /\ Carries(t, at2, u)
                           /\ \A i \in 1..Len(s) + 1 : at2[i] = at[i]
  <1> DEFINE p == PacketOf(Len(s) + 1, n)
             t == Append(s, p)
             at2 == [i \in 1..Len(s) + 2 |-> IF i = Len(s) + 2 THEN at[Len(s) + 1] + 1 + n ELSE at[i]]
  <1>1. /\ Len(s) \in Nat /\ Len(t) = Len(s) + 1 /\ t \in Seq(Packet)
        /\ \A i \in 1..Len(s) : t[i] = s[i]
        /\ t[Len(s) + 1] = p
    BY LenProperties, AppendProperties DEF Numbered
  <1>2. n \in Nat /\ p.size = n
    BY SizesAssumption DEF PacketOf
  <1>3. Numbered(t)
    <2> HIDE DEF t
    <2>1. p = PacketOf(Len(s) + 1, p.size)
      BY <1>2
    <2> HIDE DEF p
    <2>. QED  BY <1>1, <2>1 DEF Numbered
  <1> HIDE DEF t, p
  <1>4. /\ \A i \in 1..Len(s) + 1 : at2[i] = at[i] /\ at[i] \in Int
        /\ at2[Len(s) + 2] = at[Len(s) + 1] + 1 + n
        /\ at2 \in [1..Len(s) + 2 -> Int]
    <2>1. /\ \A i \in 1..Len(s) + 1 : i \in 1..Len(s) + 2 /\ i # Len(s) + 2
          /\ Len(s) + 1 \in 1..Len(s) + 1 /\ Len(s) + 2 \in 1..Len(s) + 2
          /\ \A i \in 1..Len(s) + 2 : i # Len(s) + 2 => i \in 1..Len(s) + 1
      BY <1>1
    <2>2. \A i \in 1..Len(s) + 1 : at[i] \in Int
      BY DEF Layout
    <2>3. at[Len(s) + 1] + 1 + n \in Int
      BY <1>2, <2>1, <2>2
    <2>. QED  BY <2>1, <2>2, <2>3
  <1> HIDE DEF at2
  <1>5. Layout(t, at2)
    <2>1. at2 \in [1..Len(t) + 1 -> Int]
      BY <1>1, <1>4
    <2>2. \A i \in 1..Len(t) : at2[i + 1] = at2[i] + 1 + t[i].size
      <3>1. ASSUME NEW i \in 1..Len(s) PROVE at2[i + 1] = at2[i] + 1 + t[i].size
        <4>1. at2[i] = at[i] /\ at2[i + 1] = at[i + 1] /\ t[i] = s[i]
          BY <1>1, <1>4, LayoutFacts
        <4>. QED  BY <4>1, LayoutFacts
      <3>2. at2[Len(s) + 2] = at2[Len(s) + 1] + 1 + t[Len(s) + 1].size
        <4>1. at2[Len(s) + 1] = at[Len(s) + 1] /\ t[Len(s) + 1].size = n
          BY <1>1, <1>2, <1>4
        <4>. QED  BY <1>4, <4>1
      <3>3. ASSUME NEW i \in 1..Len(t) PROVE at2[i + 1] = at2[i] + 1 + t[i].size
        <4>1. CASE i \in 1..Len(s)
          BY <3>1, <4>1
        <4>2. CASE i = Len(s) + 1
          <5>1. i + 1 = Len(s) + 2
            BY <1>1, <4>2
          <5>. QED  BY <3>2, <4>2, <5>1
        <4>. QED  BY <1>1, <4>1, <4>2
      <3>. QED  BY <3>3
    <2>3. ASSUME NEW i \in 1..Len(t) + 1, NEW j \in 1..Len(t) + 1, i < j PROVE at2[i] < at2[j]
      <3>1. CASE j <= Len(s) + 1
        <4>1. i \in 1..Len(s) + 1 /\ j \in 1..Len(s) + 1
          BY <1>1, <2>3, <3>1
        <4>2. at2[i] = at[i] /\ at2[j] = at[j]
          BY <1>4, <4>1
        <4>. QED  BY <2>3, <4>1, <4>2 DEF Layout
      <3>2. CASE j = Len(s) + 2
        <4>1. i \in 1..Len(s) + 1 /\ Len(s) + 1 \in 1..Len(s) + 1
          BY <1>1, <2>3, <3>2
        <4>2. at[i] <= at[Len(s) + 1] /\ at[i] \in Int /\ at[Len(s) + 1] \in Int /\ at2[i] = at[i]
          BY <1>4, <4>1, LayoutFacts
        <4>3. at2[j] = at[Len(s) + 1] + 1 + n
          BY <1>4, <3>2
        <4>. QED  BY <1>2, <4>2, <4>3
      <3>. QED  BY <1>1, <3>1, <3>2
    <2>. QED  BY <2>1, <2>2, <2>3 DEF Layout
  <1>6. Carries(t, at2, u)
    <2>1. Len(u) \in Nat
      BY LenProperties
    <2>2. Len(u) < at2[Len(t) + 1]
      <3>1. Len(u) < at[Len(s) + 1] /\ at[Len(s) + 1] \in Int
        BY <1>1, <1>4 DEF Carries
      <3>2. Len(t) + 1 = Len(s) + 2
        BY <1>1
      <3>3. at2[Len(t) + 1] = at[Len(s) + 1] + 1 + n
        BY <1>4, <3>2
      <3>. QED  BY <1>2, <2>1, <3>1, <3>3
    <2>3. ASSUME NEW i \in 1..Len(t), NEW j \in 1..Len(u)
          PROVE  /\ j = at2[i] => u[j] = HeaderUnit(t[i])
                 /\ at2[i] < j /\ j < at2[i + 1] => u[j] = BodyUnit(i)
      <3>1. CASE i <= Len(s)
        <4>1. i \in 1..Len(s) /\ at2[i] = at[i] /\ at2[i + 1] = at[i + 1] /\ t[i] = s[i]
          BY <1>1, <1>4, <3>1
        <4>. QED  BY <4>1 DEF Carries
      <3>2. CASE i = Len(s) + 1
        <4>1. at2[i] = at[Len(s) + 1] /\ at[Len(s) + 1] \in Int /\ Len(u) < at[Len(s) + 1]
          BY <1>1, <1>4, <3>2 DEF Carries
        <4>. QED  BY <2>1, <4>1
      <3>. QED  BY <1>1, <3>1, <3>2
    <2>. QED  BY <2>2, <2>3 DEF Carries
  <1>. QED  BY <1>1, <1>3, <1>4, <1>5, <1>6 DEF t, p

\* Reading takes c units from the front.
Shifted(at, c) == [i \in DOMAIN at |-> at[i] - c]

LEMMA ShiftsLayout ==
    ASSUME NEW s, Numbered(s), NEW at, Layout(s, at), NEW c \in Nat
    PROVE  /\ Layout(s, Shifted(at, c))
           /\ \A i \in 1..Len(s) + 1 : Shifted(at, c)[i] = at[i] - c
  <1> DEFINE at2 == Shifted(at, c)
  <1>1. \A i \in 1..Len(s) + 1 : at2[i] = at[i] - c /\ at[i] \in Int
    BY DEF Layout, Shifted
  <1>2. at2 \in [1..Len(s) + 1 -> Int]
    BY DEF Layout, Shifted
  <1> HIDE DEF at2
  <1>3. ASSUME NEW i \in 1..Len(s) PROVE at2[i + 1] = at2[i] + 1 + s[i].size
    <2>1. /\ at2[i] = at[i] - c /\ at2[i + 1] = at[i + 1] - c /\ s[i].size \in Nat
          /\ at[i] \in Int /\ at[i + 1] \in Int /\ at[i + 1] = at[i] + 1 + s[i].size
      BY <1>1, LayoutFacts
    <2>. QED  BY <2>1
  <1>4. ASSUME NEW i \in 1..Len(s) + 1, NEW j \in 1..Len(s) + 1, i < j PROVE at2[i] < at2[j]
    <2>1. at[i] < at[j] /\ at[i] \in Int /\ at[j] \in Int /\ at2[i] = at[i] - c /\ at2[j] = at[j] - c
      BY <1>1, <1>4 DEF Layout
    <2>. QED  BY <2>1
  <1>5. Layout(s, at2)
    BY <1>2, <1>3, <1>4 DEF Layout
  <1>. QED  BY <1>1, <1>5 DEF at2

LEMMA ShiftsBack ==
    ASSUME NEW a \in Int, NEW b \in Int, NEW c \in Nat, NEW j \in Nat, NEW l \in Nat
    PROVE  /\ j = a - c => j + c = a
           /\ a - c < j /\ j < b - c => a < j + c /\ j + c < b
           /\ l < a => l - c < a - c
  OBVIOUS

LEMMA Shifts ==
    ASSUME NEW s, Numbered(s), NEW at, Layout(s, at), NEW u \in Seq(Unit), Carries(s, at, u),
           NEW c \in Nat, NEW v \in Seq(Unit), Len(v) = Len(u) - c,
           \A j \in 1..Len(v) : v[j] = u[j + c]
    PROVE  Carries(s, Shifted(at, c), v)
  <1> DEFINE at2 == Shifted(at, c)
  <1>1. Len(s) \in Nat /\ Len(u) \in Nat /\ Len(v) \in Nat
    BY LenProperties DEF Numbered
  <1>2. \A i \in 1..Len(s) + 1 : at2[i] = at[i] - c /\ at[i] \in Int
    BY ShiftsLayout, LayoutFacts
  <1> HIDE DEF at2
  <1>3. Len(v) < at2[Len(s) + 1]
    <2>1. /\ Len(u) < at[Len(s) + 1] /\ at[Len(s) + 1] \in Int
          /\ at2[Len(s) + 1] = at[Len(s) + 1] - c
      BY <1>1, <1>2 DEF Carries
    <2>. QED  BY <1>1, <2>1, ShiftsBack
  <1>4. ASSUME NEW i \in 1..Len(s), NEW j \in 1..Len(v)
        PROVE  /\ j = at2[i] => v[j] = HeaderUnit(s[i])
               /\ at2[i] < j /\ j < at2[i + 1] => v[j] = BodyUnit(i)
    <2>1. j + c \in 1..Len(u) /\ v[j] = u[j + c] /\ j \in Nat
      BY <1>1
    <2>2. /\ at2[i] = at[i] - c /\ at2[i + 1] = at[i + 1] - c
          /\ at[i] \in Int /\ at[i + 1] \in Int
      BY <1>2, LayoutFacts
    <2>3. \A a, b \in Int : /\ j = a - c => j + c = a
                            /\ a - c < j /\ j < b - c => a < j + c /\ j + c < b
      BY <1>1, <2>1, ShiftsBack
    <2>4. /\ j = at2[i] => j + c = at[i]
          /\ at2[i] < j /\ j < at2[i + 1] => at[i] < j + c /\ j + c < at[i + 1]
      BY <2>2, <2>3
    <2>. QED  BY <2>1, <2>4 DEF Carries
  <1>. QED  BY <1>3, <1>4 DEF Carries, at2

\* No unit belongs to two frames.
LEMMA Frames ==
    ASSUME NEW s, Numbered(s), NEW at, Layout(s, at), NEW k \in 1..Len(s), NEW i \in 1..Len(s),
           NEW j \in Nat, at[k] <= j, j < at[k + 1], i # k
    PROVE  j # at[i] /\ ~(at[i] < j /\ j < at[i + 1])
  <1>1. /\ at[i] \in Int /\ at[i + 1] \in Int /\ at[k] \in Int /\ at[k + 1] \in Int
        /\ i < k => at[i + 1] <= at[k]
        /\ k < i => at[k + 1] <= at[i]
    BY LayoutFacts
  <1>2. at[i] < at[i + 1]
    <2>1. at[i + 1] = at[i] + 1 + s[i].size /\ s[i].size \in Nat
      BY LayoutFacts
    <2>. QED  BY <1>1, <2>1
  <1>3. i < k \/ k < i
    <2>1. i \in Nat /\ k \in Nat
      BY LayoutFacts
    <2>. QED  BY <2>1
  <1>. QED  BY <1>1, <1>2, <1>3

LEMMA Within ==
    ASSUME NEW a \in Int, NEW b \in Int, NEW l \in Nat, NEW n \in Nat, NEW m \in 1..n,
           a <= l + 1, l + n < b
    PROVE  a <= l + m /\ l + m < b /\ l + m \in Nat
  OBVIOUS

\* v is the part of frame k that comes after l units.
Fills(v, l, at, s, k) ==
    /\ at[k] <= l + 1 /\ l + Len(v) < at[k + 1]
    /\ \A m \in 1..Len(v) : v[m] = IF l + m = at[k] THEN HeaderUnit(s[k]) ELSE BodyUnit(k)

\* Writing puts more of the frame of packet k on the stream.
LEMMA Grows ==
    ASSUME NEW s, Numbered(s), NEW at, Layout(s, at), NEW u \in Seq(Unit), Carries(s, at, u),
           NEW k \in 1..Len(s), NEW v \in Seq(Unit), Fills(v, Len(u), at, s, k)
    PROVE  /\ Carries(s, at, u \o v)
           /\ Len(u \o v) = Len(u) + Len(v)
  <1> DEFINE w == u \o v
  <1>1. /\ Len(s) \in Nat /\ Len(u) \in Nat /\ Len(v) \in Nat /\ Len(w) = Len(u) + Len(v)
        /\ \A j \in 1..Len(u) : w[j] = u[j]
    BY LenProperties, ConcatProperties DEF Numbered
  <1>2. \A m \in 1..Len(v) : w[Len(u) + m] = v[m]
    BY LenProperties, ConcatProperties
  <1> HIDE DEF w
  <1>4. /\ at[k] \in Int /\ at[k + 1] \in Int /\ k \in Nat /\ at[Len(s) + 1] \in Int
        /\ at[k + 1] <= at[Len(s) + 1]
    BY <1>1, LayoutFacts
  <1>5. Len(w) < at[Len(s) + 1]
    <2>1. Len(w) < at[k + 1]
      BY <1>1 DEF Fills
    <2>. QED  BY <1>1, <1>4, <2>1
  <1>6. ASSUME NEW i \in 1..Len(s), NEW j \in 1..Len(w)
        PROVE  /\ j = at[i] => w[j] = HeaderUnit(s[i])
               /\ at[i] < j /\ j < at[i + 1] => w[j] = BodyUnit(i)
    <2>1. CASE j <= Len(u)
      <3>1. j \in 1..Len(u) /\ w[j] = u[j]
        BY <1>1, <2>1
      <3>. QED  BY <3>1 DEF Carries
    <2>2. CASE Len(u) < j
      <3>1. PICK m \in 1..Len(v) : j = Len(u) + m /\ w[j] = v[m]
        <4>1. j - Len(u) \in 1..Len(v) /\ j = Len(u) + (j - Len(u))
          BY <1>1, <2>2
        <4>. QED  BY <1>2, <4>1
      <3>2. at[k] <= Len(u) + 1 /\ Len(u) + Len(v) < at[k + 1]
            /\ w[j] = IF j = at[k] THEN HeaderUnit(s[k]) ELSE BodyUnit(k)
        BY <3>1 DEF Fills
      <3>3. at[k] <= j /\ j < at[k + 1] /\ j \in Nat
        BY <1>1, <1>4, <3>1, <3>2, Within
      <3>4. CASE i = k
        <4>1. at[k] < j => j # at[k]
          BY <1>4, <3>3
        <4>. QED  BY <3>2, <3>4, <4>1
      <3>5. CASE i # k
        BY <3>3, <3>5, Frames
      <3>. QED  BY <3>4, <3>5
    <2>. QED  BY <1>1, <2>1, <2>2
  <1>. QED  BY <1>1, <1>5, <1>6 DEF Carries, w
-----------------------------------------------------------------------------
(* One direction of the connection *)

\* Of the packets sent, k are written; out and then q wait.
Backlog(s, k, out, q) ==
    /\ k + Len(out) <= Len(s) /\ \A i \in 1..Len(out) : out[i] = s[k + i]
    /\ Waiting(s, q, k + Len(out))

\* The writer's sent, posted, m_PktOut, wr and wire, and the reader's rd,
\* m_tmpPktIn, m_PktIn and sock.
Stream(s, q, out, w, u, r, tmp, in, sk, k, at) ==
    /\ k \in Nat /\ Layout(s, at) /\ Carries(s, at, u)
    /\ Backlog(s, k, out, q) /\ Written(at, k, out, w, Len(u))
    /\ Reading(s, at, r, tmp, in)
    /\ sk = "none" => r = <<>> /\ at[Len(in) + 1] = 1

Flow(s, q, out, w, u, r, tmp, in, sk) ==
    Numbered(s) /\ \E k, at : Stream(s, q, out, w, u, r, tmp, in, sk, k, at)

\* The operation that a handler starts.
Started(op, kind) == op \in Ops /\ op.kind = kind /\ op.st # "ok"

\* An operation that failed, or went away, or was never a read or a write.
Weaker(new, old) ==
    new # <<>> => /\ old # <<>> /\ new[1].kind = old[1].kind
                  /\ new[1] = old[1] \/ new[1].st = "err" \/ new[1].kind = "connect"

LEMMA SameInterval ==
    ASSUME NEW a \in Nat, NEW b \in Nat, 1..a = 1..b
    PROVE  a = b
  <1>1. a # 0 => a \in 1..b
    OBVIOUS
  <1>2. b # 0 => b \in 1..a
    OBVIOUS
  <1>. QED  BY <1>1, <1>2

LEMMA AfterHeader ==
    ASSUME NEW l \in Nat, NEW a \in Int, NEW b \in Int, NEW z \in Nat,
           l + 1 = a, b = a + 1 + z
    PROVE  l + 1 < b /\ a <= l + 1
  OBVIOUS

LEMMA WaitingSend ==
    ASSUME NEW s \in Seq(Packet), NEW q \in Seq(Packet \union {Quit}), NEW b \in Nat,
           Waiting(s, q, b), b <= Len(s), NEW p \in Packet
    PROVE  Waiting(Append(s, p), Append(q, p), b)
  <1> DEFINE s2 == Append(s, p)
             q2 == Append(q, p)
  <1>1. /\ Len(s) \in Nat /\ Len(s2) = Len(s) + 1 /\ s2[Len(s) + 1] = p
        /\ \A i \in 1..Len(s) : s2[i] = s[i]
    BY LenProperties, AppendProperties
  <1>2. /\ Len(q) \in Nat /\ Len(q2) = Len(q) + 1 /\ q2[Len(q) + 1] = p
        /\ \A i \in 1..Len(q) : q2[i] = q[i]
    BY LenProperties, AppendProperties
  <1>3. PICK x \in 1..Len(q) + 1 :
          /\ Len(s) = b + Len(q) - (IF x <= Len(q) THEN 1 ELSE 0)
          /\ \A i \in 1..Len(q) : q[i] = IF i < x THEN s[b + i]
                                         ELSE IF i = x THEN Quit ELSE s[b + i - 1]
    BY DEF Waiting
  <1> HIDE DEF s2, q2
  <1> DEFINE y == IF x <= Len(q) THEN x ELSE x + 1
  <1>4. y \in 1..Len(q2) + 1 /\ Len(s2) = b + Len(q2) - (IF y <= Len(q2) THEN 1 ELSE 0)
    <2>1. /\ Len(s) \in Nat /\ Len(s2) = Len(s) + 1 /\ Len(q) \in Nat /\ Len(q2) = Len(q) + 1
          /\ x \in 1..Len(q) + 1 /\ Len(s) = b + Len(q) - (IF x <= Len(q) THEN 1 ELSE 0)
      BY <1>1, <1>2, <1>3
    <2>2. CASE x <= Len(q)
      BY <2>1, <2>2
    <2>3. CASE ~(x <= Len(q))
      BY <2>1, <2>3
    <2>. QED  BY <2>2, <2>3
  <1>5. ASSUME NEW i \in 1..Len(q2)
        PROVE  q2[i] = IF i < y THEN s2[b + i] ELSE IF i = y THEN Quit ELSE s2[b + i - 1]
    <2>1. CASE i = Len(q) + 1
      <3>1. CASE x <= Len(q)
        <4>1. ~(i < y) /\ i # y /\ b + i - 1 = Len(s) + 1
          BY <1>1, <1>2, <1>3, <2>1, <3>1
        <4>. QED  BY <1>1, <1>2, <2>1, <4>1
      <3>2. CASE ~(x <= Len(q))
        <4>1. i < y /\ b + i = Len(s) + 1
          BY <1>1, <1>2, <1>3, <2>1, <3>2
        <4>. QED  BY <1>1, <1>2, <2>1, <4>1
      <3>. QED  BY <3>1, <3>2
    <2>2. CASE i # Len(q) + 1
      <3>1. i \in 1..Len(q) /\ q2[i] = q[i]
        BY <1>2, <2>2
      <3>2. CASE i < x
        <4>1. i < y /\ b + i \in 1..Len(s)
          BY <1>1, <1>2, <1>3, <3>1, <3>2
        <4>2. q[i] = s[b + i]
          BY <1>3, <3>1, <3>2
        <4>. QED  BY <1>1, <3>1, <4>1, <4>2
      <3>3. CASE i = x
        <4>1. ~(i < y) /\ i = y
          BY <1>2, <1>3, <3>1, <3>3
        <4>2. q[i] = Quit
          BY <1>3, <3>1, <3>3
        <4>. QED  BY <3>1, <4>1, <4>2
      <3>4. CASE x < i
        <4>1. ~(i < y) /\ i # y /\ b + i - 1 \in 1..Len(s)
          BY <1>1, <1>2, <1>3, <3>1, <3>4
        <4>2. q[i] = s[b + i - 1]
          BY <1>3, <3>1, <3>4
        <4>. QED  BY <1>1, <3>1, <4>1, <4>2
      <3>. QED  BY <1>3, <3>1, <3>2, <3>3, <3>4
    <2>. QED  BY <2>1, <2>2
  <1>. QED  BY <1>4, <1>5 DEF Waiting, s2, q2

LEMMA WaitingQuit ==
    ASSUME NEW s \in Seq(Packet), NEW q \in Seq(Packet \union {Quit}), NEW b \in Nat,
           Waiting(s, q, b), \A i \in 1..Len(q) : q[i] # Quit
    PROVE  Waiting(s, Append(q, Quit), b)
  <1> DEFINE q2 == Append(q, Quit)
  <1>1. /\ Len(q) \in Nat /\ Len(q2) = Len(q) + 1 /\ q2[Len(q) + 1] = Quit
        /\ \A i \in 1..Len(q) : q2[i] = q[i]
    BY LenProperties, AppendProperties
  <1>2. PICK x \in 1..Len(q) + 1 :
          /\ Len(s) = b + Len(q) - (IF x <= Len(q) THEN 1 ELSE 0)
          /\ \A i \in 1..Len(q) : q[i] = IF i < x THEN s[b + i]
                                         ELSE IF i = x THEN Quit ELSE s[b + i - 1]
    BY DEF Waiting
  <1> HIDE DEF q2
  <1>3. x = Len(q) + 1
    <2>1. x \in 1..Len(q) => q[x] = Quit
      BY <1>2
    <2>. QED  BY <1>1, <2>1
  <1>4. x \in 1..Len(q2) + 1 /\ Len(s) = b + Len(q2) - (IF x <= Len(q2) THEN 1 ELSE 0)
    <2>1. Len(s) = b + Len(q)
      BY <1>1, <1>2, <1>3
    <2>. QED  BY <1>1, <1>3, <2>1
  <1>5. ASSUME NEW i \in 1..Len(q2)
        PROVE  q2[i] = IF i < x THEN s[b + i] ELSE IF i = x THEN Quit ELSE s[b + i - 1]
    <2>1. CASE i = x
      <3>1. ~(i < x)
        BY <1>1, <1>3, <2>1
      <3>. QED  BY <1>1, <1>3, <2>1, <3>1
    <2>2. CASE i # x
      <3>1. i \in 1..Len(q) /\ i < x
        BY <1>1, <1>3, <2>2
      <3>. QED  BY <1>1, <1>2, <3>1
    <2>. QED  BY <2>1, <2>2
  <1>. QED  BY <1>4, <1>5 DEF Waiting, q2

LEMMA WaitingTake ==
    ASSUME NEW s \in Seq(Packet), NEW q \in Seq(Packet \union {Quit}), NEW b \in Nat,
           Waiting(s, q, b), q # <<>>, Head(q) # Quit
    PROVE  b + 1 \in 1..Len(s) /\ Head(q) = s[b + 1] /\ Waiting(s, Tail(q), b + 1)
  <1> DEFINE t == Tail(q)
  <1>1. /\ Len(q) \in Nat \ {0} /\ Len(t) = Len(q) - 1 /\ Head(q) = q[1] /\ Len(s) \in Nat
        /\ \A i \in 1..Len(t) : t[i] = q[i + 1]
    BY LenProperties, HeadTailProperties, EmptySeq
  <1>2. PICK x \in 1..Len(q) + 1 :
          /\ Len(s) = b + Len(q) - (IF x <= Len(q) THEN 1 ELSE 0)
          /\ \A i \in 1..Len(q) : q[i] = IF i < x THEN s[b + i]
                                         ELSE IF i = x THEN Quit ELSE s[b + i - 1]
    BY DEF Waiting
  <1> HIDE DEF t
  <1>3. 1 \in 1..Len(q) /\ x # 1
    <2>1. 1 \in 1..Len(q)
      BY <1>1
    <2>. QED  BY <1>1, <1>2, <2>1
  <1>4. /\ b + 1 \in 1..Len(s) /\ 1 < x /\ x - 1 \in 1..Len(t) + 1
        /\ Len(s) = (b + 1) + Len(t) - (IF x - 1 <= Len(t) THEN 1 ELSE 0)
    <2>1. /\ Len(s) \in Nat /\ Len(q) \in Nat \ {0} /\ Len(t) = Len(q) - 1
          /\ x \in 1..Len(q) + 1 /\ x # 1
          /\ Len(s) = b + Len(q) - (IF x <= Len(q) THEN 1 ELSE 0)
      BY <1>1, <1>2, <1>3
    <2>2. CASE x <= Len(q)
      BY <2>1, <2>2
    <2>3. CASE ~(x <= Len(q))
      BY <2>1, <2>3
    <2>. QED  BY <2>2, <2>3
  <1>5. q[1] = s[b + 1]
    BY <1>2, <1>3, <1>4
  <1>6. ASSUME NEW i \in 1..Len(t)
        PROVE  t[i] = IF i < x - 1 THEN s[(b + 1) + i]
                      ELSE IF i = x - 1 THEN Quit ELSE s[(b + 1) + i - 1]
    <2>1. /\ i + 1 \in 1..Len(q) /\ t[i] = q[i + 1]
          /\ (i < x - 1 <=> i + 1 < x) /\ (i = x - 1 <=> i + 1 = x)
          /\ (b + 1) + i = b + (i + 1) /\ (b + 1) + i - 1 = b + (i + 1) - 1
      BY <1>1
    <2>2. q[i + 1] = IF i + 1 < x THEN s[b + (i + 1)]
                     ELSE IF i + 1 = x THEN Quit ELSE s[b + (i + 1) - 1]
      BY <1>2, <2>1
    <2>. QED  BY <2>1, <2>2
  <1>. QED  BY <1>1, <1>4, <1>5, <1>6 DEF Waiting, t

LEMMA WaitingClose ==
    ASSUME NEW s \in Seq(Packet), NEW q \in Seq(Packet \union {Quit}), NEW b \in Nat,
           Waiting(s, q, b), q # <<>>, Head(q) = Quit
    PROVE  Waiting(s, Tail(q), b)
  <1> DEFINE t == Tail(q)
  <1>1. /\ Len(q) \in Nat \ {0} /\ Len(t) = Len(q) - 1 /\ Head(q) = q[1] /\ Len(s) \in Nat
        /\ \A i \in 1..Len(t) : t[i] = q[i + 1]
    BY LenProperties, HeadTailProperties, EmptySeq
  <1>2. PICK x \in 1..Len(q) + 1 :
          /\ Len(s) = b + Len(q) - (IF x <= Len(q) THEN 1 ELSE 0)
          /\ \A i \in 1..Len(q) : q[i] = IF i < x THEN s[b + i]
                                         ELSE IF i = x THEN Quit ELSE s[b + i - 1]
    BY DEF Waiting
  <1> HIDE DEF t
  <1>3. x = 1
    <2>1. SUFFICES ASSUME x # 1 PROVE FALSE
      OBVIOUS
    <2>2. 1 \in 1..Len(q) /\ 1 < x /\ b + 1 \in 1..Len(s)
      <3>1. /\ Len(s) \in Nat /\ Len(q) \in Nat \ {0} /\ x \in 1..Len(q) + 1 /\ x # 1
            /\ Len(s) = b + Len(q) - (IF x <= Len(q) THEN 1 ELSE 0)
        BY <1>1, <1>2, <2>1
      <3>2. CASE x <= Len(q)
        BY <3>1, <3>2
      <3>3. CASE ~(x <= Len(q))
        BY <3>1, <3>3
      <3>. QED  BY <3>2, <3>3
    <2>3. q[1] = s[b + 1]
      BY <1>2, <2>2
    <2>4. s[b + 1] \in Packet
      BY <2>2, ElementOfSeq
    <2>5. \A p \in Packet : p.cmdID # 0
      BY BoundAssumption DEF Packet, PacketOf
    <2>. QED  BY <1>1, <2>3, <2>4, <2>5 DEF Quit
  <1>4. Len(t) + 1 \in 1..Len(t) + 1 /\ Len(s) = b + Len(t)
    BY <1>1, <1>2, <1>3
  <1>5. ASSUME NEW i \in 1..Len(t) PROVE i < Len(t) + 1 /\ t[i] = s[b + i]
    <2>1. /\ i + 1 \in 1..Len(q) /\ t[i] = q[i + 1] /\ i < Len(t) + 1
          /\ ~(i + 1 < 1) /\ i + 1 # 1 /\ b + (i + 1) - 1 = b + i
      BY <1>1
    <2>. QED  BY <1>2, <1>3, <2>1
  <1>6. ~(Len(t) + 1 <= Len(t))
    BY <1>1
  <1>. QED
    <2>1. \A i \in 1..Len(t) : t[i] = IF i < Len(t) + 1 THEN s[b + i]
                                      ELSE IF i = Len(t) + 1 THEN Quit ELSE s[b + i - 1]
      BY <1>5
    <2>2. Len(s) = b + Len(t) - (IF Len(t) + 1 <= Len(t) THEN 1 ELSE 0)
      BY <1>1, <1>4, <1>6
    <2>. QED  BY <1>4, <2>1, <2>2 DEF Waiting, t

\* SendPacket.
LEMMA FlowSend ==
    ASSUME NEW s, NEW q \in Seq(Packet \union {Quit}), NEW out \in Seq(Packet), NEW w,
           NEW u \in Seq(Unit), NEW r \in OneOp, NEW tmp, NEW in \in Seq(Incoming), NEW sk,
           Flow(s, q, out, w, u, r, tmp, in, sk),
           NEW n \in Sizes, PacketOf(Len(s) + 1, n) \in Packet
    PROVE  LET p == PacketOf(Len(s) + 1, n)
           IN  Flow(Append(s, p), Append(q, p), out, w, u, r, tmp, in, sk)
  <1> DEFINE p == PacketOf(Len(s) + 1, n)
             t == Append(s, p)
  <1>1. PICK k, at : k \in Nat /\ Stream(s, q, out, w, u, r, tmp, in, sk, k, at)
    BY DEF Flow, Stream
  <1>2. Numbered(s) /\ Layout(s, at) /\ Carries(s, at, u)
    BY <1>1 DEF Flow, Stream
  <1>3. /\ s \in Seq(Packet) /\ Len(s) \in Nat /\ Len(out) \in Nat /\ Len(in) \in Nat
        /\ k + Len(out) \in Nat
    BY <1>1, <1>2, LenProperties DEF Numbered
  <1>4. PICK at2 : /\ Numbered(t) /\ Len(t) = Len(s) + 1 /\ \A i \in 1..Len(s) : t[i] = s[i]
                   /\ Layout(t, at2) /\ Carries(t, at2, u)
                   /\ \A i \in 1..Len(s) + 1 : at2[i] = at[i]
    BY <1>2, Extends
  <1>5. k + Len(out) <= Len(s) /\ \A i \in 1..Len(out) : out[i] = s[k + i]
    BY <1>1 DEF Stream, Backlog
  <1>6. Waiting(t, Append(q, p), k + Len(out))
    BY <1>1, <1>3, <1>5, WaitingSend DEF Stream, Backlog
  <1> HIDE DEF p, t
  <1>7. Backlog(t, k, out, Append(q, p))
    <2>1. k + Len(out) <= Len(t)
      BY <1>3, <1>4, <1>5
    <2>2. ASSUME NEW i \in 1..Len(out) PROVE out[i] = t[k + i]
      <3>1. k + i \in 1..Len(s)
        BY <1>1, <1>3, <1>5
      <3>. QED  BY <1>4, <1>5, <3>1
    <2>. QED  BY <1>6, <2>1, <2>2 DEF Backlog
  <1>8. Written(at2, k, out, w, Len(u))
    <2>1. k + 1 \in 1..Len(s) + 1 /\ (out # <<>> => k + 2 \in 1..Len(s) + 1)
      <3>1. out # <<>> => Len(out) # 0
        BY EmptySeq
      <3>. QED  BY <1>1, <1>3, <1>5, <3>1
    <2>2. at2[k + 1] = at[k + 1] /\ (out # <<>> => at2[k + 2] = at[k + 2])
      BY <1>4, <2>1
    <2>3. Written(at, k, out, w, Len(u))
      BY <1>1 DEF Stream
    <2>. QED  BY <2>2, <2>3 DEF Written
  <1>9. /\ Reading(t, at2, r, tmp, in) /\ at2[Len(in) + 1] = at[Len(in) + 1]
    <2> DEFINE d == Len(in) + 1
    <2>1. Reading(s, at, r, tmp, in)
      BY <1>1 DEF Stream
    <2>2. d \in 1..Len(s) + 1 /\ (d <= Len(s) => d \in 1..Len(s) /\ d + 1 \in 1..Len(s) + 1)
      BY <1>3, <2>1 DEF Reading
    <2>3. /\ at2[d] = at[d]
          /\ d <= Len(s) => at2[d + 1] = at[d + 1] /\ t[d] = s[d] /\ d <= Len(t)
      BY <1>3, <1>4, <2>2
    <2>4. Len(in) <= Len(t) /\ \A i \in 1..Len(in) : Seen(in[i]) = t[i]
      <3>1. Len(in) <= Len(s) /\ \A i \in 1..Len(in) : Seen(in[i]) = s[i]
        BY <2>1 DEF Reading
      <3>2. \A i \in 1..Len(in) : i \in 1..Len(s)
        BY <1>3, <3>1
      <3>3. Len(in) <= Len(t)
        BY <1>3, <1>4, <3>1
      <3>. QED  BY <1>4, <3>1, <3>2, <3>3
    <2>. QED  BY <2>1, <2>3, <2>4 DEF Reading
  <1>10. sk = "none" => r = <<>> /\ at2[Len(in) + 1] = 1
    BY <1>1, <1>9 DEF Stream
  <1>11. Stream(t, Append(q, p), out, w, u, r, tmp, in, sk, k, at2)
    BY <1>1, <1>4, <1>7, <1>8, <1>9, <1>10 DEF Stream
  <1>. QED  BY <1>4, <1>11 DEF Flow, t, p

\* Disconnect posts, and the posted handler runs.
LEMMA FlowQuit ==
    ASSUME NEW s, NEW q \in Seq(Packet \union {Quit}), NEW out \in Seq(Packet), NEW w, NEW u,
           NEW r, NEW tmp, NEW in, NEW sk, Flow(s, q, out, w, u, r, tmp, in, sk)
    PROVE  /\ (\A i \in 1..Len(q) : q[i] # Quit)
                 => Flow(s, Append(q, Quit), out, w, u, r, tmp, in, sk)
           /\ q # <<>> /\ Head(q) = Quit => Flow(s, Tail(q), out, w, u, r, tmp, in, sk)
  <1>1. PICK k, at : k \in Nat /\ Stream(s, q, out, w, u, r, tmp, in, sk, k, at)
    BY DEF Flow, Stream
  <1>2. s \in Seq(Packet) /\ k + Len(out) \in Nat /\ Waiting(s, q, k + Len(out))
    BY <1>1, LenProperties DEF Flow, Numbered, Stream, Backlog
  <1>3. ASSUME NEW q2, Waiting(s, q2, k + Len(out))
        PROVE  Flow(s, q2, out, w, u, r, tmp, in, sk)
    BY <1>1, <1>3 DEF Flow, Stream, Backlog
  <1>. QED  BY <1>2, <1>3, WaitingQuit, WaitingClose

\* Send's handler queues the packet, and starts writing if nobody is.
LEMMA FlowTake ==
    ASSUME NEW s, NEW q \in Seq(Packet \union {Quit}), NEW out \in Seq(Packet), NEW w, NEW u,
           NEW r, NEW tmp, NEW in, NEW sk, Flow(s, q, out, w, u, r, tmp, in, sk),
           q # <<>>, Head(q) # Quit, NEW op, Started(op, "header"), NEW w2,
           w2 = IF out # <<>> THEN w ELSE <<op>>
    PROVE  Flow(s, Tail(q), Append(out, Head(q)), w2, u, r, tmp, in, sk)
  <1> DEFINE out2 == Append(out, Head(q))
  <1>1. PICK k, at : k \in Nat /\ Stream(s, q, out, w, u, r, tmp, in, sk, k, at)
    BY DEF Flow, Stream
  <1>2. /\ s \in Seq(Packet) /\ Len(s) \in Nat /\ Len(out) \in Nat
        /\ k + Len(out) \in Nat /\ Waiting(s, q, k + Len(out))
        /\ \A i \in 1..Len(out) : out[i] = s[k + i]
    BY <1>1, LenProperties DEF Flow, Numbered, Stream, Backlog
  <1>3. /\ k + Len(out) + 1 \in 1..Len(s) /\ Head(q) = s[k + Len(out) + 1]
        /\ Waiting(s, Tail(q), k + Len(out) + 1)
    BY <1>2, WaitingTake
  <1>4. Head(q) \in Packet
    BY <1>2, <1>3, ElementOfSeq
  <1>5. /\ Len(out2) = Len(out) + 1 /\ out2[Len(out) + 1] = Head(q) /\ out2 # <<>>
        /\ \A i \in 1..Len(out) : out2[i] = out[i]
    BY <1>4, AppendProperties
  <1> HIDE DEF out2
  <1>6. Backlog(s, k, out2, Tail(q))
    <2>1. k + Len(out2) = k + Len(out) + 1 /\ k + Len(out2) <= Len(s)
      BY <1>1, <1>2, <1>3, <1>5
    <2>2. ASSUME NEW i \in 1..Len(out2) PROVE out2[i] = s[k + i]
      <3>1. CASE i = Len(out) + 1
        <4>1. k + i = k + Len(out) + 1
          BY <1>1, <1>2, <3>1
        <4>. QED  BY <1>3, <1>5, <3>1, <4>1
      <3>2. CASE i # Len(out) + 1
        <4>1. i \in 1..Len(out)
          BY <1>2, <1>5, <3>2
        <4>. QED  BY <1>2, <1>5, <4>1
      <3>. QED  BY <3>1, <3>2
    <2>. QED  BY <1>3, <2>1, <2>2 DEF Backlog
  <1>7. Written(at, k, out2, w2, Len(u))
    <2>1. Written(at, k, out, w, Len(u))
      BY <1>1 DEF Stream
    <2>2. CASE out # <<>>
      BY <1>5, <2>1, <2>2 DEF Written
    <2>3. CASE out = <<>>
      <3>1. w = <<>> /\ Len(u) + 1 = at[k + 1]
        BY <2>1, <2>3 DEF Written
      <3>2. w2 = <<op>> /\ w2 # <<>> /\ w2[1] = op
        BY <2>3
      <3>. QED  BY <1>5, <3>1, <3>2 DEF Written, Started
    <2>. QED  BY <2>2, <2>3
  <1>. QED  BY <1>1, <1>6, <1>7 DEF Flow, Stream, out2

\* A write fails, or the chain ends with packets left in m_PktOut.
LEMMA FlowWriteFails ==
    ASSUME NEW s, NEW q, NEW out, NEW w, NEW u, NEW r, NEW tmp, NEW in, NEW sk,
           Flow(s, q, out, w, u, r, tmp, in, sk),
           NEW w2, Weaker(w2, w), w2 = <<>> => w = <<>> \/ out # <<>>
    PROVE  Flow(s, q, out, w2, u, r, tmp, in, sk)
  <1>1. PICK k, at : k \in Nat /\ Stream(s, q, out, w, u, r, tmp, in, sk, k, at)
    BY DEF Flow, Stream
  <1>2. Written(at, k, out, w, Len(u))
    BY <1>1 DEF Stream
  <1>3. Written(at, k, out, w2, Len(u))
    BY <1>2 DEF Written, Weaker
  <1>. QED  BY <1>1, <1>3 DEF Flow, Stream

\* A read fails, or the connection is established.
LEMMA FlowReadFails ==
    ASSUME NEW s, NEW q, NEW out, NEW w, NEW u, NEW r, NEW tmp, NEW in, NEW sk,
           Flow(s, q, out, w, u, r, tmp, in, sk),
           NEW r2, Weaker(r2, r), NEW sk2, sk2 = "none" => sk = "none"
    PROVE  Flow(s, q, out, w, u, r2, tmp, in, sk2)
  <1>1. PICK k, at : k \in Nat /\ Stream(s, q, out, w, u, r, tmp, in, sk, k, at)
    BY DEF Flow, Stream
  <1>2. Reading(s, at, r, tmp, in)
    BY <1>1 DEF Stream
  <1>3. Reading(s, at, r2, tmp, in)
    BY <1>2 DEF Reading, Weaker
  <1>4. sk2 = "none" => r2 = <<>> /\ at[Len(in) + 1] = 1
    BY <1>1 DEF Stream, Weaker
  <1>. QED  BY <1>1, <1>3, <1>4 DEF Flow, Stream

\* The first header is awaited once the connection is there.
LEMMA FlowConnect ==
    ASSUME NEW s, NEW q, NEW out, NEW w, NEW u, NEW r, NEW tmp, NEW in, NEW sk,
           Flow(s, q, out, w, u, r, tmp, in, sk),
           NEW op, Started(op, "header"), NEW sk2, sk2 # "none",
           sk = "none" \/ (r # <<>> /\ r[1].kind = "connect")
    PROVE  Flow(s, q, out, w, u, <<op>>, tmp, in, sk2)
  <1>1. PICK k, at : k \in Nat /\ Stream(s, q, out, w, u, r, tmp, in, sk, k, at)
    BY DEF Flow, Stream
  <1>2. Reading(s, at, r, tmp, in) /\ at[Len(in) + 1] = 1
    BY <1>1 DEF Stream, Reading
  <1>3. Reading(s, at, <<op>>, tmp, in)
    BY <1>2 DEF Reading, Started
  <1>. QED  BY <1>1, <1>3 DEF Flow, Stream

\* The operating system takes the bytes of the front packet.
LEMMA FlowWrite ==
    ASSUME NEW s, NEW q, NEW out \in Seq(Packet), NEW w \in OneOp, NEW u \in Seq(Unit),
           NEW r, NEW tmp, NEW in, NEW sk, Flow(s, q, out, w, u, r, tmp, in, sk),
           w # <<>>, w[1].st = "pending", NEW v \in Seq(Unit),
           v = IF w[1].kind = "header" THEN <<HeaderUnit(Head(out))>>
               ELSE [i \in DOMAIN Head(out).body |-> BodyUnit(Head(out).body[i])],
           NEW w2, w2 # <<>>, w2[1] = [kind |-> w[1].kind, st |-> "ok"]
    PROVE  Flow(s, q, out, w2, u \o v, r, tmp, in, sk)
  <1>1. PICK k, at : k \in Nat /\ Stream(s, q, out, w, u, r, tmp, in, sk, k, at)
    BY DEF Flow, Stream
  <1>2. /\ Numbered(s) /\ Layout(s, at) /\ Carries(s, at, u)
        /\ Backlog(s, k, out, q) /\ Written(at, k, out, w, Len(u))
    BY <1>1 DEF Flow, Stream
  <1>3. Len(s) \in Nat /\ Len(u) \in Nat /\ Len(out) \in Nat \ {0} /\ Head(out) = out[1]
    BY <1>2, LenProperties, EmptySeq DEF Numbered, Written
  <1>4. k + 1 \in 1..Len(s) /\ k + 1 \in Nat /\ Head(out) = s[k + 1]
    <2>1. k + Len(out) <= Len(s) /\ \A i \in 1..Len(out) : out[i] = s[k + i]
      BY <1>2 DEF Backlog
    <2>2. 1 \in 1..Len(out) /\ k + 1 \in 1..Len(s)
      BY <1>1, <1>3, <2>1
    <2>. QED  BY <1>3, <2>1, <2>2
  <1> DEFINE z == s[k + 1].size
  <1>5. /\ z \in Nat /\ at[k + 1] \in Int /\ at[k + 2] \in Int /\ at[k + 2] = at[k + 1] + 1 + z
        /\ (k + 1) + 1 = k + 2
    BY <1>1, <1>2, <1>4, LayoutFacts
  <1>6. s[k + 1] = PacketOf(k + 1, z)
    BY <1>2, <1>4 DEF Numbered
  <1> HIDE DEF z
  <1>7. Fills(v, Len(u), at, s, k + 1) /\ Written(at, k, out, w2, Len(u) + Len(v))
    <2>1. CASE w[1].kind = "header"
      <3>1. w[1] = [kind |-> "header", st |-> "pending"]
        BY <2>1 DEF OneOp, Ops
      <3>2. Len(u) + 1 = at[k + 1]
        BY <1>2, <3>1 DEF Written
      <3>3. v = <<HeaderUnit(s[k + 1])>> /\ Len(v) = 1
        BY <1>4, <2>1
      <3>4. Len(u) + Len(v) < at[k + 2] /\ at[k + 1] <= Len(u) + 1 /\ Len(u) + Len(v) = at[k + 1]
        <4>1. Len(v) = 1
          BY <3>3
        <4>2. Len(u) \in Nat
          BY <1>3
        <4>. QED  BY <1>5, <3>2, <4>1, <4>2, AfterHeader
      <3>5. ASSUME NEW m \in 1..Len(v)
            PROVE  v[m] = HeaderUnit(s[k + 1]) /\ Len(u) + m = at[k + 1]
        BY <3>2, <3>3
      <3>6. Fills(v, Len(u), at, s, k + 1)
        BY <1>5, <3>4, <3>5 DEF Fills
      <3>7. Written(at, k, out, w2, Len(u) + Len(v))
        BY <1>2, <2>1, <3>4 DEF Written
      <3>. QED  BY <3>6, <3>7
    <2>2. CASE w[1].kind # "header"
      <3>1. w[1] = [kind |-> "data", st |-> "pending"]
        BY <1>2, <2>2 DEF OneOp, Ops, Written
      <3>2. Len(u) = at[k + 1]
        BY <1>2, <3>1 DEF Written
      <3>3. v = [i \in 1..z |-> BodyUnit(k + 1)]
        <4>1. Head(out).body = [i \in 1..z |-> k + 1]
          BY <1>4, <1>6 DEF PacketOf
        <4>. QED  BY <2>2, <4>1
      <3>4. Len(v) = z /\ \A m \in 1..z : v[m] = BodyUnit(k + 1)
        <4>1. Len(v) \in Nat /\ DOMAIN v = 1..Len(v) /\ DOMAIN v = 1..z
          BY <3>3, LenProperties
        <4>. QED  BY <1>5, <3>3, <4>1, SameInterval
      <3>5. Len(u) + Len(v) < at[k + 2] /\ at[k + 1] <= Len(u) + 1 /\ Len(u) + Len(v) + 1 = at[k + 2]
        BY <1>3, <1>5, <3>2, <3>4
      <3>6. \A m \in 1..Len(v) : Len(u) + m # at[k + 1]
        BY <1>3, <3>2
      <3>7. Fills(v, Len(u), at, s, k + 1)
        BY <1>5, <3>4, <3>5, <3>6 DEF Fills
      <3>8. Written(at, k, out, w2, Len(u) + Len(v))
        BY <1>2, <3>1, <3>5 DEF Written
      <3>. QED  BY <3>7, <3>8
    <2>. QED  BY <2>1, <2>2
  <1>8. Carries(s, at, u \o v) /\ Len(u \o v) = Len(u) + Len(v)
    BY <1>2, <1>4, <1>7, Grows
  <1>. QED  BY <1>1, <1>7, <1>8 DEF Flow, Stream

\* The header is written and the body is next.
LEMMA FlowBody ==
    ASSUME NEW s, NEW q, NEW out, NEW w, NEW u, NEW r, NEW tmp, NEW in, NEW sk,
           Flow(s, q, out, w, u, r, tmp, in, sk),
           w # <<>>, w[1] = [kind |-> "header", st |-> "ok"], NEW op, Started(op, "data")
    PROVE  Flow(s, q, out, <<op>>, u, r, tmp, in, sk)
  <1>1. PICK k, at : k \in Nat /\ Stream(s, q, out, w, u, r, tmp, in, sk, k, at)
    BY DEF Flow, Stream
  <1>2. Written(at, k, out, w, Len(u))
    BY <1>1 DEF Stream
  <1>3. Written(at, k, out, <<op>>, Len(u))
    BY <1>2 DEF Written, Started
  <1>. QED  BY <1>1, <1>3 DEF Flow, Stream

\* The packet is written; its successor is next.
LEMMA FlowPop ==
    ASSUME NEW s, NEW q, NEW out \in Seq(Packet), NEW w, NEW u \in Seq(Unit),
           NEW r, NEW tmp, NEW in, NEW sk, Flow(s, q, out, w, u, r, tmp, in, sk),
           w # <<>>,
           \/ w[1] = [kind |-> "header", st |-> "ok"] /\ Head(out).body = <<>>
           \/ w[1] = [kind |-> "data", st |-> "ok"],
           NEW op, Started(op, "header"), NEW w2,
           w2 = IF Tail(out) = <<>> THEN <<>> ELSE <<op>>
    PROVE  Flow(s, q, Tail(out), w2, u, r, tmp, in, sk)
  <1> DEFINE t == Tail(out)
  <1>1. PICK k, at : k \in Nat /\ Stream(s, q, out, w, u, r, tmp, in, sk, k, at)
    BY DEF Flow, Stream
  <1>2. /\ Numbered(s) /\ Layout(s, at) /\ Backlog(s, k, out, q) /\ Written(at, k, out, w, Len(u))
    BY <1>1 DEF Flow, Stream
  <1>3. /\ Len(s) \in Nat /\ Len(u) \in Nat /\ Len(out) \in Nat \ {0} /\ Head(out) = out[1]
        /\ Len(t) = Len(out) - 1 /\ \A i \in 1..Len(t) : t[i] = out[i + 1]
    BY <1>2, LenProperties, EmptySeq, HeadTailProperties DEF Numbered, Written
  <1> HIDE DEF t
  <1>4. k + Len(out) <= Len(s) /\ \A i \in 1..Len(out) : out[i] = s[k + i]
    BY <1>2 DEF Backlog
  <1>5. /\ k + 1 \in 1..Len(s) /\ k + 1 \in Nat
        /\ (k + 1) + Len(t) = k + Len(out) /\ (k + 1) + 1 = k + 2
    BY <1>1, <1>3, <1>4
  <1>6. Backlog(s, k + 1, t, q)
    <2>1. ASSUME NEW i \in 1..Len(t) PROVE t[i] = s[(k + 1) + i]
      <3>1. i + 1 \in 1..Len(out) /\ t[i] = out[i + 1] /\ k + (i + 1) = (k + 1) + i
        BY <1>1, <1>3
      <3>2. out[i + 1] = s[k + (i + 1)]
        BY <1>4, <3>1
      <3>. QED  BY <3>1, <3>2
    <2>. QED  BY <1>2, <1>4, <1>5, <2>1 DEF Backlog
  <1>7. Len(u) + 1 = at[k + 2]
    <2>1. CASE w[1] = [kind |-> "data", st |-> "ok"]
      BY <1>2, <2>1 DEF Written
    <2>2. CASE w[1] = [kind |-> "header", st |-> "ok"] /\ Head(out).body = <<>>
      <3>1. Len(u) = at[k + 1]
        BY <1>2, <2>2 DEF Written
      <3>2. 1 \in 1..Len(out)
        BY <1>3
      <3>3. s[k + 1].size = 0
        <4>1. Head(out) = s[k + 1] /\ s[k + 1] \in Packet
          BY <1>2, <1>3, <1>4, <1>5, <3>2, ElementOfSeq DEF Numbered
        <4>2. s[k + 1].size \in Nat /\ DOMAIN s[k + 1].body = 1..s[k + 1].size
          BY <4>1, PacketType
        <4>3. DOMAIN s[k + 1].body = {}
          BY <2>2, <4>1
        <4>4. s[k + 1].size # 0 => 1 \in 1..s[k + 1].size
          BY <4>2
        <4>. QED  BY <4>2, <4>3, <4>4
      <3>4. at[k + 2] = at[k + 1] + 1 + s[k + 1].size /\ at[k + 1] \in Int
        BY <1>2, <1>5, LayoutFacts
      <3>. QED  BY <1>3, <3>1, <3>3, <3>4
    <2>. QED  BY <2>1, <2>2
  <1>8. Written(at, k + 1, t, w2, Len(u))
    <2>1. at[(k + 1) + 1] = Len(u) + 1
      BY <1>5, <1>7
    <2>2. CASE t = <<>>
      <3>1. w2 = <<>>
        BY <2>2 DEF t
      <3>. QED  BY <2>1, <2>2, <3>1 DEF Written
    <2>3. CASE t # <<>>
      <3>1. w2 # <<>> /\ w2[1] = op
        BY <2>3 DEF t
      <3>. QED  BY <2>1, <2>3, <3>1 DEF Written, Started
    <2>. QED  BY <2>2, <2>3
  <1>. QED  BY <1>1, <1>5, <1>6, <1>8 DEF Flow, Stream, t

\* v is u without its first c units.
Drops(v, u, c) == /\ c \in Nat /\ v \in Seq(Unit) /\ Len(v) = Len(u) - c
                  /\ \A j \in 1..Len(v) : v[j] = u[j + c]

LEMMA DropFirst ==
    ASSUME NEW u \in Seq(Unit)
    PROVE  /\ u # <<>> => Drops(Tail(u), u, 1)
           /\ \A c \in Nat : c <= Len(u) => Drops(SubSeq(u, c + 1, Len(u)), u, c)
  <1>1. Len(u) \in Nat
    BY LenProperties
  <1>2. ASSUME u # <<>> PROVE Drops(Tail(u), u, 1)
    BY <1>2, HeadTailProperties DEF Drops
  <1>3. ASSUME NEW c \in Nat, c <= Len(u) PROVE Drops(SubSeq(u, c + 1, Len(u)), u, c)
    <2> DEFINE v == SubSeq(u, c + 1, Len(u))
    <2>1. c + 1 \in Int /\ Len(u) \in Int /\ \A i \in (c + 1)..Len(u) : u[i] \in Unit
      BY <1>1, ElementOfSeq
    <2>2. /\ v \in Seq(Unit)
          /\ Len(v) = IF c + 1 <= Len(u) THEN Len(u) - (c + 1) + 1 ELSE 0
          /\ \A i \in 1..(Len(u) - (c + 1) + 1) : v[i] = u[(c + 1) + i - 1]
      BY <2>1, SubSeqProperties
    <2> HIDE DEF v
    <2>3. Len(v) = Len(u) - c /\ Len(u) - (c + 1) + 1 = Len(u) - c
      <3>1. Len(v) = IF c + 1 <= Len(u) THEN Len(u) - (c + 1) + 1 ELSE 0
        BY <2>2
      <3>. QED  BY <1>1, <1>3, <3>1
    <2>4. ASSUME NEW j \in 1..Len(v) PROVE v[j] = u[j + c]
      <3>1. j \in 1..(Len(u) - (c + 1) + 1) /\ (c + 1) + j - 1 = j + c
        BY <1>1, <2>3
      <3>. QED  BY <2>2, <3>1
    <2>. QED  BY <2>2, <2>3, <2>4 DEF Drops, v
  <1>. QED  BY <1>2, <1>3

\* What the writer has put on the stream and still has to.
Sender(s, q, out, w, u, k, at) ==
    /\ out \in Seq(Packet) /\ u \in Seq(Unit) /\ k \in Nat
    /\ Numbered(s) /\ Layout(s, at) /\ Carries(s, at, u)
    /\ Backlog(s, k, out, q) /\ Written(at, k, out, w, Len(u))

LEMMA ShiftsEnd ==
    ASSUME NEW a \in Int, NEW l \in Int, NEW c \in Nat
    PROVE  (l + 1 = a => (l - c) + 1 = a - c) /\ (l = a => l - c = a - c)
  OBVIOUS

\* Reading from the front of the stream leaves the writer where it is.
LEMMA Consumes ==
    ASSUME NEW s, NEW q, NEW out, NEW w, NEW u, NEW k, NEW at, Sender(s, q, out, w, u, k, at),
           NEW c, NEW v, Drops(v, u, c)
    PROVE  /\ Sender(s, q, out, w, v, k, Shifted(at, c))
           /\ \A i \in 1..Len(s) + 1 : Shifted(at, c)[i] = at[i] - c
  <1> DEFINE at2 == Shifted(at, c)
  <1>1. Len(u) \in Nat /\ Len(s) \in Nat /\ Len(out) \in Nat
    BY LenProperties DEF Numbered, Sender
  <1>2. c \in Nat /\ v \in Seq(Unit) /\ Len(v) = Len(u) - c /\ \A j \in 1..Len(v) : v[j] = u[j + c]
    BY DEF Drops
  <1>3. Layout(s, at2) /\ Carries(s, at2, v)
    BY <1>2, ShiftsLayout, Shifts DEF Sender
  <1>4. \A i \in 1..Len(s) + 1 : at2[i] = at[i] - c /\ at[i] \in Int
    BY <1>2, ShiftsLayout, LayoutFacts DEF Sender
  <1> HIDE DEF at2
  <1>5. k + 1 \in 1..Len(s) + 1 /\ (out # <<>> => k + 2 \in 1..Len(s) + 1)
    <2>1. k + Len(out) <= Len(s)
      BY DEF Backlog, Sender
    <2>2. out # <<>> => Len(out) # 0
      BY EmptySeq DEF Sender
    <2>. QED  BY <1>1, <2>1, <2>2 DEF Sender
  <1>6. /\ Len(u) + 1 = at[k + 1] => Len(v) + 1 = at2[k + 1]
        /\ Len(u) = at[k + 1] => Len(v) = at2[k + 1]
        /\ out # <<>> /\ Len(u) + 1 = at[k + 2] => Len(v) + 1 = at2[k + 2]
    <2>1. Len(u) \in Int /\ c \in Nat /\ Len(v) = Len(u) - c
      BY <1>1, <1>2
    <2>2. at2[k + 1] = at[k + 1] - c /\ at[k + 1] \in Int
      BY <1>4, <1>5
    <2>3. out # <<>> => at2[k + 2] = at[k + 2] - c /\ at[k + 2] \in Int
      BY <1>4, <1>5
    <2>. QED  BY <2>1, <2>2, <2>3, ShiftsEnd
  <1>7. Written(at2, k, out, w, Len(v))
    BY <1>6 DEF Written, Sender
  <1>8. Sender(s, q, out, w, v, k, at2)
    BY <1>2, <1>3, <1>7 DEF Sender
  <1>. QED  BY <1>4, <1>8 DEF at2

\* A header has been read.
LEMMA FlowHeader ==
    ASSUME NEW s, NEW q, NEW out \in Seq(Packet), NEW w, NEW u \in Seq(Unit), NEW r, NEW tmp,
           NEW in \in Seq(Incoming), NEW sk, Flow(s, q, out, w, u, r, tmp, in, sk),
           r # <<>>, r[1] = [kind |-> "header", st |-> "pending"], u # <<>>,
           NEW tmp2, tmp2.cmdID = Head(u).cmdID, tmp2.size = Head(u).size,
           NEW r2, r2 # <<>>, r2[1] = [kind |-> "header", st |-> "ok"]
    PROVE  Flow(s, q, out, w, Tail(u), r2, tmp2, in, sk)
  <1> DEFINE d == Len(in) + 1
  <1>1. PICK k, at : k \in Nat /\ Stream(s, q, out, w, u, r, tmp, in, sk, k, at)
    BY DEF Flow, Stream
  <1>2. /\ Numbered(s) /\ Layout(s, at) /\ Carries(s, at, u) /\ Backlog(s, k, out, q)
        /\ Written(at, k, out, w, Len(u)) /\ Reading(s, at, r, tmp, in)
    BY <1>1 DEF Flow, Stream
  <1>3. /\ Len(in) <= Len(s) /\ (\A i \in 1..Len(in) : Seen(in[i]) = s[i]) /\ at[d] = 1
    BY <1>2 DEF Reading
  <1>4. Len(s) \in Nat /\ Len(in) \in Nat /\ Len(u) \in Nat \ {0} /\ Head(u) = u[1] /\ 1 \in 1..Len(u)
    BY <1>2, LenProperties, EmptySeq DEF Numbered
  <1>5. d \in 1..Len(s)
    <2>1. Len(u) < at[Len(s) + 1]
      BY <1>2 DEF Carries
    <2>2. at[Len(s) + 1] \in Int
      <3>1. Len(s) + 1 \in 1..Len(s) + 1
        BY <1>4
      <3>. QED  BY <1>2, <3>1, LayoutFacts
    <2>3. d # Len(s) + 1
      BY <1>3, <1>4, <2>1, <2>2
    <2>. QED  BY <1>3, <1>4, <2>3
  <1> HIDE DEF d
  <1>6. u[1] = HeaderUnit(s[d]) /\ s[d] = PacketOf(d, s[d].size)
    BY <1>2, <1>3, <1>4, <1>5 DEF Carries, Numbered
  <1>7. tmp2.cmdID = d /\ tmp2.size = s[d].size
    BY <1>4, <1>6 DEF HeaderUnit, PacketOf
  <1> DEFINE at2 == Shifted(at, 1)
  <1>8. /\ Layout(s, at2) /\ Carries(s, at2, Tail(u)) /\ Written(at2, k, out, w, Len(Tail(u)))
        /\ \A i \in 1..Len(s) + 1 : at2[i] = at[i] - 1
    <2>1. Drops(Tail(u), u, 1)
      BY DropFirst
    <2>2. Sender(s, q, out, w, u, k, at)
      BY <1>1, <1>2 DEF Sender
    <2>3. Sender(s, q, out, w, Tail(u), k, at2) /\ \A i \in 1..Len(s) + 1 : at2[i] = at[i] - 1
      BY <2>1, <2>2, Consumes
    <2>. QED  BY <2>3 DEF Sender
  <1> HIDE DEF at2
  <1>9. at2[d] = 0 /\ d <= Len(s)
    <2>1. d \in 1..Len(s) + 1 /\ d <= Len(s)
      BY <1>4, <1>5
    <2>. QED  BY <1>3, <1>8, <2>1
  <1>10. Reading(s, at2, r2, tmp2, in)
    BY <1>3, <1>7, <1>9 DEF Reading, d
  <1>11. sk # "none"
    BY <1>1 DEF Stream
  <1>12. Stream(s, q, out, w, Tail(u), r2, tmp2, in, sk, k, at2)
    BY <1>1, <1>2, <1>8, <1>10, <1>11 DEF Stream
  <1>. QED  BY <1>2, <1>12 DEF Flow

\* The body that follows has been read.
LEMMA FlowData ==
    ASSUME NEW s, NEW q, NEW out \in Seq(Packet), NEW w, NEW u \in Seq(Unit), NEW r,
           NEW tmp \in Incoming, NEW in \in Seq(Incoming), NEW sk,
           Flow(s, q, out, w, u, r, tmp, in, sk),
           r # <<>>, r[1] = [kind |-> "data", st |-> "pending"], Len(tmp.body) <= Len(u),
           NEW tmp2, tmp2 = [tmp EXCEPT !.body = [i \in 1..Len(tmp.body) |-> u[i].val]],
           NEW r2, r2 # <<>>, r2[1] = [kind |-> "data", st |-> "ok"]
    PROVE  Flow(s, q, out, w, SubSeq(u, Len(tmp.body) + 1, Len(u)), r2, tmp2, in, sk)
  <1> DEFINE d == Len(in) + 1
             c == Len(tmp.body)
             v == SubSeq(u, c + 1, Len(u))
  <1>1. PICK k, at : k \in Nat /\ Stream(s, q, out, w, u, r, tmp, in, sk, k, at)
    BY DEF Flow, Stream
  <1>2. /\ Numbered(s) /\ Layout(s, at) /\ Carries(s, at, u) /\ Backlog(s, k, out, q)
        /\ Written(at, k, out, w, Len(u)) /\ Reading(s, at, r, tmp, in)
    BY <1>1 DEF Flow, Stream
  <1>3. /\ Len(in) <= Len(s) /\ (\A i \in 1..Len(in) : Seen(in[i]) = s[i])
        /\ at[d] = 0 /\ d <= Len(s) /\ tmp.cmdID = d /\ tmp.size = s[d].size /\ c = tmp.size
    BY <1>2 DEF Reading
  <1>4. Len(s) \in Nat /\ Len(in) \in Nat /\ Len(u) \in Nat /\ c \in Nat
    BY <1>2, LenProperties DEF Numbered, Incoming
  <1>5. d \in 1..Len(s) /\ d \in 1..Len(s) + 1 /\ d + 1 \in 1..Len(s) + 1
    BY <1>3, <1>4
  <1>6. Drops(v, u, c)
    BY <1>4, DropFirst
  <1> HIDE DEF d, c, v
  <1>7. at[d + 1] = 1 + c
    <2>1. at[d + 1] = at[d] + 1 + s[d].size
      BY <1>2, <1>5, LayoutFacts
    <2>. QED  BY <1>3, <1>4, <2>1
  <1>8. s[d] = PacketOf(d, c)
    BY <1>2, <1>3, <1>5 DEF Numbered
  <1>9. ASSUME NEW i \in 1..c PROVE u[i].val = d
    <2>1. i \in 1..Len(u) /\ at[d] < i /\ i < at[d + 1]
      <3>1. c <= Len(u)
        BY DEF c
      <3>. QED  BY <1>3, <1>4, <1>7, <3>1
    <2>2. u[i] = BodyUnit(d)
      BY <1>2, <1>5, <2>1 DEF Carries
    <2>. QED  BY <2>2 DEF BodyUnit
  <1>10. tmp2 = s[d]
    <2>1. [i \in 1..c |-> u[i].val] = [i \in 1..c |-> d]
      BY <1>9
    <2>2. tmp2 = [cmdID |-> d, size |-> c, body |-> [i \in 1..c |-> u[i].val]]
      BY <1>3 DEF Incoming, c
    <2>. QED  BY <1>8, <2>1, <2>2 DEF PacketOf
  <1> DEFINE at2 == Shifted(at, c)
  <1>11. /\ Layout(s, at2) /\ Carries(s, at2, v) /\ Written(at2, k, out, w, Len(v))
         /\ \A i \in 1..Len(s) + 1 : at2[i] = at[i] - c
    <2>1. Sender(s, q, out, w, u, k, at)
      BY <1>1, <1>2 DEF Sender
    <2>2. Sender(s, q, out, w, v, k, at2) /\ \A i \in 1..Len(s) + 1 : at2[i] = at[i] - c
      BY <1>6, <2>1, Consumes
    <2>. QED  BY <2>2 DEF Sender
  <1> HIDE DEF at2
  <1>12. at2[d + 1] = 1
    BY <1>4, <1>5, <1>7, <1>11
  <1>13. Reading(s, at2, r2, tmp2, in)
    <2>1. /\ r2[1].kind # "connect" /\ r2[1] # [kind |-> "header", st |-> "pending"]
          /\ r2[1] # [kind |-> "header", st |-> "ok"] /\ r2[1] # [kind |-> "data", st |-> "pending"]
      OBVIOUS
    <2>. QED  BY <1>3, <1>10, <1>12, <2>1 DEF Reading, d
  <1>14. sk # "none"
    BY <1>1 DEF Stream
  <1>15. Stream(s, q, out, w, v, r2, tmp2, in, sk, k, at2)
    BY <1>1, <1>2, <1>11, <1>13, <1>14 DEF Stream
  <1>. QED  BY <1>2, <1>15 DEF Flow, v, c

\* The body is made as long as the header says, and read.
LEMMA FlowResize ==
    ASSUME NEW s, NEW q, NEW out, NEW w, NEW u, NEW r, NEW tmp \in Incoming, NEW in, NEW sk,
           Flow(s, q, out, w, u, r, tmp, in, sk),
           r # <<>>, r[1] = [kind |-> "header", st |-> "ok"],
           NEW op, Started(op, "data"),
           NEW tmp2, tmp2 = [tmp EXCEPT !.body = Resize(@, tmp.size)]
    PROVE  Flow(s, q, out, w, u, <<op>>, tmp2, in, sk)
  <1>1. PICK k, at : k \in Nat /\ Stream(s, q, out, w, u, r, tmp, in, sk, k, at)
    BY DEF Flow, Stream
  <1>2. Reading(s, at, r, tmp, in)
    BY <1>1 DEF Stream
  <1>3. tmp2.cmdID = tmp.cmdID /\ tmp2.size = tmp.size /\ tmp2.body = Resize(tmp.body, tmp.size)
    BY DEF Incoming
  <1>4. Len(tmp2.body) = tmp2.size
    <2>1. tmp.size \in Nat /\ tmp.body \in Seq(Nat)
      BY DEF Incoming
    <2>2. Resize(tmp.body, tmp.size) \in Seq(Nat)
      BY <2>1, ResizeType
    <2>3. DOMAIN Resize(tmp.body, tmp.size) = 1..tmp.size
      BY DEF Resize
    <2>4. Len(Resize(tmp.body, tmp.size)) \in Nat
          /\ 1..Len(Resize(tmp.body, tmp.size)) = 1..tmp.size
      BY <2>2, <2>3, LenProperties
    <2>. QED  BY <1>3, <2>1, <2>4, SameInterval
  <1>5. Reading(s, at, <<op>>, tmp2, in)
    <2>1. /\ Len(in) <= Len(s) /\ (\A i \in 1..Len(in) : Seen(in[i]) = s[i])
          /\ Len(in) + 1 <= Len(s) /\ at[Len(in) + 1] = 0
          /\ tmp.cmdID = Len(in) + 1 /\ tmp.size = s[Len(in) + 1].size
      BY <1>2 DEF Reading
    <2>2. <<op>> # <<>> /\ <<op>>[1] = op /\ op.kind = "data" /\ op.st # "ok"
      BY DEF Started
    <2>. QED  BY <1>3, <1>4, <2>1, <2>2 DEF Reading
  <1>6. sk # "none"
    BY <1>1 DEF Stream
  <1>. QED  BY <1>1, <1>5, <1>6 DEF Flow, Stream

LEMMA SeenIs ==
    ASSUME NEW c, NEW n, NEW b
    PROVE  Seen([cmdID |-> c, size |-> n, body |-> b])
              = [cmdID |-> c, size |-> n, body |-> [i \in DOMAIN b \intersect (1..n) |-> b[i]]]
  BY DEF Seen

LEMMA SeenPacket ==
    ASSUME NEW d, NEW z
    PROVE  Seen(PacketOf(d, z)) = PacketOf(d, z)
  <1> DEFINE b == [i \in 1..z |-> d]
  <1>1. DOMAIN b = 1..z /\ \A i \in 1..z : b[i] = d
    OBVIOUS
  <1>2. [i \in DOMAIN b \intersect (1..z) |-> b[i]] = b
    <2>1. DOMAIN b \intersect (1..z) = 1..z
      BY <1>1
    <2>. QED  BY <1>1, <2>1
  <1>3. PacketOf(d, z) = [cmdID |-> d, size |-> z, body |-> b]
    BY DEF PacketOf
  <1> HIDE DEF b
  <1>. QED  BY <1>2, <1>3, SeenIs

\* PushToIncomingQueue hands over the packet whose turn it is.
LEMMA FlowPush ==
    ASSUME NEW s, NEW q, NEW out, NEW w, NEW u, NEW r, NEW tmp \in Incoming,
           NEW in \in Seq(Incoming), NEW sk, Flow(s, q, out, w, u, r, tmp, in, sk),
           r # <<>>,
           \/ r[1] = [kind |-> "header", st |-> "ok"] /\ tmp.size = 0
           \/ r[1] = [kind |-> "data", st |-> "ok"],
           NEW op, Started(op, "header")
    PROVE  /\ Len(in) < Len(s) /\ Seen(tmp) = s[Len(in) + 1]
           /\ Flow(s, q, out, w, u, <<op>>, tmp, Append(in, tmp), sk)
  <1> DEFINE d == Len(in) + 1
             in2 == Append(in, tmp)
  <1>1. PICK k, at : k \in Nat /\ Stream(s, q, out, w, u, r, tmp, in, sk, k, at)
    BY DEF Flow, Stream
  <1>2. Numbered(s) /\ Layout(s, at) /\ Reading(s, at, r, tmp, in)
    BY <1>1 DEF Flow, Stream
  <1>3. /\ Len(in2) = d /\ in2[d] = tmp /\ (\A i \in 1..Len(in) : in2[i] = in[i])
        /\ Len(s) \in Nat /\ Len(in) \in Nat
    BY <1>2, AppendProperties, LenProperties DEF Numbered
  <1> HIDE DEF in2
  <1>4. d <= Len(s) /\ \A i \in 1..Len(in) : Seen(in[i]) = s[i]
    BY <1>2 DEF Reading
  <1>5. d \in 1..Len(s) /\ d \in 1..Len(s) + 1 /\ s[d] = PacketOf(d, s[d].size)
        /\ s[d].size \in Nat /\ at[d] \in Int /\ at[d + 1] = at[d] + 1 + s[d].size
    <2>1. d \in 1..Len(s) /\ d \in 1..Len(s) + 1
      BY <1>3, <1>4
    <2>. QED  BY <1>2, <2>1, LayoutFacts DEF Numbered
  <1>6. at[d + 1] = 1 /\ Seen(tmp) = s[d]
    <2>1. CASE r[1] = [kind |-> "data", st |-> "ok"]
      <3>1. at[d + 1] = 1 /\ tmp = s[d]
        BY <1>2, <2>1 DEF Reading
      <3>2. Seen(s[d]) = s[d]
        BY <1>5, SeenPacket
      <3>. QED  BY <3>1, <3>2
    <2>2. CASE r[1] = [kind |-> "header", st |-> "ok"] /\ tmp.size = 0
      <3>1. at[d] = 0 /\ tmp.cmdID = d /\ s[d].size = 0
        BY <1>2, <2>2 DEF Reading
      <3>2. at[d + 1] = 1
        BY <1>5, <3>1
      <3>3. s[d] = [cmdID |-> d, size |-> 0, body |-> [i \in 1..0 |-> d]]
        BY <1>5, <3>1 DEF PacketOf
      <3>4. Seen(tmp) = [cmdID |-> d, size |-> 0,
                         body |-> [i \in DOMAIN tmp.body \intersect (1..0) |-> tmp.body[i]]]
        <4> DEFINE b == tmp.body
        <4>1. tmp = [cmdID |-> d, size |-> 0, body |-> b]
          BY <2>2, <3>1 DEF Incoming
        <4> HIDE DEF b
        <4>2. Seen(tmp) = [cmdID |-> d, size |-> 0, body |-> [i \in DOMAIN b \intersect (1..0) |-> b[i]]]
          BY <4>1, SeenIs
        <4>. QED  BY <4>2 DEF b
      <3>5. DOMAIN tmp.body \intersect (1..0) = 1..0
        OBVIOUS
      <3>6. [i \in 1..0 |-> tmp.body[i]] = [i \in 1..0 |-> d]
        OBVIOUS
      <3>. QED  BY <3>2, <3>3, <3>4, <3>5, <3>6
    <2>. QED  BY <2>1, <2>2
  <1>7. Reading(s, at, <<op>>, tmp, in2)
    <2>1. ASSUME NEW i \in 1..Len(in2) PROVE Seen(in2[i]) = s[i]
      <3>1. CASE i = d
        BY <1>3, <1>6, <3>1
      <3>2. CASE i # d
        <4>1. i \in 1..Len(in)
          BY <1>3, <3>2
        <4>. QED  BY <1>3, <1>4, <4>1
      <3>. QED  BY <3>1, <3>2
    <2>2. Len(in2) + 1 = d + 1 /\ Len(in2) <= Len(s)
      BY <1>3, <1>4
    <2>3. <<op>> # <<>> /\ <<op>>[1] = op /\ op.kind = "header" /\ op.st # "ok"
      BY DEF Started
    <2>. QED  BY <1>6, <2>1, <2>2, <2>3 DEF Reading
  <1>8. sk # "none"
    BY <1>1 DEF Stream
  <1>9. Flow(s, q, out, w, u, <<op>>, tmp, in2, sk)
    BY <1>1, <1>2, <1>7, <1>8 DEF Flow, Stream
  <1>10. Len(in) < Len(s)
    BY <1>3, <1>4
  <1>. QED  BY <1>6, <1>9, <1>10 DEF in2

-----------------------------------------------------------------------------
(* Both directions of the connection *)

Dir(e) == Flow(sent[e], posted[e], m_PktOut[e], wr[e], wire[e],
               rd[Peer(e)], m_tmpPktIn[Peer(e)], m_PktIn[Peer(e)], sock[Peer(e)])

\* Disconnect is posted at most once.
NoQuit(e) == e \notin quit => \A i \in 1..Len(posted[e]) : posted[e][i] # Quit

FInv == IInv /\ \A e \in Endpoints : Dir(e) /\ NoQuit(e)

SameOut(e) == /\ sent'[e] = sent[e] /\ posted'[e] = posted[e] /\ m_PktOut'[e] = m_PktOut[e]
              /\ wr'[e] = wr[e] /\ wire'[e] = wire[e]
SameIn(e)  == /\ rd'[e] = rd[e] /\ m_tmpPktIn'[e] = m_tmpPktIn[e] /\ m_PktIn'[e] = m_PktIn[e]
              /\ sock'[e] = sock[e]

LEMMA PeerFacts ==
    ASSUME NEW e \in Endpoints
    PROVE  /\ Peer(e) \in Endpoints /\ Peer(e) # e /\ Peer(Peer(e)) = e
           /\ \A d \in Endpoints : d = e \/ d = Peer(e)
  BY DEF Endpoints, Peer

LEMMA EndpointTypes ==
    ASSUME IInv, NEW e \in Endpoints
    PROVE  /\ sent[e] \in Seq(Packet) /\ posted[e] \in Seq(Packet \union {Quit})
           /\ m_PktOut[e] \in Seq(Packet) /\ wr[e] \in OneOp /\ wire[e] \in Seq(Unit)
           /\ rd[e] \in OneOp /\ m_tmpPktIn[e] \in Incoming /\ m_PktIn[e] \in Seq(Incoming)
  BY DEF IInv, TypeOK, Chain, OneOp, Unit

LEMMA SameDir ==
    ASSUME FInv, NEW e \in Endpoints, SameOut(e), SameIn(Peer(e))
    PROVE  Dir(e)'
  <1>1. Dir(e)
    BY DEF FInv
  <1>. QED  BY <1>1 DEF Dir, SameOut, SameIn

LEMMA HeadOp ==
    ASSUME NEW ops \in OneOp, ops # <<>>
    PROVE  ops[1] \in Ops /\ Head(ops) = ops[1]
  BY OneOpFacts

LEMMA FinishFacts ==
    ASSUME NEW ops \in OneOp, ops # <<>>, NEW st \in {"ok", "err"}
    PROVE  /\ Finish(ops, st) # <<>> /\ Finish(ops, st)[1] = [kind |-> ops[1].kind, st |-> st]
           /\ st = "err" \/ ops[1].kind = "connect" => Weaker(Finish(ops, st), ops)
  <1>1. PICK op \in Ops : ops = <<op>>
    BY DEF OneOp
  <1>2. Finish(ops, st) = <<[kind |-> op.kind, st |-> st]>>
    BY <1>1 DEF Finish, Ops
  <1>3. Finish(ops, st) # <<>> /\ Finish(ops, st)[1] = [kind |-> ops[1].kind, st |-> st]
    BY <1>1, <1>2
  <1>. QED  BY <1>3 DEF Weaker

LEMMA AbortFacts ==
    ASSUME NEW ops \in OneOp
    PROVE  Weaker(Abort(ops), ops) /\ (Abort(ops) = <<>> => ops = <<>>)
  <1>1. CASE ops = <<>>
    <2>1. Abort(ops) = <<>>
      BY <1>1, AbortType
    <2>. QED  BY <1>1, <2>1 DEF Weaker
  <1>2. ASSUME NEW op \in Ops, ops = <<op>>
        PROVE  Weaker(Abort(ops), ops) /\ Abort(ops) # <<>>
    <2> DEFINE new == IF op.st = "pending" THEN [op EXCEPT !.st = "err"] ELSE op
    <2>1. Abort(ops) = <<new>>
      BY <1>2 DEF Abort
    <2>2. new.kind = op.kind /\ (new = op \/ new.st = "err")
      BY DEF Ops
    <2> HIDE DEF new
    <2>3. Abort(ops) # <<>> /\ Abort(ops)[1] = new /\ ops[1] = op /\ ops # <<>>
      BY <1>2, <2>1
    <2>. QED  BY <2>2, <2>3 DEF Weaker
  <1>. QED  BY <1>1, <1>2 DEF OneOp

LEMMA OpStarted ==
    ASSUME NEW e, NEW k \in {"connect", "header", "data"}
    PROVE  Started(Op(e, k), k)
  BY DEF Op, Ops, Started

\* close() fails what is pending and loses no packet of either direction.
LEMMA CloseDirs ==
    ASSUME FInv, NEW e \in Endpoints, NEW w \in OneOp, NEW r \in OneOp, CloseSocket(e, w, r),
           w = wr[e] \/ (w = <<>> /\ wr[e] # <<>>), r = rd[e] \/ r = <<>>,
           posted' = posted \/ (posted' = [posted EXCEPT ![e] = Tail(@)]
                                /\ posted[e] # <<>> /\ Head(posted[e]) = Quit),
           UNCHANGED <<m_PktOut, wire, m_tmpPktIn, m_PktIn, sent>>
    PROVE  \A d \in Endpoints : Dir(d)'
  <1> DEFINE p == Peer(e)
  <1>1. /\ Dir(e) /\ Dir(p) /\ p \in Endpoints /\ p # e /\ Peer(p) = e /\ IInv
        /\ \A d \in Endpoints : d = e \/ d = p
    BY PeerFacts DEF FInv
  <1>2. /\ posted \in [Endpoints -> Seq(Packet \union {Quit})] /\ DOMAIN wr = Endpoints
        /\ DOMAIN rd = Endpoints /\ DOMAIN sock = Endpoints
    BY <1>1 DEF IInv, TypeOK
  <1>3. /\ wr'[e] = Abort(w) /\ rd'[e] = Abort(r) /\ sock'[e] = "closed"
        /\ wr'[p] = wr[p] /\ rd'[p] = rd[p] /\ sock'[p] = sock[p] /\ posted'[p] = posted[p]
    BY <1>1, <1>2 DEF CloseSocket
  <1>4. /\ Weaker(Abort(w), wr[e]) /\ Weaker(Abort(r), rd[e])
        /\ Abort(w) = <<>> => wr[e] = <<>> \/ m_PktOut[e] # <<>>
    <2>1. Abort(<<>>) = <<>> /\ \A ops : Weaker(<<>>, ops)
      BY AbortType DEF Weaker, OneOp
    <2>2. Weaker(Abort(w), w) /\ (Abort(w) = <<>> => w = <<>>) /\ Weaker(Abort(r), r)
      BY AbortFacts
    <2>3. wr[e] # <<>> => m_PktOut[e] # <<>>
      BY <1>1 DEF IInv, Chain
    <2>. QED  BY <2>1, <2>2, <2>3
  <1>5. Dir(e)'
    <2>1. Flow(sent[e], posted'[e], m_PktOut[e], wr[e], wire[e],
               rd[p], m_tmpPktIn[p], m_PktIn[p], sock[p])
      <3>1. CASE posted' = posted
        BY <1>1, <3>1 DEF Dir
      <3>2. CASE /\ posted' = [posted EXCEPT ![e] = Tail(@)]
                 /\ posted[e] # <<>> /\ Head(posted[e]) = Quit
        <4>1. posted'[e] = Tail(posted[e])
          BY <1>2, <3>2
        <4>2. posted[e] \in Seq(Packet \union {Quit}) /\ m_PktOut[e] \in Seq(Packet)
          BY <1>1, EndpointTypes
        <4>. QED  BY <1>1, <3>2, <4>1, <4>2, FlowQuit DEF Dir
      <3>. QED  BY <3>1, <3>2
    <2>2. Flow(sent[e], posted'[e], m_PktOut[e], Abort(w), wire[e],
               rd[p], m_tmpPktIn[p], m_PktIn[p], sock[p])
      BY <1>4, <2>1, FlowWriteFails
    <2>. QED  BY <1>3, <2>2 DEF Dir
  <1>6. Dir(p)'
    <2>1. Flow(sent[p], posted[p], m_PktOut[p], wr[p], wire[p],
               rd[e], m_tmpPktIn[e], m_PktIn[e], sock[e])
      BY <1>1 DEF Dir
    <2>2. Flow(sent[p], posted[p], m_PktOut[p], wr[p], wire[p],
               Abort(r), m_tmpPktIn[e], m_PktIn[e], "closed")
      BY <1>4, <2>1, FlowReadFails
    <2>. QED  BY <1>1, <1>3, <2>2 DEF Dir
  <1>. QED  BY <1>1, <1>5, <1>6

\* What a step of e does to its two directions is all it does.
LEMMA TwoDirs ==
    ASSUME NEW e \in Endpoints, Dir(e)', Dir(Peer(e))'
    PROVE  \A d \in Endpoints : Dir(d)'
  BY PeerFacts

LEMMA DirFacts ==
    ASSUME FInv, NEW e \in Endpoints
    PROVE  /\ IInv /\ Peer(e) \in Endpoints /\ Peer(e) # e /\ Peer(Peer(e)) = e
           /\ Flow(sent[e], posted[e], m_PktOut[e], wr[e], wire[e], rd[Peer(e)],
                   m_tmpPktIn[Peer(e)], m_PktIn[Peer(e)], sock[Peer(e)])
           /\ Flow(sent[Peer(e)], posted[Peer(e)], m_PktOut[Peer(e)], wr[Peer(e)], wire[Peer(e)],
                   rd[e], m_tmpPktIn[e], m_PktIn[e], sock[e])
  BY PeerFacts DEF FInv, Dir

LEMMA AppDirs ==
    ASSUME FInv, NEW e \in Endpoints, App(e)
    PROVE  \A d \in Endpoints : Dir(d)'
  <1> DEFINE p == Peer(e)
  <1>1. /\ IInv /\ p \in Endpoints /\ p # e /\ Peer(p) = e
        /\ Flow(sent[e], posted[e], m_PktOut[e], wr[e], wire[e],
                rd[p], m_tmpPktIn[p], m_PktIn[p], sock[p])
    BY DirFacts
  <1>2. /\ sent[e] \in Seq(Packet) /\ posted[e] \in Seq(Packet \union {Quit})
        /\ m_PktOut[e] \in Seq(Packet) /\ wire[e] \in Seq(Unit)
        /\ rd[p] \in OneOp /\ m_PktIn[p] \in Seq(Incoming)
    BY <1>1, EndpointTypes
  <1>3. ASSUME NEW n \in Sizes, SendPacket(e, n) PROVE Dir(e)' /\ Dir(p)'
    <2> DEFINE new == PacketOf(Len(sent[e]) + 1, n)
    <2>1. /\ sent' = [sent EXCEPT ![e] = Append(@, new)]
          /\ posted' = [posted EXCEPT ![e] = Append(@, new)]
          /\ UNCHANGED <<sock, m_PktOut, wr, rd, wire, m_tmpPktIn, m_PktIn>>
          /\ Len(sent[e]) < MaxSend(e)
      BY <1>3 DEF SendPacket
    <2>2. sent'[e] = Append(sent[e], new) /\ posted'[e] = Append(posted[e], new)
          /\ SameOut(p) /\ SameIn(e)
      BY <1>1, <2>1 DEF IInv, TypeOK, SameOut, SameIn
    <2>3. new \in Packet
      <3>1. Len(sent[e]) \in Nat /\ MaxSend(e) \in Nat /\ MaxSend(e) <= MaxServerSend + MaxClientSend
        BY <1>2, EndpointFacts, LenProperties
      <3>2. Len(sent[e]) + 1 \in 1..(MaxServerSend + MaxClientSend)
        BY <2>1, <3>1, BoundAssumption
      <3>. QED  BY <3>2, NewPacket
    <2>4. Flow(Append(sent[e], new), Append(posted[e], new), m_PktOut[e], wr[e], wire[e],
               rd[p], m_tmpPktIn[p], m_PktIn[p], sock[p])
      BY <1>1, <1>2, <2>3, FlowSend
    <2>5. Dir(e)'
      BY <2>1, <2>2, <2>4 DEF Dir
    <2>. QED  BY <1>1, <2>2, <2>5, SameDir
  <1>4. CASE Disconnect(e)
    <2>1. /\ posted' = [posted EXCEPT ![e] = Append(@, Quit)] /\ e \notin quit
          /\ UNCHANGED <<sock, m_PktOut, wr, rd, wire, m_tmpPktIn, m_PktIn, sent>>
      BY <1>4 DEF Disconnect
    <2>2. posted'[e] = Append(posted[e], Quit) /\ SameOut(p) /\ SameIn(e)
      BY <1>1, <2>1 DEF IInv, TypeOK, SameOut, SameIn
    <2>3. \A i \in 1..Len(posted[e]) : posted[e][i] # Quit
      BY <2>1 DEF FInv, NoQuit
    <2>4. Flow(sent[e], Append(posted[e], Quit), m_PktOut[e], wr[e], wire[e],
               rd[p], m_tmpPktIn[p], m_PktIn[p], sock[p])
      BY <1>1, <1>2, <2>3, FlowQuit
    <2>5. Dir(e)'
      BY <2>1, <2>2, <2>4 DEF Dir
    <2>. QED  BY <1>1, <2>2, <2>5, SameDir, TwoDirs
  <1>. QED  BY <1>3, <1>4, TwoDirs DEF App

LEMMA WriterDirs ==
    ASSUME FInv, NEW e \in Endpoints, Writer(e)
    PROVE  \A d \in Endpoints : Dir(d)'
  <1> DEFINE p == Peer(e)
  <1>1. /\ IInv /\ p \in Endpoints /\ p # e /\ Peer(p) = e
        /\ Flow(sent[e], posted[e], m_PktOut[e], wr[e], wire[e],
                rd[p], m_tmpPktIn[p], m_PktIn[p], sock[p])
    BY DirFacts
  <1>2. /\ sent[e] \in Seq(Packet) /\ posted[e] \in Seq(Packet \union {Quit})
        /\ m_PktOut[e] \in Seq(Packet) /\ wr[e] \in OneOp /\ wire[e] \in Seq(Unit)
        /\ rd[e] \in OneOp /\ <<>> \in OneOp
    BY <1>1, EndpointTypes DEF OneOp
  <1>3. /\ Started(Op(e, "header"), "header") /\ Op(e, "header") \in Ops
        /\ Started(Op(e, "data"), "data") /\ Op(e, "data") \in Ops
    BY OpStarted, OpType
  <1>4. CASE RunSend(e)
    <2> DEFINE w2 == IF m_PktOut[e] # <<>> THEN wr[e] ELSE <<Op(e, "header")>>
    <2>1. /\ posted[e] # <<>> /\ Head(posted[e]) # Quit
          /\ posted' = [posted EXCEPT ![e] = Tail(@)]
          /\ m_PktOut' = [m_PktOut EXCEPT ![e] = Append(@, Head(posted[e]))]
          /\ wr' = IF Writing(e) THEN wr ELSE [wr EXCEPT ![e] = Append(@, Op(e, "header"))]
          /\ UNCHANGED <<sock, rd, wire, m_tmpPktIn, m_PktIn, sent>>
      BY <1>4 DEF RunSend
    <2>2. wr'[e] = w2 /\ wr'[p] = wr[p]
      <3>1. m_PktOut[e] = <<>> => wr[e] = <<>>
        BY <1>1 DEF IInv, Chain
      <3>2. Append(<<>>, Op(e, "header")) = <<Op(e, "header")>>
        OBVIOUS
      <3>3. DOMAIN wr = Endpoints
        BY <1>1 DEF IInv, TypeOK
      <3>. QED  BY <1>1, <2>1, <3>1, <3>2, <3>3 DEF Writing
    <2>3. /\ posted'[e] = Tail(posted[e]) /\ m_PktOut'[e] = Append(m_PktOut[e], Head(posted[e]))
          /\ SameOut(p) /\ SameIn(e)
      BY <1>1, <2>1, <2>2 DEF IInv, TypeOK, SameOut, SameIn
    <2>4. Flow(sent[e], Tail(posted[e]), Append(m_PktOut[e], Head(posted[e])), w2, wire[e],
               rd[p], m_tmpPktIn[p], m_PktIn[p], sock[p])
      BY <1>1, <1>2, <1>3, <2>1, FlowTake
    <2>5. Dir(e)'
      BY <2>1, <2>2, <2>3, <2>4 DEF Dir
    <2>. QED  BY <1>1, <2>3, <2>5, SameDir, TwoDirs
  <1>5. CASE RunClose(e)
    BY <1>2, <1>5, CloseDirs DEF RunClose
  <1>6. CASE WriteFailed(e)
    <2>1. wr[e] # <<>> /\ Tail(wr[e]) = <<>>
      BY <1>2, <1>6, OneOpFacts DEF WriteFailed
    <2>. QED  BY <1>2, <1>6, <2>1, CloseDirs DEF WriteFailed
  <1>7. ASSUME wr[e] # <<>>, PopAndContinue(e),
               \/ wr[e][1] = [kind |-> "header", st |-> "ok"] /\ Head(m_PktOut[e]).body = <<>>
               \/ wr[e][1] = [kind |-> "data", st |-> "ok"],
               UNCHANGED <<link, sock, posted, rd, wire, m_tmpPktIn, m_PktIn, sent, quit, early>>
        PROVE  Dir(e)' /\ Dir(p)'
    <2> DEFINE w2 == IF Tail(m_PktOut[e]) = <<>> THEN <<>> ELSE <<Op(e, "header")>>
    <2>1. wr' = [wr EXCEPT ![e] = w2] /\ m_PktOut' = [m_PktOut EXCEPT ![e] = Tail(@)]
      <3>1. Tail(wr[e]) = <<>> /\ Append(Tail(wr[e]), Op(e, "header")) = <<Op(e, "header")>>
        BY <1>2, <1>3, <1>7, OneOpFacts
      <3>. QED  BY <1>7, <3>1 DEF PopAndContinue
    <2>2. wr'[e] = w2 /\ m_PktOut'[e] = Tail(m_PktOut[e]) /\ SameOut(p) /\ SameIn(e)
      BY <1>1, <1>7, <2>1 DEF IInv, TypeOK, SameOut, SameIn
    <2>3. Flow(sent[e], posted[e], Tail(m_PktOut[e]), w2, wire[e],
               rd[p], m_tmpPktIn[p], m_PktIn[p], sock[p])
      BY <1>1, <1>2, <1>3, <1>7, FlowPop
    <2>4. Dir(e)'
      BY <1>7, <2>2, <2>3 DEF Dir
    <2>. QED  BY <1>1, <2>2, <2>4, SameDir
  <1>8. ASSUME NEW k, NEW st, Done(wr[e], k, st)
        PROVE  wr[e] # <<>> /\ wr[e][1] = [kind |-> k, st |-> st]
    BY <1>2, <1>8, HeadOp DEF Done, Ops
  <1>9. CASE WriteHeaderDone(e)
    <2>1. wr[e] # <<>> /\ wr[e][1] = [kind |-> "header", st |-> "ok"]
      BY <1>8, <1>9 DEF WriteHeaderDone
    <2>2. CASE PopAndContinue(e) /\ Head(m_PktOut[e]).body = <<>>
      BY <1>7, <1>9, <2>1, <2>2, TwoDirs DEF WriteHeaderDone
    <2>3. CASE wr' = [wr EXCEPT ![e] = Append(Tail(@), Op(e, "data"))] /\ UNCHANGED m_PktOut
      <3>1. Append(Tail(wr[e]), Op(e, "data")) = <<Op(e, "data")>>
        BY <1>2, <1>3, <2>1, OneOpFacts
      <3>2. UNCHANGED <<sock, posted, m_PktOut, rd, wire, m_tmpPktIn, m_PktIn, sent>>
        BY <1>9, <2>3 DEF WriteHeaderDone
      <3>3. wr'[e] = <<Op(e, "data")>> /\ SameOut(p) /\ SameIn(e)
        BY <1>1, <2>3, <3>1, <3>2 DEF IInv, TypeOK, SameOut, SameIn
      <3>4. Flow(sent[e], posted[e], m_PktOut[e], <<Op(e, "data")>>, wire[e],
                 rd[p], m_tmpPktIn[p], m_PktIn[p], sock[p])
        BY <1>1, <1>3, <2>1, FlowBody
      <3>5. Dir(e)'
        BY <3>2, <3>3, <3>4 DEF Dir
      <3>. QED  BY <1>1, <3>3, <3>5, SameDir, TwoDirs
    <2>. QED  BY <1>9, <2>2, <2>3 DEF WriteHeaderDone
  <1>10. CASE WriteDataDone(e)
    <2>1. wr[e] # <<>> /\ wr[e][1] = [kind |-> "data", st |-> "ok"]
      BY <1>8, <1>10 DEF WriteDataDone
    <2>. QED  BY <1>7, <1>10, <2>1, TwoDirs DEF WriteDataDone
  <1>. QED  BY <1>4, <1>5, <1>6, <1>9, <1>10 DEF Writer

LEMMA SystemDirs ==
    ASSUME FInv, NEW e \in Endpoints, System(e) \/ Faults(e)
    PROVE  \A d \in Endpoints : Dir(d)'
  <1> DEFINE p == Peer(e)
  <1>1. /\ IInv /\ p \in Endpoints /\ p # e /\ Peer(p) = e
        /\ Flow(sent[e], posted[e], m_PktOut[e], wr[e], wire[e],
                rd[p], m_tmpPktIn[p], m_PktIn[p], sock[p])
        /\ Flow(sent[p], posted[p], m_PktOut[p], wr[p], wire[p],
                rd[e], m_tmpPktIn[e], m_PktIn[e], sock[e])
    BY DirFacts
  <1>2. /\ m_PktOut[e] \in Seq(Packet) /\ wr[e] \in OneOp /\ wire[e] \in Seq(Unit)
        /\ rd[e] \in OneOp /\ m_tmpPktIn[e] \in Incoming /\ m_PktIn[e] \in Seq(Incoming)
        /\ m_PktOut[p] \in Seq(Packet) /\ wire[p] \in Seq(Unit)
    BY <1>1, EndpointTypes
  <1>3. CASE SendBytes(e)
    <2> DEFINE w2 == Finish(wr[e], "ok")
               v  == WriteUnits(e)
    <2>1. /\ wr[e] # <<>> /\ Head(wr[e]).st = "pending"
          /\ wire' = [wire EXCEPT ![e] = @ \o v] /\ wr' = [wr EXCEPT ![e] = w2]
          /\ UNCHANGED <<sock, posted, m_PktOut, rd, m_tmpPktIn, m_PktIn, sent>>
      BY <1>3 DEF SendBytes, Pending
    <2>2. Head(wr[e]) = wr[e][1] /\ w2 # <<>> /\ w2[1] = [kind |-> wr[e][1].kind, st |-> "ok"]
      BY <1>2, <2>1, HeadOp, FinishFacts
    <2>3. v \in Seq(Unit)
      BY <1>1, <2>1, WriteUnitsType
    <2>4. v = IF wr[e][1].kind = "header" THEN <<HeaderUnit(Head(m_PktOut[e]))>>
              ELSE [i \in DOMAIN Head(m_PktOut[e]).body |-> BodyUnit(Head(m_PktOut[e]).body[i])]
      BY <2>2 DEF WriteUnits
    <2>5. wire'[e] = wire[e] \o v /\ wr'[e] = w2 /\ SameOut(p) /\ SameIn(e)
      BY <1>1, <2>1 DEF IInv, TypeOK, SameOut, SameIn
    <2> HIDE DEF w2, v
    <2>6. Flow(sent[e], posted[e], m_PktOut[e], w2, wire[e] \o v,
               rd[p], m_tmpPktIn[p], m_PktIn[p], sock[p])
      BY <1>1, <1>2, <2>1, <2>2, <2>3, <2>4, FlowWrite
    <2>7. Dir(e)'
      BY <2>1, <2>5, <2>6 DEF Dir
    <2>. QED  BY <1>1, <2>5, <2>7, SameDir, TwoDirs
  <1>4. CASE FailWrite(e)
    <2> DEFINE w2 == Finish(wr[e], "err")
    <2>1. /\ wr[e] # <<>> /\ wr' = [wr EXCEPT ![e] = w2]
          /\ UNCHANGED <<sock, posted, m_PktOut, rd, wire, m_tmpPktIn, m_PktIn, sent>>
      BY <1>4 DEF FailWrite, Pending
    <2>2. w2 # <<>> /\ Weaker(w2, wr[e])
      BY <1>2, <2>1, FinishFacts
    <2>3. wr'[e] = w2 /\ SameOut(p) /\ SameIn(e)
      BY <1>1, <2>1 DEF IInv, TypeOK, SameOut, SameIn
    <2> HIDE DEF w2
    <2>4. Flow(sent[e], posted[e], m_PktOut[e], w2, wire[e],
               rd[p], m_tmpPktIn[p], m_PktIn[p], sock[p])
      BY <1>1, <2>2, FlowWriteFails
    <2>5. Dir(e)'
      BY <2>1, <2>3, <2>4 DEF Dir
    <2>. QED  BY <1>1, <2>3, <2>5, SameDir, TwoDirs
  <1>5. CASE RecvHeader(e)
    <2> DEFINE h == Head(wire[p])
               tmp2 == [m_tmpPktIn[e] EXCEPT !.cmdID = h.cmdID, !.size = h.size]
               r2 == Finish(rd[e], "ok")
    <2>1. /\ rd[e] # <<>> /\ Head(rd[e]).st = "pending" /\ Head(rd[e]).kind = "header"
          /\ wire[p] # <<>> /\ rd' = [rd EXCEPT ![e] = r2]
          /\ wire' = [wire EXCEPT ![p] = Tail(@)]
          /\ m_tmpPktIn' = [m_tmpPktIn EXCEPT ![e].cmdID = h.cmdID, ![e].size = h.size]
          /\ UNCHANGED <<sock, posted, m_PktOut, wr, m_PktIn, sent>>
      BY <1>5 DEF RecvHeader, Pending
    <2>2. m_tmpPktIn' = [m_tmpPktIn EXCEPT ![e] = tmp2]
      BY <2>1
    <2>3. tmp2.cmdID = h.cmdID /\ tmp2.size = h.size
      BY <1>2 DEF Incoming
    <2>4. rd[e][1] = [kind |-> "header", st |-> "pending"]
          /\ r2 # <<>> /\ r2[1] = [kind |-> "header", st |-> "ok"]
      <3>1. rd[e][1] \in Ops /\ Head(rd[e]) = rd[e][1]
        BY <1>2, <2>1, HeadOp
      <3>. QED  BY <1>2, <2>1, <3>1, FinishFacts DEF Ops
    <2> HIDE DEF r2, tmp2, h
    <2>5. /\ rd'[e] = r2 /\ wire'[p] = Tail(wire[p]) /\ m_tmpPktIn'[e] = tmp2
          /\ SameOut(e) /\ SameIn(p)
      BY <1>1, <2>1, <2>2 DEF IInv, TypeOK, SameOut, SameIn
    <2>6. Flow(sent[p], posted[p], m_PktOut[p], wr[p], Tail(wire[p]),
               r2, tmp2, m_PktIn[e], sock[e])
      BY <1>1, <1>2, <2>1, <2>3, <2>4, FlowHeader DEF h
    <2>7. Dir(p)'
      BY <1>1, <2>1, <2>5, <2>6 DEF Dir
    <2>. QED  BY <1>1, <2>5, <2>7, SameDir, TwoDirs
  <1>6. CASE RecvData(e)
    <2> DEFINE n == Len(m_tmpPktIn[e].body)
               tmp2 == [m_tmpPktIn[e] EXCEPT !.body = [i \in 1..n |-> wire[p][i].val]]
               u2 == SubSeq(wire[p], n + 1, Len(wire[p]))
               r2 == Finish(rd[e], "ok")
    <2>1. /\ rd[e] # <<>> /\ Head(rd[e]).st = "pending" /\ Head(rd[e]).kind = "data"
          /\ Len(wire[p]) >= n /\ rd' = [rd EXCEPT ![e] = r2]
          /\ wire' = [wire EXCEPT ![p] = u2]
          /\ m_tmpPktIn' = [m_tmpPktIn EXCEPT ![e].body = [i \in 1..n |-> wire[p][i].val]]
          /\ UNCHANGED <<sock, posted, m_PktOut, wr, m_PktIn, sent>>
      BY <1>6 DEF RecvData, Pending
    <2>2. m_tmpPktIn' = [m_tmpPktIn EXCEPT ![e] = tmp2]
      BY <2>1
    <2>3. rd[e][1] = [kind |-> "data", st |-> "pending"]
          /\ r2 # <<>> /\ r2[1] = [kind |-> "data", st |-> "ok"]
      <3>1. rd[e][1] \in Ops /\ Head(rd[e]) = rd[e][1]
        BY <1>2, <2>1, HeadOp
      <3>. QED  BY <1>2, <2>1, <3>1, FinishFacts DEF Ops
    <2>4. n <= Len(wire[p])
      <3>1. n \in Nat /\ Len(wire[p]) \in Nat
        BY <1>2, LenProperties DEF Incoming
      <3>. QED  BY <2>1, <3>1
    <2>5. Flow(sent[p], posted[p], m_PktOut[p], wr[p], u2,
               r2, tmp2, m_PktIn[e], sock[e])
      <3> HIDE DEF r2
      <3>. QED  BY <1>1, <1>2, <2>1, <2>3, <2>4, FlowData
    <2> HIDE DEF r2, tmp2, u2
    <2>6. /\ rd'[e] = r2 /\ wire'[p] = u2 /\ m_tmpPktIn'[e] = tmp2
          /\ SameOut(e) /\ SameIn(p)
      BY <1>1, <2>1, <2>2 DEF IInv, TypeOK, SameOut, SameIn
    <2>7. Dir(p)'
      BY <1>1, <2>1, <2>5, <2>6 DEF Dir
    <2>. QED  BY <1>1, <2>6, <2>7, SameDir, TwoDirs
  <1>7. CASE FailRead(e)
    <2> DEFINE r2 == Finish(rd[e], "err")
    <2>1. /\ rd[e] # <<>> /\ rd' = [rd EXCEPT ![e] = r2]
          /\ UNCHANGED <<sock, posted, m_PktOut, wr, wire, m_tmpPktIn, m_PktIn, sent>>
      BY <1>7 DEF FailRead, Pending
    <2>2. Weaker(r2, rd[e])
      BY <1>2, <2>1, FinishFacts
    <2>3. rd'[e] = r2 /\ SameOut(e) /\ SameIn(p)
      BY <1>1, <2>1 DEF IInv, TypeOK, SameOut, SameIn
    <2> HIDE DEF r2
    <2>4. Flow(sent[p], posted[p], m_PktOut[p], wr[p], wire[p],
               r2, m_tmpPktIn[e], m_PktIn[e], sock[e])
      BY <1>1, <2>2, FlowReadFails
    <2>5. Dir(p)'
      BY <1>1, <2>1, <2>3, <2>4 DEF Dir
    <2>. QED  BY <1>1, <2>3, <2>5, SameDir, TwoDirs
  <1>. QED  BY <1>3, <1>4, <1>5, <1>6, <1>7 DEF System, Faults

\* e hands the packet that was read to its application.
Pushes(e) ==
    /\ rd[e] # <<>>
    /\ \/ rd[e][1] = [kind |-> "header", st |-> "ok"] /\ m_tmpPktIn[e].size = 0
       \/ rd[e][1] = [kind |-> "data", st |-> "ok"]
    /\ PushToIncomingQueue(e)
    /\ UNCHANGED <<link, sock, posted, m_PktOut, wr, wire, m_tmpPktIn, sent, quit, early>>

LEMMA PushDirs ==
    ASSUME FInv, NEW e \in Endpoints, Pushes(e)
    PROVE  /\ \A d \in Endpoints : Dir(d)'
           /\ Len(m_PktIn[e]) < Len(sent[Peer(e)])
           /\ Seen(m_tmpPktIn[e]) = sent[Peer(e)][Len(m_PktIn[e]) + 1]
  <1> DEFINE p == Peer(e)
             in2 == Append(m_PktIn[e], m_tmpPktIn[e])
  <1>1. /\ IInv /\ p \in Endpoints /\ p # e /\ Peer(p) = e
        /\ Flow(sent[p], posted[p], m_PktOut[p], wr[p], wire[p],
                rd[e], m_tmpPktIn[e], m_PktIn[e], sock[e])
    BY DirFacts
  <1>2. m_tmpPktIn[e] \in Incoming /\ m_PktIn[e] \in Seq(Incoming)
    BY <1>1, EndpointTypes
  <1>3. /\ rd'[e] = <<Op(e, "header")>> /\ m_PktIn'[e] = in2 /\ SameOut(e) /\ SameIn(p)
        /\ UNCHANGED <<sock, posted, m_PktOut, wr, wire, m_tmpPktIn, sent>>
    BY <1>1 DEF Pushes, PushToIncomingQueue, IInv, TypeOK, SameOut, SameIn
  <1>4. Started(Op(e, "header"), "header")
    BY OpStarted
  <1>5. /\ Len(m_PktIn[e]) < Len(sent[p]) /\ Seen(m_tmpPktIn[e]) = sent[p][Len(m_PktIn[e]) + 1]
        /\ Flow(sent[p], posted[p], m_PktOut[p], wr[p], wire[p],
                <<Op(e, "header")>>, m_tmpPktIn[e], in2, sock[e])
    <2>1. /\ rd[e] # <<>>
          /\ \/ rd[e][1] = [kind |-> "header", st |-> "ok"] /\ m_tmpPktIn[e].size = 0
             \/ rd[e][1] = [kind |-> "data", st |-> "ok"]
      BY DEF Pushes
    <2>. QED  BY <1>1, <1>2, <1>4, <2>1, FlowPush
  <1> HIDE DEF in2
  <1>6. Dir(p)'
    BY <1>1, <1>3, <1>5 DEF Dir
  <1>. QED  BY <1>1, <1>3, <1>5, <1>6, SameDir, TwoDirs

\* A step of the reader pushes a packet or leaves m_PktIn alone.
LEMMA ReaderDirs ==
    ASSUME FInv, NEW e \in Endpoints, Reader(e)
    PROVE  /\ \A d \in Endpoints : Dir(d)'
           /\ Pushes(e) \/ (m_PktIn' = m_PktIn /\ sent' = sent)
  <1> DEFINE p == Peer(e)
  <1>1. /\ IInv /\ p \in Endpoints /\ p # e /\ Peer(p) = e
        /\ Flow(sent[p], posted[p], m_PktOut[p], wr[p], wire[p],
                rd[e], m_tmpPktIn[e], m_PktIn[e], sock[e])
    BY DirFacts
  <1>2. m_tmpPktIn[e] \in Incoming /\ rd[e] \in OneOp /\ wr[e] \in OneOp /\ <<>> \in OneOp
    BY <1>1, EndpointTypes DEF OneOp
  <1>3. ASSUME NEW k, NEW st, Done(rd[e], k, st)
        PROVE  rd[e] # <<>> /\ rd[e][1] = [kind |-> k, st |-> st]
    BY <1>2, <1>3, HeadOp DEF Done, Ops
  <1>4. CASE ReadHeaderDone(e)
    <2>1. rd[e] # <<>> /\ rd[e][1] = [kind |-> "header", st |-> "ok"]
      BY <1>3, <1>4 DEF ReadHeaderDone
    <2>2. CASE m_tmpPktIn[e].size = 0 /\ PushToIncomingQueue(e) /\ UNCHANGED m_tmpPktIn
      <3>1. Pushes(e)
        BY <1>4, <2>1, <2>2 DEF ReadHeaderDone, Pushes
      <3>. QED  BY <3>1, PushDirs
    <2>3. CASE /\ m_tmpPktIn' = [m_tmpPktIn EXCEPT ![e].body = Resize(@, m_tmpPktIn[e].size)]
               /\ rd' = [rd EXCEPT ![e] = <<Op(e, "data")>>]
               /\ UNCHANGED m_PktIn
      <3> DEFINE tmp2 == [m_tmpPktIn[e] EXCEPT !.body = Resize(@, m_tmpPktIn[e].size)]
      <3>1. m_tmpPktIn' = [m_tmpPktIn EXCEPT ![e] = tmp2]
        BY <2>3
      <3>2. Started(Op(e, "data"), "data")
        BY OpStarted
      <3>3. Flow(sent[p], posted[p], m_PktOut[p], wr[p], wire[p],
                 <<Op(e, "data")>>, tmp2, m_PktIn[e], sock[e])
        BY <1>1, <1>2, <2>1, <3>2, FlowResize
      <3> HIDE DEF tmp2
      <3>4. UNCHANGED <<sock, posted, m_PktOut, wr, wire, m_PktIn, sent>>
        BY <1>4, <2>3 DEF ReadHeaderDone
      <3>5. rd'[e] = <<Op(e, "data")>> /\ m_tmpPktIn'[e] = tmp2 /\ SameOut(e) /\ SameIn(p)
        BY <1>1, <2>3, <3>1, <3>4 DEF IInv, TypeOK, SameOut, SameIn
      <3>6. Dir(p)'
        BY <1>1, <3>3, <3>4, <3>5 DEF Dir
      <3>. QED  BY <1>1, <3>4, <3>5, <3>6, SameDir, TwoDirs
    <2>. QED  BY <1>4, <2>2, <2>3 DEF ReadHeaderDone
  <1>5. CASE ReadDataDone(e)
    <2>1. Pushes(e)
      BY <1>3, <1>5 DEF ReadDataDone, Pushes
    <2>. QED  BY <2>1, PushDirs
  <1>6. CASE ReadFailed(e)
    <2>1. \A d \in Endpoints : Dir(d)'
      BY <1>2, <1>6, CloseDirs DEF ReadFailed
    <2>. QED  BY <1>6, <2>1 DEF ReadFailed
  <1>. QED  BY <1>4, <1>5, <1>6 DEF Reader

LEMMA OpeningDirs ==
    ASSUME FInv, Opening \/ LinkFail
    PROVE  \A d \in Endpoints : Dir(d)'
  <1>1. IInv /\ "client" \in Endpoints /\ "server" \in Endpoints
        /\ Peer("client") = "server" /\ Peer("server") = "client"
    BY DEF FInv, Endpoints, Peer
  <1>2. ASSUME NEW e \in Endpoints, NEW r2, rd' = [rd EXCEPT ![e] = r2],
               sock' = sock \/ (e = "server" /\ sock' = [sock EXCEPT ![e] = "open"]),
               UNCHANGED <<posted, m_PktOut, wr, wire, m_tmpPktIn, m_PktIn, sent>>,
               \/ Weaker(r2, rd[e])
               \/ \E op : /\ Started(op, "header") /\ r2 = <<op>> /\ sock'[e] # "none"
                          /\ sock[e] = "none" \/ (rd[e] # <<>> /\ rd[e][1].kind = "connect")
        PROVE  \A d \in Endpoints : Dir(d)'
    <2> DEFINE p == Peer(e)
    <2>1. /\ p \in Endpoints /\ p # e /\ Peer(p) = e
          /\ Flow(sent[p], posted[p], m_PktOut[p], wr[p], wire[p],
                  rd[e], m_tmpPktIn[e], m_PktIn[e], sock[e])
      BY DirFacts
    <2>2. rd'[e] = r2 /\ SameOut(e) /\ SameIn(p) /\ (sock'[e] = sock[e] \/ sock'[e] = "open")
      BY <1>1, <1>2, <2>1 DEF IInv, TypeOK, SameOut, SameIn
    <2>3. Flow(sent[p], posted[p], m_PktOut[p], wr[p], wire[p],
               r2, m_tmpPktIn[e], m_PktIn[e], sock'[e])
      <3>1. CASE Weaker(r2, rd[e])
        BY <2>1, <2>2, <3>1, FlowReadFails
      <3>2. ASSUME NEW op, Started(op, "header"), r2 = <<op>>, sock'[e] # "none",
                   sock[e] = "none" \/ (rd[e] # <<>> /\ rd[e][1].kind = "connect")
            PROVE  Flow(sent[p], posted[p], m_PktOut[p], wr[p], wire[p],
                        r2, m_tmpPktIn[e], m_PktIn[e], sock'[e])
        BY <2>1, <3>2, FlowConnect
      <3>. QED  BY <1>2, <3>1, <3>2
    <2>4. Dir(p)'
      BY <1>2, <2>1, <2>2, <2>3 DEF Dir
    <2>. QED  BY <2>1, <2>2, <2>4, SameDir, TwoDirs
  <1>3. rd["client"] \in OneOp
    BY <1>1, EndpointTypes
  <1>4. ASSUME NEW st \in {"ok", "err"}, Establish(st) PROVE \A d \in Endpoints : Dir(d)'
    <2>1. rd["client"] # <<>> /\ rd["client"][1].kind = "connect"
      BY <1>3, <1>4, HeadOp DEF Establish, Pending
    <2>2. Weaker(Finish(rd["client"], st), rd["client"])
      BY <1>3, <2>1, FinishFacts
    <2>. QED  BY <1>1, <1>2, <1>4, <2>2 DEF Establish
  <1>5. CASE ConnectToClient
    <2> DEFINE op == [kind |-> "header", st |-> "pending"]
    <2>1. Started(op, "header")
      BY DEF Started, Ops
    <2>2. sock'["server"] = "open" /\ sock["server"] = "none"
      BY <1>1, <1>5 DEF ConnectToClient, IInv, TypeOK
    <2>3. rd' = [rd EXCEPT !["server"] = <<op>>] /\ sock' = [sock EXCEPT !["server"] = "open"]
          /\ UNCHANGED <<posted, m_PktOut, wr, wire, m_tmpPktIn, m_PktIn, sent>>
      BY <1>5 DEF ConnectToClient
    <2>. QED  BY <1>1, <1>2, <2>1, <2>2, <2>3
  <1>6. CASE ConnectToServerDone
    <2>1. rd["client"] # <<>> /\ rd["client"][1].kind = "connect"
      BY <1>3, <1>6, HeadOp DEF ConnectToServerDone
    <2>2. Weaker(<<>>, rd["client"])
      BY DEF Weaker
    <2>3. UNCHANGED <<sock, posted, m_PktOut, wr, wire, m_tmpPktIn, m_PktIn, sent>>
          /\ rd' = [rd EXCEPT !["client"] =
                      IF Head(@).st = "ok" THEN <<Op("client", "header")>> ELSE <<>>]
      BY <1>6 DEF ConnectToServerDone
    <2>4. CASE Head(rd["client"]).st = "ok" /\ sock["client"] # "none"
      <3>1. Started(Op("client", "header"), "header")
        BY OpStarted
      <3>. QED  BY <1>1, <1>2, <2>1, <2>3, <2>4, <3>1
    <2>5. CASE Head(rd["client"]).st # "ok"
      BY <1>1, <1>2, <2>2, <2>3, <2>5
    <2>6. sock["client"] # "none"
      <3>1. Dir("server")
        BY <1>1 DEF FInv
      <3>. QED  BY <1>1, <2>1, <3>1 DEF Dir, Flow, Stream
    <2>. QED  BY <2>4, <2>5, <2>6
  <1>7. CASE LinkFail
    <2>1. UNCHANGED <<sock, posted, m_PktOut, wr, rd, wire, m_tmpPktIn, m_PktIn, sent>>
      BY <1>7 DEF LinkFail
    <2>. QED  BY <2>1, SameDir, PeerFacts DEF SameOut, SameIn
  <1>. QED  BY <1>4, <1>5, <1>6, <1>7 DEF Opening

LEMMA InitDirs == Init => FInv
  <1> SUFFICES ASSUME Init PROVE FInv
    OBVIOUS
  <1>1. IInv
    BY InitIInv
  <1>2. ASSUME NEW e \in Endpoints PROVE Dir(e) /\ NoQuit(e)
    <2> DEFINE p == Peer(e)
               at == [i \in 1..1 |-> 1]
    <2>1. /\ sent[e] = <<>> /\ posted[e] = <<>> /\ m_PktOut[e] = <<>> /\ wr[e] = <<>>
          /\ wire[e] = <<>> /\ m_PktIn[p] = <<>>
          /\ \/ rd[p] = <<>>
             \/ rd[p] = <<[kind |-> "connect", st |-> "pending"]>> /\ sock[p] # "none"
      BY <1>2, PeerFacts DEF Init
    <2>2. \A S : <<>> \in Seq(S) /\ Len(<<>>) = 0
      BY EmptySeq
    <2>3. Numbered(<<>>) /\ Layout(<<>>, at) /\ Carries(<<>>, at, <<>>)
      BY <2>2 DEF Numbered, Layout, Carries
    <2>4. Backlog(<<>>, 0, <<>>, <<>>) /\ Written(at, 0, <<>>, <<>>, 0)
      BY <2>2 DEF Backlog, Waiting, Written
    <2>5. Reading(<<>>, at, rd[p], m_tmpPktIn[p], <<>>)
      BY <2>1, <2>2 DEF Reading
    <2>6. sock[p] = "none" => rd[p] = <<>> /\ at[Len(<<>>) + 1] = 1
      BY <2>1, <2>2
    <2> HIDE DEF at
    <2>7. Stream(<<>>, <<>>, <<>>, <<>>, <<>>, rd[p], m_tmpPktIn[p], <<>>, sock[p], 0, at)
      BY <2>2, <2>3, <2>4, <2>5, <2>6 DEF Stream
    <2>8. Dir(e)
      BY <2>1, <2>3, <2>7 DEF Dir, Flow
    <2>9. NoQuit(e)
      BY <2>1, <2>2 DEF NoQuit
    <2>. QED  BY <2>8, <2>9
  <1>. QED  BY <1>1, <1>2 DEF FInv

LEMMA NextNoQuit ==
    ASSUME FInv, [Next]_vars
    PROVE  \A e \in Endpoints : NoQuit(e)'
  <1>1. IInv /\ (\A e \in Endpoints : NoQuit(e)) /\ DOMAIN posted = Endpoints
    BY DEF FInv, IInv, TypeOK
  <1>2. \A e \in Endpoints : posted[e] \in Seq(Packet \union {Quit})
    BY <1>1, EndpointTypes
  <1>3. CASE UNCHANGED <<posted, quit>>
    BY <1>1, <1>3 DEF NoQuit
  <1>4. ASSUME NEW e \in Endpoints, posted' = [posted EXCEPT ![e] = Tail(@)],
               posted[e] # <<>>, quit' = quit
        PROVE  \A d \in Endpoints : NoQuit(d)'
    <2> DEFINE t == Tail(posted[e])
    <2>1. Len(posted[e]) \in Nat \ {0} /\ Len(t) = Len(posted[e]) - 1
          /\ \A i \in 1..Len(t) : t[i] = posted[e][i + 1]
      BY <1>2, <1>4, HeadTailProperties, LenProperties, EmptySeq
    <2> HIDE DEF t
    <2>2. ASSUME NEW i \in 1..Len(t), e \notin quit PROVE t[i] # Quit
      <3>1. i + 1 \in 1..Len(posted[e])
        BY <2>1
      <3>. QED  BY <1>1, <2>1, <2>2, <3>1 DEF NoQuit
    <2>3. posted'[e] = t /\ \A d \in Endpoints : d # e => posted'[d] = posted[d]
      BY <1>1, <1>4 DEF t
    <2>. QED  BY <1>1, <1>4, <2>2, <2>3 DEF NoQuit
  <1>5. ASSUME NEW e \in Endpoints, NEW n \in Sizes, SendPacket(e, n)
        PROVE  \A d \in Endpoints : NoQuit(d)'
    <2> DEFINE new == PacketOf(Len(sent[e]) + 1, n)
               q2  == Append(posted[e], new)
    <2>1. posted' = [posted EXCEPT ![e] = q2] /\ quit' = quit
      BY <1>5 DEF SendPacket
    <2>2. new # Quit
      <3>1. new.cmdID = Len(sent[e]) + 1 /\ Len(sent[e]) \in Nat
        BY <1>1, EndpointTypes, LenProperties DEF PacketOf
      <3>2. new.cmdID # 0
        BY <3>1
      <3>. QED  BY <3>2 DEF Quit
    <2>3. /\ Len(q2) = Len(posted[e]) + 1 /\ Len(posted[e]) \in Nat /\ q2[Len(posted[e]) + 1] = new
          /\ \A i \in 1..Len(posted[e]) : q2[i] = posted[e][i]
      <3>1. posted[e] \in Seq(Packet \union {Quit, new})
        <4>1. Packet \union {Quit} \subseteq Packet \union {Quit, new}
          OBVIOUS
        <4>. QED  BY <1>2, <4>1, SeqDef
      <3>. QED  BY <3>1, AppendProperties, LenProperties
    <2> HIDE DEF new, q2
    <2>4. ASSUME NEW i \in 1..Len(q2), e \notin quit PROVE q2[i] # Quit
      <3>1. i \in 1..Len(posted[e]) \/ i = Len(posted[e]) + 1
        BY <2>3
      <3>. QED  BY <1>1, <2>2, <2>3, <2>4, <3>1 DEF NoQuit
    <2>5. posted'[e] = q2 /\ \A d \in Endpoints : d # e => posted'[d] = posted[d]
      BY <1>1, <2>1
    <2>. QED  BY <1>1, <2>1, <2>4, <2>5 DEF NoQuit
  <1>6. ASSUME NEW e \in Endpoints, Disconnect(e) PROVE \A d \in Endpoints : NoQuit(d)'
    <2>1. e \in quit' /\ \A d \in Endpoints : d # e => posted'[d] = posted[d] /\ (d \in quit' <=> d \in quit)
      BY <1>1, <1>6 DEF Disconnect
    <2>. QED  BY <1>1, <2>1 DEF NoQuit
  <1>7. ASSUME NEW e \in Endpoints,
               System(e) \/ Faults(e) \/ Writer(e) \/ Reader(e)
        PROVE  \A d \in Endpoints : NoQuit(d)'
    <2>1. CASE RunSend(e)
      BY <1>4, <2>1 DEF RunSend
    <2>2. CASE RunClose(e)
      BY <1>4, <2>2 DEF RunClose
    <2>3. CASE System(e) \/ Faults(e)
      BY <1>3, <2>3 DEF System, Faults, SendBytes, RecvHeader, RecvData, FailWrite, FailRead
    <2>4. CASE WriteHeaderDone(e) \/ WriteDataDone(e) \/ WriteFailed(e)
      BY <1>3, <2>4 DEF WriteHeaderDone, WriteDataDone, WriteFailed
    <2>5. CASE Reader(e)
      BY <1>3, <2>5 DEF Reader, ReadHeaderDone, ReadDataDone, ReadFailed
    <2>. QED  BY <1>7, <2>1, <2>2, <2>3, <2>4, <2>5 DEF Writer
  <1>8. CASE Opening \/ LinkFail \/ UNCHANGED vars
    BY <1>3, <1>8 DEF Opening, Establish, ConnectToClient, ConnectToServerDone, LinkFail, vars
  <1>9. ASSUME NEW e \in Endpoints, App(e) PROVE \A d \in Endpoints : NoQuit(d)'
    BY <1>5, <1>6, <1>9 DEF App
  <1>. QED  BY <1>7, <1>8, <1>9 DEF Next

LEMMA NextFInv == FInv /\ [Next]_vars => FInv'
  <1> SUFFICES ASSUME FInv, [Next]_vars PROVE FInv'
    OBVIOUS
  <1>1. IInv'
    BY NextIInv DEF FInv
  <1>2. ASSUME NEW e \in Endpoints,
               System(e) \/ Faults(e) \/ App(e) \/ Writer(e) \/ Reader(e)
        PROVE  \A d \in Endpoints : Dir(d)'
    BY <1>2, SystemDirs, AppDirs, WriterDirs, ReaderDirs
  <1>3. ASSUME Opening \/ LinkFail PROVE \A d \in Endpoints : Dir(d)'
    BY <1>3, OpeningDirs
  <1>4. ASSUME UNCHANGED vars PROVE \A d \in Endpoints : Dir(d)'
    BY <1>4, SameDir, PeerFacts DEF vars, SameOut, SameIn
  <1>5. \A d \in Endpoints : Dir(d)'
    BY <1>2, <1>3, <1>4 DEF Next
  <1>. QED  BY <1>1, <1>5, NextNoQuit DEF FInv
-----------------------------------------------------------------------------
(* Refinement *)

View(in) == [i \in DOMAIN in |-> Seen(in[i])]

LEMMA ViewAppend ==
    ASSUME NEW in \in Seq(Incoming), NEW p \in Incoming
    PROVE  Len(View(in)) = Len(in) /\ View(Append(in, p)) = Append(View(in), Seen(p))
  <1> DEFINE S == {Seen(x) : x \in Incoming}
             in2 == Append(in, p)
  <1>1. ASSUME NEW s \in Seq(Incoming)
        PROVE  View(s) \in Seq(S) /\ Len(View(s)) = Len(s) /\ \A i \in 1..Len(s) : View(s)[i] = Seen(s[i])
    <2>1. Len(s) \in Nat /\ DOMAIN s = 1..Len(s) /\ \A i \in 1..Len(s) : s[i] \in Incoming
      BY LenProperties, ElementOfSeq
    <2>2. View(s) \in [1..Len(s) -> S] /\ \A i \in 1..Len(s) : View(s)[i] = Seen(s[i])
      BY <2>1 DEF View
    <2>3. View(s) \in Seq(S)
      BY <2>1, <2>2, SeqDef
    <2>4. DOMAIN View(s) = 1..Len(s) /\ DOMAIN View(s) = 1..Len(View(s)) /\ Len(View(s)) \in Nat
      BY <2>2, <2>3, LenProperties
    <2>5. Len(View(s)) = Len(s)
      BY <2>1, <2>4, SameInterval
    <2>. QED  BY <2>2, <2>3, <2>5
  <1>2. /\ in2 \in Seq(Incoming) /\ Len(in2) = Len(in) + 1 /\ in2[Len(in) + 1] = p
        /\ Len(in) \in Nat /\ \A i \in 1..Len(in) : in2[i] = in[i]
    BY AppendProperties, LenProperties
  <1> HIDE DEF in2
  <1>3. Seen(p) \in S
    OBVIOUS
  <1> HIDE DEF S
  <1>4. /\ Append(View(in), Seen(p)) \in Seq(S) /\ Len(Append(View(in), Seen(p))) = Len(in) + 1
        /\ Append(View(in), Seen(p))[Len(in) + 1] = Seen(p)
        /\ \A i \in 1..Len(in) : Append(View(in), Seen(p))[i] = Seen(in[i])
    BY <1>1, <1>3, AppendProperties
  <1>5. ASSUME NEW i \in 1..Len(in2) PROVE View(in2)[i] = Append(View(in), Seen(p))[i]
    <2>1. View(in2)[i] = Seen(in2[i])
      BY <1>1, <1>2
    <2>2. i \in 1..Len(in) \/ i = Len(in) + 1
      BY <1>2
    <2>. QED  BY <1>2, <1>4, <2>1, <2>2
  <1>6. View(in2) \in Seq(S) /\ Len(View(in2)) = Len(in) + 1
    BY <1>1, <1>2
  <1>7. View(in2) = Append(View(in), Seen(p))
    BY <1>2, <1>4, <1>5, <1>6, SeqEqual
  <1>. QED  BY <1>1, <1>7 DEF in2

Delivered == [e \in Endpoints |-> View(m_PktIn[Peer(e)])]

LEMMA InitRefines == Init => Fifo!Init
  <1> SUFFICES ASSUME Init PROVE Fifo!Init
    OBVIOUS
  <1>1. \A e \in Endpoints : m_PktIn[Peer(e)] = <<>>
    BY PeerFacts DEF Init
  <1>2. View(<<>>) = <<>>
    BY DEF View
  <1>3. Delivered = [e \in Endpoints |-> <<>>]
    BY <1>1, <1>2 DEF Delivered
  <1>. QED  BY <1>3 DEF Init, Fifo!Init, Delivered, View

LEMMA NextRefines == FInv /\ [Next]_vars => [Fifo!Next]_Fifo!link
  <1> SUFFICES ASSUME FInv, [Next]_vars PROVE [Fifo!Next]_Fifo!link
    OBVIOUS
  <1> USE DEF Delivered, View
  <1>1. CASE UNCHANGED <<m_PktIn, sent>>
    BY <1>1 DEF Fifo!link
  <1>2. ASSUME NEW e \in Endpoints, NEW n \in Sizes, SendPacket(e, n) PROVE Fifo!Next
    <2> DEFINE new == PacketOf(Len(sent[e]) + 1, n)
    <2>1. sent' = [sent EXCEPT ![e] = Append(@, new)] /\ m_PktIn' = m_PktIn /\ Len(sent[e]) < MaxSend(e)
      BY <1>2 DEF SendPacket
    <2>2. new \in Packet
      <3>1. /\ Len(sent[e]) \in Nat /\ MaxSend(e) \in Nat
            /\ MaxSend(e) <= MaxServerSend + MaxClientSend
        BY EndpointTypes, EndpointFacts, LenProperties DEF FInv
      <3>2. Len(sent[e]) + 1 \in 1..(MaxServerSend + MaxClientSend)
        BY <2>1, <3>1, BoundAssumption
      <3>. QED  BY <3>2, NewPacket
    <2> HIDE DEF new
    <2>3. Fifo!Send(e)
      BY <2>1, <2>2 DEF Fifo!Send
    <2>. QED  BY <2>3 DEF Fifo!Next
  <1>3. ASSUME NEW e \in Endpoints, Pushes(e) PROVE Fifo!Next
    <2> DEFINE p == Peer(e)
    <2>1. /\ Len(m_PktIn[e]) < Len(sent[p]) /\ Seen(m_tmpPktIn[e]) = sent[p][Len(m_PktIn[e]) + 1]
      BY <1>3, PushDirs
    <2>2. /\ IInv /\ p \in Endpoints /\ Peer(p) = e /\ \A d \in Endpoints : d # p => Peer(d) # e
      BY PeerFacts DEF FInv
    <2>3. m_PktIn' = [m_PktIn EXCEPT ![e] = Append(@, m_tmpPktIn[e])] /\ sent' = sent
      BY <1>3 DEF Pushes, PushToIncomingQueue
    <2>4. m_tmpPktIn[e] \in Incoming /\ m_PktIn[e] \in Seq(Incoming)
      BY <2>2, EndpointTypes
    <2>5. /\ Len(View(m_PktIn[e])) = Len(m_PktIn[e])
          /\ View(Append(m_PktIn[e], m_tmpPktIn[e])) = Append(View(m_PktIn[e]), Seen(m_tmpPktIn[e]))
      BY <2>4, ViewAppend
    <2>6. DOMAIN m_PktIn = Endpoints
      BY <2>2 DEF IInv, TypeOK
    <2> HIDE DEF View
    <2>7. /\ Delivered[p] = View(m_PktIn[e]) /\ DOMAIN Delivered = Endpoints
          /\ m_PktIn'[e] = Append(m_PktIn[e], m_tmpPktIn[e])
          /\ \A d \in Endpoints : d # p => m_PktIn'[Peer(d)] = m_PktIn[Peer(d)]
      BY <2>2, <2>3, <2>6, PeerFacts
    <2>8. Delivered' = [Delivered EXCEPT ![p] = Append(@, sent[p][Len(@) + 1])]
      BY <2>1, <2>2, <2>5, <2>7
    <2>9. Len(Delivered[p]) < Len(sent[p])
      BY <2>1, <2>5, <2>7
    <2>10. Fifo!Deliver(p)
      BY <2>3, <2>8, <2>9 DEF Fifo!Deliver, View
    <2>. QED  BY <2>2, <2>10 DEF Fifo!Next
  <1>4. ASSUME NEW e \in Endpoints, System(e) \/ Faults(e) \/ Writer(e) \/ Disconnect(e)
        PROVE  UNCHANGED <<m_PktIn, sent>>
    <2>1. CASE System(e) \/ Faults(e)
      BY <2>1 DEF System, Faults, SendBytes, RecvHeader, RecvData, FailWrite, FailRead
    <2>2. CASE Writer(e)
      BY <2>2 DEF Writer, RunSend, RunClose, WriteHeaderDone, WriteDataDone, WriteFailed
    <2>3. CASE Disconnect(e)
      BY <2>3 DEF Disconnect
    <2>. QED  BY <1>4, <2>1, <2>2, <2>3
  <1>5. CASE Opening \/ LinkFail \/ UNCHANGED vars
    BY <1>1, <1>5 DEF Opening, Establish, ConnectToClient, ConnectToServerDone, LinkFail, vars
  <1>6. ASSUME NEW e \in Endpoints, Reader(e) PROVE Fifo!Next \/ UNCHANGED <<m_PktIn, sent>>
    BY <1>3, <1>6, ReaderDirs
  <1>. QED  BY <1>1, <1>2, <1>4, <1>5, <1>6 DEF Next, App
-----------------------------------------------------------------------------
\* Each direction hands over the packets that were sent, unchanged, in order
\* and at most once, whatever closes, fails or interleaves: no byte of one
\* frame is ever read as part of another.
THEOREM Refinement == Spec => ImplementsFifoLink
  <1>1. Init => Fifo!Init
    BY InitRefines
  <1>2. FInv /\ [Next]_vars => [Fifo!Next]_Fifo!link
    BY NextRefines
  <1>. QED
    BY <1>1, <1>2, InitDirs, NextFInv, PTL DEF Spec, ImplementsFifoLink, Fifo!Spec
=============================================================================
