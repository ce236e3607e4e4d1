------------------------------- MODULE Packet -------------------------------
(***************************************************************************)
(* The codec of Packet<T> (NetPacket.h: operator<< and operator>>) and of  *)
(* NetNode (GDNative.cpp: PreparePacket, Write..., SendPacket, Read...).   *)
(* A script fills m_pktOut and sends it; a receiver gets its bytes as      *)
(* m_pktIn and reads them backwards.                                       *)
(*                                                                         *)
(* A byte is a number below Base; an integer of type t takes Width[t] of   *)
(* them.  A character is a sequence of bytes other than 0.  The command is *)
(* left out: nothing here depends on it.                                   *)
(***************************************************************************)
EXTENDS Integers, SequencesExt

CONSTANTS Base,             \* 256
          Width,            \* bytes of each integer type: short, long, long long, double
          Numbers,          \* arguments of WriteShort, ...: a script's integers are wider
          Strings,          \* sequences of characters
          MAX_LEN,          \* ReadString's buffer
          MaxWrites,        \* bounds: values per packet,
          MaxPackets        \* packets

ASSUME PacketAssumption ==
    /\ Base \in Nat \ {0, 1} /\ \A t \in DOMAIN Width : Width[t] \in Nat \ {0}
    /\ "string" \notin DOMAIN Width
    /\ Numbers \subseteq Nat /\ MAX_LEN \in Nat
    /\ MaxWrites \in Nat /\ MaxPackets \in Nat

Byte == 0..(Base - 1)
Pkt  == [size : Nat, body : Seq(Byte)]
EmptyPkt == [size |-> 0, body |-> <<>>]

VARIABLES
    m_pktOut,       \* the script's packet
    m_pktIn,        \* the receiver's
    stream,         \* packets sent and not received
    packets,        \* number of packets sent
    fault,          \* a read went beyond the body, or beyond data[MAX_LEN]:
                    \* nothing is known of the receiver any more
    got,            \* the value read last, as <<value>>, or <<>>
    out, sent, in   \* the values in m_pktOut, in the packets of stream, in m_pktIn

vars == <<m_pktOut, m_pktIn, stream, packets, fault, got, out, sent, in>>

\* Base ^ n, as a function because a proof about it needs its recursion.
Power[n \in Nat] == IF n = 0 THEN 1 ELSE Base * Power[n - 1]

IntTypes == DOMAIN Width
Modulus(t) == Power[Width[t]]

\* memcpy of an integer, in little-endian order, and back.
BytesUncut(n, w) == [i \in 1..w |-> n \div Power[i - 1]]
Bytes(n, w)  == [i \in 1..w |-> (n \div Power[i - 1]) % Base]
Number(bs)   == CHOOSE n \in 0..(Power[Len(bs)] - 1) : Bytes(n, Len(bs)) = bs

\* What of string s WriteString copies: as many bytes as s has characters.
CString(s) == FlattenSeq(s)
Copied(s)  == SubSeq(CString(s), 1, Len(s))

\* No character is empty or has a zero byte.
ASSUME StringAssumption == \A s \in Strings : Copied(s) \in Seq(Byte \ {0})

IntValue(t, n)  == [type |-> t, val |-> <<n>>]
StringValue(bs) == [type |-> "string", val |-> bs]
Value == {IntValue(t, n % Modulus(t)) : t \in IntTypes, n \in Numbers}
            \union {StringValue(Copied(s)) : s \in Strings}

\* Types of the state: in particular a body is a sequence of bytes.
TypeOK ==
    /\ m_pktOut \in Pkt /\ m_pktIn \in Pkt /\ stream \in Seq(Pkt)
    /\ packets \in 0..MaxPackets
    /\ fault \in BOOLEAN
    /\ Len(got) <= 1

Init ==
    /\ m_pktOut = EmptyPkt /\ m_pktIn = EmptyPkt /\ stream = <<>> /\ packets = 0
    /\ fault = FALSE /\ got = <<>>
    /\ out = <<>> /\ sent = <<>> /\ in = <<>>
-----------------------------------------------------------------------------
(* The sender *)

sender == <<m_pktOut, stream, packets, out, sent>>
receiver == <<m_pktIn, fault, got, in>>

\* body.clear(); header.size stays as it is.
PreparePacket ==
    /\ packets < MaxPackets
    /\ m_pktOut' = [m_pktOut EXCEPT !.body = <<>>]
    /\ out' = <<>>
    /\ UNCHANGED <<stream, packets, sent, receiver>>

\* The end of both operator<< and WriteString.
Appended(pkt, bs) == [size |-> Len(pkt.body) + Len(bs), body |-> pkt.body \o bs]

\* operator<<, behind WriteShort, WriteLong, WriteLongLong and WriteDouble,
\* whose parameters have the type's width.
WriteInt(t, n) ==
    /\ Len(out) < MaxWrites
    /\ m_pktOut' = Appended(m_pktOut, Bytes(n % Modulus(t), Width[t]))
    /\ out' = Append(out, IntValue(t, n % Modulus(t)))
    /\ UNCHANGED <<stream, packets, sent, receiver>>

\* header.size forgotten.
WriteStringUnsized(s) ==
    /\ Len(out) < MaxWrites
    /\ m_pktOut' = [m_pktOut EXCEPT !.body = @ \o <<0>> \o Copied(s)]
    /\ out' = Append(out, StringValue(Copied(s)))
    /\ UNCHANGED <<stream, packets, sent, receiver>>

\* A zero byte, then data.length() bytes of the string.
WriteString(s) ==
    /\ Len(out) < MaxWrites
    /\ m_pktOut' = Appended(m_pktOut, <<0>> \o Copied(s))
    /\ out' = Append(out, StringValue(Copied(s)))
    /\ UNCHANGED <<stream, packets, sent, receiver>>

\* Whether anything was written or not: SelfEnterWorld and MessageAll need no body.
SendPacket ==
    /\ packets < MaxPackets
    /\ packets' = packets + 1
    /\ stream' = Append(stream, m_pktOut)
    /\ sent' = Append(sent, out)
    /\ UNCHANGED <<m_pktOut, out, receiver>>
-----------------------------------------------------------------------------
(* The receiver *)

\* _process: m_pktIn becomes a copy of the packet at the front.
Receive ==
    /\ ~fault /\ stream # <<>>
    /\ m_pktIn' = Head(stream) /\ stream' = Tail(stream)
    /\ in' = Head(sent) /\ sent' = Tail(sent)
    /\ got' = <<>>
    /\ UNCHANGED <<m_pktOut, packets, fault, out>>

\* The receiver reads the value that was written last of those that are left.
Expects(t) == in # <<>> /\ ~fault /\ in[Len(in)].type = t

\* m_pktIn keeps the first n bytes; v has been read.
Took(v, n) ==
    /\ got' = <<v>> /\ in' = SubSeq(in, 1, Len(in) - 1)
    /\ m_pktIn' = [m_pktIn EXCEPT !.body = SubSeq(@, 1, n)]
    /\ UNCHANGED fault

Beyond == fault' = TRUE /\ UNCHANGED <<m_pktIn, got, in>>

\* operator>> without body.resize().
ReadIntAgain(t) ==
    LET b == m_pktIn.body
        i == Len(b) - Width[t]
    IN  /\ Expects(t)
        /\ IF i < 0 THEN Beyond
           ELSE Took(IntValue(t, Number(SubSeq(b, i + 1, Len(b)))), Len(b))
        /\ UNCHANGED sender

\* operator>>: size() - sizeof(DataType) wraps round if the body is too short.
\* header.size, which operator>> refreshes, is not looked at again.
ReadInt(t) ==
    LET b == m_pktIn.body
        i == Len(b) - Width[t]
    IN  /\ Expects(t)
        /\ IF i < 0 THEN Beyond
           ELSE Took(IntValue(t, Number(SubSeq(b, i + 1, Len(b)))), i)
        /\ UNCHANGED sender

Zeros(b) == {i \in DOMAIN b : b[i] = 0}

\* One byte more cut off than was read.
ReadStringTooFar ==
    LET b == m_pktIn.body
    IN  /\ Expects("string")
        /\ IF Zeros(b) = {} THEN Beyond
           ELSE Took(StringValue(SubSeq(b, Max(Zeros(b)) + 1, Len(b))), Max(Zeros(b)) - 2)
        /\ UNCHANGED sender

\* ReadString: back to the last zero byte, which goes too.  A string that does
\* not fit data[MAX_LEN] with its end is copied beyond it.
ReadString ==
    LET b == m_pktIn.body
    IN  /\ Expects("string")
        /\ IF Zeros(b) = {} \/ Len(b) - Max(Zeros(b)) >= MAX_LEN THEN Beyond
           ELSE Took(StringValue(SubSeq(b, Max(Zeros(b)) + 1, Len(b))), Max(Zeros(b)) - 1)
        /\ UNCHANGED sender
-----------------------------------------------------------------------------
Next ==
    \/ PreparePacket \/ SendPacket \/ Receive \/ ReadString
    \/ \E t \in IntTypes : ReadInt(t) \/ \E n \in Numbers : WriteInt(t, n)
    \/ \E s \in Strings : WriteString(s)

Spec == Init /\ [][Next]_vars
-----------------------------------------------------------------------------
(* Properties *)

\* A packet is a stack of values: every value is read as it was written, in
\* reverse order, whatever its bytes are, though nothing in the body says where
\* a value begins.
Stack == INSTANCE ValueStack
ImplementsValueStack == Stack!Spec

\* "Recalculate the message size": a packet that is sent announces the length
\* of the body that follows, which the receiver's framing depends on.
SentSizeIsBodyLength == \A i \in DOMAIN stream : stream[i].size = Len(stream[i].body)

\* The same of a packet into which something was written since PreparePacket,
\* whatever packets without a body were sent before it: the size PreparePacket
\* leaves behind does not outlive the first write.
WrittenSizeIsBodyLength ==
    \A i \in DOMAIN stream : sent[i] # <<>> => stream[i].size = Len(stream[i].body)

\* operator>> and ReadString do not look where the body begins, nor ReadString
\* where data[MAX_LEN] ends.  A receiver that takes the values in reverse order
\* still meets neither end, but in one case: a string whose bytes and final zero
\* are more than data holds.
OnlyLongStringsFail ==
    fault => /\ in # <<>> /\ in[Len(in)].type = "string"
             /\ Len(in[Len(in)].val) >= MAX_LEN
=============================================================================
