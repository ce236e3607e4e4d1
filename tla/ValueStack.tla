----------------------------- MODULE ValueStack -----------------------------
(***************************************************************************)
(* What Packet<T> promises a sender and a receiver: a packet is a stack.   *)
(* The receiver that reads as many values as the sender wrote gets them    *)
(* all, the last written first, and nothing of another packet.             *)
(***************************************************************************)
EXTENDS Naturals, Sequences

CONSTANT Value

VARIABLES out,          \* values written into the packet that is being prepared
          sent,         \* packets on their way
          in,           \* values not read yet of the packet received last
          got           \* the value read last, as <<value>>, or <<>>

stack == <<out, sent, in, got>>

Init == out = <<>> /\ sent = <<>> /\ in = <<>> /\ got = <<>>

Prepare == out' = <<>> /\ UNCHANGED <<sent, in, got>>
Write   == (\E v \in Value : out' = Append(out, v)) /\ UNCHANGED <<sent, in, got>>
Send    == sent' = Append(sent, out) /\ UNCHANGED <<out, in, got>>

Receive ==
    /\ sent # <<>>
    /\ in' = Head(sent) /\ sent' = Tail(sent) /\ got' = <<>>
    /\ UNCHANGED out

Read ==
    /\ in # <<>>
    /\ got' = <<in[Len(in)]>> /\ in' = SubSeq(in, 1, Len(in) - 1)
    /\ UNCHANGED <<out, sent>>

Next == Prepare \/ Write \/ Send \/ Receive \/ Read

Spec == Init /\ [][Next]_stack
=============================================================================
