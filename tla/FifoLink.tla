------------------------------ MODULE FifoLink ------------------------------
(***************************************************************************)
(* What a TCPConnection pair promises the two applications: each direction *)
(* hands over the packets that were sent, unchanged, in order, each at     *)
(* most once.  When the connection breaks, a tail is simply never          *)
(* delivered.                                                              *)
(***************************************************************************)
EXTENDS Naturals, Sequences

CONSTANTS Endpoints, Packet

VARIABLES sent,         \* sent[e]: packets e's application sent
          delivered     \* delivered[e]: those of them the peer has received

link == <<sent, delivered>>

Init == sent = [e \in Endpoints |-> <<>>] /\ delivered = [e \in Endpoints |-> <<>>]

Send(e) == /\ \E p \in Packet : sent' = [sent EXCEPT ![e] = Append(@, p)]
           /\ UNCHANGED delivered

Deliver(e) ==
    /\ Len(delivered[e]) < Len(sent[e])
    /\ delivered' = [delivered EXCEPT ![e] = Append(@, sent[e][Len(@) + 1])]
    /\ UNCHANGED sent

Next == \E e \in Endpoints : Send(e) \/ Deliver(e)

Spec == Init /\ [][Next]_link
=============================================================================
