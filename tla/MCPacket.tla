------------------------------ MODULE MCPacket ------------------------------
(* Bytes of three values, so that an integer can hold zero bytes and bytes   *)
(* that look like characters.                                                *)
EXTENDS Packet

MCWidth == [short |-> 1, long |-> 2]

\* Too wide for either: 0 as a short, and 3 as a long, whose lower byte is 0.
MCNumbers == {12}

\* The empty string, a letter, and a character of two bytes after a letter,
\* which leaves no room for the final zero in a buffer of two.
MCStrings == {<<>>, <<<<1>>>>, <<<<1>>, <<2, 1>>>>}
=============================================================================
