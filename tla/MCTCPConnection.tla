-------------------------- MODULE MCTCPConnection --------------------------
(* One connection.  Bodies of zero units and of one or two, so that an empty *)
(* packet can follow a full one and a body can be read in the place of       *)
(* another; two packets in one direction, so that a write chain hands over   *)
(* to the next packet while the other direction is also writing or closing.  *)
EXTENDS TCPConnection
=============================================================================
