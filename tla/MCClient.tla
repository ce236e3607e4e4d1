------------------------------ MODULE MCClient ------------------------------
(* A client that connects, disconnects and connects again. *)
EXTENDS Client
=============================================================================
