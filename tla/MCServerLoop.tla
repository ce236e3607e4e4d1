---------------------------- MODULE MCServerLoop ----------------------------
(* Three clients and two posted handlers beside the loop of receives. *)
EXTENDS ServerLoop
=============================================================================
