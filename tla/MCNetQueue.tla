----------------------------- MODULE MCNetQueue -----------------------------
(* Two producers, so that a push can also contend with a push, and the       *)
(* consumer; four pushes leave room for a missed wake-up and for the pushes  *)
(* that come after it.                                                       *)
EXTENDS NetQueue
=============================================================================
