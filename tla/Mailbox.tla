------------------------------ MODULE Mailbox ------------------------------
(***************************************************************************)
(* What NetQueue promises its users, with no mutex and no condition        *)
(* variable in sight: items are put one at a time at either end, taken     *)
(* one at a time by the one reader, and a reader that asked to wait gets   *)
(* control back only when there is something to take.                      *)
(***************************************************************************)
EXTENDS Naturals, Sequences

CONSTANT MaxItems       \* bound on the number of items ever put

VARIABLES items,        \* the contents, front first; item n is the n-th put
          put,          \* how many items have been put
          awaiting      \* the reader is inside wait()

mailbox == <<items, put, awaiting>>

Init == items = <<>> /\ put = 0 /\ awaiting = FALSE

Put == /\ put < MaxItems
       /\ put' = put + 1
       /\ items' \in {Append(items, put + 1), <<put + 1>> \o items}
       /\ UNCHANGED awaiting

Take == /\ ~awaiting
        /\ items # <<>>
        /\ items' \in {Tail(items), SubSeq(items, 1, Len(items) - 1)}
        /\ UNCHANGED <<put, awaiting>>

Drop == ~awaiting /\ items' = <<>> /\ UNCHANGED <<put, awaiting>>

Await == ~awaiting /\ awaiting' = TRUE /\ UNCHANGED <<items, put>>

Return == awaiting /\ items # <<>> /\ awaiting' = FALSE /\ UNCHANGED <<items, put>>

Next == Put \/ Take \/ Drop \/ Await \/ Return

Spec == Init /\ [][Next]_mailbox
=============================================================================
