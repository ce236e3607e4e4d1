----------------------------- MODULE ServerLoop -----------------------------
(***************************************************************************)
(* The ASIO thread of the server: ServerApp::Start and the two loops that  *)
(* arm themselves again in their own handlers, AwaitTCPConnection and      *)
(* AwaitUDPConnection, beside what the main thread posts.                  *)
(*                                                                         *)
(* The socket of AwaitUDPConnection is a local variable: it is closed when *)
(* the function returns, so that its receive is aborted and the handler,   *)
(* which calls AwaitUDPConnection, is on the queue at once.  There is      *)
(* therefore always a handler to run, and the thread never rests.          *)
(***************************************************************************)
EXTENDS IoContext

CONSTANTS MaxClients,       \* bounds: clients that connect,
          MaxPosts          \* handlers posted by the main thread

ASSUME LoopAssumption == MaxClients \in Nat /\ MaxPosts \in Nat

VARIABLES
    main,           \* "new", "started" or "failed" (Start returned false)
    crashed,        \* an exception left run(): std::terminate
    accepting,      \* an async_accept is in the system
    clients,        \* number of clients that have connected,
    answered,       \*   whose accept has finished,
    served,         \*   and whose accept handler has run
    posts, ran,     \* number of handlers posted and run
    beat            \* flips in every turn of the receive loop, so that a turn
                    \* is a step even when it leaves the rest as it was

counters == <<clients, answered, served, posts, ran, beat>>
vars == <<contextVars, main, crashed, accepting, counters>>

Completion == [kind : {"accept", "udp", "post"}, ok : BOOLEAN]
Done(k, ok) == [kind |-> k, ok |-> ok]

ASSUME StopAssumption == StopEvent \notin Completion

Init ==
    /\ ContextInit
    /\ main = "new" /\ crashed = FALSE /\ accepting = FALSE
    /\ clients = 0 /\ answered = 0 /\ served = 0 /\ posts = 0 /\ ran = 0
    /\ beat = FALSE
-----------------------------------------------------------------------------
\* Start: AwaitTCPConnection and AwaitUDPConnection have started an operation
\* each.  The receive is aborted, or a datagram came just before.
Start(datagram) ==
    /\ main = "new" /\ main' = "started"
    /\ accepting' = TRUE
    /\ iocp' = <<Done("udp", datagram)>> /\ outstanding_work_' = 2
    /\ thread' = "started"
    /\ UNCHANGED <<stopped_, stop_event_posted_, crashed, counters>>

\* Binding the UDP socket throws, which Start reports; the accept stays armed
\* and no thread will ever look at it.
StartFails ==
    /\ main = "new" /\ main' = "failed"
    /\ accepting' = TRUE /\ outstanding_work_' = 1
    /\ UNCHANGED <<iocp, stopped_, stop_event_posted_, thread, crashed, counters>>

\* SendPacket.
PostSend ==
    /\ main = "started" /\ posts < MaxPosts
    /\ posts' = posts + 1
    /\ Post(Done("post", TRUE))
    /\ UNCHANGED <<main, crashed, accepting, clients, answered, served, ran, beat>>

ClientConnects ==
    /\ clients < MaxClients
    /\ clients' = clients + 1
    /\ UNCHANGED <<contextVars, main, crashed, accepting, answered, served, posts, ran, beat>>

\* The accept finishes, with an error if the client has already given up.
AcceptEnds(ok) ==
    /\ accepting /\ answered < clients
    /\ accepting' = FALSE /\ answered' = answered + 1
    /\ Complete(<<Done("accept", ok)>>)
    /\ UNCHANGED <<main, crashed, clients, served, posts, ran, beat>>
-----------------------------------------------------------------------------
(* Handlers *)

Runs(k, ok) == Serves(Done(k, ok)) /\ UNCHANGED <<main, clients, answered, posts>>

\* The error branch left out of the loop.
AcceptDoneOnce ==
    \E ok \in BOOLEAN :
        /\ Runs("accept", ok)
        /\ served' = served + 1
        /\ IF ok THEN accepting' = TRUE /\ Return(1, <<>>)
                 ELSE Return(0, <<>>) /\ UNCHANGED accepting
        /\ UNCHANGED <<crashed, ran, beat>>

\* Both branches end in AwaitTCPConnection.
AcceptDone ==
    \E ok \in BOOLEAN :
        /\ Runs("accept", ok)
        /\ served' = served + 1
        /\ accepting' = TRUE
        /\ Return(1, <<>>)
        /\ UNCHANGED <<crashed, ran, beat>>

\* The next receive ahead of what waits.
AwaitFirst ==
    /\ Runs("udp", FALSE)
    /\ iocp' \in {<<Done("udp", d)>> \o Tail(iocp) : d \in BOOLEAN}
    /\ UNCHANGED <<outstanding_work_, stopped_, stop_event_posted_, thread>>
    /\ beat' = ~beat
    /\ UNCHANGED <<crashed, accepting, served, ran>>

\* The aborted receive: AwaitUDPConnection again.
AwaitUDPConnection ==
    /\ Runs("udp", FALSE)
    /\ \E datagram \in BOOLEAN : Return(1, <<Done("udp", datagram)>>)
    /\ beat' = ~beat
    /\ UNCHANGED <<crashed, accepting, served, ran>>

\* A datagram: socketTmp.remote_endpoint() is asked of a socket that is gone
\* and was never connected.  Or the port cannot be bound again, or the peer of
\* an accepted socket is gone (NetServerApp.h:54).  All of these throw.
Throws ==
    /\ thread = "running" /\ iocp # <<>>
    /\ Head(iocp).kind = "udp" \/ Head(iocp) = Done("accept", TRUE)
    /\ crashed' = TRUE
    /\ UNCHANGED <<contextVars, main, accepting, counters>>

\* A posted handler that posts itself again.
PostDoneAgain ==
    /\ Runs("post", TRUE)
    /\ ran' = ran + 1
    /\ Return(1, <<Done("post", TRUE)>>)
    /\ UNCHANGED <<crashed, accepting, served, beat>>

PostDone ==
    /\ Runs("post", TRUE)
    /\ ran' = ran + 1
    /\ Return(0, <<>>)
    /\ UNCHANGED <<crashed, accepting, served, beat>>

RunContext == (EnterRun \/ LeaveRun) /\ UNCHANGED <<main, crashed, accepting, counters>>
-----------------------------------------------------------------------------
Thread == RunContext \/ AcceptDone \/ AwaitUDPConnection \/ PostDone \/ Throws

Next ==
    /\ ~crashed
    /\ \/ StartFails \/ PostSend \/ ClientConnects \/ Thread
       \/ \E b \in BOOLEAN : Start(b) \/ AcceptEnds(b)

Spec == Init /\ [][Next]_vars

\* The thread runs handlers, one of which may throw and end it all, and the
\* system hands over a client that waits.
FairSpec ==
    /\ Spec
    /\ WF_vars(~crashed /\ Thread)
    /\ WF_vars(~crashed /\ \E ok \in BOOLEAN : AcceptEnds(ok))
-----------------------------------------------------------------------------
(* Properties *)

Queued(k) == {i \in DOMAIN iocp : iocp[i] # StopEvent /\ iocp[i].kind = k}

\* Types of the state.
TypeOK ==
    /\ ContextTypeOK(Completion)
    /\ main \in {"new", "started", "failed"}
    /\ crashed \in BOOLEAN /\ accepting \in BOOLEAN /\ beat \in BOOLEAN
    /\ served <= answered /\ answered <= clients /\ clients <= MaxClients
    /\ ran <= posts /\ posts <= MaxPosts

\* Each loop arms itself exactly once: after a client, or a failed accept, the
\* server waits for the next one, and receives neither die out nor multiply.
OneOfEach ==
    main = "started" =>
        /\ IF accepting THEN Queued("accept") = {}
                        ELSE \E i \in DOMAIN iocp : Queued("accept") = {i}
        /\ \E i \in DOMAIN iocp : Queued("udp") = {i}

\* The thread never leaves run(): there is always work outstanding.
NeverStops == thread # "ended" /\ (main = "started" => outstanding_work_ >= 2)

\* The receive that is aborted again and again starves nobody: every client is
\* accepted, and every handler the main thread posts is run.
EveryoneIsServed ==
    /\ \A n \in 1..MaxClients :
         (main = "started" /\ clients >= n) ~> (served >= n \/ crashed)
    /\ \A n \in 1..MaxPosts : (posts >= n) ~> (ran >= n \/ crashed)
=============================================================================
