------------------------------- MODULE Client -------------------------------
(***************************************************************************)
(* The client: ClientApp<CMD> (NetClient.h) and the frame loop of NetNode  *)
(* (GDNative.cpp).  The main thread, Godot's, calls Connect, Disconnect,   *)
(* SendToServer and _process; a thread of the client's own runs the        *)
(* io_context of the connection.  A session is one call of Connect and the *)
(* TCPConnection it makes.                                                 *)
(*                                                                         *)
(* Of a connection only what the life of the object depends on is kept:    *)
(* its socket, its one read and its one write.  A header and its body are  *)
(* read and written as one (module TCPConnection has the two apart).       *)
(* Handlers hold a raw this: a completion packet names its connection.     *)
(***************************************************************************)
EXTENDS IoContext

CONSTANTS MaxSessions,      \* bounds: calls of Connect,
          MaxSends,         \* packets sent in all sessions,
          MaxServerSends,   \* packets a server sends in a session
          Attempts          \* endpoints the host name resolves to

ASSUME ClientAssumption ==
    /\ MaxSessions \in Nat /\ MaxSends \in Nat /\ MaxServerSends \in Nat
    /\ Attempts \in Nat \ {0}

Sessions == 1..MaxSessions
NoSession == 0

VARIABLES
    mpc,            \* main thread: "idle", inside Connect ("assign") or Disconnect
                    \* ("stop", "join"), or gone ("terminated")
    session,        \* calls of Connect so far
    m_TCPConnection,
    destroyed,      \* connections whose destructor has run
    fresh,          \* sessions that began on a context that was not stopped
    missed,         \* sessions whose Disconnect looked at the socket in mid-retry
    sock,           \* m_Socket: "none", "open" (is_open()), "closed", or "retry": closed,
                    \* the handler about to open it again for the next endpoint
    tries,          \* endpoints tried
    up,             \* sockets that are connected
    rd,             \* operation in the system: "connect", "read" or "none"
    wr,             \* connections with a write in the system
    m_PktOut,       \* number of packets in m_PktOut
    sends,          \* number of packets the application sent
    serverSent,     \* number of packets the server sent
    m_tmpPktIn,     \* number of the packet read last
    m_PktIn,        \* received packets, <<session, number>>
    m_pktIn,        \* NetNode's copy of the one the script looks at, or Invalid
    taken,          \* packets the script has read and passed by
    pushed          \* packets that were ever put into m_PktIn

connVars == <<sock, tries, up, rd, wr, m_PktOut, m_tmpPktIn>>
mainVars == <<mpc, session, m_TCPConnection, destroyed, fresh, missed>>
scriptVars == <<m_pktIn, taken>>
vars == <<contextVars, mainVars, connVars, sends, serverSent, m_PktIn, scriptVars, pushed>>

Kinds == {"connect", "read", "write", "send", "close"}
Completion == [conn : Sessions, kind : Kinds, ok : BOOLEAN]
Done(c, k, ok) == [conn |-> c, kind |-> k, ok |-> ok]

ASSUME StopAssumption == StopEvent \notin Completion

Received == Sessions \X (1..MaxServerSends)
Invalid == <<NoSession, 0>>

\* Types of the state.  That m_PktOut has a length says that WriteDone, which
\* pops it, is never served with nothing there: not after a close either.
TypeOK ==
    /\ ContextTypeOK(Completion)
    /\ mpc \in {"idle", "assign", "stop", "join", "terminated"}
    /\ session \in 0..MaxSessions
    /\ m_TCPConnection \in {NoSession} \union 1..session
    /\ destroyed \in SUBSET (1..session)
    /\ fresh \in SUBSET (1..session) /\ missed \in SUBSET (1..session)
    /\ sock \in [Sessions -> {"none", "open", "retry", "closed"}]
    /\ tries \in [Sessions -> 0..Attempts]
    /\ up \in SUBSET Sessions
    /\ rd \in [Sessions -> {"none", "connect", "read"}]
    /\ wr \in SUBSET Sessions
    /\ m_PktOut \in [Sessions -> 0..MaxSends] /\ sends \in 0..MaxSends
    /\ serverSent \in [Sessions -> 0..MaxServerSends]
    /\ m_tmpPktIn \in [Sessions -> 0..MaxServerSends]
    /\ m_PktIn \in Seq(Received) /\ pushed \in Seq(Received) /\ taken \in Seq(Received)
    /\ m_pktIn \in Received \union {Invalid}

Init ==
    /\ ContextInit
    /\ mpc = "idle" /\ session = 0 /\ m_TCPConnection = NoSession
    /\ destroyed = {} /\ fresh = {} /\ missed = {}
    /\ sock = [c \in Sessions |-> "none"] /\ tries = [c \in Sessions |-> 0] /\ up = {}
    /\ rd = [c \in Sessions |-> "none"] /\ wr = {}
    /\ m_PktOut = [c \in Sessions |-> 0] /\ sends = 0
    /\ serverSent = [c \in Sessions |-> 0] /\ m_tmpPktIn = [c \in Sessions |-> 0]
    /\ m_PktIn = <<>> /\ pushed = <<>>
    /\ m_pktIn = Invalid /\ taken = <<>>
-----------------------------------------------------------------------------
(* The main thread: Connect and Disconnect *)

IsConnected == m_TCPConnection # NoSession /\ sock[m_TCPConnection] = "open"

\* The connection there is, when the ASIO thread is replacing its socket.
MidRetry == {c \in {m_TCPConnection} \ {NoSession} : sock[c] = "retry"}

\* Completions of the operations that closing the socket of c aborts.
Aborted(c) == (IF rd[c] = "none" THEN <<>> ELSE <<Done(c, rd[c], FALSE)>>)
              \o (IF c \in wr THEN <<Done(c, "write", FALSE)>> ELSE <<>>)

\* make_unique destroys the connection there was and closes its socket;
\* ConnectToServer opens the new one and starts to connect.  (If the host name
\* cannot be resolved Connect returns before all this.)
Connect ==
    LET c == session + 1
        old == {m_TCPConnection} \ {NoSession}
    IN  /\ mpc = "idle" /\ session < MaxSessions
        /\ session' = c /\ m_TCPConnection' = c
        /\ destroyed' = destroyed \union old
        /\ fresh' = IF stopped_ THEN fresh ELSE fresh \union {c}
        /\ sock' = [d \in Sessions |-> IF d = c THEN "open"
                                       ELSE IF d \in old THEN "closed" ELSE sock[d]]
        /\ rd' = [d \in Sessions |-> IF d = c THEN "connect"
                                     ELSE IF d \in old THEN "none" ELSE rd[d]]
        /\ wr' = wr \ old
        /\ tries' = [tries EXCEPT ![c] = 1]
        /\ iocp' = IF old = {} THEN iocp ELSE iocp \o Aborted(m_TCPConnection)
        /\ outstanding_work_' = outstanding_work_ + 1
        /\ mpc' = "assign"
        /\ UNCHANGED <<missed, stopped_, stop_event_posted_, thread, up, m_PktOut, m_tmpPktIn,
                       sends, serverSent, m_PktIn, scriptVars, pushed>>

\* Assigning to a joinable std::thread terminates the program.
AssignThread ==
    /\ mpc = "assign"
    /\ IF thread = "none" THEN thread' = "started" /\ mpc' = "idle"
                          ELSE mpc' = "terminated" /\ UNCHANGED thread
    /\ UNCHANGED <<iocp, outstanding_work_, stopped_, stop_event_posted_>>
    /\ UNCHANGED <<session, m_TCPConnection, destroyed, fresh, missed, connVars, sends, serverSent,
                   m_PktIn, scriptVars, pushed>>

\* The context stopped first, the close posted after it.
StopThenDisconnect ==
    /\ mpc = "idle" /\ mpc' = "stop"
    /\ stopped_' = TRUE /\ stop_event_posted_' = TRUE
    /\ iocp' = iocp \o (IF stopped_ THEN <<>> ELSE <<StopEvent>>)
                    \o (IF IsConnected THEN <<Done(m_TCPConnection, "close", TRUE)>> ELSE <<>>)
    /\ outstanding_work_' = IF IsConnected THEN outstanding_work_ + 1 ELSE outstanding_work_
    /\ missed' = missed \union MidRetry
    /\ UNCHANGED <<thread, session, m_TCPConnection, destroyed, fresh, connVars, sends, serverSent,
                   m_PktIn, scriptVars, pushed>>

Disconnect ==
    /\ mpc = "idle" /\ mpc' = "stop"
    /\ IF IsConnected THEN Post(Done(m_TCPConnection, "close", TRUE))
                      ELSE UNCHANGED contextVars
    /\ missed' = missed \union MidRetry
    /\ UNCHANGED <<session, m_TCPConnection, destroyed, fresh, connVars, sends, serverSent,
                   m_PktIn, scriptVars, pushed>>

Stop ==
    /\ mpc = "stop" /\ mpc' = "join"
    /\ StopOn(iocp)
    /\ UNCHANGED <<outstanding_work_, thread>>
    /\ UNCHANGED <<session, m_TCPConnection, destroyed, fresh, missed, connVars, sends, serverSent,
                   m_PktIn, scriptVars, pushed>>

\* reset() in the place of release().
JoinAndReset ==
    /\ mpc = "join" /\ thread \in {"none", "ended"}
    /\ mpc' = "idle" /\ thread' = "none" /\ m_TCPConnection' = NoSession
    /\ destroyed' = destroyed \union ({m_TCPConnection} \ {NoSession})
    /\ UNCHANGED <<iocp, outstanding_work_, stopped_, stop_event_posted_>>
    /\ UNCHANGED <<session, fresh, missed, connVars, sends, serverSent, m_PktIn,
                   scriptVars, pushed>>

\* join() waits for the end of run(); release() gives the connection up
\* without destroying it.
Join ==
    /\ mpc = "join" /\ thread \in {"none", "ended"}
    /\ mpc' = "idle" /\ thread' = "none" /\ m_TCPConnection' = NoSession
    /\ UNCHANGED <<iocp, outstanding_work_, stopped_, stop_event_posted_>>
    /\ UNCHANGED <<session, destroyed, fresh, missed, connVars, sends, serverSent, m_PktIn,
                   scriptVars, pushed>>

\* SendToServer: TCPConnection::SendPacket posts the packet.
SendToServer ==
    /\ mpc = "idle" /\ IsConnected /\ sends < MaxSends
    /\ sends' = sends + 1
    /\ Post(Done(m_TCPConnection, "send", TRUE))
    /\ UNCHANGED <<mainVars, connVars, serverSent, m_PktIn, scriptVars, pushed>>

(* The main thread: a frame of Godot *)

\* _process copies the front packet and emits packet_received, every frame.
Process ==
    /\ mpc = "idle" /\ IsConnected /\ m_PktIn # <<>>
    /\ m_pktIn' = Head(m_PktIn)
    /\ UNCHANGED <<contextVars, mainVars, connVars, sends, serverSent, m_PktIn, taken, pushed>>

\* The packet cleared but left in the queue.
ClearPkt ==
    /\ mpc = "idle" /\ m_pktIn # Invalid
    /\ m_pktIn' = Invalid /\ taken' = Append(taken, m_pktIn)
    /\ UNCHANGED <<contextVars, mainVars, connVars, sends, serverSent, m_PktIn, pushed>>

\* The script, which calls this once for a packet it was shown, in the same
\* frame or in a later one.
PrepareNextPkt ==
    /\ mpc = "idle" /\ m_pktIn # Invalid
    /\ m_PktIn' = Tail(m_PktIn)
    /\ m_pktIn' = Invalid /\ taken' = Append(taken, m_pktIn)
    /\ UNCHANGED <<contextVars, mainVars, connVars, sends, serverSent, pushed>>
-----------------------------------------------------------------------------
(* The system finishes operations *)

SystemUnchanged == UNCHANGED <<mainVars, sock, tries, m_PktOut, sends, m_PktIn, scriptVars, pushed>>

ServerSends(c) ==
    /\ c \in up /\ serverSent[c] < MaxServerSends
    /\ serverSent' = [serverSent EXCEPT ![c] = @ + 1]
    /\ UNCHANGED <<contextVars, up, rd, wr, m_tmpPktIn>> /\ SystemUnchanged

ConnectEnds(c, ok) ==
    /\ rd[c] = "connect"
    /\ Complete(<<Done(c, "connect", ok)>>)
    /\ rd' = [rd EXCEPT ![c] = "none"]
    /\ up' = IF ok THEN up \union {c} ELSE up
    /\ UNCHANGED <<wr, serverSent, m_tmpPktIn>> /\ SystemUnchanged

\* The next packet is complete, or the connection is lost.
ReadEnds(c, ok) ==
    /\ rd[c] = "read"
    /\ ok => m_tmpPktIn[c] < serverSent[c]
    /\ Complete(<<Done(c, "read", ok)>>)
    /\ rd' = [rd EXCEPT ![c] = "none"]
    /\ m_tmpPktIn' = IF ok THEN [m_tmpPktIn EXCEPT ![c] = @ + 1] ELSE m_tmpPktIn
    /\ UNCHANGED <<up, wr, serverSent>> /\ SystemUnchanged

WriteEnds(c, ok) ==
    /\ c \in wr
    /\ Complete(<<Done(c, "write", ok)>>)
    /\ wr' = wr \ {c}
    /\ UNCHANGED <<up, rd, serverSent, m_tmpPktIn>> /\ SystemUnchanged
-----------------------------------------------------------------------------
(* The ASIO thread: handlers *)

Usable(c) == sock[c] = "open" /\ c \in up
Handler == UNCHANGED <<mainVars, sends, serverSent, m_tmpPktIn, scriptVars>>

\* A handler of c runs; on a destroyed connection what it does is undefined,
\* and the thread stops being described.
Handles(c, k, ok) == c \notin destroyed /\ Serves(Done(c, k, ok)) /\ Handler

\* ReadHeader: an operation on a socket that cannot be used fails at once.
ReadHeader(c) ==
    /\ rd' = IF Usable(c) THEN [rd EXCEPT ![c] = "read"] ELSE rd
    /\ Return(1, IF Usable(c) THEN <<>> ELSE <<Done(c, "read", FALSE)>>)

WriteHeader(c) ==
    /\ wr' = IF Usable(c) THEN wr \union {c} ELSE wr
    /\ Return(1, IF Usable(c) THEN <<>> ELSE <<Done(c, "write", FALSE)>>)

Close(c) ==
    /\ sock' = [sock EXCEPT ![c] = "closed"]
    /\ rd' = [rd EXCEPT ![c] = "none"] /\ wr' = wr \ {c}
    /\ Return(0, Aborted(c))

\* The composed async_connect: on to the next endpoint if there is one and the
\* socket was not closed meanwhile.  It closes the socket of the attempt that
\* failed; async_connect, later in the same handler, opens another.
CloseForNext(c) ==
    /\ Handles(c, "connect", FALSE)
    /\ sock[c] = "open" /\ tries[c] < Attempts
    /\ sock' = [sock EXCEPT ![c] = "retry"]
    /\ UNCHANGED <<contextVars, tries, up, rd, wr, m_PktOut, m_PktIn, pushed>>

ConnectNext(c) ==
    /\ Handles(c, "connect", FALSE) /\ sock[c] = "retry"
    /\ sock' = [sock EXCEPT ![c] = "open"]
    /\ tries' = [tries EXCEPT ![c] = @ + 1]
    /\ rd' = [rd EXCEPT ![c] = "connect"]
    /\ Return(1, <<>>)
    /\ UNCHANGED <<up, wr, m_PktOut, m_PktIn, pushed>>

\* ConnectToServer's handler does nothing on an error.
ConnectFailed(c) ==
    /\ \/ /\ Handles(c, "connect", FALSE)
          /\ sock[c] = "closed" \/ (sock[c] = "open" /\ tries[c] = Attempts)
       \/ Handles(c, "connect", TRUE) /\ sock[c] = "closed"
    /\ Return(0, <<>>)
    /\ UNCHANGED <<connVars, m_PktIn, pushed>>

Connected(c) ==
    /\ Handles(c, "connect", TRUE) /\ sock[c] = "open"
    /\ ReadHeader(c)
    /\ UNCHANGED <<sock, tries, up, wr, m_PktOut, m_PktIn, pushed>>

Push(c) == /\ m_PktIn' = Append(m_PktIn, <<c, m_tmpPktIn[c]>>)
           /\ pushed' = Append(pushed, <<c, m_tmpPktIn[c]>>)

\* PushToIncomingQueue without the ReadHeader at its end.
ReadDoneForGood(c) ==
    /\ Handles(c, "read", TRUE)
    /\ Push(c)
    /\ Return(0, <<>>)
    /\ UNCHANGED <<sock, tries, up, rd, wr, m_PktOut>>

ReadDone(c) ==
    /\ Handles(c, "read", TRUE)
    /\ Push(c)
    /\ ReadHeader(c)
    /\ UNCHANGED <<sock, tries, up, wr, m_PktOut>>

RunSend(c) ==
    /\ Handles(c, "send", TRUE)
    /\ m_PktOut' = [m_PktOut EXCEPT ![c] = @ + 1]
    /\ IF m_PktOut[c] = 0 THEN WriteHeader(c) ELSE Return(0, <<>>) /\ UNCHANGED wr
    /\ UNCHANGED <<sock, tries, up, rd, m_PktIn, pushed>>

WriteDone(c) ==
    /\ Handles(c, "write", TRUE)
    /\ m_PktOut' = [m_PktOut EXCEPT ![c] = @ - 1]
    /\ IF m_PktOut[c] > 1 THEN WriteHeader(c) ELSE Return(0, <<>>) /\ UNCHANGED wr
    /\ UNCHANGED <<sock, tries, up, rd, m_PktIn, pushed>>

\* The queue emptied with the socket, as if no finished write were left.
CloseAndClear(c) ==
    /\ \/ Handles(c, "close", TRUE)
       \/ Handles(c, "read", FALSE)
       \/ Handles(c, "write", FALSE)
    /\ Close(c)
    /\ m_PktOut' = [m_PktOut EXCEPT ![c] = 0]
    /\ UNCHANGED <<tries, up, m_PktIn, pushed>>

\* The handler posted by Disconnect, and the error branches of the chains.
CloseSocket(c) ==
    /\ \/ Handles(c, "close", TRUE)
       \/ Handles(c, "read", FALSE)
       \/ Handles(c, "write", FALSE)
    /\ Close(c)
    /\ UNCHANGED <<tries, up, m_PktOut, m_PktIn, pushed>>

RunContext == (EnterRun \/ LeaveRun) /\ UNCHANGED <<connVars, m_PktIn, pushed>> /\ Handler
-----------------------------------------------------------------------------
Frame    == Process \/ PrepareNextPkt
Thread   == RunContext \/ \E c \in Sessions :
                CloseForNext(c) \/ ConnectNext(c) \/ ConnectFailed(c) \/ Connected(c) \/ ReadDone(c)
                \/ RunSend(c) \/ WriteDone(c) \/ CloseSocket(c)
Main     == Connect \/ AssignThread \/ Disconnect \/ Stop \/ Join \/ SendToServer

Next ==
    /\ mpc # "terminated"
    /\ \/ Main \/ Frame \/ Thread
       \/ \E c \in Sessions :
            \/ ServerSends(c)
            \/ \E ok \in BOOLEAN : ConnectEnds(c, ok) \/ ReadEnds(c, ok) \/ WriteEnds(c, ok)

Spec == Init /\ [][Next]_vars

\* The threads run, the connection attempt ends, a healthy connection carries
\* what the server sent, Godot draws frames and the script passes the packets
\* it has read by.  Nobody has to send, to connect or to disconnect.
FairSpec ==
    /\ Spec
    /\ WF_vars(Thread) /\ WF_vars(AssignThread \/ Stop \/ Join)
    /\ WF_vars(Process) /\ WF_vars(PrepareNextPkt)
    /\ \A c \in Sessions : /\ WF_vars(\E ok \in BOOLEAN : ConnectEnds(c, ok))
                           /\ WF_vars(ReadEnds(c, TRUE))
-----------------------------------------------------------------------------
(* Properties *)

\* Connections with a handler still to come.
Awaited(c) == \/ rd[c] # "none" \/ c \in wr
              \/ \E i \in DOMAIN iocp : iocp[i] # StopEvent /\ iocp[i].conn = c

\* No handler, of an operation in the system or on the queue, belongs to a
\* connection that was destroyed, not even when it is served in the session
\* after: release() keeps the object for it.  Only a Connect that was not
\* preceded by a Disconnect destroys one, just before std::terminate.
HandlersFindTheirConnection ==
    \A c \in destroyed : Awaited(c) => mpc \in {"assign", "terminated"} /\ thread # "none"

Exhausted(c) == tries[c] = Attempts /\ rd[c] = "none" /\ c \notin up

\* A socket is not left open with nobody to serve it, neither while
\* IsConnected() says yes nor after Disconnect: the close that Disconnect posts
\* is served before the stop that follows it at once.  Three exceptions: a host
\* none of whose endpoints answered; a session that began on a stopped context,
\* which every session after a Disconnect is; and a Disconnect that looked at
\* the socket between the close and the open of a retry, which posts no close.
OpenIsServed ==
    \A c \in fresh \ missed : sock[c] = "open" /\ thread \in {"none", "ended"}
                                 => Exhausted(c) \/ (mpc = "assign" /\ session = c)

\* The script gets the packets in the order they came in, each once, though
\* _process shows the front packet again and again while more arrive, and
\* though sessions end and begin between two frames.
TakenInOrder ==
    /\ Len(taken) <= Len(pushed)
    /\ \A i \in DOMAIN taken : taken[i] = pushed[i]

\* What the server sends is taken by the script, unless the connection is
\* closed first, the session began on a stopped context, or its Disconnect came
\* in the middle of a retry.
SentIsTaken ==
    \A c \in Sessions : \A n \in 1..MaxServerSends :
        (c \in fresh \ missed /\ serverSent[c] >= n)
            ~> (sock[c] = "closed" \/ mpc = "terminated" \/ \E i \in DOMAIN taken : taken[i] = <<c, n>>)

\* Disconnect always gets past join(), in a session that never ran as well.
JoinReturns == (mpc = "join") ~> (mpc = "idle")

\* "This function must be called prior to any second or later set of
\* invocations of the run() ... functions", says asio of restart(): run() is
\* not entered again on a stopped context.
RestartedBeforeRun == session > 1 /\ thread = "started" => ~stopped_
=============================================================================
