------------------------------- MODULE Server -------------------------------
(***************************************************************************)
(* The game server: ServerApp<CMD> (NetServerApp.h), Server (Server.h,     *)
(* Server.cpp), World and Character.  Two threads share it without a lock  *)
(* of their own:                                                           *)
(*   - the ASIO thread accepts connections, pushes what they send to       *)
(*     m_TCP_PktIn and closes their sockets when the peer is gone;         *)
(*   - the main thread pops m_TCP_PktIn in Process() and runs OnPacket.    *)
(* m_TCPConnections is changed by both.  A step is one SendToClient, one   *)
(* element of SendToAll's loop, one erase, or one statement of the accept  *)
(* handler, so that the other thread can come in between.                  *)
(*                                                                         *)
(* What SendPacket is given is recorded by its effect on the receiver: the *)
(* first command it gets and where it thinks each character is.            *)
(***************************************************************************)
EXTENDS Naturals, Sequences

CONSTANTS Conns,        \* connections, each made at most once
          NoConn,
          IdMod,        \* 2^32: range of m_IDCnt and m_sID
          ChaMod,       \* 2^16: range of Character::m_ID
          Pos,          \* positions
          Origin,       \* the position of a new Character
          Unknown,      \* in a view: no position was ever told
          Busy,         \* connections with a second operation outstanding, or a
                        \* send posted, when they are closed
          MaxPkts       \* bound on the packets clients send

ASSUME ConnAssumption == NoConn \notin Conns /\ Busy \subseteq Conns
ASSUME PosAssumption == Origin \in Pos /\ Unknown \notin Pos
ASSUME WidthAssumption == IdMod \in Nat \ {0} /\ ChaMod \in Nat \ {0} /\ MaxPkts \in Nat
ASSUME NarrowAssumption == ChaMod < IdMod

VARIABLES
    \* clients
    conn,               \* "unused", "backlog" (waiting in the acceptor) or "accepted"
    gone,               \* connections whose peer has vanished
    received,           \* number of packets that arrived
    \* ASIO thread
    apc, newconn,       \* where the accept handler is, and its connection
    open,               \* connections with m_Socket.is_open()
    reading,            \* connections with a read that is under way, or has
                        \* finished well and has its handler to come
    late,               \* closed connections with another handler to come
    m_sID, m_IDCnt,
    m_TCP_PktIn,        \* [client, cmd, pos], pos being used by MovePlayer only
    \* shared
    m_TCPConnections,
    crashed, raced,     \* std::terminate; unsynchronised accesses overlapped
    \* main thread
    mpc, client,        \* where OnPacket is, and the client it serves
    pkt,                \* the SelfEnterWorld packet being prepared, or NoPkt
    todo,               \* connections the loop at mpc has still to visit
    dead,               \* connections to erase from m_TCPConnections
    m_chaMap,           \* World: character id -> [conn, pos]
    \* receivers
    first,              \* first command handed to SendPacket for a connection
    view,               \* view[c][k]: position of character k last sent to c
    reentered           \* characters that entered again and have not moved since

clientVars == <<conn, gone, received>>
asioVars   == <<apc, newconn, open, reading, late, m_sID, m_IDCnt>>
mainVars   == <<mpc, client, pkt, todo, dead>>
sharedVars == <<m_TCP_PktIn, m_TCPConnections, crashed, raced>>
worldVars  == <<m_chaMap, reentered>>
toldVars   == <<first, view>>
vars == <<clientVars, asioVars, sharedVars, mainVars, worldVars, toldVars>>

NoId   == IdMod             \* m_sID before ConnectToClient
ChaIds == 0..(ChaMod - 1)
NoPkt  == [cha |-> ChaMod, at |-> [k \in {} |-> Origin]]
Cmds   == {"Ping", "MessageAll", "SelfEnterWorld", "MovePlayer"}
OutCmds == {"AcceptTCPConnection", "Ping", "ServerMessage", "SelfEnterWorld",
            "PlyEnterWorld", "MovePlayer"}
Listed == {m_TCPConnections[i] : i \in DOMAIN m_TCPConnections}
InWorld == {m_chaMap[k].conn : k \in DOMAIN m_chaMap}

\* Types of the state; m_chaMap holds no more than one entry per 16-bit id.
TypeOK ==
    /\ conn \in [Conns -> {"unused", "backlog", "accepted"}]
    /\ gone \in SUBSET Conns /\ received \in 0..MaxPkts
    /\ apc \in {"idle", "greeted", "listed", "served"} /\ newconn \in Conns \union {NoConn}
    /\ open \in SUBSET Conns /\ reading \in SUBSET Conns /\ late \in SUBSET Busy
    /\ m_sID \in [Conns -> 0..IdMod] /\ m_IDCnt \in 0..(IdMod - 1)
    /\ m_TCP_PktIn \in Seq([client : Conns, cmd : Cmds, pos : Pos])
    /\ m_TCPConnections \in Seq(Conns)
    /\ crashed \in BOOLEAN /\ raced \in BOOLEAN
    /\ mpc \in {"idle", "send", "notify", "all", "erase"}
    /\ client \in Conns \union {NoConn}
    /\ pkt.cha \in 0..ChaMod /\ DOMAIN pkt.at \subseteq ChaIds
    /\ pkt.at \in [DOMAIN pkt.at -> Pos]
    /\ todo \in SUBSET Conns /\ dead \in SUBSET Conns
    /\ DOMAIN m_chaMap \subseteq ChaIds
    /\ m_chaMap \in [DOMAIN m_chaMap -> [conn : Conns, pos : Pos]]
    /\ first \in [Conns -> OutCmds \union {"none"}]
    /\ view \in [Conns -> [ChaIds -> Pos \union {Unknown}]]
    /\ reentered \in SUBSET ChaIds

\* m_IDCnt has no initialiser and the constructor does not set it: any value.
Init ==
    /\ conn = [c \in Conns |-> "unused"] /\ gone = {} /\ received = 0
    /\ apc = "idle" /\ newconn = NoConn /\ open = {} /\ reading = {} /\ late = {}
    /\ m_sID = [c \in Conns |-> NoId] /\ m_IDCnt \in 0..(IdMod - 1)
    /\ m_TCP_PktIn = <<>> /\ m_TCPConnections = <<>>
    /\ crashed = FALSE /\ raced = FALSE
    /\ mpc = "idle" /\ client = NoConn /\ pkt = NoPkt /\ todo = {} /\ dead = {}
    /\ m_chaMap = [k \in {} |-> 0]
    /\ first = [c \in Conns |-> "none"]
    /\ view = [c \in Conns |-> [k \in ChaIds |-> Unknown]]
    /\ reentered = {}
-----------------------------------------------------------------------------
(* Clients *)

ClientConnects(c) ==
    /\ conn[c] = "unused"
    /\ conn' = [conn EXCEPT ![c] = "backlog"]
    /\ UNCHANGED <<gone, received, asioVars, sharedVars, mainVars, worldVars, toldVars>>

ClientGone(c) ==
    /\ conn[c] # "unused" /\ c \notin gone
    /\ gone' = gone \union {c}
    /\ UNCHANGED <<conn, received, asioVars, sharedVars, mainVars, worldVars, toldVars>>
-----------------------------------------------------------------------------
(* SendPacket, as seen by its receiver *)

FirstOf(f, cs, cmd) == [c \in Conns |-> IF c \in cs /\ f[c] = "none" THEN cmd ELSE f[c]]

\* cs are sent cmd, which says that character k is at pos for each k in DOMAIN at.
Tell(cs, cmd, at) ==
    /\ first' = FirstOf(first, cs, cmd)
    /\ view' = [c \in Conns |-> IF c \in cs
                                THEN [k \in ChaIds |-> IF k \in DOMAIN at THEN at[k] ELSE view[c][k]]
                                ELSE view[c]]

Nothing == [k \in {} |-> Origin]
AllAtOrigin(m) == [k \in DOMAIN m |-> Origin]
Positions(m) == [k \in DOMAIN m |-> m[k].pos]
-----------------------------------------------------------------------------
(* ASIO thread.  The accept handler runs to its end before another handler *)

\* socket.remote_endpoint() throws if the peer has reset the connection; nothing
\* catches it in the thread that runs m_ASIOContext.
AcceptThrows(c) ==
    /\ apc = "idle" /\ conn[c] = "backlog" /\ c \in gone
    /\ crashed' = TRUE
    /\ UNCHANGED <<clientVars, asioVars, m_TCP_PktIn, m_TCPConnections, raced, toldVars>>
    /\ UNCHANGED <<mainVars, worldVars>>

\* The greeting left for later.
OnClientConnectLate(c) ==
    /\ apc = "idle" /\ conn[c] = "backlog"
    /\ conn' = [conn EXCEPT ![c] = "accepted"]
    /\ open' = open \union {c}
    /\ apc' = "greeted" /\ newconn' = c
    /\ UNCHANGED <<gone, received, reading, late, m_sID, m_IDCnt, sharedVars, toldVars>>
    /\ UNCHANGED <<mainVars, worldVars>>

\* The connection is made and OnClientConnect sends to it: it was just accepted,
\* so it is open and SendToClient takes its first branch.
OnClientConnect(c) ==
    /\ apc = "idle" /\ conn[c] = "backlog"
    /\ conn' = [conn EXCEPT ![c] = "accepted"]
    /\ open' = open \union {c}
    /\ apc' = "greeted" /\ newconn' = c
    /\ Tell({c}, "AcceptTCPConnection", Nothing)
    /\ UNCHANGED <<gone, received, reading, late, m_sID, m_IDCnt, sharedVars, mainVars, worldVars>>

\* The main thread is inside an operation on m_TCPConnections.
Touching == mpc \in {"all", "erase"}

\* The connection is served, but not kept.
PushNothing ==
    /\ apc = "greeted"
    /\ apc' = "listed"
    /\ UNCHANGED <<clientVars, newconn, open, reading, late, m_sID, m_IDCnt, sharedVars>>
    /\ UNCHANGED <<mainVars, worldVars, toldVars>>

\* push_back into a deque the main thread is walking or erasing from is a data
\* race: the element is added, or its count is overwritten, or the walk crashes.
PushBack ==
    /\ apc = "greeted"
    /\ apc' = "listed"
    /\ raced' = (raced \/ Touching)
    /\ \/ m_TCPConnections' = Append(m_TCPConnections, newconn) /\ UNCHANGED crashed
       \/ Touching /\ UNCHANGED <<m_TCPConnections, crashed>>
       \/ Touching /\ crashed' = TRUE /\ UNCHANGED m_TCPConnections
    /\ UNCHANGED <<clientVars, newconn, open, reading, late, m_sID, m_IDCnt, m_TCP_PktIn>>
    /\ UNCHANGED <<mainVars, worldVars, toldVars>>

Back == m_TCPConnections[Len(m_TCPConnections)]

\* back() meets a pointer: the last one is not among those SendToAll has nulled.
BackIsThere == m_TCPConnections # <<>> /\ (mpc = "all" => Back \notin dead)

\* It meets none: the deque is empty (after a push_back that was lost), or the
\* main thread is between remove(), which leaves moved-from pointers at the end,
\* and erase().
BackIsNull == ~BackIsThere \/ mpc = "erase"

\* The accept handler calls back() without a lock.
UseBack ==
    /\ raced' = (raced \/ mpc = "erase")
    /\ UNCHANGED <<clientVars, open, late, m_TCP_PktIn, m_TCPConnections, mainVars, worldVars, toldVars>>

CrashOnBack ==
    /\ apc \in {"listed", "served"} /\ BackIsNull
    /\ crashed' = TRUE
    /\ UseBack
    /\ UNCHANGED <<apc, newconn, reading, m_sID, m_IDCnt>>

\* ConnectToClient with m_sID left unset.
ConnectWithoutId ==
    /\ apc = "listed" /\ BackIsThere
    /\ apc' = "served"
    /\ m_IDCnt' = (m_IDCnt + 1) % IdMod
    /\ reading' = reading \union ({Back} \intersect open)
    /\ UseBack
    /\ UNCHANGED <<newconn, m_sID, crashed>>

\* m_TCPConnections.back()->ConnectToClient(m_IDCnt++)
ConnectToClient ==
    /\ apc = "listed" /\ BackIsThere
    /\ apc' = "served"
    /\ m_IDCnt' = (m_IDCnt + 1) % IdMod
    /\ reading' = reading \union ({Back} \intersect open)
    /\ m_sID' = IF Back \in open THEN [m_sID EXCEPT ![Back] = m_IDCnt] ELSE m_sID
    /\ UseBack
    /\ UNCHANGED <<newconn, crashed>>

\* m_TCPConnections.back()->GetID(), for the log; the handler ends.
Approved ==
    /\ apc = "served" /\ BackIsThere
    /\ apc' = "idle" /\ newconn' = NoConn
    /\ UseBack
    /\ UNCHANGED <<reading, m_sID, m_IDCnt, crashed>>

\* A read or a write fails and its handler closes the socket; nobody is told.
\* The handler of the other operation, which this aborts, or that of a
\* SendPacket posted before, may be still to come; if it was the write that
\* failed the read may have finished, and keeps its handler.
CloseSocket(c) ==
    /\ apc = "idle" /\ c \in open \intersect gone
    /\ open' = open \ {c}
    /\ \/ reading' = reading \ {c} /\ late' \in {late, late \union ({c} \intersect Busy)}
       \/ c \in reading \intersect Busy /\ UNCHANGED <<reading, late>>
    /\ UNCHANGED <<clientVars, apc, newconn, m_sID, m_IDCnt, sharedVars>>
    /\ UNCHANGED <<mainVars, worldVars, toldVars>>

\* Who holds a shared_ptr to a connection: the accept handler, m_TCPConnections
\* (where SendToAll has put nullptr for the dead ones), the characters, the
\* notifylist, the packets that wait and the packet that is being handled.
Owned(c) ==
    \/ apc = "greeted" /\ newconn = c
    \/ c \in Listed /\ (c \in dead => pkt # NoPkt)
    \/ c \in InWorld \union todo \union {client}
    \/ \E i \in DOMAIN m_TCP_PktIn : m_TCP_PktIn[i].client = c

\* PushToIncomingQueue; packets of a peer that has gone may still be read.  On a
\* closed socket the ReadHeader at its end fails, and its handler is to come.
Receive(c, cmd, p) ==
    /\ apc = "idle" /\ c \in reading /\ received < MaxPkts
    /\ received' = received + 1
    /\ m_TCP_PktIn' = Append(m_TCP_PktIn, [client |-> c, cmd |-> cmd, pos |-> p])
    /\ reading' = reading \ ({c} \ open) /\ late' = late \union ({c} \ open)
    /\ crashed' = (c \notin open /\ ~Owned(c))
    /\ UNCHANGED <<conn, gone, apc, newconn, open, m_sID, m_IDCnt, m_TCPConnections, raced>>
    /\ UNCHANGED <<mainVars, worldVars, toldVars>>

\* A late handler runs.  It closes the socket again, or tries to write to it, or
\* there is no connection any more and its raw this points nowhere.
LateHandler(c) ==
    /\ apc = "idle" /\ c \in late
    /\ late' = late \ {c}
    /\ crashed' = ~Owned(c)
    /\ UNCHANGED <<clientVars, apc, newconn, open, reading, m_sID, m_IDCnt>>
    /\ UNCHANGED <<m_TCP_PktIn, m_TCPConnections, raced, mainVars, worldVars, toldVars>>
-----------------------------------------------------------------------------
(* World *)

\* std::unordered_map::insert keeps an entry that is already there.
AddChaToWorld(m, k, cha) == [j \in DOMAIN m \union {k} |-> IF j \in DOMAIN m THEN m[j] ELSE cha]
KeepInWorld(m, id) == m
RemoveChaFromWorld(m, id) == [k \in DOMAIN m \ {id} |-> m[k]]

ChaIdUncut(c) == m_sID[c]

\* Character::m_ID is a uint16_t, m_sID a uint32_t.
ChaId(c) == m_sID[c] % ChaMod

OnClientDisconnect(c) == m_chaMap' = RemoveChaFromWorld(m_chaMap, m_sID[c])

(* OnPacket: each handler pops the packet it serves *)

Packet == Head(m_TCP_PktIn)

Pops(cmd) ==
    /\ mpc = "idle" /\ m_TCP_PktIn # <<>> /\ Packet.cmd = cmd
    /\ m_TCP_PktIn' = Tail(m_TCP_PktIn)
    /\ UNCHANGED <<clientVars, asioVars, m_TCPConnections, crashed, raced>>

OnPing ==
    /\ Pops("Ping")
    /\ mpc' = "send" /\ client' = Packet.client
    /\ UNCHANGED <<pkt, todo, dead, worldVars, toldVars>>

OnMessageAll ==
    /\ Pops("MessageAll")
    /\ mpc' = "all" /\ client' = Packet.client
    /\ todo' = Listed
    /\ UNCHANGED <<pkt, dead, worldVars, toldVars>>

NewCharacter(c) == [conn |-> c, pos |-> Origin]

\* todo is the notifylist: the connection of every character, the new one too.
OnSelfEnterWorld ==
    LET c == Packet.client
        k == ChaId(c)
        m == AddChaToWorld(m_chaMap, k, NewCharacter(c))
    IN  /\ Pops("SelfEnterWorld")
        /\ m_chaMap' = m
        /\ reentered' = IF k \in DOMAIN m_chaMap THEN reentered \union {k} ELSE reentered
        /\ mpc' = "notify" /\ client' = c
        /\ pkt' = [cha |-> k, at |-> Positions(m)]
        /\ todo' = {m[j].conn : j \in DOMAIN m}
        /\ UNCHANGED <<dead, toldVars>>

\* Every other character's connection is sent to, open or not.
FlagMoveUpdate(k, p) ==
    Tell({m_chaMap[j].conn : j \in DOMAIN m_chaMap \ {k}}, "MovePlayer", [j \in {k} |-> p])

SetPos(k, p) ==
    /\ m_chaMap' = [m_chaMap EXCEPT ![k].pos = p]
    /\ FlagMoveUpdate(k, p)
    /\ reentered' = reentered \ {k}

\* The character is looked up by the id the packet carries.
MoveByPacketId ==
    \E k \in DOMAIN m_chaMap :
        Pops("MovePlayer") /\ SetPos(k, Packet.pos) /\ UNCHANGED mainVars

\* find(GetID()); the id in the packet is only compared, for a log message.
OnMovePlayer ==
    LET k == m_sID[Packet.client]
    IN  /\ Pops("MovePlayer")
        /\ \/ k \in DOMAIN m_chaMap /\ SetPos(k, Packet.pos)
           \/ k \notin DOMAIN m_chaMap /\ UNCHANGED <<worldVars, toldVars>>
        /\ UNCHANGED mainVars

(* SendToClient, SendToAll *)

\* A step of a handler that has popped its packet.
At(pc) == mpc = pc /\ UNCHANGED <<clientVars, asioVars, m_TCP_PktIn, crashed, raced, reentered>>

\* OnPacket returns to the loop of Process.
Return == mpc' = "idle" /\ client' = NoConn /\ pkt' = NoPkt

\* SendToClient(c, ...): after OnClientDisconnect the connection is erased.
SendToClient(c, cmd, at) ==
    \/ /\ c \in open
       /\ Tell({c}, cmd, at)
       /\ UNCHANGED <<m_chaMap, dead>>
    \/ /\ c \notin open
       /\ OnClientDisconnect(c)
       /\ dead' = {c}
       /\ UNCHANGED toldVars

SendPing ==
    /\ At("send")
    /\ SendToClient(client, "Ping", Nothing)
    /\ IF client \in open THEN Return ELSE mpc' = "erase" /\ UNCHANGED <<client, pkt>>
    /\ UNCHANGED <<m_TCPConnections, todo>>

\* One element of the notifylist is sent pkt2, with the new Character's position.
Notify(c) ==
    /\ At("notify") /\ c \in todo
    /\ todo' = todo \ {c}
    /\ SendToClient(c, "PlyEnterWorld", [k \in {pkt.cha} |-> Origin])
    /\ mpc' = IF c \in open THEN "notify" ELSE "erase"
    /\ UNCHANGED <<m_TCPConnections, client, pkt>>

\* The notifylist is done: the entering client gets pkt.
SendWorld ==
    /\ At("notify") /\ todo = {}
    /\ SendToClient(client, "SelfEnterWorld", pkt.at)
    /\ IF client \in open THEN Return
       ELSE mpc' = "erase" /\ pkt' = NoPkt /\ UNCHANGED client
    /\ UNCHANGED <<m_TCPConnections, todo>>

\* One element of SendToAll's loop, whose range was fixed when it began.
SendToAll(c) ==
    /\ At("all") /\ c \in todo
    /\ todo' = todo \ {c}
    /\ \/ /\ c \in open
          /\ Tell({c} \ {client}, "ServerMessage", Nothing)
          /\ UNCHANGED <<m_chaMap, dead>>
       \/ /\ c \notin open
          /\ OnClientDisconnect(c)
          /\ dead' = dead \union {c}
          /\ UNCHANGED toldVars
    /\ UNCHANGED <<m_TCPConnections, mpc, client, pkt>>

\* bInvalidClientExists
SendToAllDone ==
    /\ At("all") /\ todo = {}
    /\ IF dead = {} THEN Return ELSE mpc' = "erase" /\ UNCHANGED <<client, pkt>>
    /\ UNCHANGED <<m_TCPConnections, todo, dead, m_chaMap, toldVars>>

\* Back to the notifylist if there is one.
Resumed == /\ dead' = {}
           /\ IF pkt # NoPkt THEN mpc' = "notify" /\ UNCHANGED <<client, pkt>> ELSE Return
           /\ UNCHANGED <<todo, m_chaMap, toldVars>>

\* std::remove without the erase.
EraseNothing == At("erase") /\ Resumed /\ UNCHANGED m_TCPConnections

\* m_TCPConnections.erase(std::remove(...)), one element at a time.
Erase ==
    /\ At("erase")
    /\ \/ \E i \in DOMAIN m_TCPConnections :
              /\ m_TCPConnections[i] \in dead
              /\ m_TCPConnections' = SubSeq(m_TCPConnections, 1, i - 1)
                      \o SubSeq(m_TCPConnections, i + 1, Len(m_TCPConnections))
              /\ UNCHANGED <<mpc, client, pkt, todo, dead, m_chaMap, toldVars>>
       \/ Listed \intersect dead = {} /\ Resumed /\ UNCHANGED m_TCPConnections
-----------------------------------------------------------------------------
AcceptHandler == PushBack \/ ConnectToClient \/ Approved \/ CrashOnBack
Handler == SendPing \/ SendWorld \/ SendToAllDone \/ Erase
              \/ \E c \in Conns : Notify(c) \/ SendToAll(c)
OnPacket == OnPing \/ OnMessageAll \/ OnSelfEnterWorld \/ OnMovePlayer

Next ==
    /\ ~crashed
    /\ \/ \E c \in Conns : \/ ClientConnects(c) \/ ClientGone(c)
                           \/ AcceptThrows(c) \/ OnClientConnect(c)
                           \/ CloseSocket(c) \/ LateHandler(c)
                           \/ \E cmd \in Cmds, p \in Pos :
                                 (cmd = "MovePlayer" \/ p = Origin) /\ Receive(c, cmd, p)
       \/ AcceptHandler \/ OnPacket \/ Handler

Spec == Init /\ [][Next]_vars

\* A handler that has begun runs on; Process need not pick the next packet up
\* soon (NetQueue::wait can sleep through a push), and no client has to act.
FairSpec == Spec /\ WF_vars(~crashed /\ AcceptHandler) /\ WF_vars(~crashed /\ Handler)
-----------------------------------------------------------------------------
(* Properties *)

\* The first packet a client gets is AcceptTCPConnection, even while the main
\* thread is sending to all: the accept handler greets before it lists.
AcceptFirst == \A c \in Conns : first[c] \in {"none", "AcceptTCPConnection"}

\* GetID() is never asked of a connection whose m_sID was not set: not of one
\* that sent a packet, not of one that is found closed in a list, and not of
\* the one the accept handler finds at the back of the deque.
IdKnownWhenUsed ==
    /\ apc = "served" => \A c \in Listed : m_sID[c] # NoId
    /\ \A i \in DOMAIN m_TCP_PktIn : m_sID[m_TCP_PktIn[i].client] # NoId
    /\ \A c \in (Listed \union todo \union InWorld) \ open : m_sID[c] # NoId

\* No identifier was cut to 16 bits, and no two threads were in
\* m_TCPConnections at once; without this a character may be filed under, or
\* removed by, another client's id.
Sane == ~raced /\ \A c \in Conns : m_sID[c] = NoId \/ m_sID[c] < ChaMod

\* A connection whose socket is open is owned by somebody: between the accept
\* handler, the list, the world and the packets that are on their way, no order
\* of their comings and goings destroys one that is in use.
OpenIsOwned == \A c \in open : Owned(c) \/ raced

\* Between two packets every character in the world belongs to a connection
\* that is still listed: a packet that was queued before its client was
\* dropped does not bring the client's character back for good.
WorldIsListed == Sane /\ mpc = "idle" => InWorld \subseteq Listed

\* Between two packets every client in the world has been told the present
\* position of every other character, whoever came, moved or left in whichever
\* order; the one exception is a character that entered a second time, which
\* the others were told is back at the origin.
ViewsAgree ==
    Sane /\ mpc = "idle" =>
        \A j, k \in DOMAIN m_chaMap :
            j # k => \/ view[m_chaMap[j].conn][k] = m_chaMap[k].pos
                     \/ k \in reentered /\ view[m_chaMap[j].conn][k] = Origin

\* Only its own client moves a character.
MovesOwnCharacter ==
    [][\A k \in DOMAIN m_chaMap \intersect DOMAIN m_chaMap' :
          m_chaMap'[k].pos # m_chaMap[k].pos => m_chaMap[k].conn = Packet.client]_m_chaMap

\* The same where identifiers fit.
SaneMovesOwnCharacter ==
    [][Sane => \A k \in DOMAIN m_chaMap \intersect DOMAIN m_chaMap' :
          m_chaMap'[k].pos # m_chaMap[k].pos => m_chaMap[k].conn = Packet.client]_m_chaMap

\* A closed connection that SendToAll or the notifylist still has to visit
\* leaves the world and the list: both loops reach their end and erase.
ClosedAreDropped ==
    \A c \in Conns :
        (mpc \in {"notify", "all"} /\ c \in todo \ open)
            ~> (crashed \/ ~Sane \/ c \notin InWorld \union Listed)

\* "Ownership of the underlying memory blocks is retained by the caller, which
\* must guarantee that they remain valid until the handler is called": a
\* connection, with the buffers in it, outlives its operations.
LateIsOwned == \A c \in late \union (reading \ open) : Owned(c)
=============================================================================
