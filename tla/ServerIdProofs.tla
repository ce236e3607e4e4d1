--------------------------- MODULE ServerIdProofs ---------------------------
(***************************************************************************)
(* Proofs about Server, continued: the greeting is the first thing a       *)
(* client is sent, no id is asked for before it is set, and an open        *)
(* connection has an owner.  All three rest on where a connection that is  *)
(* being accepted can be seen: it is open until the accept handler ends,   *)
(* and while it has no id it is at the end of m_TCPConnections.            *)
(***************************************************************************)
EXTENDS ServerProofs

\* Nobody is reached who has not been accepted, and so greeted.
Reached ==
    /\ \A c \in Conns : first[c] = IF conn[c] = "accepted" THEN "AcceptTCPConnection" ELSE "none"
    /\ \A c \in open \union reading \union todo \union dead : conn[c] = "accepted"
    /\ \A i \in DOMAIN m_TCPConnections : conn[m_TCPConnections[i]] = "accepted"

\* A connection in a list has its id, or is the one that is about to get it.
Named(c) ==
    \/ m_sID[c] # NoId
    \/ /\ apc = "listed" /\ c = newconn
       /\ m_TCPConnections # <<>> /\ m_TCPConnections[Len(m_TCPConnections)] = c

\* Those that ConnectToClient was called for.
Connected == {c \in Conns : conn[c] = "accepted" /\ m_sID[c] # NoId}

Known ==
    /\ reading \subseteq Connected
    /\ \A i \in DOMAIN m_TCP_PktIn : m_TCP_PktIn[i].client \in Connected
    /\ \A k \in DOMAIN m_chaMap : m_chaMap[k].conn \in Connected
    /\ mpc # "idle" => client \in Connected
    /\ \A c \in todo : Named(c)
    /\ \A i \in DOMAIN m_TCPConnections : Named(m_TCPConnections[i])
    /\ dead \intersect open = {}

\* An open connection is listed, unless it is just being greeted or was lost.
Kept ==
    \A c \in open : \/ raced
                    \/ apc = "greeted" /\ newconn = c
                    \/ \E i \in DOMAIN m_TCPConnections : m_TCPConnections[i] = c

IdInv == TInv /\ Reached /\ Known /\ Kept

\* Whoever was greeted is not greeted again by another packet.
LEMMA ToldBefore ==
    ASSUME TInv, Reached, NEW cs, \A c \in cs : c \in Conns /\ conn[c] = "accepted",
           NEW cmd, NEW at, Tell(cs, cmd, at)
    PROVE  first' = first
  <1>1. \A c \in Conns : ~(c \in cs /\ first[c] = "none")
    BY DEF Reached
  <1>2. first \in [Conns -> OutCmds \union {"none"}]
    BY DEF TInv, ToldType
  <1>3. first' = [c \in Conns |-> first[c]]
    BY <1>1 DEF Tell, FirstOf
  <1>. QED  BY <1>2, <1>3

\* The steps of clients, and those that only break down.
LEMMA ClientsKeepIds ==
    ASSUME IdInv, NEW c \in Conns,
           ClientConnects(c) \/ ClientGone(c) \/ AcceptThrows(c) \/ LateHandler(c)
    PROVE  Reached' /\ Known' /\ Kept'
  <1> USE DEF IdInv, ClientConnects, ClientGone, AcceptThrows, LateHandler,
              clientVars, asioVars, sharedVars, mainVars, worldVars, toldVars
  <1>1. /\ UNCHANGED <<apc, newconn, open, reading, m_sID, m_TCP_PktIn, m_TCPConnections, raced>>
        /\ UNCHANGED <<mpc, client, todo, dead, m_chaMap, first>>
    OBVIOUS
  <1>2. \A d \in Conns : conn'[d] = "accepted" <=> conn[d] = "accepted"
    BY DEF TInv, AsioType
  <1>7. Connected' = Connected
    BY <1>1, <1>2 DEF Connected
  <1> HIDE DEF ClientConnects, ClientGone, AcceptThrows, LateHandler
  <1>3. Known' /\ Kept'
    BY <1>1, <1>7 DEF Known, Kept, Named
  <1>4. \A d \in open \union reading \union todo \union dead : d \in Conns
    BY DEF TInv, AsioType, MainType
  <1>5. \A i \in DOMAIN m_TCPConnections : m_TCPConnections[i] \in Conns
    BY DEF TInv, AsioType
  <1>6. Reached'
    BY <1>1, <1>2, <1>4, <1>5 DEF Reached
  <1>. QED  BY <1>3, <1>6

LEMMA OnClientConnectKeepsIds ==
    ASSUME IdInv, NEW c \in Conns, OnClientConnect(c)
    PROVE  Reached' /\ Known' /\ Kept'
  <1> USE DEF IdInv, sharedVars, mainVars, worldVars
  <1>1. /\ apc = "idle" /\ conn[c] = "backlog" /\ conn' = [conn EXCEPT ![c] = "accepted"]
        /\ open' = open \union {c} /\ apc' = "greeted" /\ newconn' = c
        /\ UNCHANGED <<reading, m_sID, m_TCP_PktIn, m_TCPConnections, raced>>
        /\ UNCHANGED <<mpc, client, todo, dead, m_chaMap>>
        /\ first' = FirstOf(first, {c}, "AcceptTCPConnection")
    BY DEF OnClientConnect, Tell
  <1>2. \A d \in Conns : conn'[d] = IF d = c THEN "accepted" ELSE conn[d]
    BY <1>1 DEF TInv, AsioType
  <1>3. first[c] = "none"
    BY <1>1 DEF Reached
  <1>4. \A d \in Conns : first'[d] = IF conn'[d] = "accepted" THEN "AcceptTCPConnection" ELSE "none"
    BY <1>1, <1>2, <1>3 DEF FirstOf, Reached
  <1>5. /\ \A d \in open \union reading \union todo \union dead : d \in Conns
        /\ \A i \in DOMAIN m_TCPConnections : m_TCPConnections[i] \in Conns
    BY DEF TInv, AsioType, MainType
  <1>6. Reached'
    BY <1>1, <1>2, <1>4, <1>5 DEF Reached
  <1>7. c \notin dead
    BY <1>1 DEF Reached
  <1>10. Connected \subseteq Connected'
    BY <1>1, <1>2 DEF Connected
  <1>8. Known'
    BY <1>1, <1>7, <1>10 DEF Known, Named
  <1>9. Kept'
    BY <1>1 DEF Kept
  <1>. QED  BY <1>6, <1>8, <1>9

LEMMA PushBackKeepsIds ==
    ASSUME IdInv, PushBack
    PROVE  Reached' /\ Known' /\ Kept'
  <1> USE DEF IdInv
  <1>1. /\ apc = "greeted" /\ apc' = "listed"
        /\ UNCHANGED <<conn, newconn, open, reading, m_sID, m_TCP_PktIn>>
        /\ UNCHANGED <<mpc, client, todo, dead, m_chaMap, first>>
        /\ raced => raced'
    BY DEF PushBack, clientVars, mainVars, worldVars, toldVars
  <1>2. newconn \in open /\ newconn \in Conns /\ conn[newconn] = "accepted"
    BY <1>1 DEF TInv, Places, AsioType, Reached
  <1>5. Connected' = Connected
    BY <1>1 DEF Connected
  <1>3. CASE m_TCPConnections' = Append(m_TCPConnections, newconn)
    <2>1. m_TCPConnections \in Seq(Conns)
      BY DEF TInv, AsioType
    <2>2. /\ m_TCPConnections' \in Seq(Conns)
          /\ Len(m_TCPConnections') = Len(m_TCPConnections) + 1
          /\ \A i \in 1..Len(m_TCPConnections) : m_TCPConnections'[i] = m_TCPConnections[i]
          /\ m_TCPConnections'[Len(m_TCPConnections) + 1] = newconn
          /\ Len(m_TCPConnections) \in Nat
      BY <1>2, <1>3, <2>1, AppendProperties
    <2>3. /\ DOMAIN m_TCPConnections = 1..Len(m_TCPConnections)
          /\ DOMAIN m_TCPConnections' = DOMAIN m_TCPConnections \union {Len(m_TCPConnections) + 1}
          /\ m_TCPConnections' # <<>>
          /\ m_TCPConnections'[Len(m_TCPConnections')] = newconn
      BY <2>1, <2>2, EmptySeq
    <2>4. Reached'
      BY <1>1, <1>2, <2>2, <2>3 DEF Reached
    <2>5. \A d \in Conns : Named(d) => Named(d)'
      BY <1>1 DEF Named
    <2>6. Named(newconn)'
      BY <1>1, <2>3 DEF Named
    <2>7. /\ \A d \in todo : d \in Conns
          /\ \A i \in DOMAIN m_TCPConnections : m_TCPConnections[i] \in Conns
      BY DEF TInv, AsioType, MainType
    <2>8. \A i \in DOMAIN m_TCPConnections' : Named(m_TCPConnections[i])'
      BY <1>1, <2>2, <2>3, <2>5, <2>6, <2>7 DEF Known
    <2>9. \A d \in todo' : Named(d)'
      BY <1>1, <2>5, <2>7 DEF Known
    <2>10. Known'
      BY <1>1, <1>5, <2>8, <2>9 DEF Known
    <2>11. Kept'
      BY <1>1, <2>2, <2>3 DEF Kept
    <2>. QED  BY <2>4, <2>10, <2>11
  <1>4. CASE Touching /\ UNCHANGED m_TCPConnections
    <2>1. raced'
      BY <1>4 DEF PushBack
    <2>2. Reached'
      BY <1>1, <1>4 DEF Reached
    <2>3. Known'
      BY <1>1, <1>4, <1>5 DEF Known, Named
    <2>4. Kept'
      BY <2>1 DEF Kept
    <2>. QED  BY <2>2, <2>3, <2>4
  <1>. QED  BY <1>3, <1>4 DEF PushBack

LEMMA ConnectToClientKeepsIds ==
    ASSUME IdInv, ConnectToClient
    PROVE  Reached' /\ Known' /\ Kept'
  <1> USE DEF IdInv
  <1>1. /\ apc = "listed" /\ apc' = "served" /\ BackIsThere
        /\ UNCHANGED <<conn, newconn, open, m_TCP_PktIn, m_TCPConnections>>
        /\ raced => raced'
        /\ UNCHANGED <<mpc, client, todo, dead, m_chaMap, first>>
    BY DEF ConnectToClient, UseBack, clientVars, mainVars, worldVars, toldVars
  <1>2. newconn \in open
    BY <1>1 DEF TInv, Places
  <1>3. Kept'
    BY <1>1 DEF Kept
  <1>4. /\ \A c \in todo : c \in Conns
        /\ \A i \in DOMAIN m_TCPConnections : m_TCPConnections[i] \in Conns
        /\ m_sID \in [Conns -> 0..IdMod] /\ m_IDCnt \in 0..(IdMod - 1) /\ m_IDCnt # NoId
        /\ reading \subseteq Conns
    BY WidthAssumption DEF TInv, AsioType, MainType, NoId
  <1> DEFINE c == Back
  <1>5. /\ reading' = reading \union ({c} \intersect open)
        /\ m_sID' = IF c \in open THEN [m_sID EXCEPT ![c] = m_IDCnt] ELSE m_sID
    BY DEF ConnectToClient
  <1>6. Len(m_TCPConnections) \in DOMAIN m_TCPConnections /\ c \in Conns
    BY <1>1, EmptySeq DEF TInv, AsioType, BackIsThere, Back
  <1>7. \A d \in Conns : Named(d) => d = c \/ m_sID[d] # NoId
    BY DEF Named, Back
  <1>8. Named(c) => c \in open \/ m_sID[c] # NoId
    BY <1>2 DEF Named
  <1>9. Named(c) /\ conn[c] = "accepted"
    BY <1>6 DEF Known, Reached, Back
  <1> HIDE DEF c
  <1>10. \A d \in Conns : m_sID[d] # NoId => m_sID'[d] # NoId
    BY <1>4, <1>5, <1>6
  <1>11. m_sID'[c] # NoId
    BY <1>4, <1>5, <1>6, <1>8, <1>9
  <1>12. \A d \in Conns : Named(d) => m_sID'[d] # NoId
    BY <1>7, <1>10, <1>11
  <1>13. Reached'
    BY <1>1, <1>5, <1>9 DEF Reached
  <1>14. Connected \subseteq Connected' /\ c \in Connected'
    BY <1>1, <1>6, <1>9, <1>10, <1>11 DEF Connected
  <1>15. reading' \subseteq Connected'
    BY <1>5, <1>14 DEF Known
  <1>16. /\ \A d \in todo' : Named(d)'
         /\ \A i \in DOMAIN m_TCPConnections' : Named(m_TCPConnections[i])'
    BY <1>1, <1>4, <1>12 DEF Known, Named
  <1>17. Known'
    BY <1>1, <1>14, <1>15, <1>16 DEF Known
  <1>. QED  BY <1>3, <1>13, <1>17

\* The handler ends, or nothing is left of it.
LEMMA AcceptEndsKeepsIds ==
    ASSUME IdInv, Approved \/ CrashOnBack
    PROVE  Reached' /\ Known' /\ Kept'
  <1> USE DEF IdInv
  <1>1. /\ apc # "idle"
        /\ UNCHANGED <<apc, newconn>> \/ (apc = "served" /\ apc' = "idle")
        /\ apc # "greeted" /\ apc' # "greeted"
        /\ UNCHANGED <<conn, open, reading, m_sID, m_TCP_PktIn, m_TCPConnections>>
        /\ UNCHANGED <<mpc, client, todo, dead, m_chaMap, first>>
        /\ raced => raced'
    BY DEF Approved, CrashOnBack, UseBack, clientVars, mainVars, worldVars, toldVars
  <1>2. Reached' /\ Kept'
    BY <1>1 DEF Reached, Kept
  <1>3. Connected' = Connected
    BY <1>1 DEF Connected
  <1>4. \A d : Named(d) => Named(d)'
    BY <1>1 DEF Named
  <1>5. Known'
    BY <1>1, <1>3, <1>4 DEF Known
  <1>. QED  BY <1>2, <1>5

LEMMA ReceiveKeepsIds ==
    ASSUME IdInv, NEW c \in Conns, NEW cmd \in Cmds, NEW p \in Pos, Receive(c, cmd, p)
    PROVE  Reached' /\ Known' /\ Kept'
  <1> USE DEF IdInv
  <1> DEFINE e == [client |-> c, cmd |-> cmd, pos |-> p]
  <1>1. /\ UNCHANGED <<conn, apc, newconn, open, m_sID, m_TCPConnections, raced>>
        /\ UNCHANGED <<mpc, client, todo, dead, m_chaMap, first>>
        /\ c \in reading /\ m_TCP_PktIn' = Append(m_TCP_PktIn, e)
        /\ reading' \subseteq reading
    BY DEF Receive, mainVars, worldVars, toldVars
  <1>7. Connected' = Connected
    BY <1>1 DEF Connected
  <1>2. Reached' /\ Kept'
    BY <1>1 DEF Reached, Kept
  <1>3. /\ m_TCP_PktIn \in Seq([client : Conns, cmd : Cmds, pos : Pos])
        /\ e \in [client : Conns, cmd : Cmds, pos : Pos] /\ e.client = c
    BY DEF TInv, AsioType
  <1> HIDE DEF e
  <1>4. /\ DOMAIN m_TCP_PktIn' = 1..(Len(m_TCP_PktIn) + 1)
        /\ DOMAIN m_TCP_PktIn = 1..Len(m_TCP_PktIn) /\ Len(m_TCP_PktIn) \in Nat
        /\ \A i \in 1..Len(m_TCP_PktIn) : m_TCP_PktIn'[i] = m_TCP_PktIn[i]
        /\ m_TCP_PktIn'[Len(m_TCP_PktIn) + 1] = e
    BY <1>1, <1>3, AppendProperties
  <1>5. \A i \in DOMAIN m_TCP_PktIn' : m_TCP_PktIn'[i].client \in Connected
    BY <1>1, <1>3, <1>4 DEF Known
  <1>6. Known'
    BY <1>1, <1>5, <1>7 DEF Known, Named
  <1>. QED  BY <1>2, <1>6

LEMMA CloseSocketKeepsIds ==
    ASSUME IdInv, NEW c \in Conns, CloseSocket(c)
    PROVE  Reached' /\ Known' /\ Kept'
  <1> USE DEF IdInv
  <1>1. /\ UNCHANGED <<conn, apc, newconn, m_sID, m_TCP_PktIn, m_TCPConnections, raced>>
        /\ UNCHANGED <<mpc, client, todo, dead, m_chaMap, first>>
        /\ open' = open \ {c} /\ reading' \subseteq reading
    BY DEF CloseSocket, clientVars, sharedVars, mainVars, worldVars, toldVars
  <1>2. Reached' /\ Kept'
    BY <1>1 DEF Reached, Kept
  <1>3. Connected' = Connected
    BY <1>1 DEF Connected
  <1>4. Known'
    BY <1>1, <1>3 DEF Known, Named
  <1>. QED  BY <1>2, <1>4

\* The queue after a packet was taken from its front.
LEMMA PopsKeepsQueue ==
    ASSUME IdInv, NEW cmd, Pops(cmd)
    PROVE  /\ Packet.client \in Connected /\ Packet.client \in Conns
           /\ \A i \in DOMAIN m_TCP_PktIn' : m_TCP_PktIn'[i].client \in Connected
           /\ UNCHANGED <<conn, apc, newconn, open, reading, m_sID, m_TCPConnections, raced, Connected>>
  <1>1. /\ Packet = m_TCP_PktIn[1] /\ 1 \in DOMAIN m_TCP_PktIn /\ m_TCP_PktIn # <<>>
        /\ Packet.client \in Conns
    BY PopTypes DEF IdInv
  <1>2. /\ m_TCP_PktIn' = Tail(m_TCP_PktIn)
        /\ UNCHANGED <<conn, apc, newconn, open, reading, m_sID, m_TCPConnections, raced, Connected>>
    BY DEF Pops, clientVars, asioVars, Connected
  <1>3. m_TCP_PktIn \in Seq([client : Conns, cmd : Cmds, pos : Pos])
    BY DEF IdInv, TInv, AsioType
  <1>4. /\ DOMAIN m_TCP_PktIn' = 1..(Len(m_TCP_PktIn) - 1)
        /\ DOMAIN m_TCP_PktIn = 1..Len(m_TCP_PktIn) /\ Len(m_TCP_PktIn) \in Nat
        /\ \A i \in 1..(Len(m_TCP_PktIn) - 1) : m_TCP_PktIn'[i] = m_TCP_PktIn[i + 1]
    BY <1>1, <1>2, <1>3, HeadTailProperties
  <1>5. \A i \in 1..(Len(m_TCP_PktIn) - 1) : i + 1 \in 1..Len(m_TCP_PktIn)
    BY <1>4
  <1>6. \A i \in DOMAIN m_TCP_PktIn' : m_TCP_PktIn'[i].client \in Connected
    BY <1>4, <1>5 DEF IdInv, Known
  <1>. QED  BY <1>1, <1>2, <1>6 DEF IdInv, Known

LEMMA PingKeepsIds ==
    ASSUME IdInv, OnPing \/ OnMessageAll
    PROVE  Reached' /\ Known' /\ Kept'
  <1>1. PICK cmd \in {"Ping", "MessageAll"} : Pops(cmd)
    BY DEF OnPing, OnMessageAll
  <1>2. /\ Packet.client \in Connected
        /\ \A i \in DOMAIN m_TCP_PktIn' : m_TCP_PktIn'[i].client \in Connected
        /\ UNCHANGED <<conn, apc, newconn, open, reading, m_sID, m_TCPConnections, raced, Connected>>
    BY <1>1, PopsKeepsQueue
  <1>3. /\ client' = Packet.client
        /\ todo' = todo \/ todo' = Listed
        /\ UNCHANGED <<dead, m_chaMap, first>>
    BY DEF OnPing, OnMessageAll, worldVars, toldVars
  <1>4. \A c \in Listed : \E i \in DOMAIN m_TCPConnections : c = m_TCPConnections[i]
    BY DEF Listed
  <1> HIDE DEF Listed
  <1>5. \A c \in todo' : conn[c] = "accepted" /\ Named(c)
    BY <1>3, <1>4 DEF IdInv, Reached, Known
  <1>6. Reached'
    BY <1>2, <1>3, <1>5 DEF IdInv, Reached
  <1>7. Known'
    BY <1>2, <1>3, <1>5 DEF IdInv, Known, Named
  <1>8. Kept'
    BY <1>2 DEF IdInv, Kept
  <1>. QED  BY <1>6, <1>7, <1>8

LEMMA EnterKeepsIds ==
    ASSUME IdInv, OnSelfEnterWorld
    PROVE  Reached' /\ Known' /\ Kept'
  <1> DEFINE c == Packet.client
             k == ChaId(c)
             m == AddChaToWorld(m_chaMap, k, NewCharacter(c))
  <1>1. /\ Pops("SelfEnterWorld")
        /\ m_chaMap' = m /\ client' = c
        /\ todo' = {m[j].conn : j \in DOMAIN m}
        /\ UNCHANGED <<dead, first>>
    BY DEF OnSelfEnterWorld, toldVars
  <1>2. /\ c \in Connected
        /\ \A i \in DOMAIN m_TCP_PktIn' : m_TCP_PktIn'[i].client \in Connected
        /\ UNCHANGED <<conn, apc, newconn, open, reading, m_sID, m_TCPConnections, raced, Connected>>
    BY <1>1, PopsKeepsQueue
  <1>8. \A d \in Connected : conn[d] = "accepted" /\ m_sID[d] # NoId
    BY DEF Connected
  <1> HIDE DEF c, k
  <1>3. \A j \in DOMAIN m : m[j].conn \in Connected
    BY <1>2 DEF IdInv, Known, AddChaToWorld, NewCharacter
  <1> HIDE DEF m
  <1>4. \A d \in todo' : d \in Connected
    BY <1>1, <1>3
  <1>5. Reached'
    BY <1>1, <1>2, <1>4, <1>8 DEF IdInv, Reached
  <1>6. Known'
    BY <1>1, <1>2, <1>3, <1>4, <1>8 DEF IdInv, Known, Named
  <1>7. Kept'
    BY <1>2 DEF IdInv, Kept
  <1>. QED  BY <1>5, <1>6, <1>7

LEMMA MoveKeepsIds ==
    ASSUME IdInv, OnMovePlayer
    PROVE  Reached' /\ Known' /\ Kept'
  <1> DEFINE k == m_sID[Packet.client]
  <1>1. /\ Pops("MovePlayer") /\ UNCHANGED <<mpc, client, todo, dead>>
        /\ \/ k \in DOMAIN m_chaMap /\ SetPos(k, Packet.pos)
           \/ UNCHANGED <<m_chaMap, first>>
    BY DEF OnMovePlayer, mainVars, worldVars, toldVars
  <1>2. /\ \A i \in DOMAIN m_TCP_PktIn' : m_TCP_PktIn'[i].client \in Connected
        /\ UNCHANGED <<conn, apc, newconn, open, reading, m_sID, m_TCPConnections, raced, Connected>>
    BY <1>1, PopsKeepsQueue
  <1>3. Packet.pos \in Pos
    BY <1>1, PopTypes DEF IdInv
  <1> HIDE DEF k
  <1>4. first' = first /\ \A j \in DOMAIN m_chaMap' : m_chaMap'[j].conn \in Connected
    <2>1. CASE k \in DOMAIN m_chaMap /\ SetPos(k, Packet.pos)
      <3> DEFINE cs == {m_chaMap[j].conn : j \in DOMAIN m_chaMap \ {k}}
      <3>1. Tell(cs, "MovePlayer", [j \in {k} |-> Packet.pos])
        BY <2>1 DEF SetPos, FlagMoveUpdate
      <3>2. \A d \in cs : d \in Conns /\ conn[d] = "accepted"
        BY DEF IdInv, TInv, AsioType, Known, Reached, Connected
      <3> HIDE DEF cs
      <3>3. first' = first
        BY <3>1, <3>2, ToldBefore DEF IdInv
      <3>4. /\ DOMAIN m_chaMap' = DOMAIN m_chaMap
            /\ m_chaMap'[k].conn = m_chaMap[k].conn
            /\ \A j \in DOMAIN m_chaMap \ {k} : m_chaMap'[j] = m_chaMap[j]
        BY <1>3, <2>1, SetPosTypes DEF IdInv
      <3>. QED  BY <3>3, <3>4 DEF IdInv, Known
    <2>2. CASE UNCHANGED <<m_chaMap, first>>
      BY <2>2 DEF IdInv, Known
    <2>. QED  BY <1>1, <2>1, <2>2
  <1>5. Reached' /\ Kept'
    BY <1>1, <1>2, <1>4 DEF IdInv, Reached, Kept
  <1>6. Known'
    BY <1>1, <1>2, <1>4 DEF IdInv, Known, Named
  <1>. QED  BY <1>5, <1>6
-----------------------------------------------------------------------------
(* The handlers of OnPacket *)

\* A handler sends to whom it may and drops closed connections only.
LEMMA HandlerKeepsIds ==
    ASSUME IdInv, NEW pc, pc # "idle", At(pc), UNCHANGED m_TCPConnections,
           client' = client \/ mpc' = "idle",
           todo' \subseteq todo,
           \A c \in dead' : c \in dead \/ (conn[c] = "accepted" /\ c \notin open),
           \A k \in DOMAIN m_chaMap' : k \in DOMAIN m_chaMap /\ m_chaMap'[k] = m_chaMap[k],
           first' = first
    PROVE  Reached' /\ Known' /\ Kept'
  <1>1. UNCHANGED <<conn, apc, newconn, open, reading, m_sID, m_TCP_PktIn, raced, Connected>> /\ mpc # "idle"
    BY DEF At, clientVars, asioVars, Connected
  <1>2. Reached'
    BY <1>1 DEF IdInv, Reached
  <1>3. Known'
    BY <1>1 DEF IdInv, Known, Named
  <1>4. Kept'
    BY <1>1 DEF IdInv, Kept
  <1>. QED  BY <1>2, <1>3, <1>4

LEMMA SendToClientKeepsIds ==
    ASSUME IdInv, NEW c \in Conns, conn[c] = "accepted", NEW cmd, NEW at,
           SendToClient(c, cmd, at)
    PROVE  /\ \A d \in dead' : d \in dead \/ (conn[d] = "accepted" /\ d \notin open)
           /\ \A k \in DOMAIN m_chaMap' : k \in DOMAIN m_chaMap /\ m_chaMap'[k] = m_chaMap[k]
           /\ first' = first
  <1>1. CASE Tell({c}, cmd, at) /\ UNCHANGED <<m_chaMap, dead>>
    BY <1>1, ToldBefore DEF IdInv
  <1>2. CASE c \notin open /\ OnClientDisconnect(c) /\ dead' = {c} /\ UNCHANGED toldVars
    BY <1>2, OnClientDisconnectTypes DEF IdInv, TInv, toldVars
  <1>. QED  BY <1>1, <1>2 DEF SendToClient

\* Who is sent to: the client that is served and those on the loop's list.
LEMMA Recipients ==
    ASSUME IdInv
    PROVE  /\ mpc # "idle" => client \in Conns /\ conn[client] = "accepted"
           /\ \A c \in todo : c \in Conns /\ conn[c] = "accepted"
  BY DEF IdInv, TInv, Places, MainType, Reached, Known, Connected

LEMMA SendPingKeepsIds ==
    ASSUME IdInv, SendPing
    PROVE  Reached' /\ Known' /\ Kept'
  <1>1. /\ At("send") /\ SendToClient(client, "Ping", Nothing) /\ mpc # "idle"
        /\ client' = client \/ mpc' = "idle"
        /\ UNCHANGED <<m_TCPConnections, todo>>
    BY DEF SendPing, At, Return
  <1>2. client \in Conns /\ conn[client] = "accepted"
    BY <1>1, Recipients
  <1>3. /\ \A d \in dead' : d \in dead \/ (conn[d] = "accepted" /\ d \notin open)
        /\ \A k \in DOMAIN m_chaMap' : k \in DOMAIN m_chaMap /\ m_chaMap'[k] = m_chaMap[k]
        /\ first' = first
    BY <1>1, <1>2, SendToClientKeepsIds
  <1>. QED  BY <1>1, <1>3, HandlerKeepsIds

LEMMA NotifyKeepsIds ==
    ASSUME IdInv, NEW c \in Conns, Notify(c)
    PROVE  Reached' /\ Known' /\ Kept'
  <1>1. /\ At("notify") /\ c \in todo /\ todo' \subseteq todo
        /\ SendToClient(c, "PlyEnterWorld", [k \in {pkt.cha} |-> Origin])
        /\ UNCHANGED <<m_TCPConnections, client>>
    BY DEF Notify
  <1>2. conn[c] = "accepted"
    BY <1>1, Recipients
  <1>3. /\ \A d \in dead' : d \in dead \/ (conn[d] = "accepted" /\ d \notin open)
        /\ \A k \in DOMAIN m_chaMap' : k \in DOMAIN m_chaMap /\ m_chaMap'[k] = m_chaMap[k]
        /\ first' = first
    BY <1>1, <1>2, SendToClientKeepsIds
  <1>. QED  BY <1>1, <1>3, HandlerKeepsIds

LEMMA SendWorldKeepsIds ==
    ASSUME IdInv, SendWorld
    PROVE  Reached' /\ Known' /\ Kept'
  <1>1. /\ At("notify") /\ SendToClient(client, "SelfEnterWorld", pkt.at) /\ mpc # "idle"
        /\ client' = client \/ mpc' = "idle"
        /\ UNCHANGED <<m_TCPConnections, todo>>
    BY DEF SendWorld, At, Return
  <1>2. client \in Conns /\ conn[client] = "accepted"
    BY <1>1, Recipients
  <1>3. /\ \A d \in dead' : d \in dead \/ (conn[d] = "accepted" /\ d \notin open)
        /\ \A k \in DOMAIN m_chaMap' : k \in DOMAIN m_chaMap /\ m_chaMap'[k] = m_chaMap[k]
        /\ first' = first
    BY <1>1, <1>2, SendToClientKeepsIds
  <1>. QED  BY <1>1, <1>3, HandlerKeepsIds

LEMMA SendToAllKeepsIds ==
    ASSUME IdInv, NEW c \in Conns, SendToAll(c)
    PROVE  Reached' /\ Known' /\ Kept'
  <1>1. /\ At("all") /\ c \in todo /\ todo' \subseteq todo
        /\ UNCHANGED <<m_TCPConnections, client>>
    BY DEF SendToAll
  <1>2. conn[c] = "accepted"
    BY <1>1, Recipients
  <1>3. /\ \A d \in dead' : d \in dead \/ (conn[d] = "accepted" /\ d \notin open)
        /\ \A k \in DOMAIN m_chaMap' : k \in DOMAIN m_chaMap /\ m_chaMap'[k] = m_chaMap[k]
        /\ first' = first
    <2>1. CASE Tell({c} \ {client}, "ServerMessage", Nothing) /\ UNCHANGED <<m_chaMap, dead>>
      BY <1>2, <2>1, ToldBefore DEF IdInv
    <2>2. CASE c \notin open /\ OnClientDisconnect(c) /\ dead' = dead \union {c} /\ UNCHANGED toldVars
      BY <1>2, <2>2, OnClientDisconnectTypes DEF IdInv, TInv, toldVars
    <2>. QED  BY <2>1, <2>2 DEF SendToAll
  <1>. QED  BY <1>1, <1>3, HandlerKeepsIds

LEMMA SendToAllDoneKeepsIds ==
    ASSUME IdInv, SendToAllDone
    PROVE  Reached' /\ Known' /\ Kept'
  <1>1. /\ At("all") /\ UNCHANGED <<m_TCPConnections, todo, dead, m_chaMap, first>>
        /\ client' = client \/ mpc' = "idle"
    BY DEF SendToAllDone, Return, toldVars
  <1>. QED  BY <1>1, HandlerKeepsIds

\* The erase takes closed connections out: the one being accepted stays last,
\* and open ones stay listed.
LEMMA EraseKeepsIds ==
    ASSUME IdInv, Erase
    PROVE  Reached' /\ Known' /\ Kept'
  <1>1. At("erase") /\ UNCHANGED <<todo, m_chaMap, toldVars>>
    BY Erasing DEF IdInv
  <1>2. CASE Resumed /\ UNCHANGED m_TCPConnections
    <2>1. client' = client \/ mpc' = "idle"
      BY <1>2 DEF Resumed, Return
    <2>2. dead' = {} /\ first' = first
      BY <1>1, <1>2 DEF Resumed, toldVars
    <2>. QED  BY <1>1, <1>2, <2>1, <2>2, HandlerKeepsIds
  <1>3. ASSUME UNCHANGED <<mpc, client, pkt, dead>>,
               NEW i \in DOMAIN m_TCPConnections, m_TCPConnections[i] \in dead,
               Removed(m_TCPConnections', m_TCPConnections, i),
               m_TCPConnections' \in Seq(Conns)
        PROVE  Reached' /\ Known' /\ Kept'
    <2>1. UNCHANGED <<conn, apc, newconn, open, reading, m_sID, m_TCP_PktIn, raced, first, Connected>>
      BY <1>1 DEF At, clientVars, asioVars, toldVars, Connected
    <2> DEFINE n == Len(m_TCPConnections)
    <2>2. /\ n \in Nat /\ DOMAIN m_TCPConnections = 1..n /\ i \in 1..n
          /\ DOMAIN m_TCPConnections' = 1..(n - 1)
      BY <1>3 DEF IdInv, TInv, AsioType, Removed
    <2>3. \A j \in 1..(n - 1) : m_TCPConnections'[j] = IF j < i THEN m_TCPConnections[j]
                                                       ELSE m_TCPConnections[j + 1]
      BY <1>3, <2>2 DEF Removed
    <2>4. Len(m_TCPConnections') = n - 1
      BY <1>3 DEF Removed
    <2> HIDE DEF n
    <2>5. /\ \A j \in DOMAIN m_TCPConnections' :
                \E h \in DOMAIN m_TCPConnections : m_TCPConnections'[j] = m_TCPConnections[h]
          /\ \A h \in DOMAIN m_TCPConnections :
                h # i => \E j \in DOMAIN m_TCPConnections' : m_TCPConnections'[j] = m_TCPConnections[h]
      <3>1. m_TCPConnections \in Seq(Conns)
        BY DEF IdInv, TInv, AsioType
      <3>. QED  BY <1>3, <3>1, OthersAreLeft
    <2>6. \A h \in DOMAIN m_TCPConnections :
              m_TCPConnections[h] \notin dead =>
                  \E j \in DOMAIN m_TCPConnections' : m_TCPConnections'[j] = m_TCPConnections[h]
      BY <1>3, <2>5
    <2>7. Reached'
      BY <1>1, <1>3, <2>1, <2>5 DEF IdInv, Reached
    <2>8. Kept'
      BY <2>1, <2>6 DEF IdInv, Kept, Known
    <2>9. ASSUME NEW c, Named(c)
          PROVE  Named(c)'
      <3>1. CASE m_sID[c] # NoId
        BY <2>1, <3>1 DEF Named
      <3>2. CASE apc = "listed" /\ c = newconn /\ m_TCPConnections[n] = c
        <4>1. c \notin dead
          BY <3>2 DEF IdInv, TInv, Places, Known
        <4>2. n # i
          BY <1>3, <3>2, <4>1
        <4>3. n - 1 \in 1..(n - 1) /\ ~(n - 1 < i) /\ (n - 1) + 1 = n
          BY <2>2, <4>2
        <4>4. m_TCPConnections'[n - 1] = c
          BY <2>3, <3>2, <4>3
        <4>5. m_TCPConnections' # <<>>
          BY <2>2, <4>3
        <4>. QED  BY <2>1, <2>4, <3>2, <4>4, <4>5 DEF Named
      <3>. QED  BY <2>9, <3>1, <3>2 DEF Named, n
    <2>10. \A c \in todo' : Named(c)'
      BY <1>1, <2>9 DEF IdInv, Known
    <2>11. \A j \in DOMAIN m_TCPConnections' : Named(m_TCPConnections[j])'
      BY <2>5, <2>9 DEF IdInv, Known
    <2>12. Known'
      BY <1>1, <1>3, <2>1, <2>10, <2>11 DEF IdInv, Known
    <2>. QED  BY <2>7, <2>8, <2>12
  <1>. QED  BY <1>2, <1>3, Erasing DEF IdInv
-----------------------------------------------------------------------------
LEMMA StutterKeepsIds ==
    ASSUME IdInv, UNCHANGED vars
    PROVE  Reached' /\ Known' /\ Kept'
  <1> USE DEF vars, clientVars, asioVars, sharedVars, mainVars, worldVars, toldVars
  <1>1. Reached' /\ Kept'
    BY DEF IdInv, Reached, Kept
  <1>2. Known'
    BY DEF IdInv, Known, Named, Connected
  <1>. QED  BY <1>1, <1>2

LEMMA InitIds == Init => Reached /\ Known /\ Kept
  <1>. SUFFICES ASSUME Init PROVE Reached /\ Known /\ Kept
    OBVIOUS
  <1>1. Reached
    BY DEF Init, Reached
  <1>2. Known /\ Kept
    BY DEF Init, Known, Kept
  <1>. QED  BY <1>1, <1>2

LEMMA StepKeepsIds ==
    ASSUME IdInv, [Next]_vars
    PROVE  Reached' /\ Known' /\ Kept'
  BY Steps, ClientsKeepIds, OnClientConnectKeepsIds, PushBackKeepsIds,
     ConnectToClientKeepsIds, AcceptEndsKeepsIds, ReceiveKeepsIds, CloseSocketKeepsIds, PingKeepsIds,
     EnterKeepsIds, MoveKeepsIds, SendPingKeepsIds, NotifyKeepsIds, SendWorldKeepsIds,
     SendToAllKeepsIds, SendToAllDoneKeepsIds, EraseKeepsIds, StutterKeepsIds

LEMMA IdInvariant == Spec => []IdInv
  <1>1. Init => Reached /\ Known /\ Kept
    BY InitIds
  <1>2. TInv /\ TInv' /\ Reached /\ Known /\ Kept /\ [Next]_vars => Reached' /\ Known' /\ Kept'
    BY StepKeepsIds DEF IdInv
  <1>. QED  BY <1>1, <1>2, TInvariant, PTL DEF Spec, IdInv

\* OnClientConnect greets before push_back lists: SendToAll and the world, which
\* know a connection from the list or from its packets, always come second.
THEOREM GreetedFirst == Spec => []AcceptFirst
  <1>1. Reached => AcceptFirst
    BY DEF Reached, AcceptFirst
  <1>. QED  BY <1>1, IdInvariant, PTL DEF IdInv

\* GetID() is asked of connections that have been through ConnectToClient, though
\* they are listed before: one that has not is open, and an open one is not asked.
\* The accept handler, which asks whichever is at the back of the deque, finds none
\* without an id there: the one it serves stays last until it has its own.
THEOREM IdsAreKnown == Spec => []IdKnownWhenUsed
  <1>1. ASSUME IdInv PROVE IdKnownWhenUsed
    <2>1. \A i \in DOMAIN m_TCP_PktIn : m_sID[m_TCP_PktIn[i].client] # NoId
      BY <1>1 DEF IdInv, Known, Connected
    <2>2. \A c \in Listed : Named(c)
      BY <1>1 DEF Listed, IdInv, Known
    <2>3. ASSUME NEW c \in Listed \union todo \union InWorld, c \notin open
          PROVE  m_sID[c] # NoId
      <3>1. ASSUME Named(c) PROVE m_sID[c] # NoId
        BY <1>1, <2>3, <3>1 DEF Named, IdInv, TInv, Places
      <3>2. CASE c \in Listed
        BY <2>2, <3>1, <3>2
      <3>3. CASE c \in todo
        BY <1>1, <3>1, <3>3 DEF IdInv, Known
      <3>4. CASE c \in InWorld
        <4>1. PICK k \in DOMAIN m_chaMap : c = m_chaMap[k].conn
          BY <3>4 DEF InWorld
        <4>. QED  BY <1>1, <4>1 DEF IdInv, Known, Connected
      <3>. QED  BY <2>3, <3>2, <3>3, <3>4
    <2>4. ASSUME apc = "served" PROVE \A c \in Listed : m_sID[c] # NoId
      BY <2>2, <2>4 DEF Named
    <2>. QED  BY <2>1, <2>3, <2>4 DEF IdKnownWhenUsed
  <1>. QED  BY <1>1, IdInvariant, PTL

\* The list owns every open connection the accept handler has let go of: the
\* erase takes only closed ones out, and only a lost push_back leaves one out.
THEOREM NoOpenOrphan == Spec => []OpenIsOwned
  <1>1. ASSUME IdInv PROVE OpenIsOwned
    <2>. SUFFICES ASSUME NEW c \in open, ~raced PROVE Owned(c)
      BY DEF OpenIsOwned
    <2>1. c \notin dead
      BY <1>1 DEF IdInv, Known
    <2>2. CASE apc = "greeted" /\ newconn = c
      BY <2>2 DEF Owned
    <2>3. CASE \E i \in DOMAIN m_TCPConnections : m_TCPConnections[i] = c
      BY <2>1, <2>3 DEF Owned, Listed
    <2>. QED  BY <1>1, <2>2, <2>3 DEF IdInv, Kept
  <1>. QED  BY <1>1, IdInvariant, PTL
=============================================================================
