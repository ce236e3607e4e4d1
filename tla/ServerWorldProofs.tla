-------------------------- MODULE ServerWorldProofs --------------------------
(***************************************************************************)
(* Proofs about Server, concluded: the world.  Where ids fit in 16 bits    *)
(* and the threads did not meet in m_TCPConnections (Sane), a character is *)
(* filed under its client's id, its client is listed between packets, and  *)
(* every client knows where the other characters are.                      *)
(***************************************************************************)
EXTENDS ServerIdProofs

\* Only an accepted connection has an id, and not before ConnectToClient.
Fresh ==
    /\ \A c \in Conns : m_sID[c] # NoId => conn[c] = "accepted"
    /\ apc \in {"greeted", "listed"} => m_sID[newconn] = NoId

\* There is somebody to erase only in the loops that look for closed ones, and a
\* packet in preparation only while the notifylist is gone through.
Between ==
    /\ mpc \notin {"all", "erase"} => dead = {}
    /\ pkt # NoPkt => mpc \in {"notify", "erase"}

\* A character is found under the id of its connection.
Filed == Sane => \A k \in DOMAIN m_chaMap : m_sID[m_chaMap[k].conn] = k

Has(s, c) == \E i \in DOMAIN s : s[i] = c

\* A character's connection is listed and stays so, or the loop at hand will
\* find it closed.
Homed ==
    Sane => \A k \in DOMAIN m_chaMap :
                /\ m_chaMap[k].conn \notin dead
                /\ Has(m_TCPConnections, m_chaMap[k].conn) \/ (pkt # NoPkt /\ m_chaMap[k].conn \in todo)

\* The packet in preparation shows the world as it is.
Prepared ==
    pkt # NoPkt =>
        /\ \A k \in DOMAIN m_chaMap : k \in DOMAIN pkt.at /\ pkt.at[k] = m_chaMap[k].pos
        /\ pkt.cha \in DOMAIN m_chaMap =>
               m_chaMap[pkt.cha].pos = Origin \/ pkt.cha \in reentered

\* Client c knows where character k is, or was told that it is back.
Agrees(c, k) == \/ view[c][k] = m_chaMap[k].pos
                \/ k \in reentered /\ view[c][k] = Origin

\* Those who do not know yet: the clients that wait for PlyEnterWorld, and the
\* entering one.
Shown ==
    Sane => \A j, k \in DOMAIN m_chaMap :
                j # k => \/ Agrees(m_chaMap[j].conn, k)
                         \/ /\ pkt # NoPkt
                            /\ \/ k = pkt.cha /\ m_chaMap[j].conn \in todo
                               \/ m_chaMap[j].conn = client

WInv == IdInv /\ Fresh /\ Between /\ Filed /\ Homed /\ Prepared /\ Shown
-----------------------------------------------------------------------------
(* Ids *)

\* Without a lost push_back, back() is the connection being accepted.
LEMMA LastIsNew ==
    ASSUME IdInv, Fresh, apc = "listed", ~raced
    PROVE  /\ m_TCPConnections # <<>>
           /\ m_TCPConnections[Len(m_TCPConnections)] = newconn
           /\ newconn \in open /\ newconn \in Conns
  <1>1. newconn \in open /\ newconn \in Conns
    BY DEF IdInv, TInv, Places, AsioType
  <1>2. PICK i \in DOMAIN m_TCPConnections : m_TCPConnections[i] = newconn
    BY <1>1 DEF IdInv, Kept
  <1>3. Named(newconn)
    BY <1>2 DEF IdInv, Known
  <1>. QED  BY <1>1, <1>3 DEF Named, Fresh

\* What the steps other than ConnectToClient leave of the ids.
IdsStay == UNCHANGED m_sID /\ (raced => raced')

LEMMA OthersKeepIds ==
    ASSUME [Next]_vars, ~ConnectToClient
    PROVE  IdsStay
  <1> USE DEF IdsStay, vars, clientVars, asioVars, sharedVars, mainVars, worldVars, toldVars
  <1>1. ASSUME NEW c \in Conns,
               \/ ClientConnects(c) \/ ClientGone(c) \/ AcceptThrows(c)
               \/ OnClientConnect(c) \/ CloseSocket(c) \/ LateHandler(c)
               \/ Notify(c) \/ SendToAll(c)
        PROVE  IdsStay
    BY <1>1 DEF ClientConnects, ClientGone, AcceptThrows, OnClientConnect, CloseSocket,
                LateHandler, Notify, SendToAll, At
  <1>2. ASSUME NEW c \in Conns, NEW cmd \in Cmds, NEW p \in Pos, Receive(c, cmd, p)
        PROVE  IdsStay
    BY <1>2 DEF Receive
  <1>3. ASSUME OnPing \/ OnMessageAll \/ OnSelfEnterWorld \/ OnMovePlayer
        PROVE  IdsStay
    BY <1>3 DEF OnPing, OnMessageAll, OnSelfEnterWorld, OnMovePlayer, Pops
  <1>4. ASSUME SendPing \/ SendWorld \/ SendToAllDone \/ Erase
        PROVE  IdsStay
    BY <1>4 DEF SendPing, SendWorld, SendToAllDone, Erase, At
  <1>5. ASSUME PushBack \/ Approved \/ CrashOnBack PROVE IdsStay
    BY <1>5 DEF PushBack, Approved, CrashOnBack, UseBack
  <1>6. ASSUME UNCHANGED vars PROVE IdsStay
    BY <1>6
  <1>. QED  BY <1>1, <1>2, <1>3, <1>4, <1>5, <1>6, Steps

\* ConnectToClient gives an id to nobody who has one, unless threads have met.
LEMMA ConnectingIds ==
    ASSUME IdInv, Fresh, ConnectToClient
    PROVE  /\ raced => raced'
           /\ ~raced => /\ m_sID[newconn] = NoId /\ newconn \in Conns
                        /\ m_sID' = [m_sID EXCEPT ![newconn] = m_IDCnt]
  <1>1. (raced => raced') /\ apc = "listed"
    BY DEF ConnectToClient, UseBack
  <1>2. ASSUME ~raced
        PROVE  m_sID' = [m_sID EXCEPT ![newconn] = m_IDCnt]
    BY <1>1, <1>2, LastIsNew DEF ConnectToClient, Back
  <1>3. m_sID[newconn] = NoId /\ newconn \in Conns
    BY <1>1 DEF Fresh, IdInv, TInv, Places, AsioType
  <1>. QED  BY <1>1, <1>2, <1>3

LEMMA SaneBefore ==
    ASSUME IdInv, Fresh, [Next]_vars, Sane'
    PROVE  Sane
  <1>1. CASE ~ConnectToClient
    BY <1>1, OthersKeepIds DEF IdsStay, Sane
  <1>2. CASE ConnectToClient
    <2>1. ~raced
      BY <1>2, ConnectingIds DEF Sane
    <2>2. /\ m_sID[newconn] = NoId /\ newconn \in Conns
          /\ m_sID' = [m_sID EXCEPT ![newconn] = m_IDCnt]
      BY <1>2, <2>1, ConnectingIds
    <2>3. \A c \in Conns : c # newconn => m_sID'[c] = m_sID[c]
      BY <2>2 DEF IdInv, TInv, AsioType
    <2>. QED  BY <2>1, <2>2, <2>3 DEF Sane
  <1>. QED  BY <1>1, <1>2

LEMMA FreshStays ==
    ASSUME IdInv, Fresh, [Next]_vars
    PROVE  Fresh'
  <1>1. CASE ConnectToClient
    <2>1. apc' = "served" /\ UNCHANGED conn
      BY <1>1 DEF ConnectToClient, UseBack, clientVars
    <2>2. \A c \in Conns : m_sID'[c] # m_sID[c] => conn[c] = "accepted"
      <3>1. Len(m_TCPConnections) \in DOMAIN m_TCPConnections
        BY <1>1, EmptySeq DEF ConnectToClient, BackIsThere, IdInv, TInv, AsioType
      <3>2. conn[Back] = "accepted"
        BY <3>1 DEF IdInv, Reached, Back
      <3>3. m_sID' = IF Back \in open THEN [m_sID EXCEPT ![Back] = m_IDCnt] ELSE m_sID
        BY <1>1 DEF ConnectToClient
      <3> HIDE DEF Back
      <3>. QED  BY <3>2, <3>3 DEF IdInv, TInv, AsioType
    <2>. QED  BY <2>1, <2>2 DEF Fresh
  <1>2. CASE ~ConnectToClient
    <2>1. UNCHANGED m_sID
      BY <1>2, OthersKeepIds DEF IdsStay
    <2>2. ASSUME NEW c \in Conns, OnClientConnect(c) \/ ClientConnects(c)
          PROVE  Fresh'
      <3>1. CASE OnClientConnect(c)
        <4>1. /\ conn[c] = "backlog" /\ conn' = [conn EXCEPT ![c] = "accepted"]
              /\ newconn' = c
          BY <3>1 DEF OnClientConnect
        <4>. QED  BY <2>1, <4>1 DEF Fresh, IdInv, TInv, AsioType
      <3>2. CASE ClientConnects(c)
        <4>1. /\ conn[c] = "unused" /\ conn' = [conn EXCEPT ![c] = "backlog"]
              /\ UNCHANGED <<apc, newconn>>
          BY <3>2 DEF ClientConnects, asioVars
        <4>. QED  BY <2>1, <4>1 DEF Fresh, IdInv, TInv, AsioType
      <3>. QED  BY <2>2, <3>1, <3>2
    <2> DEFINE Quiet == /\ UNCHANGED conn
                        /\ \/ UNCHANGED <<apc, newconn>>
                           \/ apc = "greeted" /\ UNCHANGED newconn
                           \/ apc' = "idle"
    <2>3. ASSUME Quiet
          PROVE  Fresh'
      BY <2>1, <2>3 DEF Fresh
    <2>4. Quiet \/ \E c \in Conns : OnClientConnect(c) \/ ClientConnects(c)
      <3> USE DEF vars, clientVars, asioVars, sharedVars
      <3>1. ASSUME NEW c \in Conns,
                   \/ ClientGone(c) \/ AcceptThrows(c) \/ CloseSocket(c) \/ LateHandler(c)
                   \/ Notify(c) \/ SendToAll(c)
            PROVE  UNCHANGED <<conn, newconn, apc>>
        BY <3>1 DEF ClientGone, AcceptThrows, CloseSocket, LateHandler, Notify, SendToAll, At
      <3>2. ASSUME NEW c \in Conns, NEW cmd \in Cmds, NEW p \in Pos, Receive(c, cmd, p)
            PROVE  UNCHANGED <<conn, newconn, apc>>
        BY <3>2 DEF Receive
      <3>3. ASSUME \/ OnPing \/ OnMessageAll \/ OnSelfEnterWorld \/ OnMovePlayer
                   \/ SendPing \/ SendWorld \/ SendToAllDone \/ Erase \/ UNCHANGED vars
            PROVE  UNCHANGED <<conn, newconn, apc>>
        BY <3>3 DEF OnPing, OnMessageAll, OnSelfEnterWorld, OnMovePlayer, Pops,
                    SendPing, SendWorld, SendToAllDone, Erase, At
      <3>4. ASSUME PushBack PROVE UNCHANGED <<conn, newconn>> /\ apc = "greeted"
        BY <3>4 DEF PushBack
      <3>5. ASSUME Approved \/ CrashOnBack PROVE Quiet
        BY <3>5 DEF Approved, CrashOnBack, UseBack
      <3>. QED  BY <1>2, <3>1, <3>2, <3>3, <3>4, <3>5, Steps
    <2>. QED  BY <2>2, <2>3, <2>4
  <1>. QED  BY <1>1, <1>2
-----------------------------------------------------------------------------
(* The world, beside the steps of clients and of the ASIO thread *)

\* A character's connection is not the one that is being accepted.
LEMMA WorldIsOld ==
    ASSUME IdInv, Fresh, NEW k \in DOMAIN m_chaMap
    PROVE  /\ m_chaMap[k].conn \in Conns /\ m_sID[m_chaMap[k].conn] # NoId
           /\ apc \in {"greeted", "listed"} => m_chaMap[k].conn # newconn
  BY DEF IdInv, TInv, MainType, Known, Connected, Fresh

\* So it is listed while it is open.
LEMMA OpenIsListed ==
    ASSUME IdInv, Fresh, Sane, NEW k \in DOMAIN m_chaMap, m_chaMap[k].conn \in open
    PROVE  Has(m_TCPConnections, m_chaMap[k].conn)
  <1>1. apc = "greeted" => m_chaMap[k].conn # newconn
    BY WorldIsOld
  <1>. QED  BY <1>1 DEF IdInv, Kept, Sane, Has

LEMMA AsioKeepsWorld ==
    ASSUME WInv, Sane' => Sane,
           UNCHANGED <<mpc, client, pkt, todo, dead, m_chaMap, reentered>>,
           \A c \in Conns, k \in ChaIds : view'[c][k] = view[c][k],
           \A k \in DOMAIN m_chaMap : m_sID'[m_chaMap[k].conn] = m_sID[m_chaMap[k].conn],
           Sane' => \A c : Has(m_TCPConnections, c) => Has(m_TCPConnections', c)
    PROVE  Between' /\ Filed' /\ Homed' /\ Prepared' /\ Shown'
  <1>1. Between' /\ Prepared'
    BY DEF WInv, Between, Prepared
  <1>2. Filed'
    BY DEF WInv, Filed
  <1>3. Homed'
    <2>. SUFFICES ASSUME Sane', NEW k \in DOMAIN m_chaMap
                  PROVE  /\ m_chaMap[k].conn \notin dead
                         /\ \/ Has(m_TCPConnections', m_chaMap[k].conn)
                            \/ pkt # NoPkt /\ m_chaMap[k].conn \in todo
      BY DEF Homed
    <2>1. /\ m_chaMap[k].conn \notin dead
          /\ Has(m_TCPConnections, m_chaMap[k].conn) \/ (pkt # NoPkt /\ m_chaMap[k].conn \in todo)
      BY DEF WInv, Homed
    <2>. QED  BY <2>1
  <1>4. Shown'
    <2>. SUFFICES ASSUME Sane', NEW j \in DOMAIN m_chaMap, NEW k \in DOMAIN m_chaMap, j # k
                  PROVE  \/ view'[m_chaMap[j].conn][k] = m_chaMap[k].pos
                         \/ k \in reentered /\ view'[m_chaMap[j].conn][k] = Origin
                         \/ /\ pkt # NoPkt
                            /\ \/ k = pkt.cha /\ m_chaMap[j].conn \in todo
                               \/ m_chaMap[j].conn = client
      BY DEF Shown, Agrees
    <2>1. m_chaMap[j].conn \in Conns /\ k \in ChaIds
      BY DEF WInv, IdInv, TInv, MainType
    <2>2. view'[m_chaMap[j].conn][k] = view[m_chaMap[j].conn][k]
      BY <2>1
    <2>. QED  BY <2>2 DEF WInv, Shown, Agrees
  <1>. QED  BY <1>1, <1>2, <1>3, <1>4

LEMMA ClientsKeepWorld ==
    ASSUME WInv, Sane' => Sane, NEW c \in Conns,
           \/ ClientConnects(c) \/ ClientGone(c) \/ AcceptThrows(c)
           \/ CloseSocket(c) \/ LateHandler(c)
           \/ \E cmd \in Cmds, p \in Pos : Receive(c, cmd, p)
    PROVE  Between' /\ Filed' /\ Homed' /\ Prepared' /\ Shown'
  <1>1. UNCHANGED <<mpc, client, pkt, todo, dead, m_chaMap, reentered, view, m_sID, m_TCPConnections>>
    BY DEF ClientConnects, ClientGone, AcceptThrows, CloseSocket, LateHandler, Receive,
           asioVars, sharedVars, mainVars, worldVars, toldVars
  <1>2. \A d : Has(m_TCPConnections, d) => Has(m_TCPConnections', d)
    BY <1>1 DEF Has
  <1>. QED  BY <1>1, <1>2, AsioKeepsWorld

LEMMA OnClientConnectKeepsWorld ==
    ASSUME WInv, Sane' => Sane, NEW c \in Conns, OnClientConnect(c)
    PROVE  Between' /\ Filed' /\ Homed' /\ Prepared' /\ Shown'
  <1>1. UNCHANGED <<mpc, client, pkt, todo, dead, m_chaMap, reentered, m_sID, m_TCPConnections>>
    BY DEF OnClientConnect, sharedVars, mainVars, worldVars
  <1>2. \A d : Has(m_TCPConnections, d) => Has(m_TCPConnections', d)
    BY <1>1 DEF Has
  <1>3. \A d \in Conns, k \in ChaIds : view'[d][k] = view[d][k]
    BY DEF OnClientConnect, Tell, Nothing
  <1>. QED  BY <1>1, <1>2, <1>3, AsioKeepsWorld

LEMMA PushBackKeepsWorld ==
    ASSUME WInv, Sane' => Sane, PushBack
    PROVE  Between' /\ Filed' /\ Homed' /\ Prepared' /\ Shown'
  <1>1. UNCHANGED <<mpc, client, pkt, todo, dead, m_chaMap, reentered, view, m_sID>>
    BY DEF PushBack, mainVars, worldVars, toldVars
  <1>2. Sane' => m_TCPConnections' = Append(m_TCPConnections, newconn)
    BY DEF PushBack, Sane
  <1>3. Sane' => \A d : Has(m_TCPConnections, d) => Has(m_TCPConnections', d)
    <2>1. m_TCPConnections \in Seq(Conns) /\ newconn \in Conns
      BY DEF WInv, IdInv, TInv, Places, AsioType, PushBack
    <2>. QED  BY <1>2, <2>1 DEF Has
  <1>. QED  BY <1>1, <1>3, AsioKeepsWorld

LEMMA ConnectToClientKeepsWorld ==
    ASSUME WInv, Sane' => Sane, ConnectToClient
    PROVE  Between' /\ Filed' /\ Homed' /\ Prepared' /\ Shown'
  <1>1. /\ UNCHANGED <<mpc, client, pkt, todo, dead, m_chaMap, reentered, view, m_TCPConnections>>
        /\ apc = "listed"
    BY DEF ConnectToClient, UseBack, mainVars, worldVars, toldVars
  <1>2. \A d : Has(m_TCPConnections, d) => Has(m_TCPConnections', d)
    BY <1>1 DEF Has
  <1>3. Between' /\ Prepared'
    BY <1>1 DEF WInv, Between, Prepared
  <1>4. CASE ~raced
    <2>1. m_sID' = [m_sID EXCEPT ![newconn] = m_IDCnt]
      BY <1>4, ConnectingIds DEF WInv
    <2>2. \A k \in DOMAIN m_chaMap : m_sID'[m_chaMap[k].conn] = m_sID[m_chaMap[k].conn]
      BY <1>1, <2>1, WorldIsOld DEF WInv, IdInv, TInv, AsioType
    <2>. QED  BY <1>1, <1>2, <2>2, AsioKeepsWorld
  <1>5. CASE raced
    <2>1. ~Sane'
      BY <1>5, ConnectingIds DEF WInv, Sane
    <2>. QED  BY <1>3, <2>1 DEF Filed, Homed, Shown
  <1>. QED  BY <1>4, <1>5
LEMMA AcceptEndsKeepsWorld ==
    ASSUME WInv, Sane' => Sane, Approved \/ CrashOnBack
    PROVE  Between' /\ Filed' /\ Homed' /\ Prepared' /\ Shown'
  <1>1. UNCHANGED <<mpc, client, pkt, todo, dead, m_chaMap, reentered, view, m_sID, m_TCPConnections>>
    BY DEF Approved, CrashOnBack, UseBack, mainVars, worldVars, toldVars
  <1>2. \A d : Has(m_TCPConnections, d) => Has(m_TCPConnections', d)
    BY <1>1 DEF Has
  <1>. QED  BY <1>1, <1>2, AsioKeepsWorld
-----------------------------------------------------------------------------
(* The world, when a packet is popped *)

LEMMA Popped ==
    ASSUME WInv, NEW cmd, Pops(cmd)
    PROVE  /\ pkt = NoPkt /\ dead = {} /\ UNCHANGED <<m_sID, m_TCPConnections>>
           /\ Packet.client \in Conns /\ Packet.pos \in Pos
           /\ m_sID[Packet.client] # NoId
  <1>1. /\ Packet.client \in Connected /\ Packet.client \in Conns
        /\ UNCHANGED <<m_sID, m_TCPConnections>>
    BY PopsKeepsQueue DEF WInv
  <1>2. Packet.pos \in Pos
    BY PopTypes DEF WInv, IdInv
  <1>3. pkt = NoPkt /\ dead = {}
    BY DEF WInv, Between, Pops
  <1>. QED  BY <1>1, <1>2, <1>3 DEF Connected

LEMMA PingKeepsWorld ==
    ASSUME WInv, Sane' => Sane, OnPing \/ OnMessageAll
    PROVE  Between' /\ Filed' /\ Homed' /\ Prepared' /\ Shown'
  <1>1. PICK cmd \in {"Ping", "MessageAll"} : Pops(cmd)
    BY DEF OnPing, OnMessageAll
  <1>2. pkt = NoPkt /\ dead = {} /\ UNCHANGED <<m_sID, m_TCPConnections>>
    BY <1>1, Popped
  <1>3. UNCHANGED <<pkt, dead, m_chaMap, reentered, view>>
    BY DEF OnPing, OnMessageAll, worldVars, toldVars
  <1>4. Between' /\ Prepared' /\ Filed'
    BY <1>2, <1>3 DEF WInv, Between, Prepared, Filed
  <1>5. Homed'
    BY <1>2, <1>3 DEF WInv, Homed
  <1>6. Shown'
    BY <1>2, <1>3 DEF WInv, Shown, Agrees
  <1>. QED  BY <1>4, <1>5, <1>6

\* A number below the modulus is its own remainder.
LEMMA SmallMod ==
    ASSUME NEW n \in Nat, n < ChaMod
    PROVE  n % ChaMod = n
  BY WidthAssumption

LEMMA EnterKeepsWorld ==
    ASSUME WInv, Sane' => Sane, OnSelfEnterWorld
    PROVE  Between' /\ Filed' /\ Homed' /\ Prepared' /\ Shown'
  <1> DEFINE c == Packet.client
             k0 == ChaId(c)
             m == AddChaToWorld(m_chaMap, k0, NewCharacter(c))
  <1>1. /\ Pops("SelfEnterWorld")
        /\ m_chaMap' = m
        /\ reentered' = IF k0 \in DOMAIN m_chaMap THEN reentered \union {k0} ELSE reentered
        /\ mpc' = "notify" /\ client' = c
        /\ pkt' = [cha |-> k0, at |-> Positions(m)]
        /\ todo' = {m[j].conn : j \in DOMAIN m}
        /\ UNCHANGED <<dead, view>>
    BY DEF OnSelfEnterWorld, toldVars
  <1>2. /\ pkt = NoPkt /\ dead = {} /\ UNCHANGED <<m_sID, m_TCPConnections>>
        /\ c \in Conns /\ m_sID[c] # NoId
    BY <1>1, Popped
  <1>3. k0 \in ChaIds
    BY <1>2, ChaIdType DEF WInv, IdInv
  <1>4. Sane => k0 = m_sID[c]
    <2>1. m_sID[c] \in Nat
      BY <1>2 DEF WInv, IdInv, TInv, AsioType
    <2>. QED  BY <1>2, <2>1, SmallMod DEF Sane, ChaId
  <1> HIDE DEF c, k0
  <1>5. /\ DOMAIN m = DOMAIN m_chaMap \union {k0}
        /\ \A j \in DOMAIN m_chaMap : m[j] = m_chaMap[j]
        /\ k0 \notin DOMAIN m_chaMap => m[k0].conn = c /\ m[k0].pos = Origin
    BY DEF AddChaToWorld, NewCharacter
  <1>6. DOMAIN Positions(m) = DOMAIN m /\ \A j \in DOMAIN m : Positions(m)[j] = m[j].pos
    BY DEF Positions
  <1> HIDE DEF m
  <1>7. pkt' # NoPkt /\ pkt'.cha = k0 /\ pkt'.at = Positions(m)
    <2>1. ChaMod \notin ChaIds
      BY WidthAssumption DEF ChaIds
    <2>2. pkt'.cha = k0 /\ NoPkt.cha = ChaMod
      BY <1>1 DEF NoPkt
    <2>. QED  BY <1>1, <1>3, <2>1, <2>2
  <1>8. Between'
    BY <1>1, <1>2 DEF Between
  <1>9. Prepared'
    BY <1>1, <1>5, <1>6, <1>7 DEF Prepared
  <1>10. Filed'
    BY <1>1, <1>2, <1>4, <1>5 DEF WInv, Filed
  <1>11. \A j \in DOMAIN m : m[j].conn \in todo'
    BY <1>1
  <1>12. Homed'
    BY <1>1, <1>2, <1>7, <1>11 DEF Homed
  <1>13. Shown'
    <2>. SUFFICES ASSUME Sane', NEW j \in DOMAIN m, NEW k \in DOMAIN m, j # k
                  PROVE  \/ view[m[j].conn][k] = m[k].pos
                         \/ k \in reentered' /\ view[m[j].conn][k] = Origin
                         \/ k = k0 \/ m[j].conn = c
      BY <1>1, <1>7, <1>11 DEF Shown, Agrees
    <2>1. CASE k = k0 \/ (j = k0 /\ k0 \notin DOMAIN m_chaMap)
      BY <1>5, <2>1
    <2>2. CASE j \in DOMAIN m_chaMap /\ k \in DOMAIN m_chaMap
      <3>1. Agrees(m_chaMap[j].conn, k)
        BY <1>2, <2>2 DEF WInv, Shown
      <3>. QED  BY <1>1, <1>5, <2>2, <3>1 DEF Agrees
    <2>. QED  BY <1>5, <2>1, <2>2
  <1>. QED  BY <1>8, <1>9, <1>10, <1>12, <1>13

LEMMA MoveKeepsWorld ==
    ASSUME WInv, Sane' => Sane, OnMovePlayer
    PROVE  Between' /\ Filed' /\ Homed' /\ Prepared' /\ Shown'
  <1> DEFINE k0 == m_sID[Packet.client]
             p == Packet.pos
  <1>1. /\ Pops("MovePlayer") /\ UNCHANGED <<mpc, client, pkt, todo, dead>>
        /\ \/ k0 \in DOMAIN m_chaMap /\ SetPos(k0, p)
           \/ UNCHANGED <<m_chaMap, reentered, view>>
    BY DEF OnMovePlayer, mainVars, worldVars, toldVars
  <1>2. pkt = NoPkt /\ p \in Pos /\ UNCHANGED <<m_sID, m_TCPConnections>>
    BY <1>1, Popped
  <1> HIDE DEF k0, p
  <1>3. CASE UNCHANGED <<m_chaMap, reentered, view>>
    <2>1. Between' /\ Prepared' /\ Filed' /\ Homed'
      BY <1>1, <1>2, <1>3 DEF WInv, Between, Prepared, Filed, Homed
    <2>2. Shown'
      BY <1>1, <1>2, <1>3 DEF WInv, Shown, Agrees
    <2>. QED  BY <2>1, <2>2
  <1>4. CASE k0 \in DOMAIN m_chaMap /\ SetPos(k0, p)
    <2>1. /\ DOMAIN m_chaMap' = DOMAIN m_chaMap
          /\ m_chaMap'[k0].pos = p /\ m_chaMap'[k0].conn = m_chaMap[k0].conn
          /\ \A j \in DOMAIN m_chaMap \ {k0} : m_chaMap'[j] = m_chaMap[j]
      BY <1>2, <1>4, SetPosTypes DEF WInv, IdInv
    <2>2. \A j \in DOMAIN m_chaMap : m_chaMap'[j].conn = m_chaMap[j].conn
      BY <2>1
    <2>3. Between' /\ Prepared' /\ Filed' /\ Homed'
      BY <1>1, <1>2, <2>1, <2>2 DEF WInv, Between, Prepared, Filed, Homed
    <2> DEFINE cs == {m_chaMap[j].conn : j \in DOMAIN m_chaMap \ {k0}}
    <2>4. /\ Tell(cs, "MovePlayer", [j \in {k0} |-> p])
          /\ reentered' = reentered \ {k0}
      BY <1>4 DEF SetPos, FlagMoveUpdate
    <2>5. \A j \in DOMAIN m_chaMap \ {k0} : m_chaMap[j].conn \in cs
      OBVIOUS
    <2> HIDE DEF cs
    <2>6. \A d \in Conns, k \in ChaIds :
              view'[d][k] = IF d \in cs /\ k = k0 THEN p ELSE view[d][k]
      BY <2>4 DEF Tell
    <2>7. Shown'
      <3>. SUFFICES ASSUME Sane', NEW j \in DOMAIN m_chaMap, NEW k \in DOMAIN m_chaMap, j # k
                    PROVE  \/ view'[m_chaMap[j].conn][k] = m_chaMap'[k].pos
                           \/ k \in reentered' /\ view'[m_chaMap[j].conn][k] = Origin
        BY <2>1, <2>2 DEF Shown, Agrees
      <3>1. m_chaMap[j].conn \in Conns /\ k \in ChaIds
        BY DEF WInv, IdInv, TInv, MainType
      <3>2. CASE k = k0
        BY <2>1, <2>5, <2>6, <3>1, <3>2
      <3>3. CASE k # k0
        <4>1. Agrees(m_chaMap[j].conn, k)
          BY <1>2 DEF WInv, Shown
        <4>2. view'[m_chaMap[j].conn][k] = view[m_chaMap[j].conn][k]
          BY <2>6, <3>1, <3>3
        <4>. QED  BY <2>1, <2>4, <3>3, <4>1, <4>2 DEF Agrees
      <3>. QED  BY <3>2, <3>3
    <2>. QED  BY <2>3, <2>7
  <1>. QED  BY <1>1, <1>3, <1>4
-----------------------------------------------------------------------------
(* The world, in the handlers of OnPacket *)

\* OnClientDisconnect takes all a connection has in the world.
LEMMA Leaves ==
    ASSUME WInv, NEW c \in Conns, OnClientDisconnect(c)
    PROVE  \A k \in DOMAIN m_chaMap' : /\ k \in DOMAIN m_chaMap /\ m_chaMap'[k] = m_chaMap[k]
                                       /\ Sane => m_chaMap'[k].conn # c
  <1>1. /\ DOMAIN m_chaMap' = DOMAIN m_chaMap \ {m_sID[c]}
        /\ \A k \in DOMAIN m_chaMap' : m_chaMap'[k] = m_chaMap[k]
    BY OnClientDisconnectTypes DEF WInv, IdInv, TInv
  <1>. QED  BY <1>1 DEF WInv, Filed

\* A step that tells nobody anything new: some characters may go, and what was
\* to be told is told no less.
LEMMA HandlerKeepsWorld ==
    ASSUME WInv, Sane' => Sane, NEW pc, At(pc),
           \A c : Has(m_TCPConnections, c) /\ c \notin dead => Has(m_TCPConnections', c),
           \A k \in DOMAIN m_chaMap' : k \in DOMAIN m_chaMap /\ m_chaMap'[k] = m_chaMap[k],
           \A c \in Conns, k \in ChaIds : view'[c][k] = view[c][k],
           Sane' => \A k \in DOMAIN m_chaMap' : m_chaMap'[k].conn \notin dead',
           mpc' \notin {"all", "erase"} => dead' = {},
           pkt' # NoPkt => pkt' = pkt /\ mpc' \in {"notify", "erase"} /\ client' = client,
           pkt # NoPkt /\ Sane' =>
               \A k \in DOMAIN m_chaMap' :
                   IF pkt' # NoPkt THEN m_chaMap'[k].conn \in todo => m_chaMap'[k].conn \in todo'
                   ELSE m_chaMap'[k].conn \notin todo /\ m_chaMap'[k].conn # client
    PROVE  Between' /\ Filed' /\ Homed' /\ Prepared' /\ Shown'
  <1>1. UNCHANGED <<m_sID, reentered>>
    BY DEF At, asioVars
  <1>2. Between'
    BY DEF Between
  <1>3. Filed'
    BY <1>1 DEF WInv, Filed
  <1>4. Prepared'
    BY <1>1 DEF WInv, Prepared
  <1>5. Homed'
    <2>. SUFFICES ASSUME Sane', NEW k \in DOMAIN m_chaMap'
                  PROVE  /\ m_chaMap'[k].conn \notin dead'
                         /\ \/ Has(m_TCPConnections', m_chaMap'[k].conn)
                            \/ pkt' # NoPkt /\ m_chaMap'[k].conn \in todo'
      BY DEF Homed
    <2>1. m_chaMap'[k].conn \notin dead'
      OBVIOUS
    <2>2. k \in DOMAIN m_chaMap /\ m_chaMap'[k] = m_chaMap[k] /\ Sane
      OBVIOUS
    <2>3. /\ m_chaMap[k].conn \notin dead
          /\ Has(m_TCPConnections, m_chaMap[k].conn) \/ (pkt # NoPkt /\ m_chaMap[k].conn \in todo)
      BY <2>2 DEF WInv, Homed
    <2>4. CASE Has(m_TCPConnections, m_chaMap[k].conn)
      BY <2>1, <2>2, <2>3, <2>4
    <2>5. CASE pkt # NoPkt /\ m_chaMap[k].conn \in todo
      BY <2>1, <2>2, <2>5
    <2>. QED  BY <2>3, <2>4, <2>5
  <1>6. Shown'
    <2>. SUFFICES ASSUME Sane', NEW j \in DOMAIN m_chaMap', NEW k \in DOMAIN m_chaMap', j # k
                  PROVE  \/ view'[m_chaMap'[j].conn][k] = m_chaMap'[k].pos
                         \/ k \in reentered' /\ view'[m_chaMap'[j].conn][k] = Origin
                         \/ /\ pkt' # NoPkt
                            /\ \/ k = pkt'.cha /\ m_chaMap'[j].conn \in todo'
                               \/ m_chaMap'[j].conn = client'
      BY DEF Shown, Agrees
    <2>1. /\ j \in DOMAIN m_chaMap /\ m_chaMap'[j] = m_chaMap[j]
          /\ k \in DOMAIN m_chaMap /\ m_chaMap'[k] = m_chaMap[k] /\ Sane
      OBVIOUS
    <2>2. m_chaMap[j].conn \in Conns /\ k \in ChaIds
      BY <2>1 DEF WInv, IdInv, TInv, MainType
    <2>3. view'[m_chaMap'[j].conn][k] = view[m_chaMap[j].conn][k]
      BY <2>1, <2>2
    <2>4. \/ Agrees(m_chaMap[j].conn, k)
          \/ /\ pkt # NoPkt
             /\ \/ k = pkt.cha /\ m_chaMap[j].conn \in todo
                \/ m_chaMap[j].conn = client
      BY <2>1 DEF WInv, Shown
    <2>5. CASE Agrees(m_chaMap[j].conn, k)
      BY <1>1, <2>1, <2>3, <2>5 DEF Agrees
    <2>6. CASE /\ pkt # NoPkt
               /\ \/ k = pkt.cha /\ m_chaMap[j].conn \in todo
                  \/ m_chaMap[j].conn = client
      BY <2>1, <2>6
    <2>. QED  BY <2>4, <2>5, <2>6
  <1>. QED  BY <1>2, <1>3, <1>4, <1>5, <1>6

\* A packet that says nothing of positions.
LEMMA TellNothing ==
    ASSUME NEW cs, NEW cmd, Tell(cs, cmd, Nothing)
    PROVE  \A c \in Conns, k \in ChaIds : view'[c][k] = view[c][k]
  BY DEF Tell, Nothing

\* Nobody is lost from a list that stays.
LEMMA ListStays ==
    ASSUME UNCHANGED m_TCPConnections
    PROVE  \A c : Has(m_TCPConnections, c) /\ c \notin dead => Has(m_TCPConnections', c)
  OBVIOUS

\* Where it is of use: the characters' connections are not among the dead.
LEMMA NotDead ==
    ASSUME WInv, Sane, NEW k \in DOMAIN m_chaMap
    PROVE  m_chaMap[k].conn \notin dead
  BY DEF WInv, Homed

LEMMA SendPingKeepsWorld ==
    ASSUME WInv, Sane' => Sane, SendPing
    PROVE  Between' /\ Filed' /\ Homed' /\ Prepared' /\ Shown'
  <1>1. /\ At("send") /\ UNCHANGED m_TCPConnections /\ mpc = "send"
        /\ SendToClient(client, "Ping", Nothing)
    BY DEF SendPing, At
  <1>2. /\ client \in Conns /\ pkt = NoPkt /\ dead = {}
        /\ \A c : Has(m_TCPConnections, c) /\ c \notin dead => Has(m_TCPConnections', c)
    BY <1>1, Recipients, ListStays DEF WInv, Between
  <1>3. CASE client \in open
    <2>1. Tell({client}, "Ping", Nothing) /\ UNCHANGED <<m_chaMap, dead>>
      BY <1>1, <1>3 DEF SendToClient
    <2>2. pkt' = NoPkt /\ \A c \in Conns, k \in ChaIds : view'[c][k] = view[c][k]
      BY <1>3, <2>1, TellNothing DEF SendPing, Return
    <2>. QED  BY <1>1, <1>2, <2>1, <2>2, HandlerKeepsWorld
  <1>4. CASE client \notin open
    <2>1. /\ OnClientDisconnect(client) /\ dead' = {client} /\ UNCHANGED <<view, pkt>>
          /\ mpc' = "erase"
      BY <1>1, <1>4 DEF SendToClient, SendPing, toldVars
    <2>2. \A k \in DOMAIN m_chaMap' : /\ k \in DOMAIN m_chaMap /\ m_chaMap'[k] = m_chaMap[k]
                                      /\ Sane => m_chaMap'[k].conn # client
      BY <1>2, <2>1, Leaves
    <2>. QED  BY <1>1, <1>2, <2>1, <2>2, HandlerKeepsWorld
  <1>. QED  BY <1>3, <1>4

LEMMA SendToAllKeepsWorld ==
    ASSUME WInv, Sane' => Sane, NEW c \in Conns, SendToAll(c)
    PROVE  Between' /\ Filed' /\ Homed' /\ Prepared' /\ Shown'
  <1>1. /\ At("all") /\ UNCHANGED <<m_TCPConnections, mpc, client, pkt>> /\ mpc = "all"
    BY DEF SendToAll, At
  <1>2. /\ pkt = NoPkt
        /\ \A d : Has(m_TCPConnections, d) /\ d \notin dead => Has(m_TCPConnections', d)
    BY <1>1, ListStays DEF WInv, Between
  <1>3. CASE Tell({c} \ {client}, "ServerMessage", Nothing) /\ UNCHANGED <<m_chaMap, dead>>
    <2>1. \A d \in Conns, k \in ChaIds : view'[d][k] = view[d][k]
      BY <1>3, TellNothing
    <2>. QED  BY <1>1, <1>2, <1>3, <2>1, NotDead, HandlerKeepsWorld
  <1>4. CASE OnClientDisconnect(c) /\ dead' = dead \union {c} /\ UNCHANGED toldVars
    <2>1. \A k \in DOMAIN m_chaMap' : /\ k \in DOMAIN m_chaMap /\ m_chaMap'[k] = m_chaMap[k]
                                      /\ Sane => m_chaMap'[k].conn # c
      BY <1>4, Leaves
    <2>2. Sane' => \A k \in DOMAIN m_chaMap' : m_chaMap'[k].conn \notin dead'
      BY <1>4, <2>1, NotDead
    <2>3. UNCHANGED view
      BY <1>4 DEF toldVars
    <2>. QED  BY <1>1, <1>2, <2>1, <2>2, <2>3, HandlerKeepsWorld
  <1>. QED  BY <1>3, <1>4 DEF SendToAll

LEMMA SendToAllDoneKeepsWorld ==
    ASSUME WInv, Sane' => Sane, SendToAllDone
    PROVE  Between' /\ Filed' /\ Homed' /\ Prepared' /\ Shown'
  <1>1. /\ At("all") /\ mpc = "all" /\ UNCHANGED <<m_TCPConnections, todo, dead, m_chaMap, view>>
        /\ \/ dead = {} /\ pkt' = NoPkt
           \/ mpc' = "erase" /\ pkt' = pkt
    BY DEF SendToAllDone, At, Return, toldVars
  <1>2. /\ pkt = NoPkt
        /\ \A d : Has(m_TCPConnections, d) /\ d \notin dead => Has(m_TCPConnections', d)
    BY <1>1, ListStays DEF WInv, Between
  <1>. QED  BY <1>1, <1>2, NotDead, HandlerKeepsWorld

LEMMA EraseKeepsWorld ==
    ASSUME WInv, Sane' => Sane, Erase
    PROVE  Between' /\ Filed' /\ Homed' /\ Prepared' /\ Shown'
  <1>1. At("erase") /\ mpc = "erase" /\ UNCHANGED <<todo, m_chaMap, view>>
    BY Erasing DEF WInv, IdInv, At, toldVars
  <1>2. CASE Resumed /\ UNCHANGED m_TCPConnections
    <2>1. \A d : Has(m_TCPConnections, d) /\ d \notin dead => Has(m_TCPConnections', d)
      BY <1>2, ListStays
    <2>2. /\ dead' = {}
          /\ \/ pkt # NoPkt /\ mpc' = "notify" /\ UNCHANGED <<client, pkt>>
             \/ pkt = NoPkt /\ pkt' = NoPkt
      BY <1>2 DEF Resumed, Return
    <2>. QED  BY <1>1, <2>1, <2>2, HandlerKeepsWorld
  <1>3. ASSUME UNCHANGED <<mpc, client, pkt, dead>>,
               NEW i \in DOMAIN m_TCPConnections, m_TCPConnections[i] \in dead,
               Removed(m_TCPConnections', m_TCPConnections, i),
               m_TCPConnections' \in Seq(Conns)
        PROVE  Between' /\ Filed' /\ Homed' /\ Prepared' /\ Shown'
    <2>1. m_TCPConnections \in Seq(Conns)
      BY DEF WInv, IdInv, TInv, AsioType
    <2>2. \A d : Has(m_TCPConnections, d) /\ d \notin dead => Has(m_TCPConnections', d)
      BY <1>3, <2>1, OthersAreLeft DEF Has
    <2>. QED  BY <1>1, <1>3, <2>2, NotDead, HandlerKeepsWorld
  <1>. QED  BY <1>2, <1>3, Erasing DEF WInv, IdInv

LEMMA NotifyKeepsWorld ==
    ASSUME WInv, Sane' => Sane, NEW c \in Conns, Notify(c)
    PROVE  Between' /\ Filed' /\ Homed' /\ Prepared' /\ Shown'
  <1> DEFINE at == [k \in {pkt.cha} |-> Origin]
  <1>1. /\ At("notify") /\ mpc = "notify" /\ c \in todo /\ todo' = todo \ {c}
        /\ UNCHANGED <<m_TCPConnections, client, pkt>>
        /\ SendToClient(c, "PlyEnterWorld", at)
    BY DEF Notify, At
  <1>2. /\ dead = {} /\ UNCHANGED <<m_sID, reentered>>
        /\ \A d : Has(m_TCPConnections, d) /\ d \notin dead => Has(m_TCPConnections', d)
    BY <1>1, ListStays DEF WInv, Between, At, asioVars
  <1>3. CASE c \notin open
    <2>1. /\ OnClientDisconnect(c) /\ dead' = {c} /\ UNCHANGED view /\ mpc' = "erase"
      BY <1>1, <1>3 DEF SendToClient, Notify, toldVars
    <2>2. \A k \in DOMAIN m_chaMap' : /\ k \in DOMAIN m_chaMap /\ m_chaMap'[k] = m_chaMap[k]
                                      /\ Sane => m_chaMap'[k].conn # c
      BY <2>1, Leaves
    <2>. QED  BY <1>1, <1>2, <2>1, <2>2, HandlerKeepsWorld
  <1>4. CASE c \in open
    <2>1. /\ Tell({c}, "PlyEnterWorld", at) /\ UNCHANGED <<m_chaMap, dead>> /\ mpc' = "notify"
      BY <1>1, <1>4 DEF SendToClient, Notify
    <2>2. \A d \in Conns, k \in ChaIds :
              view'[d][k] = IF d = c /\ k = pkt.cha THEN Origin ELSE view[d][k]
      BY <2>1 DEF Tell
    <2>3. Between' /\ Prepared' /\ Filed'
      BY <1>1, <1>2, <2>1 DEF WInv, Between, Prepared, Filed
    <2>4. Homed'
      <3>. SUFFICES ASSUME Sane', NEW k \in DOMAIN m_chaMap
                    PROVE  \/ Has(m_TCPConnections, m_chaMap[k].conn)
                           \/ pkt # NoPkt /\ m_chaMap[k].conn \in todo \ {c}
        BY <1>1, <1>2, <2>1 DEF Homed
      <3>1. m_chaMap[k].conn = c => Has(m_TCPConnections, m_chaMap[k].conn)
        BY <1>4, OpenIsListed DEF WInv
      <3>. QED  BY <3>1 DEF WInv, Homed
    <2>5. Shown'
      <3>. SUFFICES ASSUME Sane', NEW j \in DOMAIN m_chaMap, NEW k \in DOMAIN m_chaMap, j # k
                    PROVE  \/ view'[m_chaMap[j].conn][k] = m_chaMap[k].pos
                           \/ k \in reentered /\ view'[m_chaMap[j].conn][k] = Origin
                           \/ /\ pkt # NoPkt
                              /\ \/ k = pkt.cha /\ m_chaMap[j].conn \in todo \ {c}
                                 \/ m_chaMap[j].conn = client
        BY <1>1, <1>2, <2>1 DEF Shown, Agrees
      <3>1. m_chaMap[j].conn \in Conns /\ k \in ChaIds
        BY DEF WInv, IdInv, TInv, MainType
      <3>2. \/ Agrees(m_chaMap[j].conn, k)
            \/ /\ pkt # NoPkt
               /\ \/ k = pkt.cha /\ m_chaMap[j].conn \in todo
                  \/ m_chaMap[j].conn = client
        BY DEF WInv, Shown
      <3>3. CASE m_chaMap[j].conn = c /\ k = pkt.cha
        <4>1. view'[m_chaMap[j].conn][k] = Origin
          BY <2>2, <3>1, <3>3
        <4>2. pkt # NoPkt => m_chaMap[k].pos = Origin \/ k \in reentered
          BY <3>3 DEF WInv, Prepared
        <4>3. pkt # NoPkt
          <5>1. NoPkt.cha \notin ChaIds
            BY WidthAssumption DEF NoPkt, ChaIds
          <5>. QED  BY <3>1, <3>3, <5>1
        <4>. QED  BY <4>1, <4>2, <4>3
      <3>4. CASE ~(m_chaMap[j].conn = c /\ k = pkt.cha)
        <4>1. view'[m_chaMap[j].conn][k] = view[m_chaMap[j].conn][k]
          BY <2>2, <3>1, <3>4
        <4>. QED  BY <3>2, <3>4, <4>1 DEF Agrees
      <3>. QED  BY <3>3, <3>4
    <2>. QED  BY <2>3, <2>4, <2>5
  <1>. QED  BY <1>3, <1>4

LEMMA SendWorldKeepsWorld ==
    ASSUME WInv, Sane' => Sane, SendWorld
    PROVE  Between' /\ Filed' /\ Homed' /\ Prepared' /\ Shown'
  <1>1. /\ At("notify") /\ mpc = "notify" /\ todo = {} /\ UNCHANGED <<m_TCPConnections, todo>>
        /\ SendToClient(client, "SelfEnterWorld", pkt.at) /\ pkt' = NoPkt
    BY DEF SendWorld, At, Return
  <1>2. /\ dead = {} /\ client \in Conns /\ UNCHANGED <<m_sID, reentered>>
        /\ \A d : Has(m_TCPConnections, d) /\ d \notin dead => Has(m_TCPConnections', d)
    BY <1>1, Recipients, ListStays DEF WInv, Between, At, asioVars
  <1>3. CASE client \notin open
    <2>1. OnClientDisconnect(client) /\ dead' = {client} /\ UNCHANGED view /\ mpc' = "erase"
      BY <1>1, <1>3 DEF SendToClient, SendWorld, toldVars
    <2>2. \A k \in DOMAIN m_chaMap' : /\ k \in DOMAIN m_chaMap /\ m_chaMap'[k] = m_chaMap[k]
                                      /\ Sane => m_chaMap'[k].conn # client
      BY <1>2, <2>1, Leaves
    <2>. QED  BY <1>1, <1>2, <2>1, <2>2, HandlerKeepsWorld
  <1>4. CASE client \in open
    <2>1. /\ Tell({client}, "SelfEnterWorld", pkt.at) /\ UNCHANGED <<m_chaMap, dead>>
      BY <1>1, <1>4 DEF SendToClient
    <2>2. \A d \in Conns, k \in ChaIds :
              view'[d][k] = IF d = client /\ k \in DOMAIN pkt.at THEN pkt.at[k] ELSE view[d][k]
      BY <2>1 DEF Tell
    <2>3. Between' /\ Prepared' /\ Filed'
      BY <1>1, <1>2, <2>1 DEF WInv, Between, Prepared, Filed
    <2>4. Homed'
      BY <1>1, <1>2, <2>1 DEF WInv, Homed
    <2>5. Shown'
      <3>. SUFFICES ASSUME Sane', NEW j \in DOMAIN m_chaMap, NEW k \in DOMAIN m_chaMap, j # k
                    PROVE  \/ view'[m_chaMap[j].conn][k] = m_chaMap[k].pos
                           \/ k \in reentered /\ view'[m_chaMap[j].conn][k] = Origin
        BY <1>1, <1>2, <2>1 DEF Shown, Agrees
      <3>1. m_chaMap[j].conn \in Conns /\ k \in ChaIds
        BY DEF WInv, IdInv, TInv, MainType
      <3>2. pkt # NoPkt => k \in DOMAIN pkt.at /\ pkt.at[k] = m_chaMap[k].pos
        BY DEF WInv, Prepared
      <3>3. Agrees(m_chaMap[j].conn, k) \/ (pkt # NoPkt /\ m_chaMap[j].conn = client)
        BY <1>1 DEF WInv, Shown
      <3>4. CASE pkt # NoPkt /\ m_chaMap[j].conn = client
        BY <2>2, <3>1, <3>2, <3>4
      <3>5. CASE pkt # NoPkt /\ m_chaMap[j].conn # client
        BY <2>2, <3>1, <3>3, <3>5 DEF Agrees
      <3>6. CASE pkt = NoPkt
        <4>1. DOMAIN pkt.at = {}
          BY <3>6 DEF NoPkt
        <4>2. view'[m_chaMap[j].conn][k] = view[m_chaMap[j].conn][k]
          BY <2>2, <3>1, <4>1
        <4>. QED  BY <3>3, <3>6, <4>2 DEF Agrees
      <3>. QED  BY <3>4, <3>5, <3>6
    <2>. QED  BY <2>3, <2>4, <2>5
  <1>. QED  BY <1>3, <1>4
-----------------------------------------------------------------------------
(* The world invariant *)

LEMMA StutterKeepsWorld ==
    ASSUME WInv, Sane' => Sane, UNCHANGED vars
    PROVE  Between' /\ Filed' /\ Homed' /\ Prepared' /\ Shown'
  <1>1. UNCHANGED <<mpc, client, pkt, todo, dead, m_chaMap, reentered, view, m_sID, m_TCPConnections>>
    BY DEF vars, asioVars, sharedVars, mainVars, worldVars, toldVars
  <1>2. \A d : Has(m_TCPConnections, d) => Has(m_TCPConnections', d)
    BY <1>1
  <1>. QED  BY <1>1, <1>2, AsioKeepsWorld

LEMMA InitWorld == Init => Fresh /\ Between /\ Filed /\ Homed /\ Prepared /\ Shown
  <1>. SUFFICES ASSUME Init PROVE Fresh /\ Between /\ Filed /\ Homed /\ Prepared /\ Shown
    OBVIOUS
  <1>1. DOMAIN m_chaMap = {} /\ pkt = NoPkt
    BY DEF Init
  <1>2. Fresh /\ Between
    BY DEF Init, Fresh, Between
  <1>. QED  BY <1>1, <1>2 DEF Filed, Homed, Prepared, Shown

LEMMA StepKeepsWorld ==
    ASSUME WInv, [Next]_vars
    PROVE  Fresh' /\ Between' /\ Filed' /\ Homed' /\ Prepared' /\ Shown'
  <1>1. Fresh' /\ (Sane' => Sane)
    BY FreshStays, SaneBefore DEF WInv
  <1>2. Between' /\ Filed' /\ Homed' /\ Prepared' /\ Shown'
    BY <1>1, Steps, ClientsKeepWorld, OnClientConnectKeepsWorld, PushBackKeepsWorld,
       ConnectToClientKeepsWorld, AcceptEndsKeepsWorld, PingKeepsWorld, EnterKeepsWorld,
       MoveKeepsWorld,
       SendPingKeepsWorld, NotifyKeepsWorld, SendWorldKeepsWorld, SendToAllKeepsWorld,
       SendToAllDoneKeepsWorld, EraseKeepsWorld, StutterKeepsWorld
  <1>. QED  BY <1>1, <1>2

LEMMA WorldInvariant == Spec => []WInv
  <1>1. /\ IdInv /\ IdInv' /\ Fresh /\ Between /\ Filed /\ Homed /\ Prepared /\ Shown
        /\ [Next]_vars
        => Fresh' /\ Between' /\ Filed' /\ Homed' /\ Prepared' /\ Shown'
    BY StepKeepsWorld DEF WInv
  <1>. QED  BY <1>1, InitWorld, IdInvariant, PTL DEF Spec, WInv

\* Whoever was dropped has left the world too, even if a packet of its was still
\* queued and put it back: the notifylist meets it and drops it again.
THEOREM WorldStaysListed == Spec => []WorldIsListed
  <1>1. ASSUME WInv PROVE WorldIsListed
    <2>. SUFFICES ASSUME Sane, mpc = "idle", NEW k \in DOMAIN m_chaMap
                  PROVE  m_chaMap[k].conn \in Listed
      BY DEF WorldIsListed, InWorld
    <2>1. Has(m_TCPConnections, m_chaMap[k].conn)
      BY <1>1 DEF WInv, Between, Homed
    <2>. QED  BY <2>1 DEF Has, Listed
  <1>. QED  BY <1>1, WorldInvariant, PTL

\* Everybody is told of everybody: the notifylist tells the others of the new
\* character, SelfEnterWorld the new one of the others, MovePlayer all of a move.
THEOREM EveryoneAgrees == Spec => []ViewsAgree
  <1>1. WInv => ViewsAgree
    BY DEF WInv, Between, Shown, Agrees, ViewsAgree
  <1>. QED  BY <1>1, WorldInvariant, PTL
-----------------------------------------------------------------------------
(* Whose character moves *)

\* Ids below the counter, no two alike: it does not come round while they fit.
Unique ==
    Sane => /\ \A c \in Conns : m_sID[c] # NoId => m_sID[c] < m_IDCnt
            /\ \A c, d \in Conns : m_sID[c] # NoId /\ m_sID[c] = m_sID[d] => c = d

LEMMA CountsOn ==
    ASSUME NEW n \in 0..(IdMod - 1), n < ChaMod
    PROVE  (n + 1) % IdMod = n + 1
  BY WidthAssumption, NarrowAssumption

LEMMA UniqueStays ==
    ASSUME IdInv, Fresh, Unique, [Next]_vars
    PROVE  Unique'
  <1>. SUFFICES ASSUME Sane', Sane
                PROVE  /\ \A c \in Conns : m_sID'[c] # NoId => m_sID'[c] < m_IDCnt'
                       /\ \A c, d \in Conns : m_sID'[c] # NoId /\ m_sID'[c] = m_sID'[d] => c = d
    BY SaneBefore DEF Unique
  <1>1. CASE ~ConnectToClient
    <2>1. UNCHANGED m_sID
      BY <1>1, OthersKeepIds DEF IdsStay
    <2>2. UNCHANGED m_IDCnt
      <3> USE DEF vars, clientVars, asioVars
      <3>1. ASSUME NEW c \in Conns,
                   \/ ClientConnects(c) \/ ClientGone(c) \/ AcceptThrows(c)
                   \/ OnClientConnect(c) \/ CloseSocket(c) \/ LateHandler(c)
                   \/ Notify(c) \/ SendToAll(c)
            PROVE  UNCHANGED m_IDCnt
        BY <3>1 DEF ClientConnects, ClientGone, AcceptThrows, OnClientConnect, CloseSocket,
                    LateHandler, Notify, SendToAll, At
      <3>2. ASSUME NEW c \in Conns, NEW cmd \in Cmds, NEW p \in Pos, Receive(c, cmd, p)
            PROVE  UNCHANGED m_IDCnt
        BY <3>2 DEF Receive
      <3>4. ASSUME Approved \/ CrashOnBack PROVE UNCHANGED m_IDCnt
        BY <3>4 DEF Approved, CrashOnBack
      <3>3. ASSUME \/ OnPing \/ OnMessageAll \/ OnSelfEnterWorld \/ OnMovePlayer \/ PushBack
                   \/ SendPing \/ SendWorld \/ SendToAllDone \/ Erase \/ UNCHANGED vars
            PROVE  UNCHANGED m_IDCnt
        BY <3>3 DEF OnPing, OnMessageAll, OnSelfEnterWorld, OnMovePlayer, Pops, PushBack,
                    SendPing, SendWorld, SendToAllDone, Erase, At
      <3>. QED  BY <1>1, <3>1, <3>2, <3>3, <3>4, Steps
    <2>. QED  BY <2>1, <2>2 DEF Unique
  <1>2. CASE ConnectToClient
    <2>1. ~raced
      BY DEF Sane
    <2>2. /\ newconn \in Conns /\ m_sID' = [m_sID EXCEPT ![newconn] = m_IDCnt]
          /\ m_IDCnt' = (m_IDCnt + 1) % IdMod
      BY <1>2, <2>1, ConnectingIds DEF ConnectToClient
    <2>3. m_sID \in [Conns -> 0..IdMod] /\ m_IDCnt \in 0..(IdMod - 1) /\ IdMod \in Nat
      BY WidthAssumption DEF IdInv, TInv, AsioType
    <2>4. /\ m_sID'[newconn] = m_IDCnt /\ m_IDCnt # NoId
          /\ \A c \in Conns \ {newconn} : m_sID'[c] = m_sID[c]
      BY <2>2, <2>3 DEF NoId
    <2>5. m_IDCnt < ChaMod
      BY <2>2, <2>4 DEF Sane
    <2>6. m_IDCnt' = m_IDCnt + 1
      BY <2>2, <2>3, <2>5, CountsOn
    <2>7. \A c \in Conns \ {newconn} : m_sID[c] # NoId => m_sID[c] < m_IDCnt
      BY DEF Unique
    <2>8. \A c \in Conns : m_sID[c] \in Nat
      BY <2>3
    <2>9. \A c \in Conns : m_sID'[c] # NoId => m_sID'[c] < m_IDCnt'
      BY <2>3, <2>4, <2>6, <2>7, <2>8
    <2>10. ASSUME NEW c \in Conns, NEW d \in Conns, m_sID'[c] # NoId, m_sID'[c] = m_sID'[d]
           PROVE  c = d
      <3>1. CASE c = newconn \/ d = newconn
        BY <2>3, <2>4, <2>7, <2>8, <2>10, <3>1
      <3>2. CASE c # newconn /\ d # newconn
        BY <2>4, <2>10, <3>2 DEF Unique
      <3>. QED  BY <3>1, <3>2
    <2>. QED  BY <2>9, <2>10
  <1>. QED  BY <1>1, <1>2

LEMMA UniqueInvariant == Spec => []Unique
  <1>1. Init => Unique
    BY DEF Init, Unique
  <1>2. IdInv /\ Fresh /\ Unique /\ [Next]_vars => Unique'
    BY UniqueStays
  <1>. QED  BY <1>1, <1>2, WorldInvariant, PTL DEF Spec, WInv

\* A position changes in one step only.
LEMMA OnlyMoves ==
    ASSUME WInv, [Next]_vars, NEW k \in DOMAIN m_chaMap, k \in DOMAIN m_chaMap',
           m_chaMap'[k].pos # m_chaMap[k].pos
    PROVE  OnMovePlayer
  <1> USE DEF vars, worldVars
  <1>1. ASSUME NEW c \in Conns,
               \/ ClientConnects(c) \/ ClientGone(c) \/ AcceptThrows(c)
               \/ OnClientConnect(c) \/ CloseSocket(c) \/ LateHandler(c)
               \/ \E cmd \in Cmds, p \in Pos : Receive(c, cmd, p)
        PROVE  UNCHANGED m_chaMap
    BY <1>1 DEF ClientConnects, ClientGone, AcceptThrows, OnClientConnect, CloseSocket,
                LateHandler, Receive
  <1>2. ASSUME PushBack \/ ConnectToClient \/ Approved \/ CrashOnBack \/ OnPing \/ OnMessageAll \/ SendToAllDone
               \/ UNCHANGED vars
        PROVE  UNCHANGED m_chaMap
    BY <1>2 DEF PushBack, ConnectToClient, Approved, CrashOnBack, UseBack, OnPing, OnMessageAll,
                SendToAllDone
  <1>3. ASSUME Erase PROVE UNCHANGED m_chaMap
    BY <1>3, Erasing DEF WInv, IdInv
  <1>4. ASSUME OnSelfEnterWorld PROVE m_chaMap'[k] = m_chaMap[k]
    BY <1>4 DEF OnSelfEnterWorld, AddChaToWorld
  <1>5. ASSUME SendPing \/ SendWorld \/ \E c \in Conns : Notify(c) \/ SendToAll(c)
        PROVE  m_chaMap'[k] = m_chaMap[k]
    <2>1. \/ UNCHANGED m_chaMap
          \/ \E c \in Conns : OnClientDisconnect(c)
      <3>1. CASE SendPing
        <4>1. client \in Conns
          BY <3>1, Recipients DEF SendPing, At, WInv
        <4>. QED  BY <3>1, <4>1 DEF SendPing, SendToClient
      <3>2. CASE SendWorld
        <4>1. client \in Conns
          BY <3>2, Recipients DEF SendWorld, At, WInv
        <4>. QED  BY <3>2, <4>1 DEF SendWorld, SendToClient
      <3>3. CASE \E c \in Conns : Notify(c) \/ SendToAll(c)
        BY <3>3 DEF Notify, SendToClient, SendToAll
      <3>. QED  BY <1>5, <3>1, <3>2, <3>3
    <2>. QED  BY <2>1, Leaves
  <1>. QED  BY <1>1, <1>2, <1>3, <1>4, <1>5, Steps

\* OnMovePlayer moves the character that is filed under the sender's id, and
\* that is the sender's: no other connection has this id.
THEOREM OwnMovesOnly == Spec => SaneMovesOwnCharacter
  <1>1. ASSUME WInv, Unique, [Next]_vars, Sane,
               NEW k \in DOMAIN m_chaMap \intersect DOMAIN m_chaMap',
               m_chaMap'[k].pos # m_chaMap[k].pos
        PROVE  m_chaMap[k].conn = Packet.client
    <2>1. OnMovePlayer
      BY <1>1, OnlyMoves
    <2> DEFINE k0 == m_sID[Packet.client]
    <2>2. /\ Pops("MovePlayer")
          /\ \/ k0 \in DOMAIN m_chaMap /\ SetPos(k0, Packet.pos)
             \/ UNCHANGED m_chaMap
      BY <2>1 DEF OnMovePlayer, worldVars
    <2>3. Packet.client \in Conns /\ Packet.pos \in Pos
      BY <1>1, <2>2, Popped
    <2> HIDE DEF k0
    <2>4. k = k0
      BY <1>1, <2>2, <2>3, SetPosTypes DEF WInv, IdInv
    <2>5. m_sID[m_chaMap[k].conn] = k
      BY <1>1 DEF WInv, Filed
    <2>6. m_chaMap[k].conn \in Conns /\ m_sID[m_chaMap[k].conn] # NoId
      BY <1>1, WorldIsOld DEF WInv
    <2>. QED  BY <1>1, <2>3, <2>4, <2>5, <2>6 DEF Unique, k0
  <1>2. WInv /\ Unique /\ [Next]_vars =>
            [Sane => \A k \in DOMAIN m_chaMap \intersect DOMAIN m_chaMap' :
                m_chaMap'[k].pos # m_chaMap[k].pos => m_chaMap[k].conn = Packet.client]_m_chaMap
    BY <1>1
  <1>. QED  BY <1>2, WorldInvariant, UniqueInvariant, PTL DEF Spec, SaneMovesOwnCharacter
=============================================================================
