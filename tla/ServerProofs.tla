---------------------------- MODULE ServerProofs ----------------------------
(***************************************************************************)
(* Proofs about Server for any number of connections and packets and any   *)
(* widths: the types, the order of greeting and other packets, that an id  *)
(* is known before it is used, and that an open connection has an owner.   *)
(***************************************************************************)
EXTENDS Server, SequenceTheorems, TLAPS

AsioType ==
    /\ conn \in [Conns -> {"unused", "backlog", "accepted"}]
    /\ gone \in SUBSET Conns /\ received \in 0..MaxPkts
    /\ apc \in {"idle", "greeted", "listed", "served"} /\ newconn \in Conns \union {NoConn}
    /\ open \in SUBSET Conns /\ reading \in SUBSET Conns /\ late \in SUBSET Busy
    /\ m_sID \in [Conns -> 0..IdMod] /\ m_IDCnt \in 0..(IdMod - 1)
    /\ m_TCP_PktIn \in Seq([client : Conns, cmd : Cmds, pos : Pos])
    /\ m_TCPConnections \in Seq(Conns)
    /\ crashed \in BOOLEAN /\ raced \in BOOLEAN

MainType ==
    /\ mpc \in {"idle", "send", "notify", "all", "erase"}
    /\ client \in Conns \union {NoConn}
    /\ pkt.cha \in 0..ChaMod /\ DOMAIN pkt.at \subseteq ChaIds
    /\ pkt.at \in [DOMAIN pkt.at -> Pos]
    /\ todo \in SUBSET Conns /\ dead \in SUBSET Conns
    /\ DOMAIN m_chaMap \subseteq ChaIds
    /\ m_chaMap \in [DOMAIN m_chaMap -> [conn : Conns, pos : Pos]]

ToldType ==
    /\ first \in [Conns -> OutCmds \union {"none"}]
    /\ view \in [Conns -> [ChaIds -> Pos \union {Unknown}]]
    /\ reentered \in SUBSET ChaIds

\* The connection that is being accepted is open: its peer may be gone, but no
\* handler that could close it runs.  A handler of OnPacket serves a client.
\* A read of a closed socket has a handler to come.
Places ==
    /\ apc # "idle" => newconn \in open
    /\ reading \ open \subseteq Busy
    /\ mpc # "idle" => client \in Conns

TInv == AsioType /\ MainType /\ ToldType /\ Places

LEMMA TypeParts == TypeOK <=> AsioType /\ MainType /\ ToldType
  BY DEF TypeOK, AsioType, MainType, ToldType
-----------------------------------------------------------------------------
(* Sequences *)

\* Where the elements behind the i-th of n go when it is taken out.
LEMMA Shift ==
    ASSUME NEW n \in Nat, NEW i \in 1..n, NEW j \in 1..(n - 1), i <= j
    PROVE  /\ j - (i - 1) \in 1..(n - i) /\ i + (j - (i - 1)) = j + 1
           /\ j \in 1..((i - 1) + (n - i)) /\ ~(j <= i - 1)
  OBVIOUS

\* r is the list s without its i-th element.
Removed(r, s, i) ==
    /\ Len(r) = Len(s) - 1
    /\ \A j \in 1..Len(r) : r[j] = IF j < i THEN s[j] ELSE s[j + 1]

LEMMA Removal ==
    ASSUME NEW S, NEW s \in Seq(S), NEW i \in 1..Len(s), NEW r,
           r = SubSeq(s, 1, i - 1) \o SubSeq(s, i + 1, Len(s))
    PROVE  r \in Seq(S) /\ Removed(r, s, i)
  <1> DEFINE a == SubSeq(s, 1, i - 1)
             b == SubSeq(s, i + 1, Len(s))
  <1>0. Len(s) \in Nat /\ i - 1 \in 0..Len(s) /\ i + 1 \in 1..(Len(s) + 1)
    OBVIOUS
  <1>1. /\ a \in Seq(S) /\ Len(a) = i - 1
        /\ \A j \in 1..(i - 1) : a[j] = s[j]
    BY <1>0, SubSeqProperties
  <1>2. /\ b \in Seq(S) /\ Len(b) = Len(s) - i
        /\ \A j \in 1..(Len(s) - i) : b[j] = s[i + j]
    <2>1. Len(s) \in 0..Len(s) /\ i + 1 <= Len(s) + 1
      BY <1>0
    <2>2. /\ b \in Seq(S)
          /\ Len(b) = IF i + 1 <= Len(s) THEN Len(s) - (i + 1) + 1 ELSE 0
          /\ \A j \in 1..(Len(s) - (i + 1) + 1) : b[j] = s[(i + 1) + j - 1]
      BY <1>0, <2>1, SubSeqProperties
    <2>3. Len(b) = Len(s) - i /\ Len(s) - (i + 1) + 1 = Len(s) - i
      BY <1>0, <2>1, <2>2
    <2>4. ASSUME NEW j \in 1..(Len(s) - i) PROVE (i + 1) + j - 1 = i + j
      BY <1>0
    <2>. QED  BY <2>2, <2>3, <2>4
  <1> HIDE DEF a, b
  <1>3. /\ a \o b \in Seq(S) /\ Len(a \o b) = Len(a) + Len(b)
        /\ \A j \in 1..(Len(a) + Len(b)) : (a \o b)[j] = IF j <= Len(a) THEN a[j] ELSE b[j - Len(a)]
    BY <1>1, <1>2, ConcatProperties
  <1>4. r = a \o b
    BY DEF a, b
  <1>5. Len(r) = Len(s) - 1
    <2>1. Len(a) + Len(b) = Len(s) - 1
      BY <1>0, <1>1, <1>2
    <2>. QED  BY <1>3, <1>4, <2>1
  <1>6. Len(a) + Len(b) = Len(s) - 1 /\ 1..Len(r) = 1..(Len(s) - 1)
    <2>1. Len(a) + Len(b) = Len(s) - 1
      BY <1>0, <1>1, <1>2
    <2>. QED  BY <1>5, <2>1
  <1>7. ASSUME NEW j \in 1..Len(r) PROVE r[j] = IF j < i THEN s[j] ELSE s[j + 1]
    <2>0. j \in 1..(Len(s) - 1) /\ j \in 1..(Len(a) + Len(b))
      BY <1>6
    <2>1. CASE j < i
      <3>1. j <= Len(a) /\ j \in 1..(i - 1)
        BY <1>0, <1>1, <2>0, <2>1
      <3>. QED  BY <1>1, <1>3, <1>4, <2>0, <2>1, <3>1
    <2>2. CASE ~(j < i)
      <3>1. /\ j - (i - 1) \in 1..(Len(s) - i) /\ i + (j - (i - 1)) = j + 1
            /\ ~(j <= i - 1)
        BY <1>0, <2>0, <2>2, Shift
      <3>2. r[j] = b[j - (i - 1)]
        BY <1>1, <1>3, <1>4, <2>0, <3>1
      <3>3. b[j - (i - 1)] = s[j + 1]
        BY <1>2, <3>1
      <3>. QED  BY <2>2, <3>2, <3>3
    <2>. QED  BY <2>1, <2>2
  <1>. QED  BY <1>3, <1>4, <1>5, <1>7 DEF Removed

\* Every element but the i-th is still there.
LEMMA OthersAreLeft ==
    ASSUME NEW S, NEW s \in Seq(S), NEW r \in Seq(S), NEW i \in DOMAIN s,
           Removed(r, s, i)
    PROVE  /\ \A h \in DOMAIN s : h # i => \E j \in DOMAIN r : r[j] = s[h]
           /\ \A j \in DOMAIN r : \E h \in DOMAIN s : r[j] = s[h]
  <1> DEFINE n == Len(s)
  <1>1. n \in Nat /\ DOMAIN s = 1..n /\ i \in 1..n /\ DOMAIN r = 1..(n - 1)
    BY DEF Removed
  <1>2. \A j \in 1..(n - 1) : r[j] = IF j < i THEN s[j] ELSE s[j + 1]
    BY <1>1 DEF Removed
  <1> HIDE DEF n
  <1>3. ASSUME NEW h \in 1..n, h # i
        PROVE  \E j \in 1..(n - 1) : r[j] = s[h]
    <2>1. CASE h < i
      <3>1. h \in 1..(n - 1)
        BY <1>1, <2>1
      <3>. QED  BY <1>2, <2>1, <3>1
    <2>2. CASE ~(h < i)
      <3>1. h - 1 \in 1..(n - 1) /\ ~(h - 1 < i) /\ (h - 1) + 1 = h
        BY <1>1, <1>3, <2>2
      <3>. QED  BY <1>2, <3>1
    <2>. QED  BY <2>1, <2>2
  <1>4. ASSUME NEW j \in 1..(n - 1)
        PROVE  \E h \in 1..n : r[j] = s[h]
    <2>1. j \in 1..n /\ j + 1 \in 1..n
      BY <1>1
    <2>. QED  BY <1>2, <2>1
  <1>. QED  BY <1>1, <1>3, <1>4
-----------------------------------------------------------------------------
(* Types *)

LEMMA TellTypes ==
    ASSUME ToldType, NEW cs, NEW cmd \in OutCmds, NEW at, \A k \in DOMAIN at : at[k] \in Pos,
           Tell(cs, cmd, at)
    PROVE  /\ first' \in [Conns -> OutCmds \union {"none"}]
           /\ view' \in [Conns -> [ChaIds -> Pos \union {Unknown}]]
  <1>1. first' \in [Conns -> OutCmds \union {"none"}]
    BY DEF ToldType, Tell, FirstOf
  <1>2. ASSUME NEW c \in Conns
        PROVE  (IF c \in cs
                THEN [k \in ChaIds |-> IF k \in DOMAIN at THEN at[k] ELSE view[c][k]]
                ELSE view[c]) \in [ChaIds -> Pos \union {Unknown}]
    BY DEF ToldType
  <1>3. view' \in [Conns -> [ChaIds -> Pos \union {Unknown}]]
    BY <1>2 DEF Tell
  <1>. QED  BY <1>1, <1>3

LEMMA OnClientDisconnectTypes ==
    ASSUME MainType, NEW c \in Conns, OnClientDisconnect(c)
    PROVE  /\ DOMAIN m_chaMap' = DOMAIN m_chaMap \ {m_sID[c]}
           /\ m_chaMap' \in [DOMAIN m_chaMap' -> [conn : Conns, pos : Pos]]
           /\ \A k \in DOMAIN m_chaMap' : m_chaMap'[k] = m_chaMap[k]
  BY DEF MainType, OnClientDisconnect, RemoveChaFromWorld

LEMMA ClientsKeepTypes ==
    ASSUME TInv, NEW c \in Conns, ClientConnects(c) \/ ClientGone(c)
    PROVE  TInv'
  <1> USE DEF TInv, Places, asioVars, sharedVars, mainVars, worldVars, toldVars
  <1>1. MainType' /\ ToldType'
    BY DEF MainType, ToldType, ClientConnects, ClientGone
  <1>2. AsioType'
    BY DEF AsioType, ClientConnects, ClientGone
  <1>. QED  BY <1>1, <1>2 DEF ClientConnects, ClientGone

LEMMA AcceptThrowsKeepsTypes ==
    ASSUME TInv, NEW c \in Conns, AcceptThrows(c)
    PROVE  TInv'
  <1> USE DEF TInv, Places, AcceptThrows, clientVars, asioVars, mainVars, worldVars, toldVars
  <1>1. MainType' /\ ToldType'
    BY DEF MainType, ToldType
  <1>2. AsioType'
    BY DEF AsioType
  <1>. QED  BY <1>1, <1>2

LEMMA OnClientConnectKeepsTypes ==
    ASSUME TInv, NEW c \in Conns, OnClientConnect(c)
    PROVE  TInv'
  <1> USE DEF TInv, Places, OnClientConnect, sharedVars, mainVars, worldVars
  <1>1. MainType'
    BY DEF MainType
  <1>2. AsioType'
    BY DEF AsioType
  <1>3. \A k \in DOMAIN Nothing : Nothing[k] \in Pos
    BY DEF Nothing
  <1>4. ToldType'
    BY <1>3, TellTypes DEF ToldType, OutCmds
  <1>. QED  BY <1>1, <1>2, <1>4

LEMMA PushBackKeepsTypes ==
    ASSUME TInv, PushBack
    PROVE  TInv'
  <1> USE DEF TInv, Places, PushBack, clientVars, mainVars, worldVars, toldVars
  <1>1. MainType' /\ ToldType'
    BY DEF MainType, ToldType
  <1>2. newconn \in Conns
    BY DEF AsioType
  <1>3. raced' \in BOOLEAN /\ crashed' \in BOOLEAN /\ m_TCPConnections' \in Seq(Conns)
    <2>1. raced' \in BOOLEAN
      BY DEF AsioType, Touching
    <2>2. crashed' \in BOOLEAN
      <3>1. crashed' = crashed \/ crashed' = TRUE
        OBVIOUS
      <3>. QED  BY <3>1, Zenon DEF AsioType
    <2>3. m_TCPConnections' \in Seq(Conns)
      <3>1. Append(m_TCPConnections, newconn) \in Seq(Conns)
        BY <1>2 DEF AsioType
      <3>. QED  BY <3>1 DEF AsioType
    <2>. QED  BY <2>1, <2>2, <2>3
  <1>4. AsioType'
    BY <1>3 DEF AsioType
  <1>. QED  BY <1>1, <1>4

LEMMA CounterType ==
    ASSUME NEW n \in Nat
    PROVE  (n + 1) % IdMod \in 0..(IdMod - 1)
  BY WidthAssumption

LEMMA BackType ==
    ASSUME TInv, BackIsThere
    PROVE  Back \in Conns /\ Back \in Listed
  <1>1. m_TCPConnections \in Seq(Conns) /\ m_TCPConnections # <<>>
    BY DEF TInv, AsioType, BackIsThere
  <1>2. Len(m_TCPConnections) \in DOMAIN m_TCPConnections
    BY <1>1, EmptySeq
  <1>. QED  BY <1>1, <1>2 DEF Back, Listed

\* The uses of back() change what is listed here, and raced.
LEMMA UseBackTypes ==
    ASSUME TInv, UseBack, apc' \in {"idle", "listed", "served"},
           \/ UNCHANGED <<apc, newconn>>
           \/ apc' = "idle" /\ newconn' = NoConn
           \/ apc # "idle" /\ UNCHANGED newconn,
           reading' \in SUBSET Conns, reading' \subseteq reading \union open,
           m_sID' \in [Conns -> 0..IdMod], m_IDCnt' \in 0..(IdMod - 1),
           crashed' = crashed \/ crashed' = TRUE
    PROVE  TInv'
  <1> USE DEF TInv, UseBack, clientVars, mainVars, worldVars, toldVars
  <1>1. MainType' /\ ToldType'
    BY DEF MainType, ToldType
  <1>2. raced' \in BOOLEAN
    BY DEF AsioType
  <1>3. crashed' \in BOOLEAN
    BY Zenon DEF AsioType
  <1>4. AsioType'
    BY <1>2, <1>3 DEF AsioType
  <1>5. Places'
    BY DEF Places
  <1>. QED  BY <1>1, <1>4, <1>5

LEMMA UsesOfBackKeepTypes ==
    ASSUME TInv, ConnectToClient \/ Approved \/ CrashOnBack
    PROVE  TInv'
  <1>0. /\ reading \in SUBSET Conns /\ m_sID \in [Conns -> 0..IdMod]
        /\ m_IDCnt \in 0..(IdMod - 1) /\ apc \in {"idle", "greeted", "listed", "served"}
    BY DEF TInv, AsioType
  <1>1. CASE ConnectToClient
    <2>1. Back \in Conns
      BY <1>1, BackType DEF ConnectToClient
    <2>2. m_IDCnt' \in 0..(IdMod - 1) /\ m_IDCnt \in 0..IdMod
      BY <1>0, <1>1, CounterType, WidthAssumption DEF ConnectToClient
    <2> HIDE DEF Back
    <2>3. reading' \in SUBSET Conns /\ reading' \subseteq reading \union open
      BY <1>0, <1>1, <2>1 DEF ConnectToClient
    <2>4. m_sID' \in [Conns -> 0..IdMod]
      BY <1>0, <1>1, <2>2 DEF ConnectToClient
    <2>. QED  BY <1>1, <2>2, <2>3, <2>4, UseBackTypes DEF ConnectToClient
  <1>2. CASE Approved
    BY <1>0, <1>2, UseBackTypes DEF Approved
  <1>3. CASE CrashOnBack
    BY <1>0, <1>3, UseBackTypes DEF CrashOnBack
  <1>. QED  BY <1>1, <1>2, <1>3

LEMMA ReceiveKeepsTypes ==
    ASSUME TInv, NEW c \in Conns, NEW cmd \in Cmds, NEW p \in Pos, Receive(c, cmd, p)
    PROVE  TInv'
  <1> USE DEF TInv, Receive, mainVars, worldVars, toldVars
  <1>1. MainType' /\ ToldType'
    BY DEF MainType, ToldType
  <1>2. [client |-> c, cmd |-> cmd, pos |-> p] \in [client : Conns, cmd : Cmds, pos : Pos]
    OBVIOUS
  <1>3. m_TCP_PktIn' \in Seq([client : Conns, cmd : Cmds, pos : Pos])
    BY <1>2 DEF AsioType
  <1>4. reading' \in SUBSET Conns /\ late' \in SUBSET Busy
    BY DEF AsioType, Places
  <1>5. received' \in 0..MaxPkts /\ crashed' \in BOOLEAN
    BY WidthAssumption DEF AsioType
  <1>6. AsioType'
    BY <1>3, <1>4, <1>5 DEF AsioType
  <1>. QED  BY <1>1, <1>6 DEF Places

LEMMA ClosesKeepTypes ==
    ASSUME TInv, NEW c \in Conns, CloseSocket(c) \/ LateHandler(c)
    PROVE  TInv'
  <1> USE DEF TInv, clientVars, sharedVars, mainVars, worldVars, toldVars
  <1>1. MainType' /\ ToldType'
    BY DEF CloseSocket, LateHandler, MainType, ToldType
  <1>2. CASE CloseSocket(c)
    <2>1. /\ apc = "idle" /\ c \in open \intersect gone /\ open' = open \ {c}
          /\ \/ reading' = reading \ {c} /\ late' \in {late, late \union ({c} \intersect Busy)}
             \/ c \in reading \intersect Busy /\ UNCHANGED <<reading, late>>
          /\ UNCHANGED <<clientVars, apc, newconn, m_sID, m_IDCnt, sharedVars>>
          /\ UNCHANGED <<mainVars, worldVars, toldVars>>
      BY <1>2 DEF CloseSocket
    <2>2. reading' \in SUBSET Conns /\ late' \in SUBSET Busy /\ open' \in SUBSET Conns
      BY <2>1 DEF AsioType
    <2>3. AsioType'
      BY <2>1, <2>2 DEF AsioType
    <2>4. Places'
      BY <2>1 DEF Places
    <2>. QED  BY <1>1, <2>3, <2>4
  <1>3. CASE LateHandler(c)
    BY <1>1, <1>3 DEF LateHandler, AsioType, Places
  <1>. QED  BY <1>2, <1>3

\* What a popped packet holds, and what is left.
LEMMA PopTypes ==
    ASSUME TInv, NEW cmd, Pops(cmd)
    PROVE  /\ mpc = "idle" /\ m_TCP_PktIn # <<>> /\ Packet.cmd = cmd
           /\ Packet = m_TCP_PktIn[1] /\ 1 \in DOMAIN m_TCP_PktIn
           /\ Packet.client \in Conns /\ Packet.pos \in Pos
           /\ AsioType'
  <1>1. /\ mpc = "idle" /\ m_TCP_PktIn # <<>> /\ Packet.cmd = cmd
        /\ m_TCP_PktIn' = Tail(m_TCP_PktIn)
        /\ UNCHANGED <<clientVars, asioVars, m_TCPConnections, crashed, raced>>
    BY DEF Pops
  <1>2. m_TCP_PktIn \in Seq([client : Conns, cmd : Cmds, pos : Pos])
    BY DEF TInv, AsioType
  <1>3. /\ Packet \in [client : Conns, cmd : Cmds, pos : Pos]
        /\ Tail(m_TCP_PktIn) \in Seq([client : Conns, cmd : Cmds, pos : Pos])
    BY <1>1, <1>2, HeadTailProperties DEF Packet
  <1>4. Packet = m_TCP_PktIn[1] /\ 1 \in DOMAIN m_TCP_PktIn
    BY <1>1, <1>2, EmptySeq DEF Packet
  <1>5. AsioType'
    BY <1>1, <1>3 DEF TInv, AsioType, clientVars, asioVars
  <1>. QED  BY <1>1, <1>3, <1>4, <1>5

LEMMA PingTypes ==
    ASSUME TInv, OnPing \/ OnMessageAll
    PROVE  TInv'
  <1>1. PICK cmd \in {"Ping", "MessageAll"} : Pops(cmd)
    BY DEF OnPing, OnMessageAll
  <1>2. Packet.client \in Conns /\ AsioType'
    BY <1>1, PopTypes
  <1>3. UNCHANGED <<apc, newconn, open, reading>>
    BY <1>1 DEF Pops, asioVars
  <1>4. Listed \in SUBSET Conns
    BY DEF Listed, TInv, AsioType
  <1>5. MainType' /\ ToldType'
    BY <1>2, <1>4 DEF TInv, MainType, ToldType, OnPing, OnMessageAll, worldVars, toldVars
  <1>. QED  BY <1>2, <1>3, <1>5 DEF TInv, Places, OnPing, OnMessageAll

LEMMA ChaIdType ==
    ASSUME TInv, NEW c \in Conns
    PROVE  ChaId(c) \in ChaIds
  <1>1. m_sID[c] \in Nat
    BY WidthAssumption DEF TInv, AsioType
  <1>. QED  BY <1>1, WidthAssumption DEF ChaId, ChaIds

LEMMA EnterTypes ==
    ASSUME TInv, OnSelfEnterWorld
    PROVE  TInv'
  <1> DEFINE c == Packet.client
             k == ChaId(c)
             m == AddChaToWorld(m_chaMap, k, NewCharacter(c))
  <1>1. /\ Pops("SelfEnterWorld")
        /\ m_chaMap' = m
        /\ reentered' = IF k \in DOMAIN m_chaMap THEN reentered \union {k} ELSE reentered
        /\ mpc' = "notify" /\ client' = c
        /\ pkt' = [cha |-> k, at |-> Positions(m)]
        /\ todo' = {m[j].conn : j \in DOMAIN m}
        /\ UNCHANGED <<dead, toldVars>>
    BY DEF OnSelfEnterWorld
  <1>2. c \in Conns /\ AsioType'
    BY <1>1, PopTypes
  <1>3. k \in ChaIds /\ k \in 0..ChaMod
    BY <1>2, ChaIdType, WidthAssumption DEF ChaIds
  <1> HIDE DEF c, k
  <1>4. /\ DOMAIN m = DOMAIN m_chaMap \union {k}
        /\ m \in [DOMAIN m -> [conn : Conns, pos : Pos]]
    BY <1>2, PosAssumption DEF AddChaToWorld, NewCharacter, TInv, MainType
  <1> HIDE DEF m
  <1>5. DOMAIN m \subseteq ChaIds
    BY <1>3, <1>4 DEF TInv, MainType
  <1>6. Positions(m) \in [DOMAIN m -> Pos]
    BY <1>4 DEF Positions
  <1>7. pkt'.cha = k /\ pkt'.at = Positions(m)
    BY <1>1
  <1>8. todo' \in SUBSET Conns
    BY <1>1, <1>4
  <1>9. MainType'
    BY <1>1, <1>2, <1>3, <1>4, <1>5, <1>6, <1>7, <1>8 DEF TInv, MainType
  <1>10. ToldType'
    BY <1>1, <1>3 DEF TInv, ToldType, toldVars
  <1>11. UNCHANGED <<apc, newconn, open, reading>>
    BY <1>1 DEF Pops, asioVars
  <1>. QED  BY <1>1, <1>2, <1>9, <1>10, <1>11 DEF TInv, Places

\* The world with one character somewhere else.
LEMMA SetPosTypes ==
    ASSUME TInv, NEW k \in DOMAIN m_chaMap, NEW p \in Pos, SetPos(k, p)
    PROVE  /\ DOMAIN m_chaMap' = DOMAIN m_chaMap
           /\ m_chaMap' \in [DOMAIN m_chaMap' -> [conn : Conns, pos : Pos]]
           /\ m_chaMap'[k].pos = p /\ m_chaMap'[k].conn = m_chaMap[k].conn
           /\ \A j \in DOMAIN m_chaMap \ {k} : m_chaMap'[j] = m_chaMap[j]
           /\ ToldType'
  <1>1. m_chaMap' = [m_chaMap EXCEPT ![k].pos = p]
    BY DEF SetPos
  <1>2. m_chaMap \in [DOMAIN m_chaMap -> [conn : Conns, pos : Pos]] /\ k \in ChaIds
    BY DEF TInv, MainType
  <1>3. /\ DOMAIN m_chaMap' = DOMAIN m_chaMap
        /\ m_chaMap' \in [DOMAIN m_chaMap' -> [conn : Conns, pos : Pos]]
        /\ m_chaMap'[k].pos = p /\ m_chaMap'[k].conn = m_chaMap[k].conn
        /\ \A j \in DOMAIN m_chaMap \ {k} : m_chaMap'[j] = m_chaMap[j]
    BY <1>1, <1>2
  <1>4. reentered' = reentered \ {k}
    BY DEF SetPos
  <1> DEFINE cs == {m_chaMap[j].conn : j \in DOMAIN m_chaMap \ {k}}
             at == [j \in {k} |-> p]
  <1>5. Tell(cs, "MovePlayer", at)
    BY DEF SetPos, FlagMoveUpdate
  <1>6. \A j \in DOMAIN at : at[j] \in Pos
    OBVIOUS
  <1> HIDE DEF cs, at
  <1>7. /\ first' \in [Conns -> OutCmds \union {"none"}]
        /\ view' \in [Conns -> [ChaIds -> Pos \union {Unknown}]]
    BY <1>5, <1>6, TellTypes DEF OutCmds, TInv
  <1>. QED  BY <1>3, <1>4, <1>7 DEF TInv, ToldType

LEMMA MoveTypes ==
    ASSUME TInv, OnMovePlayer
    PROVE  TInv'
  <1> DEFINE k == m_sID[Packet.client]
  <1>1. /\ Pops("MovePlayer") /\ UNCHANGED mainVars
        /\ \/ k \in DOMAIN m_chaMap /\ SetPos(k, Packet.pos)
           \/ UNCHANGED <<worldVars, toldVars>>
    BY DEF OnMovePlayer
  <1>2. Packet.pos \in Pos /\ AsioType'
    BY <1>1, PopTypes
  <1> HIDE DEF k
  <1>3. /\ DOMAIN m_chaMap' = DOMAIN m_chaMap
        /\ m_chaMap' \in [DOMAIN m_chaMap' -> [conn : Conns, pos : Pos]]
        /\ ToldType'
    <2>1. CASE k \in DOMAIN m_chaMap /\ SetPos(k, Packet.pos)
      BY <1>2, <2>1, SetPosTypes
    <2>2. CASE UNCHANGED <<worldVars, toldVars>>
      BY <2>2 DEF TInv, MainType, ToldType, worldVars, toldVars
    <2>. QED  BY <1>1, <2>1, <2>2
  <1>4. MainType'
    BY <1>1, <1>3 DEF TInv, MainType, mainVars
  <1>5. Places'
    BY <1>1 DEF TInv, Places, mainVars, Pops, asioVars
  <1>. QED  BY <1>2, <1>3, <1>4, <1>5 DEF TInv

\* The parts of the state no handler of OnPacket touches.
LEMMA AtTypes ==
    ASSUME TInv, NEW pc, At(pc), m_TCPConnections' \in Seq(Conns)
    PROVE  AsioType' /\ UNCHANGED <<apc, newconn, open, reading>> /\ reentered' \in SUBSET ChaIds
  BY DEF At, clientVars, asioVars, TInv, AsioType, ToldType

LEMMA SendToClientTypes ==
    ASSUME TInv, NEW c \in Conns, NEW cmd \in OutCmds,
           NEW at, \A k \in DOMAIN at : at[k] \in Pos, SendToClient(c, cmd, at)
    PROVE  /\ DOMAIN m_chaMap' \subseteq DOMAIN m_chaMap
           /\ m_chaMap' \in [DOMAIN m_chaMap' -> [conn : Conns, pos : Pos]]
           /\ dead' \in SUBSET Conns
           /\ first' \in [Conns -> OutCmds \union {"none"}]
           /\ view' \in [Conns -> [ChaIds -> Pos \union {Unknown}]]
  <1>1. CASE Tell({c}, cmd, at) /\ UNCHANGED <<m_chaMap, dead>>
    BY <1>1, TellTypes DEF TInv, MainType
  <1>2. CASE OnClientDisconnect(c) /\ dead' = {c} /\ UNCHANGED toldVars
    BY <1>2, OnClientDisconnectTypes DEF TInv, ToldType, toldVars
  <1>. QED  BY <1>1, <1>2 DEF SendToClient

\* What a handler leaves of the packet it prepares.
PktKept == pkt' = pkt \/ pkt' = NoPkt

LEMMA HandlerTypes ==
    ASSUME TInv, NEW pc, At(pc), m_TCPConnections' \in Seq(Conns),
           mpc' \in {"idle", "send", "notify", "all", "erase"},
           \/ client' = client /\ client \in Conns
           \/ client' = NoConn /\ mpc' = "idle",
           PktKept, todo' \in SUBSET Conns, dead' \in SUBSET Conns,
           DOMAIN m_chaMap' \subseteq DOMAIN m_chaMap,
           m_chaMap' \in [DOMAIN m_chaMap' -> [conn : Conns, pos : Pos]],
           first' \in [Conns -> OutCmds \union {"none"}],
           view' \in [Conns -> [ChaIds -> Pos \union {Unknown}]]
    PROVE  TInv'
  <1>1. AsioType' /\ UNCHANGED <<apc, newconn, open, reading>> /\ reentered' \in SUBSET ChaIds
    BY AtTypes
  <1>2. ToldType'
    BY <1>1 DEF ToldType
  <1>3. /\ pkt'.cha \in 0..ChaMod /\ DOMAIN pkt'.at \subseteq ChaIds
        /\ pkt'.at \in [DOMAIN pkt'.at -> Pos]
    <2>1. /\ NoPkt.cha \in 0..ChaMod /\ DOMAIN NoPkt.at \subseteq ChaIds
          /\ NoPkt.at \in [DOMAIN NoPkt.at -> Pos]
      BY WidthAssumption DEF NoPkt
    <2>. QED  BY <2>1 DEF PktKept, TInv, MainType
  <1>4. MainType'
    BY <1>3 DEF TInv, MainType
  <1>. QED  BY <1>1, <1>2, <1>4 DEF TInv, Places

LEMMA SendPingTypes ==
    ASSUME TInv, SendPing
    PROVE  TInv'
  <1>1. client \in Conns /\ At("send") /\ SendToClient(client, "Ping", Nothing)
    BY DEF SendPing, At, TInv, Places
  <1>2. \A k \in DOMAIN Nothing : Nothing[k] \in Pos
    BY DEF Nothing
  <1>3. /\ DOMAIN m_chaMap' \subseteq DOMAIN m_chaMap
        /\ m_chaMap' \in [DOMAIN m_chaMap' -> [conn : Conns, pos : Pos]]
        /\ dead' \in SUBSET Conns
        /\ first' \in [Conns -> OutCmds \union {"none"}]
        /\ view' \in [Conns -> [ChaIds -> Pos \union {Unknown}]]
    BY <1>1, <1>2, SendToClientTypes DEF OutCmds
  <1>4. /\ m_TCPConnections' \in Seq(Conns) /\ todo' \in SUBSET Conns
        /\ mpc' \in {"idle", "erase"} /\ PktKept
        /\ client' = client \/ (client' = NoConn /\ mpc' = "idle")
    BY DEF SendPing, Return, PktKept, TInv, AsioType, MainType
  <1>. QED  BY <1>1, <1>3, <1>4, HandlerTypes

LEMMA NotifyTypes ==
    ASSUME TInv, NEW c \in Conns, Notify(c)
    PROVE  TInv'
  <1> DEFINE at == [k \in {pkt.cha} |-> Origin]
  <1>1. client \in Conns /\ At("notify") /\ SendToClient(c, "PlyEnterWorld", at)
    BY DEF Notify, At, TInv, Places
  <1>2. \A k \in DOMAIN at : at[k] \in Pos
    BY PosAssumption
  <1> HIDE DEF at
  <1>3. /\ DOMAIN m_chaMap' \subseteq DOMAIN m_chaMap
        /\ m_chaMap' \in [DOMAIN m_chaMap' -> [conn : Conns, pos : Pos]]
        /\ dead' \in SUBSET Conns
        /\ first' \in [Conns -> OutCmds \union {"none"}]
        /\ view' \in [Conns -> [ChaIds -> Pos \union {Unknown}]]
    BY <1>1, <1>2, SendToClientTypes DEF OutCmds
  <1>4. /\ m_TCPConnections' \in Seq(Conns) /\ todo' \in SUBSET Conns
        /\ mpc' \in {"notify", "erase"} /\ PktKept /\ client' = client
    BY DEF Notify, PktKept, TInv, AsioType, MainType
  <1>. QED  BY <1>1, <1>3, <1>4, HandlerTypes

LEMMA SendWorldTypes ==
    ASSUME TInv, SendWorld
    PROVE  TInv'
  <1>1. client \in Conns /\ At("notify") /\ SendToClient(client, "SelfEnterWorld", pkt.at)
    BY DEF SendWorld, At, TInv, Places
  <1>2. \A k \in DOMAIN pkt.at : pkt.at[k] \in Pos
    BY DEF TInv, MainType
  <1>3. /\ DOMAIN m_chaMap' \subseteq DOMAIN m_chaMap
        /\ m_chaMap' \in [DOMAIN m_chaMap' -> [conn : Conns, pos : Pos]]
        /\ dead' \in SUBSET Conns
        /\ first' \in [Conns -> OutCmds \union {"none"}]
        /\ view' \in [Conns -> [ChaIds -> Pos \union {Unknown}]]
    BY <1>1, <1>2, SendToClientTypes DEF OutCmds
  <1>4. /\ m_TCPConnections' \in Seq(Conns) /\ todo' \in SUBSET Conns
        /\ mpc' \in {"idle", "erase"} /\ PktKept
        /\ client' = client \/ (client' = NoConn /\ mpc' = "idle")
    BY DEF SendWorld, Return, PktKept, TInv, AsioType, MainType
  <1>. QED  BY <1>1, <1>3, <1>4, HandlerTypes

LEMMA SendToAllTypes ==
    ASSUME TInv, NEW c \in Conns, SendToAll(c)
    PROVE  TInv'
  <1>1. client \in Conns /\ At("all")
    BY DEF SendToAll, At, TInv, Places
  <1>2. \A k \in DOMAIN Nothing : Nothing[k] \in Pos
    BY DEF Nothing
  <1>3. /\ DOMAIN m_chaMap' \subseteq DOMAIN m_chaMap
        /\ m_chaMap' \in [DOMAIN m_chaMap' -> [conn : Conns, pos : Pos]]
        /\ dead' \in SUBSET Conns
        /\ first' \in [Conns -> OutCmds \union {"none"}]
        /\ view' \in [Conns -> [ChaIds -> Pos \union {Unknown}]]
    <2>1. CASE Tell({c} \ {client}, "ServerMessage", Nothing) /\ UNCHANGED <<m_chaMap, dead>>
      BY <1>2, <2>1, TellTypes DEF OutCmds, TInv, MainType
    <2>2. CASE OnClientDisconnect(c) /\ dead' = dead \union {c} /\ UNCHANGED toldVars
      BY <2>2, OnClientDisconnectTypes DEF TInv, MainType, ToldType, toldVars
    <2>. QED  BY <2>1, <2>2 DEF SendToAll
  <1>4. /\ m_TCPConnections' \in Seq(Conns) /\ todo' \in SUBSET Conns
        /\ mpc' = "all" /\ PktKept /\ client' = client
    BY <1>1 DEF SendToAll, PktKept, TInv, AsioType, MainType, At
  <1>. QED  BY <1>1, <1>3, <1>4, HandlerTypes

LEMMA SendToAllDoneTypes ==
    ASSUME TInv, SendToAllDone
    PROVE  TInv'
  <1>1. client \in Conns /\ At("all")
    BY DEF SendToAllDone, At, TInv, Places
  <1>2. /\ m_TCPConnections' \in Seq(Conns) /\ todo' \in SUBSET Conns
        /\ mpc' \in {"idle", "erase"} /\ PktKept
        /\ client' = client \/ (client' = NoConn /\ mpc' = "idle")
    BY DEF SendToAllDone, Return, PktKept, TInv, AsioType, MainType
  <1>3. /\ DOMAIN m_chaMap' \subseteq DOMAIN m_chaMap
        /\ m_chaMap' \in [DOMAIN m_chaMap' -> [conn : Conns, pos : Pos]]
        /\ dead' \in SUBSET Conns
        /\ first' \in [Conns -> OutCmds \union {"none"}]
        /\ view' \in [Conns -> [ChaIds -> Pos \union {Unknown}]]
    BY DEF SendToAllDone, toldVars, TInv, MainType, ToldType
  <1>. QED  BY <1>1, <1>2, <1>3, HandlerTypes

\* What one step of the erase does to the list.
LEMMA Erasing ==
    ASSUME TInv, Erase
    PROVE  /\ At("erase") /\ UNCHANGED <<todo, m_chaMap, toldVars>> /\ client \in Conns
           /\ m_TCPConnections' \in Seq(Conns)
           /\ \/ /\ UNCHANGED <<mpc, client, pkt, dead>>
                 /\ \E i \in DOMAIN m_TCPConnections :
                       /\ m_TCPConnections[i] \in dead
                       /\ Removed(m_TCPConnections', m_TCPConnections, i)
              \/ /\ Resumed /\ UNCHANGED m_TCPConnections
                 /\ \A i \in DOMAIN m_TCPConnections : m_TCPConnections[i] \notin dead
  <1>1. client \in Conns /\ At("erase") /\ m_TCPConnections \in Seq(Conns)
    BY DEF Erase, At, TInv, Places, AsioType
  <1>2. ASSUME NEW i \in DOMAIN m_TCPConnections, m_TCPConnections[i] \in dead,
               m_TCPConnections' = SubSeq(m_TCPConnections, 1, i - 1)
                                      \o SubSeq(m_TCPConnections, i + 1, Len(m_TCPConnections)),
               UNCHANGED <<mpc, client, pkt, todo, dead, m_chaMap, toldVars>>
        PROVE  /\ UNCHANGED <<todo, m_chaMap, toldVars>> /\ UNCHANGED <<mpc, client, pkt, dead>>
               /\ m_TCPConnections' \in Seq(Conns)
               /\ Removed(m_TCPConnections', m_TCPConnections, i)
    <2>1. i \in 1..Len(m_TCPConnections)
      BY <1>1
    <2>. QED  BY <1>1, <1>2, <2>1, Removal
  <1>3. ASSUME Listed \intersect dead = {}, Resumed, UNCHANGED m_TCPConnections
        PROVE  /\ UNCHANGED <<todo, m_chaMap, toldVars>> /\ m_TCPConnections' \in Seq(Conns)
               /\ \A i \in DOMAIN m_TCPConnections : m_TCPConnections[i] \notin dead
    BY <1>1, <1>3 DEF Resumed, Listed
  <1>. QED  BY <1>1, <1>2, <1>3 DEF Erase

LEMMA EraseTypes ==
    ASSUME TInv, Erase
    PROVE  TInv'
  <1>1. /\ At("erase") /\ UNCHANGED <<todo, m_chaMap, toldVars>> /\ client \in Conns
        /\ m_TCPConnections' \in Seq(Conns)
        /\ UNCHANGED <<mpc, client, pkt, dead>> \/ Resumed
    BY Erasing
  <1>2. /\ todo' \in SUBSET Conns /\ mpc' \in {"idle", "notify", "erase"} /\ PktKept
        /\ client' = client \/ (client' = NoConn /\ mpc' = "idle")
        /\ dead' \in SUBSET Conns
    BY <1>1 DEF Resumed, Return, PktKept, TInv, MainType, At
  <1>3. /\ DOMAIN m_chaMap' \subseteq DOMAIN m_chaMap
        /\ m_chaMap' \in [DOMAIN m_chaMap' -> [conn : Conns, pos : Pos]]
        /\ first' \in [Conns -> OutCmds \union {"none"}]
        /\ view' \in [Conns -> [ChaIds -> Pos \union {Unknown}]]
    BY <1>1 DEF toldVars, TInv, MainType, ToldType
  <1>. QED  BY <1>1, <1>2, <1>3, HandlerTypes

LEMMA InitTypes == Init => TInv
  <1>. SUFFICES ASSUME Init PROVE TInv
    OBVIOUS
  <1>1. AsioType
    <2>1. IdMod \in 0..IdMod /\ 0 \in 0..MaxPkts
      BY WidthAssumption
    <2>2. m_sID \in [Conns -> 0..IdMod] /\ received \in 0..MaxPkts
      BY <2>1 DEF Init, NoId
    <2>3. crashed \in BOOLEAN /\ raced \in BOOLEAN
      BY DEF Init
    <2>4. conn \in [Conns -> {"unused", "backlog", "accepted"}]
      BY DEF Init
    <2>5. /\ gone \in SUBSET Conns /\ apc \in {"idle", "greeted", "listed", "served"}
          /\ newconn \in Conns \union {NoConn} /\ m_IDCnt \in 0..(IdMod - 1)
          /\ open \in SUBSET Conns /\ reading \in SUBSET Conns /\ late \in SUBSET Busy
      BY DEF Init
    <2>6. /\ m_TCP_PktIn \in Seq([client : Conns, cmd : Cmds, pos : Pos])
          /\ m_TCPConnections \in Seq(Conns)
      BY DEF Init
    <2>. QED  BY <2>2, <2>3, <2>4, <2>5, <2>6 DEF AsioType
  <1>2. MainType
    <2>1. pkt = NoPkt /\ m_chaMap = [k \in {} |-> 0] /\ mpc = "idle" /\ client = NoConn
          /\ todo = {} /\ dead = {}
      BY DEF Init
    <2>2. /\ NoPkt.cha \in 0..ChaMod /\ DOMAIN NoPkt.at \subseteq ChaIds
          /\ NoPkt.at \in [DOMAIN NoPkt.at -> Pos]
      BY WidthAssumption DEF NoPkt
    <2>. QED  BY <2>1, <2>2 DEF MainType
  <1>3. ToldType
    BY DEF Init, ToldType
  <1>. QED  BY <1>1, <1>2, <1>3 DEF TInv, Places, Init

LEMMA StutterTypes == TInv /\ UNCHANGED vars => TInv'
  <1>. SUFFICES ASSUME TInv, UNCHANGED vars PROVE TInv'
    OBVIOUS
  <1> USE DEF TInv, vars, clientVars, asioVars, sharedVars, mainVars, worldVars, toldVars
  <1>1. AsioType'
    BY DEF AsioType
  <1>2. MainType'
    BY DEF MainType
  <1>3. ToldType' /\ Places'
    BY DEF ToldType, Places
  <1>. QED  BY <1>1, <1>2, <1>3

\* The disjuncts of a step.
LEMMA Steps ==
    ASSUME [Next]_vars
    PROVE  \/ \E c \in Conns : \/ ClientConnects(c) \/ ClientGone(c) \/ AcceptThrows(c)
                               \/ OnClientConnect(c) \/ CloseSocket(c) \/ LateHandler(c)
                               \/ Notify(c) \/ SendToAll(c)
                               \/ \E cmd \in Cmds, p \in Pos : Receive(c, cmd, p)
           \/ PushBack \/ ConnectToClient \/ Approved \/ CrashOnBack
           \/ OnPing \/ OnMessageAll \/ OnSelfEnterWorld \/ OnMovePlayer
           \/ SendPing \/ SendWorld \/ SendToAllDone \/ Erase
           \/ UNCHANGED vars
  BY DEF Next, AcceptHandler, OnPacket, Handler

LEMMA TInvariant == Spec => []TInv
  <1>1. TInv /\ [Next]_vars => TInv'
    <2>. SUFFICES ASSUME TInv, [Next]_vars PROVE TInv'
      OBVIOUS
    <2>. QED  BY Steps, ClientsKeepTypes, AcceptThrowsKeepsTypes, OnClientConnectKeepsTypes,
                 PushBackKeepsTypes, UsesOfBackKeepTypes, ReceiveKeepsTypes,
                 ClosesKeepTypes, PingTypes, EnterTypes, MoveTypes, SendPingTypes,
                 NotifyTypes, SendWorldTypes, SendToAllTypes, SendToAllDoneTypes,
                 EraseTypes, StutterTypes
  <1>. QED  BY <1>1, InitTypes, PTL DEF Spec

\* The state keeps its types, in particular nobody is sent to who never connected.
THEOREM TypeCorrect == Spec => []TypeOK
  <1>1. TInv => TypeOK
    BY TypeParts DEF TInv
  <1>. QED  BY <1>1, TInvariant, PTL
=============================================================================
