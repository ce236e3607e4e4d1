---------------------------- MODULE ClientProofs ----------------------------
(***************************************************************************)
(* Proofs about Client for any number of sessions, packets and endpoints:  *)
(* no handler runs on a destroyed connection, the script takes the         *)
(* received packets in order, each once, the state keeps its types, and no *)
(* socket is left open with nobody to serve it.                            *)
(*                                                                         *)
(* The last two rest on a count of what is outstanding: the completions on *)
(* the queue and the operations in the system, of each connection and of   *)
(* each kind (ReadOps, WriteOps, SendOps), and all of them (Load), which   *)
(* is what outstanding_work_ says.  Adds(c, r, w, s) is a step that        *)
(* changes these counts; Inv is the inductive invariant.                   *)
(***************************************************************************)
EXTENDS Client, SequenceTheorems, FiniteSetTheorems, TLAPS

\* Every connection that is held was given a thread, which is not joined before
\* the connection is released: the only way to destroy one ends the program.
Held ==
    /\ m_TCPConnection # NoSession /\ mpc # "assign" => thread # "none"
    /\ destroyed # {} => mpc \in {"assign", "terminated"} /\ thread # "none"
    /\ mpc \in {"idle", "assign", "stop", "join", "terminated"}

\* The steps of the ASIO thread and of the system.
LEMMA HandlersKeepHeld ==
    ASSUME Held, Thread
    PROVE  Held'
  <1>1. UNCHANGED mainVars
    BY DEF Thread, RunContext, CloseForNext, ConnectNext, ConnectFailed, Connected, ReadDone, RunSend,
           WriteDone, CloseSocket, Handles, Handler
  <1>2. thread' = thread \/ thread' \in {"running", "ended"}
    <2>1. CASE RunContext
      BY <2>1 DEF RunContext, EnterRun, LeaveRun
    <2>2. CASE \E c \in Sessions : CloseForNext(c) \/ ConnectNext(c) \/ ConnectFailed(c)
                                     \/ Connected(c) \/ ReadDone(c) \/ RunSend(c)
                                     \/ WriteDone(c) \/ CloseSocket(c)
      BY <2>2 DEF CloseForNext, ConnectNext, ConnectFailed, Connected, ReadDone, RunSend, WriteDone,
                  CloseSocket, ReadHeader, WriteHeader, Close, Return, contextVars
    <2>. QED  BY <2>1, <2>2 DEF Thread
  <1>. QED  BY <1>1, <1>2 DEF Held, mainVars

LEMMA SystemKeepsHeld ==
    ASSUME Held, NEW c \in Sessions, NEW ok \in BOOLEAN,
           ServerSends(c) \/ ConnectEnds(c, ok) \/ ReadEnds(c, ok) \/ WriteEnds(c, ok)
    PROVE  Held'
  BY DEF ServerSends, ConnectEnds, ReadEnds, WriteEnds, SystemUnchanged, Complete,
         Held, mainVars, contextVars

LEMMA MainKeepsHeld ==
    ASSUME Held, Main
    PROVE  Held'
  <1>1. CASE Connect
    BY <1>1 DEF Held, Connect
  <1>2. CASE AssignThread
    BY <1>2 DEF Held, AssignThread
  <1>3. CASE Disconnect
    BY <1>3 DEF Held, Disconnect, Post, contextVars
  <1>4. CASE Stop
    BY <1>4 DEF Held, Stop
  <1>5. CASE Join
    BY <1>5 DEF Held, Join
  <1>6. CASE SendToServer
    BY <1>6 DEF Held, SendToServer, Post, mainVars
  <1>. QED  BY <1>1, <1>2, <1>3, <1>4, <1>5, <1>6 DEF Main

LEMMA HeldInvariant == Spec => []Held
  <1>1. Init => Held
    BY DEF Init, ContextInit, Held
  <1>2. Held /\ [Next]_vars => Held'
    <2>. SUFFICES ASSUME Held, [Next]_vars PROVE Held'
      OBVIOUS
    <2>1. CASE Main
      BY <2>1, MainKeepsHeld
    <2>2. CASE Thread
      BY <2>2, HandlersKeepHeld
    <2>3. CASE Frame
      BY <2>3 DEF Frame, Process, PrepareNextPkt, Held, mainVars, contextVars
    <2>4. CASE \E c \in Sessions : \/ ServerSends(c)
                                   \/ \E ok \in BOOLEAN : ConnectEnds(c, ok) \/ ReadEnds(c, ok)
                                                            \/ WriteEnds(c, ok)
      BY <2>4, SystemKeepsHeld
    <2>5. CASE UNCHANGED vars
      BY <2>5 DEF Held, vars, mainVars, contextVars
    <2>. QED  BY <2>1, <2>2, <2>3, <2>4, <2>5 DEF Next
  <1>. QED  BY <1>1, <1>2, PTL DEF Spec

\* No handler finds its connection destroyed: release() and join() together
\* protect the raw this in the handlers of NetTCPConnection.h.
THEOREM NoDanglingHandler == Spec => []HandlersFindTheirConnection
  <1>1. Held => HandlersFindTheirConnection
    BY DEF Held, HandlersFindTheirConnection
  <1>. QED  BY <1>1, HeldInvariant, PTL
-----------------------------------------------------------------------------
Numbered == Sessions \X Nat

\* What was put into m_PktIn is what was taken, then what is there now; the
\* packet the script looks at is the one in front.
Split ==
    /\ m_tmpPktIn \in [Sessions -> Nat]
    /\ m_PktIn \in Seq(Numbered) /\ pushed \in Seq(Numbered) /\ taken \in Seq(Numbered)
    /\ Len(pushed) = Len(taken) + Len(m_PktIn)
    /\ \A i \in 1..Len(taken) : taken[i] = pushed[i]
    /\ \A i \in 1..Len(m_PktIn) : m_PktIn[i] = pushed[Len(taken) + i]
    /\ m_pktIn # Invalid => m_PktIn # <<>> /\ m_pktIn = m_PktIn[1]

queueVars == <<m_PktIn, pushed, taken, m_pktIn>>

\* What push_back does to a sequence.
LEMMA AppendFacts ==
    ASSUME NEW S, NEW s \in Seq(S), NEW e \in S
    PROVE  /\ Append(s, e) \in Seq(S) /\ Len(Append(s, e)) = Len(s) + 1
           /\ \A i \in 1..Len(s) : Append(s, e)[i] = s[i]
           /\ Append(s, e)[Len(s) + 1] = e
  BY AppendProperties

\* PrepareNextPkt takes the packet in front, which is the one that was shown.
LEMMA TakingSplits ==
    ASSUME Split, PrepareNextPkt
    PROVE  Split'
  <1> USE DEF Split, PrepareNextPkt
  <1>1. m_PktIn # <<>> /\ m_pktIn = m_PktIn[1] /\ Len(m_PktIn) \in Nat \ {0}
    BY EmptySeq
  <1>2. /\ m_PktIn' \in Seq(Numbered) /\ Len(m_PktIn') = Len(m_PktIn) - 1
        /\ \A i \in 1..Len(m_PktIn') : m_PktIn'[i] = m_PktIn[i + 1]
    BY <1>1, HeadTailProperties
  <1>3. m_pktIn \in Numbered /\ m_pktIn = pushed[Len(taken) + 1]
    BY <1>1
  <1>4. /\ taken' \in Seq(Numbered) /\ Len(taken') = Len(taken) + 1
        /\ \A i \in 1..Len(taken) : taken'[i] = taken[i]
        /\ taken'[Len(taken) + 1] = m_pktIn
    BY <1>3, AppendFacts
  <1>5. pushed' = pushed /\ m_tmpPktIn' = m_tmpPktIn /\ m_pktIn' = Invalid
    BY DEF connVars
  <1>6. \A i \in 1..Len(taken') : taken'[i] = pushed'[i]
    BY <1>3, <1>4, <1>5
  <1>7. ASSUME NEW i \in 1..Len(m_PktIn')
        PROVE  m_PktIn'[i] = pushed'[Len(taken') + i]
    <2>1. i + 1 \in 1..Len(m_PktIn) /\ Len(taken) \in Nat
      BY <1>1, <1>2
    <2>2. m_PktIn[i + 1] = pushed[Len(taken) + (i + 1)]
      BY <2>1
    <2>3. Len(taken) + (i + 1) = Len(taken') + i
      BY <1>4, <2>1
    <2>. QED  BY <1>2, <1>5, <2>2, <2>3
  <1>8. m_tmpPktIn' \in [Sessions -> Nat] /\ pushed' \in Seq(Numbered)
    BY <1>5
  <1>9. Len(pushed) = Len(taken) + Len(m_PktIn) /\ Len(taken) \in Nat
    OBVIOUS
  <1> HIDE DEF Split, PrepareNextPkt
  <1>10. Len(pushed') = Len(taken') + Len(m_PktIn')
    BY <1>1, <1>2, <1>4, <1>5, <1>9
  <1>. QED  BY <1>2, <1>4, <1>5, <1>6, <1>7, <1>8, <1>10 DEF Split

\* PushToIncomingQueue adds at the other end.
LEMMA PushingSplits ==
    ASSUME Split, NEW c \in Sessions, Push(c), UNCHANGED <<taken, m_pktIn, m_tmpPktIn>>
    PROVE  Split'
  <1> DEFINE p == <<c, m_tmpPktIn[c]>>
  <1>0. m_PktIn' = Append(m_PktIn, p) /\ pushed' = Append(pushed, p)
    BY DEF Push
  <1>1. p \in Numbered /\ m_PktIn \in Seq(Numbered) /\ pushed \in Seq(Numbered)
    BY DEF Split, Numbered
  <1> HIDE DEF p
  <1>2. /\ m_PktIn' \in Seq(Numbered) /\ Len(m_PktIn') = Len(m_PktIn) + 1
        /\ \A i \in 1..Len(m_PktIn) : m_PktIn'[i] = m_PktIn[i]
        /\ m_PktIn'[Len(m_PktIn) + 1] = p
    BY <1>0, <1>1, AppendFacts
  <1>3. /\ pushed' \in Seq(Numbered) /\ Len(pushed') = Len(pushed) + 1
        /\ \A i \in 1..Len(pushed) : pushed'[i] = pushed[i]
        /\ pushed'[Len(pushed) + 1] = p
    BY <1>0, <1>1, AppendFacts
  <1>4. Len(m_PktIn) \in Nat /\ Len(taken) \in Nat /\ Len(pushed) \in Nat
    BY DEF Split
  <1>5. m_pktIn' # Invalid => m_PktIn' # <<>> /\ m_pktIn' = m_PktIn'[1]
    <2>. SUFFICES ASSUME m_pktIn # Invalid PROVE m_PktIn' # <<>> /\ m_pktIn = m_PktIn'[1]
      OBVIOUS
    <2>1. m_PktIn # <<>> /\ m_pktIn = m_PktIn[1] /\ Len(m_PktIn) # 0
      BY EmptySeq DEF Split
    <2>. QED  BY <2>1, <1>2, <1>4, EmptySeq
  <1>6. \A i \in 1..Len(taken') : taken'[i] = pushed'[i]
    BY <1>3, <1>4 DEF Split
  <1>7. ASSUME NEW i \in 1..Len(m_PktIn')
        PROVE  m_PktIn'[i] = pushed'[Len(taken') + i]
    <2>1. Len(pushed) = Len(taken) + Len(m_PktIn) /\ Len(taken') = Len(taken)
      BY DEF Split
    <2>2. CASE i = Len(m_PktIn) + 1
      <3>1. Len(taken') + i = Len(pushed) + 1
        BY <1>4, <2>1, <2>2
      <3>. QED  BY <1>2, <1>3, <2>2, <3>1
    <2>3. CASE i # Len(m_PktIn) + 1
      <3>1. i \in 1..Len(m_PktIn) /\ Len(taken') + i \in 1..Len(pushed)
        BY <1>2, <1>4, <2>1, <2>3
      <3>2. m_PktIn[i] = pushed[Len(taken') + i]
        BY <2>1, <3>1 DEF Split
      <3>. QED  BY <1>2, <1>3, <3>1, <3>2
    <2>. QED  BY <2>2, <2>3
  <1>. QED  BY <1>2, <1>3, <1>4, <1>5, <1>6, <1>7 DEF Split

LEMMA HandlersKeepSplit ==
    ASSUME Split, Thread
    PROVE  Split'
  <1>1. UNCHANGED <<scriptVars, m_tmpPktIn>>
    BY DEF Thread, RunContext, CloseForNext, ConnectNext, ConnectFailed, Connected, ReadDone, RunSend,
           WriteDone, CloseSocket, Handles, Handler
  <1>2. CASE \E c \in Sessions : ReadDone(c)
    BY <1>1, <1>2, PushingSplits DEF ReadDone, scriptVars
  <1>3. CASE RunContext \/ \E c \in Sessions : CloseForNext(c) \/ ConnectNext(c)
                             \/ ConnectFailed(c) \/ Connected(c) \/ RunSend(c) \/ WriteDone(c) \/ CloseSocket(c)
    <2>1. UNCHANGED <<m_PktIn, pushed>>
      BY <1>3 DEF RunContext, CloseForNext, ConnectNext, ConnectFailed, Connected, RunSend, WriteDone,
                  CloseSocket
    <2>. QED  BY <1>1, <2>1 DEF Split, scriptVars
  <1>. QED  BY <1>2, <1>3 DEF Thread

LEMMA SystemKeepsSplit ==
    ASSUME Split, NEW c \in Sessions, NEW ok \in BOOLEAN,
           ServerSends(c) \/ ConnectEnds(c, ok) \/ ReadEnds(c, ok) \/ WriteEnds(c, ok)
    PROVE  Split'
  <1>1. UNCHANGED queueVars
    BY DEF ServerSends, ConnectEnds, ReadEnds, WriteEnds, SystemUnchanged, queueVars, scriptVars
  <1>2. m_tmpPktIn' \in [Sessions -> Nat]
    BY DEF ServerSends, ConnectEnds, ReadEnds, WriteEnds, Split
  <1>. QED  BY <1>1, <1>2 DEF Split, queueVars

LEMMA SplitInvariant == Spec => []Split
  <1>1. Init => Split
    BY DEF Init, Split
  <1>2. Split /\ [Next]_vars => Split'
    <2>. SUFFICES ASSUME Split, [Next]_vars PROVE Split'
      OBVIOUS
    <2>1. CASE Main
      BY <2>1 DEF Main, Connect, AssignThread, Disconnect, Stop, Join, SendToServer, Split,
                  connVars, scriptVars
    <2>2. CASE Thread
      BY <2>2, HandlersKeepSplit
    <2>3. CASE Process
      <3>1. m_pktIn' = m_PktIn[1] /\ m_PktIn # <<>>
        BY <2>3 DEF Process
      <3>2. UNCHANGED <<m_PktIn, pushed, taken, m_tmpPktIn>>
        BY <2>3 DEF Process, connVars
      <3>. QED  BY <3>1, <3>2 DEF Split
    <2>4. CASE PrepareNextPkt
      BY <2>4, TakingSplits
    <2>5. CASE \E c \in Sessions : \/ ServerSends(c)
                                   \/ \E ok \in BOOLEAN : ConnectEnds(c, ok) \/ ReadEnds(c, ok)
                                                            \/ WriteEnds(c, ok)
      BY <2>5, SystemKeepsSplit
    <2>6. CASE UNCHANGED vars
      BY <2>6 DEF Split, vars, connVars, scriptVars
    <2>. QED  BY <2>1, <2>2, <2>3, <2>4, <2>5, <2>6 DEF Next, Frame
  <1>. QED  BY <1>1, <1>2, PTL DEF Spec

\* The script gets what was received, in order and each packet once, though
\* _process and PrepareNextPkt look at m_PktIn without a lock between them.
THEOREM PacketsInOrder == Spec => []TakenInOrder
  <1>1. Split => TakenInOrder
    BY DEF Split, TakenInOrder
  <1>. QED  BY <1>1, SplitInvariant, PTL
-----------------------------------------------------------------------------
(* Counting the entries of a sequence *)

\* The number of entries of q that are in S.
Indices(q, S) == {i \in 1..Len(q) : q[i] \in S}
Count(q, S) == Cardinality(Indices(q, S))

LEMMA CountFacts ==
    ASSUME NEW P, NEW q \in Seq(P), NEW S
    PROVE  /\ IsFiniteSet(Indices(q, S)) /\ Count(q, S) \in Nat
           /\ Count(q, S) = 0 <=> \A i \in 1..Len(q) : q[i] \notin S
  <1>1. Len(q) \in Nat /\ Indices(q, S) \in SUBSET (1..Len(q))
    BY DEF Indices
  <1>2. IsFiniteSet(Indices(q, S))
    <2>1. IsFiniteSet(1..Len(q))
      BY <1>1, FS_Interval
    <2>. QED  BY <1>1, <2>1, FS_Subset
  <1>3. Count(q, S) \in Nat
    BY <1>2, FS_CardinalityType DEF Count
  <1>4. Count(q, S) = 0 <=> Indices(q, S) = {}
    BY <1>2, FS_EmptySet DEF Count
  <1>. QED  BY <1>2, <1>3, <1>4 DEF Indices

\* A set of positions moved by n has as many elements.
LEMMA Shifted ==
    ASSUME NEW A \in SUBSET Nat, IsFiniteSet(A), NEW B \in SUBSET Nat, NEW n \in Int,
           \A i \in A : i + n \in B, \A j \in B : j - n \in A
    PROVE  IsFiniteSet(B) /\ Cardinality(B) = Cardinality(A)
  <1> DEFINE f == [i \in A |-> i + n]
  <1>1. f \in [A -> B] /\ \A i, j \in A : f[i] = f[j] => i = j
    OBVIOUS
  <1>2. \A j \in B : j - n \in A /\ f[j - n] = j
    OBVIOUS
  <1> HIDE DEF f
  <1>3. f \in Injection(A, B) /\ f \in Surjection(A, B)
    <2>1. f \in Injection(A, B)
      BY <1>1 DEF Injection, IsInjective
    <2>2. f \in Surjection(A, B)
      BY <1>1, <1>2 DEF Surjection
    <2>. QED  BY <2>1, <2>2
  <1>4. ExistsBijection(A, B)
    BY <1>3 DEF ExistsBijection, Bijection
  <1>. QED  BY <1>4, FS_Bijection

LEMMA CountConcat ==
    ASSUME NEW P, NEW q \in Seq(P), NEW r \in Seq(P), NEW S
    PROVE  Count(q \o r, S) = Count(q, S) + Count(r, S)
  <1> DEFINE m == Len(q)
             A == Indices(q, S)
             R == Indices(r, S)
             B == {i \in (m + 1)..(m + Len(r)) : r[i - m] \in S}
  <1>1. m \in Nat /\ Len(r) \in Nat
    OBVIOUS
  <1>2. /\ q \o r \in Seq(P) /\ Len(q \o r) = m + Len(r)
        /\ \A i \in 1..(m + Len(r)) : (q \o r)[i] = IF i <= m THEN q[i] ELSE r[i - m]
    BY ConcatProperties
  <1>3. Indices(q \o r, S) = A \cup B /\ A \cap B = {}
    BY <1>1, <1>2 DEF Indices
  <1>4. IsFiniteSet(A) /\ IsFiniteSet(R)
    BY CountFacts
  <1>5. IsFiniteSet(B) /\ Cardinality(B) = Cardinality(R)
    <2>1. R \in SUBSET Nat /\ B \in SUBSET Nat /\ m \in Int
      BY <1>1 DEF Indices
    <2>2. (\A i \in R : i + m \in B) /\ (\A j \in B : j - m \in R)
      BY <1>1 DEF Indices
    <2>. HIDE DEF R, B, m
    <2>. QED  BY <1>1, <1>4, <2>1, <2>2, Shifted
  <1>6. Cardinality(A) \in Nat /\ Cardinality(R) \in Nat
    BY <1>4, FS_CardinalityType
  <1> HIDE DEF A, B, R
  <1>7. Cardinality(A \cup B) = Cardinality(A) + Cardinality(B) - Cardinality({})
    BY <1>3, <1>4, <1>5, FS_Union
  <1>8. Cardinality(A \cup B) = Cardinality(A) + Cardinality(R)
    BY <1>5, <1>6, <1>7, FS_EmptySet
  <1>. QED  BY <1>3, <1>8 DEF Count, A, R

LEMMA CountOne ==
    ASSUME NEW e, NEW S
    PROVE  Count(<<e>>, S) = IF e \in S THEN 1 ELSE 0
  <1>1. Indices(<<e>>, S) = IF e \in S THEN {1} ELSE {}
    BY DEF Indices
  <1>. QED  BY <1>1, FS_Singleton, FS_EmptySet DEF Count

LEMMA CountNone ==
    ASSUME NEW S
    PROVE  Count(<<>>, S) = 0
  <1>1. Indices(<<>>, S) = {}
    BY DEF Indices
  <1>. QED  BY <1>1, FS_EmptySet DEF Count

LEMMA CountAppend ==
    ASSUME NEW P, NEW q \in Seq(P), NEW e \in P, NEW S
    PROVE  Count(Append(q, e), S) = Count(q, S) + (IF e \in S THEN 1 ELSE 0)
  <1>1. <<e>> \in Seq(P) /\ Append(q, e) = q \o <<e>>
    BY AppendIsConcat
  <1>2. Count(q \o <<e>>, S) = Count(q, S) + Count(<<e>>, S)
    BY <1>1, CountConcat
  <1>. QED  BY <1>1, <1>2, CountOne

LEMMA CountTail ==
    ASSUME NEW P, NEW q \in Seq(P), q # <<>>, NEW S
    PROVE  /\ Tail(q) \in Seq(P)
           /\ Count(q, S) = Count(Tail(q), S) + (IF Head(q) \in S THEN 1 ELSE 0)
  <1>1. /\ Tail(q) \in Seq(P) /\ Head(q) \in P /\ <<Head(q)>> \in Seq(P)
        /\ Len(Tail(q)) = Len(q) - 1 /\ Len(q) \in Nat \ {0}
        /\ \A i \in 1..Len(Tail(q)) : Tail(q)[i] = q[i + 1]
        /\ Head(q) = q[1]
    BY HeadTailProperties, EmptySeq
  <1>2. q = <<Head(q)>> \o Tail(q)
    <2> DEFINE h == <<Head(q)>>
               t == Tail(q)
    <2>1. h \in Seq(P) /\ t \in Seq(P) /\ Len(h) = 1 /\ h[1] = q[1] /\ Len(t) \in Nat
      BY <1>1
    <2>2. Len(t) = Len(q) - 1 /\ \A i \in 1..Len(t) : t[i] = q[i + 1]
      BY <1>1
    <2> HIDE DEF h, t
    <2>3. /\ h \o t \in Seq(P) /\ Len(h \o t) = 1 + Len(t)
          /\ \A i \in 1..(1 + Len(t)) : (h \o t)[i] = IF i <= 1 THEN h[i] ELSE t[i - 1]
      <3>1. /\ h \o t \in Seq(P) /\ Len(h \o t) = Len(h) + Len(t)
            /\ \A i \in 1..(Len(h) + Len(t)) :
                  (h \o t)[i] = IF i <= Len(h) THEN h[i] ELSE t[i - Len(h)]
        BY <2>1, ConcatProperties
      <3>. QED  BY <2>1, <3>1
    <2>4. Len(h \o t) = Len(q)
      BY <1>1, <2>2, <2>3
    <2>5. \A i \in 1..Len(q) : q[i] = (h \o t)[i]
      <3>. SUFFICES ASSUME NEW i \in 1..Len(q) PROVE q[i] = (h \o t)[i]
        OBVIOUS
      <3>1. CASE i = 1
        BY <1>1, <2>1, <2>2, <2>3, <3>1
      <3>2. CASE i # 1
        <4>1. i - 1 \in 1..Len(t) /\ i \in 1..(1 + Len(t)) /\ ~(i <= 1)
          BY <1>1, <2>2, <3>2
        <4>2. t[i - 1] = q[(i - 1) + 1] /\ (i - 1) + 1 = i
          BY <2>2, <4>1
        <4>. QED  BY <2>3, <4>1, <4>2
      <3>. QED  BY <3>1, <3>2
    <2>6. q = h \o t
      BY <2>3, <2>4, <2>5, SeqEqual
    <2>. QED  BY <2>6 DEF h, t
  <1>3. Count(<<Head(q)>> \o Tail(q), S) = Count(<<Head(q)>>, S) + Count(Tail(q), S)
    BY <1>1, CountConcat
  <1>4. Count(q, S) = Count(<<Head(q)>>, S) + Count(Tail(q), S)
    BY <1>2, <1>3
  <1>5. Count(Tail(q), S) \in Nat
    BY <1>1, CountFacts
  <1>6. Count(<<Head(q)>>, S) = IF Head(q) \in S THEN 1 ELSE 0
    BY CountOne
  <1>. QED  BY <1>1, <1>4, <1>5, <1>6

-----------------------------------------------------------------------------
(* What is outstanding *)

Packets == Completion \union {StopEvent}

\* Completions of c of the kinds K, and operations of c: those in the system
\* and those that are finished, their handler still to be run.
Of(c, K) == {e \in Completion : e.conn = c /\ e.kind \in K}
ReadOps(c)  == Count(iocp, Of(c, {"connect", "read"})) + (IF rd[c] = "none" THEN 0 ELSE 1)
WriteOps(c) == Count(iocp, Of(c, {"write"})) + (IF c \in wr THEN 1 ELSE 0)
SendOps(c)  == Count(iocp, Of(c, {"send"}))

\* Everything a handler is still to be run for.
Reading == {c \in Sessions : rd[c] # "none"}
Load == Count(iocp, Completion) + Cardinality(Reading) + Cardinality(wr)

Queues ==
    /\ iocp \in Seq(Packets)
    /\ rd \in [Sessions -> {"none", "connect", "read"}]
    /\ wr \in SUBSET Sessions
    /\ outstanding_work_ = Load

\* A step after which c has r, w and s more reads, writes and sends to come,
\* and the context knows of them.
Adds(c, r, w, s) ==
    /\ iocp' \in Seq(Packets)
    /\ \A d \in Sessions :
        /\ ReadOps(d)'  = ReadOps(d)  + (IF d = c THEN r ELSE 0)
        /\ WriteOps(d)' = WriteOps(d) + (IF d = c THEN w ELSE 0)
        /\ SendOps(d)'  = SendOps(d)  + (IF d = c THEN s ELSE 0)
    /\ outstanding_work_' = Load'

LEMMA OfFacts ==
    ASSUME NEW c \in Sessions, NEW k \in Kinds, NEW ok \in BOOLEAN
    PROVE  /\ Done(c, k, ok) \in Completion /\ Done(c, k, ok) \in Packets
           /\ Done(c, k, ok) # StopEvent
           /\ \A d, K : Done(c, k, ok) \in Of(d, K) <=> d = c /\ k \in K
  <1>1. Done(c, k, ok) \in Completion
    BY DEF Done, Completion
  <1>2. Done(c, k, ok).conn = c /\ Done(c, k, ok).kind = k
    BY DEF Done
  <1> HIDE DEF Done
  <1>. QED  BY <1>1, <1>2, StopAssumption DEF StopAssumption, Packets, Of

LEMMA OfAborted ==
    ASSUME NEW c \in Sessions, NEW k \in Kinds, NEW d, NEW K
    PROVE  Done(c, k, FALSE) \in Of(d, K) <=> d = c /\ k \in K
  <1>1. Done(c, k, FALSE) \in Completion
    BY DEF Done, Completion
  <1>2. Done(c, k, FALSE).conn = c /\ Done(c, k, FALSE).kind = k
    BY DEF Done
  <1> HIDE DEF Done
  <1>. QED  BY <1>1, <1>2 DEF Of

LEMMA OfFailed ==
    ASSUME NEW c \in Sessions
    PROVE  \A d, K : /\ Done(c, "read", FALSE) \in Of(d, K) <=> d = c /\ "read" \in K
                     /\ Done(c, "write", FALSE) \in Of(d, K) <=> d = c /\ "write" \in K
  <1>1. "read" \in Kinds /\ "write" \in Kinds
    BY DEF Kinds
  <1>. QED  BY <1>1, OfAborted

LEMMA OfType == \A d, K : Of(d, K) \in SUBSET Completion
  BY DEF Of

LEMMA ShortQueues ==
    /\ <<>> \in Seq(Completion)
    /\ \A e \in Completion : <<e>> \in Seq(Completion)
  BY EmptySeq

LEMMA SeqOfPackets ==
    ASSUME NEW q \in Seq(Completion)
    PROVE  q \in Seq(Packets)
  BY SeqMonotonic DEF Packets

\* The queue after a step: es behind q, then perhaps the stop event.
LEMMA Flow ==
    ASSUME NEW q \in Seq(Packets), NEW es \in Seq(Completion), NEW S \in SUBSET Completion,
           iocp' \in {q \o es, Append(q \o es, StopEvent)}
    PROVE  /\ iocp' \in Seq(Packets)
           /\ Count(iocp', S) = Count(q, S) + Count(es, S)
  <1> DEFINE p == q \o es
  <1>1. es \in Seq(Packets)
    BY SeqOfPackets
  <1>2. p \in Seq(Packets) /\ Count(p, S) = Count(q, S) + Count(es, S)
    BY <1>1, ConcatProperties, CountConcat
  <1>0. iocp' \in {p, Append(p, StopEvent)}
    OBVIOUS
  <1>3. StopEvent \in Packets /\ StopEvent \notin S
    BY StopAssumption DEF StopAssumption, Packets
  <1> HIDE DEF p
  <1>4. /\ Append(p, StopEvent) \in Seq(Packets)
        /\ Count(Append(p, StopEvent), S) = Count(p, S)
    <2>1. Count(Append(p, StopEvent), S) = Count(p, S) + 0
      BY <1>2, <1>3, CountAppend
    <2>2. Count(p, S) \in Nat
      BY <1>2, CountFacts
    <2>. QED  BY <1>2, <1>3, <2>1, <2>2, AppendProperties
  <1>. QED  BY <1>0, <1>2, <1>4

LEMMA AbortedCounts ==
    ASSUME NEW c \in Sessions, Queues, NEW S
    PROVE  /\ Aborted(c) \in Seq(Completion)
           /\ Count(Aborted(c), S) =
                  (IF rd[c] # "none" /\ Done(c, rd[c], FALSE) \in S THEN 1 ELSE 0)
                  + (IF c \in wr /\ Done(c, "write", FALSE) \in S THEN 1 ELSE 0)
  <1> DEFINE r == IF rd[c] = "none" THEN <<>> ELSE <<Done(c, rd[c], FALSE)>>
             w == IF c \in wr THEN <<Done(c, "write", FALSE)>> ELSE <<>>
  <1>1. r \in Seq(Completion)
    <2>1. CASE rd[c] = "none"
      BY <2>1, ShortQueues
    <2>2. CASE rd[c] # "none"
      <3>1. rd[c] \in Kinds
        BY <2>2 DEF Queues, Kinds
      <3>2. Done(c, rd[c], FALSE) \in Completion
        BY <3>1, OfFacts
      <3>. QED  BY <2>2, <3>2, ShortQueues
    <2>. QED  BY <2>1, <2>2
  <1>2. w \in Seq(Completion)
    <2>1. Done(c, "write", FALSE) \in Completion
      BY OfFacts DEF Kinds
    <2>. QED  BY <2>1, ShortQueues
  <1>3. Count(r, S) = IF rd[c] # "none" /\ Done(c, rd[c], FALSE) \in S THEN 1 ELSE 0
    BY CountOne, CountNone
  <1>4. Count(w, S) = IF c \in wr /\ Done(c, "write", FALSE) \in S THEN 1 ELSE 0
    BY CountOne, CountNone
  <1>5. Aborted(c) = r \o w
    BY DEF Aborted
  <1> HIDE DEF r, w
  <1>6. r \o w \in Seq(Completion)
    BY <1>1, <1>2, ConcatProperties
  <1>7. Count(r \o w, S) = Count(r, S) + Count(w, S)
    BY <1>1, <1>2, CountConcat
  <1>. QED  BY <1>3, <1>4, <1>5, <1>6, <1>7

\* A handler returns.
LEMMA ReturnFlows ==
    ASSUME NEW n \in {0, 1}, NEW es, Return(n, es)
    PROVE  /\ iocp' \in {Tail(iocp) \o es, Append(Tail(iocp) \o es, StopEvent)}
           /\ outstanding_work_' = outstanding_work_ + n - 1
           /\ UNCHANGED thread
  BY DEF Return, StopOn

LEMMA HandlerCounts ==
    ASSUME Queues, NEW e \in Completion, Serves(e), NEW n \in {0, 1}, NEW es \in Seq(Completion),
           Return(n, es), NEW S \in SUBSET Completion
    PROVE  /\ iocp' \in Seq(Packets)
           /\ Count(iocp', S) = Count(iocp, S) - (IF e \in S THEN 1 ELSE 0) + Count(es, S)
           /\ Count(iocp, S) \in Nat /\ Count(es, S) \in Nat
           /\ outstanding_work_' = outstanding_work_ + n - 1
  <1>1. iocp \in Seq(Packets) /\ iocp # <<>> /\ Head(iocp) = e
    BY DEF Queues, Serves
  <1>2. /\ Tail(iocp) \in Seq(Packets)
        /\ Count(iocp, S) = Count(Tail(iocp), S) + (IF e \in S THEN 1 ELSE 0)
    BY <1>1, CountTail
  <1>3. /\ iocp' \in {Tail(iocp) \o es, Append(Tail(iocp) \o es, StopEvent)}
        /\ outstanding_work_' = outstanding_work_ + n - 1
    BY ReturnFlows
  <1>4. /\ iocp' \in Seq(Packets)
        /\ Count(iocp', S) = Count(Tail(iocp), S) + Count(es, S)
    BY <1>2, <1>3, Flow
  <1>5. Count(Tail(iocp), S) \in Nat /\ Count(es, S) \in Nat /\ Count(iocp, S) \in Nat
    BY <1>1, <1>2, CountFacts
  <1>. QED  BY <1>2, <1>3, <1>4, <1>5
-----------------------------------------------------------------------------
LEMMA SetFacts ==
    ASSUME Queues
    PROVE  /\ IsFiniteSet(Reading) /\ IsFiniteSet(wr)
           /\ Cardinality(Reading) \in Nat /\ Cardinality(wr) \in Nat
           /\ Count(iocp, Completion) \in Nat
  <1>1. IsFiniteSet(Sessions)
    BY FS_Interval, ClientAssumption DEF ClientAssumption, Sessions
  <1>2. Reading \in SUBSET Sessions /\ wr \in SUBSET Sessions
    BY DEF Reading, Queues
  <1>3. IsFiniteSet(Reading) /\ IsFiniteSet(wr)
    BY <1>1, <1>2, FS_Subset
  <1>. QED  BY <1>3, FS_CardinalityType, CountFacts DEF Queues

\* An operation that is started, ends or is aborted counts once.
LEMMA SetSteps ==
    ASSUME Queues, NEW c \in Sessions
    PROVE  /\ Cardinality(wr \cup {c}) = Cardinality(wr) + (IF c \in wr THEN 0 ELSE 1)
           /\ Cardinality(wr \ {c}) = Cardinality(wr) - (IF c \in wr THEN 1 ELSE 0)
           /\ Cardinality(Reading \cup {c}) = Cardinality(Reading) + (IF rd[c] = "none" THEN 1 ELSE 0)
           /\ Cardinality(Reading \ {c}) = Cardinality(Reading) - (IF rd[c] = "none" THEN 0 ELSE 1)
  <1>1. /\ IsFiniteSet(Reading) /\ IsFiniteSet(wr)
        /\ Cardinality(Reading) \in Nat /\ Cardinality(wr) \in Nat
    BY SetFacts
  <1>2. c \in Reading <=> rd[c] # "none"
    BY DEF Reading
  <1>3. /\ Cardinality(wr \cup {c}) = IF c \in wr THEN Cardinality(wr) ELSE Cardinality(wr) + 1
        /\ Cardinality(wr \ {c}) = IF c \in wr THEN Cardinality(wr) - 1 ELSE Cardinality(wr)
    BY <1>1, FS_AddElement, FS_RemoveElement
  <1>4. /\ Cardinality(Reading \cup {c}) = IF c \in Reading THEN Cardinality(Reading) ELSE Cardinality(Reading) + 1
        /\ Cardinality(Reading \ {c}) = IF c \in Reading THEN Cardinality(Reading) - 1 ELSE Cardinality(Reading)
    BY <1>1, FS_AddElement, FS_RemoveElement
  <1>. QED  BY <1>1, <1>2, <1>3, <1>4

\* ReadHeader: the packet of the handler that runs it is gone, and a read is to come.
LEMMA ReadHeaderAdds ==
    ASSUME Queues, NEW c \in Sessions, NEW k \in {"connect", "read"}, NEW ok \in BOOLEAN,
           Serves(Done(c, k, ok)), rd[c] = "none", ReadHeader(c), UNCHANGED wr
    PROVE  Adds(c, 0, 0, 0)
  <1> DEFINE e == Done(c, k, ok)
             f == Done(c, "read", FALSE)
             es == IF Usable(c) THEN <<>> ELSE <<f>>
  <1>1. /\ e \in Completion /\ f \in Completion
        /\ \A d, K : /\ Of(d, K) \in SUBSET Completion
                     /\ e \in Of(d, K) <=> d = c /\ k \in K
                     /\ f \in Of(d, K) <=> d = c /\ "read" \in K
    <2>1. k \in Kinds /\ "read" \in Kinds /\ FALSE \in BOOLEAN
      BY DEF Kinds
    <2>2. e \in Completion /\ \A d, K : e \in Of(d, K) <=> d = c /\ k \in K
      BY <2>1, OfFacts
    <2>3. f \in Completion
      BY <2>1, OfFacts
    <2>4. \A d, K : f \in Of(d, K) <=> d = c /\ "read" \in K
      BY OfFailed
    <2>. QED  BY <2>2, <2>3, <2>4, OfType
  <1>2. es \in Seq(Completion) /\ Serves(e) /\ Return(1, es)
    <2>1. <<>> \in Seq(Completion) /\ <<f>> \in Seq(Completion)
      BY <1>1, ShortQueues
    <2>. QED  BY <2>1 DEF ReadHeader
  <1>3. \A S : Count(es, S) = IF ~Usable(c) /\ f \in S THEN 1 ELSE 0
    BY CountOne, CountNone
  <1>4. rd' = IF Usable(c) THEN [rd EXCEPT ![c] = "read"] ELSE rd
    BY DEF ReadHeader
  <1> HIDE DEF e, f, es
  <1>5. ASSUME NEW S \in SUBSET Completion
        PROVE  /\ iocp' \in Seq(Packets)
               /\ Count(iocp', S) = Count(iocp, S) - (IF e \in S THEN 1 ELSE 0) + Count(es, S)
               /\ Count(iocp, S) \in Nat /\ Count(es, S) \in Nat
               /\ outstanding_work_' = outstanding_work_ + 1 - 1
    BY <1>1, <1>2, HandlerCounts
  <1>6. iocp' \in Seq(Packets)
    BY <1>5
  <1>7. ASSUME NEW d \in Sessions
        PROVE  /\ ReadOps(d)' = ReadOps(d)
               /\ WriteOps(d)' = WriteOps(d)
               /\ SendOps(d)' = SendOps(d)
    <2>1. rd'[d] = IF d = c /\ Usable(c) THEN "read" ELSE rd[d]
      BY <1>4 DEF Queues
    <2> DEFINE R == Of(d, {"connect", "read"})
               W == Of(d, {"write"})
               S == Of(d, {"send"})
    <2>2. R \in SUBSET Completion /\ W \in SUBSET Completion /\ S \in SUBSET Completion
      BY <1>1
    <2>3. (e \in R <=> d = c) /\ (f \in R <=> d = c) /\ e \notin W /\ f \notin W /\ e \notin S /\ f \notin S
      BY <1>1
    <2> HIDE DEF R, W, S
    <2>4. Count(iocp', R) = Count(iocp, R) - (IF d = c /\ Usable(c) THEN 1 ELSE 0) /\ Count(iocp, R) \in Nat
      BY <1>3, <1>5, <2>2, <2>3
    <2>5. Count(iocp', W) = Count(iocp, W) /\ Count(iocp', S) = Count(iocp, S)
      BY <1>3, <1>5, <2>2, <2>3
    <2>. QED  BY <2>1, <2>4, <2>5 DEF R, W, S, ReadOps, WriteOps, SendOps
  <1>8. outstanding_work_' = Load'
    <2>1. /\ Count(iocp', Completion) = Count(iocp, Completion) - (IF Usable(c) THEN 1 ELSE 0)
          /\ Count(iocp, Completion) \in Nat
          /\ outstanding_work_' = outstanding_work_ + 1 - 1
      BY <1>1, <1>3, <1>5
    <2>2. Reading' = IF Usable(c) THEN Reading \cup {c} ELSE Reading
      BY <1>4 DEF Reading, Queues
    <2>3. Cardinality(Reading') = Cardinality(Reading) + (IF Usable(c) THEN 1 ELSE 0)
          /\ Cardinality(Reading) \in Nat /\ Cardinality(wr) \in Nat
      <3>1. Cardinality(Reading \cup {c}) = Cardinality(Reading) + 1
        BY SetSteps
      <3>. QED  BY <2>2, <3>1, SetFacts
    <2>4. outstanding_work_ = Count(iocp, Completion) + Cardinality(Reading) + Cardinality(wr)
      BY DEF Queues, Load
    <2>5. Load' = Count(iocp', Completion) + Cardinality(Reading') + Cardinality(wr')
      BY DEF Load
    <2>. QED  BY <2>1, <2>3, <2>4, <2>5
  <1>9. \A d \in Sessions : ReadOps(d) \in Int /\ WriteOps(d) \in Int /\ SendOps(d) \in Int
    BY <1>1, CountFacts DEF Queues, ReadOps, WriteOps, SendOps
  <1>. QED  BY <1>6, <1>7, <1>8, <1>9 DEF Adds

-----------------------------------------------------------------------------
(* What the handlers do to the counts *)

LEMMA OpsAreNumbers ==
    ASSUME Queues
    PROVE  \A d \in Sessions : ReadOps(d) \in Nat /\ WriteOps(d) \in Nat /\ SendOps(d) \in Nat
  BY CountFacts DEF Queues, ReadOps, WriteOps, SendOps

\* What the handler of packet Done(c, k, ok) takes off the queue.
LEMMA HandlerOps ==
    ASSUME Queues, NEW c \in Sessions, NEW k \in Kinds, NEW ok \in BOOLEAN, Serves(Done(c, k, ok)),
           NEW n \in {0, 1}, NEW es \in Seq(Completion), Return(n, es)
    PROVE  /\ iocp' \in Seq(Packets)
           /\ \A d, K : /\ Count(iocp', Of(d, K)) = Count(iocp, Of(d, K))
                              - (IF d = c /\ k \in K THEN 1 ELSE 0) + Count(es, Of(d, K))
                        /\ Count(iocp, Of(d, K)) \in Nat /\ Count(es, Of(d, K)) \in Nat
           /\ Count(iocp', Completion) = Count(iocp, Completion) - 1 + Count(es, Completion)
           /\ Count(iocp, Completion) \in Nat /\ Count(es, Completion) \in Nat
           /\ outstanding_work_' = outstanding_work_ + n - 1
  <1> DEFINE e == Done(c, k, ok)
  <1>1. e \in Completion /\ \A d, K : e \in Of(d, K) <=> d = c /\ k \in K
    BY OfFacts
  <1>2. Serves(e)
    OBVIOUS
  <1> HIDE DEF e
  <1>3. ASSUME NEW S \in SUBSET Completion
        PROVE  /\ iocp' \in Seq(Packets)
               /\ Count(iocp', S) = Count(iocp, S) - (IF e \in S THEN 1 ELSE 0) + Count(es, S)
               /\ Count(iocp, S) \in Nat /\ Count(es, S) \in Nat
               /\ outstanding_work_' = outstanding_work_ + n - 1
    BY <1>1, <1>2, HandlerCounts
  <1>4. ASSUME NEW d, NEW K
        PROVE  /\ Count(iocp', Of(d, K)) = Count(iocp, Of(d, K))
                        - (IF d = c /\ k \in K THEN 1 ELSE 0) + Count(es, Of(d, K))
               /\ Count(iocp, Of(d, K)) \in Nat /\ Count(es, Of(d, K)) \in Nat
    BY <1>1, <1>3, OfType
  <1>5. /\ Count(iocp', Completion) = Count(iocp, Completion) - 1 + Count(es, Completion)
        /\ Count(iocp, Completion) \in Nat /\ Count(es, Completion) \in Nat
    BY <1>1, <1>3
  <1>. QED  BY <1>3, <1>4, <1>5

\* The handler returns and starts nothing.
LEMMA ReturnAdds ==
    ASSUME Queues, NEW c \in Sessions, NEW k \in Kinds, NEW ok \in BOOLEAN, Serves(Done(c, k, ok)),
           Return(0, <<>>), UNCHANGED <<rd, wr>>
    PROVE  Adds(c, IF k \in {"connect", "read"} THEN -1 ELSE 0, IF k = "write" THEN -1 ELSE 0,
                IF k = "send" THEN -1 ELSE 0)
  <1> DEFINE es == <<>>
  <1>1. es \in Seq(Completion) /\ Return(0, es) /\ \A S : Count(es, S) = 0
    BY ShortQueues, CountNone
  <1> HIDE DEF es
  <1>2. /\ iocp' \in Seq(Packets)
        /\ \A d, K : /\ Count(iocp', Of(d, K)) = Count(iocp, Of(d, K))
                           - (IF d = c /\ k \in K THEN 1 ELSE 0) + Count(es, Of(d, K))
                     /\ Count(iocp, Of(d, K)) \in Nat
        /\ Count(iocp', Completion) = Count(iocp, Completion) - 1 + Count(es, Completion)
        /\ Count(iocp, Completion) \in Nat
        /\ outstanding_work_' = outstanding_work_ + 0 - 1
    BY <1>1, HandlerOps
  <1>3. outstanding_work_' = Load'
    BY <1>1, <1>2, SetFacts DEF Queues, Load, Reading
  <1>4. \A d \in Sessions : rd'[d] = rd[d] /\ (d \in wr' <=> d \in wr)
    OBVIOUS
  <1>5. \A d, K : /\ Count(iocp', Of(d, K)) = Count(iocp, Of(d, K)) + (IF d = c /\ k \in K THEN -1 ELSE 0)
                   /\ Count(iocp, Of(d, K)) \in Nat
    BY <1>1, <1>2
  <1>6. ASSUME NEW d \in Sessions
        PROVE  /\ ReadOps(d)'  = ReadOps(d) + (IF d = c /\ k \in {"connect", "read"} THEN -1 ELSE 0)
               /\ WriteOps(d)' = WriteOps(d) + (IF d = c /\ k = "write" THEN -1 ELSE 0)
               /\ SendOps(d)'  = SendOps(d) + (IF d = c /\ k = "send" THEN -1 ELSE 0)
    <2>1. ReadOps(d)' = ReadOps(d) + (IF d = c /\ k \in {"connect", "read"} THEN -1 ELSE 0)
      BY <1>4, <1>5 DEF ReadOps
    <2>2. WriteOps(d)' = WriteOps(d) + (IF d = c /\ k = "write" THEN -1 ELSE 0)
      BY <1>4, <1>5 DEF WriteOps
    <2>3. SendOps(d)' = SendOps(d) + (IF d = c /\ k = "send" THEN -1 ELSE 0)
      BY <1>5 DEF SendOps
    <2>. QED  BY <2>1, <2>2, <2>3
  <1>. QED  BY <1>2, <1>3, <1>6 DEF Adds

LEMMA ConnectNextAdds ==
    ASSUME Queues, NEW c \in Sessions, NEW ok \in BOOLEAN, Serves(Done(c, "connect", ok)),
           rd[c] = "none", Return(1, <<>>), rd' = [rd EXCEPT ![c] = "connect"], UNCHANGED wr
    PROVE  Adds(c, 0, 0, 0)
  <1>0. "connect" \in Kinds
    BY DEF Kinds
  <1> DEFINE es == <<>>
  <1>1. es \in Seq(Completion) /\ Return(1, es) /\ \A S : Count(es, S) = 0
    BY ShortQueues, CountNone
  <1> HIDE DEF es
  <1>2. /\ iocp' \in Seq(Packets)
        /\ \A d, K : /\ Count(iocp', Of(d, K)) = Count(iocp, Of(d, K))
                           - (IF d = c /\ "connect" \in K THEN 1 ELSE 0) + Count(es, Of(d, K))
                     /\ Count(iocp, Of(d, K)) \in Nat
        /\ Count(iocp', Completion) = Count(iocp, Completion) - 1 + Count(es, Completion)
        /\ Count(iocp, Completion) \in Nat
        /\ outstanding_work_' = outstanding_work_ + 1 - 1
    BY <1>0, <1>1, HandlerOps
  <1>3. outstanding_work_' = Load'
    <2>1. Reading' = Reading \cup {c}
      BY DEF Reading, Queues
    <2>2. Cardinality(Reading') = Cardinality(Reading) + 1
      BY <2>1, SetSteps
    <2>. QED  BY <1>1, <1>2, <2>2, SetFacts DEF Queues, Load
  <1>4. \A d \in Sessions : rd'[d] = IF d = c THEN "connect" ELSE rd[d]
    BY DEF Queues
  <1>. QED  BY <1>1, <1>2, <1>3, <1>4 DEF Adds, ReadOps, WriteOps, SendOps

\* WriteHeader: a write is to come.
LEMMA WriteHeaderAdds ==
    ASSUME Queues, NEW c \in Sessions, NEW k \in {"send", "write"}, NEW ok \in BOOLEAN,
           Serves(Done(c, k, ok)), c \notin wr, WriteHeader(c), UNCHANGED rd
    PROVE  Adds(c, 0, IF k = "send" THEN 1 ELSE 0, IF k = "send" THEN -1 ELSE 0)
  <1> DEFINE f == Done(c, "write", FALSE)
             es == IF Usable(c) THEN <<>> ELSE <<f>>
  <1>0. k \in Kinds /\ "write" \in Kinds
    BY DEF Kinds
  <1>1. f \in Completion /\ \A d, K : f \in Of(d, K) <=> d = c /\ "write" \in K
    <2>1. f \in Completion
      BY <1>0, OfFacts
    <2>. QED  BY <2>1, OfFailed
  <1>2. es \in Seq(Completion) /\ Return(1, es)
    BY <1>1, ShortQueues DEF WriteHeader
  <1>3. \A S : Count(es, S) = IF ~Usable(c) /\ f \in S THEN 1 ELSE 0
    BY CountOne, CountNone
  <1>4. wr' = IF Usable(c) THEN wr \cup {c} ELSE wr
    BY DEF WriteHeader
  <1> HIDE DEF f, es
  <1>5. /\ iocp' \in Seq(Packets)
        /\ \A d, K : /\ Count(iocp', Of(d, K)) = Count(iocp, Of(d, K))
                           - (IF d = c /\ k \in K THEN 1 ELSE 0) + Count(es, Of(d, K))
                     /\ Count(iocp, Of(d, K)) \in Nat
        /\ Count(iocp', Completion) = Count(iocp, Completion) - 1 + Count(es, Completion)
        /\ Count(iocp, Completion) \in Nat
        /\ outstanding_work_' = outstanding_work_ + 1 - 1
    BY <1>0, <1>2, HandlerOps
  <1>6. outstanding_work_' = Load'
    <2>1. Reading' = Reading
      BY DEF Reading
    <2>2. Cardinality(wr \cup {c}) = Cardinality(wr) + 1
      BY SetSteps
    <2>3. Cardinality(wr') = Cardinality(wr) + (IF Usable(c) THEN 1 ELSE 0)
          /\ Cardinality(wr) \in Nat /\ Cardinality(Reading) \in Nat
      BY <1>4, <2>2, SetFacts
    <2>4. Count(iocp', Completion) = Count(iocp, Completion) - (IF Usable(c) THEN 1 ELSE 0)
      BY <1>1, <1>3, <1>5
    <2>. QED  BY <1>5, <2>1, <2>3, <2>4 DEF Queues, Load
  <1>7. ASSUME NEW d \in Sessions
        PROVE  /\ ReadOps(d)'  = ReadOps(d)
               /\ WriteOps(d)' = WriteOps(d) + (IF d = c /\ k = "send" THEN 1 ELSE 0)
               /\ SendOps(d)'  = SendOps(d) + (IF d = c /\ k = "send" THEN -1 ELSE 0)
    <2> DEFINE R == Of(d, {"connect", "read"})
               W == Of(d, {"write"})
               S == Of(d, {"send"})
    <2>1. d \in wr' <=> d \in wr \/ (d = c /\ Usable(c))
      BY <1>4
    <2>2. (f \in W <=> d = c) /\ f \notin R /\ f \notin S
      BY <1>1
    <2>3. /\ Count(iocp', R) = Count(iocp, R) - (IF d = c /\ k \in {"connect", "read"} THEN 1 ELSE 0) + Count(es, R)
          /\ Count(iocp', W) = Count(iocp, W) - (IF d = c /\ k \in {"write"} THEN 1 ELSE 0) + Count(es, W)
          /\ Count(iocp', S) = Count(iocp, S) - (IF d = c /\ k \in {"send"} THEN 1 ELSE 0) + Count(es, S)
          /\ Count(iocp, R) \in Nat /\ Count(iocp, W) \in Nat /\ Count(iocp, S) \in Nat
      BY <1>5
    <2> HIDE DEF R, W, S
    <2>4. Count(iocp', R) = Count(iocp, R)
      BY <1>3, <2>2, <2>3
    <2>5. Count(iocp', S) = Count(iocp, S) + (IF d = c /\ k = "send" THEN -1 ELSE 0)
      BY <1>3, <2>2, <2>3
    <2>6. Count(iocp', W) = Count(iocp, W) - (IF d = c /\ k = "write" THEN 1 ELSE 0)
                                + (IF d = c /\ ~Usable(c) THEN 1 ELSE 0)
      BY <1>3, <2>2, <2>3
    <2>. QED  BY <2>1, <2>3, <2>4, <2>5, <2>6 DEF R, W, S, ReadOps, WriteOps, SendOps
  <1>8. \A d \in Sessions : ReadOps(d) \in Nat /\ WriteOps(d) \in Nat /\ SendOps(d) \in Nat
    BY OpsAreNumbers
  <1>. QED  BY <1>5, <1>6, <1>7, <1>8 DEF Adds

\* Closing a socket moves its operations to the queue.
LEMMA AbortedOps ==
    ASSUME Queues, NEW c \in Sessions
    PROVE  /\ Aborted(c) \in Seq(Completion)
           /\ \A d : /\ Count(Aborted(c), Of(d, {"connect", "read"})) =
                            IF d = c /\ rd[c] # "none" THEN 1 ELSE 0
                     /\ Count(Aborted(c), Of(d, {"write"})) = IF d = c /\ c \in wr THEN 1 ELSE 0
                     /\ Count(Aborted(c), Of(d, {"send"})) = 0
           /\ Count(Aborted(c), Completion) =
                  (IF rd[c] # "none" THEN 1 ELSE 0) + (IF c \in wr THEN 1 ELSE 0)
  <1> DEFINE e == Done(c, rd[c], FALSE)
             f == Done(c, "write", FALSE)
  <1>1. rd[c] \in {"none", "connect", "read"}
    BY DEF Queues
  <1>2. rd[c] # "none" => e \in Completion /\ \A d, K : e \in Of(d, K) <=> d = c /\ rd[c] \in K
    <2>. SUFFICES ASSUME rd[c] # "none"
                  PROVE  e \in Completion /\ \A d, K : e \in Of(d, K) <=> d = c /\ rd[c] \in K
      OBVIOUS
    <2>1. rd[c] \in Kinds
      BY <1>1 DEF Kinds
    <2>2. e \in Completion
      BY <2>1, OfFacts
    <2>3. \A d, K : e \in Of(d, K) <=> d = c /\ rd[c] \in K
      BY <2>1, OfAborted
    <2>. QED  BY <2>2, <2>3
  <1>3. f \in Completion
    BY OfFacts DEF Kinds
  <1>4. \A d, K : f \in Of(d, K) <=> d = c /\ "write" \in K
    BY OfFailed
  <1>5. /\ Aborted(c) \in Seq(Completion)
        /\ \A S : Count(Aborted(c), S) = (IF rd[c] # "none" /\ e \in S THEN 1 ELSE 0)
                                         + (IF c \in wr /\ f \in S THEN 1 ELSE 0)
    BY AbortedCounts
  <1> HIDE DEF e, f
  <1>6. ASSUME NEW d
        PROVE  /\ Count(Aborted(c), Of(d, {"connect", "read"})) =
                     IF d = c /\ rd[c] # "none" THEN 1 ELSE 0
               /\ Count(Aborted(c), Of(d, {"write"})) = IF d = c /\ c \in wr THEN 1 ELSE 0
               /\ Count(Aborted(c), Of(d, {"send"})) = 0
    <2>1. f \notin Of(d, {"connect", "read"}) /\ f \notin Of(d, {"send"})
          /\ (f \in Of(d, {"write"}) <=> d = c)
      BY <1>4
    <2>2. rd[c] # "none" => /\ e \in Of(d, {"connect", "read"}) <=> d = c
                            /\ e \notin Of(d, {"write"})
                            /\ e \notin Of(d, {"send"})
      BY <1>1, <1>2
    <2>. QED  BY <1>5, <2>1, <2>2
  <1>7. Count(Aborted(c), Completion) =
            (IF rd[c] # "none" THEN 1 ELSE 0) + (IF c \in wr THEN 1 ELSE 0)
    BY <1>2, <1>3, <1>5
  <1>. QED  BY <1>5, <1>6, <1>7

LEMMA CloseAdds ==
    ASSUME Queues, NEW c \in Sessions, NEW k \in {"close", "read", "write"}, NEW ok \in BOOLEAN,
           Serves(Done(c, k, ok)), Close(c)
    PROVE  Adds(c, IF k = "read" THEN -1 ELSE 0, IF k = "write" THEN -1 ELSE 0, 0)
  <1> DEFINE es == Aborted(c)
  <1>0. k \in Kinds
    BY DEF Kinds
  <1>1. es \in Seq(Completion) /\ Return(0, es)
    BY AbortedOps DEF Close
  <1>2. /\ \A d : /\ Count(es, Of(d, {"connect", "read"})) = IF d = c /\ rd[c] # "none" THEN 1 ELSE 0
                  /\ Count(es, Of(d, {"write"})) = IF d = c /\ c \in wr THEN 1 ELSE 0
                  /\ Count(es, Of(d, {"send"})) = 0
        /\ Count(es, Completion) = (IF rd[c] # "none" THEN 1 ELSE 0) + (IF c \in wr THEN 1 ELSE 0)
    BY AbortedOps
  <1> HIDE DEF es
  <1>3. /\ iocp' \in Seq(Packets)
        /\ \A d, K : /\ Count(iocp', Of(d, K)) = Count(iocp, Of(d, K))
                           - (IF d = c /\ k \in K THEN 1 ELSE 0) + Count(es, Of(d, K))
                     /\ Count(iocp, Of(d, K)) \in Nat
        /\ Count(iocp', Completion) = Count(iocp, Completion) - 1 + Count(es, Completion)
        /\ Count(iocp, Completion) \in Nat
        /\ outstanding_work_' = outstanding_work_ + 0 - 1
    BY <1>0, <1>1, HandlerOps
  <1>4. rd' = [rd EXCEPT ![c] = "none"] /\ wr' = wr \ {c}
    BY DEF Close
  <1>5. outstanding_work_' = Load'
    <2>1. Reading' = Reading \ {c}
      BY <1>4 DEF Reading, Queues
    <2>2. Cardinality(Reading') = Cardinality(Reading) - (IF rd[c] = "none" THEN 0 ELSE 1)
      BY <2>1, SetSteps
    <2>3. Cardinality(wr') = Cardinality(wr) - (IF c \in wr THEN 1 ELSE 0)
      BY <1>4, SetSteps
    <2>. QED  BY <1>2, <1>3, <2>2, <2>3, SetFacts DEF Queues, Load
  <1>6. ASSUME NEW d \in Sessions
        PROVE  /\ ReadOps(d)'  = ReadOps(d) + (IF d = c /\ k = "read" THEN -1 ELSE 0)
               /\ WriteOps(d)' = WriteOps(d) + (IF d = c /\ k = "write" THEN -1 ELSE 0)
               /\ SendOps(d)'  = SendOps(d)
    <2>1. /\ rd'[d] = IF d = c THEN "none" ELSE rd[d]
          /\ d \in wr' <=> d \in wr /\ d # c
      BY <1>4 DEF Queues
    <2> DEFINE R == Of(d, {"connect", "read"})
               W == Of(d, {"write"})
               S == Of(d, {"send"})
    <2>2. /\ Count(iocp', R) = Count(iocp, R) - (IF d = c /\ k \in {"connect", "read"} THEN 1 ELSE 0) + Count(es, R)
          /\ Count(iocp', W) = Count(iocp, W) - (IF d = c /\ k \in {"write"} THEN 1 ELSE 0) + Count(es, W)
          /\ Count(iocp', S) = Count(iocp, S) - (IF d = c /\ k \in {"send"} THEN 1 ELSE 0) + Count(es, S)
          /\ Count(iocp, R) \in Nat /\ Count(iocp, W) \in Nat /\ Count(iocp, S) \in Nat
      BY <1>3
    <2>3. /\ Count(es, R) = IF d = c /\ rd[c] # "none" THEN 1 ELSE 0
          /\ Count(es, W) = IF d = c /\ c \in wr THEN 1 ELSE 0
          /\ Count(es, S) = 0
      BY <1>2
    <2> HIDE DEF R, W, S
    <2>4. ReadOps(d) = Count(iocp, R) + (IF rd[d] = "none" THEN 0 ELSE 1)
          /\ ReadOps(d)' = Count(iocp', R) + (IF rd'[d] = "none" THEN 0 ELSE 1)
      BY DEF R, ReadOps
    <2>5. WriteOps(d) = Count(iocp, W) + (IF d \in wr THEN 1 ELSE 0)
          /\ WriteOps(d)' = Count(iocp', W) + (IF d \in wr' THEN 1 ELSE 0)
      BY DEF W, WriteOps
    <2>6. SendOps(d) = Count(iocp, S) /\ SendOps(d)' = Count(iocp', S)
      BY DEF S, SendOps
    <2>. QED  BY <2>1, <2>2, <2>3, <2>4, <2>5, <2>6
  <1>7. \A d \in Sessions : ReadOps(d) \in Nat /\ WriteOps(d) \in Nat /\ SendOps(d) \in Nat
    BY OpsAreNumbers
  <1>. QED  BY <1>3, <1>5, <1>6, <1>7 DEF Adds
-----------------------------------------------------------------------------
(* The main thread and the system put packets on the queue *)

\* Everything but the stop event is at most moved.
LEMMA IdleAdds ==
    ASSUME Queues, NEW c, UNCHANGED <<rd, wr, outstanding_work_>>,
           \/ iocp' = iocp
           \/ iocp' = Append(iocp, StopEvent)
           \/ iocp # <<>> /\ Head(iocp) = StopEvent /\ iocp' = Append(Tail(iocp), StopEvent)
    PROVE  Adds(c, 0, 0, 0)
  <1>1. iocp \in Seq(Packets) /\ StopEvent \in Packets
    BY DEF Queues, Packets
  <1>2. ASSUME NEW S \in SUBSET Completion
        PROVE  iocp' \in Seq(Packets) /\ Count(iocp', S) = Count(iocp, S)
    <2>0. StopEvent \notin S
      BY StopAssumption DEF StopAssumption
    <2>1. CASE iocp' = iocp
      BY <1>1, <2>1
    <2>2. CASE iocp' = Append(iocp, StopEvent)
      <3>1. Count(Append(iocp, StopEvent), S) = Count(iocp, S) + 0 /\ Count(iocp, S) \in Nat
        BY <1>1, <2>0, CountAppend, CountFacts
      <3>. QED  BY <1>1, <2>2, <3>1, AppendProperties
    <2>3. CASE iocp # <<>> /\ Head(iocp) = StopEvent /\ iocp' = Append(Tail(iocp), StopEvent)
      <3>1. Tail(iocp) \in Seq(Packets) /\ Count(iocp, S) = Count(Tail(iocp), S) + 0
        BY <1>1, <2>0, <2>3, CountTail
      <3>2. Count(Append(Tail(iocp), StopEvent), S) = Count(Tail(iocp), S) + 0
        BY <1>1, <2>0, <3>1, CountAppend
      <3>. QED  BY <1>1, <2>3, <3>1, <3>2, AppendProperties
    <2>. QED  BY <2>1, <2>2, <2>3
  <1>3. \A d, K : Count(iocp', Of(d, K)) = Count(iocp, Of(d, K))
    BY <1>2, OfType
  <1>4. iocp' \in Seq(Packets) /\ Count(iocp', Completion) = Count(iocp, Completion)
    BY <1>2
  <1>5. outstanding_work_' = Load'
    BY <1>4 DEF Queues, Load, Reading
  <1>6. \A d \in Sessions : ReadOps(d) \in Nat /\ WriteOps(d) \in Nat /\ SendOps(d) \in Nat
    BY OpsAreNumbers
  <1>. QED  BY <1>3, <1>4, <1>5, <1>6 DEF Adds, ReadOps, WriteOps, SendOps

LEMMA AppendOps ==
    ASSUME Queues, NEW c \in Sessions, NEW k \in Kinds, NEW ok \in BOOLEAN,
           iocp' = Append(iocp, Done(c, k, ok))
    PROVE  /\ iocp' \in Seq(Packets)
           /\ \A d, K : /\ Count(iocp', Of(d, K)) = Count(iocp, Of(d, K)) + (IF d = c /\ k \in K THEN 1 ELSE 0)
                        /\ Count(iocp, Of(d, K)) \in Nat
           /\ Count(iocp', Completion) = Count(iocp, Completion) + 1
           /\ Count(iocp, Completion) \in Nat
  <1> DEFINE e == Done(c, k, ok)
  <1>1. e \in Completion /\ e \in Packets /\ \A d, K : e \in Of(d, K) <=> d = c /\ k \in K
    BY OfFacts
  <1>2. iocp' = Append(iocp, e) /\ iocp \in Seq(Packets)
    BY DEF Queues
  <1> HIDE DEF e
  <1>3. \A S : Count(iocp', S) = Count(iocp, S) + (IF e \in S THEN 1 ELSE 0) /\ Count(iocp, S) \in Nat
    BY <1>1, <1>2, CountAppend, CountFacts
  <1>4. iocp' \in Seq(Packets)
    BY <1>1, <1>2, AppendProperties
  <1>. QED  BY <1>1, <1>3, <1>4

LEMMA PostAdds ==
    ASSUME Queues, NEW c \in Sessions, NEW k \in {"send", "close"}, NEW ok \in BOOLEAN,
           Post(Done(c, k, ok)), UNCHANGED <<rd, wr>>
    PROVE  Adds(c, 0, 0, IF k = "send" THEN 1 ELSE 0)
  <1>0. k \in Kinds
    BY DEF Kinds
  <1>1. iocp' = Append(iocp, Done(c, k, ok)) /\ outstanding_work_' = outstanding_work_ + 1
    BY DEF Post
  <1>2. /\ iocp' \in Seq(Packets)
        /\ \A d, K : /\ Count(iocp', Of(d, K)) = Count(iocp, Of(d, K)) + (IF d = c /\ k \in K THEN 1 ELSE 0)
                     /\ Count(iocp, Of(d, K)) \in Nat
        /\ Count(iocp', Completion) = Count(iocp, Completion) + 1
        /\ Count(iocp, Completion) \in Nat
    BY <1>0, <1>1, AppendOps
  <1>3. outstanding_work_' = Load'
    BY <1>1, <1>2, SetFacts DEF Queues, Load, Reading
  <1>. QED  BY <1>2, <1>3 DEF Adds, ReadOps, WriteOps, SendOps

\* A finished operation waits for its handler.
LEMMA ReadEndsAdds ==
    ASSUME Queues, NEW c \in Sessions, NEW ok \in BOOLEAN, rd[c] # "none",
           Complete(<<Done(c, rd[c], ok)>>), rd' = [rd EXCEPT ![c] = "none"], UNCHANGED wr
    PROVE  Adds(c, 0, 0, 0)
  <1>0. rd[c] \in {"connect", "read"} /\ rd[c] \in Kinds
    BY DEF Queues, Kinds
  <1>1. iocp' = Append(iocp, Done(c, rd[c], ok)) /\ outstanding_work_' = outstanding_work_
    <2>1. Done(c, rd[c], ok) \in Packets /\ iocp \in Seq(Packets)
      BY <1>0, OfFacts DEF Queues
    <2>. QED  BY <2>1, AppendIsConcat DEF Complete
  <1>2. /\ iocp' \in Seq(Packets)
        /\ \A d, K : /\ Count(iocp', Of(d, K)) = Count(iocp, Of(d, K)) + (IF d = c /\ rd[c] \in K THEN 1 ELSE 0)
                     /\ Count(iocp, Of(d, K)) \in Nat
        /\ Count(iocp', Completion) = Count(iocp, Completion) + 1
        /\ Count(iocp, Completion) \in Nat
    BY <1>0, <1>1, AppendOps
  <1>3. outstanding_work_' = Load'
    <2>1. Reading' = Reading \ {c}
      BY DEF Reading, Queues
    <2>2. Cardinality(Reading') = Cardinality(Reading) - 1
      BY <2>1, SetSteps
    <2>. QED  BY <1>1, <1>2, <2>2, SetFacts DEF Queues, Load
  <1>4. \A d \in Sessions : rd'[d] = IF d = c THEN "none" ELSE rd[d]
    BY DEF Queues
  <1>. QED  BY <1>0, <1>2, <1>3, <1>4 DEF Adds, ReadOps, WriteOps, SendOps

LEMMA WriteEndsAdds ==
    ASSUME Queues, NEW c \in Sessions, NEW ok \in BOOLEAN, c \in wr,
           Complete(<<Done(c, "write", ok)>>), wr' = wr \ {c}, UNCHANGED rd
    PROVE  Adds(c, 0, 0, 0)
  <1>0. "write" \in Kinds
    BY DEF Kinds
  <1>1. iocp' = Append(iocp, Done(c, "write", ok)) /\ outstanding_work_' = outstanding_work_
    <2>1. Done(c, "write", ok) \in Packets /\ iocp \in Seq(Packets)
      BY <1>0, OfFacts DEF Queues
    <2>. QED  BY <2>1, AppendIsConcat DEF Complete
  <1>2. /\ iocp' \in Seq(Packets)
        /\ \A d, K : /\ Count(iocp', Of(d, K)) = Count(iocp, Of(d, K)) + (IF d = c /\ "write" \in K THEN 1 ELSE 0)
                     /\ Count(iocp, Of(d, K)) \in Nat
        /\ Count(iocp', Completion) = Count(iocp, Completion) + 1
        /\ Count(iocp, Completion) \in Nat
    BY <1>0, <1>1, AppendOps
  <1>3. outstanding_work_' = Load'
    <2>1. Reading' = Reading
      BY DEF Reading
    <2>2. Cardinality(wr') = Cardinality(wr) - 1
      BY SetSteps
    <2>. QED  BY <1>1, <1>2, <2>1, <2>2, SetFacts DEF Queues, Load
  <1>4. \A d \in Sessions : d \in wr' <=> d \in wr /\ d # c
    OBVIOUS
  <1>. QED  BY <1>2, <1>3, <1>4 DEF Adds, ReadOps, WriteOps, SendOps

-----------------------------------------------------------------------------
(* Types *)

\* Types of what the queue does not decide, and nothing is ahead of session.
Types ==
    /\ stopped_ \in BOOLEAN /\ stop_event_posted_ \in BOOLEAN
    /\ thread \in {"none", "started", "running", "ended"}
    /\ session \in 0..MaxSessions
    /\ m_TCPConnection \in {NoSession} \union 1..session
    /\ destroyed \in SUBSET (1..session)
    /\ fresh \in SUBSET (1..session) /\ missed \in SUBSET (1..session)
    /\ sock \in [Sessions -> {"none", "open", "retry", "closed"}]
    /\ tries \in [Sessions -> 0..Attempts]
    /\ rd \in [Sessions -> {"none", "connect", "read"}]
    /\ wr \in SUBSET (1..session) /\ up \in SUBSET (1..session)
    /\ sends \in 0..MaxSends
    /\ serverSent \in [Sessions -> 0..MaxServerSends]
    /\ m_tmpPktIn \in [Sessions -> 0..MaxServerSends]
    /\ \A c \in Sessions : /\ c > session => sock[c] = "none" /\ rd[c] = "none"
                           /\ sock[c] = "retry" => tries[c] < Attempts

LEMMA InitTypes == Init => Types
  <1>. SUFFICES ASSUME Init PROVE Types
    OBVIOUS
  <1>1. /\ stopped_ \in BOOLEAN /\ stop_event_posted_ \in BOOLEAN
        /\ thread \in {"none", "started", "running", "ended"}
    BY DEF Init, ContextInit
  <1>2. /\ session = 0 /\ m_TCPConnection = NoSession /\ destroyed = {} /\ fresh = {} /\ missed = {}
        /\ wr = {} /\ up = {} /\ sends = 0
    BY DEF Init
  <1>3. /\ sock = [c \in Sessions |-> "none"] /\ tries = [c \in Sessions |-> 0]
        /\ rd = [c \in Sessions |-> "none"]
        /\ serverSent = [c \in Sessions |-> 0] /\ m_tmpPktIn = [c \in Sessions |-> 0]
    BY DEF Init
  <1>4. \A n \in Nat : 0 \in 0..n
    OBVIOUS
  <1>5. Attempts \in Nat /\ MaxServerSends \in Nat /\ MaxSends \in Nat /\ MaxSessions \in Nat
    BY ClientAssumption DEF ClientAssumption
  <1>. QED  BY <1>1, <1>2, <1>3, <1>4, <1>5 DEF Types

LEMMA MainKeepsTypes ==
    ASSUME Types, Main \/ Frame
    PROVE  Types'
  <1> USE ClientAssumption DEF ClientAssumption
  <1>1. CASE Connect
    <2> DEFINE c == session + 1
               old == {m_TCPConnection} \ {NoSession}
    <2>1. c \in Sessions /\ c \in 1..MaxSessions /\ old \in SUBSET (1..session) /\ session \in Nat
      BY <1>1 DEF Connect, Types, Sessions
    <2>2. /\ session' = c /\ m_TCPConnection' = c
          /\ destroyed' = destroyed \union old
          /\ fresh' \in {fresh, fresh \union {c}}
          /\ wr' = wr \ old /\ UNCHANGED <<up, missed, stopped_, stop_event_posted_, thread, sends>>
      BY <1>1 DEF Connect
    <2>3. /\ sock' = [d \in Sessions |-> IF d = c THEN "open" ELSE IF d \in old THEN "closed" ELSE sock[d]]
          /\ rd' = [d \in Sessions |-> IF d = c THEN "connect" ELSE IF d \in old THEN "none" ELSE rd[d]]
          /\ tries' = [tries EXCEPT ![c] = 1]
          /\ UNCHANGED <<serverSent, m_tmpPktIn>>
      BY <1>1 DEF Connect
    <2> HIDE DEF c, old
    <2>4. /\ session' \in 0..MaxSessions /\ m_TCPConnection' \in {NoSession} \union 1..session'
          /\ 1..session \in SUBSET (1..session')
      BY <2>1, <2>2 DEF c
    <2>5. destroyed' \in SUBSET (1..session') /\ fresh' \in SUBSET (1..session')
          /\ missed' \in SUBSET (1..session')
          /\ wr' \in SUBSET (1..session') /\ up' \in SUBSET (1..session')
      <3>1. c \in 1..session'
        BY <2>1, <2>2 DEF c
      <3>. QED  BY <2>1, <2>2, <2>4, <3>1 DEF Types
    <2>6. sock' \in [Sessions -> {"none", "open", "retry", "closed"}]
          /\ rd' \in [Sessions -> {"none", "connect", "read"}]
          /\ tries' \in [Sessions -> 0..Attempts]
      BY <2>1, <2>3 DEF Types
    <2>7. \A d \in Sessions : d > session' => sock'[d] = "none" /\ rd'[d] = "none"
      <3>. SUFFICES ASSUME NEW d \in Sessions, d > session'
                    PROVE  sock'[d] = "none" /\ rd'[d] = "none"
        OBVIOUS
      <3>1. d > session /\ d # c /\ d \notin old
        BY <2>1, <2>2 DEF Sessions, c
      <3>. QED  BY <2>3, <3>1 DEF Types
    <2>8. \A d \in Sessions : sock'[d] = "retry" => tries'[d] < Attempts
      <3>. SUFFICES ASSUME NEW d \in Sessions, sock'[d] = "retry"
                    PROVE  tries'[d] < Attempts
        OBVIOUS
      <3>1. d # c /\ sock[d] = "retry"
        BY <2>3
      <3>. QED  BY <2>3, <3>1 DEF Types
    <2>. QED  BY <2>2, <2>3, <2>4, <2>5, <2>6, <2>7, <2>8 DEF Types
  <1>2. CASE AssignThread
    BY <1>2 DEF AssignThread, connVars, Types
  <1>3. CASE Disconnect
    <2>1. MidRetry \in SUBSET (1..session)
      BY DEF MidRetry, Types
    <2>2. missed' \in SUBSET (1..session)
      BY <1>3, <2>1 DEF Disconnect, Types
    <2>. QED  BY <1>3, <2>2 DEF Disconnect, Post, contextVars, connVars, Types
  <1>4. CASE Stop
    BY <1>4 DEF Stop, StopOn, connVars, Types
  <1>5. CASE Join
    BY <1>5 DEF Join, connVars, Types
  <1>6. CASE SendToServer
    BY <1>6 DEF SendToServer, Post, mainVars, connVars, Types
  <1>7. CASE Frame
    BY <1>7 DEF Frame, Process, PrepareNextPkt, contextVars, mainVars, connVars, Types
  <1>. QED  BY <1>1, <1>2, <1>3, <1>4, <1>5, <1>6, <1>7 DEF Main

LEMMA SystemKeepsTypes ==
    ASSUME Types, NEW c \in Sessions, NEW ok \in BOOLEAN,
           ServerSends(c) \/ ConnectEnds(c, ok) \/ ReadEnds(c, ok) \/ WriteEnds(c, ok)
    PROVE  Types'
  <1> USE ClientAssumption DEF ClientAssumption
  <1>1. CASE ServerSends(c)
    BY <1>1 DEF ServerSends, SystemUnchanged, contextVars, mainVars, Types
  <1>2. CASE ConnectEnds(c, ok)
    <2>1. c \in 1..session
      BY <1>2 DEF ConnectEnds, Types, Sessions
    <2>. QED  BY <1>2, <2>1 DEF ConnectEnds, Complete, SystemUnchanged, mainVars, Types
  <1>3. CASE ReadEnds(c, ok)
    BY <1>3 DEF ReadEnds, Complete, SystemUnchanged, mainVars, Types
  <1>4. CASE WriteEnds(c, ok)
    BY <1>4 DEF WriteEnds, Complete, SystemUnchanged, mainVars, Types
  <1>. QED  BY <1>1, <1>2, <1>3, <1>4

\* A handler belongs to a session there has been: c <= session.
LEMMA HandlersKeepTypes ==
    ASSUME Types, NEW c \in 1..session,
           ConnectNext(c) \/ ConnectFailed(c) \/ Connected(c) \/ ReadDone(c) \/ RunSend(c)
             \/ WriteDone(c) \/ CloseSocket(c)
    PROVE  Types'
  <1> USE ClientAssumption DEF ClientAssumption
  <1>0. c \in Sessions /\ UNCHANGED <<session, m_TCPConnection, destroyed, fresh, missed, sends, serverSent, m_tmpPktIn, up>>
    <2>1. c \in Sessions
      BY DEF Types, Sessions
    <2>2. Handler
      BY DEF ConnectNext, ConnectFailed, Connected, ReadDone, RunSend, WriteDone, CloseSocket, Handles
    <2>3. UNCHANGED up
      BY DEF ConnectNext, ConnectFailed, Connected, ReadDone, RunSend, WriteDone, CloseSocket, connVars
    <2>. QED  BY <2>1, <2>2, <2>3 DEF Handler, mainVars
  <1>1. /\ stopped_' \in BOOLEAN /\ stop_event_posted_' \in BOOLEAN
        /\ thread' = thread
    <2>1. ASSUME NEW n, NEW es, Return(n, es)
          PROVE  stopped_' \in BOOLEAN /\ stop_event_posted_' \in BOOLEAN /\ thread' = thread
      BY <2>1 DEF Return, StopOn, Types
    <2>2. ReadHeader(c) \/ WriteHeader(c) \/ Close(c) \/ Return(0, <<>>) \/ Return(1, <<>>)
      <3>1. CASE ConnectNext(c)
        BY <3>1 DEF ConnectNext
      <3>2. CASE ConnectFailed(c)
        BY <3>2 DEF ConnectFailed
      <3>3. CASE Connected(c)
        BY <3>3 DEF Connected
      <3>4. CASE ReadDone(c)
        BY <3>4 DEF ReadDone
      <3>5. CASE RunSend(c)
        BY <3>5 DEF RunSend
      <3>6. CASE WriteDone(c)
        BY <3>6 DEF WriteDone
      <3>7. CASE CloseSocket(c)
        BY <3>7 DEF CloseSocket
      <3>. QED  BY <3>1, <3>2, <3>3, <3>4, <3>5, <3>6, <3>7
    <2>. QED  BY <2>1, <2>2 DEF ReadHeader, WriteHeader, Close
  <1>2. sock' \in [Sessions -> {"none", "open", "retry", "closed"}]
        /\ \A d \in Sessions : d # c => sock'[d] = sock[d]
    <2>1. CASE ConnectNext(c)
      BY <1>0, <2>1 DEF ConnectNext, Types
    <2>2. CASE CloseSocket(c)
      BY <1>0, <2>2 DEF CloseSocket, Close, Types
    <2>3. CASE ~ConnectNext(c) /\ ~CloseSocket(c)
      <3>1. UNCHANGED sock
        BY <2>3 DEF ConnectFailed, Connected, ReadDone, RunSend, WriteDone, connVars
      <3>. QED  BY <2>3, <3>1 DEF Types
    <2>. QED  BY <2>1, <2>2, <2>3
  <1>3. rd' \in [Sessions -> {"none", "connect", "read"}]
        /\ \A d \in Sessions : d # c => rd'[d] = rd[d]
    <2>1. \/ UNCHANGED rd
          \/ \E r \in {"none", "connect", "read"} : rd' = [rd EXCEPT ![c] = r]
      <3>1. CASE ConnectNext(c)
        BY <3>1 DEF ConnectNext
      <3>2. CASE ConnectFailed(c)
        BY <3>2 DEF ConnectFailed, connVars
      <3>3. CASE Connected(c)
        BY <3>3 DEF Connected, ReadHeader
      <3>4. CASE ReadDone(c)
        BY <3>4 DEF ReadDone, ReadHeader
      <3>5. CASE RunSend(c)
        BY <3>5 DEF RunSend
      <3>6. CASE WriteDone(c)
        BY <3>6 DEF WriteDone
      <3>7. CASE CloseSocket(c)
        BY <3>7 DEF CloseSocket, Close
      <3>. QED  BY <3>1, <3>2, <3>3, <3>4, <3>5, <3>6, <3>7
    <2>. QED  BY <1>0, <2>1 DEF Types
  <1>4. /\ tries' \in [Sessions -> 0..Attempts]
        /\ \A d \in Sessions : d # c => tries'[d] = tries[d]
    <2>1. CASE ConnectNext(c)
      <3>1. tries[c] \in 0..Attempts /\ tries[c] < Attempts /\ tries' = [tries EXCEPT ![c] = @ + 1]
        BY <1>0, <2>1 DEF ConnectNext, Types
      <3>2. tries[c] + 1 \in 0..Attempts
        BY <3>1
      <3>. QED  BY <2>1, <3>1, <3>2 DEF Types
    <2>2. CASE ~ConnectNext(c)
      <3>1. UNCHANGED tries
        BY <2>2 DEF ConnectFailed, Connected, ReadDone, RunSend, WriteDone, CloseSocket, connVars
      <3>. QED  BY <2>2, <3>1 DEF Types
    <2>. QED  BY <2>1, <2>2
  <1>5. wr' \in SUBSET (1..session)
    <2>1. wr' \in {wr, wr \union {c}, wr \ {c}}
      BY DEF ConnectNext, ConnectFailed, Connected, ReadDone, RunSend, WriteDone, CloseSocket,
             WriteHeader, Close, connVars
    <2>. QED  BY <2>1 DEF Types
  <1>6. c <= session /\ session \in Nat
    BY DEF Types
  <1>7. \A d \in Sessions : d > session' => sock'[d] = "none" /\ rd'[d] = "none"
    <2>. SUFFICES ASSUME NEW d \in Sessions, d > session'
                  PROVE  sock'[d] = "none" /\ rd'[d] = "none"
      OBVIOUS
    <2>1. d # c /\ d > session
      BY <1>0, <1>6
    <2>2. sock'[d] = sock[d]
      BY <1>2, <2>1
    <2>3. rd'[d] = rd[d]
      BY <1>3, <2>1
    <2>. QED  BY <2>1, <2>2, <2>3 DEF Types
  <1>8. \A d \in Sessions : sock'[d] = "retry" => tries'[d] < Attempts
    <2>. SUFFICES ASSUME NEW d \in Sessions, sock'[d] = "retry"
                  PROVE  tries'[d] < Attempts
      OBVIOUS
    <2>1. CASE d # c
      BY <1>2, <1>4, <2>1 DEF Types
    <2>2. CASE d = c
      <3>1. ~ConnectNext(c) /\ ~CloseSocket(c)
        BY <1>0, <2>2 DEF ConnectNext, CloseSocket, Close, Types
      <3>2. UNCHANGED <<sock, tries>>
        BY <3>1 DEF ConnectFailed, Connected, ReadDone, RunSend, WriteDone, connVars
      <3>. QED  BY <2>2, <3>2 DEF Types
    <2>. QED  BY <2>1, <2>2
  <1>. QED  BY <1>0, <1>1, <1>2, <1>3, <1>4, <1>5, <1>7, <1>8 DEF Types

\* A retry comes only while there are endpoints left.
LEMMA CloseForNextKeepsTypes ==
    ASSUME Types, NEW c \in Sessions, CloseForNext(c)
    PROVE  Types'
  <1>1. /\ UNCHANGED <<mainVars, contextVars, tries, up, rd, wr, sends, serverSent, m_tmpPktIn>>
        /\ sock[c] = "open" /\ tries[c] < Attempts /\ sock' = [sock EXCEPT ![c] = "retry"]
    BY DEF CloseForNext, Handles, Handler
  <1>. QED  BY <1>1 DEF Types, mainVars, contextVars

LEMMA RunContextKeepsTypes ==
    ASSUME Types, RunContext
    PROVE  Types'
  <1>1. UNCHANGED <<mainVars, connVars, sends, serverSent>>
    BY DEF RunContext, Handler
  <1>2. /\ stopped_' \in BOOLEAN /\ stop_event_posted_' \in BOOLEAN
        /\ thread' \in {"running", "ended"}
    BY DEF RunContext, EnterRun, LeaveRun, StopOn, Types
  <1>. QED  BY <1>1, <1>2 DEF Types, mainVars, connVars

-----------------------------------------------------------------------------
(* The invariant *)

\* What a completion says of its connection stays true until it is served.
Sound == {e \in Packets : e # StopEvent =>
             /\ e.conn <= session
             /\ e.kind = "connect" => (e.ok <=> e.conn \in up)
             /\ e.kind = "read" => e.conn \in up /\ (e.ok => m_tmpPktIn[e.conn] > 0)}

News ==
    /\ iocp \in Seq(Sound)
    /\ ~stopped_ => iocp \in Seq(Completion)
    /\ \A c \in Sessions : /\ rd[c] = "connect" => c \notin up
                           /\ rd[c] = "read" => c \in up

\* One read and one write at a time, and no write without a packet in m_PktOut.
Budget ==
    /\ m_PktOut \in [Sessions -> Nat]
    /\ \A c \in Sessions :
        /\ ReadOps(c) <= 1
        /\ WriteOps(c) <= (IF m_PktOut[c] > 0 THEN 1 ELSE 0)
        /\ SendOps(c) + m_PktOut[c] <= sends

Inv == Types /\ Queues /\ News /\ Budget

LEMMA InitInvariant == Init => Inv
  <1>. SUFFICES ASSUME Init PROVE Inv
    OBVIOUS
  <1>1. Types
    BY InitTypes
  <1>2. iocp = <<>> /\ outstanding_work_ = 0 /\ wr = {} /\ rd = [c \in Sessions |-> "none"]
        /\ m_PktOut = [c \in Sessions |-> 0] /\ sends = 0
    BY DEF Init, ContextInit
  <1>3. \A S : iocp \in Seq(S) /\ Count(iocp, S) = 0
    BY <1>2, EmptySeq, CountNone
  <1>4. Reading = {} /\ Cardinality(Reading) = 0 /\ Cardinality(wr) = 0
    BY <1>2, FS_EmptySet DEF Reading
  <1>5. Queues
    BY <1>2, <1>3, <1>4 DEF Queues, Load
  <1>6. News
    BY <1>2, <1>3 DEF News
  <1>7. Budget
    BY <1>2, <1>3 DEF Budget, ReadOps, WriteOps, SendOps
  <1>. QED  BY <1>1, <1>5, <1>6, <1>7 DEF Inv

\* What is known when a handler starts to run.
LEMMA HeadFacts ==
    ASSUME Inv, NEW c \in Sessions, NEW k \in Kinds, NEW ok \in BOOLEAN, Serves(Done(c, k, ok))
    PROVE  /\ c \in 1..session
           /\ k = "connect" => (ok <=> c \in up)
           /\ k = "read" => c \in up /\ (ok => m_tmpPktIn[c] > 0)
           /\ k \in {"connect", "read"} => rd[c] = "none" /\ ReadOps(c) = 1
           /\ k = "write" => c \notin wr /\ m_PktOut[c] > 0 /\ WriteOps(c) = 1
           /\ k = "send" => SendOps(c) > 0
           /\ iocp \in Seq(Packets) /\ iocp # <<>> /\ Head(iocp) = Done(c, k, ok)
  <1> USE DEF Inv
  <1> DEFINE e == Done(c, k, ok)
  <1>1. /\ e # StopEvent /\ e.conn = c /\ e.kind = k /\ e.ok = ok
        /\ \A d, K : e \in Of(d, K) <=> d = c /\ k \in K
    BY OfFacts DEF Done
  <1>2. iocp # <<>> /\ Head(iocp) = e /\ iocp \in Seq(Sound) /\ iocp \in Seq(Packets)
    BY DEF Serves, News, Queues
  <1> HIDE DEF e
  <1>3. e \in Sound
    BY <1>2, HeadTailProperties
  <1>4. /\ c <= session
        /\ k = "connect" => (ok <=> c \in up)
        /\ k = "read" => c \in up /\ (ok => m_tmpPktIn[c] > 0)
    BY <1>1, <1>3 DEF Sound
  <1>5. c \in 1..session
    BY <1>4 DEF Sessions, Types
  <1>6. \A S : e \in S => Count(iocp, S) >= 1 /\ Count(iocp, S) \in Nat
    <2>. SUFFICES ASSUME NEW S, e \in S PROVE Count(iocp, S) >= 1 /\ Count(iocp, S) \in Nat
      OBVIOUS
    <2>1. Tail(iocp) \in Seq(Packets) /\ Count(iocp, S) = Count(Tail(iocp), S) + 1
      BY <1>2, CountTail
    <2>2. Count(Tail(iocp), S) \in Nat
      BY <2>1, CountFacts
    <2>. QED  BY <2>1, <2>2
  <1>7. k \in {"connect", "read"} => rd[c] = "none" /\ ReadOps(c) = 1
    BY <1>1, <1>6 DEF Budget, ReadOps
  <1>8. k = "write" => c \notin wr /\ m_PktOut[c] > 0 /\ WriteOps(c) = 1
    <2>. SUFFICES ASSUME k = "write" PROVE c \notin wr /\ m_PktOut[c] > 0 /\ WriteOps(c) = 1
      OBVIOUS
    <2>1. Count(iocp, Of(c, {"write"})) >= 1 /\ Count(iocp, Of(c, {"write"})) \in Nat
      BY <1>1, <1>6
    <2>. QED  BY <2>1 DEF Budget, WriteOps
  <1>9. k = "send" => SendOps(c) > 0
    BY <1>1, <1>6 DEF SendOps
  <1>. QED  BY <1>2, <1>4, <1>5, <1>7, <1>8, <1>9 DEF e

LEMMA ConnectAdds ==
    ASSUME Inv, Connect
    PROVE  Adds(session + 1, 1, 0, 0)
  <1> DEFINE c == session + 1
             m == m_TCPConnection
             old == {m_TCPConnection} \ {NoSession}
  <1>1. c \in Sessions /\ m \in 0..session /\ (m # 0 => m \in Sessions) /\ m # c
        /\ old = IF m = 0 THEN {} ELSE {m}
    <2>1. session \in 0..MaxSessions /\ m \in {0} \union 1..session /\ session < MaxSessions
          /\ MaxSessions \in Nat
      BY ClientAssumption DEF ClientAssumption, Connect, Inv, Types, NoSession
    <2>2. c \in 1..MaxSessions /\ m \in 0..session /\ (m # 0 => m \in 1..MaxSessions) /\ m # c
      BY <2>1
    <2>3. old = IF m = 0 THEN {} ELSE {m}
      BY DEF NoSession
    <2>. QED  BY <2>2, <2>3 DEF Sessions
  <1>2. Queues /\ rd[c] = "none"
    BY <1>1 DEF Inv, Types
  <1>3. /\ rd' = [d \in Sessions |-> IF d = c THEN "connect" ELSE IF d \in old THEN "none" ELSE rd[d]]
        /\ wr' = wr \ old
        /\ iocp' = IF old = {} THEN iocp ELSE iocp \o Aborted(m)
        /\ outstanding_work_' = outstanding_work_ + 1
    BY DEF Connect
  <1>4. \A d \in Sessions : ReadOps(d) \in Nat /\ WriteOps(d) \in Nat /\ SendOps(d) \in Nat
    BY <1>2, OpsAreNumbers
  <1> HIDE DEF c, m, old
  <1>5. CASE m = 0
    <2>1. iocp' = iocp /\ wr' = wr
      BY <1>1, <1>3, <1>5
    <2>2. rd' = [rd EXCEPT ![c] = "connect"]
      BY <1>1, <1>2, <1>3, <1>5 DEF Queues
    <2>3. Reading' = Reading \cup {c}
      BY <1>1, <1>2, <2>2 DEF Reading, Queues
    <2>4. Cardinality(Reading') = Cardinality(Reading) + 1
      BY <1>1, <1>2, <2>3, SetSteps
    <2>5. outstanding_work_' = Load'
      <3>1. Load' = Count(iocp', Completion) + Cardinality(Reading') + Cardinality(wr')
        BY DEF Load
      <3>2. outstanding_work_ = Count(iocp, Completion) + Cardinality(Reading) + Cardinality(wr)
        BY <1>2 DEF Queues, Load
      <3>3. Cardinality(Reading) \in Nat /\ Cardinality(wr) \in Nat /\ Count(iocp, Completion) \in Nat
        BY <1>2, SetFacts
      <3>. QED  BY <1>3, <2>1, <2>4, <3>1, <3>2, <3>3
    <2>6. \A d \in Sessions : rd'[d] = IF d = c THEN "connect" ELSE rd[d]
      BY <1>2, <2>2 DEF Queues
    <2>7. iocp' \in Seq(Packets)
      BY <1>2, <2>1 DEF Queues
    <2>8. ASSUME NEW d \in Sessions
          PROVE  /\ ReadOps(d)'  = ReadOps(d) + (IF d = c THEN 1 ELSE 0)
                 /\ WriteOps(d)' = WriteOps(d) /\ SendOps(d)' = SendOps(d)
      <3>1. Count(iocp, Of(d, {"connect", "read"})) \in Nat
        BY <1>2, CountFacts DEF Queues
      <3>. QED  BY <1>2, <2>1, <2>6, <3>1 DEF ReadOps, WriteOps, SendOps
    <2>. QED  BY <1>4, <2>5, <2>7, <2>8 DEF Adds, c
  <1>6. CASE m # 0
    <2>1. m \in Sessions /\ iocp' = iocp \o Aborted(m) /\ wr' = wr \ {m}
      BY <1>1, <1>3, <1>6
    <2> DEFINE es == Aborted(m)
    <2>2. /\ es \in Seq(Completion)
          /\ \A d : /\ Count(es, Of(d, {"connect", "read"})) = IF d = m /\ rd[m] # "none" THEN 1 ELSE 0
                    /\ Count(es, Of(d, {"write"})) = IF d = m /\ m \in wr THEN 1 ELSE 0
                    /\ Count(es, Of(d, {"send"})) = 0
          /\ Count(es, Completion) = (IF rd[m] # "none" THEN 1 ELSE 0) + (IF m \in wr THEN 1 ELSE 0)
      BY <1>2, <2>1, AbortedOps
    <2>3. iocp' = iocp \o es
      BY <2>1
    <2> HIDE DEF es
    <2>4. /\ iocp' \in Seq(Packets)
          /\ \A S \in SUBSET Completion : Count(iocp', S) = Count(iocp, S) + Count(es, S)
      BY <1>2, <2>2, <2>3, Flow DEF Queues
    <2>5. \A d \in Sessions : /\ rd'[d] = IF d = c THEN "connect" ELSE IF d = m THEN "none" ELSE rd[d]
                              /\ d \in wr' <=> d \in wr /\ d # m
      BY <1>1, <1>3, <1>6, <2>1
    <2>6. outstanding_work_' = Load'
      <3>1. Reading' = (Reading \ {m}) \cup {c} /\ c \notin Reading \ {m}
        BY <1>1, <1>2, <2>5 DEF Reading
      <3>2. IsFiniteSet(Reading \ {m})
            /\ Cardinality(Reading \ {m}) = Cardinality(Reading) - (IF rd[m] = "none" THEN 0 ELSE 1)
        BY <1>2, <2>1, SetSteps, SetFacts, FS_RemoveElement
      <3>3. Cardinality(Reading') = Cardinality(Reading \ {m}) + 1
        BY <3>1, <3>2, FS_AddElement
      <3>4. Cardinality(wr') = Cardinality(wr) - (IF m \in wr THEN 1 ELSE 0)
        BY <1>2, <2>1, SetSteps
      <3>5. Count(iocp', Completion) = Count(iocp, Completion) + Count(es, Completion)
        BY <2>4
      <3>6. Load' = Count(iocp', Completion) + Cardinality(Reading') + Cardinality(wr')
        BY DEF Load
      <3>7. outstanding_work_ = Count(iocp, Completion) + Cardinality(Reading) + Cardinality(wr)
        BY <1>2 DEF Queues, Load
      <3>8. Cardinality(Reading) \in Nat /\ Cardinality(wr) \in Nat /\ Count(iocp, Completion) \in Nat
        BY <1>2, SetFacts
      <3>9. Count(es, Completion) = (IF rd[m] = "none" THEN 0 ELSE 1) + (IF m \in wr THEN 1 ELSE 0)
        BY <2>2
      <3>10. Cardinality(Reading') = Cardinality(Reading) - (IF rd[m] = "none" THEN 0 ELSE 1) + 1
        BY <3>2, <3>3
      <3>11. outstanding_work_' = outstanding_work_ + 1
        BY <1>3
      <3>. QED  BY <3>4, <3>5, <3>6, <3>7, <3>8, <3>9, <3>10, <3>11
    <2>7. ASSUME NEW d \in Sessions
          PROVE  /\ ReadOps(d)'  = ReadOps(d) + (IF d = c THEN 1 ELSE 0)
                 /\ WriteOps(d)' = WriteOps(d) /\ SendOps(d)' = SendOps(d)
      <3> DEFINE R == Of(d, {"connect", "read"})
                 W == Of(d, {"write"})
                 S == Of(d, {"send"})
      <3>1. /\ Count(iocp', R) = Count(iocp, R) + Count(es, R)
            /\ Count(iocp', W) = Count(iocp, W) + Count(es, W)
            /\ Count(iocp', S) = Count(iocp, S) + Count(es, S)
        BY <2>4, OfType
      <3>2. Count(iocp, R) \in Nat /\ Count(iocp, W) \in Nat /\ Count(iocp, S) \in Nat
        BY <1>2, CountFacts DEF Queues
      <3>3. /\ Count(es, R) = IF d = m /\ rd[m] # "none" THEN 1 ELSE 0
            /\ Count(es, W) = IF d = m /\ m \in wr THEN 1 ELSE 0
            /\ Count(es, S) = 0
        BY <2>2
      <3> HIDE DEF R, W, S
      <3>4. ReadOps(d) = Count(iocp, R) + (IF rd[d] = "none" THEN 0 ELSE 1)
            /\ ReadOps(d)' = Count(iocp', R) + (IF rd'[d] = "none" THEN 0 ELSE 1)
        BY DEF R, ReadOps
      <3>5. WriteOps(d) = Count(iocp, W) + (IF d \in wr THEN 1 ELSE 0)
            /\ WriteOps(d)' = Count(iocp', W) + (IF d \in wr' THEN 1 ELSE 0)
        BY DEF W, WriteOps
      <3>6. SendOps(d) = Count(iocp, S) /\ SendOps(d)' = Count(iocp', S)
        BY DEF S, SendOps
      <3>. QED  BY <1>1, <1>2, <2>5, <3>1, <3>2, <3>3, <3>4, <3>5, <3>6
    <2>. QED  BY <1>4, <2>4, <2>6, <2>7 DEF Adds, c
  <1>. QED  BY <1>5, <1>6

-----------------------------------------------------------------------------
(* The parts of a step *)

\* The budget of c after a step that adds r, w and s to its operations.
BudgetOf(c, r, w, s) ==
    /\ m_PktOut' \in [Sessions -> Nat] /\ sends' \in Nat /\ sends <= sends'
    /\ \A d \in Sessions \ {c} : m_PktOut'[d] = m_PktOut[d]
    /\ ReadOps(c) + r <= 1
    /\ WriteOps(c) + w <= (IF m_PktOut'[c] > 0 THEN 1 ELSE 0)
    /\ SendOps(c) + s + m_PktOut'[c] <= sends'

LEMMA BudgetKept ==
    ASSUME Inv, Types', NEW c \in Sessions, NEW r \in Int, NEW w \in Int, NEW s \in Int,
           Adds(c, r, w, s), BudgetOf(c, r, w, s)
    PROVE  Queues' /\ Budget'
  <1>1. Queues'
    <2>1. wr' \in SUBSET (1..session') /\ session' \in 0..MaxSessions /\ MaxSessions \in Nat
      BY ClientAssumption DEF ClientAssumption, Types
    <2>2. 1..session' \subseteq 1..MaxSessions
      BY <2>1
    <2>3. wr' \in SUBSET Sessions
      BY <2>1, <2>2 DEF Sessions
    <2>4. rd' \in [Sessions -> {"none", "connect", "read"}]
      BY DEF Types
    <2>. QED  BY <2>3, <2>4 DEF Adds, Queues
  <1>2. \A d \in Sessions : ReadOps(d) \in Nat /\ WriteOps(d) \in Nat /\ SendOps(d) \in Nat
    BY OpsAreNumbers DEF Inv
  <1>3. ASSUME NEW d \in Sessions
        PROVE  /\ ReadOps(d)' <= 1
               /\ WriteOps(d)' <= (IF m_PktOut'[d] > 0 THEN 1 ELSE 0)
               /\ SendOps(d)' + m_PktOut'[d] <= sends'
    <2>1. /\ ReadOps(d)'  = ReadOps(d)  + (IF d = c THEN r ELSE 0)
          /\ WriteOps(d)' = WriteOps(d) + (IF d = c THEN w ELSE 0)
          /\ SendOps(d)'  = SendOps(d)  + (IF d = c THEN s ELSE 0)
      BY DEF Adds
    <2>2. CASE d = c
      BY <1>2, <2>1, <2>2 DEF BudgetOf
    <2>3. CASE d # c
      <3>1. m_PktOut'[d] = m_PktOut[d] /\ m_PktOut[d] \in Nat /\ sends <= sends' /\ sends' \in Nat /\ sends \in Nat
        BY <2>3 DEF BudgetOf, Inv, Budget, Types
      <3>2. /\ ReadOps(d) <= 1
            /\ WriteOps(d) <= (IF m_PktOut[d] > 0 THEN 1 ELSE 0)
            /\ SendOps(d) + m_PktOut[d] <= sends
        BY DEF Inv, Budget
      <3>. QED  BY <1>2, <2>1, <2>3, <3>1, <3>2
    <2>. QED  BY <2>2, <2>3
  <1>4. m_PktOut' \in [Sessions -> Nat]
    BY DEF BudgetOf
  <1>. QED  BY <1>1, <1>3, <1>4 DEF Budget

\* The case of a step that leaves m_PktOut alone.
LEMMA OthersKept ==
    ASSUME Inv, Types', NEW c \in Sessions, NEW r \in {-1, 0}, NEW w \in {-1, 0}, NEW s \in {-1, 0},
           Adds(c, r, w, s), UNCHANGED <<m_PktOut, sends>>
    PROVE  Queues' /\ Budget'
  <1>1. ReadOps(c) \in Nat /\ WriteOps(c) \in Nat /\ SendOps(c) \in Nat
    BY OpsAreNumbers DEF Inv
  <1>2. sends \in Nat
    BY DEF Inv, Types
  <1>3. BudgetOf(c, r, w, s)
    BY <1>1, <1>2 DEF BudgetOf, Inv, Budget
  <1>. QED  BY <1>3, BudgetKept

\* The reads of the other connections stay what they are.
SameReads(C) == \A d \in Sessions \ C : ReadOps(d)' = ReadOps(d)

LEMMA AddsReads ==
    ASSUME Inv, NEW c, NEW r \in Int, NEW w, NEW s, Adds(c, r, w, s)
    PROVE  SameReads({c})
  <1>1. \A d \in Sessions : ReadOps(d) \in Nat /\ ReadOps(d)' = ReadOps(d) + (IF d = c THEN r ELSE 0)
    BY OpsAreNumbers DEF Inv, Adds
  <1>. QED  BY <1>1 DEF SameReads

LEMMA AddsNoRead ==
    ASSUME Inv, NEW c, NEW w, NEW s, Adds(c, 0, w, s)
    PROVE  SameReads({})
  <1>1. \A d \in Sessions : ReadOps(d) \in Nat /\ ReadOps(d)' = ReadOps(d) + (IF d = c THEN 0 ELSE 0)
    BY OpsAreNumbers DEF Inv, Adds
  <1>. QED  BY <1>1 DEF SameReads

AsioNews == \A c \in Sessions : /\ rd[c] = "connect" => c \notin up
                                /\ rd[c] = "read" => c \in up

LEMMA SoundGrows ==
    ASSUME Inv, Types', session <= session', UNCHANGED up,
           \A c \in Sessions : m_tmpPktIn[c] <= m_tmpPktIn'[c]
    PROVE  Sound \subseteq Sound'
  <1>. SUFFICES ASSUME NEW e \in Sound, e # StopEvent PROVE e \in Sound'
    BY DEF Sound, Packets
  <1>1. /\ e \in Packets /\ e.conn <= session
        /\ e.kind = "connect" => (e.ok <=> e.conn \in up)
        /\ e.kind = "read" => e.conn \in up /\ (e.ok => m_tmpPktIn[e.conn] > 0)
    BY DEF Sound
  <1>2. e.conn \in Sessions /\ e.conn \in Nat
    BY <1>1 DEF Packets, Completion, Sessions
  <1>3. session \in Nat /\ session' \in Nat /\ m_tmpPktIn[e.conn] \in Nat /\ m_tmpPktIn'[e.conn] \in Nat
    BY <1>2, ClientAssumption DEF ClientAssumption, Inv, Types
  <1>4. e.conn <= session' /\ (m_tmpPktIn[e.conn] > 0 => m_tmpPktIn'[e.conn] > 0)
    BY <1>1, <1>2, <1>3
  <1>. QED  BY <1>1, <1>4 DEF Sound

LEMMA NewsKept ==
    ASSUME Inv, iocp \in Seq(Sound'), NEW q, q = iocp \/ (q = Tail(iocp) /\ iocp # <<>>),
           NEW es \in Seq(Sound' \cap Completion), iocp' \in {q \o es, Append(q \o es, StopEvent)},
           ~stopped_' => ~stopped_ /\ iocp' = q \o es, AsioNews'
    PROVE  News'
  <1>1. ASSUME NEW S, iocp \in Seq(S), es \in Seq(S)
        PROVE  q \o es \in Seq(S)
    <2>1. q \in Seq(S)
      BY <1>1, HeadTailProperties
    <2>. QED  BY <1>1, <2>1, ConcatProperties
  <1>2. es \in Seq(Sound') /\ es \in Seq(Completion)
    <2>1. Sound' \cap Completion \subseteq Sound' /\ Sound' \cap Completion \subseteq Completion
      OBVIOUS
    <2>. QED  BY <2>1, SeqMonotonic
  <1>3. ~stopped_ => iocp \in Seq(Completion)
    BY DEF Inv, News
  <1>4. StopEvent \in Sound'
    BY DEF Sound, Packets
  <1>5. q \o es \in Seq(Sound')
    BY <1>1, <1>2, <1>3
  <1>6. iocp' \in Seq(Sound')
    <2> DEFINE p == q \o es
               S == Sound'
    <2>1. p \in Seq(S) /\ StopEvent \in S /\ iocp' \in {p, Append(p, StopEvent)}
      BY <1>4, <1>5
    <2> HIDE DEF p, S
    <2>2. Append(p, StopEvent) \in Seq(S)
      BY <2>1, AppendProperties
    <2>3. iocp' \in Seq(S)
      BY <2>1, <2>2
    <2>. QED  BY <2>3 DEF S
  <1>7. ~stopped_' => iocp' \in Seq(Completion)
    BY <1>1, <1>2, <1>3
  <1>. QED  BY <1>6, <1>7 DEF News, AsioNews

\* A handler keeps what the queue says.
LEMMA HandlerNews ==
    ASSUME Inv, Types', NEW n \in {0, 1}, NEW es \in Seq(Sound \cap Completion), Return(n, es),
           thread = "running", iocp # <<>>, UNCHANGED <<session, up, m_tmpPktIn>>, AsioNews'
    PROVE  News'
  <1>1. Sound' = Sound
    BY DEF Sound, Packets
  <1>2. /\ iocp' \in {Tail(iocp) \o es, Append(Tail(iocp) \o es, StopEvent)}
        /\ ~stopped_' => ~stopped_ /\ iocp' = Tail(iocp) \o es
    BY DEF Return, StopOn
  <1>3. iocp \in Seq(Sound')
    BY <1>1 DEF Inv, News
  <1>. QED  BY <1>1, <1>2, <1>3, NewsKept

LEMMA DoneSound ==
    ASSUME Inv, NEW c \in 1..session, NEW k \in {"connect", "read", "write"},
           k = "connect" => c \notin up, k = "read" => c \in up
    PROVE  Done(c, k, FALSE) \in Sound \cap Completion
  <1> DEFINE e == Done(c, k, FALSE)
  <1>1. c \in Sessions /\ k \in Kinds /\ c <= session
    <2>1. session \in 0..MaxSessions /\ MaxSessions \in Nat
      BY ClientAssumption DEF ClientAssumption, Inv, Types
    <2>2. c \in 1..MaxSessions /\ c <= session
      BY <2>1
    <2>. QED  BY <2>2 DEF Sessions, Kinds
  <1>2. e \in Completion /\ e \in Packets
    BY <1>1, OfFacts
  <1>3. e.conn = c /\ e.kind = k /\ e.ok = FALSE
    BY DEF Done
  <1> HIDE DEF e
  <1>4. /\ e.conn <= session
        /\ e.kind = "connect" => (e.ok <=> e.conn \in up)
        /\ e.kind = "read" => e.conn \in up /\ (e.ok => m_tmpPktIn[e.conn] > 0)
    BY <1>1, <1>3
  <1>5. e \in Sound
    BY <1>2, <1>4 DEF Sound
  <1>. QED  BY <1>2, <1>5 DEF e

LEMMA Singles ==
    ASSUME NEW T
    PROVE  <<>> \in Seq(T) /\ \A e \in T : <<e>> \in Seq(T)
  <1>1. \A e \in T : <<e>> \in Seq(T)
    OBVIOUS
  <1>. QED  BY <1>1, EmptySeq

LEMMA AbortedSound ==
    ASSUME Inv, NEW c \in Sessions
    PROVE  Aborted(c) \in Seq(Sound \cap Completion)
  <1> DEFINE T == Sound \cap Completion
             r == IF rd[c] = "none" THEN <<>> ELSE <<Done(c, rd[c], FALSE)>>
             w == IF c \in wr THEN <<Done(c, "write", FALSE)>> ELSE <<>>
  <1>1. rd[c] # "none" => c \in 1..session
    BY DEF Inv, Types, Sessions
  <1>2. c \in wr => c \in 1..session
    BY DEF Inv, Types
  <1>3. rd[c] # "none" => Done(c, rd[c], FALSE) \in T
    <2>. SUFFICES ASSUME rd[c] # "none" PROVE Done(c, rd[c], FALSE) \in T
      OBVIOUS
    <2>1. rd[c] \in {"connect", "read", "write"} /\ (rd[c] = "connect" => c \notin up)
          /\ (rd[c] = "read" => c \in up)
      BY DEF Inv, Types, News
    <2>. QED  BY <1>1, <2>1, DoneSound
  <1>4. c \in wr => Done(c, "write", FALSE) \in T
    BY <1>2, DoneSound
  <1>5. Aborted(c) = r \o w
    BY DEF Aborted
  <1> HIDE DEF T
  <1>6. r \in Seq(T) /\ w \in Seq(T)
    <2>1. <<>> \in Seq(T) /\ \A e \in T : <<e>> \in Seq(T)
      BY Singles
    <2>2. CASE rd[c] = "none"
      <3>1. r = <<>>
        BY <2>2
      <3>2. w \in Seq(T)
        BY <1>4, <2>1
      <3>. QED  BY <2>1, <3>1, <3>2
    <2>3. CASE rd[c] # "none"
      <3>1. r = <<Done(c, rd[c], FALSE)>> /\ Done(c, rd[c], FALSE) \in T
        BY <1>3, <2>3
      <3>2. w \in Seq(T)
        BY <1>4, <2>1
      <3>. QED  BY <2>1, <3>1, <3>2
    <2>. QED  BY <2>2, <2>3
  <1> HIDE DEF r, w
  <1>7. r \o w \in Seq(T)
    BY <1>6, ConcatProperties
  <1>. QED  BY <1>5, <1>7 DEF T

\* A step of the context alone.
LEMMA IdleKeeps ==
    ASSUME Inv, Types', UNCHANGED <<session, up, m_tmpPktIn, rd, wr, m_PktOut, sends, outstanding_work_>>,
           ~stopped_' => ~stopped_,
           \/ iocp' = iocp
           \/ stopped_' /\ iocp' = Append(iocp, StopEvent)
           \/ stopped_' /\ iocp # <<>> /\ Head(iocp) = StopEvent /\ iocp' = Append(Tail(iocp), StopEvent)
    PROVE  Inv' /\ SameReads({})
  <1>1. Adds(NoSession, 0, 0, 0)
    BY IdleAdds DEF Inv
  <1>2. \A d \in Sessions : ReadOps(d) \in Nat /\ WriteOps(d) \in Nat /\ SendOps(d) \in Nat
    BY OpsAreNumbers DEF Inv
  <1>3. \A d \in Sessions : ReadOps(d)' = ReadOps(d) /\ WriteOps(d)' = WriteOps(d) /\ SendOps(d)' = SendOps(d)
    BY <1>1, <1>2 DEF Adds
  <1>4. Budget'
    BY <1>3 DEF Inv, Budget
  <1>5. Queues'
    BY <1>1 DEF Inv, Queues, Adds
  <1>6. Sound' = Sound
    BY DEF Sound, Packets
  <1>7. News'
    <2> DEFINE es == <<>>
    <2>1. es \in Seq(Sound' \cap Completion)
      BY EmptySeq
    <2>2. iocp \in Seq(Sound) /\ iocp \in Seq(Sound') /\ AsioNews'
      BY <1>6 DEF Inv, News, AsioNews
    <2>3. iocp \o es = iocp /\ (iocp # <<>> => Tail(iocp) \o es = Tail(iocp))
      BY <2>2, HeadTailProperties, ConcatEmptySeq
    <2> HIDE DEF es
    <2>4. \/ iocp' = iocp \o es
          \/ stopped_' /\ iocp' = Append(iocp \o es, StopEvent)
          \/ stopped_' /\ iocp # <<>> /\ iocp' = Append(Tail(iocp) \o es, StopEvent)
      BY <2>3
    <2>5. CASE iocp' = iocp \o es \/ (stopped_' /\ iocp' = Append(iocp \o es, StopEvent))
      BY <2>1, <2>2, <2>5, NewsKept
    <2>6. CASE stopped_' /\ iocp # <<>> /\ iocp' = Append(Tail(iocp) \o es, StopEvent)
      BY <2>1, <2>2, <2>6, NewsKept
    <2>. QED  BY <2>4, <2>5, <2>6
  <1>8. SameReads({})
    BY <1>3 DEF SameReads
  <1>. QED  BY <1>4, <1>5, <1>7, <1>8 DEF Inv

-----------------------------------------------------------------------------
(* The handlers keep the invariant *)

LEMMA ConnectNextKeeps ==
    ASSUME Inv, Types', NEW c \in Sessions, ConnectNext(c)
    PROVE  Inv' /\ SameReads({})
  <1>1. /\ Serves(Done(c, "connect", FALSE)) /\ Return(1, <<>>)
        /\ rd' = [rd EXCEPT ![c] = "connect"]
        /\ UNCHANGED <<session, up, wr, m_tmpPktIn, m_PktOut, sends>>
    BY DEF ConnectNext, Handles, Handler, mainVars
  <1>2. rd[c] = "none" /\ c \notin up
    <2>1. "connect" \in Kinds /\ FALSE \in BOOLEAN
      BY DEF Kinds
    <2>. QED  BY <1>1, <2>1, HeadFacts
  <1>3. Adds(c, 0, 0, 0)
    BY <1>1, <1>2, ConnectNextAdds DEF Inv
  <1>4. Queues' /\ Budget'
    BY <1>1, <1>3, OthersKept
  <1>5. AsioNews'
    BY <1>1, <1>2 DEF AsioNews, Inv, News, Types
  <1>6. News'
    <2> DEFINE es == <<>>
    <2>1. es \in Seq(Sound \cap Completion) /\ Return(1, es)
      BY <1>1, EmptySeq
    <2> HIDE DEF es
    <2>. QED  BY <1>1, <1>5, <2>1, HandlerNews DEF Serves
  <1>7. SameReads({})
    BY <1>3, AddsNoRead
  <1>. QED  BY <1>4, <1>6, <1>7 DEF Inv

LEMMA ConnectFailedKeeps ==
    ASSUME Inv, Types', NEW c \in Sessions, ConnectFailed(c)
    PROVE  Inv' /\ SameReads({c})
  <1>1. /\ \E ok \in BOOLEAN : Serves(Done(c, "connect", ok))
        /\ Return(0, <<>>)
        /\ UNCHANGED <<session, up, rd, wr, m_tmpPktIn, m_PktOut, sends>>
    BY DEF ConnectFailed, Handles, Handler, mainVars, connVars
  <1>2. PICK ok \in BOOLEAN : Serves(Done(c, "connect", ok))
    BY <1>1
  <1>3. Adds(c, -1, 0, 0)
    <2>1. "connect" \in Kinds
      BY DEF Kinds
    <2>2. Adds(c, IF "connect" \in {"connect", "read"} THEN -1 ELSE 0,
                  IF "connect" = "write" THEN -1 ELSE 0, IF "connect" = "send" THEN -1 ELSE 0)
      BY <1>1, <1>2, <2>1, ReturnAdds DEF Inv
    <2>. QED  BY <2>2
  <1>4. Queues' /\ Budget'
    BY <1>1, <1>3, OthersKept
  <1>5. AsioNews'
    BY <1>1 DEF AsioNews, Inv, News
  <1>6. News'
    <2> DEFINE es == <<>>
    <2>1. es \in Seq(Sound \cap Completion) /\ Return(0, es)
      BY <1>1, EmptySeq
    <2> HIDE DEF es
    <2>. QED  BY <1>1, <1>2, <1>5, <2>1, HandlerNews DEF Serves
  <1>7. SameReads({c})
    BY <1>3, AddsReads
  <1>. QED  BY <1>4, <1>6, <1>7 DEF Inv

\* ReadHeader behind the connect or the read that went well.
LEMMA ReadHeaderKeeps ==
    ASSUME Inv, Types', NEW c \in Sessions, NEW k \in {"connect", "read"},
           Serves(Done(c, k, TRUE)), ReadHeader(c), Handler,
           UNCHANGED <<up, wr, m_PktOut>>
    PROVE  Inv' /\ SameReads({})
  <1>1. UNCHANGED <<session, up, wr, m_tmpPktIn, m_PktOut, sends>>
    BY DEF Handler, mainVars
  <1>2. rd[c] = "none" /\ c \in up /\ c \in 1..session
    <2>1. k \in Kinds /\ TRUE \in BOOLEAN
      BY DEF Kinds
    <2>. QED  BY <2>1, HeadFacts
  <1>3. Adds(c, 0, 0, 0)
    <2>1. TRUE \in BOOLEAN
      OBVIOUS
    <2>. QED  BY <1>1, <1>2, <2>1, ReadHeaderAdds DEF Inv
  <1>4. Queues' /\ Budget'
    BY <1>1, <1>3, OthersKept
  <1>5. AsioNews'
    BY <1>1, <1>2 DEF AsioNews, Inv, News, Types, ReadHeader
  <1>6. News'
    <2> DEFINE f == Done(c, "read", FALSE)
               es == IF Usable(c) THEN <<>> ELSE <<f>>
    <2>1. f \in Sound \cap Completion
      BY <1>2, DoneSound
    <2>2. Return(1, es)
      BY DEF ReadHeader
    <2> HIDE DEF f
    <2>3. es \in Seq(Sound \cap Completion)
      BY <2>1, Singles
    <2> HIDE DEF es
    <2>. QED  BY <1>1, <1>5, <2>2, <2>3, HandlerNews DEF Serves
  <1>7. SameReads({})
    BY <1>3, AddsNoRead
  <1>. QED  BY <1>4, <1>6, <1>7 DEF Inv

LEMMA ConnectedKeeps ==
    ASSUME Inv, Types', NEW c \in Sessions, Connected(c) \/ ReadDone(c)
    PROVE  Inv' /\ SameReads({})
  <1>1. CASE Connected(c)
    BY <1>1, ReadHeaderKeeps DEF Connected, Handles
  <1>2. CASE ReadDone(c)
    BY <1>2, ReadHeaderKeeps DEF ReadDone, Handles
  <1>. QED  BY <1>1, <1>2

\* What is left to show when m_PktOut changes and the handler starts a write or nothing.
LEMMA OutKeeps ==
    ASSUME Inv, Types', NEW c \in Sessions, thread = "running", iocp # <<>>,
           WriteHeader(c) \/ (Return(0, <<>>) /\ UNCHANGED wr), Handler,
           UNCHANGED <<rd, up>>, c \in 1..session
    PROVE  News'
  <1>1. UNCHANGED <<session, up, rd, m_tmpPktIn>>
    BY DEF Handler, mainVars
  <1>2. AsioNews'
    BY <1>1 DEF AsioNews, Inv, News
  <1>3. CASE WriteHeader(c)
    <2> DEFINE f == Done(c, "write", FALSE)
               es == IF Usable(c) THEN <<>> ELSE <<f>>
    <2>1. f \in Sound \cap Completion
      BY DoneSound
    <2>2. Return(1, es)
      BY <1>3 DEF WriteHeader
    <2> HIDE DEF f
    <2>3. es \in Seq(Sound \cap Completion)
      BY <2>1, Singles
    <2> HIDE DEF es
    <2>. QED  BY <1>1, <1>2, <2>2, <2>3, HandlerNews
  <1>4. CASE Return(0, <<>>)
    <2> DEFINE es == <<>>
    <2>1. es \in Seq(Sound \cap Completion) /\ Return(0, es)
      BY <1>4, EmptySeq
    <2> HIDE DEF es
    <2>. QED  BY <1>1, <1>2, <2>1, HandlerNews
  <1>. QED  BY <1>3, <1>4

LEMMA RunSendKeeps ==
    ASSUME Inv, Types', NEW c \in Sessions, RunSend(c)
    PROVE  Inv' /\ SameReads({})
  <1>1. /\ Serves(Done(c, "send", TRUE)) /\ Handler
        /\ m_PktOut' = [m_PktOut EXCEPT ![c] = @ + 1]
        /\ IF m_PktOut[c] = 0 THEN WriteHeader(c) ELSE Return(0, <<>>) /\ UNCHANGED wr
        /\ UNCHANGED <<sends, rd, up>>
    BY DEF RunSend, Handles, Handler
  <1>2. "send" \in Kinds /\ TRUE \in BOOLEAN
    BY DEF Kinds
  <1>3. c \in 1..session /\ iocp # <<>> /\ thread = "running"
    BY <1>1, <1>2, HeadFacts DEF Serves
  <1>4. News'
    BY <1>1, <1>3, OutKeeps
  <1>5. /\ m_PktOut' \in [Sessions -> Nat] /\ m_PktOut'[c] = m_PktOut[c] + 1 /\ m_PktOut[c] \in Nat
        /\ \A d \in Sessions \ {c} : m_PktOut'[d] = m_PktOut[d]
    BY <1>1 DEF Inv, Budget
  <1>6. ReadOps(c) \in Nat /\ WriteOps(c) \in Nat /\ SendOps(c) \in Nat /\ sends \in Nat
    BY OpsAreNumbers DEF Inv, Types
  <1>7. /\ ReadOps(c) <= 1
        /\ WriteOps(c) <= (IF m_PktOut[c] > 0 THEN 1 ELSE 0)
        /\ SendOps(c) + m_PktOut[c] <= sends
    BY DEF Inv, Budget
  <1>8. CASE m_PktOut[c] = 0
    <2>1. WriteOps(c) = 0
      BY <1>6, <1>7, <1>8
    <2>2. c \notin wr
      <3>1. Count(iocp, Of(c, {"write"})) \in Nat
        BY CountFacts DEF Inv, Queues
      <3>. QED  BY <2>1, <3>1 DEF WriteOps
    <2>3. Adds(c, 0, 1, -1)
      <3>1. Adds(c, 0, IF "send" = "send" THEN 1 ELSE 0, IF "send" = "send" THEN -1 ELSE 0)
        BY <1>1, <1>2, <1>8, <2>2, WriteHeaderAdds DEF Inv
      <3>. QED  BY <3>1
    <2>4. BudgetOf(c, 0, 1, -1)
      BY <1>1, <1>5, <1>6, <1>7, <1>8, <2>1 DEF BudgetOf
    <2>5. SameReads({})
      BY <2>3, AddsNoRead
    <2>. QED  BY <1>4, <2>3, <2>4, <2>5, BudgetKept DEF Inv
  <1>9. CASE m_PktOut[c] # 0
    <2>1. Adds(c, 0, 0, -1)
      <3>1. Adds(c, IF "send" \in {"connect", "read"} THEN -1 ELSE 0, IF "send" = "write" THEN -1 ELSE 0,
                    IF "send" = "send" THEN -1 ELSE 0)
        BY <1>1, <1>2, <1>9, ReturnAdds DEF Inv
      <3>. QED  BY <3>1
    <2>2. BudgetOf(c, 0, 0, -1)
      BY <1>1, <1>5, <1>6, <1>7, <1>9 DEF BudgetOf
    <2>5. SameReads({})
      BY <2>1, AddsNoRead
    <2>. QED  BY <1>4, <2>1, <2>2, <2>5, BudgetKept DEF Inv
  <1>. QED  BY <1>8, <1>9

LEMMA WriteDoneKeeps ==
    ASSUME Inv, Types', NEW c \in Sessions, WriteDone(c)
    PROVE  Inv' /\ SameReads({})
  <1>1. /\ Serves(Done(c, "write", TRUE)) /\ Handler
        /\ m_PktOut' = [m_PktOut EXCEPT ![c] = @ - 1]
        /\ IF m_PktOut[c] > 1 THEN WriteHeader(c) ELSE Return(0, <<>>) /\ UNCHANGED wr
        /\ UNCHANGED <<sends, rd, up>>
    BY DEF WriteDone, Handles, Handler
  <1>2. "write" \in Kinds /\ TRUE \in BOOLEAN
    BY DEF Kinds
  <1>3. c \in 1..session /\ iocp # <<>> /\ thread = "running"
        /\ c \notin wr /\ m_PktOut[c] > 0 /\ WriteOps(c) = 1
    BY <1>1, <1>2, HeadFacts DEF Serves
  <1>4. News'
    BY <1>1, <1>3, OutKeeps
  <1>5. /\ m_PktOut[c] \in Nat /\ m_PktOut' \in [Sessions -> Nat] /\ m_PktOut'[c] = m_PktOut[c] - 1
        /\ \A d \in Sessions \ {c} : m_PktOut'[d] = m_PktOut[d]
    <2>1. m_PktOut \in [Sessions -> Nat] /\ m_PktOut[c] - 1 \in Nat
      BY <1>3 DEF Inv, Budget
    <2>. QED  BY <1>1, <2>1
  <1>6. ReadOps(c) \in Nat /\ WriteOps(c) \in Nat /\ SendOps(c) \in Nat /\ sends \in Nat
    BY OpsAreNumbers DEF Inv, Types
  <1>7. /\ ReadOps(c) <= 1
        /\ SendOps(c) + m_PktOut[c] <= sends
    BY DEF Inv, Budget
  <1>8. CASE m_PktOut[c] > 1
    <2>1. Adds(c, 0, 0, 0)
      <3>1. Adds(c, 0, IF "write" = "send" THEN 1 ELSE 0, IF "write" = "send" THEN -1 ELSE 0)
        BY <1>1, <1>2, <1>3, <1>8, WriteHeaderAdds DEF Inv
      <3>. QED  BY <3>1
    <2>2. BudgetOf(c, 0, 0, 0)
      BY <1>1, <1>3, <1>5, <1>6, <1>7, <1>8 DEF BudgetOf
    <2>5. SameReads({})
      BY <2>1, AddsNoRead
    <2>. QED  BY <1>4, <2>1, <2>2, <2>5, BudgetKept DEF Inv
  <1>9. CASE ~(m_PktOut[c] > 1)
    <2>1. Adds(c, 0, -1, 0)
      <3>1. Adds(c, IF "write" \in {"connect", "read"} THEN -1 ELSE 0, IF "write" = "write" THEN -1 ELSE 0,
                    IF "write" = "send" THEN -1 ELSE 0)
        BY <1>1, <1>2, <1>9, ReturnAdds DEF Inv
      <3>. QED  BY <3>1
    <2>2. BudgetOf(c, 0, -1, 0)
      BY <1>1, <1>3, <1>5, <1>6, <1>7, <1>9 DEF BudgetOf
    <2>5. SameReads({})
      BY <2>1, AddsNoRead
    <2>. QED  BY <1>4, <2>1, <2>2, <2>5, BudgetKept DEF Inv
  <1>. QED  BY <1>8, <1>9

LEMMA CloseSocketKeeps ==
    ASSUME Inv, Types', NEW c \in Sessions, CloseSocket(c)
    PROVE  Inv' /\ SameReads({c})
  <1>1. /\ \E k \in {"close", "read", "write"}, ok \in BOOLEAN : Serves(Done(c, k, ok))
        /\ Close(c) /\ UNCHANGED <<session, up, m_tmpPktIn, m_PktOut, sends>>
    BY DEF CloseSocket, Handles, Handler, mainVars
  <1>2. PICK k \in {"close", "read", "write"}, ok \in BOOLEAN : Serves(Done(c, k, ok))
    BY <1>1
  <1>3. Adds(c, IF k = "read" THEN -1 ELSE 0, IF k = "write" THEN -1 ELSE 0, 0)
    BY <1>1, <1>2, CloseAdds DEF Inv
  <1>4. Queues' /\ Budget'
    <2>1. (IF k = "read" THEN -1 ELSE 0) \in {-1, 0} /\ (IF k = "write" THEN -1 ELSE 0) \in {-1, 0}
      OBVIOUS
    <2>. QED  BY <1>1, <1>3, <2>1, OthersKept
  <1>5. AsioNews'
    BY <1>1 DEF AsioNews, Inv, News, Types, Close
  <1>6. News'
    <2> DEFINE es == Aborted(c)
    <2>1. es \in Seq(Sound \cap Completion) /\ Return(0, es)
      BY <1>1, AbortedSound DEF Close
    <2> HIDE DEF es
    <2>. QED  BY <1>1, <1>2, <1>5, <2>1, HandlerNews DEF Serves
  <1>7. SameReads({c})
    <2>1. (IF k = "read" THEN -1 ELSE 0) \in Int
      OBVIOUS
    <2>. QED  BY <1>3, <2>1, AddsReads
  <1>. QED  BY <1>4, <1>6, <1>7 DEF Inv

-----------------------------------------------------------------------------
(* The context and the main thread keep it *)

LEMMA RunContextKeeps ==
    ASSUME Inv, Types', RunContext
    PROVE  Inv' /\ SameReads({})
  <1>1. UNCHANGED <<session, up, m_tmpPktIn, rd, wr, m_PktOut, sends>>
    BY DEF RunContext, Handler, mainVars, connVars
  <1>2. CASE EnterRun
    BY <1>1, <1>2, IdleKeeps DEF EnterRun, StopOn
  <1>3. CASE LeaveRun
    BY <1>1, <1>3, IdleKeeps DEF LeaveRun, Serves
  <1>. QED  BY <1>2, <1>3 DEF RunContext

\* A packet behind the others.
LEMMA PostNews ==
    ASSUME Inv, Types', NEW e \in Completion, iocp \in Seq(Sound'), e \in Sound', iocp' = iocp \o <<e>>,
           UNCHANGED stopped_, AsioNews'
    PROVE  News'
  <1> DEFINE es == <<e>>
  <1>1. es \in Seq(Sound' \cap Completion) /\ iocp' = iocp \o es
    BY Singles
  <1> HIDE DEF es
  <1>. QED  BY <1>1, NewsKept

LEMMA MainPosts ==
    ASSUME Inv, Types', NEW c \in Sessions, c <= session, NEW k \in {"send", "close"}, Post(Done(c, k, TRUE)),
           UNCHANGED <<session, rd, wr, up, m_tmpPktIn, m_PktOut>>,
           sends' = IF k = "send" THEN sends + 1 ELSE sends
    PROVE  Inv' /\ SameReads({})
  <1> DEFINE e == Done(c, k, TRUE)
  <1>1. k \in Kinds /\ TRUE \in BOOLEAN
    BY DEF Kinds
  <1>2. Adds(c, 0, 0, IF k = "send" THEN 1 ELSE 0)
    BY <1>1, PostAdds DEF Inv
  <1>3. ReadOps(c) \in Nat /\ WriteOps(c) \in Nat /\ SendOps(c) \in Nat /\ sends \in Nat
    BY <1>1, OpsAreNumbers DEF Inv, Types
  <1>4. BudgetOf(c, 0, 0, IF k = "send" THEN 1 ELSE 0)
    <2>1. /\ ReadOps(c) <= 1
          /\ WriteOps(c) <= (IF m_PktOut[c] > 0 THEN 1 ELSE 0)
          /\ SendOps(c) + m_PktOut[c] <= sends
          /\ m_PktOut \in [Sessions -> Nat] /\ m_PktOut[c] \in Nat
      BY <1>1 DEF Inv, Budget
    <2>2. sends' \in Nat /\ sends <= sends'
      BY <1>3
    <2>3. SendOps(c) + (IF k = "send" THEN 1 ELSE 0) + m_PktOut[c] <= sends'
      BY <1>3, <2>1
    <2>. QED  BY <1>3, <2>1, <2>2, <2>3 DEF BudgetOf
  <1>5. Queues' /\ Budget'
    <2>1. CASE k = "send"
      <3>1. Adds(c, 0, 0, 1) /\ BudgetOf(c, 0, 0, 1)
        BY <1>2, <1>4, <2>1
      <3>. QED  BY <3>1, BudgetKept
    <2>2. CASE k = "close"
      <3>1. Adds(c, 0, 0, 0) /\ BudgetOf(c, 0, 0, 0)
        BY <1>2, <1>4, <2>2
      <3>. QED  BY <3>1, BudgetKept
    <2>. QED  BY <2>1, <2>2
  <1>6. e \in Completion /\ e \in Packets
    BY <1>1, OfFacts
  <1>7. e.conn = c /\ e.kind = k /\ k \notin {"connect", "read"}
    BY DEF Done
  <1>8. iocp' = Append(iocp, e) /\ UNCHANGED stopped_
    BY DEF Post
  <1> HIDE DEF e
  <1>9. Sound' = Sound /\ AsioNews'
    BY DEF Sound, Packets, AsioNews, Inv, News
  <1>10. e \in Sound /\ iocp \in Seq(Sound)
    BY <1>1, <1>6, <1>7 DEF Sound, Inv, News
  <1>11. iocp' = iocp \o <<e>>
    BY <1>8, <1>10, AppendIsConcat
  <1>12. News'
    BY <1>6, <1>8, <1>9, <1>10, <1>11, PostNews
  <1>13. SameReads({})
    BY <1>2, AddsNoRead
  <1>. QED  BY <1>5, <1>12, <1>13 DEF Inv

\* A connection that is held is one of a session there has been.
LEMMA ConnectedFacts ==
    ASSUME Types, IsConnected
    PROVE  m_TCPConnection \in Sessions /\ m_TCPConnection <= session
  <1>1. m_TCPConnection \in 1..session /\ session \in 0..MaxSessions /\ MaxSessions \in Nat
    BY ClientAssumption DEF ClientAssumption, IsConnected, Types
  <1>2. m_TCPConnection \in 1..MaxSessions /\ m_TCPConnection <= session
    BY <1>1
  <1>. QED  BY <1>2 DEF Sessions

LEMMA DisconnectKeeps ==
    ASSUME Inv, Types', Disconnect
    PROVE  Inv' /\ SameReads({})
  <1>1. UNCHANGED <<session, rd, wr, up, m_tmpPktIn, m_PktOut, sends>>
    BY DEF Disconnect, connVars
  <1>2. CASE IsConnected
    <2>1. Post(Done(m_TCPConnection, "close", TRUE)) /\ m_TCPConnection \in Sessions
          /\ m_TCPConnection <= session
      BY <1>2, ConnectedFacts DEF Disconnect, Inv
    <2>2. sends' = IF "close" = "send" THEN sends + 1 ELSE sends
      BY <1>1
    <2>. QED  BY <1>1, <2>1, <2>2, MainPosts
  <1>3. CASE ~IsConnected
    BY <1>1, <1>3, IdleKeeps DEF Disconnect, contextVars
  <1>. QED  BY <1>2, <1>3

LEMMA SendToServerKeeps ==
    ASSUME Inv, Types', SendToServer
    PROVE  Inv' /\ SameReads({})
  <1>1. UNCHANGED <<session, rd, wr, up, m_tmpPktIn, m_PktOut>>
    BY DEF SendToServer, mainVars, connVars
  <1>2. Post(Done(m_TCPConnection, "send", TRUE)) /\ m_TCPConnection \in Sessions
        /\ m_TCPConnection <= session
    BY ConnectedFacts DEF SendToServer, Inv
  <1>3. sends' = IF "send" = "send" THEN sends + 1 ELSE sends
    BY DEF SendToServer
  <1>. QED  BY <1>1, <1>2, <1>3, MainPosts

\* Nothing is known yet of a session that did not begin.
LEMMA NotYet ==
    ASSUME Inv, NEW c \in Sessions, c > session
    PROVE  ReadOps(c) = 0 /\ WriteOps(c) = 0 /\ SendOps(c) = 0
  <1>1. rd[c] = "none" /\ c \notin wr
    <2>1. session \in Nat /\ c \in Nat /\ wr \in SUBSET (1..session)
      BY DEF Inv, Types, Sessions
    <2>. QED  BY <2>1 DEF Inv, Types
  <1>2. ASSUME NEW K PROVE Count(iocp, Of(c, K)) = 0
    <2>1. iocp \in Seq(Sound) /\ StopEvent \notin Completion
      BY StopAssumption DEF StopAssumption, Inv, News
    <2>2. \A i \in 1..Len(iocp) : iocp[i] \in Sound
      BY <2>1
    <2>3. \A e \in Sound : e \notin Of(c, K)
      <3>. SUFFICES ASSUME NEW e \in Sound, e \in Of(c, K) PROVE FALSE
        OBVIOUS
      <3>1. e.conn = c /\ e # StopEvent
        BY <2>1 DEF Of
      <3>2. e.conn <= session
        BY <3>1 DEF Sound
      <3>. QED  BY <3>1, <3>2 DEF Inv, Types, Sessions
    <2>. QED  BY <2>1, <2>2, <2>3, CountFacts
  <1>. QED  BY <1>1, <1>2 DEF ReadOps, WriteOps, SendOps

LEMMA ConnectKeeps ==
    ASSUME Inv, Types', Connect
    PROVE  Inv' /\ SameReads({session + 1}) /\ ReadOps(session)' = 1
  <1> DEFINE c == session + 1
             m == m_TCPConnection
             old == {m_TCPConnection} \ {NoSession}
  <1>1. c \in Sessions /\ c > session /\ c \notin 1..session /\ session <= c
        /\ (m # NoSession => m \in Sessions)
    <2>1. session \in 0..MaxSessions /\ m \in {0} \union 1..session /\ session < MaxSessions
          /\ MaxSessions \in Nat
      BY ClientAssumption DEF ClientAssumption, Connect, Inv, Types, NoSession
    <2>2. c \in 1..MaxSessions /\ (m # 0 => m \in 1..MaxSessions)
      BY <2>1
    <2>. QED  BY <2>1, <2>2 DEF Sessions, NoSession
  <1>2. /\ session' = c
        /\ rd' = [d \in Sessions |-> IF d = c THEN "connect" ELSE IF d \in old THEN "none" ELSE rd[d]]
        /\ iocp' = IF old = {} THEN iocp ELSE iocp \o Aborted(m)
        /\ UNCHANGED <<stopped_, up, m_PktOut, m_tmpPktIn, sends>>
    BY DEF Connect
  <1>3. Adds(c, 1, 0, 0)
    BY ConnectAdds
  <1>4. ReadOps(c) = 0 /\ WriteOps(c) = 0 /\ SendOps(c) = 0
    BY <1>1, NotYet
  <1>5. BudgetOf(c, 1, 0, 0)
    <2>1. sends \in Nat /\ m_PktOut \in [Sessions -> Nat] /\ m_PktOut[c] \in Nat
          /\ SendOps(c) + m_PktOut[c] <= sends
      BY <1>1 DEF Inv, Types, Budget
    <2>. QED  BY <1>1, <1>2, <1>4, <2>1 DEF BudgetOf
  <1>6. Queues' /\ Budget'
    BY <1>1, <1>3, <1>5, BudgetKept
  <1>7. Sound \subseteq Sound'
    <2>1. \A d \in Sessions : m_tmpPktIn[d] \in Nat
      BY ClientAssumption DEF ClientAssumption, Inv, Types
    <2>. QED  BY <1>1, <1>2, <2>1, SoundGrows
  <1>8. iocp \in Seq(Sound')
    BY <1>7, SeqMonotonic DEF Inv, News
  <1>9. AsioNews'
    <2>1. c \notin up
      BY <1>1 DEF Inv, Types
    <2>. QED  BY <1>2, <2>1 DEF AsioNews, Inv, News
  <1> DEFINE es == IF old = {} THEN <<>> ELSE Aborted(m)
  <1>10. es \in Seq(Sound' \cap Completion)
    <2>1. CASE old = {}
      BY <2>1, Singles
    <2>2. CASE old # {}
      <3>1. Aborted(m) \in Seq(Sound \cap Completion)
        BY <1>1, <2>2, AbortedSound
      <3>2. Sound \cap Completion \subseteq Sound' \cap Completion
        BY <1>7
      <3>. QED  BY <2>2, <3>1, <3>2, SeqMonotonic
    <2>. QED  BY <2>1, <2>2
  <1>11. iocp' = iocp \o es
    BY <1>2, <1>8, ConcatEmptySeq
  <1> HIDE DEF es
  <1>12. News'
    BY <1>2, <1>8, <1>9, <1>10, <1>11, NewsKept
  <1>13. SameReads({c})
    BY <1>3, AddsReads
  <1>14. ReadOps(session)' = 1
    <2>1. PICK d \in Sessions : d = c
      BY <1>1
    <2>2. ReadOps(d)' = ReadOps(d) + 1
      BY <1>3, <2>1 DEF Adds
    <2>3. ReadOps(d)' = 1
      BY <1>4, <2>1, <2>2
    <2>. QED  BY <1>2, <2>1, <2>3 DEF ReadOps
  <1>. QED  BY <1>6, <1>12, <1>13, <1>14 DEF Inv, c

-----------------------------------------------------------------------------
(* The system keeps it; every step does *)

LEMMA ConnectEndsKeeps ==
    ASSUME Inv, Types', NEW c \in Sessions, NEW ok \in BOOLEAN, ConnectEnds(c, ok)
    PROVE  Inv' /\ SameReads({})
  <1> DEFINE e == Done(c, "connect", ok)
  <1>1. /\ rd[c] = "connect" /\ rd' = [rd EXCEPT ![c] = "none"]
        /\ Complete(<<e>>) /\ up' = IF ok THEN up \union {c} ELSE up
        /\ UNCHANGED <<session, wr, m_tmpPktIn, m_PktOut, sends, stopped_>>
    BY DEF ConnectEnds, SystemUnchanged, mainVars, Complete
  <1>2. iocp' = iocp \o <<e>>
    BY <1>1 DEF Complete
  <1>3. /\ e \in Completion /\ e \in Packets /\ e # StopEvent
        /\ e.conn = c /\ e.kind = "connect" /\ e.ok = ok
    <2>1. "connect" \in Kinds
      BY DEF Kinds
    <2>. QED  BY <2>1, OfFacts DEF Done
  <1>4. Adds(c, 0, 0, 0)
    BY <1>1, ReadEndsAdds DEF Inv
  <1> HIDE DEF e
  <1>5. Queues' /\ Budget'
    BY <1>1, <1>4, OthersKept
  <1>6. c \notin up /\ c <= session
    <2>1. c \notin up
      BY <1>1 DEF Inv, News
    <2>2. ~(c > session)
      BY <1>1 DEF Inv, Types
    <2>. QED  BY <2>1, <2>2 DEF Inv, Types, Sessions
  <1>7. \A i \in 1..Len(iocp) : iocp[i] \notin Of(c, {"connect", "read"})
    <2>1. Count(iocp, Of(c, {"connect", "read"})) \in Nat
      BY CountFacts DEF Inv, Queues
    <2>2. ReadOps(c) <= 1
      BY DEF Inv, Budget
    <2>3. Count(iocp, Of(c, {"connect", "read"})) = 0
      BY <1>1, <2>1, <2>2 DEF ReadOps
    <2>. QED  BY <2>3, CountFacts DEF Inv, Queues
  <1>8. \A f \in Sound : f \notin Of(c, {"connect", "read"}) => f \in Sound'
    <2>. SUFFICES ASSUME NEW f \in Sound, f # StopEvent, f \notin Of(c, {"connect", "read"})
                  PROVE  f \in Sound'
      BY DEF Sound, Packets
    <2>1. /\ f \in Completion /\ f \in Packets /\ f.conn <= session
          /\ f.kind = "connect" => (f.ok <=> f.conn \in up)
          /\ f.kind = "read" => f.conn \in up /\ (f.ok => m_tmpPktIn[f.conn] > 0)
      BY DEF Sound, Packets
    <2>2. f.kind \in {"connect", "read"} => f.conn # c
      BY <2>1 DEF Of
    <2>3. /\ f.kind = "connect" => (f.ok <=> f.conn \in up')
          /\ f.kind = "read" => f.conn \in up' /\ (f.ok => m_tmpPktIn'[f.conn] > 0)
      BY <1>1, <2>1, <2>2
    <2>. QED  BY <1>1, <2>1, <2>3 DEF Sound, Packets
  <1>9. iocp \in Seq(Sound')
    <2>1. iocp \in Seq(Sound)
      BY DEF Inv, News
    <2>2. \A i \in 1..Len(iocp) : iocp[i] \in Sound'
      BY <1>7, <1>8, <2>1
    <2>. QED  BY <2>1, <2>2
  <1>10. e \in Sound'
    <2>1. e.kind = "connect" => (e.ok <=> e.conn \in up')
      BY <1>1, <1>3, <1>6
    <2>2. e.conn <= session' /\ e.kind # "read" /\ e \in Packets
      BY <1>1, <1>3, <1>6
    <2>. QED  BY <2>1, <2>2 DEF Sound, Packets
  <1>11. AsioNews'
    <2>1. \A d \in Sessions : /\ rd'[d] = IF d = c THEN "none" ELSE rd[d]
                              /\ d # c => (d \in up' <=> d \in up)
      BY <1>1 DEF Inv, Types
    <2>. QED  BY <2>1 DEF AsioNews, Inv, News
  <1>12. News'
    BY <1>1, <1>2, <1>3, <1>9, <1>10, <1>11, PostNews
  <1>13. SameReads({})
    BY <1>4, AddsNoRead
  <1>. QED  BY <1>5, <1>12, <1>13 DEF Inv

LEMMA ReadEndsKeeps ==
    ASSUME Inv, Types', NEW c \in Sessions, NEW ok \in BOOLEAN, ReadEnds(c, ok)
    PROVE  Inv' /\ SameReads({})
  <1> DEFINE e == Done(c, "read", ok)
  <1>1. /\ rd[c] = "read" /\ rd' = [rd EXCEPT ![c] = "none"]
        /\ Complete(<<e>>)
        /\ m_tmpPktIn' = IF ok THEN [m_tmpPktIn EXCEPT ![c] = @ + 1] ELSE m_tmpPktIn
        /\ UNCHANGED <<session, up, wr, m_PktOut, sends, stopped_>>
    BY DEF ReadEnds, SystemUnchanged, mainVars, Complete
  <1>2. iocp' = iocp \o <<e>>
    BY <1>1 DEF Complete
  <1>3. /\ e \in Completion /\ e \in Packets /\ e # StopEvent
        /\ e.conn = c /\ e.kind = "read" /\ e.ok = ok
    <2>1. "read" \in Kinds
      BY DEF Kinds
    <2>. QED  BY <2>1, OfFacts DEF Done
  <1>4. Adds(c, 0, 0, 0)
    BY <1>1, ReadEndsAdds DEF Inv
  <1> HIDE DEF e
  <1>5. Queues' /\ Budget'
    BY <1>1, <1>4, OthersKept
  <1>6. c \in up /\ c <= session
    <2>1. c \in up
      BY <1>1 DEF Inv, News
    <2>2. ~(c > session)
      BY <1>1 DEF Inv, Types
    <2>. QED  BY <2>1, <2>2 DEF Inv, Types, Sessions
  <1>7. \A d \in Sessions : m_tmpPktIn[d] \in Nat /\ m_tmpPktIn[d] <= m_tmpPktIn'[d]
        /\ (ok /\ d = c => m_tmpPktIn'[d] > 0)
    <2>1. m_tmpPktIn \in [Sessions -> 0..MaxServerSends] /\ MaxServerSends \in Nat
      BY ClientAssumption DEF ClientAssumption, Inv, Types
    <2>. QED  BY <1>1, <2>1
  <1>8. iocp \in Seq(Sound')
    <2>1. Sound \subseteq Sound'
      <3>1. session <= session'
        BY <1>1 DEF Inv, Types
      <3>. QED  BY <1>1, <1>7, <3>1, SoundGrows
    <2>. QED  BY <2>1, SeqMonotonic DEF Inv, News
  <1>9. e \in Sound'
    <2>1. e.conn \in up' /\ (e.ok => m_tmpPktIn'[e.conn] > 0)
      BY <1>1, <1>3, <1>6, <1>7
    <2>2. e.conn <= session' /\ e.kind # "connect" /\ e \in Packets
      BY <1>1, <1>3, <1>6
    <2>. QED  BY <2>1, <2>2 DEF Sound, Packets
  <1>10. AsioNews'
    BY <1>1 DEF AsioNews, Inv, News, Types
  <1>11. News'
    BY <1>1, <1>2, <1>3, <1>8, <1>9, <1>10, PostNews
  <1>12. SameReads({})
    BY <1>4, AddsNoRead
  <1>. QED  BY <1>5, <1>11, <1>12 DEF Inv

LEMMA WriteEndsKeeps ==
    ASSUME Inv, Types', NEW c \in Sessions, NEW ok \in BOOLEAN, WriteEnds(c, ok)
    PROVE  Inv' /\ SameReads({})
  <1> DEFINE e == Done(c, "write", ok)
  <1>1. /\ c \in wr /\ wr' = wr \ {c} /\ Complete(<<e>>)
        /\ UNCHANGED <<session, up, rd, m_tmpPktIn, m_PktOut, sends, stopped_>>
    BY DEF WriteEnds, SystemUnchanged, mainVars, Complete
  <1>2. iocp' = iocp \o <<e>>
    BY <1>1 DEF Complete
  <1>3. /\ e \in Completion /\ e \in Packets /\ e # StopEvent
        /\ e.conn = c /\ e.kind = "write"
    <2>1. "write" \in Kinds
      BY DEF Kinds
    <2>. QED  BY <2>1, OfFacts DEF Done
  <1>4. Adds(c, 0, 0, 0)
    BY <1>1, WriteEndsAdds DEF Inv
  <1> HIDE DEF e
  <1>5. Queues' /\ Budget'
    BY <1>1, <1>4, OthersKept
  <1>6. c <= session
    BY <1>1 DEF Inv, Types
  <1>7. Sound' = Sound /\ AsioNews' /\ iocp \in Seq(Sound)
    BY <1>1 DEF Sound, Packets, AsioNews, Inv, News
  <1>8. e \in Sound
    BY <1>3, <1>6 DEF Sound
  <1>9. News'
    BY <1>1, <1>2, <1>3, <1>7, <1>8, PostNews
  <1>10. SameReads({})
    BY <1>4, AddsNoRead
  <1>. QED  BY <1>5, <1>9, <1>10 DEF Inv

\* The steps that touch neither the queue nor an operation.
LEMMA OthersKeep ==
    ASSUME Inv, Types',
           \/ AssignThread \/ Stop \/ Join \/ Frame \/ UNCHANGED vars
           \/ \E c \in Sessions : ServerSends(c) \/ CloseForNext(c)
    PROVE  Inv' /\ SameReads({})
  <1>1. CASE AssignThread
    BY <1>1, IdleKeeps DEF AssignThread, connVars
  <1>2. CASE Stop
    BY <1>2, IdleKeeps DEF Stop, StopOn, connVars
  <1>3. CASE Join
    BY <1>3, IdleKeeps DEF Join, connVars
  <1>4. CASE Frame
    BY <1>4, IdleKeeps DEF Frame, Process, PrepareNextPkt, contextVars, mainVars, connVars
  <1>5. CASE UNCHANGED vars
    BY <1>5, IdleKeeps DEF vars, contextVars, mainVars, connVars
  <1>6. CASE \E c \in Sessions : ServerSends(c)
    BY <1>6, IdleKeeps DEF ServerSends, SystemUnchanged, contextVars, mainVars
  <1>7. CASE \E c \in Sessions : CloseForNext(c)
    BY <1>7, IdleKeeps DEF CloseForNext, Handles, Handler, contextVars, mainVars
  <1>. QED  BY <1>1, <1>2, <1>3, <1>4, <1>5, <1>6, <1>7

\* A handler runs for a session there has been.
LEMMA HandlerSession ==
    ASSUME Inv, NEW c \in Sessions,
           ConnectNext(c) \/ ConnectFailed(c) \/ Connected(c) \/ ReadDone(c) \/ RunSend(c)
             \/ WriteDone(c) \/ CloseSocket(c)
    PROVE  c \in 1..session
  <1>1. \E k \in Kinds, ok \in BOOLEAN : Serves(Done(c, k, ok))
    <2>1. ASSUME NEW k, NEW ok, Handles(c, k, ok)
          PROVE  Serves(Done(c, k, ok))
      BY <2>1 DEF Handles
    <2>. QED  BY <2>1 DEF ConnectNext, ConnectFailed, Connected, ReadDone, RunSend, WriteDone,
                        CloseSocket, Kinds
  <1>. QED  BY <1>1, HeadFacts

LEMMA InvariantStep ==
    ASSUME Inv, [Next]_vars
    PROVE  Inv'
  <1>0. Types
    BY DEF Inv
  <1>1. CASE Main
    <2>1. Types'
      BY <1>0, <1>1, MainKeepsTypes
    <2>2. CASE Connect
      BY <2>1, <2>2, ConnectKeeps
    <2>3. CASE Disconnect
      BY <2>1, <2>3, DisconnectKeeps
    <2>4. CASE SendToServer
      BY <2>1, <2>4, SendToServerKeeps
    <2>5. CASE AssignThread \/ Stop \/ Join
      BY <2>1, <2>5, OthersKeep
    <2>. QED  BY <1>1, <2>2, <2>3, <2>4, <2>5 DEF Main
  <1>2. CASE Frame
    <2>1. Types'
      BY <1>0, <1>2, MainKeepsTypes
    <2>. QED  BY <1>2, <2>1, OthersKeep
  <1>3. CASE RunContext
    BY <1>0, <1>3, RunContextKeepsTypes, RunContextKeeps
  <1>4. ASSUME NEW c \in Sessions,
               ConnectNext(c) \/ ConnectFailed(c) \/ Connected(c) \/ ReadDone(c) \/ RunSend(c)
                 \/ WriteDone(c) \/ CloseSocket(c)
        PROVE  Inv'
    <2>1. c \in 1..session
      BY <1>4, HandlerSession
    <2>2. Types'
      BY <1>0, <1>4, <2>1, HandlersKeepTypes
    <2>3. CASE ConnectNext(c)
      BY <2>2, <2>3, ConnectNextKeeps
    <2>4. CASE ConnectFailed(c)
      BY <2>2, <2>4, ConnectFailedKeeps
    <2>5. CASE Connected(c) \/ ReadDone(c)
      BY <2>2, <2>5, ConnectedKeeps
    <2>6. CASE RunSend(c)
      BY <2>2, <2>6, RunSendKeeps
    <2>7. CASE WriteDone(c)
      BY <2>2, <2>7, WriteDoneKeeps
    <2>8. CASE CloseSocket(c)
      BY <2>2, <2>8, CloseSocketKeeps
    <2>. QED  BY <1>4, <2>3, <2>4, <2>5, <2>6, <2>7, <2>8
  <1>5. ASSUME NEW c \in Sessions, ServerSends(c)
        PROVE  Inv'
    <2>1. FALSE \in BOOLEAN
      OBVIOUS
    <2>2. Types'
      BY <1>0, <1>5, <2>1, SystemKeepsTypes
    <2>. QED  BY <1>5, <2>2, OthersKeep
  <1>6. ASSUME NEW c \in Sessions, NEW ok \in BOOLEAN,
               ConnectEnds(c, ok) \/ ReadEnds(c, ok) \/ WriteEnds(c, ok)
        PROVE  Inv'
    <2>1. Types'
      BY <1>0, <1>6, SystemKeepsTypes
    <2>2. CASE ConnectEnds(c, ok)
      BY <2>1, <2>2, ConnectEndsKeeps
    <2>3. CASE ReadEnds(c, ok)
      BY <2>1, <2>3, ReadEndsKeeps
    <2>4. CASE WriteEnds(c, ok)
      BY <2>1, <2>4, WriteEndsKeeps
    <2>. QED  BY <1>6, <2>2, <2>3, <2>4
  <1>7. CASE UNCHANGED vars
    <2>1. Types'
      BY <1>0, <1>7 DEF Types, vars, contextVars, mainVars, connVars
    <2>. QED  BY <1>7, <2>1, OthersKeep
  <1>8. ASSUME NEW c \in Sessions, CloseForNext(c)
        PROVE  Inv'
    <2>1. Types'
      BY <1>0, <1>8, CloseForNextKeepsTypes
    <2>. QED  BY <1>8, <2>1, OthersKeep
  <1>. QED  BY <1>1, <1>2, <1>3, <1>4, <1>5, <1>6, <1>7, <1>8 DEF Next, Thread

LEMMA InvariantHolds == Spec => []Inv
  BY InitInvariant, InvariantStep, PTL DEF Spec

-----------------------------------------------------------------------------
(* TypeOK *)

\* Every packet on its way to the script was read from a connection.
Kept ==
    /\ m_PktIn \in Seq(Received) /\ pushed \in Seq(Received) /\ taken \in Seq(Received)
    /\ m_pktIn \in Received \union {Invalid}

\* What PushToIncomingQueue pushes was read: the handler of a read that went
\* well runs with the packet in m_tmpPktIn.
LEMMA PushedIsReceived ==
    ASSUME Inv, Kept, NEW c \in Sessions, ReadDone(c)
    PROVE  Kept'
  <1> DEFINE p == <<c, m_tmpPktIn[c]>>
  <1>1. /\ Serves(Done(c, "read", TRUE)) /\ UNCHANGED <<m_pktIn, taken>>
        /\ m_PktIn' = Append(m_PktIn, p) /\ pushed' = Append(pushed, p)
    BY DEF ReadDone, Handles, Handler, scriptVars, Push
  <1>2. m_tmpPktIn[c] > 0
    <2>1. "read" \in Kinds /\ TRUE \in BOOLEAN
      BY DEF Kinds
    <2>. QED  BY <1>1, <2>1, HeadFacts
  <1>3. m_tmpPktIn[c] \in 1..MaxServerSends
    <2>1. m_tmpPktIn[c] \in 0..MaxServerSends /\ MaxServerSends \in Nat
      BY ClientAssumption DEF ClientAssumption, Inv, Types
    <2>. QED  BY <1>2, <2>1
  <1>4. p \in Received
    BY <1>3 DEF Received
  <1> HIDE DEF p
  <1>5. Append(m_PktIn, p) \in Seq(Received) /\ Append(pushed, p) \in Seq(Received)
    BY <1>4, AppendProperties DEF Kept
  <1>. QED  BY <1>1, <1>5 DEF Kept

LEMMA KeptStep ==
    ASSUME Inv, Split, Kept, [Next]_vars
    PROVE  Kept'
  <1>1. CASE Process
    <2>1. m_PktIn # <<>> /\ m_pktIn' = Head(m_PktIn) /\ UNCHANGED <<m_PktIn, taken, pushed>>
      BY <1>1 DEF Process
    <2>2. Head(m_PktIn) \in Received
      BY <2>1, HeadTailProperties DEF Kept
    <2>. QED  BY <2>1, <2>2 DEF Kept
  <1>2. CASE PrepareNextPkt
    <2>1. /\ m_pktIn # Invalid /\ m_PktIn' = Tail(m_PktIn) /\ m_pktIn' = Invalid
          /\ taken' = Append(taken, m_pktIn) /\ UNCHANGED pushed
      BY <1>2 DEF PrepareNextPkt
    <2>2. m_PktIn # <<>> /\ m_pktIn \in Received
      BY <2>1 DEF Split, Kept
    <2>3. Tail(m_PktIn) \in Seq(Received) /\ Append(taken, m_pktIn) \in Seq(Received)
      BY <2>2, HeadTailProperties, AppendProperties DEF Kept
    <2>. QED  BY <2>1, <2>3 DEF Kept
  <1>3. CASE \E c \in Sessions : ReadDone(c)
    BY <1>3, PushedIsReceived
  <1>4. CASE Main
    BY <1>4 DEF Main, Connect, AssignThread, Disconnect, Stop, Join, SendToServer, Kept, scriptVars
  <1>5. CASE RunContext \/ \E c \in Sessions : CloseForNext(c) \/ ConnectNext(c)
                             \/ ConnectFailed(c) \/ Connected(c) \/ RunSend(c) \/ WriteDone(c) \/ CloseSocket(c)
    <2>1. UNCHANGED <<m_PktIn, pushed, scriptVars>>
      BY <1>5 DEF RunContext, CloseForNext, ConnectNext, ConnectFailed, Connected, RunSend, WriteDone, CloseSocket,
                  Handles, Handler
    <2>. QED  BY <2>1 DEF Kept, scriptVars
  <1>6. CASE \E c \in Sessions : \/ ServerSends(c)
                                 \/ \E ok \in BOOLEAN : ConnectEnds(c, ok) \/ ReadEnds(c, ok)
                                                          \/ WriteEnds(c, ok)
    BY <1>6 DEF ServerSends, ConnectEnds, ReadEnds, WriteEnds, SystemUnchanged, Kept, scriptVars
  <1>7. CASE UNCHANGED vars
    BY <1>7 DEF vars, scriptVars, Kept
  <1>. QED  BY <1>1, <1>2, <1>3, <1>4, <1>5, <1>6, <1>7 DEF Next, Frame, Thread

LEMMA KeptInvariant == Spec => []Kept
  <1>1. Init => Kept
    <2>. SUFFICES ASSUME Init PROVE Kept
      OBVIOUS
    <2>1. m_PktIn = <<>> /\ pushed = <<>> /\ m_pktIn = Invalid /\ taken = <<>>
      BY DEF Init
    <2>. QED  BY <2>1, EmptySeq DEF Kept
  <1>2. Inv /\ Split /\ Kept /\ [Next]_vars => Kept'
    BY KeptStep
  <1>. QED  BY <1>1, <1>2, InvariantHolds, SplitInvariant, PTL DEF Spec

\* The state keeps its types.  That m_PktOut has a length says that WriteDone,
\* the handler of async_write, never pops an empty queue, neither after a close
\* nor in a session that follows one that was cut off.
THEOREM TypeCorrect == Spec => []TypeOK
  <1>1. Inv /\ Held /\ Kept => TypeOK
    <2>. SUFFICES ASSUME Inv, Held, Kept PROVE TypeOK
      OBVIOUS
    <2>1. wr \in SUBSET Sessions /\ up \in SUBSET Sessions
      <3>1. wr \in SUBSET (1..session) /\ up \in SUBSET (1..session)
            /\ session \in 0..MaxSessions /\ MaxSessions \in Nat
        BY ClientAssumption DEF ClientAssumption, Inv, Types
      <3>2. 1..session \subseteq 1..MaxSessions
        BY <3>1
      <3>. QED  BY <3>1, <3>2 DEF Sessions
    <2>2. outstanding_work_ \in Nat
      <3>1. outstanding_work_ = Count(iocp, Completion) + Cardinality(Reading) + Cardinality(wr)
        BY DEF Inv, Queues, Load
      <3>2. Cardinality(Reading) \in Nat /\ Cardinality(wr) \in Nat /\ Count(iocp, Completion) \in Nat
        BY SetFacts DEF Inv
      <3>. QED  BY <3>1, <3>2
    <2>3. m_PktOut \in [Sessions -> 0..MaxSends]
      <3>1. ASSUME NEW c \in Sessions PROVE m_PktOut[c] \in 0..MaxSends
        <4>1. m_PktOut[c] \in Nat /\ SendOps(c) \in Nat /\ SendOps(c) + m_PktOut[c] <= sends
          BY OpsAreNumbers DEF Inv, Budget
        <4>2. sends \in 0..MaxSends /\ MaxSends \in Nat
          BY ClientAssumption DEF ClientAssumption, Inv, Types
        <4>. QED  BY <4>1, <4>2
      <3>. QED  BY <3>1 DEF Inv, Budget
    <2>4. iocp \in Seq(Completion \union {StopEvent})
      BY DEF Inv, Queues, Packets
    <2>5. ContextTypeOK(Completion)
      BY <2>2, <2>4 DEF ContextTypeOK, Inv, Types
    <2>. QED  BY <2>1, <2>3, <2>5 DEF TypeOK, Inv, Types, Held, Kept
  <1>. QED  BY <1>1, InvariantHolds, HeldInvariant, KeptInvariant, PTL

-----------------------------------------------------------------------------
(* OpenIsServed: the read and the close that keep run() going *)

\* A socket with an attempt or a connection behind it.
Open(c) == sock[c] \in {"open", "retry"} /\ ~Exhausted(c)

\* The close of c is on the queue, before the event that ends run().
CloseAhead(c) ==
    \E i \in 1..Len(iocp) : /\ iocp[i] = Done(c, "close", TRUE)
                            /\ \A j \in 1..Len(iocp) : iocp[j] = StopEvent => i < j

\* Why somebody serves the socket of a session that began on a running context.
\* There is always one read of it to come, so the context does not stop for
\* want of work; and when Disconnect stops it the close is served first.
Attended(c) ==
    /\ ReadOps(c) = 1
    /\ thread # "ended"
    /\ thread = "none" => mpc = "assign" /\ session = c
    /\ stopped_ \/ mpc = "stop" => CloseAhead(c)
    /\ ~stopped_ => c = m_TCPConnection

Served ==
    /\ mpc = "join" \/ thread = "ended" => stopped_
    /\ \A c \in fresh \ missed : Open(c) => Attended(c)

LEMMA Busy == Inv => \A c \in Sessions : ReadOps(c) = 1 => outstanding_work_ # 0
  <1>. SUFFICES ASSUME Inv, NEW c \in Sessions, ReadOps(c) = 1 PROVE outstanding_work_ # 0
    OBVIOUS
  <1> DEFINE R == Of(c, {"connect", "read"})
  <1>0. Queues /\ iocp \in Seq(Packets) /\ R \in SUBSET Completion
    BY OfType DEF Inv, Queues
  <1>1. outstanding_work_ = Count(iocp, Completion) + Cardinality(Reading) + Cardinality(wr)
    BY DEF Inv, Queues, Load
  <1>2. Cardinality(Reading) \in Nat /\ Cardinality(wr) \in Nat /\ Count(iocp, Completion) \in Nat
    BY <1>0, SetFacts
  <1>3. ReadOps(c) = Count(iocp, R) + (IF rd[c] = "none" THEN 0 ELSE 1) /\ Count(iocp, R) \in Nat
    BY <1>0, CountFacts DEF ReadOps
  <1>4. CASE rd[c] = "none"
    <2>1. Count(iocp, R) # 0
      BY <1>3, <1>4
    <2>2. \E i \in 1..Len(iocp) : iocp[i] \in R
      BY <1>0, <2>1, CountFacts
    <2>3. Count(iocp, Completion) # 0
      BY <1>0, <2>2, CountFacts
    <2>. QED  BY <1>1, <1>2, <2>3
  <1>5. CASE rd[c] # "none"
    <2>1. Cardinality(Reading) # 0
      <3>1. c \in Reading /\ IsFiniteSet(Reading)
        BY <1>0, <1>5, SetFacts DEF Reading
      <3>. QED  BY <3>1, FS_EmptySet
    <2>. QED  BY <1>1, <1>2, <2>1
  <1>. QED  BY <1>4, <1>5

LEMMA BusyNext == (Inv => \A c \in Sessions : ReadOps(c) = 1 => outstanding_work_ # 0)'
  BY Busy, PTL

\* The close stays ahead of the stop event as the queue grows and as its front is served.
LEMMA AheadAppended ==
    ASSUME iocp \in Seq(Packets), NEW es \in Seq(Packets), iocp' = iocp \o es, NEW c, CloseAhead(c)
    PROVE  CloseAhead(c)'
  <1> DEFINE e == Done(c, "close", TRUE)
  <1>1. /\ Len(iocp') = Len(iocp) + Len(es) /\ Len(iocp) \in Nat /\ Len(es) \in Nat
        /\ \A i \in 1..Len(iocp) : iocp'[i] = iocp[i]
    BY ConcatProperties
  <1>2. PICK i \in 1..Len(iocp) : /\ iocp[i] = e
                                  /\ \A j \in 1..Len(iocp) : iocp[j] = StopEvent => i < j
    BY DEF CloseAhead
  <1> HIDE DEF e
  <1>3. i \in 1..Len(iocp') /\ iocp'[i] = e
    BY <1>1, <1>2
  <1>4. ASSUME NEW j \in 1..Len(iocp'), iocp'[j] = StopEvent
        PROVE  i < j
    <2>1. CASE j <= Len(iocp)
      <3>1. j \in 1..Len(iocp) /\ iocp'[j] = iocp[j]
        BY <1>1, <2>1
      <3>. QED  BY <1>2, <1>4, <3>1
    <2>2. CASE j > Len(iocp)
      BY <1>1, <1>2, <2>2
    <2>. QED  BY <1>1, <2>1, <2>2
  <1>. QED  BY <1>3, <1>4 DEF CloseAhead, e

LEMMA AheadServed ==
    ASSUME iocp \in Seq(Packets), iocp # <<>>, NEW c, CloseAhead(c), Head(iocp) # Done(c, "close", TRUE),
           NEW es \in Seq(Packets), iocp' = Tail(iocp) \o es
    PROVE  CloseAhead(c)'
  <1> DEFINE t == Tail(iocp)
             e == Done(c, "close", TRUE)
  <1>0. /\ t \in Seq(Packets) /\ Len(t) = Len(iocp) - 1 /\ Head(iocp) = iocp[1] /\ Len(iocp) \in Nat
        /\ \A i \in 1..Len(t) : t[i] = iocp[i + 1]
    BY HeadTailProperties
  <1>1. iocp' = t \o es
    OBVIOUS
  <1> HIDE DEF t
  <1>2. /\ Len(iocp') = Len(t) + Len(es) /\ Len(t) \in Nat /\ Len(es) \in Nat
        /\ \A i \in 1..Len(t) : iocp'[i] = t[i]
    BY <1>0, <1>1, ConcatProperties
  <1>3. PICK i \in 1..Len(iocp) : /\ iocp[i] = e
                                  /\ \A j \in 1..Len(iocp) : iocp[j] = StopEvent => i < j
    BY DEF CloseAhead
  <1>4. i # 1
    BY <1>0, <1>3
  <1> HIDE DEF e
  <1>5. i - 1 \in 1..Len(t) /\ i - 1 \in 1..Len(iocp')
    BY <1>0, <1>2, <1>3, <1>4
  <1>6. iocp'[i - 1] = e
    <2>1. iocp'[i - 1] = iocp[(i - 1) + 1]
      BY <1>0, <1>2, <1>5
    <2>2. (i - 1) + 1 = i
      BY <1>3
    <2>. QED  BY <1>3, <2>1, <2>2
  <1>7. ASSUME NEW j \in 1..Len(iocp'), iocp'[j] = StopEvent
        PROVE  i - 1 < j
    <2>1. CASE j <= Len(t)
      <3>1. j \in 1..Len(t) /\ j + 1 \in 1..Len(iocp)
        BY <1>0, <1>2, <2>1
      <3>2. iocp[j + 1] = StopEvent
        BY <1>0, <1>2, <1>7, <3>1
      <3>3. i < j + 1
        BY <1>3, <3>1, <3>2
      <3>. QED  BY <3>3
    <2>2. CASE j > Len(t)
      BY <1>2, <1>5, <2>2
    <2>. QED  BY <1>2, <2>1, <2>2
  <1>. QED  BY <1>5, <1>6, <1>7 DEF CloseAhead, e

\* A socket that is closed, and a host that was given up, stay so.
LEMMA OpenStays ==
    ASSUME Inv, NEW c \in Sessions,
           ConnectNext(c) \/ ConnectFailed(c) \/ Connected(c) \/ ReadDone(c) \/ RunSend(c)
             \/ WriteDone(c) \/ CloseSocket(c),
           NEW d \in Sessions, Open(d)'
    PROVE  /\ Open(d)
           /\ d = c => ~ConnectFailed(c) /\ ~CloseSocket(c)
  <1> USE DEF Inv, Types, Open, Exhausted
  <1>0. TRUE \in BOOLEAN /\ FALSE \in BOOLEAN /\ "connect" \in Kinds /\ "read" \in Kinds
    BY DEF Kinds
  <1>1. CASE ConnectNext(c)
    <2>1. sock[c] = "retry" /\ tries[c] # Attempts
      BY <1>1, ClientAssumption DEF ConnectNext, ClientAssumption
    <2>2. d # c => Open(d)
      BY <1>1 DEF ConnectNext
    <2>3. ~ConnectFailed(c) /\ ~CloseSocket(c)
      <3>1. iocp # <<>> /\ Head(iocp) = Done(c, "connect", FALSE)
        BY <1>1 DEF ConnectNext, Handles, Serves
      <3>. QED  BY <2>1, <3>1 DEF ConnectFailed, CloseSocket, Handles, Serves, Done
    <2>. QED  BY <2>1, <2>2, <2>3
  <1>2. CASE ConnectFailed(c)
    <2>1. UNCHANGED <<sock, tries, rd, up>>
      BY <1>2 DEF ConnectFailed, connVars
    <2>2. ~Open(c)
      <3>1. CASE sock[c] = "closed"
        BY <3>1
      <3>2. CASE Handles(c, "connect", FALSE) /\ tries[c] = Attempts
        <4>1. Serves(Done(c, "connect", FALSE))
          BY <3>2 DEF Handles
        <4>2. rd[c] = "none" /\ c \notin up
          BY <1>0, <4>1, HeadFacts
        <4>. QED  BY <3>2, <4>2
      <3>. QED  BY <1>2, <3>1, <3>2 DEF ConnectFailed
    <2>. QED  BY <2>1, <2>2
  <1>3. CASE Connected(c) \/ ReadDone(c)
    <2>1. PICK k \in {"connect", "read"} : Serves(Done(c, k, TRUE))
      BY <1>3 DEF Connected, ReadDone, Handles
    <2>2. c \in up
      <3>1. k \in Kinds
        BY DEF Kinds
      <3>. QED  BY <1>0, <2>1, <3>1, HeadFacts
    <2>3. UNCHANGED <<sock, tries, up>> /\ \A e \in Sessions : e # c => rd'[e] = rd[e]
      BY <1>3 DEF Connected, ReadDone, ReadHeader
    <2>4. Open(d)
      BY <2>2, <2>3
    <2>5. d = c => ~ConnectFailed(c) /\ ~CloseSocket(c)
      <3>. SUFFICES ASSUME d = c PROVE ~ConnectFailed(c) /\ ~CloseSocket(c)
        OBVIOUS
      <3>1. sock[c] # "closed" /\ Head(iocp) = Done(c, k, TRUE)
        BY <2>1, <2>4 DEF Serves
      <3>. QED  BY <3>1 DEF ConnectFailed, CloseSocket, Handles, Serves, Done
    <2>. QED  BY <2>4, <2>5
  <1>4. CASE RunSend(c) \/ WriteDone(c)
    <2>1. UNCHANGED <<sock, tries, up, rd>>
      BY <1>4 DEF RunSend, WriteDone
    <2>2. \E k \in {"send", "write"} : Head(iocp) = Done(c, k, TRUE)
      BY <1>4 DEF RunSend, WriteDone, Handles, Serves
    <2>. QED  BY <2>1, <2>2 DEF ConnectFailed, CloseSocket, Handles, Serves, Done
  <1>5. CASE CloseSocket(c)
    BY <1>5 DEF CloseSocket, Close
  <1>. QED  BY <1>1, <1>2, <1>3, <1>4, <1>5

\* A handler that leaves the socket of d open leaves it attended.
LEMMA HandlerAttends ==
    ASSUME Inv, Inv', Served, NEW e \in Packets, Serves(e), Handler, NEW n \in {0, 1},
           NEW es \in Seq(Completion), Return(n, es), NEW d \in fresh \ missed, Open(d), ReadOps(d)' = ReadOps(d),
           e # Done(d, "close", TRUE)
    PROVE  Attended(d)'
  <1>1. /\ UNCHANGED <<mpc, session, m_TCPConnection, thread>> /\ thread = "running"
        /\ iocp # <<>> /\ Head(iocp) = e
    BY DEF Handler, mainVars, Return, Serves
  <1>2. Attended(d) /\ ReadOps(d)' = 1
    BY DEF Served, Attended
  <1>3. d \in Sessions
    <2>1. d \in 1..session /\ session \in 0..MaxSessions /\ MaxSessions \in Nat
      BY ClientAssumption DEF ClientAssumption, Inv, Types
    <2>2. d \in 1..MaxSessions
      BY <2>1
    <2>. QED  BY <2>2 DEF Sessions
  <1>4. outstanding_work_' # 0
    BY <1>2, <1>3, BusyNext
  <1>5. iocp' = Tail(iocp) \o es /\ UNCHANGED stopped_
    BY <1>4 DEF Return
  <1>6. CloseAhead(d) => CloseAhead(d)'
    <2>1. iocp \in Seq(Packets) /\ es \in Seq(Packets)
      BY SeqOfPackets DEF Inv, Queues
    <2>. QED  BY <1>1, <1>5, <2>1, AheadServed
  <1>. QED  BY <1>1, <1>2, <1>5, <1>6 DEF Attended

LEMMA HandlersKeepServed ==
    ASSUME Inv, Inv', Served, NEW c \in Sessions,
           ConnectNext(c) \/ ConnectFailed(c) \/ Connected(c) \/ ReadDone(c) \/ RunSend(c)
             \/ WriteDone(c) \/ CloseSocket(c),
           SameReads({c}), ~ConnectFailed(c) /\ ~CloseSocket(c) => SameReads({})
    PROVE  Served'
  <1>1. /\ Handler
        /\ \E k \in Kinds, ok \in BOOLEAN : Serves(Done(c, k, ok))
        /\ CloseSocket(c) \/ ~Serves(Done(c, "close", TRUE))
    <2>0. ASSUME NEW k \in Kinds \ {"close"}, NEW ok \in BOOLEAN, Serves(Done(c, k, ok))
          PROVE  ~Serves(Done(c, "close", TRUE))
      BY <2>0 DEF Serves, Done
    <2>1. ASSUME NEW k, NEW ok, Handles(c, k, ok)
          PROVE  Serves(Done(c, k, ok)) /\ Handler
      BY <2>1 DEF Handles
    <2>2. {"connect", "read", "write", "send"} \subseteq Kinds \ {"close"} /\ "close" \in Kinds
      BY DEF Kinds
    <2>3. CASE CloseSocket(c)
      BY <2>1, <2>2, <2>3 DEF CloseSocket
    <2>4. CASE ConnectNext(c) \/ ConnectFailed(c) \/ Connected(c) \/ ReadDone(c) \/ RunSend(c) \/ WriteDone(c)
      <3>1. \E k \in {"connect", "read", "write", "send"}, ok \in BOOLEAN : Handles(c, k, ok)
        BY <2>4 DEF ConnectNext, ConnectFailed, Connected, ReadDone, RunSend, WriteDone
      <3>2. PICK k \in {"connect", "read", "write", "send"}, ok \in BOOLEAN : Handles(c, k, ok)
        BY <3>1
      <3>3. k \in Kinds \ {"close"} /\ Serves(Done(c, k, ok)) /\ Handler
        BY <2>1, <2>2, <3>2
      <3>. QED  BY <2>0, <3>3
    <2>. QED  BY <2>3, <2>4
  <1>2. \E n \in {0, 1}, es \in Seq(Completion) : Return(n, es)
    <2>1. <<>> \in Seq(Completion) /\ <<Done(c, "read", FALSE)>> \in Seq(Completion)
          /\ <<Done(c, "write", FALSE)>> \in Seq(Completion)
      <3>1. "read" \in Kinds /\ "write" \in Kinds /\ FALSE \in BOOLEAN
        BY DEF Kinds
      <3>2. Done(c, "read", FALSE) \in Completion /\ Done(c, "write", FALSE) \in Completion
        BY <3>1, OfFacts
      <3>. QED  BY <3>2, ShortQueues
    <2>2. Aborted(c) \in Seq(Completion)
      BY AbortedOps DEF Inv
    <2>3. ReadHeader(c) \/ WriteHeader(c) \/ Close(c) \/ Return(0, <<>>) \/ Return(1, <<>>)
      <3>1. CASE ConnectNext(c)
        BY <3>1 DEF ConnectNext
      <3>2. CASE ConnectFailed(c)
        BY <3>2 DEF ConnectFailed
      <3>3. CASE Connected(c)
        BY <3>3 DEF Connected
      <3>4. CASE ReadDone(c)
        BY <3>4 DEF ReadDone
      <3>5. CASE RunSend(c)
        BY <3>5 DEF RunSend
      <3>6. CASE WriteDone(c)
        BY <3>6 DEF WriteDone
      <3>7. CASE CloseSocket(c)
        BY <3>7 DEF CloseSocket
      <3>. QED  BY <3>1, <3>2, <3>3, <3>4, <3>5, <3>6, <3>7
    <2>4. CASE ReadHeader(c)
      BY <2>1, <2>4 DEF ReadHeader
    <2>5. CASE WriteHeader(c)
      BY <2>1, <2>5 DEF WriteHeader
    <2>6. CASE Close(c)
      BY <2>2, <2>6 DEF Close
    <2>7. CASE Return(0, <<>>) \/ Return(1, <<>>)
      BY <2>1, <2>7
    <2>. QED  BY <2>3, <2>4, <2>5, <2>6, <2>7
  <1>3. PICK k \in Kinds, ok \in BOOLEAN : Serves(Done(c, k, ok))
    BY <1>1
  <1>4. PICK n \in {0, 1}, es \in Seq(Completion) : Return(n, es)
    BY <1>2
  <1>5. UNCHANGED <<mpc, fresh, missed, thread>> /\ (stopped_ => stopped_')
    BY <1>1, <1>4 DEF Handler, mainVars, Return, StopOn
  <1>6. ASSUME NEW d \in fresh \ missed, Open(d)'
        PROVE  Attended(d)'
    <2> DEFINE e == Done(c, k, ok)
    <2>1. d \in Sessions
      <3>1. d \in 1..session /\ session \in 0..MaxSessions /\ MaxSessions \in Nat
        BY ClientAssumption DEF ClientAssumption, Inv, Types
      <3>2. d \in 1..MaxSessions
        BY <3>1
      <3>. QED  BY <3>2 DEF Sessions
    <2>2. Open(d) /\ (d = c => ~ConnectFailed(c) /\ ~CloseSocket(c))
      BY <1>6, <2>1, OpenStays
    <2>3. ReadOps(d)' = ReadOps(d)
      BY <2>1, <2>2 DEF SameReads
    <2>4. e \in Packets /\ Serves(e)
      BY <1>3, OfFacts
    <2>5. e # Done(d, "close", TRUE)
      <3>1. CASE d = c
        BY <1>1, <1>3, <2>2, <3>1
      <3>2. CASE d # c
        BY <3>2 DEF Done
      <3>. QED  BY <3>1, <3>2
    <2> HIDE DEF e
    <2>. QED  BY <1>1, <1>4, <2>2, <2>3, <2>4, <2>5, HandlerAttends
  <1>. QED  BY <1>5, <1>6 DEF Served

LEMMA FreshSessions ==
    ASSUME Inv
    PROVE  \A d \in fresh : d \in Sessions /\ d \in 1..session
  <1>1. session \in 0..MaxSessions /\ MaxSessions \in Nat /\ fresh \in SUBSET (1..session)
    BY ClientAssumption DEF ClientAssumption, Inv, Types
  <1>2. 1..session \subseteq 1..MaxSessions
    BY <1>1
  <1>. QED  BY <1>1, <1>2 DEF Sessions

LEMMA RunContextKeepsServed ==
    ASSUME Inv, Served, RunContext, SameReads({})
    PROVE  Served'
  <1>1. UNCHANGED <<mpc, session, m_TCPConnection, fresh, missed, sock, tries, rd, up>>
    BY DEF RunContext, Handler, mainVars, connVars
  <1>2. \A d \in fresh \ missed : Open(d)' => Attended(d) /\ ReadOps(d)' = 1 /\ outstanding_work_ # 0
    <2>1. ASSUME NEW d \in fresh \ missed, Open(d)' PROVE Attended(d) /\ ReadOps(d)' = 1 /\ outstanding_work_ # 0
      <3>1. Open(d) /\ d \in Sessions
        BY <1>1, <2>1, FreshSessions DEF Open, Exhausted
      <3>2. Attended(d)
        BY <3>1 DEF Served
      <3>. QED  BY <3>1, <3>2, Busy DEF Attended, SameReads
    <2>. QED  BY <2>1
  <1>3. CASE EnterRun
    <2>1. mpc' = "join" \/ thread' = "ended" => stopped_'
      BY <1>1, <1>3 DEF Served, EnterRun, StopOn
    <2>2. ASSUME NEW d \in fresh \ missed, Open(d)' PROVE Attended(d)'
      <3>1. Attended(d) /\ ReadOps(d)' = 1 /\ outstanding_work_ # 0
        BY <1>2, <2>2
      <3>2. thread' = "running" /\ UNCHANGED <<iocp, stopped_>>
        BY <1>3, <3>1 DEF EnterRun
      <3>. QED  BY <1>1, <3>1, <3>2 DEF Attended, CloseAhead
    <2>. QED  BY <1>1, <2>1, <2>2 DEF Served
  <1>4. CASE LeaveRun
    <2>1. mpc' = "join" \/ thread' = "ended" => stopped_'
      BY <1>4 DEF LeaveRun
    <2>2. ASSUME NEW d \in fresh \ missed, Open(d)' PROVE FALSE
      <3>1. CloseAhead(d)
        BY <1>2, <1>4, <2>2 DEF Attended, LeaveRun
      <3>2. iocp \in Seq(Packets) /\ iocp # <<>> /\ Head(iocp) = StopEvent
        BY <1>4 DEF Inv, Queues, LeaveRun, Serves
      <3>3. 1 \in 1..Len(iocp) /\ iocp[1] = StopEvent
        BY <3>2, HeadTailProperties, EmptySeq
      <3>. QED  BY <3>1, <3>3 DEF CloseAhead
    <2>. QED  BY <1>1, <2>1, <2>2 DEF Served
  <1>. QED  BY <1>3, <1>4 DEF RunContext

\* A step that at most puts something on the queue.
LEMMA QueueGrows ==
    ASSUME Inv, Served, SameReads({}),
           UNCHANGED <<mpc, session, m_TCPConnection, fresh, missed, thread, stopped_>>,
           NEW es \in Seq(Packets), iocp' = iocp \o es, \A d \in fresh \ missed : Open(d)' => Open(d)
    PROVE  Served'
  <1>1. ASSUME NEW d \in fresh \ missed, Open(d)' PROVE Attended(d)'
    <2>1. Attended(d) /\ ReadOps(d)' = 1
      BY <1>1, FreshSessions DEF Served, Attended, SameReads
    <2>2. CloseAhead(d) => CloseAhead(d)'
      BY AheadAppended DEF Inv, Queues
    <2>. QED  BY <2>1, <2>2 DEF Attended
  <1>. QED  BY <1>1 DEF Served

LEMMA SystemKeepsServed ==
    ASSUME Inv, Served, NEW c \in Sessions, NEW ok \in BOOLEAN,
           ConnectEnds(c, ok) \/ ReadEnds(c, ok) \/ WriteEnds(c, ok), SameReads({})
    PROVE  Served'
  <1>1. UNCHANGED <<mpc, session, m_TCPConnection, fresh, missed, thread, stopped_, sock, tries>>
    BY DEF ConnectEnds, ReadEnds, WriteEnds, SystemUnchanged, Complete, mainVars
  <1>2. \E es \in Seq(Packets) : iocp' = iocp \o es
    <2>1. \E k \in Kinds : Complete(<<Done(c, k, ok)>>)
      BY DEF ConnectEnds, ReadEnds, WriteEnds, Kinds
    <2>2. PICK k \in Kinds : Complete(<<Done(c, k, ok)>>)
      BY <2>1
    <2> DEFINE e == Done(c, k, ok)
    <2>3. e \in Packets /\ iocp' = iocp \o <<e>>
      BY <2>2, OfFacts DEF Complete
    <2> HIDE DEF e
    <2>4. <<e>> \in Seq(Packets)
      BY <2>3
    <2>. QED  BY <2>3, <2>4
  <1>3. \A d \in fresh \ missed : Open(d)' => Open(d)
    <2>1. ASSUME NEW d \in fresh \ missed, Open(d)' PROVE Open(d)
      <3>1. d \in Sessions
        BY FreshSessions
      <3>2. CASE rd[d] # "none"
        BY <1>1, <2>1, <3>2 DEF Open, Exhausted
      <3>3. CASE rd[d] = "none"
        <4>1. rd'[d] = "none" /\ (d \in up' => d \in up)
          BY <3>1, <3>3 DEF ConnectEnds, ReadEnds, WriteEnds, Inv, Types
        <4>. QED  BY <1>1, <2>1, <4>1 DEF Open, Exhausted
      <3>. QED  BY <3>2, <3>3
    <2>. QED  BY <2>1
  <1>. QED  BY <1>1, <1>2, <1>3, QueueGrows

\* Everything but Connect and Join among the steps of the main thread.
LEMMA MainKeepsServed ==
    ASSUME Inv, Served, SameReads({}),
           AssignThread \/ Disconnect \/ Stop \/ SendToServer
    PROVE  Served'
  <1>1. UNCHANGED <<session, m_TCPConnection, fresh, sock, tries, rd, up>> /\ missed \subseteq missed'
    BY DEF AssignThread, Disconnect, Stop, SendToServer, mainVars, connVars
  <1>2. \A d \in fresh \ missed : Open(d)' => Open(d) /\ Attended(d) /\ ReadOps(d)' = 1 /\ d \in Sessions
    BY <1>1, FreshSessions DEF Served, Attended, SameReads, Open, Exhausted
  <1>3. iocp \in Seq(Packets) /\ (~stopped_ => iocp \in Seq(Completion))
    BY DEF Inv, Queues, News
  <1>4. CASE AssignThread
    BY <1>1, <1>2, <1>4 DEF AssignThread, Served, Attended, CloseAhead
  <1>5. CASE Disconnect
    <2>1. /\ mpc = "idle" /\ mpc' = "stop" /\ UNCHANGED <<stopped_, thread>>
          /\ IF IsConnected THEN iocp' = Append(iocp, Done(m_TCPConnection, "close", TRUE))
                            ELSE iocp' = iocp
          /\ missed' = missed \union MidRetry
      BY <1>5 DEF Disconnect, Post, contextVars
    <2>2. ASSUME NEW d \in fresh \ missed', Open(d)' PROVE CloseAhead(d)'
      <3>0. Open(d) /\ Attended(d) /\ d \in Sessions
        BY <1>1, <1>2, <2>2
      <3>1. CASE stopped_
        <4>1. CloseAhead(d)
          BY <3>0, <3>1 DEF Attended
        <4>2. CASE IsConnected
          <5> DEFINE e == Done(m_TCPConnection, "close", TRUE)
                     es == <<e>>
          <5>1. m_TCPConnection \in Sessions /\ "close" \in Kinds /\ TRUE \in BOOLEAN
            BY <4>2, ConnectedFacts DEF Inv, Kinds
          <5>2. e \in Packets
            BY <5>1, OfFacts
          <5>3. iocp' = Append(iocp, e)
            BY <2>1, <4>2
          <5> HIDE DEF e
          <5>4. es \in Seq(Packets) /\ iocp' = iocp \o es
            BY <1>3, <5>2, <5>3, AppendIsConcat
          <5> HIDE DEF es
          <5>. QED  BY <1>3, <4>1, <5>4, AheadAppended
        <4>3. CASE ~IsConnected
          BY <2>1, <4>1, <4>3 DEF CloseAhead
        <4>. QED  BY <4>2, <4>3
      <3>2. CASE ~stopped_
        <4>1. d = m_TCPConnection /\ IsConnected
          <5>2. d # NoSession
            BY <3>0 DEF Sessions, NoSession
          <5>3. d = m_TCPConnection
            BY <3>0, <3>2 DEF Attended
          <5>1. d = m_TCPConnection /\ sock[d] = "open"
            BY <2>1, <2>2, <3>0, <5>2, <5>3 DEF Open, MidRetry
          <5>. QED  BY <5>1, <5>2 DEF IsConnected
        <4> DEFINE e == Done(d, "close", TRUE)
        <4>2. e \in Completion /\ e # StopEvent
          <5>1. "close" \in Kinds /\ TRUE \in BOOLEAN
            BY DEF Kinds
          <5>. QED  BY <3>0, <5>1, OfFacts
        <4>3. iocp' = Append(iocp, e) /\ iocp \in Seq(Completion)
          BY <1>3, <2>1, <3>2, <4>1
        <4> HIDE DEF e
        <4>4. /\ Len(iocp') = Len(iocp) + 1 /\ Len(iocp) \in Nat /\ iocp' \in Seq(Completion)
              /\ iocp'[Len(iocp) + 1] = e
          BY <4>2, <4>3, AppendProperties
        <4>5. \A j \in 1..Len(iocp') : iocp'[j] # StopEvent
          <5>1. \A j \in 1..Len(iocp') : iocp'[j] \in Completion
            BY <4>4
          <5>. QED  BY <5>1, StopAssumption DEF StopAssumption
        <4>6. Len(iocp) + 1 \in 1..Len(iocp')
          BY <4>4
        <4>. QED  BY <4>4, <4>5, <4>6 DEF CloseAhead, e
      <3>. QED  BY <3>1, <3>2
    <2>3. mpc' = "join" \/ thread' = "ended" => stopped_'
      BY <2>1 DEF Served
    <2>. QED  BY <1>1, <1>2, <2>1, <2>2, <2>3 DEF Served, Attended
  <1>6. CASE Stop
    <2>1. /\ mpc = "stop" /\ mpc' = "join" /\ stopped_' = TRUE /\ thread' = thread
          /\ iocp' = iocp \/ iocp' = Append(iocp, StopEvent)
      BY <1>6 DEF Stop, StopOn
    <2>2. ASSUME NEW d \in fresh \ missed, Open(d)' PROVE CloseAhead(d)'
      <3>1. CloseAhead(d)
        BY <1>2, <2>1, <2>2 DEF Attended
      <3>2. CASE iocp' = iocp
        BY <3>1, <3>2 DEF CloseAhead
      <3>3. CASE iocp' = Append(iocp, StopEvent)
        <4> DEFINE es == <<StopEvent>>
        <4>1. StopEvent \in Packets
          BY DEF Packets
        <4>2. es \in Seq(Packets) /\ iocp' = iocp \o es
          BY <1>3, <3>3, <4>1, AppendIsConcat
        <4> HIDE DEF es
        <4>. QED  BY <1>3, <3>1, <4>2, AheadAppended
      <3>. QED  BY <2>1, <3>2, <3>3
    <2>3. \A d \in fresh \ missed : ~(thread = "none" /\ Open(d)')
      BY <1>2, <2>1 DEF Attended
    <2>. QED  BY <1>1, <1>2, <2>1, <2>2, <2>3 DEF Served, Attended
  <1>7. CASE SendToServer
    <2> DEFINE e == Done(m_TCPConnection, "send", TRUE)
               es == <<e>>
    <2>1. UNCHANGED <<mpc, session, m_TCPConnection, fresh, missed, thread, stopped_>> /\ iocp' = Append(iocp, e)
      BY <1>7 DEF SendToServer, Post, mainVars
    <2>2. e \in Packets
      <3>1. m_TCPConnection \in Sessions /\ "send" \in Kinds /\ TRUE \in BOOLEAN
        BY <1>7, ConnectedFacts DEF SendToServer, Inv, Kinds
      <3>. QED  BY <3>1, OfFacts
    <2> HIDE DEF e
    <2>3. es \in Seq(Packets) /\ iocp' = iocp \o es
      BY <1>3, <2>1, <2>2, AppendIsConcat
    <2> HIDE DEF es
    <2>. QED  BY <1>2, <2>1, <2>3, QueueGrows
  <1>. QED  BY <1>4, <1>5, <1>6, <1>7

LEMMA JoinKeepsServed ==
    ASSUME Inv, Served, Join
    PROVE  Served'
  <1>1. /\ mpc = "join" /\ thread \in {"none", "ended"} /\ mpc' = "idle" /\ thread' = "none"
        /\ UNCHANGED <<session, fresh, missed, sock, tries, rd, up, stopped_>>
    BY DEF Join, connVars
  <1>2. \A d \in fresh \ missed : ~Open(d)
    BY <1>1 DEF Served, Attended
  <1>. QED  BY <1>1, <1>2 DEF Served, Open, Exhausted

LEMMA ConnectKeepsServed ==
    ASSUME Inv, Served, Connect, SameReads({session + 1}), ReadOps(session)' = 1
    PROVE  Served'
  <1> DEFINE c == session + 1
  <1>1. /\ mpc = "idle" /\ mpc' = "assign" /\ session' = c /\ m_TCPConnection' = c
        /\ fresh' = IF stopped_ THEN fresh ELSE fresh \union {c}
        /\ UNCHANGED <<stopped_, thread, up, missed>>
    BY DEF Connect
  <1>2. c \notin 1..session /\ session \in Nat
    BY DEF Inv, Types
  <1>3. \A d \in fresh \ missed : d # c /\ d \in Sessions
    BY <1>2, FreshSessions
  <1>4. ASSUME NEW d \in fresh \ missed, Open(d)' PROVE Attended(d)'
    <2>1. d # c /\ d \in Sessions
      BY <1>3
    <2>2. /\ tries'[d] = tries[d]
          /\ sock'[d] = IF d = m_TCPConnection THEN "closed" ELSE sock[d]
          /\ rd'[d] = IF d = m_TCPConnection THEN "none" ELSE rd[d]
      <3>1. d # NoSession
        BY <2>1 DEF Sessions, NoSession
      <3>. QED  BY <2>1, <3>1 DEF Connect, Inv, Types
    <2>3. d # m_TCPConnection /\ Open(d)
      BY <1>1, <1>4, <2>2 DEF Open, Exhausted
    <2>4. Attended(d) /\ stopped_ /\ CloseAhead(d) /\ thread # "none"
      BY <1>1, <2>3 DEF Served, Attended
    <2>5. ReadOps(d)' = 1
      BY <2>1, <2>4 DEF Attended, SameReads
    <2>6. CloseAhead(d)'
      <3>1. iocp' = iocp \/ (m_TCPConnection \in Sessions /\ iocp' = iocp \o Aborted(m_TCPConnection))
        <4>1. m_TCPConnection # NoSession => m_TCPConnection \in Sessions
          <5>1. session \in 0..MaxSessions /\ m_TCPConnection \in {NoSession} \union 1..session
                /\ MaxSessions \in Nat
            BY ClientAssumption DEF ClientAssumption, Inv, Types
          <5>2. m_TCPConnection # NoSession => m_TCPConnection \in 1..MaxSessions
            BY <5>1
          <5>. QED  BY <5>2 DEF Sessions
        <4>. QED  BY <4>1 DEF Connect
      <3>2. CASE iocp' = iocp
        BY <2>4, <3>2 DEF CloseAhead
      <3>3. CASE m_TCPConnection \in Sessions /\ iocp' = iocp \o Aborted(m_TCPConnection)
        <4>1. Aborted(m_TCPConnection) \in Seq(Packets) /\ iocp \in Seq(Packets)
          BY <3>3, AbortedOps, SeqOfPackets DEF Inv, Queues
        <4>. QED  BY <2>4, <3>3, <4>1, AheadAppended
      <3>. QED  BY <3>1, <3>2, <3>3
    <2>. QED  BY <1>1, <2>4, <2>5, <2>6 DEF Attended
  <1>5. ASSUME ~stopped_ PROVE Attended(session)'
    <2>1. thread # "ended"
      BY <1>5 DEF Served
    <2>. QED  BY <1>1, <1>5, <2>1 DEF Attended
  <1>6. ASSUME NEW d \in (fresh \ missed)', Open(d)' PROVE Attended(d)'
    <2>1. CASE d \in fresh
      BY <1>1, <1>4, <1>6, <2>1
    <2>2. CASE d \notin fresh
      <3>1. ~stopped_ /\ d = session'
        BY <1>1, <1>6, <2>2
      <3>. QED  BY <1>5, <3>1 DEF Attended, ReadOps, CloseAhead
    <2>. QED  BY <2>1, <2>2
  <1>7. mpc' = "join" \/ thread' = "ended" => stopped_'
    BY <1>1 DEF Served
  <1>. QED  BY <1>6, <1>7 DEF Served

LEMMA ServedStep ==
    ASSUME Inv, Served, [Next]_vars
    PROVE  Served'
  <1>1. Inv' /\ Types'
    BY InvariantStep DEF Inv
  <1>2. CASE Main
    <2>1. CASE Connect
      <3>1. SameReads({session + 1}) /\ ReadOps(session)' = 1
        BY <1>1, <2>1, ConnectKeeps
      <3>. QED  BY <2>1, <3>1, ConnectKeepsServed
    <2>2. CASE Join
      BY <2>2, JoinKeepsServed
    <2>3. CASE AssignThread \/ Stop
      <3>1. SameReads({})
        BY <1>1, <2>3, OthersKeep
      <3>. QED  BY <2>3, <3>1, MainKeepsServed
    <2>4. CASE Disconnect
      <3>1. SameReads({})
        BY <1>1, <2>4, DisconnectKeeps
      <3>. QED  BY <2>4, <3>1, MainKeepsServed
    <2>5. CASE SendToServer
      <3>1. SameReads({})
        BY <1>1, <2>5, SendToServerKeeps
      <3>. QED  BY <2>5, <3>1, MainKeepsServed
    <2>. QED  BY <1>2, <2>1, <2>2, <2>3, <2>4, <2>5 DEF Main
  <1>7. ASSUME NEW c \in Sessions, CloseForNext(c)
        PROVE  Served'
    <2> DEFINE es == <<>>
    <2>1. /\ UNCHANGED <<mpc, session, m_TCPConnection, fresh, missed, thread, stopped_, iocp, tries, rd, up>>
          /\ sock[c] = "open" /\ sock' = [sock EXCEPT ![c] = "retry"]
      BY <1>7 DEF CloseForNext, Handles, Handler, contextVars, mainVars
    <2>2. SameReads({})
      BY <1>1, <1>7, OthersKeep
    <2>3. es \in Seq(Packets) /\ iocp' = iocp \o es
      BY <2>1, EmptySeq, ConcatEmptySeq DEF Inv, Queues
    <2> HIDE DEF es
    <2>4. \A d \in fresh \ missed : Open(d)' => Open(d)
      <3>. SUFFICES ASSUME NEW d \in fresh \ missed, Open(d)'
                    PROVE  Open(d)
        OBVIOUS
      <3>1. d # c => sock'[d] = sock[d]
        BY <2>1, FreshSessions DEF Inv, Types
      <3>. QED  BY <2>1, <3>1 DEF Open, Exhausted
    <2>. QED  BY <2>1, <2>2, <2>3, <2>4, QueueGrows
  <1>3. CASE Frame \/ UNCHANGED vars \/ \E c \in Sessions : ServerSends(c)
    <2> DEFINE es == <<>>
    <2>1. UNCHANGED <<mpc, session, m_TCPConnection, fresh, missed, thread, stopped_, iocp, sock, tries, rd, up>>
      BY <1>3 DEF Frame, Process, PrepareNextPkt, ServerSends, SystemUnchanged, vars, contextVars,
                  mainVars, connVars
    <2>2. SameReads({})
      BY <1>1, <1>3, OthersKeep
    <2>3. es \in Seq(Packets) /\ iocp' = iocp \o es
      BY <2>1, EmptySeq, ConcatEmptySeq DEF Inv, Queues
    <2> HIDE DEF es
    <2>4. \A d \in fresh \ missed : Open(d)' => Open(d)
      BY <2>1 DEF Open, Exhausted
    <2>. QED  BY <2>1, <2>2, <2>3, <2>4, QueueGrows
  <1>4. CASE RunContext
    <2>1. SameReads({})
      BY <1>1, <1>4, RunContextKeeps
    <2>. QED  BY <1>4, <2>1, RunContextKeepsServed
  <1>5. ASSUME NEW c \in Sessions,
               ConnectNext(c) \/ ConnectFailed(c) \/ Connected(c) \/ ReadDone(c) \/ RunSend(c)
                 \/ WriteDone(c) \/ CloseSocket(c)
        PROVE  Served'
    <2>1. SameReads({c})
      <3>1. SameReads({}) => SameReads({c})
        BY DEF SameReads
      <3>2. CASE ConnectFailed(c)
        BY <1>1, <3>2, ConnectFailedKeeps
      <3>3. CASE CloseSocket(c)
        BY <1>1, <3>3, CloseSocketKeeps
      <3>4. CASE ConnectNext(c)
        BY <1>1, <3>1, <3>4, ConnectNextKeeps
      <3>5. CASE Connected(c) \/ ReadDone(c)
        BY <1>1, <3>1, <3>5, ConnectedKeeps
      <3>6. CASE RunSend(c)
        BY <1>1, <3>1, <3>6, RunSendKeeps
      <3>7. CASE WriteDone(c)
        BY <1>1, <3>1, <3>7, WriteDoneKeeps
      <3>. QED  BY <1>5, <3>2, <3>3, <3>4, <3>5, <3>6, <3>7
    <2>2. ~ConnectFailed(c) /\ ~CloseSocket(c) => SameReads({})
      <3>1. CASE ConnectNext(c)
        BY <1>1, <3>1, ConnectNextKeeps
      <3>2. CASE Connected(c) \/ ReadDone(c)
        BY <1>1, <3>2, ConnectedKeeps
      <3>3. CASE RunSend(c)
        BY <1>1, <3>3, RunSendKeeps
      <3>4. CASE WriteDone(c)
        BY <1>1, <3>4, WriteDoneKeeps
      <3>. QED  BY <1>5, <3>1, <3>2, <3>3, <3>4
    <2>. QED  BY <1>1, <1>5, <2>1, <2>2, HandlersKeepServed
  <1>6. ASSUME NEW c \in Sessions, NEW ok \in BOOLEAN,
               ConnectEnds(c, ok) \/ ReadEnds(c, ok) \/ WriteEnds(c, ok)
        PROVE  Served'
    <2>1. SameReads({})
      <3>1. CASE ConnectEnds(c, ok)
        BY <1>1, <3>1, ConnectEndsKeeps
      <3>2. CASE ReadEnds(c, ok)
        BY <1>1, <3>2, ReadEndsKeeps
      <3>3. CASE WriteEnds(c, ok)
        BY <1>1, <3>3, WriteEndsKeeps
      <3>. QED  BY <1>6, <3>1, <3>2, <3>3
    <2>. QED  BY <1>6, <2>1, SystemKeepsServed
  <1>. QED  BY <1>2, <1>3, <1>4, <1>5, <1>6, <1>7 DEF Next, Thread

LEMMA ServedInvariant == Spec => []Served
  <1>1. Init => Served
    BY DEF Init, ContextInit, Served
  <1>2. Inv /\ Served /\ [Next]_vars => Served'
    BY ServedStep
  <1>. QED  BY <1>1, <1>2, InvariantHolds, PTL DEF Spec

\* No socket is left open with nobody to serve it, for any number of sessions:
\* run() does not end while a read of the connection is outstanding, and the
\* close that Disconnect posts is ahead of the event that ends run().  Sessions
\* whose Disconnect saw the socket in the middle of a retry are left out.
THEOREM NobodyLeftOpen == Spec => []OpenIsServed
  <1>1. Served => OpenIsServed
    BY DEF Served, Attended, Open, OpenIsServed
  <1>. QED  BY <1>1, ServedInvariant, PTL
=============================================================================
