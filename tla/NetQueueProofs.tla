--------------------------- MODULE NetQueueProofs ---------------------------
(***************************************************************************)
(* Proofs about NetQueue for any set of producers and any number of        *)
(* pushes: the deque is never popped while empty, the two mutexes cannot   *)
(* be taken in a cycle, and the queue implements Mailbox.                  *)
(***************************************************************************)
EXTENDS NetQueue, SequenceTheorems, TLAPS

\* Who owns a mutex is determined by where the threads are.
Ownership ==
    /\ \A p \in Producers : m_muxQueue = p <=> ppc[p] \in {"push.block", "push.body"}
    /\ \A p \in Producers : m_muxBlock = p <=> ppc[p] = "push.body"
    /\ m_muxBlock = Consumer <=> cpc = "wait.sleep"

\* A push that holds m_muxQueue still has room under the bound.
PushRoom == \A p \in Producers : ppc[p] # "idle" => pushed < MaxItems

IInv == TypeOK /\ Ownership /\ PushRoom /\ PopsNonEmpty
-----------------------------------------------------------------------------
\* Taking one element off either end of a non-empty sequence gives a sequence
\* over the same set (pop_front and pop_back).
LEMMA PopType ==
    ASSUME NEW S, NEW s \in Seq(S), s # <<>>
    PROVE  /\ Tail(s) \in Seq(S)
           /\ SubSeq(s, 1, Len(s) - 1) \in Seq(S)
  <1>1. Len(s) \in Nat /\ Len(s) # 0
    BY EmptySeq
  <1>2. SubSeq(s, 1, Len(s) - 1) \in Seq(S)
    BY <1>1, \A i \in 1..(Len(s) - 1) : s[i] \in S, SubSeqProperties
  <1>. QED  BY <1>2

\* Adding one element at either end (push_back and push_front).
LEMMA PushType ==
    ASSUME NEW S, NEW s \in Seq(S), NEW e \in S
    PROVE  /\ Append(s, e) \in Seq(S) /\ Append(s, e) # <<>>
           /\ <<e>> \o s \in Seq(S) /\ <<e>> \o s # <<>>
  <1>1. <<e>> \in Seq(S) /\ Len(<<e>>) = 1
    OBVIOUS
  <1>2. <<e>> \o s \in Seq(S) /\ Len(<<e>> \o s) = 1 + Len(s)
    BY <1>1, ConcatProperties
  <1>3. <<e>> \o s # <<>>
    BY <1>2, EmptySeq
  <1>4. Append(s, e) \in Seq(S) /\ Append(s, e) # <<>>
    BY AppendProperties
  <1>. QED  BY <1>2, <1>3, <1>4

LEMMA InitIInv == Init => IInv
  BY ThreadAssumption, MaxItemsAssumption
  DEF Init, IInv, TypeOK, Ownership, PushRoom, PopsNonEmpty, ProducerPC, ConsumerPC, WaitPC

\* The critical step of a push, by a producer that owns both mutexes.
LEMMA PushBodyIInv ==
    ASSUME NEW p \in Producers, IInv, PushBody(p)
    PROVE  IInv'
  <1> USE DEF IInv, PushBody
  <1>1. pushed \in Nat /\ pushed < MaxItems /\ pushed + 1 \in 1..MaxItems
    BY MaxItemsAssumption DEF TypeOK, PushRoom
  <1>2. m_deqQueue' \in Seq(1..MaxItems) /\ m_deqQueue' # <<>>
    BY <1>1, PushType DEF TypeOK
  <1>3. \A q \in Producers : q # p => ppc[q] = "idle"
    BY DEF Ownership, TypeOK, ProducerPC
  <1>4. cpc # "wait.sleep" /\ cpc' \in ConsumerPC /\ (cpc' = "wait.sleep" <=> cpc = "wait.sleep")
    BY ThreadAssumption DEF Ownership, TypeOK, NotifyOne, ConsumerPC, WaitPC
  <1>5. TypeOK'
    BY <1>1, <1>2, <1>4 DEF TypeOK, ProducerPC
  <1>6. Ownership'
    BY <1>3, <1>4, ThreadAssumption DEF Ownership, TypeOK, ProducerPC
  <1>7. PushRoom'
    BY <1>3 DEF PushRoom, TypeOK, ProducerPC
  <1>8. PopsNonEmpty'
    BY <1>2 DEF PopsNonEmpty
  <1>. QED  BY <1>5, <1>6, <1>7, <1>8

\* Every other step of a producer takes one mutex.
LEMMA ProducerIInv ==
    ASSUME NEW p \in Producers, IInv, PushLockQueue(p) \/ PushLockBlock(p)
    PROVE  IInv'
  <1>1. CASE PushLockQueue(p)
    BY <1>1, ThreadAssumption, MaxItemsAssumption
    DEF PushLockQueue, IInv, TypeOK, Ownership, PushRoom, PopsNonEmpty, ProducerPC
  <1>2. CASE PushLockBlock(p)
    BY <1>2, ThreadAssumption, MaxItemsAssumption
    DEF PushLockBlock, IInv, TypeOK, Ownership, PushRoom, PopsNonEmpty, ProducerPC
  <1>. QED  BY <1>1, <1>2

LEMMA ConsumerIInv ==
    ASSUME IInv, ConsumerStep \/ SpuriousWake \/ Clear
    PROVE  IInv'
  <1> USE ThreadAssumption
      DEF IInv, TypeOK, Ownership, PushRoom, PopsNonEmpty, Goto, ConsumerPC, WaitPC
  <1>1. CASE CallWait      BY <1>1 DEF CallWait
  <1>2. CASE WaitCheck     BY <1>2 DEF WaitCheck
  <1>3. CASE WaitLock      BY <1>3 DEF WaitLock
  <1>4. CASE WaitSleep     BY <1>4 DEF WaitSleep
  <1>5. CASE Resume        BY <1>5 DEF Resume
  <1>6. CASE LoopCheck     BY <1>6 DEF LoopCheck
  <1>7. CASE Pop           BY <1>7, PopType DEF Pop
  <1>8. CASE SpuriousWake  BY <1>8 DEF SpuriousWake
  <1>9. CASE Clear         BY <1>9 DEF Clear
  <1>. QED
    BY <1>1, <1>2, <1>3, <1>4, <1>5, <1>6, <1>7, <1>8, <1>9 DEF ConsumerStep

LEMMA NextIInv == IInv /\ [Next]_vars => IInv'
  <1> SUFFICES ASSUME IInv, [Next]_vars PROVE IInv'
    OBVIOUS
  <1>1. ASSUME NEW p \in Producers, ProducerStep(p) PROVE IInv'
    BY <1>1, PushBodyIInv, ProducerIInv DEF ProducerStep
  <1>2. CASE ConsumerStep \/ SpuriousWake \/ Clear
    BY <1>2, ConsumerIInv
  <1>3. CASE UNCHANGED vars
    BY <1>3 DEF vars, IInv, TypeOK, Ownership, PushRoom, PopsNonEmpty
  <1>. QED  BY <1>1, <1>2, <1>3 DEF Next

\* The inductive invariant holds in every reachable state.
THEOREM Invariance == Spec => []IInv
  BY InitIInv, NextIInv, PTL DEF Spec

\* NetQueue's state keeps its types, for every set of producers.
THEOREM TypeCorrect == Spec => []TypeOK
  <1>1. IInv => TypeOK
    BY DEF IInv
  <1>. QED  BY <1>1, Invariance, PTL

\* Process never pops an empty deque: with one consumer the emptiness checked
\* by is_empty() cannot be undone before pop_front(), however many producers
\* push in between.
THEOREM PopsAreSafe == Spec => []PopsNonEmpty
  <1>1. IInv => PopsNonEmpty
    BY DEF IInv
  <1>. QED  BY <1>1, Invariance, PTL

\* push_back (m_muxQueue, then m_muxBlock) and wait() (m_muxBlock alone) never
\* wait for each other's mutex.
THEOREM LockOrder == Spec => []NoLockCycle
  <1>1. IInv => NoLockCycle
    BY ThreadAssumption DEF IInv, Ownership, NoLockCycle, TypeOK, ProducerPC
  <1>. QED  BY <1>1, Invariance, PTL
-----------------------------------------------------------------------------
(* Refinement *)

LEMMA InitRefines == Init => Abstract!Init
  BY DEF Init, Abstract!Init, WaitPC

LEMMA NextRefines == IInv /\ [Next]_vars => [Abstract!Next]_Abstract!mailbox
  <1> SUFFICES ASSUME IInv, [Next]_vars PROVE [Abstract!Next]_Abstract!mailbox
    OBVIOUS
  <1> USE DEF Goto, WaitPC, Abstract!mailbox
  <1>1. ASSUME NEW p \in Producers, PushLockQueue(p) \/ PushLockBlock(p)
        PROVE  UNCHANGED Abstract!mailbox
    BY <1>1 DEF PushLockQueue, PushLockBlock
  <1>2. ASSUME NEW p \in Producers, PushBody(p) PROVE Abstract!Put
    BY <1>2 DEF PushBody, NotifyOne, Abstract!Put, IInv, PushRoom
  <1>3. CASE CallWait      BY <1>3 DEF CallWait, Abstract!Next, Abstract!Await
  <1>4. CASE WaitCheck     BY <1>4 DEF WaitCheck, Abstract!Next, Abstract!Return
  <1>5. CASE WaitLock \/ WaitSleep \/ Resume \/ SpuriousWake
    BY <1>5 DEF WaitLock, WaitSleep, Resume, SpuriousWake
  <1>6. CASE LoopCheck     BY <1>6 DEF LoopCheck
  <1>7. CASE Pop
    BY <1>7 DEF Pop, Abstract!Next, Abstract!Take, IInv, PopsNonEmpty
  <1>8. CASE Clear         BY <1>8 DEF Clear, Abstract!Next, Abstract!Drop
  <1>9. CASE UNCHANGED vars  BY <1>9 DEF vars
  <1>. QED
    BY <1>1, <1>2, <1>3, <1>4, <1>5, <1>6, <1>7, <1>8, <1>9
    DEF Next, ProducerStep, ConsumerStep, Abstract!Next

\* Every behaviour of the mutexes and the condition variable is a behaviour of
\* Mailbox: one Put per push, one Take per pop, and wait() returns only when
\* there is an item.
THEOREM Refinement == Spec => ImplementsMailbox
  <1>1. Init => Abstract!Init
    BY InitRefines
  <1>2. IInv /\ [Next]_vars => [Abstract!Next]_Abstract!mailbox
    BY NextRefines
  <1>. QED
    BY <1>1, <1>2, Invariance, PTL DEF Spec, ImplementsMailbox, Abstract!Spec
=============================================================================
