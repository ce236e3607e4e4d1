------------------------------ MODULE NetQueue ------------------------------
(***************************************************************************)
(* NetQueue<T> (Common/include/NetQueue.h): a deque guarded by m_muxQueue, *)
(* and wait(), which sleeps on m_cvBlock under a second mutex m_muxBlock.  *)
(* Producers are the threads that push (the ASIO thread); the Consumer is  *)
(* the one thread that drains the queue, running the loop of               *)
(* ServerApp::Process(-1, true) on m_TCP_PktIn.                            *)
(*                                                                         *)
(* A call that takes only m_muxQueue (is_empty, pop_*, clear) is one step, *)
(* enabled while the mutex is free.  push_* takes both mutexes one after   *)
(* the other, and wait() looks at the queue, takes m_muxBlock and goes to  *)
(* sleep in separate steps, as the code does.                              *)
(***************************************************************************)
EXTENDS Naturals, Sequences

CONSTANTS Producers,    \* threads that push
          Consumer,     \* the thread that waits and pops
          NoThread,     \* owner of a free mutex
          MaxItems      \* bound on the number of pushes

ASSUME ThreadAssumption ==
    /\ Consumer \notin Producers
    /\ NoThread \notin Producers \union {Consumer}
ASSUME MaxItemsAssumption == MaxItems \in Nat

VARIABLES m_deqQueue,   \* items are numbered by push order
          m_muxQueue,   \* owner of the queue mutex
          m_muxBlock,   \* owner of the wait mutex
          ppc,          \* where each producer is
          cpc,          \* where the consumer is; "asleep" = in m_cvBlock's wait set
          pushed        \* number of pushes done

vars == <<m_deqQueue, m_muxQueue, m_muxBlock, ppc, cpc, pushed>>

ProducerPC == {"idle", "push.block", "push.body"}
WaitPC     == {"wait.check", "wait.lock", "wait.sleep", "asleep", "woken"}
ConsumerPC == {"idle", "loop.check", "pop"} \union WaitPC

TypeOK ==
    /\ m_deqQueue \in Seq(1..MaxItems)
    /\ m_muxQueue \in Producers \union {NoThread}
    /\ m_muxBlock \in Producers \union {Consumer, NoThread}
    /\ ppc \in [Producers -> ProducerPC]
    /\ cpc \in ConsumerPC
    /\ pushed \in 0..MaxItems

Init ==
    /\ m_deqQueue = <<>>
    /\ m_muxQueue = NoThread
    /\ m_muxBlock = NoThread
    /\ ppc = [p \in Producers |-> "idle"]
    /\ cpc = "idle"
    /\ pushed = 0
-----------------------------------------------------------------------------
(* Producers *)

\* The lock of m_muxQueue forgotten.
PushUnlocked(p) ==
    /\ ppc[p] = "idle"
    /\ pushed < MaxItems
    /\ m_muxQueue' = p
    /\ ppc' = [ppc EXCEPT ![p] = "push.block"]
    /\ UNCHANGED <<m_deqQueue, m_muxBlock, cpc, pushed>>

PushLockQueue(p) ==
    /\ ppc[p] = "idle" /\ m_muxQueue = NoThread
    /\ pushed < MaxItems
    /\ m_muxQueue' = p
    /\ ppc' = [ppc EXCEPT ![p] = "push.block"]
    /\ UNCHANGED <<m_deqQueue, m_muxBlock, cpc, pushed>>

PushLockBlock(p) ==
    /\ ppc[p] = "push.block" /\ m_muxBlock = NoThread
    /\ m_muxBlock' = p
    /\ ppc' = [ppc EXCEPT ![p] = "push.body"]
    /\ UNCHANGED <<m_deqQueue, m_muxQueue, cpc, pushed>>

NotifyNobody(c) == c

\* m_cvBlock.notify_one(): a sleeper leaves the wait set; nobody there, no effect.
NotifyOne(c) == IF c = "asleep" THEN "woken" ELSE c

\* emplace_back or emplace_front, notify, and both locks released on return.
PushBody(p) ==
    /\ ppc[p] = "push.body"
    /\ m_deqQueue' \in {Append(m_deqQueue, pushed + 1), <<pushed + 1>> \o m_deqQueue}
    /\ pushed' = pushed + 1
    /\ cpc' = NotifyOne(cpc)
    /\ m_muxQueue' = NoThread
    /\ m_muxBlock' = NoThread
    /\ ppc' = [ppc EXCEPT ![p] = "idle"]
-----------------------------------------------------------------------------
(* Consumer: wait(), then pop until is_empty() *)

Goto(from, to) == cpc = from /\ cpc' = to

CallWait ==
    Goto("idle", "wait.check") /\ UNCHANGED <<m_deqQueue, m_muxQueue, m_muxBlock, ppc, pushed>>

\* while (is_empty()): m_muxQueue is taken and given back inside is_empty().
WaitCheck ==
    /\ m_muxQueue = NoThread
    /\ Goto("wait.check", IF m_deqQueue = <<>> THEN "wait.lock" ELSE "loop.check")
    /\ UNCHANGED <<m_deqQueue, m_muxQueue, m_muxBlock, ppc, pushed>>

WaitLock ==
    /\ m_muxBlock = NoThread
    /\ Goto("wait.lock", "wait.sleep")
    /\ m_muxBlock' = Consumer
    /\ UNCHANGED <<m_deqQueue, m_muxQueue, ppc, pushed>>

\* m_cvBlock.wait(ul): releases m_muxBlock and joins the wait set at once.
WaitSleep ==
    /\ Goto("wait.sleep", "asleep")
    /\ m_muxBlock' = NoThread
    /\ UNCHANGED <<m_deqQueue, m_muxQueue, ppc, pushed>>

\* The C++ standard lets wait(ul) return with no notification.
SpuriousWake ==
    Goto("asleep", "woken") /\ UNCHANGED <<m_deqQueue, m_muxQueue, m_muxBlock, ppc, pushed>>

\* ul kept across the next is_empty().
ResumeHoldingLock ==
    /\ m_muxBlock = NoThread
    /\ Goto("woken", "wait.check")
    /\ m_muxBlock' = Consumer
    /\ UNCHANGED <<m_deqQueue, m_muxQueue, ppc, pushed>>

\* while turned into if: wait() returns without looking again.
ResumeWithoutCheck ==
    /\ m_muxBlock = NoThread
    /\ Goto("woken", "loop.check")
    /\ UNCHANGED <<m_deqQueue, m_muxQueue, m_muxBlock, ppc, pushed>>

\* wait(ul) takes m_muxBlock again, and ul releases it at the end of the body.
Resume ==
    /\ m_muxBlock = NoThread
    /\ Goto("woken", "wait.check")
    /\ UNCHANGED <<m_deqQueue, m_muxQueue, m_muxBlock, ppc, pushed>>

\* Draining stops on a count taken once instead of on is_empty().
LoopCheckDropped ==
    /\ m_muxQueue = NoThread
    /\ Goto("loop.check", "pop")
    /\ UNCHANGED <<m_deqQueue, m_muxQueue, m_muxBlock, ppc, pushed>>

\* while (!m_TCP_PktIn.is_empty()); Process returns and main calls it again.
LoopCheck ==
    /\ m_muxQueue = NoThread
    /\ Goto("loop.check", IF m_deqQueue = <<>> THEN "idle" ELSE "pop")
    /\ UNCHANGED <<m_deqQueue, m_muxQueue, m_muxBlock, ppc, pushed>>

\* pop_front or pop_back, then the packet is handled.
Pop ==
    /\ m_muxQueue = NoThread
    /\ Goto("pop", "loop.check")
    /\ m_deqQueue' \in {Tail(m_deqQueue), SubSeq(m_deqQueue, 1, Len(m_deqQueue) - 1)}
    /\ UNCHANGED <<m_muxQueue, m_muxBlock, ppc, pushed>>

\* clear(), called by the thread that owns the queue between two calls of Process.
Clear ==
    /\ m_muxQueue = NoThread
    /\ Goto("idle", "idle")
    /\ m_deqQueue' = <<>>
    /\ UNCHANGED <<m_muxQueue, m_muxBlock, ppc, pushed>>
-----------------------------------------------------------------------------
ProducerStep(p) ==
    PushLockQueue(p) \/ PushLockBlock(p) \/ PushBody(p)

ConsumerStep ==
    CallWait \/ WaitCheck \/ WaitLock \/ WaitSleep \/ Resume \/ LoopCheck \/ Pop

Next == (\E p \in Producers : ProducerStep(p)) \/ ConsumerStep \/ SpuriousWake \/ Clear

Spec == Init /\ [][Next]_vars

\* A thread inside a call keeps running; nobody has to push, to wake up
\* spuriously or to clear.
FairSpec ==
    /\ Spec
    /\ \A p \in Producers : WF_vars(PushLockBlock(p) \/ PushBody(p))
    /\ WF_vars(ConsumerStep)
-----------------------------------------------------------------------------
(* Properties *)

\* pop_front()/pop_back() are never called on an empty deque, where
\* std::deque::front() and pop_front() are undefined: the emptiness checked by
\* Process still holds when it pops, whatever the producers do in between.
PopsNonEmpty == cpc = "pop" => m_deqQueue # <<>>

\* A thread that owns m_muxBlock is never at a point where it must first get
\* m_muxQueue from another thread, so push_back (m_muxQueue, then m_muxBlock)
\* and wait() cannot block each other.
NoLockCycle ==
    \A p \in Producers :
        /\ m_muxBlock = p => m_muxQueue = p
        /\ ~(m_muxQueue = p /\ m_muxBlock = Consumer /\ cpc \in {"wait.check", "loop.check", "pop"})

\* A push that has begun always finishes, even against a consumer that is
\* going to sleep or waking up at that moment.
PushCompletes == \A p \in Producers : ppc[p] = "push.block" ~> ppc[p] = "idle"

\* A consumer that fell asleep on a non-empty queue (it missed the push made
\* between its is_empty() and its wait) is brought back by the next push.
NextPushRescues ==
    (cpc = "asleep" /\ m_deqQueue # <<>> /\ \E p \in Producers : ppc[p] = "push.block")
        ~> cpc = "pop"

\* The comment in wait(): "The queue is empty. Make this thread wait until we
\* get a signal to continue."  The thread goes to sleep only on an empty queue.
SleepsOnlyWhenEmpty == [][cpc' = "asleep" => m_deqQueue = <<>>]_cpc

\* The queue implements Mailbox: a push is one Put, a pop one Take, and wait()
\* gives control back only when there is something to take.
Abstract == INSTANCE Mailbox WITH items <- m_deqQueue, put <- pushed,
                                  awaiting <- cpc \in WaitPC
ImplementsMailbox == Abstract!Spec
=============================================================================
