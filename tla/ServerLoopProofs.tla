-------------------------- MODULE ServerLoopProofs --------------------------
(***************************************************************************)
(* Proofs about ServerLoop for any number of clients and posted handlers:  *)
(* each loop is armed exactly once, the io_context never runs out of work, *)
(* and nothing is served or run more often than it was asked for.          *)
(***************************************************************************)
EXTENDS ServerLoop, SequenceTheorems, TLAPS

\* Exactly one, or no, completion of kind k on queue q.
One(q, k)  == \E a \in 1..Len(q) : \A i \in 1..Len(q) : q[i].kind = k <=> i = a
None(q, k) == \A i \in 1..Len(q) : q[i].kind # k

\* The work that is outstanding is the queue and the accept in the system.
Work == outstanding_work_ = Len(iocp) + (IF accepting THEN 1 ELSE 0)

AcceptArmed(q) == IF accepting THEN None(q, "accept") ELSE One(q, "accept")

Armed == AcceptArmed(iocp) /\ One(iocp, "udp")

LInv ==
    /\ main \in {"new", "started", "failed"} /\ accepting \in BOOLEAN
    /\ iocp \in Seq(Completion)
    /\ main # "started" => thread = "none"
    /\ main = "started" => thread \in {"started", "running"} /\ Work /\ Armed
-----------------------------------------------------------------------------
(* One and None when a queue grows and shrinks *)

LEMMA Grows ==
    ASSUME NEW q \in Seq(Completion), NEW e \in Completion, NEW k
    PROVE  /\ Append(q, e) \in Seq(Completion) /\ Len(Append(q, e)) = Len(q) + 1
           /\ e.kind # k /\ One(q, k)  => One(Append(q, e), k)
           /\ e.kind # k /\ None(q, k) => None(Append(q, e), k)
           /\ e.kind = k /\ None(q, k) => One(Append(q, e), k)
  <1> DEFINE r == Append(q, e)
  <1>1. /\ r \in Seq(Completion) /\ Len(r) = Len(q) + 1 /\ Len(q) \in Nat
        /\ \A i \in 1..Len(q) : r[i] = q[i]
        /\ r[Len(q) + 1] = e
    BY AppendProperties
  <1> HIDE DEF r
  <1>2. ASSUME e.kind # k, One(q, k) PROVE One(r, k)
    <2>1. PICK a \in 1..Len(q) : \A i \in 1..Len(q) : q[i].kind = k <=> i = a
      BY <1>2 DEF One
    <2>2. a \in 1..Len(r) /\ \A i \in 1..Len(r) : r[i].kind = k <=> i = a
      BY <1>1, <1>2, <2>1
    <2>. QED  BY <2>2 DEF One
  <1>3. ASSUME e.kind # k, None(q, k) PROVE None(r, k)
    BY <1>1, <1>3 DEF None
  <1>4. ASSUME e.kind = k, None(q, k) PROVE One(r, k)
    <2>1. Len(r) \in 1..Len(r) /\ \A i \in 1..Len(r) : r[i].kind = k <=> i = Len(r)
      BY <1>1, <1>4 DEF None
    <2>. QED  BY <2>1 DEF One
  <1>. QED  BY <1>1, <1>2, <1>3, <1>4 DEF r

LEMMA Shrinks ==
    ASSUME NEW q \in Seq(Completion), q # <<>>, NEW k
    PROVE  /\ Tail(q) \in Seq(Completion) /\ Len(Tail(q)) = Len(q) - 1
           /\ Len(q) \in Nat \ {0} /\ Head(q) = q[1]
           /\ Head(q).kind # k /\ One(q, k)  => One(Tail(q), k)
           /\ Head(q).kind # k /\ None(q, k) => None(Tail(q), k)
           /\ Head(q).kind = k /\ One(q, k)  => None(Tail(q), k)
  <1> DEFINE r == Tail(q)
  <1>1. /\ r \in Seq(Completion) /\ Len(r) = Len(q) - 1 /\ Len(q) \in Nat \ {0}
        /\ \A i \in 1..Len(r) : r[i] = q[i + 1]
        /\ Head(q) = q[1]
    BY HeadTailProperties, EmptySeq
  <1> HIDE DEF r
  <1>2. ASSUME Head(q).kind # k, One(q, k) PROVE One(r, k)
    <2>1. PICK a \in 1..Len(q) : \A i \in 1..Len(q) : q[i].kind = k <=> i = a
      BY <1>2 DEF One
    <2>2. a # 1
      BY <1>1, <1>2, <2>1
    <2>3. a - 1 \in 1..Len(r) /\ \A i \in 1..Len(r) : r[i].kind = k <=> i = a - 1
      BY <1>1, <2>1, <2>2
    <2>. QED  BY <2>3 DEF One
  <1>3. ASSUME Head(q).kind # k, None(q, k) PROVE None(r, k)
    BY <1>1, <1>3 DEF None
  <1>4. ASSUME Head(q).kind = k, One(q, k) PROVE None(r, k)
    BY <1>1, <1>4 DEF None, One
  <1>. QED  BY <1>1, <1>2, <1>3, <1>4 DEF r

LEMMA DoneType ==
    ASSUME NEW k \in {"accept", "udp", "post"}, NEW ok \in BOOLEAN
    PROVE  Done(k, ok) \in Completion /\ Done(k, ok).kind = k
  BY DEF Done, Completion

\* The accept is armed as it was when another handler is taken off.
LEMMA AcceptStays ==
    ASSUME NEW q \in Seq(Completion), q # <<>>, Head(q).kind # "accept", AcceptArmed(q)
    PROVE  AcceptArmed(Tail(q))
  <1>1. None(q, "accept") => None(Tail(q), "accept")
    BY Shrinks
  <1>2. One(q, "accept") => One(Tail(q), "accept")
    BY Shrinks
  <1>. QED  BY <1>1, <1>2 DEF AcceptArmed

\* Nor does another handler's packet at the end change it.
LEMMA AcceptGrows ==
    ASSUME NEW q \in Seq(Completion), NEW e \in Completion, e.kind # "accept",
           AcceptArmed(q), UNCHANGED accepting
    PROVE  IF accepting' THEN None(Append(q, e), "accept") ELSE One(Append(q, e), "accept")
  <1>1. None(q, "accept") => None(Append(q, e), "accept")
    BY Grows
  <1>2. One(q, "accept") => One(Append(q, e), "accept")
    BY Grows
  <1>. QED  BY <1>1, <1>2 DEF AcceptArmed

\* A packet put on the queue by concatenation is one appended.
LEMMA OnePacket ==
    ASSUME NEW q \in Seq(Completion), NEW e \in Completion
    PROVE  q \o <<e>> = Append(q, e) /\ q \o <<>> = q
  <1>1. q \o <<>> = q
    BY ConcatEmptySeq
  <1>2. <<e>> \in Seq(Completion) /\ Len(<<e>>) = 1 /\ <<e>>[1] = e
    OBVIOUS
  <1>3. /\ q \o <<e>> \in Seq(Completion) /\ Len(q \o <<e>>) = Len(q) + 1
        /\ \A i \in 1..(Len(q) + 1) : (q \o <<e>>)[i] = IF i <= Len(q) THEN q[i] ELSE <<e>>[i - Len(q)]
    BY <1>2, ConcatProperties
  <1>4. /\ Append(q, e) \in Seq(Completion) /\ Len(Append(q, e)) = Len(q) + 1 /\ Len(q) \in Nat
        /\ \A i \in 1..Len(q) : Append(q, e)[i] = q[i]
        /\ Append(q, e)[Len(q) + 1] = e
    BY AppendProperties
  <1>5. \A i \in 1..(Len(q) + 1) : (q \o <<e>>)[i] = Append(q, e)[i]
    BY <1>2, <1>3, <1>4
  <1>6. q \o <<e>> = Append(q, e)
    BY <1>3, <1>4, <1>5, SeqEqual
  <1>. QED  BY <1>1, <1>6

\* There is always the receive, and an accept in the system or on the queue, so
\* that at least two pieces of work are outstanding.
LEMMA TwoAtLeast ==
    ASSUME iocp \in Seq(Completion), accepting \in BOOLEAN, Work, Armed
    PROVE  outstanding_work_ \in Nat /\ outstanding_work_ >= 2
  <1>1. Len(iocp) \in Nat
    OBVIOUS
  <1>2. PICK u \in 1..Len(iocp) : iocp[u].kind = "udp"
    BY DEF Armed, One
  <1>3. CASE accepting
    BY <1>1, <1>2, <1>3 DEF Work
  <1>4. CASE ~accepting
    <2>1. PICK a \in 1..Len(iocp) : iocp[a].kind = "accept"
      BY <1>4 DEF Armed, AcceptArmed, One
    <2>2. a # u
      BY <1>2, <2>1
    <2>. QED  BY <1>1, <1>4, <2>2 DEF Work
  <1>. QED  BY <1>3, <1>4

\* A handler runs when the server has started, on the front of the queue.
LEMMA HandlerFacts ==
    ASSUME LInv, NEW k \in {"accept", "udp", "post"}, NEW ok \in BOOLEAN, Runs(k, ok)
    PROVE  /\ main = "started" /\ thread = "running" /\ UNCHANGED main
           /\ iocp # <<>> /\ Head(iocp).kind = k
           /\ Work /\ Armed /\ outstanding_work_ \in Nat /\ outstanding_work_ >= 2
  <1>1. main = "started" /\ thread = "running" /\ UNCHANGED main /\ Work /\ Armed
    BY DEF LInv, Runs, Serves
  <1>2. iocp # <<>> /\ Head(iocp) = Done(k, ok)
    BY DEF Runs, Serves
  <1>. QED  BY <1>1, <1>2, TwoAtLeast DEF LInv, Done

\* With two pieces of work outstanding a handler that returns stops nothing.
LEMMA ReturnFacts ==
    ASSUME NEW n \in {0, 1}, NEW es, Return(n, es),
           outstanding_work_ \in Nat, outstanding_work_ >= 2
    PROVE  /\ iocp' = Tail(iocp) \o es /\ thread' = thread
           /\ outstanding_work_' = outstanding_work_ + n - 1
  BY DEF Return

LEMMA AcceptDoneKeeps == LInv /\ AcceptDone => LInv'
  <1>. SUFFICES ASSUME LInv, NEW ok \in BOOLEAN, Runs("accept", ok), accepting' = TRUE,
                       Return(1, <<>>)
                PROVE  LInv'
    BY DEF AcceptDone
  <1>1. /\ main = "started" /\ thread = "running" /\ UNCHANGED main
        /\ iocp # <<>> /\ Head(iocp).kind = "accept"
        /\ Work /\ Armed /\ outstanding_work_ \in Nat /\ outstanding_work_ >= 2
    BY HandlerFacts
  <1>2. iocp \in Seq(Completion) /\ accepting \in BOOLEAN
    BY DEF LInv
  <1>3. /\ Tail(iocp) \in Seq(Completion) /\ Len(Tail(iocp)) = Len(iocp) - 1
        /\ Len(iocp) \in Nat \ {0} /\ Head(iocp) = iocp[1]
    BY <1>1, <1>2, Shrinks
  <1>4. accepting = FALSE
    BY <1>1, <1>2, <1>3 DEF Armed, AcceptArmed, None
  <1>5. /\ iocp' = Tail(iocp) /\ thread' = thread
        /\ outstanding_work_' = outstanding_work_
    BY <1>1, <1>3, ReturnFacts, ConcatEmptySeq
  <1>6. AcceptArmed(iocp)' /\ One(iocp', "udp")
    <2>1. One(iocp, "accept") /\ One(iocp, "udp")
      BY <1>1, <1>4 DEF Armed, AcceptArmed
    <2>2. None(iocp', "accept")
      BY <1>1, <1>2, <1>5, <2>1, Shrinks
    <2>3. One(iocp', "udp")
      BY <1>1, <1>2, <1>5, <2>1, Shrinks
    <2>. QED  BY <2>2, <2>3 DEF AcceptArmed
  <1>7. Work'
    BY <1>1, <1>3, <1>4, <1>5 DEF Work
  <1>. QED  BY <1>1, <1>3, <1>5, <1>6, <1>7 DEF LInv, Armed

LEMMA AwaitUDPKeeps == LInv /\ AwaitUDPConnection => LInv'
  <1>. SUFFICES ASSUME LInv, NEW d \in BOOLEAN, Runs("udp", FALSE), UNCHANGED accepting,
                       Return(1, <<Done("udp", d)>>)
                PROVE  LInv'
    BY DEF AwaitUDPConnection
  <1>1. /\ main = "started" /\ thread = "running" /\ UNCHANGED main
        /\ iocp # <<>> /\ Head(iocp).kind = "udp"
        /\ Work /\ Armed /\ outstanding_work_ \in Nat /\ outstanding_work_ >= 2
    BY HandlerFacts
  <1>2. iocp \in Seq(Completion) /\ accepting \in BOOLEAN
    BY DEF LInv
  <1>3. /\ Tail(iocp) \in Seq(Completion) /\ Len(Tail(iocp)) = Len(iocp) - 1
        /\ Len(iocp) \in Nat \ {0}
    BY <1>1, <1>2, Shrinks
  <1>4. Done("udp", d) \in Completion /\ Done("udp", d).kind = "udp"
    BY DoneType
  <1>5. /\ iocp' = Append(Tail(iocp), Done("udp", d)) /\ thread' = thread
        /\ outstanding_work_' = outstanding_work_
    <2>1. /\ iocp' = Tail(iocp) \o <<Done("udp", d)>> /\ thread' = thread
          /\ outstanding_work_' = outstanding_work_ + 1 - 1
      BY <1>1, ReturnFacts
    <2>2. Tail(iocp) \o <<Done("udp", d)>> = Append(Tail(iocp), Done("udp", d))
      BY <1>3, <1>4, OnePacket
    <2>. QED  BY <1>1, <2>1, <2>2
  <1>6. None(Tail(iocp), "udp")
    BY <1>1, <1>2, Shrinks DEF Armed
  <1>7. AcceptArmed(Tail(iocp))
    BY <1>1, <1>2, AcceptStays DEF Armed
  <1>8. /\ iocp' \in Seq(Completion) /\ Len(iocp') = Len(iocp)
        /\ One(iocp', "udp")
    <2>1. /\ iocp' \in Seq(Completion) /\ Len(iocp') = Len(Tail(iocp)) + 1
          /\ One(iocp', "udp")
      BY <1>3, <1>4, <1>5, <1>6, Grows
    <2>2. Len(Tail(iocp)) + 1 = Len(iocp)
      BY <1>3
    <2>. QED  BY <2>1, <2>2
  <1>10. AcceptArmed(iocp)'
    BY <1>3, <1>4, <1>5, <1>7, AcceptGrows DEF AcceptArmed
  <1>9. Work'
    BY <1>1, <1>5, <1>8 DEF Work
  <1>. QED  BY <1>1, <1>2, <1>5, <1>8, <1>9, <1>10 DEF LInv, Armed

LEMMA PostDoneKeeps == LInv /\ PostDone => LInv'
  <1>. SUFFICES ASSUME LInv, Runs("post", TRUE), UNCHANGED accepting, Return(0, <<>>)
                PROVE  LInv'
    BY DEF PostDone
  <1>1. /\ main = "started" /\ thread = "running" /\ UNCHANGED main
        /\ iocp # <<>> /\ Head(iocp).kind = "post"
        /\ Work /\ Armed /\ outstanding_work_ \in Nat /\ outstanding_work_ >= 2
    BY HandlerFacts
  <1>2. iocp \in Seq(Completion) /\ accepting \in BOOLEAN
    BY DEF LInv
  <1>3. /\ Tail(iocp) \in Seq(Completion) /\ Len(Tail(iocp)) = Len(iocp) - 1
        /\ Len(iocp) \in Nat \ {0}
    BY <1>1, <1>2, Shrinks
  <1>4. /\ iocp' = Tail(iocp) /\ thread' = thread
        /\ outstanding_work_' = outstanding_work_ - 1
    BY <1>1, <1>3, ReturnFacts, ConcatEmptySeq
  <1>5. Armed'
    <2>1. AcceptArmed(Tail(iocp))
      BY <1>1, <1>2, AcceptStays DEF Armed
    <2>2. One(Tail(iocp), "udp")
      BY <1>1, <1>2, Shrinks DEF Armed
    <2>. QED  BY <1>4, <2>1, <2>2 DEF Armed, AcceptArmed
  <1>6. Work'
    <2>1. Len(iocp') = Len(iocp) - 1
      BY <1>3, <1>4
    <2>2. Len(iocp) \in Nat /\ outstanding_work_' = outstanding_work_ - 1 /\ accepting' = accepting
      BY <1>3, <1>4
    <2>3. outstanding_work_ = Len(iocp) + (IF accepting THEN 1 ELSE 0)
      BY <1>1 DEF Work
    <2>4. outstanding_work_' = Len(iocp') + (IF accepting' THEN 1 ELSE 0)
      BY <1>2, <2>1, <2>2, <2>3
    <2>. QED  BY <2>4 DEF Work
  <1>. QED  BY <1>1, <1>2, <1>3, <1>4, <1>5, <1>6 DEF LInv
-----------------------------------------------------------------------------
(* What the main thread and the system do *)

LEMMA StartKeeps == ASSUME LInv, NEW d \in BOOLEAN, Start(d) PROVE LInv'
  <1> DEFINE e == Done("udp", d)
  <1>1. e \in Completion /\ e.kind = "udp"
    BY DoneType
  <1>2. iocp' = <<e>> /\ outstanding_work_' = 2 /\ thread' = "started" /\ main' = "started"
        /\ accepting' = TRUE
    BY DEF Start
  <1> HIDE DEF e
  <1>3. iocp' \in Seq(Completion) /\ Len(iocp') = 1 /\ iocp'[1] = e
    BY <1>1, <1>2
  <1>4. None(iocp', "accept") /\ One(iocp', "udp")
    BY <1>1, <1>3 DEF None, One
  <1>. QED  BY <1>2, <1>3, <1>4 DEF LInv, Work, Armed, AcceptArmed

LEMMA PostSendKeeps == LInv /\ PostSend => LInv'
  <1>. SUFFICES ASSUME LInv, PostSend PROVE LInv'
    OBVIOUS
  <1> DEFINE e == Done("post", TRUE)
  <1>1. e \in Completion /\ e.kind = "post"
    BY DoneType
  <1>2. /\ iocp' = Append(iocp, e) /\ outstanding_work_' = outstanding_work_ + 1
        /\ main = "started" /\ UNCHANGED <<thread, main, accepting>>
    BY DEF PostSend, Post
  <1>3. iocp \in Seq(Completion) /\ accepting \in BOOLEAN /\ Work /\ Armed
    BY <1>2 DEF LInv
  <1> HIDE DEF e
  <1>4. iocp' \in Seq(Completion) /\ Len(iocp') = Len(iocp) + 1 /\ Len(iocp) \in Nat
    BY <1>1, <1>2, <1>3, Grows
  <1>5. One(iocp', "udp")
    BY <1>1, <1>2, <1>3, Grows DEF Armed
  <1>6. AcceptArmed(iocp)'
    BY <1>1, <1>2, <1>3, AcceptGrows DEF AcceptArmed, Armed
  <1>7. Work'
    BY <1>2, <1>3, <1>4 DEF Work
  <1>. QED  BY <1>2, <1>4, <1>5, <1>6, <1>7 DEF LInv, Armed

LEMMA AcceptEndsKeeps == ASSUME LInv, NEW ok \in BOOLEAN, AcceptEnds(ok) PROVE LInv'
  <1> DEFINE e == Done("accept", ok)
  <1>1. e \in Completion /\ e.kind = "accept"
    BY DoneType
  <1>2. iocp \in Seq(Completion) /\ Len(iocp) \in Nat
    BY DEF LInv
  <1>3. /\ iocp' = iocp \o <<e>> /\ accepting = TRUE /\ accepting' = FALSE
        /\ UNCHANGED <<main, outstanding_work_, thread>>
    BY DEF AcceptEnds, Complete, LInv
  <1> HIDE DEF e
  <1>4. iocp' = Append(iocp, e)
    BY <1>1, <1>2, <1>3, OnePacket
  <1>5. iocp' \in Seq(Completion) /\ Len(iocp') = Len(iocp) + 1
    BY <1>1, <1>2, <1>4, Grows
  <1>6. CASE main # "started"
    BY <1>3, <1>5, <1>6 DEF LInv
  <1>7. CASE main = "started"
    <2>1. Work /\ None(iocp, "accept") /\ One(iocp, "udp") /\ thread \in {"started", "running"}
      BY <1>3, <1>7 DEF LInv, Armed, AcceptArmed
    <2>2. One(iocp', "accept")
      BY <1>1, <1>2, <1>4, <2>1, Grows
    <2>3. One(iocp', "udp")
      BY <1>1, <1>2, <1>4, <2>1, Grows
    <2>4. Work'
      BY <1>2, <1>3, <1>5, <2>1 DEF Work
    <2>. QED  BY <1>3, <1>5, <1>7, <2>1, <2>2, <2>3, <2>4 DEF LInv, Armed, AcceptArmed
  <1>. QED  BY <1>6, <1>7

\* run() is entered, and never left: there is work, and no stop event.
LEMMA RunContextKeeps == LInv /\ RunContext => LInv'
  <1>. SUFFICES ASSUME LInv, RunContext PROVE LInv'
    OBVIOUS
  <1>1. main = "started" /\ UNCHANGED <<main, accepting>>
    BY DEF LInv, RunContext, EnterRun, LeaveRun, Serves
  <1>2. /\ iocp \in Seq(Completion) /\ accepting \in BOOLEAN /\ Work /\ Armed
        /\ thread \in {"started", "running"}
    BY <1>1 DEF LInv
  <1>3. outstanding_work_ \in Nat /\ outstanding_work_ >= 2
    BY <1>2, TwoAtLeast
  <1>4. ~LeaveRun
    <2>1. ASSUME iocp # <<>> PROVE Head(iocp) \in Completion
      BY <1>2, <2>1, HeadTailProperties
    <2>. QED  BY <2>1, StopAssumption DEF LeaveRun, Serves
  <1>5. thread' = "running" /\ UNCHANGED <<iocp, outstanding_work_>>
    BY <1>3, <1>4 DEF RunContext, EnterRun
  <1>. QED  BY <1>1, <1>2, <1>5 DEF LInv, Work, Armed, AcceptArmed
-----------------------------------------------------------------------------
LEMMA LInvariant == Spec => []LInv
  <1>1. Init => LInv
    <2>1. <<>> \in Seq(Completion)
      BY EmptySeq
    <2>. QED  BY <2>1 DEF Init, ContextInit, LInv
  <1>2. LInv /\ [Next]_vars => LInv'
    <2>. SUFFICES ASSUME LInv, [Next]_vars PROVE LInv'
      OBVIOUS
    <2>1. CASE StartFails
      BY <2>1 DEF StartFails, LInv
    <2>2. CASE ClientConnects
      BY <2>2 DEF ClientConnects, contextVars, LInv, Work, Armed, AcceptArmed
    <2>3. CASE Throws
      BY <2>3 DEF Throws, contextVars, LInv, Work, Armed, AcceptArmed
    <2>4. CASE \E b \in BOOLEAN : Start(b) \/ AcceptEnds(b)
      BY <2>4, StartKeeps, AcceptEndsKeeps
    <2>5. CASE UNCHANGED vars
      BY <2>5 DEF vars, contextVars, LInv, Work, Armed, AcceptArmed
    <2>. QED  BY <2>1, <2>2, <2>3, <2>4, <2>5, PostSendKeeps, AcceptDoneKeeps, AwaitUDPKeeps,
                 PostDoneKeeps, RunContextKeeps DEF Next, Thread
  <1>. QED  BY <1>1, <1>2, PTL DEF Spec

\* Each of AwaitTCPConnection and AwaitUDPConnection is armed exactly once,
\* whatever becomes of accepts and receives.
THEOREM LoopsArmOnce == Spec => []OneOfEach
  <1>1. LInv => OneOfEach
    <2>. SUFFICES ASSUME LInv, main = "started" PROVE OneOfEach
      BY DEF OneOfEach
    <2>1. iocp \in Seq(Completion) /\ DOMAIN iocp = 1..Len(iocp) /\ Armed
      BY DEF LInv
    <2>2. \A i \in 1..Len(iocp) : iocp[i] # StopEvent
      BY <2>1, StopAssumption
    <2>3. ASSUME NEW k, One(iocp, k) PROVE \E i \in DOMAIN iocp : Queued(k) = {i}
      <3>1. PICK a \in 1..Len(iocp) : \A i \in 1..Len(iocp) : iocp[i].kind = k <=> i = a
        BY <2>3 DEF One
      <3>2. Queued(k) = {a}
        BY <2>1, <2>2, <3>1 DEF Queued
      <3>. QED  BY <2>1, <3>2
    <2>4. None(iocp, "accept") => Queued("accept") = {}
      BY <2>1 DEF None, Queued
    <2>. QED  BY <2>1, <2>3, <2>4 DEF OneOfEach, Armed, AcceptArmed
  <1>. QED  BY <1>1, LInvariant, PTL

\* The io_context of the server does not run out of work, and run() does not
\* return: m_ASIOContext.run() in the thread of Start serves for ever.
THEOREM ContextRuns == Spec => []NeverStops
  <1>1. LInv => NeverStops
    BY TwoAtLeast DEF LInv, NeverStops
  <1>. QED  BY <1>1, LInvariant, PTL
-----------------------------------------------------------------------------
\* What the clients and the main thread have asked for is served, or is work
\* that is still outstanding: two pieces of it are the loops.
Counted ==
    /\ crashed \in BOOLEAN /\ beat \in BOOLEAN
    /\ stopped_ \in BOOLEAN /\ stop_event_posted_ \in BOOLEAN
    /\ clients \in Nat /\ answered \in Nat /\ served \in Nat /\ posts \in Nat /\ ran \in Nat
    /\ outstanding_work_ \in Nat
    /\ answered <= clients /\ clients <= MaxClients /\ posts <= MaxPosts
    /\ main = "new" => ~accepting /\ answered = 0
    /\ main # "new" => answered = served + (IF accepting THEN 0 ELSE 1)
    /\ main # "started" => posts = 0 /\ ran = 0 /\ served = 0
    /\ main = "started" => outstanding_work_ + ran = posts + 2

LEMMA CountedHandlers ==
    ASSUME LInv, Counted, AcceptDone \/ AwaitUDPConnection \/ PostDone
    PROVE  Counted'
  <1>1. PICK k \in {"accept", "udp", "post"}, ok \in BOOLEAN : Runs(k, ok)
    BY DEF AcceptDone, AwaitUDPConnection, PostDone
  <1>2. /\ main = "started" /\ UNCHANGED <<main, clients, answered, posts>>
        /\ outstanding_work_ \in Nat /\ outstanding_work_ >= 2
        /\ iocp # <<>> /\ Armed
    BY <1>1, HandlerFacts DEF Runs
  <1>3. CASE AcceptDone
    <2>1. PICK b \in BOOLEAN : Runs("accept", b)
      BY <1>3 DEF AcceptDone
    <2>2. served' = served + 1 /\ accepting' = TRUE /\ Return(1, <<>>)
          /\ UNCHANGED <<crashed, ran, beat>>
      BY <1>3 DEF AcceptDone
    <2>3. ~accepting
      <3>1. Head(iocp).kind = "accept" /\ iocp \in Seq(Completion)
        BY <2>1, HandlerFacts DEF LInv
      <3>2. Len(iocp) \in Nat \ {0} /\ Head(iocp) = iocp[1]
        BY <1>2, <3>1, Shrinks
      <3>. QED  BY <1>2, <3>1, <3>2 DEF Armed, AcceptArmed, None
    <2>4. outstanding_work_' = outstanding_work_ + 1 - 1
      BY <1>2, <2>2, ReturnFacts
    <2>5. UNCHANGED <<stopped_, stop_event_posted_>>
      BY <1>2, <2>2 DEF Return
    <2>. QED  BY <1>2, <2>2, <2>3, <2>4, <2>5 DEF Counted
  <1>4. CASE AwaitUDPConnection
    <2>1. PICK d \in BOOLEAN : Return(1, <<Done("udp", d)>>)
      BY <1>4 DEF AwaitUDPConnection
    <2>2. beat' = ~beat /\ UNCHANGED <<crashed, accepting, served, ran>>
      BY <1>4 DEF AwaitUDPConnection
    <2>3. outstanding_work_' = outstanding_work_ + 1 - 1
      BY <1>2, <2>1, ReturnFacts
    <2>4. UNCHANGED <<stopped_, stop_event_posted_>>
      BY <1>2, <2>1 DEF Return
    <2>. QED  BY <1>2, <2>2, <2>3, <2>4 DEF Counted
  <1>5. CASE PostDone
    <2>1. ran' = ran + 1 /\ Return(0, <<>>) /\ UNCHANGED <<crashed, accepting, served, beat>>
      BY <1>5 DEF PostDone
    <2>2. outstanding_work_' = outstanding_work_ + 0 - 1
      BY <1>2, <2>1, ReturnFacts
    <2>3. UNCHANGED <<stopped_, stop_event_posted_>>
      BY <1>2, <2>1 DEF Return
    <2>. QED  BY <1>2, <2>1, <2>2, <2>3 DEF Counted
  <1>. QED  BY <1>3, <1>4, <1>5

LEMMA CountedInvariant == Spec => []Counted
  <1>1. Init => Counted
    <2>. SUFFICES ASSUME Init PROVE Counted
      OBVIOUS
    <2>1. /\ main = "new" /\ ~accepting /\ crashed \in BOOLEAN /\ beat \in BOOLEAN
          /\ stopped_ \in BOOLEAN /\ stop_event_posted_ \in BOOLEAN
      BY DEF Init, ContextInit
    <2>2. /\ clients = 0 /\ answered = 0 /\ served = 0 /\ posts = 0 /\ ran = 0
          /\ outstanding_work_ = 0
      BY DEF Init, ContextInit
    <2>. QED  BY <2>1, <2>2, LoopAssumption DEF Counted
  <1>2. LInv /\ Counted /\ [Next]_vars => Counted'
    <2>. SUFFICES ASSUME LInv, Counted, [Next]_vars PROVE Counted'
      OBVIOUS
    <2>1. CASE StartFails
      BY <2>1 DEF StartFails, counters, Counted
    <2>2. CASE PostSend
      BY <2>2, LoopAssumption DEF PostSend, Post, Counted
    <2>3. CASE ClientConnects
      BY <2>3, LoopAssumption DEF ClientConnects, contextVars, Counted
    <2>4. CASE RunContext
      <3>1. main = "started" /\ Work /\ Armed /\ iocp \in Seq(Completion) /\ accepting \in BOOLEAN
        BY <2>4 DEF LInv, RunContext, EnterRun, LeaveRun, Serves
      <3>2. outstanding_work_ >= 2 /\ outstanding_work_ \in Nat
        BY <3>1, TwoAtLeast
      <3>. QED  BY <2>4, <3>2 DEF RunContext, EnterRun, LeaveRun, counters, Counted
    <2>5. CASE Throws
      BY <2>5 DEF Throws, contextVars, counters, Counted
    <2>6. ASSUME NEW b \in BOOLEAN, Start(b) PROVE Counted'
      BY <2>6 DEF Start, counters, Counted
    <2>7. ASSUME NEW b \in BOOLEAN, AcceptEnds(b) PROVE Counted'
      BY <2>7 DEF AcceptEnds, Complete, Counted
    <2>8. CASE UNCHANGED vars
      BY <2>8 DEF vars, contextVars, counters, Counted
    <2>. QED  BY <2>1, <2>2, <2>3, <2>4, <2>5, <2>6, <2>7, <2>8, CountedHandlers DEF Next, Thread
  <1>. QED  BY <1>1, <1>2, LInvariant, PTL DEF Spec

\* No client's accept is served before it is answered and no posted handler is
\* run twice, though both wait in the one queue of the io_context.
THEOREM TypeCorrect == Spec => []TypeOK
  <1>1. LInv /\ Counted => TypeOK
    <2>. SUFFICES ASSUME LInv, Counted PROVE TypeOK
      OBVIOUS
    <2>1. ContextTypeOK(Completion)
      <3>1. iocp \in Seq(Completion \union {StopEvent})
        BY DEF LInv
      <3>2. thread \in {"none", "started", "running", "ended"}
        BY DEF LInv
      <3>. QED  BY <3>1, <3>2 DEF ContextTypeOK, Counted
    <2>2. served <= answered
      BY DEF Counted, LInv
    <2>3. ran <= posts
      BY TwoAtLeast DEF Counted, LInv
    <2>. QED  BY <2>1, <2>2, <2>3 DEF TypeOK, LInv, Counted
  <1>. QED  BY <1>1, LInvariant, CountedInvariant, PTL
=============================================================================
