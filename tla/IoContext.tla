----------------------------- MODULE IoContext -----------------------------
(***************************************************************************)
(* asio::io_context as GNL uses it: one thread inside run(), on Windows,   *)
(* where the context is an I/O completion port.  Posted handlers and       *)
(* finished operations go to the end of one queue and run() serves its     *)
(* front.  stop() does not make run() leave at once: it queues an event    *)
(* that makes it leave when it gets there.                                 *)
(***************************************************************************)
EXTENDS Naturals, Sequences

CONSTANT StopEvent          \* the completion packet that carries no operation

VARIABLES
    iocp,                   \* completion packets, the oldest first
    outstanding_work_,      \* handlers posted and operations started, not yet run
    stopped_,
    stop_event_posted_,
    thread                  \* "none" (not joinable), "started" (before run()),
                            \* "running" or "ended" (returned from run())

contextVars == <<iocp, outstanding_work_, stopped_, stop_event_posted_, thread>>

ContextTypeOK(Completions) ==
    /\ iocp \in Seq(Completions \union {StopEvent})
    /\ outstanding_work_ \in Nat
    /\ stopped_ \in BOOLEAN /\ stop_event_posted_ \in BOOLEAN
    /\ thread \in {"none", "started", "running", "ended"}

ContextInit ==
    /\ iocp = <<>> /\ outstanding_work_ = 0
    /\ stopped_ = FALSE /\ stop_event_posted_ = FALSE
    /\ thread = "none"

\* asio::post from another thread.
Post(e) ==
    /\ iocp' = Append(iocp, e)
    /\ outstanding_work_' = outstanding_work_ + 1
    /\ UNCHANGED <<stopped_, stop_event_posted_, thread>>

\* An operation that another thread's call or the system has finished.
Complete(es) ==
    /\ iocp' = iocp \o es
    /\ UNCHANGED <<outstanding_work_, stopped_, stop_event_posted_, thread>>

\* stop(), when the queue has become q.
StopOn(q) ==
    /\ stopped_' = TRUE
    /\ IF stopped_ \/ stop_event_posted_
       THEN iocp' = q /\ UNCHANGED stop_event_posted_
       ELSE iocp' = Append(q, StopEvent) /\ stop_event_posted_' = TRUE

\* run() is entered: with nothing outstanding it stops the context and returns.
EnterRun ==
    /\ thread = "started"
    /\ thread' = IF outstanding_work_ = 0 THEN "ended" ELSE "running"
    /\ IF outstanding_work_ = 0 THEN StopOn(iocp)
       ELSE UNCHANGED <<iocp, stopped_, stop_event_posted_>>
    /\ UNCHANGED outstanding_work_

\* do_one has taken completion e and runs its handler.
Serves(e) == thread = "running" /\ iocp # <<>> /\ Head(iocp) = e

\* The handler returns: it has started n operations and put the packets es on
\* the queue; the context stops when there is no work left.
Return(n, es) ==
    LET q == Tail(iocp) \o es
    IN  /\ UNCHANGED thread
        /\ outstanding_work_' = outstanding_work_ + n - 1
        /\ IF outstanding_work_' = 0 THEN StopOn(q)
           ELSE iocp' = q /\ UNCHANGED <<stopped_, stop_event_posted_>>

\* The stop event consumed without a trace.
LeaveRunForGood ==
    /\ Serves(StopEvent)
    /\ iocp' = Tail(iocp)
    /\ stop_event_posted_' = FALSE
    /\ thread' = "ended"
    /\ UNCHANGED <<outstanding_work_, stopped_>>

\* do_one takes the stop event, puts it back for the next caller of run() and
\* returns 0.  (stopped_ is set whenever there is a stop event, since nothing
\* in GNL calls restart().)
LeaveRun ==
    /\ Serves(StopEvent) /\ stopped_
    /\ iocp' = Append(Tail(iocp), StopEvent)
    /\ thread' = "ended"
    /\ UNCHANGED <<outstanding_work_, stopped_, stop_event_posted_>>
=============================================================================
