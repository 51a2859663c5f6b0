--------------------------- MODULE BackendSession ---------------------------
(***************************************************************************)
(* One session (backends/session.py): the runner that pushes events, the   *)
(* consumer that drains them, the caller that resolves permission          *)
(* requests, and whoever aborts or closes the session meanwhile.  asyncio  *)
(* runs one step of one of them at a time; a step ends at an await that    *)
(* can suspend.                                                            *)
(***************************************************************************)
EXTENDS SessionOps

VARIABLES
  ses,     \* the session object
  at,      \* the consumer: not draining, in queue.get(), or holding an event
           \* that drain() yielded to it
  hand,    \* the item the consumer holds at a yield
  closing  \* whether a close() awaits the runner

vars == <<ses, at, hand, closing>>

Init == /\ ses = Unborn
        /\ at = "off"
        /\ hand = None
        /\ closing = FALSE

-----------------------------------------------------------------------------
(* The runner.                                                             *)

Begin == /\ ses.runner = "created"
         /\ ses' = Began(ses)
         /\ UNCHANGED <<at, hand, closing>>

Emit == /\ CanEmit(ses)
        /\ \E k \in EventKinds : ses' = Emitted(ses, k)
        /\ UNCHANGED <<at, hand, closing>>

Report == /\ CanReport(ses)
          /\ ses' = Reported(ses)
          /\ UNCHANGED <<at, hand, closing>>

Ask(r) == /\ CanAsk(ses, r)
          /\ hand # Request(r)
          /\ ses' = Asked(ses, r)
          /\ UNCHANGED <<at, hand, closing>>

Return == /\ CanReturn(ses)
          /\ ses' = Ended(ses, "returned")
          /\ UNCHANGED <<at, hand, closing>>

Raise == /\ CanRaise(ses)
         /\ ses' = Ended(ses, "raised")
         /\ UNCHANGED <<at, hand, closing>>

\* the driver's cleanup ends the cancellation, or raises an error of its own
Unwind == /\ ses.runner = "cancelling"
          /\ \E how \in {"cancelled", "raised"} : ses' = Ended(ses, how)
          /\ UNCHANGED <<at, hand, closing>>

DropUnstarted == /\ ses.runner = "doomed"
                 /\ ses' = Stillborn(ses)
                 /\ UNCHANGED <<at, hand, closing>>

-----------------------------------------------------------------------------
(* The consumer.  It drains after start() and after resolve(), without an  *)
(* await in between, and never twice at once: that is the executor's part  *)
(* of the bargain, and Executor.tla is shown to keep it.                   *)

Start == /\ at = "off" /\ ses.runner = "none"
         /\ ses' = Started
         /\ at' = "get"
         /\ UNCHANGED <<hand, closing>>

\* the executor resolves the request that was surfaced last
Resolve == /\ at = "off" /\ Parked(ses)
           /\ ses' = Resolved(ses, ses.last)
           /\ at' = "get"
           /\ UNCHANGED <<hand, closing>>

CanTake == at = "get" /\ ses.queue # << >>

\* an event: the consumer awaits something before it resumes the drain, or
\* resumes it at once; a request always makes it wait
Take == /\ CanTake /\ ~Ends(Head(ses.queue))
        /\ ses' = Taken(ses)
        /\ \/ at' = "yield" /\ hand' = Head(ses.queue)
           \/ /\ Head(ses.queue).kind # "permission"
              /\ UNCHANGED <<at, hand>>
        /\ UNCHANGED closing

\* the sentinel or an error: the drain is over, and the consumer may close
\* the session right away
TakeEnd == /\ CanTake /\ Ends(Head(ses.queue))
           /\ ses' \in {Taken(ses), Forgotten(Taken(ses))}
           /\ at' = "off"
           /\ UNCHANGED <<hand, closing>>

Resume == /\ at = "yield"
          /\ hand' = None
          /\ IF hand.kind = "permission"
               THEN at' = "off" /\ ses' = Surfaced(ses, hand.id)
               ELSE at' = "get" /\ ses' = ses
          /\ UNCHANGED closing

\* the consumer is cancelled where it waits, and aborts the session
Abort == /\ at # "off"
         /\ at' = "off" /\ hand' = None
         /\ ses' = CancelRunner(ses)
         /\ UNCHANGED closing

-----------------------------------------------------------------------------
(* close(), by anyone; an eviction marks the session first.                *)

Marked(x) == {x, [x EXCEPT !.evicted = TRUE]}

CloseFinished == /\ Finished(ses)
                 /\ \E x \in Marked(ses) : ses' = Forgotten(x)
                 /\ UNCHANGED <<at, hand, closing>>

Close == /\ ses.runner # "none" /\ ~Finished(ses) /\ ~closing
         /\ \E x \in Marked(ses) : ses' = CancelRunner(x)
         /\ closing' = TRUE
         /\ UNCHANGED <<at, hand>>

FinishClose == /\ closing /\ Finished(ses)
               /\ ses' = Forgotten(ses)
               /\ closing' = FALSE
               /\ UNCHANGED <<at, hand>>

-----------------------------------------------------------------------------
Next == \/ Begin \/ Emit \/ Report \/ Return \/ Raise
        \/ \E r \in ReqId : Ask(r)
        \/ Unwind \/ DropUnstarted
        \/ Start \/ Resolve \/ Take \/ TakeEnd \/ Resume \/ Abort
        \/ Close \/ CloseFinished \/ FinishClose

Spec == Init /\ [][Next]_vars

\* The event loop runs every task that is ready: a cancelled runner unwinds,
\* the consumer takes what is queued and goes on after each event.
Fairness == /\ WF_vars(Unwind) /\ WF_vars(DropUnstarted)
            /\ WF_vars(Take \/ TakeEnd) /\ WF_vars(Resume)

FairSpec == Spec /\ Fairness

-----------------------------------------------------------------------------
(* Every variable keeps its type (session.py:38-47).                       *)
TypeOK == /\ ses \in Session
          /\ at \in {"off", "get", "yield"}
          /\ hand \in Item \cup {None}
          /\ (hand = None) <=> (at # "yield")
          /\ closing \in BOOLEAN

(* A drain() that waits on an empty queue waits for a runner that will     *)
(* still queue something, if that runner got as far as its first step: one *)
(* that goes on and does not itself wait for a decision its caller was     *)
(* never asked for, or one whose cleanup ends in the sentinel              *)
(* (session.py:56-67, 89-114: "would leave the driver parked and hang      *)
(* drain()").  A runner cancelled before its first step is the exception:  *)
(* it queues nothing and does hang the drain, see SentinelReachesDrain.    *)
Blocked == at = "get" /\ ses.queue = << >>
CancelledUnborn == {"doomed", "unstarted"}
NoHungDrain ==
  Blocked /\ ses.runner \notin CancelledUnborn =>
    \/ ses.runner = "cancelling"
    \/ ses.runner \in {"created", "running", "reported"} /\ ses.pending = {}

(* While a request waits for its decision no consumer is in drain(): the   *)
(* executor may resolve and drain again without putting two consumers on   *)
(* the queue (session.py:49-54, 111-114).                                  *)
ParkedIsQuiescent == Parked(ses) => at = "off"

(* session.py:63-64: "a pending cancellation cannot stop the sentinel from *)
(* reaching a blocked drain()": no drain waits on an empty queue for a     *)
(* runner that is over.                                                    *)
SentinelReachesDrain == Blocked => ~Finished(ses)

(* A drain() that is under way while its runner is cancelled returns       *)
(* (session.py:116-132): the consumer of a closed session is not left      *)
(* waiting.  This is about runners that had begun; a drain on one that was *)
(* cancelled before its first step ("doomed") never returns.               *)
CancelReleasesDrain == (ses.runner = "cancelling" /\ at # "off") ~> (at = "off")

(* A request a draining session queued reaches the caller, or the drain    *)
(* ends otherwise; progress events queued before it do not keep it from    *)
(* being surfaced (session.py:103-114).                                    *)
RequestSurfaces ==
  \A r \in ReqId : (r \in ses.pending /\ at # "off") ~> (r \notin ses.pending \/ at = "off")
=============================================================================
