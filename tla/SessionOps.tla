----------------------------- MODULE SessionOps -----------------------------
(***************************************************************************)
(* BackendSession (backends/session.py) as a record, and each of its       *)
(* methods, and each step of the runner behind it, as a guard and an       *)
(* effect on that record.  BackendSession.tla runs one such record on its  *)
(* own; Executor.tla runs one per live session.                            *)
(***************************************************************************)
EXTENDS PythonNone, Naturals, Sequences, FiniteSets

CONSTANTS
  ReqId,       \* permission request ids; one nobody holds any more is reused
  Flows,       \* flows of control of a driver that may ask for permission at
               \* once: 1 for echo, more for callbacks of acp and claude
  QueueBound,  \* BOUND: a driver emits only below this many queued events
  EventKinds   \* the progress events (text, tool, file) a driver may emit

-----------------------------------------------------------------------------
(* Queue items: backend events, the _Error wrapper and the _DONE sentinel. *)

Kinds == {"text", "tool", "file", "permission", "result", "error", "done"}
Item  == [kind : Kinds, id : ReqId \cup {None}]

ASSUME SessionAssumption ==
  /\ None \notin ReqId /\ None \notin Item
  /\ Flows \in Nat \ {0}
  /\ QueueBound \in Nat
  /\ EventKinds \subseteq {"text", "tool", "file"}

Event(k)   == [kind |-> k, id |-> None]
Request(r) == [kind |-> "permission", id |-> r]

(* The life of the asyncio task behind a session:                          *)
(*   none        start() not called          created   start() called      *)
(*   running     inside driver()             reported  Result was emitted  *)
(*   doomed      cancelled before its first step                           *)
(*   cancelling  CancelledError delivered, cleanup of the driver running   *)
(*   returned, raised, cancelled  over, the sentinel was queued            *)
(*   unstarted   over, the coroutine body never ran                        *)
Spoke    == {"returned", "raised", "cancelled"}
Over     == Spoke \cup {"unstarted"}
Runner   == {"none", "created", "running", "reported", "doomed", "cancelling"} \cup Over

Session == [queue   : Seq(Item),
            pending : SUBSET ReqId,
            runner  : Runner,
            last    : ReqId \cup {None},
            done    : BOOLEAN,
            evicted : BOOLEAN]

Unborn  == [queue |-> << >>, pending |-> {}, runner |-> "none",
            last |-> None, done |-> FALSE, evicted |-> FALSE]

\* BackendSession() followed by start()
Started == [Unborn EXCEPT !.runner = "created"]

\* queue.put_nowait; queue.put of an unbounded queue, which never suspends
Put(x, item) == [x EXCEPT !.queue = Append(@, item)]

Parked(x)   == x.last \in x.pending
Finished(x) == x.runner \in Over

-----------------------------------------------------------------------------
(* The runner: driver() between start() and its sentinel.                  *)

\* A driver that waits for its only flow's decision is silent, and so is one
\* unwinding from a cancellation, unless other flows of it still run.
Free(x)    == Cardinality(x.pending) < Flows
Talking(x) == /\ Free(x)
              /\ \/ x.runner = "running"
                 \/ Flows > 1 /\ x.runner \in {"reported", "cancelling"}

Began(x) == [x EXCEPT !.runner = "running"]

CanEmit(x)    == Talking(x) /\ Len(x.queue) < QueueBound
Emitted(x, k) == Put(x, Event(k))

CanReport(x)  == x.runner = "running" /\ Free(x)
Reported(x)   == [Put(x, Event("result")) EXCEPT !.runner = "reported"]

\* r is held by no future, no queue item and no caller
Fresh(x, r) == /\ r \notin x.pending \cup {x.last}
               /\ \A i \in DOMAIN x.queue : x.queue[i].id # r
CanAsk(x, r) == Talking(x) /\ Fresh(x, r)

\* mutant: the future is registered, its request never queued
Asked_Unqueued(x, r) == [x EXCEPT !.pending = @ \cup {r}]
Asked(x, r)  == [Put(x, Request(r)) EXCEPT !.pending = @ \cup {r}]

\* a driver's only flow returns when it was answered; one of several returns
\* whatever the others wait for
CanReturn(x) == /\ x.runner \in {"running", "reported"}
                /\ Flows = 1 => x.pending = {}
CanRaise(x)  == x.runner \in {"running", "reported"}

\* mutant: a cancelled runner leaves without passing the finally clause
Ended_CancelSilent(x, how) ==
  IF how = "cancelled" THEN [x EXCEPT !.runner = how]
                       ELSE [Put(x, Event("done")) EXCEPT !.runner = how]

\* the except and finally clauses of runner(), one synchronous step
Ended(x, how) ==
  [(IF how = "raised" THEN Put(Put(x, Event("error")), Event("done"))
                      ELSE Put(x, Event("done"))) EXCEPT !.runner = how]

\* a task cancelled before its first step never enters runner()'s try
Stillborn(x) == [x EXCEPT !.runner = "unstarted"]

\* Task.cancel() of a runner that is not done
CancelRunner(x) ==
  [x EXCEPT !.runner = CASE @ = "created"                -> "doomed"
                         [] @ \in {"running", "reported"} -> "cancelling"
                         [] OTHER                         -> @]

-----------------------------------------------------------------------------
(* The consumer: resolve(), drain() and close().                           *)

\* mutant: the future is looked up, not popped
Resolved_Kept(x, r) == x

Resolved(x, r) == [x EXCEPT !.pending = @ \ {r}]

\* drain() takes the head of the queue; the sentinel or an error ends it
Ends(item) == item.kind \in {"error", "done"}
Taken(x)   == [x EXCEPT !.queue = Tail(@), !.done = @ \/ Ends(Head(x.queue))]

\* mutants: the whole item is recorded; nothing is
Surfaced_Item(x, r) == [x EXCEPT !.last = Request(r)]
Surfaced_Forgets(x, r) == x

\* drain() resumes after it yielded request r
Surfaced(x, r) == [x EXCEPT !.last = r]

\* the finally clause of close()
Forgotten(x) == [x EXCEPT !.pending = {}]
=============================================================================
