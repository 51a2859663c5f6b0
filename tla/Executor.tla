------------------------------ MODULE Executor ------------------------------
(***************************************************************************)
(* ClaudeCodeExecutor (executor.py): calls of execute() and cancel() that  *)
(* interleave at their awaits, the sessions they start, resume, drain,     *)
(* evict and close, and the registry of live sessions they share.          *)
(*                                                                         *)
(* Each pc value names the await a call is suspended at; a step runs from  *)
(* one await to the next.  Publishing a task event is the last thing its   *)
(* await does: the event goes out and the call runs on in the same step.   *)
(* The continuity map (_session_ids) decides nothing here and has a module *)
(* of its own, Continuity.tla; the text of the response stream is reduced  *)
(* to what decides the next await.                                         *)
(***************************************************************************)
EXTENDS SessionOps, Dicts

CONSTANTS
  Task,      \* A2A task ids
  SessionId,    \* BOUND: the sessions there are to start; none is used twice
  Call,      \* BOUND: execute() and cancel() calls under way at once
  MaxLive,   \* _MAX_LIVE
  Faults     \* what the callers and the server may do besides sending one
             \* message at a time: "cancel" a task, "disconnect" a call,
             \* "overlap" two messages of one task

ASSUME ExecutorAssumption ==
  /\ None \notin Task \cup SessionId
  /\ IsFiniteSet(Task)
  /\ MaxLive \in Nat \ {0}
  /\ Faults \subseteq {"cancel", "disconnect", "overlap"}

VARIABLES
  session,   \* the session objects
  live,      \* _live: task id -> session
  order,     \* the insertion order of _live's keys
  streamOf,  \* _streams: task id -> stream, named after the session that
             \* was being pumped when it was created
  stream,    \* the stream objects
  lock,      \* _admit_lock: its holder, then its waiters in order
  call,      \* the calls
  status     \* the task state published last

vars == <<session, live, order, streamOf, stream, lock, call, status>>

-----------------------------------------------------------------------------
Pc == {"idle",
       "open", "begin", "admit", "evict",  \* execute(): a new run
       "answer",                           \* execute(): a follow-up
       "get", "handle",                    \* _pump(): the drain loop
       "last", "complete", "fail",         \* _pump(): after the loop
       "closing", "cancel"}                \* cancel()

Starting == {"open", "begin", "admit", "evict"}
Draining == {"get", "handle"}
Executing == Pc \ {"idle", "closing", "cancel"}

Status == {"none", "submitted", "working", "input-required",
           "completed", "failed", "canceled"}
Terminal == {"completed", "failed", "canceled"}

Stream    == [pending : BOOLEAN, sent : BOOLEAN]
NewStream == [pending |-> FALSE, sent |-> FALSE]

\* hand: the event a drain yielded.  sess: the session a call works with; at
\* "evict" its victim, at "closing" the session being cancelled.
CallFields == [pc : Pc, task : Task \cup {None}, sess : SessionId \cup {None},
               strm : SessionId \cup {None}, hand : Item \cup {None}]
WellFormed(x) ==
  /\ x.pc # "idle" => x.task \in Task
  /\ x.pc \in {"evict", "answer", "closing", "last"} \cup Draining => x.sess \in SessionId
  /\ x.pc \in {"last"} \cup Draining => x.strm \in SessionId
  /\ x.pc = "handle" <=> x.hand # None
CallState == {x \in CallFields : WellFormed(x)}
Idle      == [pc |-> "idle", task |-> None, sess |-> None,
              strm |-> None, hand |-> None]

Init == /\ session = [s \in SessionId |-> Unborn]
        /\ live = [t \in Task |-> None]
        /\ order = << >>
        /\ streamOf = [t \in Task |-> None]
        /\ stream = [s \in SessionId |-> NewStream]
        /\ lock = << >>
        /\ call = [c \in Call |-> Idle]
        /\ status = [t \in Task |-> "none"]

-----------------------------------------------------------------------------
(* The registry and the streams, Python dicts.                             *)

LiveTasks == {t \in Task : live[t] # None}

\* an existing key keeps its place
Register(t, s) == /\ live' = [live EXCEPT ![t] = s]
                  /\ order' = IF live[t] = None THEN Append(order, t) ELSE order

PopLive(t)   == /\ live' = [live EXCEPT ![t] = None]
                /\ order' = Without(order, t)
PopStream(t) == streamOf' = [streamOf EXCEPT ![t] = None]

\* _evict_if_full: a parked session first, else the oldest entry
ParkedTasks == {t \in LiveTasks : Parked(session[live[t]])}
Oldest(T)   == order[CHOOSE i \in DOMAIN order :
                       order[i] \in T /\ \A j \in 1..(i - 1) : order[j] \notin T]
Victim      == Oldest(IF ParkedTasks # {} THEN ParkedTasks ELSE LiveTasks)

\* mutant: the pump of the victim is not told
Evicted_Unmarked(x) == x

Evicted(x) == [x EXCEPT !.evicted = TRUE]

\* mutants: the runner is left running; the requests are withdrawn before the
\* runner is over; the runner is awaited but not cancelled
Closed_Detached(x) == Forgotten(x)
Closed_Early(x)    == Forgotten(CancelRunner(x))
Closed_Waits(x)    == IF Finished(x) THEN Forgotten(x) ELSE x

\* close() up to its await: whether there is one depends on the runner
Closed(x) == IF Finished(x) THEN Forgotten(x) ELSE CancelRunner(x)

\* mutant: the event in hand is kept
Return_KeepHand(c) == call' = [call EXCEPT ![c].pc = "idle"]

Goto(c, pc) == call' = [call EXCEPT ![c].pc = pc]
Return(c)   == call' = [call EXCEPT ![c] = Idle]
Publish(t, st) == status' = [status EXCEPT ![t] = st]

-----------------------------------------------------------------------------
(* execute(): a message arrives.  The SDK takes none for a task that       *)
(* ended, and one at a time for each task unless "overlap".  A message for *)
(* a task whose session is not parked is refused and changes nothing.      *)

Executes(c, t) == call[c].pc \in Executing /\ call[c].task = t
Unused == {s \in SessionId : session[s].runner = "none"}

Accepts(c, t) == /\ call[c].pc = "idle"
                 /\ status[t] \notin Terminal
                 /\ "overlap" \in Faults \/ \A d \in Call : ~Executes(d, t)

StartRun(c, t) ==
  /\ Accepts(c, t) /\ live[t] = None
  /\ Cardinality({d \in Call : call[d].pc \in Starting}) < Cardinality(Unused)
  /\ call' = [call EXCEPT ![c] = [Idle EXCEPT !.pc = "open", !.task = t]]
  /\ UNCHANGED <<session, live, order, streamOf, stream, lock, status>>

FollowUp(c, t) ==
  /\ Accepts(c, t) /\ live[t] # None
  /\ Parked(session[live[t]])
  /\ call' = [call EXCEPT ![c] = [Idle EXCEPT !.pc = "answer", !.task = t,
                                              !.sess = live[t]]]
  /\ UNCHANGED <<session, live, order, streamOf, stream, lock, status>>

OpenTask(c) ==
  /\ call[c].pc = "open"
  /\ Publish(call[c].task, "submitted")
  /\ Goto(c, "begin")
  /\ UNCHANGED <<session, live, order, streamOf, stream, lock>>

\* start_work() returned: read the continuity map, queue for the lock
BeginWork(c) ==
  /\ call[c].pc = "begin"
  /\ Publish(call[c].task, "working")
  /\ lock' = Append(lock, c)
  /\ Goto(c, "admit")
  /\ UNCHANGED <<session, live, order, streamOf, stream>>

-----------------------------------------------------------------------------
(* Admission, under the lock.                                              *)

HoldsLock(c) == lock # << >> /\ Head(lock) = c

\* mutant: > for >=
Full_OffByOne == Cardinality(LiveTasks) > MaxLive

Full == Cardinality(LiveTasks) >= MaxLive

\* The session becomes x and c starts to pump it, with the task's stream or
\* a new one.
EnterPump(c, t, s, x) ==
  LET strm == IF streamOf[t] = None THEN s ELSE streamOf[t]
  IN  /\ session' = [session EXCEPT ![s] = x]
      /\ streamOf' = [streamOf EXCEPT ![t] = strm]
      /\ stream' = IF streamOf[t] = None
                     THEN [stream EXCEPT ![s] = NewStream] ELSE stream
      /\ call' = [call EXCEPT ![c] = [pc |-> "get", task |-> t, sess |-> s,
                                      strm |-> strm, hand |-> None]]

Admit(c) ==
  /\ call[c].pc = "admit" /\ HoldsLock(c) /\ ~Full
  /\ \E s \in Unused : /\ Register(call[c].task, s)
                       /\ EnterPump(c, call[c].task, s, Started)
  /\ lock' = Tail(lock)
  /\ UNCHANGED status

\* one turn of the loop of _evict_if_full, up to close()'s await if it has one
MakeRoom(c) ==
  /\ call[c].pc = "admit" /\ HoldsLock(c) /\ Full
  /\ \E v \in LiveTasks :
       LET s == live[v]
       IN  /\ v = Victim
           /\ session' = [session EXCEPT ![s] = Closed(Evicted(@))]
           /\ PopLive(v) /\ PopStream(v)
           /\ IF Finished(session[s])
                THEN call' = call
                ELSE call' = [call EXCEPT ![c].pc = "evict", ![c].sess = s]
  /\ UNCHANGED <<stream, lock, status>>

FinishEviction(c) ==
  /\ call[c].pc = "evict" /\ Finished(session[call[c].sess])
  /\ session' = [session EXCEPT ![call[c].sess] = Forgotten(@)]
  /\ call' = [call EXCEPT ![c].pc = "admit", ![c].sess = None]
  /\ UNCHANGED <<live, order, streamOf, stream, lock, status>>

-----------------------------------------------------------------------------
(* A follow-up answers the request surfaced last; if none is pending any   *)
(* more resolve() raises, out of execute().                                *)

\* mutant: resolving an unknown request is a no-op instead of an error
Answerable_Always(s) == TRUE

Answerable(s) == Parked(session[s])

Answer(c) ==
  LET t == call[c].task
      s == call[c].sess
  IN  /\ call[c].pc = "answer"
      /\ Publish(t, "working")
      /\ IF Answerable(s)
           THEN EnterPump(c, t, s, Resolved(session[s], session[s].last))
           ELSE Return(c) /\ UNCHANGED <<session, streamOf, stream>>
      /\ UNCHANGED <<live, order, lock>>

-----------------------------------------------------------------------------
(* _pump().  The first text of a turn and the result are handled without   *)
(* an await; every other event is published before the drain resumes.      *)

Incoming(c)   == Head(session[call[c].sess].queue)
CanTake(c) == call[c].pc = "get" /\ session[call[c].sess].queue # << >>
TakeNext(c) == session' = [session EXCEPT ![call[c].sess] = Taken(@)]

Text(c) == stream[call[c].strm].pending

TakeQuietly(c) ==
  /\ CanTake(c) /\ TakeNext(c)
  /\ \/ /\ Incoming(c).kind = "text" /\ ~Text(c)
        /\ stream' = [stream EXCEPT ![call[c].strm].pending = TRUE]
     \/ Incoming(c).kind = "result" /\ UNCHANGED stream
  /\ UNCHANGED <<live, order, streamOf, lock, call, status>>

TakeEvent(c) ==
  /\ CanTake(c) /\ TakeNext(c)
  /\ \/ Incoming(c).kind \in {"tool", "file", "permission"}
     \/ Incoming(c).kind = "text" /\ Text(c)
  /\ call' = [call EXCEPT ![c].pc = "handle", ![c].hand = Incoming(c)]
  /\ UNCHANGED <<live, order, streamOf, stream, lock, status>>

\* mutants: the registry entry stays; the stream stays
Discard_KeepLive(c, x) ==
  /\ PopStream(call[c].task) /\ UNCHANGED <<live, order>>
  /\ session' = [session EXCEPT ![call[c].sess] = Forgotten(x)]
Discard_KeepStream(c, x) ==
  /\ PopLive(call[c].task) /\ UNCHANGED streamOf
  /\ session' = [session EXCEPT ![call[c].sess] = Forgotten(x)]

\* _discard(): when the pump comes here its runner is over, and close() has
\* nothing to wait for
Discard(c, x) == /\ PopLive(call[c].task) /\ PopStream(call[c].task)
                 /\ session' = [session EXCEPT ![call[c].sess] = Forgotten(x)]

TakeError(c) ==
  /\ CanTake(c) /\ Incoming(c).kind = "error"
  /\ Discard(c, Taken(session[call[c].sess]))
  /\ Goto(c, "fail")
  /\ UNCHANGED <<stream, lock, status>>

TakeDone(c) ==
  LET x == Taken(session[call[c].sess])
      m == stream[call[c].strm]
  IN  /\ CanTake(c) /\ Incoming(c).kind = "done"
      /\ \/ /\ x.evicted
            /\ TakeNext(c) /\ Goto(c, "fail")
            /\ UNCHANGED <<live, order, streamOf>>
         \/ /\ ~x.evicted /\ (m.pending \/ m.sent)
            /\ TakeNext(c) /\ Goto(c, "last")
            /\ UNCHANGED <<live, order, streamOf>>
         \/ /\ ~x.evicted /\ ~m.pending /\ ~m.sent
            /\ Discard(c, x) /\ Goto(c, "complete")
      /\ UNCHANGED <<stream, lock, status>>

\* back from publishing: the drain goes on
Publishing(c, kind) == call[c].pc = "handle" /\ call[c].hand.kind = kind
Resume(c) == call' = [call EXCEPT ![c].pc = "get", ![c].hand = None]

\* flush() of the text held back so far; the new text is held back instead
HandleText(c) ==
  /\ Publishing(c, "text")
  /\ stream' = [stream EXCEPT ![call[c].strm].sent = TRUE]
  /\ Resume(c)
  /\ UNCHANGED <<session, live, order, streamOf, lock, status>>

HandleTool(c) ==
  /\ Publishing(c, "tool")
  /\ Publish(call[c].task, "working")
  /\ Resume(c)
  /\ UNCHANGED <<session, live, order, streamOf, stream, lock>>

HandleFile(c) ==
  /\ Publishing(c, "file")
  /\ Resume(c)
  /\ UNCHANGED <<session, live, order, streamOf, stream, lock, status>>

\* text held back goes out before the request does
FlushForRequest(c) ==
  /\ Publishing(c, "permission") /\ Text(c)
  /\ stream' = [stream EXCEPT ![call[c].strm].sent = TRUE,
                              ![call[c].strm].pending = FALSE]
  /\ UNCHANGED <<session, live, order, streamOf, lock, call, status>>

\* the request is published, drain() records it and ends, the pump returns
HandlePermission(c) ==
  /\ Publishing(c, "permission") /\ ~Text(c)
  /\ Publish(call[c].task, "input-required")
  /\ session' = [session EXCEPT ![call[c].sess] = Surfaced(@, call[c].hand.id)]
  /\ Return(c)
  /\ UNCHANGED <<live, order, streamOf, stream, lock>>

FlushLast(c) ==
  /\ call[c].pc = "last"
  /\ stream' = [stream EXCEPT ![call[c].strm].sent = TRUE]
  /\ Discard(c, session[call[c].sess])
  /\ Goto(c, "complete")
  /\ UNCHANGED <<lock, status>>

Complete(c) ==
  /\ call[c].pc = "complete"
  /\ Publish(call[c].task, "completed")
  /\ Return(c)
  /\ UNCHANGED <<session, live, order, streamOf, stream, lock>>

Fail(c) ==
  /\ call[c].pc = "fail"
  /\ Publish(call[c].task, "failed")
  /\ Return(c)
  /\ UNCHANGED <<session, live, order, streamOf, stream, lock>>

-----------------------------------------------------------------------------
(* cancel().                                                               *)

CancelTask(c, t) ==
  LET s == live[t]
  IN  /\ "cancel" \in Faults
      /\ call[c].pc = "idle" /\ status[t] \notin Terminal \cup {"none"}
      /\ PopLive(t) /\ PopStream(t)
      /\ session' = IF s = None THEN session
                                ELSE [session EXCEPT ![s] = Closed(@)]
      /\ call' = [call EXCEPT ![c] =
           IF s = None \/ Finished(session[s])
             THEN [Idle EXCEPT !.pc = "cancel", !.task = t]
             ELSE [Idle EXCEPT !.pc = "closing", !.task = t, !.sess = s]]
      /\ UNCHANGED <<stream, lock, status>>

FinishClose(c) ==
  /\ call[c].pc = "closing" /\ Finished(session[call[c].sess])
  /\ session' = [session EXCEPT ![call[c].sess] = Forgotten(@)]
  /\ Goto(c, "cancel")
  /\ UNCHANGED <<live, order, streamOf, stream, lock, status>>

PublishCanceled(c) ==
  /\ call[c].pc = "cancel"
  /\ Publish(call[c].task, "canceled")
  /\ Return(c)
  /\ UNCHANGED <<session, live, order, streamOf, stream, lock>>

-----------------------------------------------------------------------------
(* The client of a call goes away and the server cancels the call at its   *)
(* await.  close() swallows this while it waits for the runner ("evict",   *)
(* "closing"), so nothing happens there.                                   *)

Leave(c) ==
  /\ "disconnect" \in Faults
  /\ call[c].pc \in {"open", "begin", "admit", "answer",
                     "last", "complete", "fail", "cancel"}
  /\ lock' = Without(lock, c)
  /\ Return(c)
  /\ UNCHANGED <<session, live, order, streamOf, stream, status>>

\* inside the try of _pump(): drop the session and abort its runner
LeavePump(c) ==
  /\ "disconnect" \in Faults
  /\ call[c].pc \in Draining
  /\ PopLive(call[c].task) /\ PopStream(call[c].task)
  /\ session' = [session EXCEPT ![call[c].sess] = CancelRunner(@)]
  /\ Return(c)
  /\ UNCHANGED <<stream, lock, status>>

-----------------------------------------------------------------------------
(* The runners (session.py).                                               *)

Runs(s, x) == /\ session' = [session EXCEPT ![s] = x]
              /\ UNCHANGED <<live, order, streamOf, stream, lock, call, status>>

BeginDriver(s)  == session[s].runner = "created" /\ Runs(s, Began(session[s]))
Emit(s, k)      == CanEmit(session[s]) /\ Runs(s, Emitted(session[s], k))
Report(s)       == CanReport(session[s]) /\ Runs(s, Reported(session[s]))
Ask(s, r)       == /\ CanAsk(session[s], r)
                   /\ \A c \in Call : call[c].sess = s => call[c].hand # Request(r)
                   /\ Runs(s, Asked(session[s], r))
EndDriver(s)    == CanReturn(session[s]) /\ Runs(s, Ended(session[s], "returned"))
RaiseDriver(s)  == CanRaise(session[s]) /\ Runs(s, Ended(session[s], "raised"))
Unwind(s, how)  == session[s].runner = "cancelling" /\ Runs(s, Ended(session[s], how))
DropUnstarted(s) == session[s].runner = "doomed" /\ Runs(s, Stillborn(session[s]))

-----------------------------------------------------------------------------
Arrive(c) == \E t \in Task : StartRun(c, t) \/ FollowUp(c, t) \/ CancelTask(c, t)

Pump(c) == \/ TakeQuietly(c) \/ TakeEvent(c) \/ TakeError(c) \/ TakeDone(c)
           \/ HandleText(c) \/ HandleTool(c) \/ HandleFile(c)
           \/ FlushForRequest(c) \/ HandlePermission(c)
           \/ FlushLast(c) \/ Complete(c) \/ Fail(c)

Advance(c) == \/ OpenTask(c) \/ BeginWork(c)
              \/ Admit(c) \/ MakeRoom(c) \/ FinishEviction(c)
              \/ Answer(c) \/ Pump(c)
              \/ FinishClose(c) \/ PublishCanceled(c)

Drive(s) == \/ BeginDriver(s) \/ Report(s) \/ EndDriver(s) \/ RaiseDriver(s)
            \/ \E k \in EventKinds : Emit(s, k)
            \/ \E r \in ReqId : Ask(s, r)

Stop(s) == DropUnstarted(s) \/ \E how \in {"cancelled", "raised"} : Unwind(s, how)

Next == \/ \E c \in Call : Arrive(c) \/ Advance(c) \/ Leave(c) \/ LeavePump(c)
        \/ \E s \in SessionId : Drive(s) \/ Stop(s)

Spec == Init /\ [][Next]_vars

\* The event loop runs every call that is not waiting, and a runner that was
\* cancelled.  Nothing is assumed of drivers, nor of callers.
Fairness == /\ \A c \in Call : WF_vars(Advance(c))
            /\ \A s \in SessionId : WF_vars(Stop(s))

FairSpec == Spec /\ Fairness

-----------------------------------------------------------------------------
Pumps(c, s) == call[c].pc \in Draining /\ call[c].sess = s
Drained(s)  == \E c \in Call : Pumps(c, s)

(* Every variable keeps its type, and what a pc value needs is there.      *)
TypeOK ==
  /\ session \in [SessionId -> Session]
  /\ live \in [Task -> SessionId \cup {None}]
  /\ order \in Seq(Task)
  /\ streamOf \in [Task -> SessionId \cup {None}]
  /\ stream \in [SessionId -> Stream]
  /\ lock \in Seq(Call)
  /\ call \in [Call -> CallState]
  /\ status \in [Task -> Status]

(* A burst of first messages never overshoots _MAX_LIVE, though each call  *)
(* awaits the session it evicts before it registers its own                *)
(* (executor.py:121-125, 161-165, 328-347).                                *)
BoundedRegistry == Cardinality(LiveTasks) <= MaxLive

(* No two calls drain one session: a message that comes while its task     *)
(* runs is refused, also when an await lies between the test of is_parked  *)
(* and resolve() (executor.py:168-176).                                    *)
SingleConsumer ==
  \A c, d \in Call : \A s \in SessionId : Pumps(c, s) /\ Pumps(d, s) => c = d

(* A task is reported completed only for a run whose driver returned: never*)
(* because an eviction or a disconnect ended its drain on the sentinel of a*)
(* cancelled runner (executor.py:251-277, session.py:44-46).               *)
NoFalseCompletion ==
  \A c \in Call : call[c].pc = "complete" =>
                    session[call[c].sess].runner = "returned"

(* A run that goes on is registered under its task: it can be cancelled and*)
(* evicted, and it counts against _MAX_LIVE (executor.py:117-118, 161-165).*)
NoOrphanRunner ==
  \A s \in SessionId :
    session[s].runner \in {"created", "running", "reported"} =>
      \E t \in Task : live[t] = s

(* A registered session has a call that drains or finishes it, or waits for*)
(* the caller's decision: nothing stays behind in the registry             *)
(* (executor.py:230-236, 271, 349-352).                                    *)
NoLeakedSession ==
  \A t \in LiveTasks :
    \/ Parked(session[live[t]])
    \/ \E c \in Call : /\ call[c].pc \in Draining \cup {"last"}
                       /\ call[c].sess = live[t]

(* A stream is kept for a task that is registered, or by a pump that goes  *)
(* on: "kept across permission pauses", in maps bounded "so a long-running *)
(* server cannot grow without limit" (executor.py:46-50, 119, 187-189).    *)
(* With one exception, which the code has: a pump that begins to drain a   *)
(* session evicted since its caller answered makes the task's stream anew  *)
(* (189), fails the task and leaves that stream behind (251-261).  The     *)
(* claim is that nothing else does, whatever is evicted.                   *)
NoLeakedStream ==
  \A t \in Task : streamOf[t] # None =>
    \/ live[t] # None
    \/ session[streamOf[t]].evicted
    \/ \E c \in Call : call[c].task = t /\ call[c].pc \in Draining \cup {"last"}

(* A task that shows its caller a prompt and is registered is registered   *)
(* with a session that waits for that decision: its follow-up is neither   *)
(* refused as if the task were running nor raises in resolve()             *)
(* (executor.py:168-178, session.py:89-93), however many sessions were     *)
(* evicted and runs started anew in between.  A prompted task that was     *)
(* evicted is not registered; its follow-up starts a new run.              *)
Prompted(t) == status[t] = "input-required"
PromptAnswerable ==
  \A t \in Task : Prompted(t) /\ live[t] # None => Parked(session[live[t]])

(* The pump of an evicted session ends by failing its task                 *)
(* (executor.py:334-336: "mark it evicted so its _pump fails the task").   *)
EvictedPumpReports ==
  [][\A c \in Call :
       (call[c].pc \in Draining /\ session[call[c].sess].evicted)
         => call'[c].pc \in Draining \cup {"fail"}]_vars

(* A call that waits for a slot gets one: the runner of the session it     *)
(* evicts unwinds, and the lock is handed on in turn                       *)
(* (executor.py:161-165, 328-352).                                         *)
AdmissionEventually ==
  \A c \in Call : call[c].pc \in {"admit", "evict"} ~> call[c].pc \notin {"admit", "evict"}

(* The call that drains a session which is evicted or cancelled ends, if   *)
(* its runner had begun (executor.py:247-261, session.py:122-132).         *)
CancelledPumpEnds ==
  \A s \in SessionId :
    (Drained(s) /\ session[s].runner = "cancelling") ~> ~Drained(s)

-----------------------------------------------------------------------------
(* Each session, seen on its own, behaves as BackendSession says.          *)

At(s) == IF \E c \in Call : call[c].pc = "get" /\ call[c].sess = s THEN "get"
         ELSE IF \E c \in Call : call[c].pc = "handle" /\ call[c].sess = s
                THEN "yield" ELSE "off"

Hand(s) == IF At(s) = "yield"
             THEN call[CHOOSE c \in Call : call[c].pc = "handle" /\ call[c].sess = s].hand
             ELSE None

Closing(s) == \E c \in Call : call[c].pc \in {"evict", "closing"} /\ call[c].sess = s

One(s) == INSTANCE BackendSession
            WITH ses <- session[s], at <- At(s), hand <- Hand(s), closing <- Closing(s)

(* Every session the executor drives is a BackendSession: it is started    *)
(* once, drained by one consumer after start() or resolve(), never while it*)
(* waits for a decision, and what session.py promises of one session holds *)
(* of it (executor.py:140-178, session.py).                                *)
SessionsAreSessions ==
  /\ \A s \in SessionId : One(s)!Init
  /\ [][\A s \in SessionId : One(s)!Next \/ UNCHANGED One(s)!vars]_vars
=============================================================================
