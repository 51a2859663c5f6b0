--------------------------- MODULE ExecutorProofs ---------------------------
(* The registry of Executor stays within its capacity and no session has    *)
(* two consumers, for every number of tasks, sessions, calls and events.    *)
EXTENDS Executor, SessionLemmas, FiniteSetTheorems

-----------------------------------------------------------------------------
(* Types of the pieces.                                                     *)

(* dict.pop leaves a sequence of keys. *)
LEMMA WithoutType ==
  ASSUME NEW S, NEW q \in Seq(S), NEW e
  PROVE  Without(q, e) \in Seq(S)
<1>1. CASE ~Contains(q, e)
  BY <1>1 DEF Without
<1>2. CASE Contains(q, e)
  <2> DEFINE i == Position(q, e)
  <2>1. i \in 1..Len(q)
    BY <1>2 DEF Contains, Position
  <2>2. SubSeq(q, 1, i - 1) \in Seq(S) /\ SubSeq(q, i + 1, Len(q)) \in Seq(S)
    BY <2>1
  <2>3. QED
    BY <1>2, <2>2 DEF Without
<1>3. QED
  BY <1>1, <1>2

(* A call that is not under way is well formed. *)
LEMMA IdleType == Idle \in CallState
BY DEF Idle, CallState, CallFields, WellFormed, Pc, Draining

(* Moving a call on keeps it well formed if the new await needs nothing the *)
(* old one did not have (executor.py:140-287).                              *)
LEMMA GotoType ==
  ASSUME NEW x \in CallState, NEW pc \in Pc,
         pc # "idle" => x.task \in Task,
         pc \in {"evict", "answer", "closing", "last"} \cup Draining => x.sess \in SessionId,
         pc \in {"last"} \cup Draining => x.strm \in SessionId,
         pc # "handle" /\ x.hand = None
  PROVE  [x EXCEPT !.pc = pc] \in CallState
BY DEF CallState, CallFields, WellFormed

(* An admission moves between waiting for the lock and for its victim (executor.py:161-165). *)
LEMMA EvictType ==
  ASSUME NEW x \in CallState, NEW pc \in {"admit", "evict"},
         NEW s \in SessionId \cup {None}, pc = "evict" => s \in SessionId,
         x.task \in Task, x.hand = None
  PROVE  [x EXCEPT !.pc = pc, !.sess = s] \in CallState
BY DEF CallState, CallFields, WellFormed, Pc, Draining

(* One call changes, the others stay. *)
LEMMA CallUpdate ==
  ASSUME NEW f \in [Call -> CallState], NEW c \in Call, NEW x \in CallState
  PROVE  [f EXCEPT ![c] = x] \in [Call -> CallState]
OBVIOUS

(* One session changes, the others stay. *)
LEMMA SessionUpdate ==
  ASSUME NEW f \in [SessionId -> Session], NEW s \in SessionId, NEW x \in Session
  PROVE  [f EXCEPT ![s] = x] \in [SessionId -> Session]
OBVIOUS

(* What a call's record holds at each await.                                *)
LEMMA CallTypes ==
  ASSUME TypeOK, NEW c \in Call
  PROVE  /\ call[c] \in CallState
         /\ call[c].pc \in Pc
         /\ call[c].pc # "idle" => call[c].task \in Task
         /\ call[c].pc \in {"evict", "answer", "closing", "last"} \cup Draining
              => call[c].sess \in SessionId
         /\ call[c].pc \in {"last"} \cup Draining => call[c].strm \in SessionId
         /\ call[c].pc = "handle" <=> call[c].hand # None
         /\ call[c].hand \in Item \cup {None}
         /\ call[c].task \in Task \cup {None}
         /\ call[c].sess \in SessionId \cup {None}
         /\ call[c].strm \in SessionId \cup {None}
<1>1. call[c] \in CallState
  BY DEF TypeOK
<1>2. QED
  BY <1>1 DEF CallState, CallFields, WellFormed

(* _live.pop and _streams.pop (executor.py:350-351). *)
LEMMA PopTypes ==
  ASSUME TypeOK, NEW t \in Task
  PROVE  /\ [live EXCEPT ![t] = None] \in [Task -> SessionId \cup {None}]
         /\ Without(order, t) \in Seq(Task)
         /\ [streamOf EXCEPT ![t] = None] \in [Task -> SessionId \cup {None}]
BY WithoutType DEF TypeOK

(* close() and the eviction mark (executor.py:346, session.py:122-132). *)
LEMMA ClosedType ==
  ASSUME NEW x \in Session
  PROVE  Closed(x) \in Session /\ Evicted(x) \in Session
<1>1. [x EXCEPT !.evicted = TRUE] \in Session
  BY DEF Session
<1>2. QED
  BY <1>1, CancelType, ForgottenType DEF Closed, Evicted

-----------------------------------------------------------------------------
(* Every step keeps every variable in its type.                             *)

(* A message or a cancel request arrives (executor.py:140-175, 279-285). *)
LEMMA ArriveTypes ==
  ASSUME TypeOK, NEW c \in Call, Arrive(c)
  PROVE  TypeOK'
<1> USE DEF TypeOK
<1>1. ASSUME NEW t \in Task, StartRun(c, t)
      PROVE  TypeOK'
  <2>1. [Idle EXCEPT !.pc = "open", !.task = t] \in CallState
    BY DEF Idle, CallState, CallFields, WellFormed, Pc, Draining
  <2>2. QED
    BY <1>1, <2>1, CallUpdate DEF StartRun
<1>2. ASSUME NEW t \in Task, FollowUp(c, t)
      PROVE  TypeOK'
  <2>1. live[t] \in SessionId
    BY <1>2 DEF FollowUp
  <2>2. [Idle EXCEPT !.pc = "answer", !.task = t, !.sess = live[t]] \in CallState
    BY <2>1 DEF Idle, CallState, CallFields, WellFormed, Pc, Draining
  <2>3. QED
    BY <1>2, <2>2, CallUpdate DEF FollowUp
<1>3. ASSUME NEW t \in Task, CancelTask(c, t)
      PROVE  TypeOK'
  <2>1. [Idle EXCEPT !.pc = "cancel", !.task = t] \in CallState
    BY DEF Idle, CallState, CallFields, WellFormed, Pc, Draining
  <2>2. \A s \in SessionId :
          [Idle EXCEPT !.pc = "closing", !.task = t, !.sess = s] \in CallState
    BY DEF Idle, CallState, CallFields, WellFormed, Pc, Draining
  <2>3. live[t] \in SessionId \cup {None}
    OBVIOUS
  <2>4. call' \in [Call -> CallState]
    <3>1. CASE live[t] = None \/ Finished(session[live[t]])
      BY <1>3, <2>1, <3>1, CallUpdate DEF CancelTask
    <3>2. CASE ~(live[t] = None \/ Finished(session[live[t]]))
      BY <1>3, <2>2, <2>3, <3>2, CallUpdate DEF CancelTask
    <3>3. QED
      BY <3>1, <3>2
  <2>5. session' \in [SessionId -> Session]
    <3>1. CASE live[t] = None
      BY <1>3, <3>1 DEF CancelTask
    <3>2. CASE live[t] # None
      <4>1. live[t] \in SessionId /\ session[live[t]] \in Session
        BY <2>3, <3>2
      <4>2. session' = [session EXCEPT ![live[t]] = Closed(session[live[t]])]
        BY <1>3, <3>2 DEF CancelTask
      <4>3. QED
        BY <4>1, <4>2, ClosedType, SessionUpdate
    <3>3. QED
      BY <3>1, <3>2
  <2>6. QED
    BY <1>3, <2>4, <2>5, PopTypes DEF CancelTask, PopLive, PopStream
<1>4. QED
  BY <1>1, <1>2, <1>3 DEF Arrive

(* A task state is published. *)
LEMMA PublishType ==
  ASSUME TypeOK, NEW t \in Task, NEW st \in Status, Publish(t, st)
  PROVE  status' \in [Task -> Status]
BY DEF TypeOK, Publish

(* A call returns. *)
LEMMA ReturnType ==
  ASSUME TypeOK, NEW c \in Call, Return(c)
  PROVE  call' \in [Call -> CallState]
BY IdleType DEF TypeOK, Return

(* The admission lock is queued for, released and left (executor.py:161). *)
LEMMA LockTypes ==
  ASSUME TypeOK
  PROVE  /\ \A c \in Call : Append(lock, c) \in Seq(Call)
         /\ lock # << >> => Tail(lock) \in Seq(Call)
         /\ \A c \in Call : Without(lock, c) \in Seq(Call)
<1>1. lock \in Seq(Call)
  BY DEF TypeOK
<1>2. QED
  BY <1>1, WithoutType

(* A call enters _pump() with its session and stream (executor.py:178-202). *)
LEMMA EnterPumpTypes ==
  ASSUME TypeOK, NEW c \in Call, NEW t \in Task, NEW s \in SessionId,
         NEW x \in Session, EnterPump(c, t, s, x)
  PROVE  /\ session' \in [SessionId -> Session]
         /\ streamOf' \in [Task -> SessionId \cup {None}]
         /\ stream' \in [SessionId -> Stream]
         /\ call' \in [Call -> CallState]
<1> USE DEF TypeOK
<1> DEFINE strm == IF streamOf[t] = None THEN s ELSE streamOf[t]
<1>1. strm \in SessionId
  OBVIOUS
<1>2. NewStream \in Stream
  BY DEF NewStream, Stream
<1>3. [pc |-> "get", task |-> t, sess |-> s, strm |-> strm, hand |-> None] \in CallState
  BY <1>1 DEF CallState, CallFields, WellFormed, Pc, Draining
<1> HIDE DEF strm
<1>4. /\ session' = [session EXCEPT ![s] = x]
      /\ streamOf' = [streamOf EXCEPT ![t] = strm]
      /\ stream' = IF streamOf[t] = None
                     THEN [stream EXCEPT ![s] = NewStream] ELSE stream
      /\ call' = [call EXCEPT ![c] = [pc |-> "get", task |-> t, sess |-> s,
                                      strm |-> strm, hand |-> None]]
  BY DEF EnterPump, strm
<1>5. QED
  BY <1>1, <1>2, <1>3, <1>4

(* The steps of execute() up to the pump (executor.py:146-178). *)
LEMMA AdmissionTypes ==
  ASSUME TypeOK, NEW c \in Call,
         OpenTask(c) \/ BeginWork(c) \/ Admit(c) \/ MakeRoom(c)
           \/ FinishEviction(c) \/ Answer(c)
  PROVE  TypeOK'
<1> USE DEF TypeOK
<1>1. CASE OpenTask(c)
  <2>1. call[c].pc = "open" /\ call[c].task \in Task /\ call[c].hand = None
    BY <1>1, CallTypes DEF OpenTask
  <2>2. [call[c] EXCEPT !.pc = "begin"] \in CallState
    BY <2>1, GotoType DEF Pc, Draining
  <2>3. call' = [call EXCEPT ![c] = [call[c] EXCEPT !.pc = "begin"]]
    BY <1>1 DEF OpenTask, Goto
  <2>4. QED
    BY <1>1, <2>1, <2>2, <2>3, PublishType DEF OpenTask, Status
<1>2. CASE BeginWork(c)
  <2>1. call[c].pc = "begin" /\ call[c].task \in Task /\ call[c].hand = None
    BY <1>2, CallTypes DEF BeginWork
  <2>2. [call[c] EXCEPT !.pc = "admit"] \in CallState
    BY <2>1, GotoType DEF Pc, Draining
  <2>3. call' = [call EXCEPT ![c] = [call[c] EXCEPT !.pc = "admit"]]
    BY <1>2 DEF BeginWork, Goto
  <2>4. QED
    BY <1>2, <2>1, <2>2, <2>3, PublishType, LockTypes DEF BeginWork, Status
<1>3. CASE Admit(c)
  <2>1. call[c].task \in Task
    BY <1>3, CallTypes DEF Admit
  <2>2. PICK s \in SessionId : /\ Register(call[c].task, s)
                               /\ EnterPump(c, call[c].task, s, Started)
    BY <1>3 DEF Admit, Unused
  <2>3. /\ live' \in [Task -> SessionId \cup {None}]
        /\ order' \in Seq(Task)
    BY <2>1, <2>2 DEF Register
  <2>4. lock' \in Seq(Call)
    BY <1>3, LockTypes DEF Admit, HoldsLock
  <2>5. status' = status
    BY <1>3 DEF Admit
  <2>6. QED
    BY <2>1, <2>2, <2>3, <2>4, <2>5, BirthTypes, EnterPumpTypes
<1>4. CASE MakeRoom(c)
  <2>1. PICK v \in LiveTasks :
          /\ session' = [session EXCEPT ![live[v]] = Closed(Evicted(@))]
          /\ PopLive(v) /\ PopStream(v)
          /\ IF Finished(session[live[v]])
               THEN call' = call
               ELSE call' = [call EXCEPT ![c].pc = "evict", ![c].sess = live[v]]
    BY <1>4 DEF MakeRoom
  <2>2. v \in Task /\ live[v] \in SessionId /\ session[live[v]] \in Session
    BY DEF LiveTasks
  <2>3. session' \in [SessionId -> Session]
    BY <2>1, <2>2, ClosedType, SessionUpdate
  <2>4. call[c].pc = "admit" /\ call[c].task \in Task /\ call[c].hand = None
    BY <1>4, CallTypes DEF MakeRoom
  <2>5. [call[c] EXCEPT !.pc = "evict", !.sess = live[v]] \in CallState
    BY <2>2, <2>4, EvictType
  <2>6. call' = call
          \/ call' = [call EXCEPT ![c] = [call[c] EXCEPT !.pc = "evict", !.sess = live[v]]]
    BY <2>1
  <2>7. call' \in [Call -> CallState]
    BY <2>5, <2>6
  <2>8. QED
    BY <1>4, <2>1, <2>2, <2>3, <2>7, PopTypes DEF MakeRoom, PopLive, PopStream
<1>5. CASE FinishEviction(c)
  <2>1. /\ call[c].pc = "evict" /\ call[c].task \in Task /\ call[c].hand = None
        /\ call[c].sess \in SessionId
    BY <1>5, CallTypes DEF FinishEviction
  <2>2. [call[c] EXCEPT !.pc = "admit", !.sess = None] \in CallState
    BY <2>1, EvictType
  <2>3. call' = [call EXCEPT ![c] = [call[c] EXCEPT !.pc = "admit", !.sess = None]]
    BY <1>5 DEF FinishEviction
  <2>4. session' \in [SessionId -> Session]
    BY <1>5, <2>1, ForgottenType, SessionUpdate DEF FinishEviction
  <2>5. QED
    BY <1>5, <2>2, <2>3, <2>4 DEF FinishEviction
<1>6. CASE Answer(c)
  <2> DEFINE t == call[c].task
             s == call[c].sess
  <2>1. t \in Task /\ s \in SessionId /\ session[s] \in Session
    BY <1>6, CallTypes DEF Answer
  <2>2. status' \in [Task -> Status]
    BY <1>6, <2>1, PublishType DEF Answer, Status
  <2>3. UNCHANGED <<live, order, lock>>
    BY <1>6 DEF Answer
  <2>4. CASE Answerable(s)
    <3>1. session[s].last \in ReqId
      BY <2>1, <2>4 DEF Answerable, Parked, Session
    <3>2. Resolved(session[s], session[s].last) \in Session
      BY <2>1, <3>1, ConsumerTypes
    <3>3. EnterPump(c, t, s, Resolved(session[s], session[s].last))
      BY <1>6, <2>4 DEF Answer
    <3>4. QED
      BY <2>1, <2>2, <2>3, <3>2, <3>3, EnterPumpTypes
  <2>5. CASE ~Answerable(s)
    BY <1>6, <2>2, <2>3, <2>5, ReturnType DEF Answer
  <2>6. QED
    BY <2>4, <2>5
<1>7. QED
  BY <1>1, <1>2, <1>3, <1>4, <1>5, <1>6

(* The drain takes an item (session.py:103-110). *)
LEMMA TakeTypes ==
  ASSUME TypeOK, NEW c \in Call, CanTake(c)
  PROVE  /\ call[c].sess \in SessionId /\ call[c].strm \in SessionId
         /\ call[c].task \in Task /\ call[c].hand = None
         /\ Incoming(c) \in Item
         /\ Taken(session[call[c].sess]) \in Session
         /\ TakeNext(c) => session' \in [SessionId -> Session]
<1>1. /\ call[c].sess \in SessionId /\ call[c].strm \in SessionId
      /\ call[c].task \in Task /\ call[c].hand = None
  BY CallTypes DEF CanTake, Draining
<1>2. session[call[c].sess] \in Session
  BY <1>1 DEF TypeOK
<1>3. /\ Incoming(c) \in Item
      /\ Taken(session[call[c].sess]) \in Session
  BY <1>2, TakenType DEF CanTake, Incoming
<1>4. TakeNext(c) => session' \in [SessionId -> Session]
  BY <1>1, <1>3, SessionUpdate DEF TakeNext, TypeOK
<1>5. QED
  BY <1>1, <1>3, <1>4

(* _discard() of a session whose runner is over (executor.py:349-352). *)
LEMMA DiscardTypes ==
  ASSUME TypeOK, NEW c \in Call, NEW x \in Session, Discard(c, x),
         call[c].task \in Task, call[c].sess \in SessionId
  PROVE  /\ session' \in [SessionId -> Session]
         /\ live' \in [Task -> SessionId \cup {None}]
         /\ order' \in Seq(Task)
         /\ streamOf' \in [Task -> SessionId \cup {None}]
<1>1. session' \in [SessionId -> Session]
  BY ForgottenType, SessionUpdate DEF Discard, TypeOK
<1>2. QED
  BY <1>1, PopTypes DEF Discard, PopLive, PopStream

(* One field of one stream changes (executor.py:55-63). *)
LEMMA StreamUpdate ==
  ASSUME TypeOK, NEW s \in SessionId, NEW a \in BOOLEAN, NEW b \in BOOLEAN
  PROVE  /\ [stream EXCEPT ![s].pending = a] \in [SessionId -> Stream]
         /\ [stream EXCEPT ![s].sent = a] \in [SessionId -> Stream]
         /\ [stream EXCEPT ![s].sent = a, ![s].pending = b] \in [SessionId -> Stream]
<1>1. stream \in [SessionId -> Stream] /\ stream[s] \in Stream
  BY DEF TypeOK
<1>2. /\ [stream[s] EXCEPT !.pending = a] \in Stream
      /\ [stream[s] EXCEPT !.sent = a] \in Stream
      /\ [stream[s] EXCEPT !.sent = a, !.pending = b] \in Stream
  BY <1>1 DEF Stream
<1>3. QED
  BY <1>1, <1>2

(* The pump takes an item (executor.py:201-273). *)
LEMMA TakingTypes ==
  ASSUME TypeOK, NEW c \in Call,
         TakeQuietly(c) \/ TakeEvent(c) \/ TakeError(c) \/ TakeDone(c)
  PROVE  TypeOK'
<1> USE DEF TypeOK
<1>1. CASE TakeQuietly(c)
  <2>1. CanTake(c) /\ TakeNext(c)
    BY <1>1 DEF TakeQuietly
  <2> DEFINE m == call[c].strm
  <2>2. m \in SessionId
    BY <2>1, TakeTypes
  <2>3. [stream EXCEPT ![m].pending = TRUE] \in [SessionId -> Stream]
    BY <2>2, StreamUpdate
  <2>4. \/ stream' = [stream EXCEPT ![m].pending = TRUE]
        \/ stream' = stream
    BY <1>1 DEF TakeQuietly
  <2>5. QED
    BY <1>1, <2>1, <2>3, <2>4, TakeTypes DEF TakeQuietly
<1>2. CASE TakeEvent(c)
  <2>1. CanTake(c) /\ TakeNext(c)
    BY <1>2 DEF TakeEvent
  <2>2. /\ Incoming(c) \in Item /\ Incoming(c) # None
        /\ call[c] \in CallState /\ call[c].task \in Task
        /\ call[c].sess \in SessionId /\ call[c].strm \in SessionId
    BY <2>1, TakeTypes, SessionAssumption
  <2>3. \A x \in CallState, item \in Item :
          /\ x.task \in Task /\ x.sess \in SessionId /\ x.strm \in SessionId
          /\ item # None
          => [x EXCEPT !.pc = "handle", !.hand = item] \in CallState
    BY DEF CallState, CallFields, WellFormed, Pc, Draining
  <2>4. call' = [call EXCEPT ![c] = [call[c] EXCEPT !.pc = "handle", !.hand = Incoming(c)]]
    BY <1>2 DEF TakeEvent
  <2>5. [call[c] EXCEPT !.pc = "handle", !.hand = Incoming(c)] \in CallState
    BY <2>2, <2>3
  <2>6. QED
    BY <1>2, <2>1, <2>4, <2>5, TakeTypes DEF TakeEvent
<1>3. CASE TakeError(c)
  <2>1. CanTake(c) /\ Discard(c, Taken(session[call[c].sess]))
    BY <1>3 DEF TakeError
  <2>2. call' = [call EXCEPT ![c] = [call[c] EXCEPT !.pc = "fail"]]
    BY <1>3 DEF TakeError, Goto
  <2>3. [call[c] EXCEPT !.pc = "fail"] \in CallState
    BY <2>1, TakeTypes, GotoType DEF Pc, Draining
  <2>4. QED
    BY <1>3, <2>1, <2>2, <2>3, TakeTypes, DiscardTypes DEF TakeError
<1>4. CASE TakeDone(c)
  <2>1. CanTake(c)
    BY <1>4 DEF TakeDone
  <2>2. \A pc \in {"fail", "last", "complete"} : [call[c] EXCEPT !.pc = pc] \in CallState
    BY <2>1, TakeTypes, GotoType DEF Pc, Draining
  <2>3. PICK pc \in {"fail", "last", "complete"} :
          call' = [call EXCEPT ![c] = [call[c] EXCEPT !.pc = pc]]
    BY <1>4 DEF TakeDone, Goto
  <2>4. call' \in [Call -> CallState]
    BY <2>2, <2>3
  <2>5. UNCHANGED <<stream, lock, status>>
    BY <1>4 DEF TakeDone
  <2>6. CASE TakeNext(c) /\ UNCHANGED <<live, order, streamOf>>
    BY <2>1, <2>4, <2>5, <2>6, TakeTypes
  <2>7. CASE Discard(c, Taken(session[call[c].sess]))
    BY <2>1, <2>4, <2>5, <2>7, TakeTypes, DiscardTypes
  <2>8. QED
    BY <1>4, <2>6, <2>7 DEF TakeDone
<1>5. QED
  BY <1>1, <1>2, <1>3, <1>4

(* The pump is back from publishing an event (executor.py:203-225). *)
LEMMA HandlingTypes ==
  ASSUME TypeOK, NEW c \in Call,
         HandleText(c) \/ HandleTool(c) \/ HandleFile(c)
           \/ FlushForRequest(c) \/ HandlePermission(c)
  PROVE  TypeOK'
<1> USE DEF TypeOK
<1>1. call[c].pc = "handle"
  BY DEF HandleText, HandleTool, HandleFile, FlushForRequest, HandlePermission, Publishing
<1>2. /\ call[c].task \in Task /\ call[c].sess \in SessionId
      /\ call[c].strm \in SessionId /\ call[c].hand \in Item
  BY <1>1, CallTypes DEF Draining
<1>3. Resume(c) => call' \in [Call -> CallState]
  <2>1. \A x \in CallState :
          x.task \in Task /\ x.sess \in SessionId /\ x.strm \in SessionId
          => [x EXCEPT !.pc = "get", !.hand = None] \in CallState
    BY DEF CallState, CallFields, WellFormed, Pc, Draining
  <2>2. [call[c] EXCEPT !.pc = "get", !.hand = None] \in CallState
    BY <1>2, <2>1
  <2>3. Resume(c) => call' = [call EXCEPT ![c] = [call[c] EXCEPT !.pc = "get", !.hand = None]]
    BY DEF Resume
  <2>4. QED
    BY <2>2, <2>3
<1>4. CASE HandleText(c)
  BY <1>2, <1>3, <1>4, StreamUpdate DEF HandleText
<1>5. CASE HandleTool(c)
  BY <1>2, <1>3, <1>5, PublishType DEF HandleTool, Status
<1>6. CASE HandleFile(c)
  BY <1>3, <1>6 DEF HandleFile
<1>7. CASE FlushForRequest(c)
  BY <1>2, <1>7, StreamUpdate DEF FlushForRequest
<1>8. CASE HandlePermission(c)
  <2>1. session[call[c].sess] \in Session /\ call[c].hand.id \in ReqId \cup {None}
    BY <1>2 DEF Item
  <2>2. Surfaced(session[call[c].sess], call[c].hand.id) \in Session
    BY <2>1 DEF Surfaced, Session
  <2>3. session' = [session EXCEPT ![call[c].sess] =
                      Surfaced(session[call[c].sess], call[c].hand.id)]
    BY <1>8 DEF HandlePermission
  <2>4. session' \in [SessionId -> Session]
    BY <1>2, <2>2, <2>3, SessionUpdate
  <2>5. QED
    BY <1>2, <1>8, <2>4, PublishType, ReturnType DEF HandlePermission, Status
<1>9. QED
  BY <1>4, <1>5, <1>6, <1>7, <1>8

(* The pump publishes its last events, or is cancelled (executor.py:230-277). *)
LEMMA EndingTypes ==
  ASSUME TypeOK, NEW c \in Call,
         FlushLast(c) \/ Complete(c) \/ Fail(c) \/ FinishClose(c)
           \/ PublishCanceled(c) \/ Leave(c) \/ LeavePump(c)
  PROVE  TypeOK'
<1> USE DEF TypeOK
<1>1. CASE FlushLast(c)
  <2>1. /\ call[c].pc = "last" /\ call[c].task \in Task /\ call[c].hand = None
        /\ call[c].sess \in SessionId /\ call[c].strm \in SessionId
    BY <1>1, CallTypes DEF FlushLast
  <2>2. [call[c] EXCEPT !.pc = "complete"] \in CallState
    BY <2>1, GotoType DEF Pc, Draining
  <2>3. call' = [call EXCEPT ![c] = [call[c] EXCEPT !.pc = "complete"]]
    BY <1>1 DEF FlushLast, Goto
  <2>4. stream' \in [SessionId -> Stream]
    BY <1>1, <2>1, StreamUpdate DEF FlushLast
  <2>5. Discard(c, session[call[c].sess]) /\ session[call[c].sess] \in Session
    BY <1>1, <2>1 DEF FlushLast
  <2>6. QED
    BY <1>1, <2>1, <2>2, <2>3, <2>4, <2>5, DiscardTypes DEF FlushLast
<1>2. CASE Complete(c) \/ Fail(c) \/ PublishCanceled(c)
  <2>1. call[c].task \in Task
    BY <1>2, CallTypes DEF Complete, Fail, PublishCanceled
  <2>2. status' \in [Task -> Status]
    BY <1>2, <2>1, PublishType DEF Complete, Fail, PublishCanceled, Status
  <2>3. QED
    BY <1>2, <2>2, ReturnType DEF Complete, Fail, PublishCanceled
<1>3. CASE FinishClose(c)
  <2>1. /\ call[c].pc = "closing" /\ call[c].task \in Task /\ call[c].hand = None
        /\ call[c].sess \in SessionId
    BY <1>3, CallTypes DEF FinishClose
  <2>2. [call[c] EXCEPT !.pc = "cancel"] \in CallState
    BY <2>1, GotoType DEF Pc, Draining
  <2>3. call' = [call EXCEPT ![c] = [call[c] EXCEPT !.pc = "cancel"]]
    BY <1>3 DEF FinishClose, Goto
  <2>4. session' \in [SessionId -> Session]
    BY <1>3, <2>1, ForgottenType, SessionUpdate DEF FinishClose
  <2>5. QED
    BY <1>3, <2>2, <2>3, <2>4 DEF FinishClose
<1>4. CASE Leave(c)
  BY <1>4, LockTypes, ReturnType DEF Leave
<1>5. CASE LeavePump(c)
  <2>1. call[c].task \in Task /\ call[c].sess \in SessionId
    BY <1>5, CallTypes DEF LeavePump, Draining
  <2>2. session' \in [SessionId -> Session]
    BY <1>5, <2>1, CancelType, SessionUpdate DEF LeavePump
  <2>3. QED
    BY <1>5, <2>1, <2>2, ReturnType, PopTypes DEF LeavePump, PopLive, PopStream
<1>6. QED
  BY <1>1, <1>2, <1>3, <1>4, <1>5

(* The steps of the runners (session.py:56-87). *)
LEMMA RunnerTypes ==
  ASSUME TypeOK, NEW s \in SessionId, Drive(s) \/ Stop(s)
  PROVE  TypeOK'
<1> USE DEF TypeOK
<1>1. session[s] \in Session
  OBVIOUS
<1>2. ASSUME NEW x \in Session, Runs(s, x)
      PROVE  TypeOK'
  BY <1>2, SessionUpdate DEF Runs
<1>3. {"returned", "raised", "cancelled"} \subseteq Over
  BY DEF Over, Spoke
<1>4. CASE Drive(s)
  BY <1>1, <1>2, <1>3, <1>4, BeganType, ReportedType, EndedType, EmittedType, AskedType
  DEF Drive, BeginDriver, Report, EndDriver, RaiseDriver, Emit, Ask
<1>5. CASE Stop(s)
  BY <1>1, <1>2, <1>3, <1>5, EndedType, CancelType DEF Stop, DropUnstarted, Unwind
<1>6. QED
  BY <1>4, <1>5

(* Every step keeps the types. *)
LEMMA TypeStep == TypeOK /\ [Next]_vars => TypeOK'
<1> SUFFICES ASSUME TypeOK, [Next]_vars
             PROVE  TypeOK'
  OBVIOUS
<1>1. ASSUME NEW c \in Call, Arrive(c) \/ Advance(c) \/ Leave(c) \/ LeavePump(c)
      PROVE  TypeOK'
  BY <1>1, ArriveTypes, AdmissionTypes, TakingTypes, HandlingTypes, EndingTypes
  DEF Advance, Pump
<1>2. ASSUME NEW s \in SessionId, Drive(s) \/ Stop(s)
      PROVE  TypeOK'
  BY <1>2, RunnerTypes
<1>3. CASE UNCHANGED vars
  BY <1>3 DEF vars, TypeOK
<1>4. QED
  BY <1>1, <1>2, <1>3 DEF Next

(* The registry, the streams, the sessions and the calls of executor.py     *)
(* keep their types, and a call has what its await needs.                   *)
THEOREM TypeCorrect == Spec => []TypeOK
<1>1. Init => TypeOK
  BY BirthTypes, IdleType DEF Init, TypeOK, NewStream, Stream, Status
<1>2. QED
  BY <1>1, TypeStep, PTL DEF Spec

-----------------------------------------------------------------------------
(* Capacity.  The registry grows only in Admit, below the bound; the steps  *)
(* between the eviction and the registration only shrink it.                *)

Shrinks == \A t \in Task : live'[t] \in {live[t], None}

(* The registry grows by an admission only (executor.py:161-165). *)
LEMMA OnlyAdmitGrows ==
  ASSUME TypeOK, [Next]_vars, \A c \in Call : ~Admit(c)
  PROVE  Shrinks
<1> USE DEF TypeOK
<1>1. \A t \in Task : PopLive(t) => Shrinks
  BY DEF PopLive, Shrinks
<1>2. live' = live => Shrinks
  BY DEF Shrinks
<1>3. ASSUME NEW c \in Call, Arrive(c)
      PROVE  Shrinks
  BY <1>1, <1>2, <1>3 DEF Arrive, StartRun, FollowUp, CancelTask
<1>4. ASSUME NEW c \in Call, Advance(c) \/ Leave(c) \/ LeavePump(c)
      PROVE  Shrinks
  <2>1. call[c].pc # "idle" => call[c].task \in Task
    BY CallTypes
  <2>2. CASE MakeRoom(c)
    BY <1>1, <2>2 DEF MakeRoom, LiveTasks
  <2>3. CASE TakeError(c) \/ TakeDone(c) \/ FlushLast(c) \/ LeavePump(c)
    <3>1. call[c].task \in Task
      BY <2>1, <2>3 DEF TakeError, TakeDone, FlushLast, LeavePump, CanTake, Draining
    <3>2. QED
      BY <1>1, <1>2, <2>3, <3>1 DEF TakeError, TakeDone, FlushLast, LeavePump, Discard
  <2>4. CASE ~(MakeRoom(c) \/ TakeError(c) \/ TakeDone(c) \/ FlushLast(c) \/ LeavePump(c))
    BY <1>2, <1>4, <2>4
    DEF Advance, Pump, OpenTask, BeginWork, FinishEviction, Answer, TakeQuietly,
        TakeEvent, HandleText, HandleTool, HandleFile, FlushForRequest,
        HandlePermission, Complete, Fail, FinishClose, PublishCanceled, Leave
  <2>5. QED
    BY <2>2, <2>3, <2>4
<1>5. ASSUME NEW s \in SessionId, Drive(s) \/ Stop(s)
      PROVE  Shrinks
  BY <1>2, <1>5
  DEF Drive, Stop, BeginDriver, Emit, Report, Ask, EndDriver, RaiseDriver,
      DropUnstarted, Unwind, Runs
<1>6. CASE UNCHANGED vars
  BY <1>2, <1>6 DEF vars
<1>7. QED
  BY <1>3, <1>4, <1>5, <1>6 DEF Next

(* Every step keeps the registry within its capacity (executor.py:338-347). *)
LEMMA CapacityStep ==
  ASSUME TypeOK, BoundedRegistry, [Next]_vars
  PROVE  BoundedRegistry'
<1>1. IsFiniteSet(LiveTasks) /\ Cardinality(LiveTasks) \in Nat
  BY ExecutorAssumption, FS_Subset, FS_CardinalityType DEF LiveTasks
<1>2. CASE \A c \in Call : ~Admit(c)
  <2>1. LiveTasks' \subseteq LiveTasks
    BY <1>2, OnlyAdmitGrows DEF Shrinks, LiveTasks
  <2>2. Cardinality(LiveTasks') <= Cardinality(LiveTasks) /\ Cardinality(LiveTasks') \in Nat
    BY <1>1, <2>1, FS_Subset, FS_CardinalityType
  <2>3. QED
    BY <1>1, <2>2, ExecutorAssumption DEF BoundedRegistry
<1>3. ASSUME NEW c \in Call, Admit(c)
      PROVE  BoundedRegistry'
  <2>1. PICK s \in SessionId : Register(call[c].task, s)
    BY <1>3 DEF Admit, Unused
  <2> DEFINE t == call[c].task
  <2>2. LiveTasks' \subseteq LiveTasks \cup {t}
    BY <2>1 DEF Register, LiveTasks, TypeOK
  <2>3. /\ IsFiniteSet(LiveTasks \cup {t})
        /\ Cardinality(LiveTasks \cup {t}) <= Cardinality(LiveTasks) + 1
        /\ Cardinality(LiveTasks \cup {t}) \in Nat
    <3> DEFINE L == LiveTasks
    <3>1. IsFiniteSet(L) /\ Cardinality(L) \in Nat
      BY <1>1
    <3> HIDE DEF L
    <3>2. /\ IsFiniteSet(L \cup {t})
          /\ Cardinality(L \cup {t}) = IF t \in L THEN Cardinality(L) ELSE Cardinality(L) + 1
      BY <3>1, FS_AddElement
    <3>3. Cardinality(L \cup {t}) \in {Cardinality(L), Cardinality(L) + 1}
      BY <3>2
    <3>4. QED
      BY <3>1, <3>2, <3>3 DEF L
  <2>4. Cardinality(LiveTasks') <= Cardinality(LiveTasks) + 1 /\ Cardinality(LiveTasks') \in Nat
    BY <1>1, <2>2, <2>3, FS_Subset, FS_CardinalityType
  <2> HIDE DEF t
  <2>5. ~(Cardinality(LiveTasks) >= MaxLive)
    BY <1>3 DEF Admit, Full
  <2>6. QED
    BY <1>1, <2>4, <2>5, ExecutorAssumption DEF BoundedRegistry
<1>4. QED
  BY <1>2, <1>3

(* However many first messages arrive together, whoever cancels, disconnects*)
(* or overlaps, _live never holds more than _MAX_LIVE entries               *)
(* (executor.py:121-125, 328-347).                                          *)
THEOREM CapacityIsKept == Spec => []BoundedRegistry
<1>1. Init => BoundedRegistry
  <2>1. Init => LiveTasks = {}
    BY DEF Init, LiveTasks
  <2>2. QED
    BY <2>1, FS_EmptySet, ExecutorAssumption DEF BoundedRegistry
<1>2. TypeOK /\ BoundedRegistry /\ [Next]_vars => BoundedRegistry'
  BY CapacityStep
<1>3. QED
  BY <1>1, <1>2, TypeCorrect, PTL DEF Spec

-----------------------------------------------------------------------------
(* One consumer.  By itself SingleConsumer is not inductive: a second drain *)
(* is started for a session that is parked or was never started, so a       *)
(* session that is drained must be neither.                                 *)

ConsumerInvariant ==
  /\ SingleConsumer
  /\ \A s \in SessionId : Drained(s) => /\ ~Parked(session[s])
                                        /\ session[s].runner # "none"
  /\ \A s \in SessionId : Parked(session[s]) => session[s].runner # "none"

(* What no step but Answer, Admit and HandlePermission can undo.            *)
Gentle(x, y) == /\ x.last \notin x.pending => y.last \notin y.pending
                /\ x.runner # "none" => y.runner # "none"

(* A step that starts no drain and parks no session keeps the invariant. *)
LEMMA GentleConsumer ==
  ASSUME NEW x \in Session
  PROVE  /\ Gentle(x, x)
         /\ Gentle(x, Taken(x))
         /\ Gentle(x, Forgotten(x))
         /\ Gentle(x, Forgotten(Taken(x)))
         /\ Gentle(x, CancelRunner(x))
         /\ Gentle(x, Closed(x))
         /\ Gentle(x, Closed(Evicted(x)))
<1>1. /\ Taken(x).last = x.last /\ Taken(x).pending = x.pending
      /\ Taken(x).runner = x.runner
      /\ Forgotten(Taken(x)).pending = {} /\ Forgotten(Taken(x)).runner = x.runner
  BY DEF Taken, Forgotten, Session
<1>2. Forgotten(x).pending = {} /\ Forgotten(x).runner = x.runner
  BY DEF Forgotten, Session
<1>3. /\ CancelRunner(x).last = x.last /\ CancelRunner(x).pending = x.pending
      /\ x.runner # "none" => CancelRunner(x).runner # "none"
  BY DEF CancelRunner, Session
<1>4. Gentle(x, Closed(x))
  BY <1>2, <1>3 DEF Closed, Gentle
<1>5. Gentle(x, Closed(Evicted(x)))
  <2> DEFINE y == Evicted(x)
  <2>1. y \in Session /\ y.last = x.last /\ y.pending = x.pending /\ y.runner = x.runner
    BY DEF Evicted, Session
  <2> HIDE DEF y
  <2>2. /\ Forgotten(y).pending = {} /\ Forgotten(y).runner = y.runner
        /\ CancelRunner(y).last = y.last /\ CancelRunner(y).pending = y.pending
        /\ y.runner # "none" => CancelRunner(y).runner # "none"
    BY <2>1 DEF Forgotten, CancelRunner, Session
  <2>3. Gentle(x, Closed(y))
    BY <2>1, <2>2 DEF Closed, Gentle
  <2>4. QED
    BY <2>3 DEF y
<1>6. QED
  BY <1>1, <1>2, <1>3, <1>4, <1>5 DEF Gentle

(* The steps of the runners are of that kind (session.py:56-87). *)
LEMMA GentleRunner ==
  ASSUME NEW x \in Session
  PROVE  /\ Gentle(x, Began(x))
         /\ \A k \in EventKinds : Gentle(x, Emitted(x, k))
         /\ Gentle(x, Reported(x))
         /\ \A r \in ReqId : CanAsk(x, r) => Gentle(x, Asked(x, r))
         /\ \A how \in Over : Gentle(x, Ended(x, how))
         /\ Gentle(x, Stillborn(x))
<1>1. Gentle(x, Began(x)) /\ Gentle(x, Stillborn(x))
  BY DEF Gentle, Began, Stillborn, Session
<1>2. ASSUME NEW k \in EventKinds
      PROVE  Gentle(x, Emitted(x, k))
  <2>1. Event(k) \in Item
    BY ItemTypes, SessionAssumption DEF Kinds
  <2>2. QED
    BY <2>1, PutFields DEF Gentle, Emitted
<1>3. Gentle(x, Reported(x))
  <2> DEFINE y == Put(x, Event("result"))
  <2>1. Event("result") \in Item
    BY ItemTypes DEF Kinds
  <2>2. y \in Session /\ y.last = x.last /\ y.pending = x.pending
    BY <2>1, PutType, PutFields
  <2>3. Reported(x) = [y EXCEPT !.runner = "reported"]
    BY DEF Reported
  <2> HIDE DEF y
  <2>4. QED
    BY <2>2, <2>3 DEF Gentle, Session
<1>4. ASSUME NEW r \in ReqId, CanAsk(x, r)
      PROVE  Gentle(x, Asked(x, r))
  <2> DEFINE y == Put(x, Request(r))
  <2>1. Request(r) \in Item
    BY ItemTypes
  <2>2. y \in Session /\ y.last = x.last /\ y.pending = x.pending /\ y.runner = x.runner
    BY <2>1, PutType, PutFields
  <2>3. Asked(x, r) = [y EXCEPT !.pending = @ \cup {r}]
    BY DEF Asked
  <2>4. r # x.last
    BY <1>4 DEF CanAsk, Fresh
  <2> HIDE DEF y
  <2>5. QED
    BY <2>2, <2>3, <2>4 DEF Gentle, Session
<1>5. ASSUME NEW how \in Over
      PROVE  Gentle(x, Ended(x, how))
  <2>1. how # "none"
    BY DEF Over, Spoke
  <2>2. QED
    BY <2>1, EndedEffect DEF Gentle
<1>6. QED
  BY <1>1, <1>2, <1>3, <1>4, <1>5

(* A step keeps the invariant if no call begins to drain and every session  *)
(* changes gently.                                                          *)
LEMMA GentleStep ==
  ASSUME ConsumerInvariant,
         \A c \in Call : \A s \in SessionId : Pumps(c, s)' => Pumps(c, s),
         \A s \in SessionId : Gentle(session[s], session'[s])
  PROVE  ConsumerInvariant'
BY DEF ConsumerInvariant, SingleConsumer, Drained, Gentle, Parked

(* A step that changes one session and moves one call.                      *)
LEMMA OneCallMoves ==
  ASSUME TypeOK, ConsumerInvariant, NEW c \in Call,
         \A d \in Call \ {c} : call'[d] = call[d],
         \/ call'[c] = call[c]
         \/ call'[c].pc \notin Draining
         \/ call[c].pc \in Draining /\ call'[c].sess = call[c].sess,
         \/ session' = session
         \/ \E s \in SessionId : \E y : /\ session' = [session EXCEPT ![s] = y]
                                        /\ Gentle(session[s], y)
  PROVE  ConsumerInvariant'
<1>1. \A d \in Call : \A s \in SessionId : Pumps(d, s)' => Pumps(d, s)
  BY DEF Pumps
<1>2. \A s \in SessionId : Gentle(session[s], session'[s])
  BY DEF TypeOK, Gentle
<1>3. QED
  BY <1>1, <1>2, GentleStep

(* The three steps that begin or end a drain by what they do to a session.  *)
LEMMA EnterPumpStep ==
  ASSUME TypeOK, ConsumerInvariant, NEW c \in Call, NEW t \in Task,
         NEW s \in SessionId, NEW x \in Session, EnterPump(c, t, s, x),
         ~Drained(s), call[c].pc \notin Draining,
         ~Parked(x), x.runner # "none"
  PROVE  ConsumerInvariant'
<1>1. /\ session' = [session EXCEPT ![s] = x]
      /\ session \in [SessionId -> Session]
  BY DEF EnterPump, TypeOK
<1>2. /\ \A d \in Call \ {c} : call'[d] = call[d]
      /\ call'[c].pc = "get" /\ call'[c].sess = s
  BY DEF EnterPump, TypeOK
<1>3. \A d \in Call \ {c} : \A u \in SessionId : Pumps(d, u)' <=> Pumps(d, u)
  BY <1>2 DEF Pumps
<1>4. \A u \in SessionId : Pumps(c, u)' <=> u = s
  BY <1>2 DEF Pumps, Draining
<1>5. SingleConsumer'
  BY <1>3, <1>4 DEF SingleConsumer, ConsumerInvariant, Drained
<1>6. session'[s] = x /\ \A u \in SessionId \ {s} : session'[u] = session[u]
  BY <1>1
<1>7. \A u \in SessionId \ {s} : Drained(u)' => Drained(u)
  BY <1>3, <1>4 DEF Drained
<1>8. \A u \in SessionId : Drained(u)' => ~Parked(session'[u]) /\ session'[u].runner # "none"
  BY <1>6, <1>7 DEF ConsumerInvariant
<1>9. \A u \in SessionId : Parked(session'[u]) => session'[u].runner # "none"
  BY <1>6 DEF ConsumerInvariant
<1>10. QED
  BY <1>5, <1>8, <1>9 DEF ConsumerInvariant

(* An admitted call drains a session nobody knew (executor.py:163-165, 178). *)
LEMMA AdmitConsumer ==
  ASSUME TypeOK, ConsumerInvariant, NEW c \in Call, Admit(c)
  PROVE  ConsumerInvariant'
<1>1. PICK s \in Unused : EnterPump(c, call[c].task, s, Started)
  BY DEF Admit
<1>2. s \in SessionId /\ ~Drained(s)
  BY DEF Unused, ConsumerInvariant
<1>3. call[c].pc \notin Draining /\ call[c].task \in Task
  BY CallTypes DEF Admit, Draining
<1>4. ~Parked(Started) /\ Started.runner # "none"
  BY DEF Started, Unborn, Parked
<1>5. QED
  BY <1>1, <1>2, <1>3, <1>4, BirthTypes, EnterPumpStep

(* An answered session had no consumer (executor.py:171-178). *)
LEMMA AnswerConsumer ==
  ASSUME TypeOK, ConsumerInvariant, NEW c \in Call, Answer(c)
  PROVE  ConsumerInvariant'
<1> DEFINE s == call[c].sess
<1>1. /\ s \in SessionId /\ session[s] \in Session
      /\ call[c].task \in Task /\ call[c].pc \notin Draining
  BY CallTypes DEF Answer, TypeOK, Draining
<1>2. CASE Answerable(s)
  <2> DEFINE x == Resolved(session[s], session[s].last)
  <2>1. session[s].last \in ReqId /\ session[s].runner # "none" /\ ~Drained(s)
    BY <1>1, <1>2 DEF Answerable, Parked, Session, ConsumerInvariant
  <2>2. x \in Session
    BY <1>1, <2>1, ConsumerTypes
  <2>3. ~Parked(x) /\ x.runner # "none"
    BY <1>1, <2>1 DEF Resolved, Parked, Session
  <2>4. EnterPump(c, call[c].task, s, x)
    BY <1>2 DEF Answer
  <2> HIDE DEF x
  <2>5. QED
    BY <1>1, <2>1, <2>2, <2>3, <2>4, EnterPumpStep
<1>3. CASE ~Answerable(s)
  <2>1. Return(c) /\ session' = session
    BY <1>3 DEF Answer
  <2>2. call'[c].pc \notin Draining /\ \A d \in Call \ {c} : call'[d] = call[d]
    BY <2>1 DEF Return, Idle, Draining, TypeOK
  <2>3. QED
    BY <2>1, <2>2, OneCallMoves
<1>4. QED
  BY <1>2, <1>3

(* A pump that parks its session leaves it (session.py:111-114, executor.py:247-249). *)
LEMMA PermissionConsumer ==
  ASSUME TypeOK, ConsumerInvariant, NEW c \in Call, HandlePermission(c)
  PROVE  ConsumerInvariant'
<1>0. PICK s \in SessionId : s = call[c].sess
  BY CallTypes DEF HandlePermission, Publishing, Draining
<1>1. call[c].pc = "handle" /\ s \in SessionId /\ session[s] \in Session
  BY DEF HandlePermission, Publishing, TypeOK
<1>2. Pumps(c, s)
  BY <1>0, <1>1 DEF Pumps, Draining
<1>3. session' = [session EXCEPT ![s] = Surfaced(session[s], call[c].hand.id)]
  BY <1>0 DEF HandlePermission
<1>4. /\ call'[c].pc \notin Draining
      /\ \A d \in Call \ {c} : call'[d] = call[d]
  BY DEF HandlePermission, Return, Idle, Draining, TypeOK
<1>5. \A d \in Call : \A u \in SessionId : Pumps(d, u)' => Pumps(d, u) /\ d # c
  BY <1>4 DEF Pumps
<1>6. ~Drained(s)'
  BY <1>1, <1>2, <1>5 DEF Drained, ConsumerInvariant, SingleConsumer
<1>7. session'[s].runner = session[s].runner
  BY <1>1, <1>3 DEF Surfaced, Session, TypeOK
<1>8. \A u \in SessionId \ {s} : session'[u] = session[u]
  BY <1>3 DEF TypeOK
<1>9. session[s].runner # "none"
  BY <1>1, <1>2 DEF ConsumerInvariant, Drained
<1>10. \A u \in SessionId : Drained(u)' => Drained(u) /\ u # s
  BY <1>5, <1>6 DEF Drained
<1>11. SingleConsumer'
  BY <1>5 DEF ConsumerInvariant, SingleConsumer
<1>12. \A u \in SessionId : Drained(u)' => ~Parked(session'[u]) /\ session'[u].runner # "none"
  BY <1>8, <1>10 DEF ConsumerInvariant
<1>13. \A u \in SessionId : Parked(session'[u]) => session'[u].runner # "none"
  BY <1>7, <1>8, <1>9 DEF ConsumerInvariant
<1>14. QED
  BY <1>11, <1>12, <1>13 DEF ConsumerInvariant

(* Every other step moves one call, out of a drain or within it, and        *)
(* changes at most one session, gently.                                     *)
LEMMA TakingConsumer ==
  ASSUME TypeOK, ConsumerInvariant, NEW c \in Call,
         TakeQuietly(c) \/ TakeEvent(c) \/ TakeError(c) \/ TakeDone(c)
  PROVE  ConsumerInvariant'
<1> DEFINE s == call[c].sess
<1>1. CanTake(c)
  BY DEF TakeQuietly, TakeEvent, TakeError, TakeDone
<1>2. call[c].pc \in Draining /\ s \in SessionId /\ session[s] \in Session
  BY <1>1, CallTypes DEF CanTake, Draining, TypeOK
<1>3. \A d \in Call \ {c} : call'[d] = call[d]
  BY DEF TakeQuietly, TakeEvent, TakeError, TakeDone, Goto, TypeOK
<1>4. call'[c].pc \notin Draining \/ call'[c].sess = s
  <2>1. CASE TakeEvent(c)
    BY <2>1 DEF TakeEvent, TypeOK, CallState, CallFields
  <2>2. CASE TakeQuietly(c)
    BY <2>2 DEF TakeQuietly
  <2>3. CASE TakeError(c) \/ TakeDone(c)
    BY <2>3 DEF TakeError, TakeDone, Goto, TypeOK, Draining, CallState, CallFields
  <2>4. QED
    BY <2>1, <2>2, <2>3
<1>5. PICK y \in {Taken(session[s]), Forgotten(Taken(session[s]))} :
        session' = [session EXCEPT ![s] = y]
  BY DEF TakeQuietly, TakeEvent, TakeError, TakeDone, TakeNext, Discard
<1>6. Gentle(session[s], y)
  BY <1>2, GentleConsumer
<1>7. QED
  BY <1>2, <1>3, <1>4, <1>5, <1>6, OneCallMoves

(* The steps of the calls that are of the gentle kind (executor.py:140-287). *)
LEMMA CallingConsumer ==
  ASSUME TypeOK, ConsumerInvariant, NEW c \in Call,
         Arrive(c) \/ OpenTask(c) \/ BeginWork(c) \/ MakeRoom(c)
           \/ FinishEviction(c) \/ FlushLast(c) \/ Complete(c) \/ Fail(c)
           \/ FinishClose(c) \/ PublishCanceled(c) \/ Leave(c) \/ LeavePump(c)
  PROVE  ConsumerInvariant'
<1> USE DEF Idle, Draining, Goto, Return
<1>1. /\ \A d \in Call \ {c} : call'[d] = call[d]
      /\ call'[c] = call[c] \/ call'[c].pc \notin Draining
  <2>1. call \in [Call -> CallState] /\ call[c] \in CallFields
    BY DEF TypeOK, CallState
  <2>2. CASE Arrive(c)
    <3>1. PICK t \in Task : StartRun(c, t) \/ FollowUp(c, t) \/ CancelTask(c, t)
      BY <2>2 DEF Arrive
    <3>2. CASE StartRun(c, t)
      BY <2>1, <3>2 DEF StartRun
    <3>3. CASE FollowUp(c, t)
      BY <2>1, <3>3 DEF FollowUp
    <3>4. CASE CancelTask(c, t)
      BY <2>1, <3>4 DEF CancelTask
    <3>5. QED
      BY <3>1, <3>2, <3>3, <3>4
  <2>3. CASE MakeRoom(c) \/ FinishEviction(c)
    BY <2>1, <2>3 DEF MakeRoom, FinishEviction, CallFields
  <2>4. CASE ~(Arrive(c) \/ MakeRoom(c) \/ FinishEviction(c))
    BY <2>1, <2>4
    DEF OpenTask, BeginWork, FlushLast, Complete, Fail, FinishClose,
        PublishCanceled, Leave, LeavePump, CallFields
  <2>5. QED
    BY <2>2, <2>3, <2>4
<1>2. \/ session' = session
      \/ \E s \in SessionId : \E y : /\ session' = [session EXCEPT ![s] = y]
                                     /\ Gentle(session[s], y)
  <2>1. \A s \in SessionId : session[s] \in Session
    BY DEF TypeOK
  <2>2. CASE Arrive(c)
    <3>1. PICK t \in Task : StartRun(c, t) \/ FollowUp(c, t) \/ CancelTask(c, t)
      BY <2>2 DEF Arrive
    <3>2. live[t] = None \/ live[t] \in SessionId
      BY DEF TypeOK
    <3>3. CASE StartRun(c, t) \/ FollowUp(c, t)
      BY <3>3 DEF StartRun, FollowUp
    <3>4. CASE CancelTask(c, t)
      <4>1. session' = IF live[t] = None THEN session
                         ELSE [session EXCEPT ![live[t]] = Closed(session[live[t]])]
        BY <3>4 DEF CancelTask
      <4>2. CASE live[t] = None
        BY <4>1, <4>2
      <4>3. CASE live[t] # None
        BY <2>1, <3>2, <4>1, <4>3, GentleConsumer
      <4>4. QED
        BY <4>2, <4>3
    <3>5. QED
      BY <3>1, <3>3, <3>4
  <2>3. CASE MakeRoom(c)
    <3>1. PICK v \in LiveTasks :
            session' = [session EXCEPT ![live[v]] = Closed(Evicted(session[live[v]]))]
      BY <2>3 DEF MakeRoom
    <3>2. live[v] \in SessionId
      BY DEF LiveTasks, TypeOK
    <3>3. QED
      BY <2>1, <3>1, <3>2, GentleConsumer
  <2>4. CASE FinishEviction(c) \/ FlushLast(c) \/ FinishClose(c)
    <3>1. call[c].sess \in SessionId
      BY <2>4, CallTypes DEF FinishEviction, FlushLast, FinishClose
    <3>2. session' = [session EXCEPT ![call[c].sess] = Forgotten(session[call[c].sess])]
      BY <2>4 DEF FinishEviction, FlushLast, FinishClose, Discard
    <3>3. QED
      BY <2>1, <3>1, <3>2, GentleConsumer
  <2>5. CASE LeavePump(c)
    <3>1. call[c].sess \in SessionId
      BY <2>5, CallTypes DEF LeavePump
    <3>2. session' = [session EXCEPT ![call[c].sess] = CancelRunner(session[call[c].sess])]
      BY <2>5 DEF LeavePump
    <3>3. QED
      BY <2>1, <3>1, <3>2, GentleConsumer
  <2>6. CASE OpenTask(c) \/ BeginWork(c) \/ Complete(c) \/ Fail(c)
               \/ PublishCanceled(c) \/ Leave(c)
    BY <2>6 DEF OpenTask, BeginWork, Complete, Fail, PublishCanceled, Leave
  <2>7. QED
    BY <2>2, <2>3, <2>4, <2>5, <2>6
<1>3. QED
  BY <1>1, <1>2, OneCallMoves

(* A pump that goes on draining was draining (executor.py:202-219). *)
LEMMA ResumingConsumer ==
  ASSUME TypeOK, ConsumerInvariant, NEW c \in Call,
         HandleText(c) \/ HandleTool(c) \/ HandleFile(c) \/ FlushForRequest(c)
  PROVE  ConsumerInvariant'
<1>1. call[c].pc \in Draining /\ session' = session
  BY DEF HandleText, HandleTool, HandleFile, FlushForRequest, Publishing, Draining
<1>2. /\ \A d \in Call \ {c} : call'[d] = call[d]
      /\ call'[c].sess = call[c].sess
  BY DEF HandleText, HandleTool, HandleFile, FlushForRequest, Resume, TypeOK,
         CallState, CallFields
<1>3. QED
  BY <1>1, <1>2, OneCallMoves

(* The steps of the runners keep the consumer invariant. *)
LEMMA RunnerConsumer ==
  ASSUME TypeOK, ConsumerInvariant, NEW s \in SessionId, Drive(s) \/ Stop(s)
  PROVE  ConsumerInvariant'
<1>1. session[s] \in Session /\ {"returned", "raised", "cancelled"} \subseteq Over
  BY DEF TypeOK, Over, Spoke
<1>2. ASSUME NEW y, Runs(s, y), Gentle(session[s], y)
      PROVE  ConsumerInvariant'
  <2>1. session' = [session EXCEPT ![s] = y] /\ call' = call
    BY <1>2 DEF Runs
  <2>2. \A c \in Call : \A u \in SessionId : Pumps(c, u)' => Pumps(c, u)
    BY <2>1 DEF Pumps
  <2>3. \A u \in SessionId : Gentle(session[u], session'[u])
    BY <1>2, <2>1 DEF Gentle, TypeOK
  <2>4. QED
    BY <2>2, <2>3, GentleStep
<1>3. QED
  BY <1>1, <1>2, GentleRunner
  DEF Drive, Stop, BeginDriver, Report, EndDriver, RaiseDriver, Emit, Ask,
      DropUnstarted, Unwind

(* Every step keeps the consumer invariant. *)
LEMMA ConsumerStep ==
  ASSUME TypeOK, ConsumerInvariant, [Next]_vars
  PROVE  ConsumerInvariant'
<1>1. ASSUME NEW c \in Call, Arrive(c) \/ Advance(c) \/ Leave(c) \/ LeavePump(c)
      PROVE  ConsumerInvariant'
  BY <1>1, AdmitConsumer, AnswerConsumer, PermissionConsumer, TakingConsumer,
     CallingConsumer, ResumingConsumer
  DEF Advance, Pump
<1>2. ASSUME NEW s \in SessionId, Drive(s) \/ Stop(s)
      PROVE  ConsumerInvariant'
  BY <1>2, RunnerConsumer
<1>3. CASE UNCHANGED vars
  BY <1>3 DEF vars, ConsumerInvariant, SingleConsumer, Drained, Pumps
<1>4. QED
  BY <1>1, <1>2, <1>3 DEF Next

(* Two calls never drain the same session, whatever overlaps, cancels or    *)
(* disconnects: the guard of executor.py:168-176 and the fail-fast resolve()*)
(* of session.py:89-95 together are enough.                                 *)
THEOREM OneConsumer == Spec => []SingleConsumer
<1>1. Init => ConsumerInvariant
  BY DEF Init, ConsumerInvariant, SingleConsumer, Drained, Pumps, Idle, Draining,
         Parked, Unborn
<1>2. TypeOK /\ ConsumerInvariant /\ [Next]_vars => ConsumerInvariant'
  BY ConsumerStep
<1>3. ConsumerInvariant => SingleConsumer
  BY DEF ConsumerInvariant
<1>4. QED
  BY <1>1, <1>2, <1>3, TypeCorrect, PTL DEF Spec
=============================================================================
