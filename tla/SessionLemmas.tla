---------------------------- MODULE SessionLemmas ----------------------------
(* What the operators of SessionOps preserve, for every value of the        *)
(* constants.                                                                *)
EXTENDS SessionOps, TLAPS

(* Each attribute of a session can be assigned on its own                    *)
(* (session.py:38-47).                                                       *)
LEMMA QueueUpdate ==
  ASSUME NEW x \in Session, NEW q \in Seq(Item)
  PROVE  [x EXCEPT !.queue = q] \in Session
BY DEF Session

(* Changing only the state of the runner task stays in Session. *)
LEMMA RunnerUpdate ==
  ASSUME NEW x \in Session, NEW how \in Runner
  PROVE  [x EXCEPT !.runner = how] \in Session
BY DEF Session

(* Queueing an item keeps a session a session (session.py:73-87).            *)
LEMMA PutType ==
  ASSUME NEW x \in Session, NEW item \in Item
  PROVE  Put(x, item) \in Session
<1>1. Append(x.queue, item) \in Seq(Item)
  BY DEF Session
<1>2. QED
  BY <1>1, QueueUpdate DEF Put

(* What a backend queues is a queue item (base.py:23-76, session.py:29). *)
LEMMA ItemTypes ==
  /\ \A k \in Kinds : Event(k) \in Item
  /\ \A r \in ReqId : Request(r) \in Item
BY DEF Event, Request, Item, Kinds

(* A new session and a started one are sessions (session.py:38-71). *)
LEMMA BirthTypes == Unborn \in Session /\ Started \in Session
<1>1. << >> \in Seq(Item)
  OBVIOUS
<1>2. Unborn \in Session
  BY <1>1 DEF Unborn, Session, Runner
<1>3. QED
  BY <1>2, RunnerUpdate DEF Started, Runner

(* The runner's first step (session.py:57-59). *)
LEMMA BeganType ==
  ASSUME NEW x \in Session
  PROVE  Began(x) \in Session
BY DEF Began, Session, Runner

(* emit() of a progress event (session.py:73-74). *)
LEMMA EmittedType ==
  ASSUME NEW x \in Session, NEW k \in EventKinds
  PROVE  Emitted(x, k) \in Session
BY PutType, ItemTypes, SessionAssumption DEF Emitted, Kinds

(* emit() of the Result (session.py:73-74). *)
LEMMA ReportedType ==
  ASSUME NEW x \in Session
  PROVE  Reported(x) \in Session
BY PutType, ItemTypes, RunnerUpdate DEF Reported, Kinds, Runner

(* request_permission() up to its await (session.py:76-87). *)
LEMMA AskedType ==
  ASSUME NEW x \in Session, NEW r \in ReqId
  PROVE  Asked(x, r) \in Session
<1>1. Put(x, Request(r)) \in Session
  BY PutType, ItemTypes
<1>2. \A y \in Session : [y EXCEPT !.pending = @ \cup {r}] \in Session
  BY DEF Session
<1>3. QED
  BY <1>1, <1>2 DEF Asked

(* The end of the runner, with its sentinel (session.py:57-67). *)
LEMMA EndedType ==
  ASSUME NEW x \in Session, NEW how \in Over
  PROVE  Ended(x, how) \in Session
<1>1. Event("error") \in Item /\ Event("done") \in Item
  BY ItemTypes DEF Kinds
<1>2. how \in Runner
  BY DEF Runner
<1>3. /\ Put(x, Event("done")) \in Session
      /\ Put(Put(x, Event("error")), Event("done")) \in Session
  BY <1>1, PutType
<1>4. QED
  BY <1>2, <1>3, RunnerUpdate DEF Ended

(* Task.cancel() and a runner that never began (session.py:116-120). *)
LEMMA CancelType ==
  ASSUME NEW x \in Session
  PROVE  CancelRunner(x) \in Session /\ Stillborn(x) \in Session
BY DEF CancelRunner, Stillborn, Session, Runner, Over

(* resolve() and the recording of a surfaced request (session.py:89-114). *)
LEMMA ConsumerTypes ==
  ASSUME NEW x \in Session, NEW r \in ReqId
  PROVE  /\ Resolved(x, r) \in Session
         /\ Surfaced(x, r) \in Session
         /\ Forgotten(x) \in Session
BY DEF Resolved, Surfaced, Forgotten, Session

(* The finally clause of close() (session.py:128-132). *)
LEMMA ForgottenType ==
  ASSUME NEW x \in Session
  PROVE  Forgotten(x) \in Session
BY DEF Forgotten, Session

(* drain() takes the head of the queue (session.py:103-110). *)
LEMMA TakenType ==
  ASSUME NEW x \in Session, x.queue # << >>
  PROVE  /\ Taken(x) \in Session
         /\ Head(x.queue) \in Item
<1>1. x.queue \in Seq(Item)
  BY DEF Session
<1>2. Head(x.queue) \in Item /\ Tail(x.queue) \in Seq(Item)
  BY <1>1
<1>3. \A q \in Seq(Item), e \in BOOLEAN :
        [x EXCEPT !.queue = q, !.done = @ \/ e] \in Session
  BY DEF Session
<1>4. Ends(Head(x.queue)) \in BOOLEAN
  BY DEF Ends
<1>5. QED
  BY <1>2, <1>3, <1>4 DEF Taken

-----------------------------------------------------------------------------
(* Appending to a queue keeps what it holds; taking its head keeps all but   *)
(* the head.                                                                 *)
Holds(x, item) == \E i \in 1..Len(x.queue) : x.queue[i] = item

(* An item put is on the queue, and so is what was there before.             *)
LEMMA PutHolds ==
  ASSUME NEW x \in Session, NEW item \in Item
  PROVE  /\ Holds(Put(x, item), item)
         /\ \A other : Holds(x, other) => Holds(Put(x, item), other)
<1> DEFINE q == x.queue
<1>1. q \in Seq(Item)
  BY DEF Session
<1>2. Put(x, item).queue = Append(q, item)
  BY DEF Put, Session
<1>3. Len(Append(q, item)) = Len(q) + 1 /\ Len(q) \in Nat
  BY <1>1
<1>4. Append(q, item)[Len(q) + 1] = item
  BY <1>1
<1>5. \A i \in 1..Len(q) : Append(q, item)[i] = q[i]
  BY <1>1
<1>6. QED
  BY <1>2, <1>3, <1>4, <1>5 DEF Holds

(* A queued item is the one taken, or still queued after the take.           *)
LEMMA TakenHolds ==
  ASSUME NEW x \in Session, x.queue # << >>, NEW item, Holds(x, item)
  PROVE  item = Head(x.queue) \/ Holds(Taken(x), item)
<1> DEFINE q == x.queue
<1>1. q \in Seq(Item)
  BY DEF Session
<1>2. Taken(x).queue = Tail(q)
  BY DEF Taken, Session
<1>3. PICK i \in 1..Len(q) : q[i] = item
  BY DEF Holds
<1>4. CASE i = 1
  BY <1>1, <1>3, <1>4
<1>5. CASE i # 1
  <2>1. i - 1 \in 1..Len(Tail(q)) /\ Tail(q)[i - 1] = q[i]
    BY <1>1, <1>5
  <2>2. QED
    BY <1>2, <1>3, <2>1 DEF Holds
<1>6. QED
  BY <1>4, <1>5

(* What each step of the runner leaves alone, and what it queues             *)
(* (session.py:56-87).                                                       *)
LEMMA TalkEffect ==
  ASSUME NEW x \in Session, NEW y \in Session, NEW item \in Item,
         y.queue = Append(x.queue, item)
  PROVE  /\ Holds(y, item)
         /\ \A other : Holds(x, other) => Holds(y, other)
<1>1. Put(x, item) \in Session /\ Put(x, item).queue = y.queue
  BY PutType DEF Put, Session
<1>2. QED
  BY <1>1, PutHolds DEF Holds

(* put() touches nothing but the queue (session.py:73-74). *)
LEMMA PutFields ==
  ASSUME NEW x \in Session, NEW item \in Item
  PROVE  /\ Put(x, item).queue = Append(x.queue, item)
         /\ Put(x, item).pending = x.pending
         /\ Put(x, item).runner = x.runner
         /\ Put(x, item).last = x.last
         /\ Put(x, item).done = x.done
         /\ Put(x, item).evicted = x.evicted
BY DEF Put, Session

(* The end of the runner leaves the sentinel on the queue (session.py:57-67).*)
LEMMA EndedEffect ==
  ASSUME NEW x \in Session, NEW how \in Over
  PROVE  /\ Ended(x, how).pending = x.pending
         /\ Ended(x, how).last = x.last
         /\ Ended(x, how).done = x.done
         /\ Ended(x, how).evicted = x.evicted
         /\ Ended(x, how).runner = how
         /\ Holds(Ended(x, how), Event("done"))
<1>1. Event("error") \in Item /\ Event("done") \in Item
  BY ItemTypes DEF Kinds
<1>2. how \in Runner
  BY DEF Runner
<1> DEFINE y == IF how = "raised" THEN Put(x, Event("error")) ELSE x
<1>3. y \in Session
  BY <1>1, PutType
<1>4. /\ y.pending = x.pending /\ y.last = x.last /\ y.done = x.done
      /\ y.evicted = x.evicted
  BY <1>1, PutFields
<1>5. Ended(x, how) = [Put(y, Event("done")) EXCEPT !.runner = how]
  BY DEF Ended
<1> HIDE DEF y
<1> DEFINE z == Put(y, Event("done"))
<1>6. z \in Session /\ Holds(z, Event("done"))
  BY <1>1, <1>3, PutType, PutHolds
<1>7. z.pending = y.pending /\ z.last = y.last /\ z.done = y.done /\ z.evicted = y.evicted
  BY <1>1, <1>3, PutFields
<1> HIDE DEF z
<1>8. /\ [z EXCEPT !.runner = how].queue = z.queue
      /\ [z EXCEPT !.runner = how].pending = z.pending
      /\ [z EXCEPT !.runner = how].last = z.last
      /\ [z EXCEPT !.runner = how].done = z.done
      /\ [z EXCEPT !.runner = how].evicted = z.evicted
      /\ [z EXCEPT !.runner = how].runner = how
  BY <1>6 DEF Session
<1>9. QED
  BY <1>4, <1>5, <1>6, <1>7, <1>8 DEF Holds, z

-----------------------------------------------------------------------------
(* What holds of a session x whose consumer is at a ("off", "get" or        *)
(* "yield") and holds the item h.                                           *)

Live == {"created", "running", "reported"}

(* A session that is drained is neither parked nor done, and one that is    *)
(* done is not parked; a runner that waits for a decision has put its       *)
(* request where the consumer will find it; a runner that is over left the  *)
(* sentinel; a session that was not started is not drained and asks nothing.*)
DrainSound(x, a, h) ==
  /\ a # "off" => ~x.done
  /\ a # "off" \/ x.done => ~Parked(x)
  /\ x.done => x.runner \in Spoke
  /\ x.runner \in Live =>
       \A r \in x.pending : r = x.last \/ Holds(x, Request(r)) \/ h = Request(r)
  /\ x.runner \in Spoke => x.done \/ Holds(x, Event("done"))
  /\ x.runner = "none" => a = "off" /\ x.pending = {}

(* Errors and sentinels are queued by the end of the runner, the error      *)
(* first; no request is queued twice, or again while it is in the           *)
(* consumer's hand or was the one surfaced last.                            *)
QueueSound(q, runner, done, last, h) ==
  /\ \A i \in 1..Len(q) : Ends(q[i]) => runner \in Spoke
  /\ runner = "raised" /\ ~done =>
       \A i \in 1..Len(q) :
         q[i].kind = "done" => \E j \in 1..Len(q) : j < i /\ q[j].kind = "error"
  /\ \A i, j \in 1..Len(q) : q[i].kind = "permission" /\ q[i] = q[j] => i = j
  /\ \A i \in 1..Len(q) : q[i].kind = "permission" => q[i] # h /\ q[i].id # last

Sound(x, a, h) == /\ DrainSound(x, a, h)
                  /\ QueueSound(x.queue, x.runner, x.done, x.last, h)

-----------------------------------------------------------------------------
(* The queue.                                                               *)

(* Until the runner ends there is no error and no sentinel on the queue, so *)
(* it may move on (session.py:56-67).                                       *)
LEMMA QueueOfMoving ==
  ASSUME NEW q \in Seq(Item), NEW v, NEW w, NEW d, NEW l, NEW h,
         QueueSound(q, v, d, l, h), v \notin Spoke
  PROVE  QueueSound(q, w, d, l, h)
<1>1. \A i \in 1..Len(q) : q[i].kind # "done"
  BY DEF QueueSound, Ends
<1>2. QED
  BY <1>1 DEF QueueSound

(* Where the items of a longer queue come from. *)
LEMMA Appending ==
  ASSUME NEW q \in Seq(Item), NEW item \in Item
  PROVE  /\ Append(q, item) \in Seq(Item)
         /\ Len(q) \in Nat
         /\ Len(Append(q, item)) = Len(q) + 1
         /\ \A i \in 1..Len(q) : Append(q, item)[i] = q[i] /\ q[i] \in Item
         /\ Append(q, item)[Len(q) + 1] = item
         /\ \A i \in 1..Len(Append(q, item)) : i \in 1..Len(q) \/ i = Len(q) + 1
         /\ \A i \in 1..Len(q) : i \in 1..Len(Append(q, item)) /\ i < Len(q) + 1
         /\ Len(q) + 1 \in 1..Len(Append(q, item))
OBVIOUS

(* An event that is no request and no end is queued (session.py:73-74). *)
LEMMA QueueOfEvent ==
  ASSUME NEW q \in Seq(Item), NEW item \in Item, NEW w, NEW d, NEW l, NEW h,
         QueueSound(q, w, d, l, h), item.kind \notin {"permission", "error", "done"}
  PROVE  QueueSound(Append(q, item), w, d, l, h)
<1> DEFINE p == Append(q, item)
           n == Len(q) + 1
<1>1. /\ \A i \in 1..Len(q) : p[i] = q[i]
      /\ p[n] = item
      /\ \A i \in 1..Len(p) : i \in 1..Len(q) \/ i = n
      /\ \A i \in 1..Len(q) : i \in 1..Len(p)
  BY Appending
<1> HIDE DEF p, n
<1>2. \A i \in 1..Len(p) : Ends(p[i]) \/ p[i].kind \in {"permission", "done"} => i \in 1..Len(q)
  BY <1>1 DEF Ends
<1>3. \A i \in 1..Len(p) : Ends(p[i]) => w \in Spoke
  BY <1>1, <1>2 DEF QueueSound
<1>4. w = "raised" /\ ~d =>
        \A i \in 1..Len(p) :
          p[i].kind = "done" => \E j \in 1..Len(p) : j < i /\ p[j].kind = "error"
  BY <1>1, <1>2 DEF QueueSound
<1>5. \A i, j \in 1..Len(p) : p[i].kind = "permission" /\ p[i] = p[j] => i = j
  BY <1>1, <1>2 DEF QueueSound
<1>6. \A i \in 1..Len(p) : p[i].kind = "permission" => p[i] # h /\ p[i].id # l
  BY <1>1, <1>2 DEF QueueSound
<1>7. QED
  BY <1>3, <1>4, <1>5, <1>6 DEF QueueSound, p

(* A request nobody knows yet is queued (session.py:76-87). *)
LEMMA QueueOfRequest ==
  ASSUME NEW q \in Seq(Item), NEW r \in ReqId, NEW w, NEW d, NEW l, NEW h,
         QueueSound(q, w, d, l, h),
         r # l, h # Request(r), \A i \in 1..Len(q) : q[i].id # r
  PROVE  QueueSound(Append(q, Request(r)), w, d, l, h)
<1> DEFINE p == Append(q, Request(r))
           n == Len(q) + 1
<1>0. Request(r) \in Item /\ Request(r).kind = "permission" /\ Request(r).id = r
  BY ItemTypes DEF Request
<1>1. /\ \A i \in 1..Len(q) : p[i] = q[i]
      /\ p[n] = Request(r)
      /\ \A i \in 1..Len(p) : i \in 1..Len(q) \/ i = n
      /\ \A i \in 1..Len(q) : i \in 1..Len(p)
  BY <1>0, Appending
<1> HIDE DEF p, n
<1>2. \A i \in 1..Len(p) : Ends(p[i]) \/ p[i].kind = "done" => i \in 1..Len(q)
  BY <1>0, <1>1 DEF Ends
<1>3. \A i \in 1..Len(p) : Ends(p[i]) => w \in Spoke
  BY <1>1, <1>2 DEF QueueSound
<1>4. w = "raised" /\ ~d =>
        \A i \in 1..Len(p) :
          p[i].kind = "done" => \E j \in 1..Len(p) : j < i /\ p[j].kind = "error"
  BY <1>1, <1>2 DEF QueueSound
<1>5. \A i, j \in 1..Len(p) : p[i].kind = "permission" /\ p[i] = p[j] => i = j
  BY <1>0, <1>1 DEF QueueSound
<1>6. \A i \in 1..Len(p) : p[i].kind = "permission" => p[i] # h /\ p[i].id # l
  BY <1>0, <1>1 DEF QueueSound
<1>7. QED
  BY <1>3, <1>4, <1>5, <1>6 DEF QueueSound, p

(* An end is queued behind what is no sentinel, or behind the error          *)
(* (session.py:62-67).                                                       *)
LEMMA QueueOfEnd ==
  ASSUME NEW q \in Seq(Item), NEW k \in {"error", "done"}, NEW w \in Spoke,
         NEW d, NEW l, NEW h, QueueSound(q, w, d, l, h),
         \A i \in 1..Len(q) : q[i].kind # "done",
         k = "done" /\ w = "raised" => \E i \in 1..Len(q) : q[i].kind = "error"
  PROVE  QueueSound(Append(q, Event(k)), w, d, l, h)
<1> DEFINE p == Append(q, Event(k))
           n == Len(q) + 1
<1>0. Event(k) \in Item /\ Event(k).kind = k
  BY ItemTypes DEF Event, Kinds
<1>1. /\ \A i \in 1..Len(q) : p[i] = q[i]
      /\ p[n] = Event(k)
      /\ \A i \in 1..Len(p) : i \in 1..Len(q) \/ i = n
      /\ \A i \in 1..Len(q) : i \in 1..Len(p) /\ i < n
  BY <1>0, Appending
<1> HIDE DEF p, n
<1>4. w = "raised" /\ ~d =>
        \A i \in 1..Len(p) :
          p[i].kind = "done" => \E j \in 1..Len(p) : j < i /\ p[j].kind = "error"
  BY <1>0, <1>1 DEF QueueSound
<1>5. \A i, j \in 1..Len(p) : p[i].kind = "permission" /\ p[i] = p[j] => i = j
  BY <1>0, <1>1 DEF QueueSound
<1>6. \A i \in 1..Len(p) : p[i].kind = "permission" => p[i] # h /\ p[i].id # l
  BY <1>0, <1>1 DEF QueueSound
<1>7. QED
  BY <1>4, <1>5, <1>6 DEF QueueSound, p

(* The head is taken: into the consumer's hand or not, but a request always *)
(* (session.py:103-110).                                                    *)
LEMMA QueueOfTail ==
  ASSUME NEW q \in Seq(Item), q # << >>, NEW w, NEW d \in BOOLEAN, NEW l,
         QueueSound(q, w, d, l, None),
         NEW h, h = Head(q) \/ h = None
  PROVE  QueueSound(Tail(q), w, d \/ Ends(Head(q)), l, h)
<1> DEFINE p == Tail(q)
<1>1. /\ \A i \in 1..Len(p) : i + 1 \in 1..Len(q) /\ p[i] = q[i + 1]
      /\ Head(q) = q[1] /\ 1 \in 1..Len(q)
      /\ \A i \in 1..Len(q) : i # 1 => i - 1 \in 1..Len(p) /\ p[i - 1] = q[i]
      /\ \A i \in 1..Len(q) : q[i] \in Item
  <2>1. Len(p) = Len(q) - 1 /\ Len(q) \in Nat \ {0} /\ Head(q) = q[1]
    OBVIOUS
  <2>2. \A i \in 1..Len(p) : p[i] = q[i + 1]
    OBVIOUS
  <2>3. \A i \in 1..Len(q) : q[i] \in Item
    OBVIOUS
  <2> HIDE DEF p
  <2>4. \A i \in 1..Len(p) : i + 1 \in 1..Len(q)
    BY <2>1
  <2>5. \A i \in 1..Len(q) : i # 1 => i - 1 \in 1..Len(p) /\ (i - 1) + 1 = i
    BY <2>1
  <2>6. \A i \in 1..Len(q) : i # 1 => p[i - 1] = q[i]
    BY <2>2, <2>5
  <2>7. 1 \in 1..Len(q)
    BY <2>1
  <2>8. QED
    BY <2>1, <2>2, <2>3, <2>4, <2>5, <2>6, <2>7, Zenon
<1>0. None \notin Item
  BY SessionAssumption
<1> HIDE DEF p
<1>3. \A i \in 1..Len(p) : Ends(p[i]) => w \in Spoke
  BY <1>1 DEF QueueSound
<1>4. ASSUME w = "raised", ~(d \/ Ends(Head(q))), NEW i \in 1..Len(p), p[i].kind = "done"
      PROVE  \E j \in 1..Len(p) : j < i /\ p[j].kind = "error"
  <2>1. PICK j \in 1..Len(q) : j < i + 1 /\ q[j].kind = "error"
    BY <1>1, <1>4 DEF QueueSound
  <2>2. j # 1
    BY <1>1, <1>4, <2>1 DEF Ends
  <2>3. j - 1 \in 1..Len(p) /\ p[j - 1].kind = "error" /\ j - 1 < i
    BY <1>1, <2>1, <2>2
  <2>4. QED
    BY <2>3
<1>5. \A i, j \in 1..Len(p) : p[i].kind = "permission" /\ p[i] = p[j] => i = j
  <2> SUFFICES ASSUME NEW i \in 1..Len(p), NEW j \in 1..Len(p),
                      p[i].kind = "permission", p[i] = p[j]
               PROVE  i = j
    OBVIOUS
  <2>1. /\ i + 1 \in 1..Len(q) /\ j + 1 \in 1..Len(q)
        /\ q[i + 1].kind = "permission" /\ q[i + 1] = q[j + 1]
    BY <1>1
  <2>2. \A m, n \in 1..Len(q) : q[m].kind = "permission" /\ q[m] = q[n] => m = n
    BY DEF QueueSound
  <2>3. i + 1 = j + 1
    BY <2>1, <2>2, Zenon
  <2>4. QED
    BY <2>3
<1>6. ASSUME NEW i \in 1..Len(p), p[i].kind = "permission"
      PROVE  p[i] # h /\ p[i].id # l
  <2>1. i + 1 \in 1..Len(q) /\ q[i + 1].kind = "permission" /\ p[i] = q[i + 1] /\ i + 1 # 1
    BY <1>1, <1>6
  <2>2. q[i + 1] # q[1]
    BY <1>1, <2>1 DEF QueueSound
  <2>3. q[i + 1] # None /\ q[i + 1].id # l
    BY <1>0, <1>1, <2>1 DEF QueueSound
  <2>4. QED
    BY <1>1, <2>1, <2>2, <2>3
<1>7. QED
  BY <1>3, <1>4, <1>5, <1>6 DEF QueueSound, p

(* The item in hand is let go; a request becomes the one surfaced last       *)
(* (session.py:110-114).                                                     *)
LEMMA QueueOfResumed ==
  ASSUME NEW q \in Seq(Item), NEW w, NEW d, NEW l, NEW h \in Item,
         QueueSound(q, w, d, l, h)
  PROVE  /\ QueueSound(q, w, d, l, None)
         /\ h.kind = "permission" => QueueSound(q, w, d, h.id, None)
<1>1. \A i \in 1..Len(q) : q[i] \in Item /\ q[i] # None
  BY SessionAssumption
<1>2. \A x, y \in Item : x.kind = y.kind /\ x.id = y.id => x = y
  BY DEF Item
<1>3. h.kind = "permission" =>
        \A i \in 1..Len(q) : q[i].kind = "permission" => q[i].id # h.id
  BY <1>1, <1>2 DEF QueueSound
<1>4. QED
  BY <1>1, <1>3 DEF QueueSound

-----------------------------------------------------------------------------
(* Each step of a session keeps it sound.                                    *)

(* It starts sound, and so it is when it is started (session.py:38-71).      *)
LEMMA SoundBirth == /\ \A h : Sound(Unborn, "off", h)
                    /\ \A a, h : Sound(Started, a, h)
<1>1. /\ Unborn.queue = << >> /\ Unborn.pending = {} /\ ~Unborn.done
      /\ Unborn.runner = "none"
      /\ Started.queue = << >> /\ Started.pending = {} /\ ~Started.done
      /\ Started.runner = "created"
  BY DEF Started, Unborn
<1>2. "none" \notin Spoke /\ "created" \notin Spoke /\ "none" \notin Live
  BY DEF Spoke, Live
<1>3. \A w, d, l, h : QueueSound(<< >>, w, d, l, h)
  BY DEF QueueSound
<1>4. QED
  BY <1>1, <1>2, <1>3, Zenon DEF Sound, DrainSound, Parked

(* A step that changes only how far the runner is, short of its sentinel.    *)
LEMMA SoundMoving ==
  ASSUME NEW x \in Session, NEW y \in Session, NEW a, NEW h, Sound(x, a, h),
         y.queue = x.queue, y.pending = x.pending, y.last = x.last, y.done = x.done,
         \/ y.runner = x.runner
         \/ /\ x.runner \notin Spoke /\ y.runner \notin Spoke
            /\ y.runner \in Live => x.runner \in Live
            /\ y.runner # "none"
  PROVE  Sound(y, a, h)
<1>1. x.queue \in Seq(Item)
  BY DEF Session
<1>2. QueueSound(x.queue, y.runner, x.done, x.last, h)
  BY <1>1, QueueOfMoving DEF Sound
<1>3. DrainSound(y, a, h)
  BY DEF Sound, DrainSound, Holds, Parked
<1>4. QED
  BY <1>2, <1>3 DEF Sound

(* The runner begins, is dropped or cancelled; the session is marked evicted *)
(* (session.py:57-61, 116-120, executor.py:346).                             *)
LEMMA SoundRunner ==
  ASSUME NEW x \in Session, NEW a, NEW h, Sound(x, a, h)
  PROVE  /\ x.runner = "created" => Sound(Began(x), a, h)
         /\ x.runner = "doomed" => Sound(Stillborn(x), a, h)
         /\ Sound(CancelRunner(x), a, h)
         /\ Sound([x EXCEPT !.evicted = TRUE], a, h)
<1> USE DEF Spoke, Live
<1>1. ASSUME x.runner = "created"
      PROVE  Sound(Began(x), a, h)
  <2> DEFINE y == Began(x)
  <2>1. /\ y \in Session /\ y.queue = x.queue /\ y.pending = x.pending
        /\ y.last = x.last /\ y.done = x.done /\ y.runner = "running"
    BY BeganType DEF Began, Session
  <2> HIDE DEF y
  <2>2. QED
    BY <1>1, <2>1, SoundMoving DEF y
<1>2. ASSUME x.runner = "doomed"
      PROVE  Sound(Stillborn(x), a, h)
  <2> DEFINE y == Stillborn(x)
  <2>1. /\ y \in Session /\ y.queue = x.queue /\ y.pending = x.pending
        /\ y.last = x.last /\ y.done = x.done /\ y.runner = "unstarted"
    BY CancelType DEF Stillborn, Session
  <2> HIDE DEF y
  <2>2. QED
    BY <1>2, <2>1, SoundMoving DEF y
<1>3. Sound(CancelRunner(x), a, h)
  <2> DEFINE y == CancelRunner(x)
  <2>1. /\ y \in Session /\ y.queue = x.queue /\ y.pending = x.pending
        /\ y.last = x.last /\ y.done = x.done
        /\ \/ y.runner = x.runner
           \/ x.runner \in Live /\ y.runner \in {"doomed", "cancelling"}
    BY CancelType DEF CancelRunner, Session
  <2> HIDE DEF y
  <2>2. QED
    BY <2>1, SoundMoving DEF y
<1>4. Sound([x EXCEPT !.evicted = TRUE], a, h)
  <2> DEFINE y == [x EXCEPT !.evicted = TRUE]
  <2>1. /\ y \in Session /\ y.queue = x.queue /\ y.pending = x.pending
        /\ y.last = x.last /\ y.done = x.done /\ y.runner = x.runner
    BY DEF Session
  <2> HIDE DEF y
  <2>2. QED
    BY <2>1, SoundMoving DEF y
<1>5. QED
  BY <1>1, <1>2, <1>3, <1>4

(* emit() (session.py:73-74). *)
LEMMA SoundPut ==
  ASSUME NEW x \in Session, NEW item \in Item, NEW a, NEW h, Sound(x, a, h),
         item.kind \notin {"permission", "error", "done"}
  PROVE  Sound(Put(x, item), a, h)
<1> DEFINE y == Put(x, item)
<1>1. /\ y.queue = Append(x.queue, item) /\ y.pending = x.pending
      /\ y.runner = x.runner /\ y.last = x.last /\ y.done = x.done
  BY PutFields
<1>2. \A other : Holds(x, other) => Holds(y, other)
  BY PutHolds
<1>3. QueueSound(Append(x.queue, item), x.runner, x.done, x.last, h)
  BY QueueOfEvent DEF Sound, Session
<1> HIDE DEF y
<1>4. DrainSound(y, a, h)
  BY <1>1, <1>2 DEF Sound, DrainSound, Parked
<1>5. QED
  BY <1>1, <1>3, <1>4 DEF Sound, y

(* emit() of progress and of the Result (session.py:73-74). *)
LEMMA SoundEmit ==
  ASSUME NEW x \in Session, NEW a, NEW h, Sound(x, a, h)
  PROVE  /\ \A k \in EventKinds : Sound(Emitted(x, k), a, h)
         /\ x.runner = "running" => Sound(Reported(x), a, h)
<1>1. \A k \in {"text", "tool", "file", "result"} : Sound(Put(x, Event(k)), a, h)
  <2>1. \A k \in {"text", "tool", "file", "result"} : Event(k) \in Item /\ Event(k).kind = k
    BY ItemTypes DEF Kinds, Event
  <2>2. QED
    BY <2>1, SoundPut
<1>2. ASSUME x.runner = "running"
      PROVE  Sound(Reported(x), a, h)
  <2> DEFINE z == Put(x, Event("result"))
             y == [z EXCEPT !.runner = "reported"]
  <2>1. Event("result") \in Item
    BY ItemTypes DEF Kinds
  <2>2. z \in Session /\ z.runner = "running" /\ Sound(z, a, h)
    BY <1>1, <1>2, <2>1, PutType, PutFields
  <2> HIDE DEF z
  <2>3. /\ y \in Session /\ y.queue = z.queue /\ y.pending = z.pending
        /\ y.last = z.last /\ y.done = z.done /\ y.runner = "reported"
    BY <2>2, RunnerUpdate DEF Session, Runner
  <2> HIDE DEF y
  <2>4. Sound(y, a, h)
    BY <2>2, <2>3, SoundMoving DEF Spoke, Live
  <2>5. QED
    BY <2>4 DEF y, z, Reported
<1>3. QED
  BY <1>1, <1>2, SessionAssumption DEF Emitted

(* request_permission() up to its await (session.py:76-87). *)
LEMMA SoundAsked ==
  ASSUME NEW x \in Session, NEW r \in ReqId, NEW a, NEW h, Sound(x, a, h),
         Fresh(x, r), h # Request(r), x.runner # "none"
  PROVE  Sound(Asked(x, r), a, h)
<1> DEFINE z == Put(x, Request(r))
           y == [z EXCEPT !.pending = @ \cup {r}]
<1>1. Request(r) \in Item
  BY ItemTypes
<1>2. /\ z \in Session
      /\ z.queue = Append(x.queue, Request(r)) /\ z.pending = x.pending
      /\ z.runner = x.runner /\ z.last = x.last /\ z.done = x.done
  BY <1>1, PutType, PutFields
<1>3. Holds(z, Request(r)) /\ \A other : Holds(x, other) => Holds(z, other)
  BY <1>1, PutHolds
<1> HIDE DEF z
<1>4. /\ y.queue = z.queue /\ y.pending = z.pending \cup {r}
      /\ y.runner = z.runner /\ y.last = z.last /\ y.done = z.done
  BY <1>2 DEF Session
<1> HIDE DEF y
<1>5. x.queue \in Seq(Item) /\ r # x.last /\ \A i \in 1..Len(x.queue) : x.queue[i].id # r
  BY DEF Fresh, Session
<1>6. QueueSound(Append(x.queue, Request(r)), x.runner, x.done, x.last, h)
  BY <1>5, QueueOfRequest DEF Sound
<1>7. \A other : Holds(z, other) => Holds(y, other)
  BY <1>4 DEF Holds
<1>8. DrainSound(y, a, h)
  BY <1>2, <1>3, <1>4, <1>5, <1>7 DEF Sound, DrainSound, Parked
<1>9. QED
  BY <1>2, <1>4, <1>6, <1>8 DEF Sound, Asked, y, z

(* The end of the runner, with its error if it has one and its sentinel      *)
(* (session.py:57-67).                                                       *)
LEMMA SoundEnded ==
  ASSUME NEW x \in Session, NEW how \in Spoke, NEW a, NEW h, Sound(x, a, h),
         x.runner \notin Spoke
  PROVE  Sound(Ended(x, how), a, h)
<1> DEFINE e == Put(x, Event("error"))
           z == IF how = "raised" THEN e ELSE x
           d == Put(z, Event("done"))
           y == [d EXCEPT !.runner = how]
<1>1. /\ Event("error") \in Item /\ Event("done") \in Item
      /\ Event("error").kind = "error"
  BY ItemTypes DEF Kinds, Event
<1>2. how \in Runner /\ how \in Over
  BY DEF Runner, Over
<1>3. x.queue \in Seq(Item) /\ \A i \in 1..Len(x.queue) : x.queue[i].kind # "done"
  BY DEF Sound, QueueSound, Ends, Session
<1>4. QueueSound(x.queue, how, x.done, x.last, h)
  BY <1>3, QueueOfMoving DEF Sound
<1>5. /\ e \in Session /\ e.queue = Append(x.queue, Event("error"))
      /\ e.last = x.last /\ e.done = x.done
  BY <1>1, PutType, PutFields
<1> HIDE DEF e
<1>6. /\ z \in Session /\ z.last = x.last /\ z.done = x.done
      /\ QueueSound(z.queue, how, x.done, x.last, h)
      /\ \A i \in 1..Len(z.queue) : z.queue[i].kind # "done"
      /\ how = "raised" => \E i \in 1..Len(z.queue) : z.queue[i].kind = "error"
  <2>1. CASE how = "raised"
    <3>1. QueueSound(e.queue, how, x.done, x.last, h)
      BY <1>3, <1>4, <1>5, QueueOfEnd
    <3>2. /\ \A i \in 1..Len(e.queue) : e.queue[i].kind # "done"
          /\ \E i \in 1..Len(e.queue) : e.queue[i].kind = "error"
      BY <1>1, <1>3, <1>5, Appending
    <3>3. QED
      BY <1>5, <2>1, <3>1, <3>2
  <2>2. CASE how # "raised"
    BY <1>3, <1>4, <2>2
  <2>3. QED
    BY <2>1, <2>2
<1> HIDE DEF z
<1>7. /\ d \in Session /\ d.queue = Append(z.queue, Event("done"))
      /\ d.last = z.last /\ d.done = z.done
  BY <1>1, <1>6, PutType, PutFields
<1>8. QueueSound(d.queue, how, x.done, x.last, h)
  <2>1. z.queue \in Seq(Item)
    BY <1>6 DEF Session
  <2>2. QueueSound(Append(z.queue, Event("done")), how, x.done, x.last, h)
    BY <1>6, <2>1, QueueOfEnd
  <2>3. QED
    BY <1>7, <2>2
<1> HIDE DEF d
<1>9. /\ y.queue = d.queue /\ y.runner = how /\ y.last = x.last /\ y.done = x.done
  BY <1>2, <1>6, <1>7 DEF Session
<1>10. y = Ended(x, how)
  BY DEF y, d, z, e, Ended
<1> HIDE DEF y
<1>11. DrainSound(y, a, h)
  <2>1. /\ y.pending = x.pending /\ Holds(y, Event("done"))
    BY <1>2, <1>10, EndedEffect
  <2>2. how \notin Live /\ how # "none"
    BY DEF Live, Spoke
  <2>3. QED
    BY <1>9, <2>1, <2>2 DEF Sound, DrainSound, Parked
<1>12. QED
  BY <1>8, <1>9, <1>10, <1>11 DEF Sound

(* resolve() of the request surfaced last; the consumer drains again         *)
(* (session.py:89-95).                                                       *)
LEMMA SoundResolved ==
  ASSUME NEW x \in Session, Parked(x), Sound(x, "off", None)
  PROVE  \A a : Sound(Resolved(x, x.last), a, None)
<1> DEFINE y == Resolved(x, x.last)
<1>1. /\ y.queue = x.queue /\ y.pending = x.pending \ {x.last}
      /\ y.runner = x.runner /\ y.last = x.last /\ y.done = x.done
  BY DEF Resolved, Session
<1>2. ~x.done
  BY DEF Sound, DrainSound
<1> HIDE DEF y
<1>3. \A a : DrainSound(y, a, None)
  BY <1>1, <1>2 DEF Sound, DrainSound, Parked, Holds
<1>4. QED
  BY <1>1, <1>3 DEF Sound, y

(* drain() takes an event, which its consumer holds or has done with; it     *)
(* holds on to a request (session.py:103-110).                               *)
LEMMA SoundTaken ==
  ASSUME NEW x \in Session, x.queue # << >>, Sound(x, "get", None),
         ~Ends(Head(x.queue)),
         NEW h, h = Head(x.queue) \/ (h = None /\ Head(x.queue).kind # "permission"),
         NEW a
  PROVE  Sound(Taken(x), a, h)
<1> DEFINE y == Taken(x)
           q == x.queue
<1>1. q \in Seq(Item) /\ Head(q) \in Item /\ x.done \in BOOLEAN
  BY TakenType DEF Session
<1>2. /\ y.queue = Tail(q) /\ y.pending = x.pending
      /\ y.runner = x.runner /\ y.last = x.last /\ y.done = x.done
  BY DEF Taken, Session
<1>3. \A item : Holds(x, item) => item = Head(q) \/ Holds(y, item)
  BY TakenHolds
<1> HIDE DEF y
<1>4. QueueSound(Tail(q), x.runner, x.done \/ Ends(Head(q)), x.last, h)
  BY <1>1, QueueOfTail DEF Sound
<1>5. (x.done \/ Ends(Head(q))) = x.done
  BY <1>1
<1>6. /\ Ends(Event("done"))
      /\ \A r \in x.pending : Request(r) \in Item /\ Request(r).kind = "permission"
      /\ None \notin Item
  BY ItemTypes, SessionAssumption DEF Ends, Event, Request, Session
<1>7. DrainSound(y, a, h)
  <2>1. ~y.done /\ ~Parked(y)
    BY <1>2 DEF Sound, DrainSound, Parked
  <2>2. ASSUME y.runner \in Live, NEW r \in y.pending
        PROVE  r = y.last \/ Holds(y, Request(r)) \/ h = Request(r)
    BY <1>2, <1>3, <1>6, <2>2 DEF Sound, DrainSound
  <2>3. y.runner \in Spoke => y.done \/ Holds(y, Event("done"))
    BY <1>2, <1>3, <1>6 DEF Sound, DrainSound
  <2>4. y.runner # "none"
    BY <1>2 DEF Sound, DrainSound
  <2>5. QED
    BY <2>1, <2>2, <2>3, <2>4 DEF DrainSound
<1>8. QED
  BY <1>2, <1>4, <1>5, <1>7 DEF Sound, y

(* drain() takes the sentinel or an error, and ends (session.py:104-110).    *)
LEMMA SoundTakenEnd ==
  ASSUME NEW x \in Session, x.queue # << >>, Sound(x, "get", None),
         Ends(Head(x.queue))
  PROVE  /\ Sound(Taken(x), "off", None)
         /\ Taken(x).done /\ Taken(x).runner = x.runner /\ x.runner \in Spoke
<1> DEFINE y == Taken(x)
           q == x.queue
<1>1. q \in Seq(Item) /\ x.done \in BOOLEAN /\ Ends(Head(q)) \in BOOLEAN
  BY DEF Session, Ends
<1>2. /\ y.queue = Tail(q) /\ y.pending = x.pending /\ y.runner = x.runner
      /\ y.last = x.last /\ y.done = (x.done \/ Ends(Head(q)))
  BY DEF Taken, Session
<1> HIDE DEF y
<1>3. QueueSound(Tail(q), x.runner, x.done \/ Ends(Head(q)), x.last, None)
  BY <1>1, QueueOfTail DEF Sound
<1>4. x.runner \in Spoke
  <2>1. 1 \in 1..Len(q) /\ q[1] = Head(q)
    BY <1>1
  <2>2. QED
    BY <2>1 DEF Sound, QueueSound
<1>5. x.runner \notin Live
  BY <1>4 DEF Live, Spoke
<1>6. y.done
  BY <1>1, <1>2
<1>7. DrainSound(y, "off", None)
  BY <1>2, <1>4, <1>5, <1>6 DEF Sound, DrainSound, Parked
<1>8. QED
  BY <1>2, <1>3, <1>4, <1>6, <1>7 DEF Sound, y

(* The consumer is back from its await: it drains on, or the request it      *)
(* showed is recorded and drain() ends (session.py:110-114).                 *)
LEMMA SoundResumed ==
  ASSUME NEW x \in Session, NEW h \in Item, Sound(x, "yield", h)
  PROVE  /\ h.kind = "permission" => Sound(Surfaced(x, h.id), "off", None)
         /\ h.kind # "permission" => Sound(x, "get", None)
<1>1. x.queue \in Seq(Item)
  BY DEF Session
<1>2. /\ QueueSound(x.queue, x.runner, x.done, x.last, None)
      /\ h.kind = "permission" => QueueSound(x.queue, x.runner, x.done, h.id, None)
  BY <1>1, QueueOfResumed DEF Sound
<1>3. \A r : Request(r).kind = "permission" /\ Request(r).id = r
  BY DEF Request
<1>4. CASE h.kind = "permission"
  <2> DEFINE y == Surfaced(x, h.id)
  <2>1. /\ y.queue = x.queue /\ y.pending = x.pending
        /\ y.runner = x.runner /\ y.last = h.id /\ y.done = x.done
    BY DEF Surfaced, Session
  <2> HIDE DEF y
  <2>2. ~x.done /\ x.last \notin x.pending
    BY DEF Sound, DrainSound, Parked
  <2>3. DrainSound(y, "off", None)
    BY <1>3, <2>1, <2>2 DEF Sound, DrainSound, Parked, Holds
  <2>4. QED
    BY <1>2, <1>4, <2>1, <2>3 DEF Sound, y
<1>5. CASE h.kind # "permission"
  <2>1. \A r : h # Request(r)
    BY <1>3, <1>5
  <2>2. DrainSound(x, "get", None)
    BY <2>1 DEF Sound, DrainSound
  <2>3. QED
    BY <1>2, <1>5, <2>2 DEF Sound
<1>6. QED
  BY <1>4, <1>5

(* The consumer is cancelled at its await and aborts the session             *)
(* (executor.py:274-277).                                                    *)
LEMMA SoundAborted ==
  ASSUME NEW x \in Session, NEW a, NEW h, Sound(x, a, h), a # "off"
  PROVE  Sound(CancelRunner(x), "off", None)
<1> DEFINE y == CancelRunner(x)
<1>1. Sound(y, a, h)
  BY SoundRunner
<1>2. y \in Session /\ y.runner \notin Live
  BY CancelType DEF CancelRunner, Live, Session
<1>3. \A i \in 1..Len(y.queue) : y.queue[i] # None
  BY <1>2, SessionAssumption DEF Session
<1> HIDE DEF y
<1>4. QED
  BY <1>1, <1>2, <1>3 DEF Sound, DrainSound, QueueSound, y

(* The finally clause of close(), after the runner is over                   *)
(* (session.py:128-132).                                                     *)
LEMMA SoundForgotten ==
  ASSUME NEW x \in Session, NEW a, NEW h, Sound(x, a, h), Finished(x)
  PROVE  Sound(Forgotten(x), a, h)
<1> DEFINE y == Forgotten(x)
<1>1. /\ y.queue = x.queue /\ y.pending = {}
      /\ y.runner = x.runner /\ y.last = x.last /\ y.done = x.done
  BY DEF Forgotten, Session
<1> HIDE DEF y
<1>2. DrainSound(y, a, h)
  BY <1>1 DEF Sound, DrainSound, Parked, Holds
<1>3. QED
  BY <1>1, <1>2 DEF Sound, y
=============================================================================
