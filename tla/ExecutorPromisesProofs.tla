----------------------- MODULE ExecutorPromisesProofs -----------------------
(* What the executor keeps of its promises: each session it drives is a     *)
(* BackendSession, and what breaks the other promises is the one fault a    *)
(* theorem excludes, for every number of tasks, sessions, calls and events. *)
EXTENDS ExecutorProofs

-----------------------------------------------------------------------------
(* The methods of a session are those of session.py, whichever the session. *)
LEMMA SameOps ==
  ASSUME NEW s
  PROVE  /\ \A x : /\ One(s)!Began(x) = Began(x)
                   /\ One(s)!CanEmit(x) <=> CanEmit(x)
                   /\ One(s)!CanReport(x) <=> CanReport(x)
                   /\ One(s)!Reported(x) = Reported(x)
                   /\ One(s)!CanReturn(x) <=> CanReturn(x)
                   /\ One(s)!CanRaise(x) <=> CanRaise(x)
                   /\ One(s)!Stillborn(x) = Stillborn(x)
                   /\ One(s)!CancelRunner(x) = CancelRunner(x)
                   /\ One(s)!Forgotten(x) = Forgotten(x)
                   /\ One(s)!Taken(x) = Taken(x)
                   /\ One(s)!Parked(x) <=> Parked(x)
                   /\ One(s)!Finished(x) <=> Finished(x)
                   /\ One(s)!Marked(x) = {x, Evicted(x)}
         /\ \A x, v : /\ One(s)!Emitted(x, v) = Emitted(x, v)
                      /\ One(s)!CanAsk(x, v) <=> CanAsk(x, v)
                      /\ One(s)!Asked(x, v) = Asked(x, v)
                      /\ One(s)!Ended(x, v) = Ended(x, v)
                      /\ One(s)!Resolved(x, v) = Resolved(x, v)
                      /\ One(s)!Surfaced(x, v) = Surfaced(x, v)
         /\ \A v : /\ One(s)!Ends(v) <=> Ends(v)
                   /\ One(s)!Request(v) = Request(v)
         /\ One(s)!Started = Started
         /\ One(s)!Unborn = Unborn
<1>1. /\ One(s)!Spoke = Spoke /\ One(s)!Over = Over
      /\ \A v : One(s)!Event(v) = Event(v) /\ One(s)!Request(v) = Request(v)
      /\ One(s)!Unborn = Unborn
  BY DEF One!Spoke, Spoke, One!Over, Over, One!Event, Event, One!Request, Request,
         One!Unborn, Unborn
<1>2. \A x, v : One(s)!Put(x, v) = Put(x, v)
  BY DEF One!Put, Put
<1>3. \A x : One(s)!Free(x) <=> Free(x)
  BY Zenon DEF One!Free, Free, One!Cardinality, Cardinality
<1>4. \A x : One(s)!Talking(x) <=> Talking(x)
  BY <1>3 DEF One!Talking, Talking
<1>5. \A x, v : One(s)!Fresh(x, v) <=> Fresh(x, v)
  BY DEF One!Fresh, Fresh
<1>6. One(s)!Started = Started
  BY <1>1 DEF One!Started, Started
<1>7. \A x : /\ One(s)!Began(x) = Began(x)
             /\ One(s)!Stillborn(x) = Stillborn(x)
             /\ One(s)!CancelRunner(x) = CancelRunner(x)
             /\ One(s)!Forgotten(x) = Forgotten(x)
             /\ One(s)!Parked(x) <=> Parked(x)
             /\ One(s)!Finished(x) <=> Finished(x)
             /\ One(s)!Marked(x) = {x, Evicted(x)}
  BY <1>1, Zenon
  DEF One!Began, Began, One!Stillborn, Stillborn, One!CancelRunner, CancelRunner,
      One!Forgotten, Forgotten, One!Parked, Parked, One!Finished, Finished,
      One!Marked, Evicted
<1>8. \A x : /\ One(s)!CanEmit(x) <=> CanEmit(x)
             /\ One(s)!CanReport(x) <=> CanReport(x)
             /\ One(s)!CanReturn(x) <=> CanReturn(x)
             /\ One(s)!CanRaise(x) <=> CanRaise(x)
  BY <1>3, <1>4, Zenon
  DEF One!CanEmit, CanEmit, One!CanReport, CanReport, One!CanReturn, CanReturn,
      One!CanRaise, CanRaise
<1>9. \A v : One(s)!Ends(v) <=> Ends(v)
  BY DEF One!Ends, Ends
<1>10. \A x, v : /\ One(s)!Emitted(x, v) = Emitted(x, v)
                 /\ One(s)!CanAsk(x, v) <=> CanAsk(x, v)
                 /\ One(s)!Asked(x, v) = Asked(x, v)
                 /\ One(s)!Ended(x, v) = Ended(x, v)
  BY <1>1, <1>2, <1>4, <1>5, Zenon
  DEF One!Emitted, Emitted, One!CanAsk, CanAsk, One!Asked, Asked, One!Ended, Ended
<1>11. \A x, v : /\ One(s)!Resolved(x, v) = Resolved(x, v)
                 /\ One(s)!Surfaced(x, v) = Surfaced(x, v)
  BY Zenon DEF One!Resolved, Resolved, One!Surfaced, Surfaced
<1>12. \A x : /\ One(s)!Reported(x) = Reported(x)
              /\ One(s)!Taken(x) = Taken(x)
  BY <1>1, <1>2, <1>9 DEF One!Reported, Reported, One!Taken, Taken, One!Ends, Ends
<1>13. QED
  BY <1>1, <1>6, <1>7, <1>8, <1>9, <1>10, <1>11, <1>12

-----------------------------------------------------------------------------
(* The consumer and the closer of a session, read off the calls f.          *)

AtClose == {"evict", "closing"}

PumpsIn(f, c, s)  == f[c].pc \in Draining /\ f[c].sess = s
ClosesIn(f, c, s) == f[c].pc \in AtClose /\ f[c].sess = s

AtIn(f, s) == IF \E c \in Call : f[c].pc = "get" /\ f[c].sess = s THEN "get"
              ELSE IF \E c \in Call : f[c].pc = "handle" /\ f[c].sess = s
                     THEN "yield" ELSE "off"
HandIn(f, s) == IF AtIn(f, s) = "yield"
                  THEN f[CHOOSE c \in Call : f[c].pc = "handle" /\ f[c].sess = s].hand
                  ELSE None

Closes(c, s) == ClosesIn(call, c, s)

(* What the executor's definitions say, of a state and of the next one.     *)
LEMMA ReadOff ==
  ASSUME NEW s
  PROVE  /\ At(s) = AtIn(call, s) /\ At(s)' = AtIn(call', s)
         /\ Hand(s) = HandIn(call, s) /\ Hand(s)' = HandIn(call', s)
         /\ Closing(s) <=> \E c \in Call : ClosesIn(call, c, s)
         /\ Closing(s)' <=> \E c \in Call : ClosesIn(call', c, s)
BY DEF At, AtIn, Hand, HandIn, Closing, AtClose, ClosesIn

(* A session with one consumer at most is at that call's await.             *)
LEMMA ConsumerAt ==
  ASSUME NEW f, NEW s,
         \A c, d \in Call : PumpsIn(f, c, s) /\ PumpsIn(f, d, s) => c = d
  PROVE  /\ \A c \in Call : f[c].pc = "get" /\ f[c].sess = s
              => AtIn(f, s) = "get" /\ HandIn(f, s) = None
         /\ \A c \in Call : f[c].pc = "handle" /\ f[c].sess = s
              => AtIn(f, s) = "yield" /\ HandIn(f, s) = f[c].hand
         /\ (\A c \in Call : ~PumpsIn(f, c, s)) => AtIn(f, s) = "off" /\ HandIn(f, s) = None
         /\ AtIn(f, s) # "off" => \E c \in Call : PumpsIn(f, c, s)
<1> USE DEF Draining
<1>1. \A c \in Call : f[c].pc = "get" /\ f[c].sess = s
        => AtIn(f, s) = "get" /\ HandIn(f, s) = None
  BY DEF AtIn, HandIn
<1>2. ASSUME NEW c \in Call, f[c].pc = "handle", f[c].sess = s
      PROVE  AtIn(f, s) = "yield" /\ HandIn(f, s) = f[c].hand
  <2>1. \A d \in Call : PumpsIn(f, d, s) => d = c
    BY <1>2 DEF PumpsIn
  <2>2. AtIn(f, s) = "yield"
    BY <1>2, <2>1 DEF AtIn, PumpsIn
  <2>3. c = CHOOSE d \in Call : f[d].pc = "handle" /\ f[d].sess = s
    BY <1>2, <2>1 DEF PumpsIn
  <2>4. QED
    BY <2>2, <2>3 DEF HandIn
<1>3. (\A c \in Call : ~PumpsIn(f, c, s)) => AtIn(f, s) = "off" /\ HandIn(f, s) = None
  BY DEF AtIn, HandIn, PumpsIn
<1>4. AtIn(f, s) # "off" => \E c \in Call : PumpsIn(f, c, s)
  BY DEF AtIn, PumpsIn
<1>5. QED
  BY <1>1, <1>2, <1>3, <1>4

(* Where a session is now.                                                  *)
LEMMA SessionTypes ==
  ASSUME TypeOK, ConsumerInvariant, NEW s \in SessionId
  PROVE  /\ session[s] \in Session
         /\ At(s) \in {"off", "get", "yield"}
         /\ Hand(s) \in Item \cup {None}
         /\ (Hand(s) = None) <=> (At(s) # "yield")
         /\ At(s) = "off" <=> ~Drained(s)
         /\ \A c \in Call : /\ call[c].pc = "get" /\ call[c].sess = s => At(s) = "get"
                            /\ call[c].pc = "handle" /\ call[c].sess = s
                                 => At(s) = "yield" /\ Hand(s) = call[c].hand
<1>1. \A c, d \in Call : PumpsIn(call, c, s) /\ PumpsIn(call, d, s) => c = d
  BY DEF ConsumerInvariant, SingleConsumer, Pumps, PumpsIn
<1>2. \A c \in Call : /\ call[c].hand \in Item \cup {None}
                      /\ call[c].pc = "handle" => call[c].hand # None
  BY CallTypes
<1>3. \A c \in Call : /\ call[c].pc = "get" /\ call[c].sess = s
                          => At(s) = "get" /\ Hand(s) = None
                      /\ call[c].pc = "handle" /\ call[c].sess = s
                          => At(s) = "yield" /\ Hand(s) = call[c].hand
  BY <1>1, ConsumerAt, ReadOff
<1>4. ~Drained(s) => At(s) = "off" /\ Hand(s) = None
  BY <1>1, ConsumerAt, ReadOff DEF Drained, Pumps, PumpsIn
<1>5. Drained(s) => \E c \in Call : call[c].pc \in {"get", "handle"} /\ call[c].sess = s
  BY DEF Drained, Pumps, Draining
<1>6. session[s] \in Session
  BY DEF TypeOK
<1>7. CASE Drained(s)
  <2>1. PICK c \in Call : call[c].pc \in {"get", "handle"} /\ call[c].sess = s
    BY <1>5, <1>7
  <2>2. \/ At(s) = "get" /\ Hand(s) = None
        \/ At(s) = "yield" /\ Hand(s) \in Item /\ Hand(s) # None
    BY <1>2, <1>3, <2>1
  <2>3. QED
    BY <1>3, <1>6, <1>7, <2>2
<1>8. CASE ~Drained(s)
  BY <1>3, <1>4, <1>6, <1>8
<1>9. QED
  BY <1>7, <1>8

(* Where a step of the call c takes a session.                              *)
LEMMA SessionMoves ==
  ASSUME ConsumerInvariant, ConsumerInvariant', NEW c \in Call, NEW s \in SessionId,
         \A d \in Call \ {c} : call'[d] = call[d]
  PROVE  /\ call'[c].pc = "get" /\ call'[c].sess = s => At(s)' = "get" /\ Hand(s)' = None
         /\ call'[c].pc = "handle" /\ call'[c].sess = s
              => At(s)' = "yield" /\ Hand(s)' = call'[c].hand
         /\ Pumps(c, s) /\ ~Pumps(c, s)' => At(s)' = "off" /\ Hand(s)' = None
         /\ ~Pumps(c, s) /\ ~Pumps(c, s)' => At(s)' = At(s) /\ Hand(s)' = Hand(s)
         /\ ~Closes(c, s) /\ ~Closes(c, s)' => Closing(s)' = Closing(s)
         /\ Closes(c, s)' => Closing(s)'
         /\ Closes(c, s) => Closing(s)
         /\ ~Closes(c, s)' /\ (\A d \in Call \ {c} : ~Closes(d, s)) => ~Closing(s)'
<1>1. /\ \A d, e \in Call : PumpsIn(call, d, s) /\ PumpsIn(call, e, s) => d = e
      /\ \A d, e \in Call : PumpsIn(call', d, s) /\ PumpsIn(call', e, s) => d = e
  BY DEF ConsumerInvariant, SingleConsumer, Pumps, PumpsIn
<1>2. \A d \in Call \ {c} : /\ PumpsIn(call', d, s) <=> PumpsIn(call, d, s)
                            /\ ClosesIn(call', d, s) <=> ClosesIn(call, d, s)
  BY DEF PumpsIn, ClosesIn
<1>3. /\ call'[c].pc = "get" /\ call'[c].sess = s => At(s)' = "get" /\ Hand(s)' = None
      /\ call'[c].pc = "handle" /\ call'[c].sess = s
           => At(s)' = "yield" /\ Hand(s)' = call'[c].hand
  BY <1>1, ConsumerAt, ReadOff
<1>4. ASSUME Pumps(c, s), ~Pumps(c, s)'
      PROVE  At(s)' = "off" /\ Hand(s)' = None
  <2>1. \A d \in Call : ~PumpsIn(call', d, s)
    BY <1>1, <1>2, <1>4 DEF Pumps, PumpsIn
  <2>2. QED
    BY <1>1, <2>1, ConsumerAt, ReadOff
<1>5. ASSUME ~Pumps(c, s), ~Pumps(c, s)'
      PROVE  At(s)' = At(s) /\ Hand(s)' = Hand(s)
  <2>1. \A d \in Call : PumpsIn(call', d, s) <=> PumpsIn(call, d, s)
    BY <1>2, <1>5 DEF Pumps, PumpsIn
  <2>2. CASE \A d \in Call : ~PumpsIn(call, d, s)
    BY <1>1, <2>1, <2>2, ConsumerAt, ReadOff
  <2>3. ASSUME NEW d \in Call, PumpsIn(call, d, s)
        PROVE  At(s)' = At(s) /\ Hand(s)' = Hand(s)
    <3>1. d # c /\ call'[d] = call[d] /\ call[d].sess = s /\ call[d].pc \in {"get", "handle"}
      BY <1>5, <2>3 DEF Pumps, PumpsIn, Draining
    <3>2. QED
      BY <1>1, <3>1, ConsumerAt, ReadOff
  <2>4. QED
    BY <2>2, <2>3
<1>6. /\ ~Closes(c, s) /\ ~Closes(c, s)' => Closing(s)' = Closing(s)
      /\ Closes(c, s)' => Closing(s)'
      /\ Closes(c, s) => Closing(s)
      /\ ~Closes(c, s)' /\ (\A d \in Call \ {c} : ~Closes(d, s)) => ~Closing(s)'
  <2>1. Closing(s) \in BOOLEAN /\ Closing(s)' \in BOOLEAN
    BY DEF Closing
  <2>2. QED
    BY <1>2, <2>1, ReadOff DEF Closes, ClosesIn
<1>7. QED
  BY <1>3, <1>4, <1>5, <1>6

-----------------------------------------------------------------------------
(* What a step of a session does to the session x, to the place a of its    *)
(* consumer and to the item h it holds.                                     *)

OneStep(s)  == One(s)!Next \/ UNCHANGED One(s)!vars
OneSound(s) == Sound(session[s], At(s), Hand(s))

Works(x, h, y) ==
  \/ x.runner = "created" /\ y = Began(x)
  \/ x.runner = "doomed" /\ y = Stillborn(x)
  \/ \E k \in EventKinds : y = Emitted(x, k)
  \/ x.runner = "running" /\ y = Reported(x)
  \/ /\ ~Finished(x)
     /\ \E how \in Spoke : /\ how = "cancelled" => x.runner = "cancelling"
                           /\ y = Ended(x, how)
  \/ \E r \in ReqId : /\ x.runner # "none" /\ Fresh(x, r) /\ h # Request(r)
                      /\ y = Asked(x, r)

Takes(x, a, h, y, b, i) ==
  /\ a = "get" /\ x.queue # << >>
  /\ \/ /\ ~Ends(Head(x.queue)) /\ y = Taken(x)
        /\ \/ b = "yield" /\ i = Head(x.queue)
           \/ b = a /\ i = h /\ Head(x.queue).kind # "permission"
     \/ /\ Ends(Head(x.queue)) /\ y \in {Taken(x), Forgotten(Taken(x))}
        /\ b = "off" /\ i = h

Resumes(x, h, y, b) == \/ h.kind = "permission" /\ b = "off" /\ y = Surfaced(x, h.id)
                       \/ h.kind # "permission" /\ b = "get" /\ y = x

Forgets(x, y) == Finished(x) /\ y \in {Forgotten(x), Forgotten(Evicted(x))}
Stops(x, y)   == x.runner # "none" /\ y \in {CancelRunner(x), CancelRunner(Evicted(x))}

GoesOn(x, a, h, y, b, i) ==
  \/ y = x /\ b = a /\ i = h
  \/ b = a /\ i = h /\ Works(x, h, y)
  \/ a = "off" /\ b = "get" /\ i = h /\ x.runner = "none" /\ y = Started
  \/ a = "off" /\ b = "get" /\ i = h /\ Parked(x) /\ y = Resolved(x, x.last)
  \/ Takes(x, a, h, y, b, i)
  \/ a = "yield" /\ i = None /\ Resumes(x, h, y, b)
  \/ a # "off" /\ b = "off" /\ i = None /\ y = CancelRunner(x)
  \/ b = a /\ i = h /\ Forgets(x, y)

Goes(x, a, h, y, b, i) == \/ GoesOn(x, a, h, y, b, i)
                          \/ b = a /\ i = h /\ Stops(x, y)

(* BackendSession's steps, read that way. *)
LEMMA StepGoes ==
  ASSUME NEW s \in SessionId, OneStep(s)
  PROVE  \/ GoesOn(session[s], At(s), Hand(s), session'[s], At(s)', Hand(s)')
         \/ /\ At(s)' = At(s) /\ Hand(s)' = Hand(s) /\ Stops(session[s], session'[s])
            /\ ~Closing(s) /\ Closing(s)'
<1>1. PICK x, a, h : x = session[s] /\ a = At(s) /\ h = Hand(s)
  OBVIOUS
<1>2. PICK y, b, i : y = session'[s] /\ b = At(s)' /\ i = Hand(s)'
  OBVIOUS
<1> SUFFICES \/ GoesOn(x, a, h, y, b, i)
             \/ b = a /\ i = h /\ Stops(x, y) /\ ~Closing(s) /\ Closing(s)'
  BY <1>1, <1>2
<1>3. ASSUME b = a, i = h, Works(x, h, y)
      PROVE  GoesOn(x, a, h, y, b, i)
  BY <1>3 DEF GoesOn
<1>4. ASSUME b = a, i = h, Forgets(x, y)
      PROVE  GoesOn(x, a, h, y, b, i)
  BY <1>4 DEF GoesOn
<1>5. CASE One(s)!Start
  BY <1>1, <1>2, <1>5, SameOps DEF One!Start, GoesOn
<1>6. CASE One(s)!Begin \/ One(s)!DropUnstarted
  BY <1>1, <1>2, <1>3, <1>6, SameOps DEF One!Begin, One!DropUnstarted, Works
<1>7. CASE One(s)!Emit \/ One(s)!Report
  BY <1>1, <1>2, <1>3, <1>7, SameOps DEF One!Emit, One!Report, CanReport, Works
<1>8. ASSUME NEW how \in Spoke, b = a, i = h, ~Finished(x), y = Ended(x, how),
             how = "cancelled" => x.runner = "cancelling"
      PROVE  GoesOn(x, a, h, y, b, i)
  <2>1. Works(x, h, y)
    BY <1>8 DEF Works
  <2>2. QED
    BY <1>3, <1>8, <2>1
<1>9. CASE One(s)!Return
  <2>0. b = a /\ i = h /\ One(s)!CanReturn(x) /\ y = One(s)!Ended(x, "returned")
    BY <1>1, <1>2, <1>9 DEF One!Return
  <2>1. CanReturn(x) /\ y = Ended(x, "returned")
    BY <2>0, SameOps
  <2>2. ~Finished(x) /\ "returned" \in Spoke
    BY <2>1 DEF CanReturn, Finished, Over, Spoke
  <2>3. QED
    BY <1>8, <2>0, <2>1, <2>2
<1>10. CASE One(s)!Raise
  BY <1>1, <1>2, <1>8, <1>10, SameOps DEF One!Raise, CanRaise, Finished, Over, Spoke
<1>11. CASE One(s)!Unwind
  BY <1>1, <1>2, <1>8, <1>11, SameOps DEF One!Unwind, Finished, Over, Spoke
<1>12. CASE \E r \in ReqId : One(s)!Ask(r)
  <2>1. PICK r \in ReqId : One(s)!Ask(r)
    BY <1>12
  <2>2. CanAsk(x, r) /\ h # Request(r) /\ y = Asked(x, r) /\ b = a /\ i = h
    BY <1>1, <1>2, <2>1, SameOps DEF One!Ask
  <2>3. QED
    BY <1>3, <2>2 DEF CanAsk, Talking, Works
<1>13. CASE One(s)!Resolve
  BY <1>1, <1>2, <1>13, SameOps DEF One!Resolve, GoesOn
<1>14. CASE One(s)!Take
  <2>1. Takes(x, a, h, y, b, i)
    BY <1>1, <1>2, <1>14, SameOps DEF One!Take, One!CanTake, Takes
  <2>2. QED
    BY <2>1 DEF GoesOn
<1>15. CASE One(s)!TakeEnd
  <2>1. One(s)!Forgotten(One(s)!Taken(x)) = Forgotten(Taken(x))
    BY SameOps
  <2>2. /\ a = "get" /\ x.queue # << >> /\ Ends(Head(x.queue)) /\ b = "off" /\ i = h
        /\ y \in {Taken(x), Forgotten(Taken(x))}
    BY <1>1, <1>2, <1>15, <2>1, SameOps DEF One!TakeEnd, One!CanTake
  <2>3. QED
    BY <2>2 DEF Takes, GoesOn
<1>16. CASE One(s)!Resume
  <2>1. a = "yield" /\ i = None
    BY <1>1, <1>2, <1>16 DEF One!Resume
  <2>2. CASE h.kind = "permission"
    <3>1. b = "off" /\ y = One(s)!Surfaced(x, h.id)
      BY <1>1, <1>2, <1>16, <2>2 DEF One!Resume
    <3>2. y = Surfaced(x, h.id)
      BY <3>1, SameOps
    <3>3. Resumes(x, h, y, b)
      BY <2>2, <3>1, <3>2 DEF Resumes
    <3>4. QED
      BY <2>1, <3>3 DEF GoesOn
  <2>3. CASE h.kind # "permission"
    BY <1>1, <1>2, <1>16, <2>1, <2>3 DEF One!Resume, Resumes, GoesOn
  <2>4. QED
    BY <2>2, <2>3
<1>17. CASE One(s)!Abort
  BY <1>1, <1>2, <1>17, SameOps DEF One!Abort, GoesOn
<1>18. CASE One(s)!Close
  <2>1. /\ b = a /\ i = h /\ x.runner # "none"
        /\ y \in {CancelRunner(x), CancelRunner(Evicted(x))}
    BY <1>1, <1>2, <1>18, SameOps DEF One!Close
  <2>2. ~Closing(s) /\ Closing(s)'
    BY <1>18 DEF One!Close
  <2>3. QED
    BY <2>1, <2>2 DEF Stops
<1>19. CASE One(s)!CloseFinished
  <2>1. b = a /\ i = h /\ Finished(x) /\ y \in {Forgotten(x), Forgotten(Evicted(x))}
    BY <1>1, <1>2, <1>19, SameOps DEF One!CloseFinished
  <2>2. QED
    BY <1>4, <2>1 DEF Forgets
<1>20. CASE One(s)!FinishClose
  BY <1>1, <1>2, <1>4, <1>20, SameOps DEF One!FinishClose, Forgets
<1>21. CASE UNCHANGED One(s)!vars
  BY <1>1, <1>2, <1>21 DEF One!vars, GoesOn
<1>22. QED
  BY <1>5, <1>6, <1>7, <1>9, <1>10, <1>11, <1>12, <1>13, <1>14, <1>15, <1>16,
     <1>17, <1>18, <1>19, <1>20, <1>21
  DEF OneStep, One!Next

(* The close() aside, which begins to wait. *)
LEMMA StepStops ==
  ASSUME NEW s \in SessionId, OneStep(s)
  PROVE  Goes(session[s], At(s), Hand(s), session'[s], At(s)', Hand(s)')
BY StepGoes DEF Goes

(* Every step of a session keeps it sound (session.py:37-132). *)
LEMMA SoundGoes ==
  ASSUME NEW x \in Session, NEW a, NEW h \in Item \cup {None}, h = None <=> a # "yield",
         Sound(x, a, h), NEW y, NEW b, NEW i, Goes(x, a, h, y, b, i)
  PROVE  Sound(y, b, i)
<1>1. CASE b = a /\ i = h /\ Works(x, h, y)
  <2>1. Finished(x) <=> x.runner \in Spoke \/ x.runner = "unstarted"
    BY DEF Finished, Over
  <2>2. QED
    BY <1>1, <2>1, SoundRunner, SoundEmit, SoundEnded, SoundAsked DEF Works
<1>2. CASE a = "off" /\ b = "get" /\ i = h /\ y = Started
  BY <1>2, SoundBirth
<1>3. CASE a = "off" /\ b = "get" /\ i = h /\ Parked(x) /\ y = Resolved(x, x.last)
  BY <1>3, SoundResolved
<1>4. CASE Takes(x, a, h, y, b, i)
  <2>1. CASE ~Ends(Head(x.queue))
    BY <1>4, <2>1, SoundTaken DEF Takes
  <2>2. CASE Ends(Head(x.queue))
    <3>1. /\ Taken(x) \in Session /\ Sound(Taken(x), "off", None)
          /\ Finished(Taken(x))
      BY <1>4, <2>2, TakenType, SoundTakenEnd DEF Takes, Finished, Over
    <3>2. QED
      BY <1>4, <2>2, <3>1, SoundForgotten DEF Takes
  <2>3. QED
    BY <2>1, <2>2
<1>5. CASE a = "yield" /\ i = None /\ Resumes(x, h, y, b)
  BY <1>5, SoundResumed DEF Resumes
<1>6. CASE a # "off" /\ b = "off" /\ i = None /\ y = CancelRunner(x)
  BY <1>6, SoundAborted
<1>7. CASE b = a /\ i = h /\ (Forgets(x, y) \/ Stops(x, y))
  <2>1. /\ Evicted(x) \in Session /\ Sound(Evicted(x), a, h)
        /\ Finished(x) => Finished(Evicted(x))
    BY ClosedType, SoundRunner DEF Evicted, Finished, Session
  <2>2. QED
    BY <1>7, <2>1, SoundRunner, SoundForgotten DEF Forgets, Stops
<1>8. QED
  BY <1>1, <1>2, <1>3, <1>4, <1>5, <1>6, <1>7 DEF Goes, GoesOn

(* What no step of a session undoes: it stays started, done and evicted, and *)
(* a runner that is over stays as it ended.                                  *)
Ages(x, y) == x.runner # "none" => /\ y.runner # "none"
                                   /\ x.done => y.done
                                   /\ x.evicted => y.evicted
                                   /\ y.runner \in Live => x.runner \in Live
                                   /\ Finished(x) => y.runner = x.runner

(* The methods of session.py and the steps of a runner do not (session.py:37-132). *)
LEMMA AgingRunner ==
  ASSUME NEW x \in Session
  PROVE  /\ x.runner = "created" => Ages(x, Began(x))
         /\ x.runner = "doomed" => Ages(x, Stillborn(x))
         /\ \A k \in EventKinds : Ages(x, Emitted(x, k))
         /\ x.runner = "running" => Ages(x, Reported(x))
         /\ \A r \in ReqId : Ages(x, Asked(x, r))
         /\ \A how \in Spoke : ~Finished(x) => Ages(x, Ended(x, how))
<1> USE DEF Ages, Live, Finished, Over, Spoke
<1>1. /\ x.runner = "created" => Ages(x, Began(x))
      /\ x.runner = "doomed" => Ages(x, Stillborn(x))
  BY DEF Began, Stillborn, Session
<1>2. ASSUME NEW k \in EventKinds PROVE Ages(x, Emitted(x, k))
  <2>1. Event(k) \in Item
    BY ItemTypes, SessionAssumption DEF Kinds
  <2>2. QED
    BY <2>1, PutFields DEF Emitted
<1>3. ASSUME x.runner = "running" PROVE Ages(x, Reported(x))
  <2> DEFINE z == Put(x, Event("result"))
  <2>1. Event("result") \in Item
    BY ItemTypes DEF Kinds
  <2>2. z \in Session /\ z.done = x.done /\ z.evicted = x.evicted
    BY <2>1, PutType, PutFields
  <2>3. Reported(x) = [z EXCEPT !.runner = "reported"]
    BY DEF Reported
  <2> HIDE DEF z
  <2>4. QED
    BY <1>3, <2>2, <2>3 DEF Session
<1>4. ASSUME NEW r \in ReqId PROVE Ages(x, Asked(x, r))
  <2> DEFINE z == Put(x, Request(r))
  <2>1. Request(r) \in Item
    BY ItemTypes
  <2>2. z \in Session /\ z.done = x.done /\ z.evicted = x.evicted /\ z.runner = x.runner
    BY <2>1, PutType, PutFields
  <2>3. Asked(x, r) = [z EXCEPT !.pending = @ \cup {r}]
    BY DEF Asked
  <2> HIDE DEF z
  <2>4. QED
    BY <2>2, <2>3 DEF Session
<1>5. ASSUME NEW how \in Spoke, ~Finished(x) PROVE Ages(x, Ended(x, how))
  BY <1>5, EndedEffect
<1>6. QED
  BY <1>1, <1>2, <1>3, <1>4, <1>5

(* Nor do those that take, answer, cancel and forget (session.py:89-132). *)
LEMMA AgingMethods ==
  ASSUME NEW x \in Session
  PROVE  /\ Ages(x, x)
         /\ x.runner = "none" => Ages(x, Started)
         /\ \A r : Ages(x, Resolved(x, r)) /\ Ages(x, Surfaced(x, r))
         /\ Ages(x, Taken(x)) /\ Ages(x, Forgotten(Taken(x)))
         /\ Ages(x, CancelRunner(x)) /\ Ages(x, Forgotten(x))
         /\ Ages(x, CancelRunner(Evicted(x))) /\ Ages(x, Forgotten(Evicted(x)))
<1> USE DEF Ages, Live, Finished, Over, Spoke
<1>1. \A r : Ages(x, Resolved(x, r)) /\ Ages(x, Surfaced(x, r))
  BY DEF Resolved, Surfaced, Session
<1>2. /\ Taken(x).runner = x.runner /\ Taken(x).evicted = x.evicted
      /\ Forgotten(Taken(x)).runner = x.runner /\ Forgotten(Taken(x)).evicted = x.evicted
      /\ x.done => Taken(x).done /\ Forgotten(Taken(x)).done
  BY DEF Taken, Forgotten, Session
<1>3. ASSUME NEW z \in Session, z.runner = x.runner, z.done = x.done, x.evicted => z.evicted
      PROVE  Ages(x, CancelRunner(z)) /\ Ages(x, Forgotten(z))
  <2>1. /\ CancelRunner(z).done = z.done /\ CancelRunner(z).evicted = z.evicted
        /\ \/ CancelRunner(z).runner = z.runner
           \/ z.runner \in Live /\ CancelRunner(z).runner \in {"doomed", "cancelling"}
        /\ Forgotten(z).runner = z.runner /\ Forgotten(z).done = z.done
        /\ Forgotten(z).evicted = z.evicted
    BY DEF CancelRunner, Forgotten, Session
  <2>2. QED
    BY <1>3, <2>1
<1>4. /\ Evicted(x) \in Session /\ Evicted(x).runner = x.runner
      /\ Evicted(x).done = x.done /\ Evicted(x).evicted
  BY DEF Evicted, Session
<1>5. /\ Ages(x, CancelRunner(x)) /\ Ages(x, Forgotten(x))
      /\ Ages(x, CancelRunner(Evicted(x))) /\ Ages(x, Forgotten(Evicted(x)))
  BY <1>3, <1>4
<1>6. x.runner = "none" => Ages(x, Started)
  OBVIOUS
<1>7. Ages(x, x) /\ Ages(x, Taken(x)) /\ Ages(x, Forgotten(Taken(x)))
  BY <1>2
<1> HIDE DEF Ages
<1>8. QED
  BY <1>1, <1>5, <1>6, <1>7

(* So no step of a session does. *)
LEMMA AgesGoes ==
  ASSUME NEW x \in Session, NEW a, NEW h, NEW y, NEW b, NEW i, Goes(x, a, h, y, b, i)
  PROVE  Ages(x, y)
<1>1. CASE Works(x, h, y)
  BY <1>1, AgingRunner DEF Works
<1>2. CASE Takes(x, a, h, y, b, i) \/ Resumes(x, h, y, b)
  BY <1>2, AgingMethods DEF Takes, Resumes
<1>3. CASE Forgets(x, y) \/ Stops(x, y)
  BY <1>3, AgingMethods DEF Forgets, Stops
<1>4. QED
  BY <1>1, <1>2, <1>3, AgingMethods DEF Goes, GoesOn

-----------------------------------------------------------------------------
(* The registry and the calls.                                              *)

InPump == Draining \cup {"last"}

(* A registered session was started, is not marked evicted and has one key; *)
(* one that a call awaits in close() is unregistered, and no other call     *)
(* awaits it; a session a call pumps or answers is registered for no other  *)
(* task; what a pump publishes last follows the end of its drain.           *)
RegistryInv ==
  /\ \A t \in Task : live[t] # None => /\ session[live[t]].runner # "none"
                                       /\ ~session[live[t]].evicted
  /\ \A t, u \in Task : live[t] = live[u] /\ live[t] # None => t = u
  /\ \A c \in Call : call[c].pc \in AtClose =>
       /\ session[call[c].sess].runner # "none"
       /\ \A t \in Task : live[t] # call[c].sess
       /\ \A d \in Call : Closes(d, call[c].sess) => d = c
  /\ \A c \in Call : call[c].pc \in InPump \cup {"answer"} =>
       /\ session[call[c].sess].runner # "none"
       /\ \A t \in Task : live[t] = call[c].sess => t = call[c].task
  /\ \A c \in Call : call[c].pc = "last" => session[call[c].sess].done

Registered(s) == \E t \in Task : live[t] = s

(* How a step treats the session s: who marks it evicted unregisters it, who *)
(* awaits its close() evicts or cancels, who starts it registers it, and of *)
(* a session that stays registered nothing but the answered request is      *)
(* withdrawn.                                                               *)
Tended(s) ==
  /\ session'[s].evicted => session[s].evicted \/ ~Registered(s)'
  /\ ~Closing(s) /\ Closing(s)' => session'[s].evicted \/ "cancel" \in Faults
  /\ session[s].runner = "none" /\ session'[s].runner # "none" => Registered(s)'
  /\ session[s].runner # "none" /\ Registered(s)' =>
       \/ session[s].pending \subseteq session'[s].pending
       \/ /\ Parked(session[s]) /\ At(s)' # "off"
          /\ session[s].pending \ {session[s].last} \subseteq session'[s].pending

(* A step that changes no call leaves consumers and closers where they are. *)
LEMMA StillCalls ==
  ASSUME call' = call, NEW s
  PROVE  At(s)' = At(s) /\ Hand(s)' = Hand(s) /\ Closing(s)' = Closing(s)
<1>1. Closing(s) \in BOOLEAN /\ Closing(s)' \in BOOLEAN
  BY DEF Closing
<1>2. QED
  BY <1>1, ReadOff

(* Nothing happens to a session whose object, consumer and closer stay.     *)
LEMMA Untouched ==
  ASSUME NEW s, session'[s] = session[s],
         At(s)' = At(s), Hand(s)' = Hand(s), Closing(s)' = Closing(s)
  PROVE  OneStep(s) /\ Tended(s)
BY DEF OneStep, One!vars, Tended

(* A step of the call c with the session s is none of any other session.    *)
LEMMA Elsewhere ==
  ASSUME ConsumerInvariant, ConsumerInvariant', NEW c \in Call, NEW s,
         \A d \in Call \ {c} : call'[d] = call[d],
         \A u \in SessionId \ {s} : session'[u] = session[u],
         call[c].pc \in Draining \cup AtClose => call[c].sess = s,
         call'[c].pc \in Draining \cup AtClose => call'[c].sess = s
  PROVE  \A u \in SessionId \ {s} : OneStep(u) /\ Tended(u)
<1> SUFFICES ASSUME NEW u \in SessionId \ {s}
             PROVE  OneStep(u) /\ Tended(u)
  OBVIOUS
<1>1. ~Pumps(c, u) /\ ~Pumps(c, u)' /\ ~Closes(c, u) /\ ~Closes(c, u)'
  BY DEF Pumps, Closes, ClosesIn
<1>2. At(u)' = At(u) /\ Hand(u)' = Hand(u) /\ Closing(u)' = Closing(u)
  BY <1>1, SessionMoves
<1>3. QED
  BY <1>2, Untouched

(* What a step does with a session it does not unregister, start or close.  *)
LEMMA Tending ==
  ASSUME NEW s, session'[s].evicted = session[s].evicted,
         ~Closing(s) => ~Closing(s)',
         session[s].runner = "none" => session'[s].runner = "none",
         session[s].pending \subseteq session'[s].pending
  PROVE  Tended(s)
BY DEF Tended

(* A session of which no task is left may be cancelled and forgotten.       *)
LEMMA Dismissing ==
  ASSUME NEW s, ~Registered(s)',
         ~Closing(s) /\ Closing(s)' => session'[s].evicted \/ "cancel" \in Faults,
         session[s].runner = "none" => session'[s].runner = "none"
  PROVE  Tended(s)
BY DEF Tended

-----------------------------------------------------------------------------
(* Each step of the executor is a step of each session.                     *)

EachSession == \A s \in SessionId : OneStep(s) /\ Tended(s)

(* Calls that arrive or publish, and do not touch a session                 *)
(* (executor.py:140-160, 262-285).                                          *)
LEMMA NoSessionStep ==
  ASSUME TypeOK, ConsumerInvariant, ConsumerInvariant', NEW c \in Call,
         session' = session, \A d \in Call \ {c} : call'[d] = call[d],
         call[c].pc \notin Draining \cup AtClose, call'[c].pc \notin Draining \cup AtClose
  PROVE  EachSession
<1>1. \A s \in SessionId \ {None} : OneStep(s) /\ Tended(s)
  BY Elsewhere
<1>2. QED
  BY <1>1, ExecutorAssumption DEF EachSession

(* A step with one session. *)
LEMMA OneSessionStep ==
  ASSUME TypeOK, ConsumerInvariant, ConsumerInvariant', NEW c \in Call, NEW s \in SessionId,
         NEW y, session' = [session EXCEPT ![s] = y],
         \A d \in Call \ {c} : call'[d] = call[d],
         call[c].pc \in Draining \cup AtClose => call[c].sess = s,
         call'[c].pc \in Draining \cup AtClose => call'[c].sess = s,
         OneStep(s) /\ Tended(s)
  PROVE  EachSession
<1>1. \A u \in SessionId \ {s} : session'[u] = session[u]
  BY DEF TypeOK
<1>2. \A u \in SessionId \ {s} : OneStep(u) /\ Tended(u)
  BY <1>1, Elsewhere
<1>3. QED
  BY <1>2 DEF EachSession

(* An admitted call starts a session and drains it (executor.py:163-178).   *)
LEMMA AdmitEach ==
  ASSUME TypeOK, ConsumerInvariant, ConsumerInvariant', NEW c \in Call, Admit(c)
  PROVE  EachSession
<1>1. PICK s \in Unused : /\ Register(call[c].task, s)
                          /\ EnterPump(c, call[c].task, s, Started)
  BY DEF Admit
<1>2. /\ s \in SessionId /\ session[s].runner = "none" /\ ~Drained(s)
      /\ call[c].task \in Task /\ call[c].pc \notin Draining \cup AtClose
  BY CallTypes DEF Unused, ConsumerInvariant, Admit, Draining, AtClose
<1>3. /\ session' = [session EXCEPT ![s] = Started] /\ session'[s] = Started
      /\ \A d \in Call \ {c} : call'[d] = call[d]
      /\ call'[c].pc = "get" /\ call'[c].sess = s
  BY <1>1, <1>2 DEF EnterPump, TypeOK
<1>4. At(s) = "off" /\ Hand(s) = None
  BY <1>2, SessionTypes
<1>5. At(s)' = "get" /\ Hand(s)' = None /\ Closing(s)' = Closing(s)
  BY <1>2, <1>3, SessionMoves DEF Closes, ClosesIn, AtClose
<1>6. OneStep(s)
  BY <1>2, <1>3, <1>4, <1>5, SameOps DEF OneStep, One!Next, One!Start
<1>7. Registered(s)'
  BY <1>1, <1>2 DEF Registered, Register, TypeOK
<1>8. Tended(s)
  BY <1>2, <1>3, <1>5, <1>7 DEF Tended, Started, Unborn
<1>9. QED
  BY <1>2, <1>3, <1>6, <1>8, OneSessionStep DEF AtClose

(* A follow-up resolves the request and drains on, or is refused            *)
(* (executor.py:171-178).                                                   *)
LEMMA AnswerEach ==
  ASSUME TypeOK, ConsumerInvariant, ConsumerInvariant', NEW c \in Call, Answer(c)
  PROVE  EachSession
<1>1. PICK s \in SessionId : s = call[c].sess
  BY CallTypes DEF Answer
<1>2. /\ session[s] \in Session /\ call[c].task \in Task
      /\ call[c].pc \notin Draining \cup AtClose
  BY CallTypes DEF Answer, Draining, AtClose, TypeOK
<1>3. CASE Answerable(s)
  <2> DEFINE x == session[s]
             y == Resolved(x, x.last)
  <2>1. Parked(x) /\ ~Drained(s)
    BY <1>3 DEF Answerable, ConsumerInvariant
  <2>2. EnterPump(c, call[c].task, s, y)
    BY <1>1, <1>3 DEF Answer
  <2>3. /\ session' = [session EXCEPT ![s] = y] /\ session'[s] = y
        /\ \A d \in Call \ {c} : call'[d] = call[d]
        /\ call'[c].pc = "get" /\ call'[c].sess = s
    BY <1>2, <2>2 DEF EnterPump, TypeOK
  <2>4. /\ y.evicted = x.evicted /\ y.runner = x.runner
        /\ x.pending \ {x.last} \subseteq y.pending
    BY <1>2 DEF Resolved, Session
  <2> HIDE DEF y
  <2>5. At(s) = "off" /\ Hand(s) = None
    BY <2>1, SessionTypes
  <2>6. At(s)' = "get" /\ Hand(s)' = None /\ Closing(s)' = Closing(s)
    BY <1>2, <2>3, SessionMoves DEF Closes, ClosesIn, AtClose
  <2>7. OneStep(s)
    <3>1. One(s)!Parked(x) /\ One(s)!Resolved(x, x.last) = y
      BY <2>1, SameOps DEF y
    <3>2. One(s)!Resolve
      BY <2>3, <2>5, <2>6, <3>1 DEF One!Resolve
    <3>3. QED
      BY <3>2 DEF OneStep, One!Next
  <2>8. Tended(s)
    BY <2>1, <2>3, <2>4, <2>6 DEF Tended
  <2>9. QED
    BY <1>2, <2>3, <2>7, <2>8, OneSessionStep DEF AtClose
<1>4. CASE ~Answerable(s)
  <2>1. session' = session /\ Return(c)
    BY <1>1, <1>4 DEF Answer
  <2>2. call'[c].pc \notin Draining \cup AtClose /\ \A d \in Call \ {c} : call'[d] = call[d]
    BY <2>1 DEF Return, Idle, Draining, AtClose, TypeOK
  <2>3. QED
    BY <1>2, <2>1, <2>2, NoSessionStep
<1>5. QED
  BY <1>3, <1>4

(* What a pump's step needs to know of its session.                         *)
LEMMA Pumping ==
  ASSUME TypeOK, ConsumerInvariant, NEW c \in Call, call[c].pc \in Draining
  PROVE  /\ call[c].sess \in SessionId /\ call[c].task \in Task
         /\ session[call[c].sess] \in Session /\ Pumps(c, call[c].sess)
         /\ session[call[c].sess].runner # "none"
         /\ At(call[c].sess) = IF call[c].pc = "get" THEN "get" ELSE "yield"
         /\ Hand(call[c].sess) = call[c].hand
<1>1. /\ call[c].sess \in SessionId /\ call[c].task \in Task
      /\ session[call[c].sess] \in Session
      /\ call[c].pc = "handle" <=> call[c].hand # None
  BY CallTypes DEF TypeOK, Draining
<1>2. Pumps(c, call[c].sess)
  BY DEF Pumps
<1>3. session[call[c].sess].runner # "none"
  BY <1>1, <1>2 DEF ConsumerInvariant, Drained
<1>4. CASE call[c].pc = "get"
  BY <1>1, <1>2, <1>3, <1>4, SessionTypes
<1>5. CASE call[c].pc = "handle"
  BY <1>1, <1>2, <1>3, <1>5, SessionTypes
<1>6. QED
  BY <1>4, <1>5 DEF Draining

(* Where a pump's step leaves its session.                                  *)
LEMMA PumpMoves ==
  ASSUME TypeOK, ConsumerInvariant, ConsumerInvariant', NEW c \in Call,
         NEW s \in SessionId, call[c].sess = s,
         call[c].pc \in Draining, \A d \in Call \ {c} : call'[d] = call[d],
         call'[c].pc \notin AtClose
  PROVE  /\ Closing(s)' = Closing(s)
         /\ call'[c].pc \notin Draining => At(s)' = "off" /\ Hand(s)' = None
         /\ call'[c].pc = "get" /\ call'[c].sess = s => At(s)' = "get" /\ Hand(s)' = None
         /\ call'[c].pc = "handle" /\ call'[c].sess = s
              => At(s)' = "yield" /\ Hand(s)' = call'[c].hand
<1>1. Pumps(c, s) /\ ~Closes(c, s) /\ ~Closes(c, s)'
  BY DEF Pumps, Closes, ClosesIn, Draining, AtClose
<1>2. call'[c].pc \notin Draining => ~Pumps(c, s)'
  BY DEF Pumps
<1>3. QED
  BY <1>1, <1>2, SessionMoves

(* The fields a take leaves alone (session.py:103-110).                     *)
LEMMA TakenFields ==
  ASSUME NEW x \in Session
  PROVE  /\ Taken(x).evicted = x.evicted /\ Taken(x).runner = x.runner
         /\ Taken(x).pending = x.pending /\ Taken(x).last = x.last
         /\ Taken(x).queue = Tail(x.queue)
         /\ Taken(x).done = (x.done \/ Ends(Head(x.queue)))
BY DEF Taken, Session

(* The pump takes an event (executor.py:201-219). *)
LEMMA TakeEventEach ==
  ASSUME TypeOK, ConsumerInvariant, ConsumerInvariant', NEW c \in Call,
         TakeQuietly(c) \/ TakeEvent(c)
  PROVE  EachSession
<1>1. PICK s \in SessionId : s = call[c].sess
  BY Pumping DEF TakeQuietly, TakeEvent, CanTake, Draining
<1> DEFINE x == session[s]
           y == Taken(x)
<1>2. /\ CanTake(c) /\ call[c].pc = "get" /\ x.queue # << >>
      /\ session' = [session EXCEPT ![s] = y]
      /\ Incoming(c) = Head(x.queue)
  BY <1>1 DEF TakeQuietly, TakeEvent, CanTake, TakeNext, Incoming
<1>3. /\ x \in Session /\ At(s) = "get" /\ Hand(s) = None
      /\ call[c].pc \in Draining /\ call \in [Call -> CallState]
  BY <1>1, <1>2, Pumping, CallTypes DEF Draining, TypeOK
<1>4. session'[s] = y
  BY <1>2 DEF TypeOK
<1>5. y.evicted = x.evicted /\ y.runner = x.runner /\ y.pending = x.pending
  BY <1>3, TakenFields
<1>6. One(s)!Taken(x) = y /\ (One(s)!Ends(Head(x.queue)) <=> Ends(Head(x.queue)))
  BY SameOps
<1> HIDE DEF y
<1>7. CASE TakeQuietly(c)
  <2>1. /\ call' = call /\ Head(x.queue).kind \in {"text", "result"}
    BY <1>2, <1>7 DEF TakeQuietly
  <2>2. At(s)' = At(s) /\ Hand(s)' = Hand(s) /\ Closing(s)' = Closing(s)
    BY <2>1, StillCalls
  <2>3. OneStep(s)
    <3>1. ~Ends(Head(x.queue)) /\ Head(x.queue).kind # "permission"
      BY <2>1 DEF Ends
    <3>2. One(s)!Take
      BY <1>2, <1>3, <1>4, <1>6, <2>2, <3>1 DEF One!Take, One!CanTake
    <3>3. QED
      BY <3>2 DEF OneStep, One!Next
  <2>4. Tended(s)
    BY <1>4, <1>5, <2>2, Tending
  <2>5. QED
    BY <1>1, <1>2, <2>1, <2>3, <2>4, OneSessionStep
<1>8. CASE TakeEvent(c)
  <2>1. /\ call' = [call EXCEPT ![c].pc = "handle", ![c].hand = Head(x.queue)]
        /\ Head(x.queue).kind \in {"text", "tool", "file", "permission"}
    BY <1>2, <1>8 DEF TakeEvent
  <2>2. /\ \A d \in Call \ {c} : call'[d] = call[d]
        /\ call'[c].pc = "handle" /\ call'[c].sess = s /\ call'[c].hand = Head(x.queue)
    BY <1>1, <1>3, <2>1 DEF CallState, CallFields
  <2>3. At(s)' = "yield" /\ Hand(s)' = Head(x.queue) /\ Closing(s)' = Closing(s)
    BY <1>1, <1>3, <2>2, PumpMoves DEF AtClose
  <2>4. OneStep(s)
    <3>1. ~Ends(Head(x.queue))
      BY <2>1 DEF Ends
    <3>2. One(s)!Take
      BY <1>2, <1>3, <1>4, <1>6, <2>3, <3>1 DEF One!Take, One!CanTake
    <3>3. QED
      BY <3>2 DEF OneStep, One!Next
  <2>5. Tended(s)
    BY <1>4, <1>5, <2>3, Tending
  <2>6. QED
    BY <1>1, <1>2, <2>2, <2>4, <2>5, OneSessionStep
<1>9. QED
  BY <1>7, <1>8

(* A session its only task is popped from is registered no more             *)
(* (executor.py:349-352).                                                   *)
LEMMA PoppedSession ==
  ASSUME TypeOK, NEW s \in SessionId, NEW t, PopLive(t),
         \A u \in Task : live[u] = s => u = t
  PROVE  ~Registered(s)'
BY ExecutorAssumption DEF Registered, PopLive, TypeOK

(* The pump takes the sentinel or an error (executor.py:220-273). *)
LEMMA TakeEndEach ==
  ASSUME TypeOK, ConsumerInvariant, ConsumerInvariant', RegistryInv, NEW c \in Call,
         TakeError(c) \/ TakeDone(c)
  PROVE  EachSession
<1>1. PICK s \in SessionId : s = call[c].sess
  BY Pumping DEF TakeError, TakeDone, CanTake, Draining
<1> DEFINE x == session[s]
           y == Taken(x)
<1>2. /\ call[c].pc = "get" /\ x.queue # << >>
      /\ Ends(Head(x.queue))
  BY <1>1 DEF TakeError, TakeDone, CanTake, Incoming, Ends
<1>3. /\ x \in Session /\ At(s) = "get" /\ Hand(s) = None
      /\ call[c].pc \in Draining /\ call \in [Call -> CallState]
      /\ x.runner # "none"
  BY <1>1, <1>2, Pumping, CallTypes DEF Draining, TypeOK
<1>4. /\ \A d \in Call \ {c} : call'[d] = call[d]
      /\ call'[c].pc \in {"fail", "last", "complete"}
  BY <1>3 DEF TakeError, TakeDone, Goto, CallState, CallFields
<1>5. At(s)' = "off" /\ Hand(s)' = None /\ Closing(s)' = Closing(s)
  BY <1>1, <1>3, <1>4, PumpMoves DEF AtClose, Draining
<1>6. /\ y.evicted = x.evicted /\ y.runner = x.runner /\ y.pending = x.pending
      /\ Forgotten(y).evicted = x.evicted /\ Forgotten(y).runner = x.runner
  <2>1. y \in Session
    BY <1>2, <1>3, TakenType
  <2>2. Forgotten(y).evicted = y.evicted /\ Forgotten(y).runner = y.runner
    BY <2>1 DEF Forgotten, Session
  <2>3. QED
    BY <1>3, <2>2, TakenFields
<1>7. PICK z : /\ session' = [session EXCEPT ![s] = z] /\ session'[s] = z
               /\ z = y \/ (z = Forgotten(y) /\ PopLive(call[c].task))
  BY <1>1 DEF TakeError, TakeDone, TakeNext, Discard, TypeOK
<1>8. OneStep(s)
  <2>1. /\ One(s)!Taken(x) = y /\ One(s)!Forgotten(y) = Forgotten(y)
        /\ One(s)!Ends(Head(x.queue))
    BY <1>2, SameOps
  <2> HIDE DEF y
  <2>2. One(s)!TakeEnd
    BY <1>2, <1>3, <1>5, <1>7, <2>1 DEF One!TakeEnd, One!CanTake
  <2>3. QED
    BY <2>2 DEF OneStep, One!Next
<1>9. Tended(s)
  <2>1. CASE z = y
    BY <1>5, <1>6, <1>7, <2>1, Tending
  <2>2. CASE z = Forgotten(y) /\ PopLive(call[c].task)
    <3>1. ~Registered(s)'
      BY <1>1, <1>3, <2>2, PoppedSession DEF RegistryInv, InPump
    <3>2. QED
      BY <1>3, <1>5, <1>6, <1>7, <2>2, <3>1, Dismissing
  <2>3. QED
    BY <1>7, <2>1, <2>2
<1>10. QED
  BY <1>1, <1>3, <1>4, <1>7, <1>8, <1>9, OneSessionStep DEF Draining, AtClose

(* The pump goes on after an event, or parks the session (executor.py:202-249). *)
LEMMA HandleEach ==
  ASSUME TypeOK, ConsumerInvariant, ConsumerInvariant', NEW c \in Call,
         \/ HandleText(c) \/ HandleTool(c) \/ HandleFile(c)
         \/ FlushForRequest(c) \/ HandlePermission(c)
  PROVE  EachSession
<1>1. PICK s \in SessionId : s = call[c].sess
  BY Pumping
  DEF HandleText, HandleTool, HandleFile, FlushForRequest, HandlePermission, Publishing,
      Draining
<1> DEFINE x == session[s]
<1>2. call[c].pc = "handle"
  BY DEF HandleText, HandleTool, HandleFile, FlushForRequest, HandlePermission, Publishing
<1>3. /\ x \in Session /\ At(s) = "yield" /\ Hand(s) = call[c].hand
      /\ call[c].pc \in Draining /\ call \in [Call -> CallState]
  BY <1>1, <1>2, Pumping DEF Draining, TypeOK
<1>4. CASE HandleText(c) \/ HandleTool(c) \/ HandleFile(c)
  <2>1. /\ call' = [call EXCEPT ![c].pc = "get", ![c].hand = None]
        /\ session' = session /\ call[c].hand.kind # "permission"
    BY <1>4 DEF HandleText, HandleTool, HandleFile, Publishing, Resume
  <2>2. /\ \A d \in Call \ {c} : call'[d] = call[d]
        /\ call'[c].pc = "get" /\ call'[c].sess = s
    BY <1>1, <1>3, <2>1 DEF CallState, CallFields
  <2>3. At(s)' = "get" /\ Hand(s)' = None /\ Closing(s)' = Closing(s)
    BY <1>1, <1>3, <2>2, PumpMoves DEF AtClose
  <2>4. One(s)!Resume
    BY <1>3, <2>1, <2>3 DEF One!Resume
  <2>5. OneStep(s)
    BY <2>4 DEF OneStep, One!Next
  <2>6. Tended(s)
    BY <2>1, <2>3, Tending
  <2>7. \A u \in SessionId \ {s} : OneStep(u) /\ Tended(u)
    BY <1>1, <1>3, <2>1, <2>2, Elsewhere DEF AtClose
  <2>8. QED
    BY <2>5, <2>6, <2>7 DEF EachSession
<1>5. CASE FlushForRequest(c)
  <2>1. call' = call /\ session' = session
    BY <1>5 DEF FlushForRequest
  <2>2. QED
    BY <2>1, StillCalls, Untouched DEF EachSession
<1>6. CASE HandlePermission(c)
  <2> DEFINE y == Surfaced(x, call[c].hand.id)
  <2>1. /\ session' = [session EXCEPT ![s] = y] /\ session'[s] = y
        /\ call[c].hand.kind = "permission" /\ Return(c)
    BY <1>1, <1>6 DEF HandlePermission, Publishing, TypeOK
  <2>2. /\ \A d \in Call \ {c} : call'[d] = call[d]
        /\ call'[c].pc = "idle"
    BY <1>3, <2>1 DEF Return, Idle
  <2>3. At(s)' = "off" /\ Hand(s)' = None /\ Closing(s)' = Closing(s)
    BY <1>1, <1>3, <2>2, PumpMoves DEF AtClose, Draining
  <2>4. y.evicted = x.evicted /\ y.runner = x.runner /\ y.pending = x.pending
    BY <1>3 DEF Surfaced, Session
  <2>5. One(s)!Surfaced(x, call[c].hand.id) = y
    BY SameOps
  <2> HIDE DEF y
  <2>6. One(s)!Resume
    BY <1>3, <2>1, <2>3, <2>5 DEF One!Resume
  <2>7. OneStep(s)
    BY <2>6 DEF OneStep, One!Next
  <2>8. Tended(s)
    BY <2>1, <2>3, <2>4, Tending
  <2>9. QED
    BY <1>1, <1>3, <2>1, <2>2, <2>7, <2>8, OneSessionStep DEF Draining, AtClose
<1>7. QED
  BY <1>4, <1>5, <1>6

(* A disconnect drops the session and aborts its runner (executor.py:230-236). *)
LEMMA LeavePumpEach ==
  ASSUME TypeOK, ConsumerInvariant, ConsumerInvariant', NEW c \in Call, LeavePump(c)
  PROVE  EachSession
<1>1. PICK s \in SessionId : s = call[c].sess
  BY Pumping DEF LeavePump
<1> DEFINE x == session[s]
           y == CancelRunner(x)
<1>2. /\ call[c].pc \in Draining /\ Return(c)
      /\ session' = [session EXCEPT ![s] = y]
  BY <1>1 DEF LeavePump
<1>3. /\ x \in Session /\ At(s) # "off" /\ x.runner # "none"
      /\ call \in [Call -> CallState]
  BY <1>1, <1>2, Pumping DEF TypeOK
<1>4. session'[s] = y
  BY <1>2 DEF TypeOK
<1>5. \A d \in Call \ {c} : call'[d] = call[d]
  BY <1>2, <1>3 DEF Return
<1>6. call'[c].pc = "idle"
  BY <1>2, <1>3 DEF Return, Idle
<1>7. At(s)' = "off" /\ Hand(s)' = None /\ Closing(s)' = Closing(s)
  BY <1>1, <1>2, <1>5, <1>6, PumpMoves DEF AtClose, Draining
<1>8. y.evicted = x.evicted /\ y.pending = x.pending
  BY <1>3 DEF CancelRunner, Session
<1>9. One(s)!CancelRunner(x) = y
  BY SameOps
<1> HIDE DEF y
<1>10. One(s)!Abort
  BY <1>3, <1>4, <1>7, <1>9 DEF One!Abort
<1>11. OneStep(s)
  BY <1>10 DEF OneStep, One!Next
<1>12. Tended(s)
  BY <1>3, <1>4, <1>7, <1>8, Tending
<1>13. QED
  BY <1>1, <1>2, <1>5, <1>6, <1>11, <1>12, OneSessionStep DEF Draining, AtClose

(* The end of a pump whose run is over (executor.py:262-273). *)
LEMMA FlushLastEach ==
  ASSUME TypeOK, ConsumerInvariant, ConsumerInvariant', RegistryInv,
         \A s \in SessionId : OneSound(s), NEW c \in Call, FlushLast(c)
  PROVE  EachSession
<1>1. PICK s \in SessionId : s = call[c].sess
  BY CallTypes DEF FlushLast
<1> DEFINE x == session[s]
           y == Forgotten(x)
<1>2. /\ call[c].pc = "last" /\ PopLive(call[c].task)
      /\ session' = [session EXCEPT ![s] = y] /\ session'[s] = y
      /\ x \in Session /\ call \in [Call -> CallState]
  BY <1>1 DEF FlushLast, Discard, TypeOK
<1>3. \A d \in Call \ {c} : call'[d] = call[d]
  BY <1>2 DEF FlushLast, Goto
<1>4. call'[c].pc = "complete"
  BY <1>2 DEF FlushLast, Goto, CallState, CallFields
<1>5. /\ ~Pumps(c, s) /\ ~Pumps(c, s)' /\ ~Closes(c, s) /\ ~Closes(c, s)'
  BY <1>2, <1>4 DEF Pumps, Closes, ClosesIn, Draining, AtClose
<1>6. At(s)' = At(s) /\ Hand(s)' = Hand(s) /\ Closing(s)' = Closing(s)
  BY <1>3, <1>5, SessionMoves
<1>7. Finished(x) /\ x.runner # "none"
  BY <1>1, <1>2
  DEF RegistryInv, OneSound, Sound, DrainSound, Finished, Over, Spoke
<1>8. y.evicted = x.evicted /\ y.runner = x.runner
  BY <1>2 DEF Forgotten, Session
<1>9. One(s)!Finished(x) /\ One(s)!Forgotten(x) = y /\ x \in One(s)!Marked(x)
  BY <1>7, SameOps
<1> HIDE DEF y
<1>10. One(s)!CloseFinished
  BY <1>2, <1>6, <1>9 DEF One!CloseFinished
<1>11. OneStep(s)
  BY <1>10 DEF OneStep, One!Next
<1>12. Tended(s)
  <2>1. ~Registered(s)'
    BY <1>1, <1>2, PoppedSession DEF RegistryInv, InPump
  <2>2. QED
    BY <1>2, <1>6, <1>8, <2>1, Dismissing
<1>13. QED
  BY <1>1, <1>2, <1>3, <1>4, <1>11, <1>12, OneSessionStep DEF Draining, AtClose

(* A registered session is unregistered and closed (session.py:122-132).    *)
LEMMA CloseEach ==
  ASSUME TypeOK, ConsumerInvariant, ConsumerInvariant', RegistryInv, NEW c \in Call,
         NEW s \in SessionId, NEW t \in Task, live[t] = s, PopLive(t),
         NEW x \in {session[s], Evicted(session[s])},
         x.evicted \/ "cancel" \in Faults,
         session' = [session EXCEPT ![s] = Closed(x)],
         \A d \in Call \ {c} : call'[d] = call[d],
         call[c].pc \notin Draining \cup AtClose,
         Finished(session[s]) => call'[c].pc \notin Draining \cup AtClose,
         ~Finished(session[s]) => call'[c].pc \in AtClose /\ call'[c].sess = s
  PROVE  EachSession
<1> DEFINE y == Closed(x)
<1>1. /\ session[s] \in Session /\ x \in Session /\ session'[s] = y
      /\ x.runner = session[s].runner
  <2>1. session[s] \in Session /\ session'[s] = y
    BY DEF TypeOK
  <2>2. Evicted(session[s]) \in Session /\ Evicted(session[s]).runner = session[s].runner
    BY <2>1, ClosedType DEF Evicted, Session
  <2>3. QED
    BY <2>1, <2>2
<1>2. /\ y.evicted = x.evicted
      /\ Finished(session[s]) => y = Forgotten(x) /\ y.runner = x.runner
      /\ ~Finished(session[s]) => y = CancelRunner(x)
  BY <1>1 DEF Closed, Finished, Forgotten, CancelRunner, Session
<1>3. session[s].runner # "none"
  BY ExecutorAssumption DEF RegistryInv
<1>4. ~Registered(s)'
  BY ExecutorAssumption, PoppedSession DEF RegistryInv
<1>5. /\ \A d \in Call : ~Closes(d, s)
      /\ ~Pumps(c, s) /\ ~Pumps(c, s)'
  BY DEF RegistryInv, Closes, ClosesIn, Pumps, Draining, AtClose
<1>6. /\ At(s)' = At(s) /\ Hand(s)' = Hand(s)
      /\ ~Closes(c, s)' => Closing(s)' = Closing(s)
      /\ Closes(c, s)' => Closing(s)'
      /\ ~Closing(s)
  BY <1>5, SessionMoves, ReadOff DEF Closes
<1>7. /\ One(s)!Finished(session[s]) <=> Finished(session[s])
      /\ One(s)!Forgotten(x) = Forgotten(x) /\ One(s)!CancelRunner(x) = CancelRunner(x)
      /\ x \in One(s)!Marked(session[s])
  BY SameOps
<1>8. Closing(s) \in BOOLEAN /\ Closing(s)' \in BOOLEAN
  BY DEF Closing
<1> HIDE DEF y
<1>9. OneStep(s)
  <2>1. CASE Finished(session[s])
    <3>1. ~Closes(c, s)'
      BY <2>1 DEF Closes, ClosesIn
    <3>2. One(s)!CloseFinished
      BY <1>1, <1>2, <1>6, <1>7, <2>1, <3>1 DEF One!CloseFinished
    <3>3. QED
      BY <3>2 DEF OneStep, One!Next
  <2>2. CASE ~Finished(session[s])
    <3>1. Closes(c, s)'
      BY <2>2 DEF Closes, ClosesIn
    <3>2. Closing(s)' = TRUE
      BY <1>6, <1>8, <3>1
    <3>3. One(s)!Close
      BY <1>1, <1>2, <1>3, <1>6, <1>7, <2>2, <3>2 DEF One!Close
    <3>4. QED
      BY <3>3 DEF OneStep, One!Next
  <2>3. QED
    BY <2>1, <2>2
<1>10. Tended(s)
  BY <1>1, <1>2, <1>3, <1>4, Dismissing
<1>11. QED
  BY <1>9, <1>10, OneSessionStep

(* A session makes room for an admission, or its task is cancelled          *)
(* (executor.py:279-285, 328-352).                                          *)
LEMMA ClosingEach ==
  ASSUME TypeOK, ConsumerInvariant, ConsumerInvariant', RegistryInv, NEW c \in Call,
         MakeRoom(c) \/ \E t \in Task : CancelTask(c, t)
  PROVE  EachSession
<1>1. /\ call \in [Call -> CallState] /\ session \in [SessionId -> Session]
      /\ call[c].pc \notin Draining \cup AtClose
  BY Zenon DEF MakeRoom, CancelTask, Draining, AtClose, TypeOK
<1>2. \A s \in SessionId : session[s] \in Session /\ Evicted(session[s]).evicted
  BY <1>1 DEF Evicted, Session
<1>3. CASE MakeRoom(c)
  <2>1. PICK v \in LiveTasks :
          /\ session' = [session EXCEPT ![live[v]] = Closed(Evicted(session[live[v]]))]
          /\ PopLive(v)
          /\ IF Finished(session[live[v]])
               THEN call' = call
               ELSE call' = [call EXCEPT ![c].pc = "evict", ![c].sess = live[v]]
    BY <1>3 DEF MakeRoom
  <2>2. v \in Task /\ live[v] \in SessionId
    BY DEF LiveTasks, TypeOK
  <2>3. PICK s \in SessionId : s = live[v]
    BY <2>2
  <2>4. /\ \A d \in Call \ {c} : call'[d] = call[d]
        /\ Finished(session[s]) => call'[c] = call[c]
        /\ ~Finished(session[s]) => call'[c].pc = "evict" /\ call'[c].sess = s
    BY <1>1, <2>1, <2>3 DEF CallState, CallFields
  <2>5. /\ Finished(session[s]) => call'[c].pc \notin Draining \cup AtClose
        /\ ~Finished(session[s]) => call'[c].pc \in AtClose /\ call'[c].sess = s
    BY <1>1, <2>4 DEF AtClose
  <2>6. session' = [session EXCEPT ![s] = Closed(Evicted(session[s]))]
    BY <2>1, <2>3
  <2>7. QED
    BY <1>1, <1>2, <2>1, <2>2, <2>3, <2>4, <2>5, <2>6, CloseEach
<1>4. ASSUME NEW t \in Task, CancelTask(c, t)
      PROVE  EachSession
  <2>1. /\ PopLive(t) /\ "cancel" \in Faults
        /\ \A d \in Call \ {c} : call'[d] = call[d]
    BY <1>1, <1>4 DEF CancelTask
  <2>2. CASE live[t] = None
    <3>1. /\ session' = session
          /\ call'[c].pc = "cancel"
      BY <1>1, <1>4, <2>2 DEF CancelTask, Idle
    <3>2. QED
      BY <1>1, <2>1, <3>1, NoSessionStep DEF Draining, AtClose
  <2>3. CASE live[t] # None
    <3>1. PICK s \in SessionId : s = live[t]
      BY <2>3 DEF TypeOK
    <3>2. session' = [session EXCEPT ![s] = Closed(session[s])]
      BY <1>4, <2>3, <3>1 DEF CancelTask
    <3>3. /\ Finished(session[s]) => call'[c].pc = "cancel"
          /\ ~Finished(session[s]) => call'[c].pc = "closing" /\ call'[c].sess = s
      BY <1>1, <1>4, <2>3, <3>1 DEF CancelTask, Idle
    <3>4. /\ Finished(session[s]) => call'[c].pc \notin Draining \cup AtClose
          /\ ~Finished(session[s]) => call'[c].pc \in AtClose /\ call'[c].sess = s
      BY <3>3 DEF Draining, AtClose
    <3>5. QED
      BY <1>1, <2>1, <3>1, <3>2, <3>4, CloseEach
  <2>4. QED
    BY <2>2, <2>3
<1>5. QED
  BY <1>3, <1>4

(* close() has waited for the runner (session.py:126-132). *)
LEMMA FinishEach ==
  ASSUME TypeOK, ConsumerInvariant, ConsumerInvariant', RegistryInv, NEW c \in Call,
         FinishEviction(c) \/ FinishClose(c)
  PROVE  EachSession
<1>1. PICK s \in SessionId : s = call[c].sess
  BY CallTypes DEF FinishEviction, FinishClose
<1> DEFINE x == session[s]
           y == Forgotten(x)
<1>2. /\ call[c].pc \in AtClose /\ Finished(x) /\ live' = live
      /\ session' = [session EXCEPT ![s] = y] /\ session'[s] = y
      /\ x \in Session /\ call \in [Call -> CallState]
  BY <1>1 DEF FinishEviction, FinishClose, AtClose, TypeOK
<1>3. \A d \in Call \ {c} : call'[d] = call[d]
  BY <1>2 DEF FinishEviction, FinishClose, Goto
<1>4. call'[c].pc \in {"admit", "cancel"}
  <2>1. CASE FinishEviction(c)
    BY <1>2, <2>1 DEF FinishEviction, CallState, CallFields
  <2>2. CASE FinishClose(c)
    BY <1>2, <2>2 DEF FinishClose, Goto, CallState, CallFields
  <2>3. QED
    BY <2>1, <2>2
<1>5. /\ ~Pumps(c, s) /\ ~Pumps(c, s)' /\ Closes(c, s) /\ ~Closes(c, s)'
      /\ \A d \in Call \ {c} : ~Closes(d, s)
  BY <1>1, <1>2, <1>4 DEF Pumps, Closes, ClosesIn, Draining, AtClose, RegistryInv
<1>6. At(s)' = At(s) /\ Hand(s)' = Hand(s) /\ Closing(s) /\ ~Closing(s)'
  BY <1>3, <1>5, SessionMoves
<1>7. y.evicted = x.evicted /\ y.runner = x.runner
  BY <1>2 DEF Forgotten, Session
<1>8. One(s)!Finished(x) /\ One(s)!Forgotten(x) = y
  BY <1>2, SameOps
<1>9. Closing(s)' = FALSE
  BY <1>6 DEF Closing
<1> HIDE DEF y
<1>10. One(s)!FinishClose
  BY <1>2, <1>6, <1>8, <1>9 DEF One!FinishClose
<1>11. OneStep(s)
  BY <1>10 DEF OneStep, One!Next
<1>12. ~Registered(s)'
  BY <1>1, <1>2 DEF RegistryInv, Registered
<1>13. Tended(s)
  BY <1>2, <1>6, <1>7, <1>12, Dismissing
<1>14. QED
  BY <1>1, <1>2, <1>3, <1>4, <1>11, <1>13, OneSessionStep DEF Draining, AtClose

(* The fields emit() of the Result and request_permission() leave alone      *)
(* (session.py:73-87).                                                       *)
LEMMA ReportedFields ==
  ASSUME NEW x \in Session
  PROVE  /\ Reported(x).evicted = x.evicted /\ Reported(x).pending = x.pending
         /\ Reported(x).last = x.last /\ Reported(x).done = x.done
         /\ Reported(x).queue = Append(x.queue, Event("result"))
<1> DEFINE z == Put(x, Event("result"))
<1>1. Event("result") \in Item
  BY ItemTypes DEF Kinds
<1>2. /\ z \in Session /\ z.evicted = x.evicted /\ z.pending = x.pending
      /\ z.last = x.last /\ z.done = x.done /\ z.queue = Append(x.queue, Event("result"))
  BY <1>1, PutType, PutFields
<1>3. Reported(x) = [z EXCEPT !.runner = "reported"]
  BY DEF Reported
<1> HIDE DEF z
<1>4. QED
  BY <1>2, <1>3 DEF Session

(* The request becomes pending and is queued (session.py:76-87).             *)
LEMMA AskedFields ==
  ASSUME NEW x \in Session, NEW r \in ReqId
  PROVE  /\ Asked(x, r).evicted = x.evicted /\ Asked(x, r).pending = x.pending \cup {r}
         /\ Asked(x, r).last = x.last /\ Asked(x, r).done = x.done
         /\ Asked(x, r).runner = x.runner
         /\ Asked(x, r).queue = Append(x.queue, Request(r))
<1> DEFINE z == Put(x, Request(r))
<1>1. Request(r) \in Item
  BY ItemTypes
<1>2. /\ z \in Session /\ z.evicted = x.evicted /\ z.pending = x.pending
      /\ z.last = x.last /\ z.done = x.done /\ z.runner = x.runner
      /\ z.queue = Append(x.queue, Request(r))
  BY <1>1, PutType, PutFields
<1>3. Asked(x, r) = [z EXCEPT !.pending = @ \cup {r}]
  BY DEF Asked
<1> HIDE DEF z
<1>4. QED
  BY <1>2, <1>3 DEF Session

(* A runner's step is its session's alone (session.py:56-87). *)
LEMMA RunnerEach ==
  ASSUME TypeOK, ConsumerInvariant, NEW s \in SessionId, Drive(s) \/ Stop(s)
  PROVE  EachSession
<1> DEFINE x == session[s]
<1>1. PICK y : Runs(s, y)
  BY DEF Drive, Stop, BeginDriver, Report, EndDriver, RaiseDriver, Emit, Ask,
         DropUnstarted, Unwind
<1>2. /\ x \in Session /\ session'[s] = y /\ call' = call /\ live' = live
      /\ session' = [session EXCEPT ![s] = y]
      /\ \A u \in SessionId \ {s} : session'[u] = session[u]
  BY <1>1 DEF Runs, TypeOK
<1>3. \A u \in SessionId : At(u)' = At(u) /\ Hand(u)' = Hand(u) /\ Closing(u)' = Closing(u)
  BY <1>2, StillCalls
<1>4. At(s)' = At(s) /\ Hand(s)' = Hand(s) /\ Closing(s)' = Closing(s)
  BY <1>3
<1>5. \A z : Runs(s, z) => session'[s] = z
  BY <1>2 DEF Runs, TypeOK
<1>6. OneStep(s)
  <2> USE DEF OneStep, One!Next
  <2>1. CASE BeginDriver(s)
    <3>1. x.runner = "created" /\ session'[s] = Began(x)
      BY <1>5, <2>1 DEF BeginDriver
    <3>2. One(s)!Begin
      BY <1>4, <3>1, SameOps DEF One!Begin
    <3>3. QED
      BY <3>2
  <2>2. CASE Report(s)
    <3>1. CanReport(x) /\ session'[s] = Reported(x)
      BY <1>5, <2>2 DEF Report
    <3>2. One(s)!Report
      BY <1>4, <3>1, SameOps DEF One!Report
    <3>3. QED
      BY <3>2
  <2>3. CASE EndDriver(s)
    <3>1. CanReturn(x) /\ session'[s] = Ended(x, "returned")
      BY <1>5, <2>3 DEF EndDriver
    <3>2. One(s)!Return
      BY <1>4, <3>1, SameOps DEF One!Return
    <3>3. QED
      BY <3>2
  <2>4. CASE RaiseDriver(s)
    <3>1. CanRaise(x) /\ session'[s] = Ended(x, "raised")
      BY <1>5, <2>4 DEF RaiseDriver
    <3>2. One(s)!Raise
      BY <1>4, <3>1, SameOps DEF One!Raise
    <3>3. QED
      BY <3>2
  <2>5. ASSUME NEW k \in EventKinds, Emit(s, k)
        PROVE  OneStep(s)
    <3>1. CanEmit(x) /\ session'[s] = Emitted(x, k)
      BY <1>5, <2>5 DEF Emit
    <3>2. One(s)!Emit
      BY <1>4, <3>1, SameOps DEF One!Emit
    <3>3. QED
      BY <3>2
  <2>6. ASSUME NEW r \in ReqId, Ask(s, r)
        PROVE  OneStep(s)
    <3>1. CanAsk(x, r) /\ session'[s] = Asked(x, r)
      BY <1>5, <2>6 DEF Ask
    <3>2. Hand(s) # Request(r)
      <4>1. CASE Hand(s) = None
        BY <4>1, ItemTypes, SessionAssumption
      <4>2. CASE Hand(s) # None
        <5>1. At(s) = "yield" /\ Drained(s)
          BY <4>2, SessionTypes
        <5>2. PICK c \in Call : call[c].pc \in {"get", "handle"} /\ call[c].sess = s
          BY <5>1 DEF Drained, Pumps, Draining
        <5>3. Hand(s) = call[c].hand
          BY <5>1, <5>2, SessionTypes
        <5>4. QED
          BY <2>6, <5>2, <5>3 DEF Ask
      <4>3. QED
        BY <4>1, <4>2
    <3>3. One(s)!Ask(r)
      BY <1>4, <3>1, <3>2, SameOps DEF One!Ask
    <3>4. QED
      BY <3>3
  <2>7. CASE DropUnstarted(s)
    <3>1. x.runner = "doomed" /\ session'[s] = Stillborn(x)
      BY <1>5, <2>7 DEF DropUnstarted
    <3>2. One(s)!DropUnstarted
      BY <1>4, <3>1, SameOps DEF One!DropUnstarted
    <3>3. QED
      BY <3>2
  <2>8. ASSUME NEW how \in {"cancelled", "raised"}, Unwind(s, how)
        PROVE  OneStep(s)
    <3>1. x.runner = "cancelling" /\ session'[s] = Ended(x, how)
      BY <1>5, <2>8 DEF Unwind
    <3>2. One(s)!Unwind
      BY <1>4, <3>1, SameOps DEF One!Unwind
    <3>3. QED
      BY <3>2
  <2> HIDE DEF OneStep, One!Next
  <2>9. QED
    BY <2>1, <2>2, <2>3, <2>4, <2>5, <2>6, <2>7, <2>8 DEF Drive, Stop
<1>7. Tended(s)
  <2>1. y.evicted = x.evicted /\ x.runner # "none" /\ x.pending \subseteq y.pending
    <3>1. x.runner # "none"
      BY DEF Drive, Stop, BeginDriver, Report, EndDriver, RaiseDriver, Emit, Ask,
             DropUnstarted, Unwind, CanReport, CanReturn, CanRaise, CanEmit, CanAsk, Talking
    <3>2. CASE BeginDriver(s) \/ DropUnstarted(s)
      BY <1>2, <1>5, <3>1, <3>2 DEF BeginDriver, DropUnstarted, Began, Stillborn, Session
    <3>3. CASE \E how \in Spoke : Runs(s, Ended(x, how))
      BY <1>2, <1>5, <3>1, <3>3, EndedEffect DEF Over
    <3>4. ASSUME NEW k \in EventKinds, Emit(s, k)
          PROVE  y.evicted = x.evicted /\ x.runner # "none" /\ x.pending \subseteq y.pending
      <4>1. Event(k) \in Item
        BY ItemTypes, SessionAssumption DEF Kinds
      <4>2. QED
        BY <1>2, <1>5, <3>1, <3>4, <4>1, PutFields DEF Emit, Emitted
    <3>5. CASE Report(s)
      BY <1>2, <1>5, <3>1, <3>5, ReportedFields DEF Report
    <3>6. ASSUME NEW r \in ReqId, Ask(s, r)
          PROVE  y.evicted = x.evicted /\ x.runner # "none" /\ x.pending \subseteq y.pending
      BY <1>2, <1>5, <3>1, <3>6, AskedFields DEF Ask
    <3>7. CASE EndDriver(s) \/ RaiseDriver(s) \/ \E how \in {"cancelled", "raised"} : Unwind(s, how)
      BY <3>3, <3>7 DEF EndDriver, RaiseDriver, Unwind, Spoke
    <3>8. QED
      BY <3>2, <3>4, <3>5, <3>6, <3>7 DEF Drive, Stop
  <2>2. QED
    BY <1>2, <1>4, <2>1, Tending
<1>8. \A u \in SessionId \ {s} : OneStep(u) /\ Tended(u)
  BY <1>2, <1>3, Untouched
<1>9. QED
  BY <1>6, <1>7, <1>8 DEF EachSession

(* A message that arrives, or a call that publishes and touches no session. *)
LEMMA PublishEach ==
  ASSUME TypeOK, ConsumerInvariant, ConsumerInvariant', NEW c \in Call,
         \/ \E t \in Task : StartRun(c, t) \/ FollowUp(c, t)
         \/ OpenTask(c) \/ BeginWork(c) \/ Complete(c) \/ Fail(c)
         \/ PublishCanceled(c) \/ Leave(c)
  PROVE  EachSession
<1>1. call \in [Call -> CallState] /\ call[c] \in CallFields
  BY DEF TypeOK, CallState
<1>2. session' = session /\ call[c].pc \notin Draining \cup AtClose
  BY Zenon DEF StartRun, FollowUp, Accepts, OpenTask, BeginWork, Complete, Fail, PublishCanceled,
         Leave, Draining, AtClose
<1>3. /\ call'[c].pc \in {"open", "answer", "begin", "admit", "idle"}
      /\ \A d \in Call \ {c} : call'[d] = call[d]
  <2>1. ASSUME NEW t \in Task, StartRun(c, t) \/ FollowUp(c, t)
        PROVE  /\ call'[c].pc \in {"open", "answer"}
               /\ \A d \in Call \ {c} : call'[d] = call[d]
    BY <1>1, <2>1, Zenon DEF StartRun, FollowUp, Idle
  <2>2. CASE OpenTask(c) \/ BeginWork(c)
    BY <1>1, <2>2 DEF OpenTask, BeginWork, Goto, CallFields
  <2>3. CASE Complete(c) \/ Fail(c) \/ PublishCanceled(c) \/ Leave(c)
    BY <1>1, <2>3 DEF Complete, Fail, PublishCanceled, Leave, Return, Idle
  <2>4. QED
    BY <2>1, <2>2, <2>3
<1>4. call'[c].pc \notin Draining \cup AtClose /\ \A d \in Call \ {c} : call'[d] = call[d]
  BY <1>3 DEF Draining, AtClose
<1>5. QED
  BY <1>2, <1>4, NoSessionStep

(* Every step of the executor is a step of each session, well tended. *)
LEMMA EachStep ==
  ASSUME TypeOK, ConsumerInvariant, ConsumerInvariant', RegistryInv,
         \A s \in SessionId : OneSound(s), [Next]_vars
  PROVE  EachSession
<1>1. ASSUME NEW c \in Call, Arrive(c) \/ Advance(c) \/ Leave(c) \/ LeavePump(c)
      PROVE  EachSession
  <2>1. CASE Arrive(c)
    BY <2>1, PublishEach, ClosingEach DEF Arrive
  <2>2. CASE Pump(c)
    BY <2>2, TakeEventEach, TakeEndEach, HandleEach, FlushLastEach, PublishEach DEF Pump
  <2>3. QED
    BY <1>1, <2>1, <2>2, PublishEach, AdmitEach, ClosingEach, FinishEach, AnswerEach,
       LeavePumpEach
    DEF Advance
<1>2. ASSUME NEW s \in SessionId, Drive(s) \/ Stop(s)
      PROVE  EachSession
  BY <1>2, RunnerEach
<1>3. CASE UNCHANGED vars
  <2>1. session' = session /\ call' = call
    BY <1>3 DEF vars
  <2>2. QED
    BY <2>1, StillCalls, Untouched DEF EachSession
<1>4. QED
  BY <1>1, <1>2, <1>3 DEF Next

(* So no session is unstarted, undone or readmitted. *)
LEMMA EachAges ==
  ASSUME TypeOK, EachSession
  PROVE  \A s \in SessionId : Ages(session[s], session'[s])
<1> SUFFICES ASSUME NEW s \in SessionId PROVE Ages(session[s], session'[s])
  OBVIOUS
<1>1. session[s] \in Session
  BY DEF TypeOK
<1>2. Goes(session[s], At(s), Hand(s), session'[s], At(s)', Hand(s)')
  BY StepStops DEF EachSession
<1>3. QED
  BY <1>1, <1>2, AgesGoes

(* And each stays sound. *)
LEMMA EachSound ==
  ASSUME TypeOK, ConsumerInvariant, \A s \in SessionId : OneSound(s), EachSession
  PROVE  \A s \in SessionId : OneSound(s)'
<1> SUFFICES ASSUME NEW s \in SessionId PROVE OneSound(s)'
  OBVIOUS
<1>1. Goes(session[s], At(s), Hand(s), session'[s], At(s)', Hand(s)')
  BY StepStops DEF EachSession
<1>2. /\ session[s] \in Session /\ Hand(s) \in Item \cup {None}
      /\ Hand(s) = None <=> At(s) # "yield"
  BY SessionTypes
<1>3. Sound(session[s], At(s), Hand(s))
  BY DEF OneSound
<1>4. Sound(session'[s], At(s)', Hand(s)')
  BY <1>1, <1>2, <1>3, SoundGoes
<1>5. QED
  BY <1>4 DEF OneSound

-----------------------------------------------------------------------------
(* The registry invariant.                                                  *)

(* What a call that moved must see to. *)
Joins(c) ==
  /\ call'[c].pc \in AtClose =>
       /\ session'[call'[c].sess].runner # "none"
       /\ \A t \in Task : live'[t] # call'[c].sess
       /\ \A d \in Call \ {c} : ~ClosesIn(call', d, call'[c].sess)
  /\ call'[c].pc \in InPump \cup {"answer"} =>
       /\ session'[call'[c].sess].runner # "none"
       /\ \A t \in Task : live'[t] = call'[c].sess => t = call'[c].task
  /\ call'[c].pc = "last" => session'[call'[c].sess].done

(* A step that registers nothing keeps it if it does for the calls it moves. *)
LEMMA RegistryFrame ==
  ASSUME TypeOK, RegistryInv, EachSession, Shrinks,
         \A c \in Call : call'[c] = call[c] \/ Joins(c)
  PROVE  RegistryInv'
<1>1. \A s \in SessionId : /\ session[s].runner # "none" => session'[s].runner # "none"
                           /\ session[s].runner # "none" /\ session[s].done => session'[s].done
                           /\ session'[s].evicted => session[s].evicted \/ ~Registered(s)'
  BY EachAges DEF Ages, EachSession, Tended
<1>2. \A t \in Task : /\ live[t] \in SessionId \cup {None}
                      /\ live'[t] # None => live'[t] = live[t]
  BY DEF Shrinks, TypeOK
<1>3. \A t \in Task : live'[t] # None => /\ session'[live'[t]].runner # "none"
                                         /\ ~session'[live'[t]].evicted
  <2> SUFFICES ASSUME NEW t \in Task, live'[t] # None
               PROVE  session'[live'[t]].runner # "none" /\ ~session'[live'[t]].evicted
    OBVIOUS
  <2>1. PICK s \in SessionId : s = live[t] /\ s = live'[t]
    BY <1>2
  <2>2. Registered(s)'
    BY <2>1 DEF Registered
  <2>3. session[s].runner # "none" /\ ~session[s].evicted
    BY <2>1, ExecutorAssumption DEF RegistryInv
  <2>4. QED
    BY <1>1, <2>1, <2>2, <2>3
<1>4. \A t, u \in Task : live'[t] = live'[u] /\ live'[t] # None => t = u
  BY <1>2 DEF RegistryInv
<1>5. ASSUME NEW d \in Call, call'[d].pc \in AtClose
      PROVE  /\ session'[call'[d].sess].runner # "none"
             /\ \A t \in Task : live'[t] # call'[d].sess
             /\ \A e \in Call : ClosesIn(call', e, call'[d].sess) => e = d
  <2>1. CASE Joins(d)
    BY <1>5, <2>1 DEF Joins, ClosesIn
  <2>2. CASE call'[d] = call[d]
    <3>1. PICK s \in SessionId : s = call[d].sess /\ s = call'[d].sess
      BY <1>5, <2>2, CallTypes DEF AtClose
    <3>2. call[d].pc \in AtClose /\ call[d] = call'[d]
      BY <1>5, <2>2
    <3>3. /\ session[s].runner # "none"
          /\ \A t \in Task : live[t] # s
          /\ \A e \in Call : Closes(e, s) => e = d
      BY <3>1, <3>2 DEF RegistryInv
    <3>4. \A e \in Call \ {d} : Joins(e) => ~ClosesIn(call', e, s)
      BY <1>5, <3>1 DEF Joins, ClosesIn
    <3>5. \A e \in Call : ClosesIn(call', e, s) => e = d
      BY <3>3, <3>4 DEF Closes, ClosesIn
    <3>6. \A t \in Task : live'[t] # s
      BY <1>2, <3>3, ExecutorAssumption
    <3>7. QED
      BY <1>1, <3>1, <3>3, <3>5, <3>6
  <2>3. QED
    BY <2>1, <2>2
<1>6. ASSUME NEW d \in Call, call'[d].pc \in InPump \cup {"answer"}
      PROVE  /\ session'[call'[d].sess].runner # "none"
             /\ \A t \in Task : live'[t] = call'[d].sess => t = call'[d].task
  <2>1. CASE Joins(d)
    BY <1>6, <2>1 DEF Joins
  <2>2. CASE call'[d] = call[d]
    <3>1. call[d] = call'[d] /\ call[d].sess \in SessionId
      BY <1>6, <2>2, CallTypes DEF InPump
    <3>2. QED
      BY <1>1, <1>2, <1>6, <3>1, ExecutorAssumption DEF RegistryInv
  <2>3. QED
    BY <2>1, <2>2
<1>7. ASSUME NEW d \in Call, call'[d].pc = "last"
      PROVE  session'[call'[d].sess].done
  <2>1. CASE Joins(d)
    BY <1>7, <2>1 DEF Joins
  <2>2. CASE call'[d] = call[d]
    <3>1. call[d] = call'[d] /\ call[d].sess \in SessionId
      BY <1>7, <2>2, CallTypes
    <3>2. session[call[d].sess].runner # "none" /\ session[call[d].sess].done
      BY <1>7, <3>1 DEF RegistryInv, InPump
    <3>3. QED
      BY <1>1, <3>1, <3>2
  <2>3. QED
    BY <2>1, <2>2
<1>8. QED
  BY <1>3, <1>4, <1>5, <1>6, <1>7 DEF RegistryInv, Closes

(* Admitting registers a session nobody knew (executor.py:163-165). *)
LEMMA AdmitRegistry ==
  ASSUME TypeOK, RegistryInv, EachSession, NEW c \in Call, Admit(c)
  PROVE  RegistryInv'
<1> DEFINE t == call[c].task
<1>1. PICK s \in Unused : Register(t, s) /\ EnterPump(c, t, s, Started)
  BY DEF Admit
<1>2. /\ s \in SessionId /\ session[s].runner = "none" /\ t \in Task /\ s # None
      /\ call[c].pc \notin AtClose
  BY CallTypes, ExecutorAssumption DEF Unused, Admit, AtClose
<1>3. /\ session'[s] = Started /\ \A u \in SessionId \ {s} : session'[u] = session[u]
      /\ \A d \in Call \ {c} : call'[d] = call[d]
      /\ call'[c].pc = "get" /\ call'[c].sess = s /\ call'[c].task = t
      /\ live'[t] = s /\ \A u \in Task \ {t} : live'[u] = live[u]
  BY <1>1, <1>2 DEF EnterPump, Register, TypeOK
<1>4. Started.runner = "created" /\ ~Started.evicted
  BY DEF Started, Unborn
<1>5. \A u \in Task : live[u] # s
  BY <1>2 DEF RegistryInv
<1>6. \A u \in Task : live[u] \in SessionId \cup {None}
  BY DEF TypeOK
<1>7. \A u \in Task : live'[u] # None => /\ session'[live'[u]].runner # "none"
                                         /\ ~session'[live'[u]].evicted
  BY <1>2, <1>3, <1>4, <1>5, <1>6 DEF RegistryInv
<1>8. \A u, v \in Task : live'[u] = live'[v] /\ live'[u] # None => u = v
  BY <1>3, <1>5 DEF RegistryInv
<1>9. ASSUME NEW d \in Call, call'[d].pc \in AtClose \cup InPump \cup {"answer"}, d # c
      PROVE  /\ call'[d] = call[d] /\ call[d].sess \in SessionId /\ call[d].sess # s
             /\ session[call[d].sess].runner # "none"
             /\ session'[call[d].sess] = session[call[d].sess]
             /\ \A u \in Task : live'[u] = call[d].sess => live[u] = call[d].sess
  <2>1. call'[d] = call[d] /\ call[d].sess \in SessionId
    BY <1>3, <1>9, CallTypes DEF AtClose, InPump
  <2>2. session[call[d].sess].runner # "none"
    BY <1>9, <2>1 DEF RegistryInv
  <2>3. call[d].sess # s
    BY <1>2, <2>2
  <2>4. QED
    BY <1>3, <2>1, <2>2, <2>3
<1>10. ASSUME NEW d \in Call, call'[d].pc \in AtClose
       PROVE  /\ session'[call'[d].sess].runner # "none"
              /\ \A u \in Task : live'[u] # call'[d].sess
              /\ \A e \in Call : ClosesIn(call', e, call'[d].sess) => e = d
  <2>1. d # c
    BY <1>3, <1>10 DEF AtClose
  <2>2. \A e \in Call : ClosesIn(call', e, call[d].sess) => ClosesIn(call, e, call[d].sess)
    BY <1>3 DEF ClosesIn, AtClose
  <2>3. QED
    BY <1>9, <1>10, <2>1, <2>2 DEF RegistryInv, Closes
<1>11. ASSUME NEW d \in Call, call'[d].pc \in InPump \cup {"answer"}
       PROVE  /\ session'[call'[d].sess].runner # "none"
              /\ \A u \in Task : live'[u] = call'[d].sess => u = call'[d].task
  <2>1. CASE d = c
    BY <1>3, <1>4, <1>5, <2>1
  <2>2. CASE d # c
    BY <1>9, <1>11, <2>2 DEF RegistryInv
  <2>3. QED
    BY <2>1, <2>2
<1>12. \A d \in Call : call'[d].pc = "last" => session'[call'[d].sess].done
  BY <1>3, <1>9 DEF RegistryInv, InPump
<1>13. QED
  BY <1>7, <1>8, <1>10, <1>11, <1>12 DEF RegistryInv, Closes

(* A call that goes on with its session, or goes to where it has none.      *)
LEMMA JoinsStay ==
  ASSUME TypeOK, RegistryInv, EachSession, Shrinks, NEW c \in Call,
         call'[c].pc \notin AtClose,
         call'[c].pc \in InPump \cup {"answer"} =>
           /\ call[c].pc \in InPump \cup {"answer"}
           /\ call'[c].sess = call[c].sess /\ call'[c].task = call[c].task,
         call'[c].pc = "last" => session'[call'[c].sess].done
  PROVE  Joins(c)
<1>1. \A s \in SessionId : session[s].runner # "none" => session'[s].runner # "none"
  BY EachAges DEF Ages
<1>2. ASSUME call'[c].pc \in InPump \cup {"answer"}
      PROVE  /\ session'[call'[c].sess].runner # "none"
             /\ \A t \in Task : live'[t] = call'[c].sess => t = call'[c].task
  <2>1. /\ call'[c].sess = call[c].sess /\ call[c].sess \in SessionId
        /\ call'[c].task = call[c].task
    BY <1>2, CallTypes DEF InPump
  <2>2. /\ session[call[c].sess].runner # "none"
        /\ \A t \in Task : live[t] = call[c].sess => t = call[c].task
    BY <1>2 DEF RegistryInv
  <2>3. \A t \in Task : live'[t] = call[c].sess => live[t] = call[c].sess
    BY <2>1, ExecutorAssumption DEF Shrinks
  <2>4. QED
    BY <1>1, <2>1, <2>2, <2>3
<1>3. QED
  BY <1>2 DEF Joins

(* The calls that arrive, and those that close a session                    *)
(* (executor.py:140-175, 279-285, 328-352).                                 *)
LEMMA JoinsArriving ==
  ASSUME TypeOK, RegistryInv, EachSession, Shrinks, NEW c \in Call, Arrive(c) \/ MakeRoom(c)
  PROVE  call'[c] = call[c] \/ Joins(c)
<1>0. call \in [Call -> CallState] /\ call[c] \in CallFields
  BY DEF TypeOK, CallState
<1>1. \A s \in SessionId : session[s].runner # "none" => session'[s].runner # "none"
  BY EachAges DEF Ages
<1>2. ASSUME NEW s \in SessionId, NEW t \in Task, live[t] = s, PopLive(t),
             call'[c].pc \in AtClose, call'[c].sess = s,
             \A d \in Call \ {c} : call'[d] = call[d]
      PROVE  Joins(c)
  <2>1. session'[s].runner # "none"
    BY <1>1, <1>2, ExecutorAssumption DEF RegistryInv
  <2>2. \A u \in Task : live'[u] # s
    BY <1>2, ExecutorAssumption, PoppedSession DEF RegistryInv, Registered
  <2>3. \A d \in Call \ {c} : ~ClosesIn(call', d, s)
    BY <1>2 DEF RegistryInv, ClosesIn
  <2>4. QED
    BY <1>2, <2>1, <2>2, <2>3 DEF Joins, AtClose, InPump, Draining
<1>3. ASSUME NEW t \in Task, StartRun(c, t)
      PROVE  Joins(c)
  BY <1>0, <1>3 DEF StartRun, Idle, Joins, AtClose, InPump, Draining
<1>4. ASSUME NEW t \in Task, FollowUp(c, t)
      PROVE  Joins(c)
  <2>1. PICK s \in SessionId : s = live[t]
    BY <1>4 DEF FollowUp, TypeOK
  <2>2. /\ call'[c].pc = "answer" /\ call'[c].sess = s /\ call'[c].task = t
        /\ live' = live
    BY <1>0, <1>4, <2>1 DEF FollowUp, Idle
  <2>3. session'[s].runner # "none"
    BY <1>1, <2>1, ExecutorAssumption DEF RegistryInv
  <2>4. \A u \in Task : live[u] = s => u = t
    BY <2>1, ExecutorAssumption DEF RegistryInv
  <2>5. QED
    BY <2>2, <2>3, <2>4 DEF Joins, AtClose
<1>5. ASSUME NEW t \in Task, CancelTask(c, t)
      PROVE  Joins(c)
  <2>1. PopLive(t) /\ \A d \in Call \ {c} : call'[d] = call[d]
    BY <1>0, <1>5 DEF CancelTask
  <2>2. CASE call'[c].pc = "cancel"
    BY <2>2 DEF Joins, AtClose, InPump, Draining
  <2>3. CASE call'[c].pc # "cancel"
    <3>1. call'[c].pc = "closing" /\ call'[c].sess = live[t] /\ live[t] # None
      BY <1>0, <1>5, <2>3 DEF CancelTask, Idle
    <3>2. live[t] \in SessionId
      BY <3>1 DEF TypeOK
    <3>3. QED
      BY <1>2, <2>1, <3>1, <3>2 DEF AtClose
  <2>4. QED
    BY <2>2, <2>3
<1>6. CASE MakeRoom(c)
  <2>1. PICK v \in LiveTasks :
          /\ PopLive(v)
          /\ IF Finished(session[live[v]])
               THEN call' = call
               ELSE call' = [call EXCEPT ![c].pc = "evict", ![c].sess = live[v]]
    BY <1>6 DEF MakeRoom
  <2>2. v \in Task /\ live[v] \in SessionId
    BY DEF LiveTasks, TypeOK
  <2>3. CASE call' # call
    <3>1. /\ call'[c].pc = "evict" /\ call'[c].sess = live[v]
          /\ \A d \in Call \ {c} : call'[d] = call[d]
      BY <1>0, <2>1, <2>3 DEF CallFields
    <3>2. QED
      BY <1>2, <2>1, <2>2, <3>1 DEF AtClose
  <2>4. QED
    BY <2>3
<1>7. QED
  BY <1>3, <1>4, <1>5, <1>6 DEF Arrive

(* Every other step but Admit (executor.py:140-285). *)
LEMMA JoinsGoingOn ==
  ASSUME TypeOK, RegistryInv, EachSession, Shrinks, NEW c \in Call,
         Advance(c) \/ Leave(c) \/ LeavePump(c), ~Admit(c), ~MakeRoom(c)
  PROVE  call'[c] = call[c] \/ Joins(c)
<1>0. call \in [Call -> CallState] /\ call[c] \in CallFields
  BY DEF TypeOK, CallState
<1> DEFINE Away == {"begin", "admit", "complete", "fail", "cancel", "idle"}
<1>1. ASSUME call'[c].pc \in Away PROVE Joins(c)
  BY <1>1 DEF Joins, AtClose, InPump, Draining
<1>2. ASSUME call'[c].pc \in Draining, call[c].pc \in Draining \cup {"answer"},
             call'[c].sess = call[c].sess, call'[c].task = call[c].task
      PROVE  Joins(c)
  BY <1>2, JoinsStay DEF AtClose, InPump, Draining
<1>3. CASE OpenTask(c) \/ BeginWork(c) \/ FinishEviction(c)
  BY <1>0, <1>1, <1>3 DEF OpenTask, BeginWork, FinishEviction, Goto, CallFields
<1>4. CASE Complete(c) \/ Fail(c) \/ PublishCanceled(c) \/ Leave(c) \/ LeavePump(c)
             \/ HandlePermission(c)
  BY <1>0, <1>1, <1>4
  DEF Complete, Fail, PublishCanceled, Leave, LeavePump, HandlePermission, Return, Idle
<1>5. CASE TakeError(c) \/ FlushLast(c) \/ FinishClose(c)
  BY <1>0, <1>1, <1>5 DEF TakeError, FlushLast, FinishClose, Goto, CallFields
<1>6. CASE TakeQuietly(c) \/ FlushForRequest(c)
  BY <1>6 DEF TakeQuietly, FlushForRequest
<1>7. CASE TakeEvent(c)
  <2>1. /\ call[c].pc = "get" /\ call'[c].pc = "handle"
        /\ call'[c].sess = call[c].sess /\ call'[c].task = call[c].task
    BY <1>0, <1>7 DEF TakeEvent, CanTake, CallFields
  <2>2. QED
    BY <1>2, <2>1 DEF Draining
<1>8. CASE HandleText(c) \/ HandleTool(c) \/ HandleFile(c)
  <2>1. /\ call[c].pc = "handle" /\ call'[c].pc = "get"
        /\ call'[c].sess = call[c].sess /\ call'[c].task = call[c].task
    BY <1>0, <1>8 DEF HandleText, HandleTool, HandleFile, Publishing, Resume, CallFields
  <2>2. QED
    BY <1>2, <2>1 DEF Draining
<1>9. CASE Answer(c)
  <2>1. CASE Answerable(call[c].sess)
    <3>1. EnterPump(c, call[c].task, call[c].sess,
                    Resolved(session[call[c].sess], session[call[c].sess].last))
      BY <1>9, <2>1 DEF Answer
    <3>2. /\ call[c].pc = "answer" /\ call'[c].pc = "get"
          /\ call'[c].sess = call[c].sess /\ call'[c].task = call[c].task
      BY <1>0, <1>9, <3>1 DEF Answer, EnterPump
    <3>3. QED
      BY <1>2, <3>2 DEF Draining
  <2>2. CASE ~Answerable(call[c].sess)
    BY <1>0, <1>1, <1>9, <2>2 DEF Answer, Return, Idle
  <2>3. QED
    BY <2>1, <2>2
<1>10. CASE TakeDone(c)
  <2>1. PICK s \in SessionId : s = call[c].sess
    BY <1>10, CallTypes DEF TakeDone, CanTake, Draining
  <2>2. /\ call[c].pc = "get" /\ session[s] \in Session /\ session[s].queue # << >>
        /\ Ends(Head(session[s].queue))
    BY <1>10, <2>1 DEF TakeDone, CanTake, Incoming, Ends, TypeOK
  <2>3. /\ call'[c].pc \in {"fail", "complete", "last"}
        /\ call'[c].sess = call[c].sess /\ call'[c].task = call[c].task
    BY <1>0, <1>10 DEF TakeDone, Goto, CallFields
  <2>4. CASE call'[c].pc = "last"
    <3>1. session' = [session EXCEPT ![s] = Taken(session[s])]
      BY <1>0, <1>10, <2>1, <2>4 DEF TakeDone, TakeNext, Goto, CallFields
    <3>2. session'[s] = Taken(session[s])
      BY <3>1 DEF TypeOK
    <3>3. Taken(session[s]).done
      <4>1. Taken(session[s]).done = (session[s].done \/ Ends(Head(session[s].queue)))
        BY <2>2, TakenFields
      <4>2. QED
        BY <2>2, <4>1
    <3>4. QED
      BY <2>1, <2>2, <2>3, <2>4, <3>2, <3>3, JoinsStay DEF AtClose, InPump, Draining
  <2>5. QED
    BY <1>1, <2>3, <2>4
<1>11. QED
  BY <1>3, <1>4, <1>5, <1>6, <1>7, <1>8, <1>9, <1>10 DEF Advance, Pump

(* A step of one call changes no other. *)
LEMMA OtherCalls ==
  ASSUME TypeOK, NEW c \in Call, Arrive(c) \/ Advance(c) \/ Leave(c) \/ LeavePump(c)
  PROVE  \A d \in Call \ {c} : call'[d] = call[d]
<1>1. call \in [Call -> CallState]
  BY DEF TypeOK
<1>2. CASE Arrive(c)
  BY <1>1, <1>2, Zenon DEF Arrive, StartRun, FollowUp, CancelTask
<1>3. CASE OpenTask(c) \/ BeginWork(c) \/ Admit(c) \/ MakeRoom(c) \/ FinishEviction(c)
             \/ Answer(c) \/ FinishClose(c) \/ PublishCanceled(c) \/ Leave(c) \/ LeavePump(c)
  BY <1>1, <1>3
  DEF OpenTask, BeginWork, Admit, MakeRoom, FinishEviction, Answer, FinishClose,
      PublishCanceled, Leave, LeavePump, EnterPump, Goto, Return
<1>4. CASE Pump(c)
  BY <1>1, <1>4
  DEF Pump, TakeQuietly, TakeEvent, TakeError, TakeDone, HandleText, HandleTool, HandleFile,
      FlushForRequest, HandlePermission, FlushLast, Complete, Fail, Goto, Return, Resume
<1>5. QED
  BY <1>2, <1>3, <1>4 DEF Advance

(* Every step keeps the registry invariant. *)
LEMMA RegistryStep ==
  ASSUME TypeOK, RegistryInv, EachSession, [Next]_vars
  PROVE  RegistryInv'
<1>1. ASSUME NEW c \in Call, Admit(c) PROVE RegistryInv'
  BY <1>1, AdmitRegistry
<1>2. CASE \A c \in Call : ~Admit(c)
  <2>1. Shrinks
    BY <1>2, OnlyAdmitGrows
  <2>2. ASSUME NEW c \in Call, Arrive(c) \/ Advance(c) \/ Leave(c) \/ LeavePump(c)
        PROVE  RegistryInv'
    <3>1. \A d \in Call \ {c} : call'[d] = call[d]
      BY <2>2, OtherCalls
    <3>2. call'[c] = call[c] \/ Joins(c)
      BY <1>2, <2>1, <2>2, JoinsArriving, JoinsGoingOn
    <3>3. QED
      BY <2>1, <3>1, <3>2, RegistryFrame
  <2>3. CASE call' = call
    BY <2>1, <2>3, RegistryFrame
  <2>4. QED
    BY <2>2, <2>3
    DEF Next, vars, Drive, Stop, BeginDriver, Report, EndDriver, RaiseDriver, Emit, Ask,
        DropUnstarted, Unwind, Runs
<1>3. QED
  BY <1>1, <1>2

-----------------------------------------------------------------------------
(* What holds of the registry, the calls and each session at every step.    *)
ProtocolInv == /\ TypeOK
               /\ ConsumerInvariant
               /\ RegistryInv
               /\ \A s \in SessionId : OneSound(s)

(* It holds before the first message arrives. *)
LEMMA ProtocolInit ==
  ASSUME Init
  PROVE  /\ ProtocolInv
         /\ \A s \in SessionId : One(s)!Init
<1>1. TypeOK
  BY BirthTypes, IdleType DEF Init, TypeOK, NewStream, Stream, Status
<1>2. \A c \in Call : call[c].pc = "idle"
  BY DEF Init, Idle
<1>3. ConsumerInvariant
  BY <1>2 DEF Init, ConsumerInvariant, SingleConsumer, Drained, Pumps, Draining, Parked, Unborn
<1>4. RegistryInv
  BY <1>2, ExecutorAssumption DEF Init, RegistryInv, AtClose, InPump, Draining
<1>5. ASSUME NEW s \in SessionId
      PROVE  OneSound(s) /\ One(s)!Init
  <2>1. session[s] = Unborn
    BY DEF Init
  <2>2. At(s) = "off" /\ Hand(s) = None
    BY <1>1, <1>2, <1>3, SessionTypes DEF Drained, Pumps, Draining
  <2>3. Closing(s) = FALSE
    BY <1>2 DEF Closing
  <2>4. OneSound(s)
    BY <2>1, <2>2, SoundBirth DEF OneSound
  <2>5. One(s)!Init
    BY <2>1, <2>2, <2>3, SameOps DEF One!Init
  <2>6. QED
    BY <2>4, <2>5
<1>6. QED
  BY <1>1, <1>3, <1>4, <1>5 DEF ProtocolInv

(* Every step keeps it, and is a step of each session. *)
LEMMA ProtocolStep ==
  ASSUME ProtocolInv, [Next]_vars
  PROVE  ProtocolInv' /\ EachSession
<1>1. TypeOK' /\ ConsumerInvariant'
  BY TypeStep, ConsumerStep DEF ProtocolInv
<1>2. EachSession
  BY <1>1, EachStep DEF ProtocolInv
<1>3. RegistryInv'
  BY <1>2, RegistryStep DEF ProtocolInv
<1>4. \A s \in SessionId : OneSound(s)'
  BY <1>2, EachSound DEF ProtocolInv
<1>5. QED
  BY <1>1, <1>2, <1>3, <1>4 DEF ProtocolInv

(* The protocol invariant holds always. *)
LEMMA ProtocolKept == Spec => []ProtocolInv
<1>1. Init => ProtocolInv
  BY ProtocolInit
<1>2. ProtocolInv /\ [Next]_vars => ProtocolInv'
  BY ProtocolStep
<1>3. QED
  BY <1>1, <1>2, PTL DEF Spec

(* The executor drives each of its sessions the way BackendSession expects, *)
(* whatever its calls, runners and closers do in between: one start, one    *)
(* consumer at a time, resolve() of the surfaced request only, one close()  *)
(* (executor.py:140-178, 201-285, 328-352).                                 *)
THEOREM EverySessionIsASession == Spec => SessionsAreSessions
<1>1. Init => \A s \in SessionId : One(s)!Init
  BY ProtocolInit
<1>2. ProtocolInv /\ [Next]_vars
        => [\A s \in SessionId : One(s)!Next \/ UNCHANGED One(s)!vars]_vars
  BY ProtocolStep DEF EachSession, OneStep
<1>3. QED
  BY <1>1, <1>2, ProtocolKept, PTL DEF Spec, SessionsAreSessions

(* A drain of the executor that waits on an empty queue waits for a runner  *)
(* that goes on and waits for no decision itself, or that unwinds into its  *)
(* sentinel, unless that runner was cancelled before its first step; and no *)
(* parked session is drained (session.py:49-67, 89-114; executor.py:201-249).*)
THEOREM DrainsWaitForRunners ==
  Spec => [](\A s \in SessionId : One(s)!NoHungDrain /\ One(s)!ParkedIsQuiescent)
<1>1. ASSUME ProtocolInv, NEW s \in SessionId
      PROVE  One(s)!NoHungDrain /\ One(s)!ParkedIsQuiescent
  <2> DEFINE x == session[s]
  <2>1. /\ x \in Session /\ Sound(x, At(s), Hand(s))
        /\ At(s) = "get" => Hand(s) = None
    BY <1>1, SessionTypes DEF ProtocolInv, OneSound
  <2>2. DrainSound(x, At(s), Hand(s))
    BY <2>1 DEF Sound
  <2>3. Parked(x) => At(s) = "off"
    BY <2>2 DEF DrainSound
  <2>4. ASSUME At(s) = "get", x.queue = << >>, x.runner \notin {"doomed", "unstarted"}
        PROVE  \/ x.runner = "cancelling"
               \/ x.runner \in {"created", "running", "reported"} /\ x.pending = {}
    <3>1. \A item : ~Holds(x, item)
      BY <2>4 DEF Holds
    <3>2. x.runner \in Live \cup {"cancelling"}
      <4>1. x.runner \notin Spoke /\ x.runner # "none"
        BY <2>2, <2>4, <3>1 DEF DrainSound
      <4>2. QED
        BY <2>1, <2>4, <4>1 DEF Session, Runner, Over, Live
    <3>3. \A r \in x.pending : r \in ReqId /\ Request(r) # None
      BY <2>1, ItemTypes, SessionAssumption DEF Session
    <3>4. x.runner \in Live => \A r \in x.pending : r = x.last
      BY <2>1, <2>2, <2>4, <3>1, <3>3 DEF DrainSound
    <3>5. ~Parked(x)
      BY <2>3, <2>4
    <3>6. QED
      BY <3>2, <3>4, <3>5 DEF Parked, Live
  <2>5. QED
    BY <2>3, <2>4, SameOps
       DEF One!NoHungDrain, One!Blocked, One!CancelledUnborn, One!ParkedIsQuiescent
<1>2. ProtocolInv => \A s \in SessionId : One(s)!NoHungDrain /\ One(s)!ParkedIsQuiescent
  BY <1>1
<1>3. QED
  BY <1>2, ProtocolKept, PTL

-----------------------------------------------------------------------------
(* Without cancel(): nothing but an eviction or a disconnect stops a runner. *)

Stopped == {"doomed", "cancelling", "cancelled", "unstarted"}

(* A runner that was stopped belongs to a session marked evicted, or to one *)
(* that nobody drains or answers any more.                                  *)
Abandoned(x, a) == x.runner \in Stopped /\ ~x.evicted => ~Parked(x) /\ a = "off"

CompletionInv ==
  /\ \A s \in SessionId : Abandoned(session[s], At(s))
  /\ \A c \in Call : call[c].pc \in {"last", "complete"} =>
       call[c].sess \in SessionId /\ session[call[c].sess].runner = "returned"

(* No step of a session but close()'s first undoes that (session.py:37-132). *)
LEMMA AbandonedKept ==
  ASSUME NEW x \in Session, NEW a, NEW h, Sound(x, a, h), Abandoned(x, a),
         NEW y, NEW b, NEW i, GoesOn(x, a, h, y, b, i)
  PROVE  Abandoned(y, b)
<1> USE DEF Stopped
<1>1. CASE b = a /\ Works(x, h, y)
  <2>1. ASSUME y.runner \in Stopped => x.runner \in Stopped, y.evicted = x.evicted,
               Parked(y) => Parked(x)
        PROVE  Abandoned(y, b)
    BY <1>1, <2>1 DEF Abandoned
  <2>2. CASE (x.runner = "created" /\ y = Began(x)) \/ (x.runner = "doomed" /\ y = Stillborn(x))
    BY <2>1, <2>2 DEF Began, Stillborn, Session, Parked
  <2>3. ASSUME NEW k \in EventKinds, y = Emitted(x, k)
        PROVE  Abandoned(y, b)
    <3>1. Event(k) \in Item
      BY ItemTypes, SessionAssumption DEF Kinds
    <3>2. QED
      BY <2>1, <2>3, <3>1, PutFields DEF Emitted, Parked
  <2>4. CASE x.runner = "running" /\ y = Reported(x)
    <3>1. Reported(x).runner = "reported"
      <4>1. Put(x, Event("result")) \in Session
        BY ItemTypes, PutType DEF Kinds
      <4>2. QED
        BY <4>1 DEF Reported, Session
    <3>2. QED
      BY <2>1, <2>4, <3>1, ReportedFields DEF Parked
  <2>5. ASSUME NEW how \in Spoke, how = "cancelled" => x.runner = "cancelling",
               y = Ended(x, how)
        PROVE  Abandoned(y, b)
    BY <2>1, <2>5, EndedEffect DEF Parked, Spoke, Over
  <2>6. ASSUME NEW r \in ReqId, Fresh(x, r), y = Asked(x, r)
        PROVE  Abandoned(y, b)
    BY <2>1, <2>6, AskedFields DEF Parked, Fresh
  <2>7. QED
    BY <1>1, <2>2, <2>3, <2>4, <2>5, <2>6 DEF Works
<1>2. CASE y = Started
  BY <1>2 DEF Abandoned, Started, Unborn
<1>3. CASE Parked(x) /\ y = Resolved(x, x.last)
  BY <1>3 DEF Abandoned, Resolved, Session
<1>4. CASE Takes(x, a, h, y, b, i)
  <2>1. /\ x.runner \in Stopped => x.evicted
        /\ y.runner = x.runner /\ y.evicted = x.evicted
    <3>1. /\ a = "get" /\ x.queue # << >> /\ y \in {Taken(x), Forgotten(Taken(x))}
      BY <1>4 DEF Takes
    <3>2. /\ Taken(x) \in Session /\ Taken(x).runner = x.runner /\ Taken(x).evicted = x.evicted
      BY <3>1, TakenType, TakenFields
    <3>3. QED
      BY <3>1, <3>2 DEF Abandoned, Forgotten, Session
  <2>2. QED
    BY <2>1 DEF Abandoned
<1>5. CASE a = "yield" /\ Resumes(x, h, y, b)
  BY <1>5 DEF Abandoned, Resumes, Surfaced, Session
<1>6. CASE a # "off" /\ b = "off" /\ y = CancelRunner(x)
  <2>1. ~Parked(x)
    BY <1>6 DEF Sound, DrainSound
  <2>2. QED
    BY <1>6, <2>1 DEF Abandoned, CancelRunner, Parked, Session
<1>7. CASE b = a /\ Forgets(x, y)
  <2>1. ~y.evicted => ~x.evicted
    BY <1>7 DEF Forgets, Forgotten, Evicted, Session
  <2>2. y.runner = x.runner /\ y.pending = {}
    BY <1>7 DEF Forgets, Forgotten, Evicted, Session
  <2>3. QED
    BY <1>7, <2>1, <2>2 DEF Abandoned, Parked
<1>8. CASE y = x /\ b = a
  BY <1>8
<1>9. QED
  BY <1>1, <1>2, <1>3, <1>4, <1>5, <1>6, <1>7, <1>8 DEF GoesOn

(* What the drain finds at its end: the sentinel of a runner that is over,  *)
(* behind the error of one that raised (session.py:56-67).                  *)
LEMMA WhatEnds ==
  ASSUME NEW x \in Session, NEW h, Sound(x, "get", h), x.queue # << >>,
         Ends(Head(x.queue))
  PROVE  /\ x.runner \in Spoke
         /\ Head(x.queue).kind = "done" => x.runner # "raised"
<1>1. x.queue \in Seq(Item) /\ Len(x.queue) \in Nat /\ 1 \in 1..Len(x.queue)
      /\ Head(x.queue) = x.queue[1]
  BY DEF Session
<1>2. ~x.done
  BY DEF Sound, DrainSound
<1>3. ~ \E j \in 1..Len(x.queue) : j < 1
  BY <1>1
<1>4. QED
  BY <1>1, <1>2, <1>3 DEF Sound, QueueSound

(* Which calls come to the end of a run, and from where (executor.py:251-273). *)
LEMMA ComesToEnd ==
  ASSUME TypeOK, [Next]_vars, NEW c \in Call, call'[c].pc \in {"last", "complete"}
  PROVE  \/ call'[c] = call[c]
         \/ call[c].pc = "last" /\ call'[c].sess = call[c].sess
         \/ TakeDone(c) /\ ~Taken(session[call[c].sess]).evicted
              /\ call'[c].sess = call[c].sess
<1> DEFINE Goal == \/ call'[c] = call[c]
                   \/ call[c].pc = "last" /\ call'[c].sess = call[c].sess
                   \/ TakeDone(c) /\ ~Taken(session[call[c].sess]).evicted
                        /\ call'[c].sess = call[c].sess
<1>0. call \in [Call -> CallState] /\ call[c] \in CallFields
  BY DEF TypeOK, CallState
<1>1. ASSUME NEW d \in Call, Arrive(d) \/ Advance(d) \/ Leave(d) \/ LeavePump(d)
      PROVE  Goal
  <2>1. CASE d # c
    BY <1>1, <2>1, OtherCalls
  <2>2. CASE d = c
    <3>1. CASE Arrive(c)
      <4>1. ASSUME NEW t \in Task, StartRun(c, t) \/ FollowUp(c, t)
            PROVE  call'[c].pc \in {"open", "answer"}
        BY <1>0, <4>1 DEF StartRun, FollowUp, Idle
      <4>2. ASSUME NEW t \in Task, CancelTask(c, t)
            PROVE  call'[c].pc \in {"cancel", "closing"}
        BY <1>0, <4>2 DEF CancelTask, Idle
      <4>3. QED
        BY <3>1, <4>1, <4>2 DEF Arrive
    <3>2. CASE OpenTask(c) \/ BeginWork(c) \/ MakeRoom(c) \/ FinishEviction(c) \/ FinishClose(c)
      BY <1>0, <3>2
      DEF OpenTask, BeginWork, MakeRoom, FinishEviction, FinishClose, Goto, CallFields
    <3>3. CASE Admit(c) \/ Answer(c)
      BY <1>0, <3>3 DEF Admit, Answer, EnterPump, Return, Idle
    <3>4. CASE Complete(c) \/ Fail(c) \/ PublishCanceled(c) \/ Leave(c) \/ LeavePump(c)
                 \/ HandlePermission(c)
      BY <1>0, <3>4
      DEF Complete, Fail, PublishCanceled, Leave, LeavePump, HandlePermission, Return, Idle
    <3>5. CASE TakeQuietly(c) \/ TakeEvent(c) \/ HandleText(c) \/ HandleTool(c)
                 \/ HandleFile(c) \/ FlushForRequest(c)
      BY <1>0, <3>5
      DEF TakeQuietly, TakeEvent, HandleText, HandleTool, HandleFile, FlushForRequest,
          Resume, CallFields
    <3>6. CASE TakeError(c)
      BY <1>0, <3>6 DEF TakeError, Goto, CallFields
    <3>7. CASE TakeDone(c)
      <4>1. call'[c].sess = call[c].sess /\ call'[c].pc # "fail"
        BY <1>0, <3>7 DEF TakeDone, Goto, CallFields
      <4>2. ~Taken(session[call[c].sess]).evicted
        BY <1>0, <3>7, <4>1 DEF TakeDone, Goto, CallFields
      <4>3. QED
        BY <3>7, <4>1, <4>2
    <3>8. CASE FlushLast(c)
      BY <1>0, <3>8 DEF FlushLast, Goto, CallFields
    <3>9. QED
      BY <1>1, <2>2, <3>1, <3>2, <3>3, <3>4, <3>5, <3>6, <3>7, <3>8 DEF Advance, Pump
  <2>3. QED
    BY <2>1, <2>2
<1>2. ASSUME NEW s \in SessionId, Drive(s) \/ Stop(s)
      PROVE  call' = call
  BY <1>2
  DEF Drive, Stop, BeginDriver, Report, EndDriver, RaiseDriver, Emit, Ask, DropUnstarted,
      Unwind, Runs
<1>3. QED
  BY <1>1, <1>2 DEF Next, vars

(* Without cancel() every step keeps it. *)
LEMMA CompletionStep ==
  ASSUME "cancel" \notin Faults, ProtocolInv, CompletionInv, [Next]_vars, EachSession
  PROVE  CompletionInv'
<1> USE DEF ProtocolInv
<1>1. ASSUME NEW s \in SessionId
      PROVE  Abandoned(session'[s], At(s)')
  <2>1. /\ session[s] \in Session /\ Sound(session[s], At(s), Hand(s))
        /\ Abandoned(session[s], At(s))
    BY DEF TypeOK, OneSound, CompletionInv
  <2>2. CASE GoesOn(session[s], At(s), Hand(s), session'[s], At(s)', Hand(s)')
    BY <2>1, <2>2, AbandonedKept
  <2>3. CASE ~Closing(s) /\ Closing(s)'
    <3>1. session'[s].evicted
      BY <2>3 DEF EachSession, Tended
    <3>2. QED
      BY <3>1 DEF Abandoned
  <2>4. QED
    BY <2>2, <2>3, StepGoes DEF EachSession
<1>2. ASSUME NEW c \in Call, call'[c].pc \in {"last", "complete"}
      PROVE  call'[c].sess \in SessionId /\ session'[call'[c].sess].runner = "returned"
  <2>1. \A s \in SessionId : session[s].runner = "returned" => session'[s].runner = "returned"
    BY EachAges DEF Ages, Finished, Over, Spoke
  <2>2. CASE call'[c] = call[c] \/ (call[c].pc = "last" /\ call'[c].sess = call[c].sess)
    BY <1>2, <2>1, <2>2 DEF CompletionInv
  <2>3. CASE TakeDone(c) /\ ~Taken(session[call[c].sess]).evicted
               /\ call'[c].sess = call[c].sess
    <3>1. PICK s \in SessionId : s = call[c].sess /\ s = call'[c].sess
      BY <2>3, CallTypes DEF TakeDone, CanTake, Draining
    <3>2. /\ call[c].pc = "get" /\ session[s].queue # << >>
          /\ Head(session[s].queue).kind = "done"
      BY <2>3, <3>1 DEF TakeDone, CanTake, Incoming
    <3>3. /\ session[s] \in Session /\ At(s) = "get" /\ ~session[s].evicted
          /\ Sound(session[s], At(s), Hand(s)) /\ Abandoned(session[s], At(s))
      BY <2>3, <3>1, <3>2, SessionTypes, TakenFields DEF OneSound, CompletionInv
    <3>4. session[s].runner = "returned"
      BY <3>2, <3>3, WhatEnds DEF Abandoned, Stopped, Spoke, Ends
    <3>5. QED
      BY <2>1, <3>1, <3>4
  <2>4. QED
    BY <1>2, <2>2, <2>3, ComesToEnd
<1>3. QED
  BY <1>1, <1>2 DEF CompletionInv

(* Without cancel(), a task is reported completed only when its driver      *)
(* returned, whatever is evicted and whoever disconnects: the mark an       *)
(* eviction leaves is seen by the pump, and a disconnect leaves no pump     *)
(* (executor.py:230-236, 251-277, 334-346).  With cancel() it is not so:    *)
(* run executor_cancel.                                                     *)
THEOREM CompletedMeansReturned ==
  ASSUME "cancel" \notin Faults
  PROVE  Spec => []NoFalseCompletion
<1>1. Init => CompletionInv
  <2> SUFFICES ASSUME Init PROVE CompletionInv
    OBVIOUS
  <2>1. \A s \in SessionId : session[s].runner = "none"
    BY DEF Init, Unborn
  <2>2. \A c \in Call : call[c].pc = "idle"
    BY DEF Init, Idle
  <2>3. QED
    BY <2>1, <2>2 DEF CompletionInv, Abandoned, Stopped
<1>2. ProtocolInv /\ CompletionInv /\ [Next]_vars => CompletionInv'
  BY ProtocolStep, CompletionStep
<1>3. CompletionInv => NoFalseCompletion
  BY DEF CompletionInv, NoFalseCompletion
<1>4. QED
  BY <1>1, <1>2, <1>3, ProtocolKept, PTL DEF Spec

-----------------------------------------------------------------------------
(* Without overlapping messages: each task has one run at a time.           *)

OwnerInv ==
  /\ \A t \in Task : \A c, d \in Call : Executes(c, t) /\ Executes(d, t) => c = d
  /\ \A c \in Call : call[c].pc \in Starting => live[call[c].task] = None
  /\ \A c \in Call : call[c].pc \in InPump \cup {"answer"} =>
       live[call[c].task] \in {None, call[c].sess}
  /\ NoOrphanRunner

(* Where a call that executes comes from (executor.py:140-178). *)
Continues(c) == /\ call[c].pc \in Executing /\ call'[c].task = call[c].task
                /\ call'[c].pc \in Starting => call[c].pc \in Starting
                /\ call'[c].pc \in InPump \cup {"answer"} =>
                     \/ /\ call[c].pc \in InPump \cup {"answer"}
                        /\ call'[c].sess = call[c].sess
                     \/ Admit(c) /\ live'[call[c].task] = call'[c].sess

(* A call that executes goes on, or took the place of none.                 *)
LEMMA ComesToExecute ==
  ASSUME TypeOK, [Next]_vars, NEW c \in Call, call'[c].pc \in Executing
  PROVE  \/ call'[c] = call[c]
         \/ Continues(c)
         \/ \E t \in Task : /\ StartRun(c, t) \/ FollowUp(c, t)
                            /\ call'[c].task = t
                            /\ StartRun(c, t) => call'[c].pc = "open"
                            /\ FollowUp(c, t) => call'[c].pc = "answer" /\ call'[c].sess = live[t]
<1> DEFINE Goal == \/ call'[c] = call[c]
                   \/ Continues(c)
                   \/ \E t \in Task :
                        /\ StartRun(c, t) \/ FollowUp(c, t)
                        /\ call'[c].task = t
                        /\ StartRun(c, t) => call'[c].pc = "open"
                        /\ FollowUp(c, t) => call'[c].pc = "answer" /\ call'[c].sess = live[t]
<1>0. call \in [Call -> CallState] /\ call[c] \in CallFields
  BY DEF TypeOK, CallState
<1> USE DEF Executing, Pc, Starting, InPump, Draining
<1>1. ASSUME NEW d \in Call, Arrive(d) \/ Advance(d) \/ Leave(d) \/ LeavePump(d)
      PROVE  Goal
  <2>1. CASE d # c
    BY <1>1, <2>1, OtherCalls
  <2>2. CASE d = c
    <3>1. ASSUME NEW t \in Task, StartRun(c, t)
          PROVE  Goal
      <4>1. /\ call'[c].task = t /\ call'[c].pc = "open" /\ ~FollowUp(c, t)
        BY <1>0, <3>1 DEF StartRun, FollowUp, Idle
      <4>2. QED
        BY <3>1, <4>1
    <3>2. ASSUME NEW t \in Task, FollowUp(c, t)
          PROVE  Goal
      <4>1. /\ call'[c].task = t /\ call'[c].pc = "answer" /\ call'[c].sess = live[t]
            /\ ~StartRun(c, t)
        BY <1>0, <3>2 DEF StartRun, FollowUp, Idle
      <4>2. QED
        BY <3>2, <4>1
    <3>3. ASSUME NEW t \in Task, CancelTask(c, t)
          PROVE  FALSE
      BY <1>0, <3>3 DEF CancelTask, Idle
    <3>4. CASE OpenTask(c) \/ BeginWork(c) \/ FinishEviction(c)
      BY <1>0, <3>4 DEF OpenTask, BeginWork, FinishEviction, Goto, CallFields, Continues
    <3>5. CASE MakeRoom(c)
      <4>1. call'[c] = call[c] \/ \E s : call'[c] = [call[c] EXCEPT !.pc = "evict", !.sess = s]
        BY <1>0, <3>5 DEF MakeRoom
      <4>2. QED
        BY <1>0, <3>5, <4>1 DEF MakeRoom, CallFields, Continues
    <3>6. CASE Admit(c)
      <4>1. PICK s \in Unused : Register(call[c].task, s) /\ EnterPump(c, call[c].task, s, Started)
        BY <3>6 DEF Admit
      <4>2. call[c].pc = "admit" /\ call[c].task \in Task
        BY <3>6, CallTypes DEF Admit
      <4>3. /\ call'[c].pc = "get" /\ call'[c].task = call[c].task /\ call'[c].sess = s
            /\ live'[call[c].task] = s
        BY <1>0, <4>1, <4>2 DEF Register, EnterPump, TypeOK
      <4>4. QED
        BY <3>6, <4>2, <4>3 DEF Continues
    <3>7. CASE Answer(c)
      <4>1. call'[c].pc = "get" /\ call'[c].task = call[c].task /\ call'[c].sess = call[c].sess
        BY <1>0, <3>7 DEF Answer, EnterPump, Return, Idle
      <4>2. QED
        BY <3>7, <4>1 DEF Answer, Continues
    <3>8. CASE Complete(c) \/ Fail(c) \/ PublishCanceled(c) \/ Leave(c) \/ LeavePump(c)
                 \/ HandlePermission(c) \/ FinishClose(c)
      BY <1>0, <3>8
      DEF Complete, Fail, PublishCanceled, Leave, LeavePump, HandlePermission, FinishClose,
          Return, Goto, Idle, CallFields
    <3>9. CASE TakeQuietly(c) \/ FlushForRequest(c)
      BY <3>9 DEF TakeQuietly, FlushForRequest
    <3>10. CASE TakeEvent(c) \/ HandleText(c) \/ HandleTool(c) \/ HandleFile(c)
      BY <1>0, <3>10
      DEF TakeEvent, CanTake, HandleText, HandleTool, HandleFile, Publishing,
          Resume, CallFields, Continues
    <3>11. CASE TakeError(c) \/ TakeDone(c) \/ FlushLast(c)
      BY <1>0, <3>11 DEF TakeError, TakeDone, FlushLast, CanTake, Goto, CallFields, Continues
    <3>12. QED
      BY <1>1, <2>2, <3>1, <3>2, <3>3, <3>4, <3>5, <3>6, <3>7, <3>8, <3>9, <3>10, <3>11
      DEF Advance, Pump, Arrive
  <2>3. QED
    BY <2>1, <2>2
<1>2. ASSUME NEW s \in SessionId, Drive(s) \/ Stop(s)
      PROVE  call' = call
  BY <1>2
  DEF Drive, Stop, BeginDriver, Report, EndDriver, RaiseDriver, Emit, Ask, DropUnstarted,
      Unwind, Runs
<1>3. QED
  BY <1>1, <1>2 DEF Next, vars

(* The pump's ways out that unregister its task (executor.py:230-236, 251-277). *)
Leaves(c) == TakeError(c) \/ TakeDone(c) \/ FlushLast(c) \/ LeavePump(c)

(* Who unregisters a task.                                                  *)
LEMMA WhoPops ==
  ASSUME TypeOK, [Next]_vars, NEW t \in Task, live'[t] # live[t]
  PROVE  \/ \E c \in Call : Admit(c) /\ call[c].task = t
         \/ \E c \in Call : /\ MakeRoom(c) /\ live[t] \in SessionId
                            /\ session'[live[t]] = Closed(Evicted(session[live[t]]))
         \/ \E c \in Call : CancelTask(c, t)
         \/ \E c \in Call : Leaves(c) /\ call[c].task = t
<1> DEFINE Goal == \/ \E c \in Call : Admit(c) /\ call[c].task = t
                   \/ \E c \in Call : /\ MakeRoom(c) /\ live[t] \in SessionId
                                      /\ session'[live[t]] = Closed(Evicted(session[live[t]]))
                   \/ \E c \in Call : CancelTask(c, t)
                   \/ \E c \in Call : Leaves(c) /\ call[c].task = t
<1>0. live \in [Task -> SessionId \cup {None}] /\ session \in [SessionId -> Session]
  BY DEF TypeOK
<1>1. live' # live
  OBVIOUS
<1>2. \A u \in Task : PopLive(u) => u = t
  BY <1>0 DEF PopLive
<1>3. ASSUME NEW c \in Call, Arrive(c) \/ Advance(c) \/ Leave(c) \/ LeavePump(c)
      PROVE  Goal
  <2>1. CASE Arrive(c)
    <3>1. PICK u \in Task : CancelTask(c, u)
      BY <1>1, <2>1 DEF Arrive, StartRun, FollowUp
    <3>2. u = t
      BY <1>2, <3>1 DEF CancelTask
    <3>3. QED
      BY <3>1, <3>2
  <2>2. CASE Admit(c)
    <3>1. \E s : Register(call[c].task, s)
      BY <2>2 DEF Admit
    <3>2. call[c].task = t
      BY <1>0, <3>1 DEF Register
    <3>3. QED
      BY <2>2, <3>2
  <2>3. CASE MakeRoom(c)
    <3>1. PICK v \in LiveTasks :
            /\ session' = [session EXCEPT ![live[v]] = Closed(Evicted(session[live[v]]))]
            /\ PopLive(v)
      BY <2>3 DEF MakeRoom
    <3>2. v = t /\ live[t] \in SessionId
      BY <1>0, <1>2, <3>1 DEF LiveTasks
    <3>3. session'[live[t]] = Closed(Evicted(session[live[t]]))
      BY <1>0, <3>1, <3>2
    <3>4. QED
      BY <2>3, <3>2, <3>3
  <2>4. CASE Leaves(c)
    <3>1. PopLive(call[c].task) /\ call[c].task \in Task
      BY <1>1, <2>4, CallTypes
      DEF Leaves, TakeError, TakeDone, FlushLast, LeavePump, Discard, CanTake, Draining
    <3>2. QED
      BY <1>2, <2>4, <3>1
  <2>5. QED
    BY <1>1, <1>3, <2>1, <2>2, <2>3, <2>4, Zenon
    DEF Advance, Pump, Leaves, OpenTask, BeginWork, FinishEviction, Answer, TakeQuietly,
        TakeEvent, HandleText, HandleTool, HandleFile, FlushForRequest, HandlePermission,
        Complete, Fail, FinishClose, PublishCanceled, Leave
<1>4. ASSUME NEW s \in SessionId, Drive(s) \/ Stop(s)
      PROVE  FALSE
  BY <1>1, <1>4
  DEF Drive, Stop, BeginDriver, Report, EndDriver, RaiseDriver, Emit, Ask, DropUnstarted,
      Unwind, Runs
<1>5. QED
  BY <1>1, <1>3, <1>4 DEF Next, vars

(* The session of a pump on its way out: its runner is over, or is told to  *)
(* stop.                                                                    *)
LEMMA LeavesStopped ==
  ASSUME ProtocolInv, EachSession, NEW c \in Call, Leaves(c)
  PROVE  /\ call[c].pc \in InPump /\ call[c].sess \in SessionId
         /\ session'[call[c].sess].runner \notin Live
<1> USE DEF ProtocolInv
<1>1. call[c].pc \in InPump
  BY DEF Leaves, TakeError, TakeDone, FlushLast, LeavePump, CanTake, InPump, Draining
<1>2. PICK s \in SessionId : s = call[c].sess
  BY <1>1, CallTypes DEF InPump
<1>3. session[s] \in Session /\ Ages(session[s], session'[s]) /\ OneSound(s)
  BY EachAges DEF TypeOK
<1>4. session[s].runner # "none"
  BY <1>1, <1>2 DEF RegistryInv
<1>5. CASE TakeError(c) \/ TakeDone(c)
  <2>1. /\ call[c].pc = "get" /\ session[s].queue # << >> /\ Ends(Head(session[s].queue))
    BY <1>2, <1>5 DEF TakeError, TakeDone, CanTake, Incoming, Ends
  <2>2. session[s].runner \in Spoke
    BY <1>2, <1>3, <2>1, SessionTypes, WhatEnds DEF OneSound
  <2>3. QED
    BY <1>1, <1>2, <1>3, <1>4, <2>2 DEF Ages, Spoke, Live
<1>6. CASE FlushLast(c)
  <2>1. session[s].done
    BY <1>2, <1>6 DEF FlushLast, RegistryInv
  <2>2. session[s].runner \in Spoke
    BY <1>3, <2>1 DEF OneSound, Sound, DrainSound
  <2>3. QED
    BY <1>1, <1>2, <1>3, <1>4, <2>2 DEF Ages, Spoke, Live
<1>7. CASE LeavePump(c)
  <2>1. session'[s] = CancelRunner(session[s])
    BY <1>2, <1>7 DEF LeavePump, TypeOK
  <2>2. CancelRunner(session[s]).runner \notin Live
    BY <1>3 DEF CancelRunner, Session, Live
  <2>3. QED
    BY <1>1, <1>2, <2>1, <2>2
<1>8. QED
  BY <1>5, <1>6, <1>7 DEF Leaves

(* While each task has one run, a session that is unregistered runs no more *)
(* (executor.py:230-236, 279-285, 328-352).                                 *)
LEMMA UnregisteredStops ==
  ASSUME ProtocolInv, OwnerInv, EachSession, [Next]_vars,
         NEW s \in SessionId, NEW t \in Task, live[t] = s, live'[t] # s
  PROVE  session'[s].runner \notin Live
<1> USE DEF ProtocolInv
<1>1. session[s] \in Session
  BY DEF TypeOK
<1>2. \A x \in {session[s], Evicted(session[s])} : Closed(x).runner \notin Live
  <2>1. \A x \in Session : Closed(x).runner \notin Live
    BY DEF Closed, Finished, Forgotten, CancelRunner, Session, Live, Over, Spoke
  <2>2. QED
    BY <1>1, <2>1, ClosedType
<1>3. ASSUME NEW c \in Call, Admit(c), call[c].task = t
      PROVE  FALSE
  BY <1>3, ExecutorAssumption DEF OwnerInv, Admit, Starting
<1>4. ASSUME NEW c \in Call, CancelTask(c, t)
      PROVE  session'[s].runner \notin Live
  <2>1. session' = [session EXCEPT ![s] = Closed(session[s])]
    BY <1>4, ExecutorAssumption DEF CancelTask
  <2>2. session'[s] = Closed(session[s])
    BY <2>1 DEF TypeOK
  <2>3. QED
    BY <1>2, <2>2
<1>5. ASSUME NEW c \in Call, Leaves(c), call[c].task = t
      PROVE  session'[s].runner \notin Live
  <2>1. call[c].sess = s
    BY <1>5, LeavesStopped, ExecutorAssumption DEF OwnerInv
  <2>2. QED
    BY <1>5, <2>1, LeavesStopped
<1>6. QED
  BY <1>2, <1>3, <1>4, <1>5, WhoPops

(* A task is registered anew by its admission only (executor.py:161-165).   *)
LEMMA WhoRegisters ==
  ASSUME TypeOK, [Next]_vars, NEW t \in Task, live'[t] # live[t], live'[t] # None
  PROVE  \E c \in Call : Admit(c) /\ call[c].task = t
<1>1. PICK c \in Call : Admit(c)
  BY OnlyAdmitGrows DEF Shrinks
<1>2. \E s : Register(call[c].task, s)
  BY <1>1 DEF Admit
<1>3. call[c].task = t
  BY <1>2 DEF Register, TypeOK
<1>4. QED
  BY <1>1, <1>3

(* One call at a time for each task, while callers send one message at a    *)
(* time (executor.py:140-178).                                              *)
LEMMA OneCallPerTask ==
  ASSUME "overlap" \notin Faults, TypeOK, OwnerInv, [Next]_vars, NEW t \in Task,
         NEW c \in Call, NEW d \in Call, Executes(c, t)', Executes(d, t)'
  PROVE  c = d
<1> DEFINE Comes(e) == StartRun(e, t) \/ FollowUp(e, t)
<1>1. ASSUME NEW e \in Call, Executes(e, t)'
      PROVE  Executes(e, t) \/ Comes(e)
  BY <1>1, ComesToExecute DEF Executes, Continues
<1>2. ASSUME NEW e \in Call, Comes(e)
      PROVE  \A g \in Call : ~Executes(g, t) /\ (g # e => call'[g] = call[g])
  <2>1. Arrive(e)
    BY <1>2 DEF Arrive
  <2>2. \A g \in Call : ~Executes(g, t)
    BY <1>2 DEF StartRun, FollowUp, Accepts
  <2>3. QED
    BY <2>1, <2>2, OtherCalls
<1>3. CASE Executes(c, t) /\ Executes(d, t)
  BY <1>3 DEF OwnerInv
<1>4. CASE Comes(c) \/ Comes(d)
  BY <1>2, <1>4 DEF Executes
<1>5. QED
  BY <1>1, <1>3, <1>4

(* Without overlapping messages every step keeps it.                        *)
LEMMA OwnerStep ==
  ASSUME "overlap" \notin Faults, ProtocolInv, OwnerInv, EachSession, [Next]_vars
  PROVE  OwnerInv'
<1> USE DEF ProtocolInv
<1>0. /\ live \in [Task -> SessionId \cup {None}]
      /\ \A c \in Call : call[c].pc # "idle" => call[c].task \in Task
  BY CallTypes DEF TypeOK
<1>1. \A t \in Task : \A c, d \in Call : Executes(c, t)' /\ Executes(d, t)' => c = d
  BY OneCallPerTask
<1>2. ASSUME NEW c \in Call, call[c].pc \in Starting \cup InPump \cup {"answer"}, ~Admit(c),
             NEW t \in Task, t = call[c].task
      PROVE  live'[t] \in {None, live[t]}
  <2>1. \A d \in Call : Admit(d) /\ call[d].task = t => d = c
    BY <1>2 DEF OwnerInv, Executes, Executing, Admit, Pc, InPump, Starting, Draining
  <2>2. QED
    BY <1>2, <2>1, WhoRegisters
<1>3. ASSUME NEW c \in Call, call'[c].pc \in Starting
      PROVE  live'[call'[c].task] = None
  <2>1. call'[c].pc \in Executing /\ call'[c].pc \notin InPump \cup {"answer"}
    BY <1>3 DEF Executing, Pc, Starting, InPump, Draining
  <2>2. CASE call'[c] = call[c] \/ Continues(c)
    <3>1. call[c].pc \in Starting /\ call'[c].task = call[c].task /\ call[c].task \in Task
      BY <1>0, <1>3, <2>2 DEF Continues, Starting
    <3>2. ~Admit(c)
      BY <1>3 DEF Admit, EnterPump, Starting, TypeOK
    <3>3. QED
      BY <1>2, <3>1, <3>2 DEF OwnerInv
  <2>3. ASSUME NEW t \in Task, StartRun(c, t), call'[c].task = t
        PROVE  live'[call'[c].task] = None
    BY <2>3 DEF StartRun
  <2>4. QED
    BY <2>1, <2>2, <2>3, ComesToExecute
<1>4. ASSUME NEW c \in Call, call'[c].pc \in InPump \cup {"answer"}
      PROVE  live'[call'[c].task] \in {None, call'[c].sess}
  <2>1. call'[c].pc \in Executing /\ call'[c].pc \notin Starting
    BY <1>4 DEF Executing, Pc, Starting, InPump, Draining
  <2>2. ASSUME call[c].pc \in InPump \cup {"answer"}, call'[c].task = call[c].task,
               call'[c].sess = call[c].sess
        PROVE  live'[call'[c].task] \in {None, call'[c].sess}
    <3>1. ~Admit(c) /\ call[c].task \in Task
      BY <1>0, <2>2 DEF Admit, InPump, Draining
    <3>2. QED
      BY <1>2, <2>2, <3>1 DEF OwnerInv
  <2>3. ASSUME NEW t \in Task, FollowUp(c, t), call'[c].task = t, call'[c].sess = live[t]
        PROVE  live'[call'[c].task] \in {None, call'[c].sess}
    BY <2>3 DEF FollowUp
  <2>4. CASE call'[c] = call[c]
    BY <1>4, <2>2, <2>4
  <2>5. CASE Continues(c)
    <3>1. CASE call[c].pc \in InPump \cup {"answer"} /\ call'[c].sess = call[c].sess
      BY <2>2, <2>5, <3>1 DEF Continues
    <3>2. CASE live'[call[c].task] = call'[c].sess
      BY <2>5, <3>2 DEF Continues
    <3>3. QED
      BY <1>4, <2>5, <3>1, <3>2 DEF Continues
  <2>6. "open" \notin InPump \cup {"answer"}
    BY DEF InPump, Draining
  <2>7. QED
    BY <1>4, <2>1, <2>3, <2>4, <2>5, <2>6, ComesToExecute
<1>5. ASSUME NEW s \in SessionId, session'[s].runner \in Live
      PROVE  Registered(s)'
  <2>1. CASE session[s].runner = "none"
    BY <1>5, <2>1 DEF EachSession, Tended, Live
  <2>2. CASE session[s].runner # "none"
    <3>1. session[s].runner \in Live
      BY <1>5, <2>2, EachAges DEF Ages
    <3>2. PICK t \in Task : live[t] = s
      BY <3>1 DEF OwnerInv, NoOrphanRunner, Live
    <3>3. live'[t] = s
      BY <1>5, <3>2, UnregisteredStops
    <3>4. QED
      BY <3>3 DEF Registered
  <2>3. QED
    BY <2>1, <2>2
<1>6. NoOrphanRunner'
  BY <1>5 DEF NoOrphanRunner, Registered, Live
<1>7. QED
  BY <1>1, <1>3, <1>4, <1>6 DEF OwnerInv

(* It holds before the first message arrives. *)
LEMMA OwnerInit ==
  ASSUME Init
  PROVE  OwnerInv
<1>1. /\ \A c \in Call : call[c].pc = "idle"
      /\ \A s \in SessionId : session[s].runner = "none"
  BY DEF Init, Idle, Unborn
<1>2. QED
  BY <1>1 DEF OwnerInv, NoOrphanRunner, Executes, Executing, Starting, InPump, Draining

(* While callers send one message of a task at a time, a run that goes on   *)
(* is registered: it can be cancelled and evicted, and it counts against    *)
(* _MAX_LIVE (executor.py:117-118, 161-165, 230-236).  With overlapping     *)
(* messages the second run of a task takes the registry entry of the first. *)
THEOREM RunsAreRegistered ==
  ASSUME "overlap" \notin Faults
  PROVE  Spec => []NoOrphanRunner
<1>1. Init => OwnerInv
  BY OwnerInit
<1>2. ProtocolInv /\ OwnerInv /\ [Next]_vars => OwnerInv'
  BY ProtocolStep, OwnerStep
<1>3. OwnerInv => NoOrphanRunner
  BY DEF OwnerInv
<1>4. QED
  BY <1>1, <1>2, <1>3, ProtocolKept, PTL DEF Spec

-----------------------------------------------------------------------------
(* Requests on their way, and without disconnects: no session stays behind  *)
(* in the registry.                                                         *)

(* What a session's queue or its consumer asks for, somebody waits for.     *)
Asking(x, h) == \A r \in ReqId \cup {None} :
                  Holds(x, Request(r)) \/ h = Request(r) => r \in x.pending

(* Of what is on a queue after an item was put or taken, the rest was there *)
(* before (session.py:73-87, 103-110).                                      *)
LEMMA HeldBefore ==
  ASSUME NEW x \in Session, NEW y, NEW other
  PROVE  /\ \A item \in Item : y.queue = Append(x.queue, item) /\ Holds(y, other)
              => other = item \/ Holds(x, other)
         /\ x.queue # << >> /\ y.queue = Tail(x.queue) /\ Holds(y, other)
              => Holds(x, other)
<1> DEFINE q == x.queue
<1>1. q \in Seq(Item)
  BY DEF Session
<1>2. ASSUME NEW item \in Item, y.queue = Append(q, item), Holds(y, other)
      PROVE  other = item \/ Holds(x, other)
  BY <1>1, <1>2, Appending DEF Holds
<1>3. ASSUME q # << >>, y.queue = Tail(q), Holds(y, other)
      PROVE  Holds(x, other)
  <2>1. PICK j \in 1..Len(Tail(q)) : Tail(q)[j] = other
    BY <1>3 DEF Holds
  <2>2. j + 1 \in 1..Len(q) /\ q[j + 1] = other
    BY <1>1, <1>3, <2>1
  <2>3. QED
    BY <2>2 DEF Holds
<1>4. QED
  BY <1>2, <1>3

(* A request is of one kind, and nothing else is. *)
LEMMA RequestKind ==
  ASSUME NEW r \in ReqId \cup {None}
  PROVE  /\ Request(r) \in Item /\ Request(r) # None
         /\ Request(r).kind = "permission" /\ Request(r).id = r
         /\ \A k : k # "permission" => Event(k) # Request(r)
<1>1. Request(r) \in Item /\ Request(r).kind = "permission" /\ Request(r).id = r
  BY DEF Request, Item, Kinds
<1>2. \A k : Event(k).kind = k
  BY DEF Event
<1>3. QED
  BY <1>1, <1>2, SessionAssumption

(* The end of a runner asks for nothing (session.py:57-67). *)
LEMMA EndedAsks ==
  ASSUME NEW x \in Session, NEW how \in Spoke, NEW r \in ReqId \cup {None},
         Holds(Ended(x, how), Request(r))
  PROVE  Holds(x, Request(r))
<1> DEFINE z == IF how = "raised" THEN Put(x, Event("error")) ELSE x
           y == Put(z, Event("done"))
<1>1. Event("error") \in Item /\ Event("done") \in Item
  BY ItemTypes DEF Kinds
<1>2. z \in Session /\ (z = x \/ z.queue = Append(x.queue, Event("error")))
  BY <1>1, PutType, PutFields
<1>3. y \in Session /\ y.queue = Append(z.queue, Event("done"))
  BY <1>1, <1>2, PutType, PutFields
<1>4. Ended(x, how).queue = y.queue
  <2>1. Ended(x, how) = [y EXCEPT !.runner = how]
    BY DEF Ended
  <2> HIDE DEF y
  <2>2. QED
    BY <1>3, <2>1 DEF Session
<1>5. Event("error") # Request(r) /\ Event("done") # Request(r)
  BY RequestKind
<1> HIDE DEF z, y
<1>6. Holds(z, Request(r))
  BY <1>1, <1>2, <1>3, <1>4, <1>5, HeldBefore
<1>7. QED
  BY <1>1, <1>2, <1>5, <1>6, HeldBefore

(* No step of a session puts a request where there was none, or awaits its  *)
(* decision (session.py:76-87).                                             *)
LEMMA RequestsGo ==
  ASSUME NEW x \in Session, NEW a, NEW h, NEW y, NEW b, NEW i, Goes(x, a, h, y, b, i),
         NEW r \in ReqId \cup {None}, Holds(y, Request(r)) \/ i = Request(r)
  PROVE  r \in y.pending \/ Holds(x, Request(r)) \/ h = Request(r)
<1> DEFINE Goal == r \in y.pending \/ Holds(x, Request(r)) \/ h = Request(r)
<1>0. Request(r) # None /\ \A k : k # "permission" => Event(k) # Request(r)
  BY RequestKind
<1>1. ASSUME i = h, y.queue = x.queue
      PROVE  Goal
  BY <1>1 DEF Holds
<1>2. CASE i = h /\ Works(x, h, y)
  <2>1. CASE y = Began(x) \/ y = Stillborn(x)
    BY <1>1, <1>2, <2>1 DEF Began, Stillborn, Session
  <2>2. ASSUME NEW item \in Item, item # Request(r), y.queue = Append(x.queue, item)
        PROVE  Goal
    BY <1>2, <2>2, HeldBefore
  <2>3. ASSUME NEW k \in EventKinds, y = Emitted(x, k)
        PROVE  Goal
    <3>1. Event(k) \in Item /\ k # "permission"
      BY ItemTypes, SessionAssumption DEF Kinds
    <3>2. QED
      BY <1>0, <2>2, <2>3, <3>1, PutFields DEF Emitted
  <2>4. CASE y = Reported(x)
    <3>1. Event("result") \in Item
      BY ItemTypes DEF Kinds
    <3>2. QED
      BY <1>0, <2>2, <2>4, <3>1, ReportedFields
  <2>5. ASSUME NEW how \in Spoke, y = Ended(x, how)
        PROVE  Goal
    BY <1>2, <2>5, EndedAsks
  <2>6. ASSUME NEW q \in ReqId, y = Asked(x, q)
        PROVE  Goal
    <3>1. y.queue = Append(x.queue, Request(q)) /\ y.pending = x.pending \cup {q}
      BY <2>6, AskedFields
    <3>2. Request(q) \in Item /\ Request(q).id = q /\ Request(r).id = r
      BY RequestKind
    <3>3. QED
      BY <2>2, <3>1, <3>2
  <2>7. QED
    BY <1>2, <2>1, <2>3, <2>4, <2>5, <2>6 DEF Works
<1>3. CASE i = h /\ y = Started
  BY <1>3 DEF Holds, Started, Unborn
<1>4. CASE i = h /\ (y = Resolved(x, x.last) \/ Forgets(x, y) \/ Stops(x, y))
  BY <1>1, <1>4
  DEF Forgets, Stops, Resolved, Forgotten, CancelRunner, Evicted, Session
<1>5. CASE Takes(x, a, h, y, b, i)
  <2>1. y.queue = Tail(x.queue) /\ x.queue # << >>
    BY <1>5, TakenFields, TakenType DEF Takes, Forgotten, Session
  <2>2. x.queue \in Seq(Item) /\ 1 \in 1..Len(x.queue) /\ Head(x.queue) = x.queue[1]
    BY <2>1 DEF Session
  <2>3. i = h \/ Holds(x, i)
    BY <1>5, <2>2 DEF Takes, Holds
  <2>4. QED
    BY <2>1, <2>3, HeldBefore
<1>6. CASE i = None /\ (Resumes(x, h, y, b) \/ y = CancelRunner(x))
  <2>1. y.queue = x.queue
    BY <1>6 DEF Resumes, Surfaced, CancelRunner, Session
  <2>2. QED
    BY <1>0, <1>6, <2>1 DEF Holds
<1>7. CASE y = x /\ i = h
  BY <1>7
<1>8. QED
  BY <1>2, <1>3, <1>4, <1>5, <1>6, <1>7 DEF Goes, GoesOn

(* What a step withdraws of a registered session: nothing, or the request   *)
(* it answers.                                                              *)
Withdraws(x, y, b) == \/ x.pending \subseteq y.pending
                      \/ /\ Parked(x) /\ b # "off"
                         /\ x.pending \ {x.last} \subseteq y.pending

(* So whoever asked still waits (executor.py:168-178, session.py:76-101).   *)
LEMMA AskingGoes ==
  ASSUME NEW x \in Session, NEW a, NEW h, h = None <=> a # "yield", Sound(x, a, h),
         NEW y, NEW b, NEW i, Goes(x, a, h, y, b, i), Withdraws(x, y, b), Asking(x, h)
  PROVE  Asking(y, i)
<1> SUFFICES ASSUME NEW r \in ReqId \cup {None}, Holds(y, Request(r)) \/ i = Request(r)
             PROVE  r \in y.pending
  BY DEF Asking
<1>1. r \in y.pending \/ Holds(x, Request(r)) \/ h = Request(r)
  BY RequestsGo
<1>2. Holds(x, Request(r)) \/ h = Request(r) => r \in x.pending
  BY DEF Asking
<1>3. CASE x.pending \subseteq y.pending
  BY <1>1, <1>2, <1>3
<1>4. CASE Parked(x) /\ x.pending \ {x.last} \subseteq y.pending
  <2>1. h # Request(r)
    BY <1>4, RequestKind DEF Sound, DrainSound
  <2>2. Holds(x, Request(r)) => r # x.last
    BY RequestKind DEF Sound, QueueSound, Holds
  <2>3. QED
    BY <1>1, <1>2, <1>4, <2>1, <2>2
<1>5. QED
  BY <1>3, <1>4 DEF Withdraws

(* A parked session stays parked until it is answered (session.py:89-114).  *)
LEMMA ParkedGoes ==
  ASSUME NEW x \in Session, NEW a, NEW h, Sound(x, a, h), x.runner # "none", Parked(x),
         NEW y, NEW b, NEW i, Goes(x, a, h, y, b, i), Withdraws(x, y, b)
  PROVE  Parked(y) \/ b # "off"
<1>0. a = "off"
  BY DEF Sound, DrainSound
<1> SUFFICES ASSUME b = "off"
             PROVE  Parked(y)
  OBVIOUS
<1>1. x.last \in y.pending
  BY DEF Parked, Withdraws
<1>2. CASE Works(x, h, y)
  <2>1. ASSUME y = Began(x) \/ y = Stillborn(x)
        PROVE  y.last = x.last
    BY <2>1 DEF Began, Stillborn, Session
  <2>2. ASSUME NEW k \in EventKinds, y = Emitted(x, k)
        PROVE  y.last = x.last
    <3>1. Event(k) \in Item
      BY ItemTypes, SessionAssumption DEF Kinds
    <3>2. QED
      BY <2>2, <3>1, PutFields DEF Emitted
  <2>3. ASSUME NEW how \in Spoke, y = Ended(x, how)
        PROVE  y.last = x.last
    BY <2>3, EndedEffect DEF Over
  <2>4. y.last = x.last
    BY <1>2, <2>1, <2>2, <2>3, ReportedFields, AskedFields DEF Works
  <2>5. QED
    BY <1>1, <2>4 DEF Parked
<1>3. CASE y = x \/ Forgets(x, y) \/ Stops(x, y)
  <2>1. y.last = x.last
    BY <1>3 DEF Forgets, Stops, Forgotten, CancelRunner, Evicted, Session
  <2>2. QED
    BY <1>1, <2>1 DEF Parked
<1>4. QED
  BY <1>0, <1>2, <1>3 DEF Goes, GoesOn, Takes

(* Where a pump goes that nobody disconnects (executor.py:180-277).         *)
LEMMA PumpGoes ==
  ASSUME "disconnect" \notin Faults, TypeOK, [Next]_vars, NEW c \in Call,
         call[c].pc \in InPump
  PROVE  \/ call'[c].pc \in InPump /\ call'[c].sess = call[c].sess
         \/ live'[call[c].task] = None
         \/ session[call[c].sess].evicted
         \/ HandlePermission(c)
<1> DEFINE Goal == \/ call'[c].pc \in InPump /\ call'[c].sess = call[c].sess
                   \/ live'[call[c].task] = None
                   \/ session[call[c].sess].evicted
                   \/ HandlePermission(c)
<1>0. /\ call \in [Call -> CallState] /\ call[c] \in CallFields
      /\ live \in [Task -> SessionId \cup {None}] /\ call[c].task \in Task
      /\ call[c].sess \in SessionId /\ session[call[c].sess] \in Session
  BY CallTypes DEF TypeOK, CallState, InPump, Draining
<1> USE DEF InPump, Draining
<1>1. ASSUME NEW d \in Call, Arrive(d) \/ Advance(d) \/ Leave(d) \/ LeavePump(d)
      PROVE  Goal
  <2>1. CASE d # c
    BY <1>1, <2>1, OtherCalls
  <2>2. CASE d = c
    <3>1. ~Arrive(c) /\ ~Leave(c) /\ ~LeavePump(c)
      BY Zenon DEF Arrive, StartRun, FollowUp, CancelTask, Accepts, Leave, LeavePump
    <3>2. /\ ~OpenTask(c) /\ ~BeginWork(c) /\ ~Admit(c) /\ ~MakeRoom(c)
          /\ ~FinishEviction(c) /\ ~Answer(c) /\ ~FinishClose(c) /\ ~PublishCanceled(c)
          /\ ~Complete(c) /\ ~Fail(c)
      BY DEF OpenTask, BeginWork, Admit, MakeRoom, FinishEviction, Answer, FinishClose,
             PublishCanceled, Complete, Fail
    <3>3. CASE TakeQuietly(c) \/ TakeEvent(c) \/ HandleText(c) \/ HandleTool(c)
                 \/ HandleFile(c) \/ FlushForRequest(c)
      BY <1>0, <3>3
      DEF TakeQuietly, TakeEvent, HandleText, HandleTool, HandleFile, FlushForRequest,
          Resume, CallFields
    <3>4. CASE TakeError(c) \/ FlushLast(c)
      BY <1>0, <3>4 DEF TakeError, FlushLast, Discard, PopLive
    <3>5. CASE TakeDone(c)
      BY <1>0, <3>5, TakenFields DEF TakeDone, Discard, PopLive, Goto, CallFields
    <3>6. QED
      BY <1>1, <2>2, <3>1, <3>2, <3>3, <3>4, <3>5 DEF Advance, Pump
  <2>3. QED
    BY <2>1, <2>2
<1>2. ASSUME NEW s \in SessionId, Drive(s) \/ Stop(s)
      PROVE  call' = call
  BY <1>2
  DEF Drive, Stop, BeginDriver, Report, EndDriver, RaiseDriver, Emit, Ask, DropUnstarted,
      Unwind, Runs
<1>3. QED
  BY <1>1, <1>2 DEF Next, vars

(* Every registered session, that of a new run included. *)
AskingInv == \A t \in LiveTasks : Asking(session[live[t]], Hand(live[t]))

(* The caller of an admission pumps the new session, which asked for        *)
(* nothing yet (executor.py:161-178).                                       *)
LEMMA Admitted ==
  ASSUME ProtocolInv, [Next]_vars, NEW c \in Call, Admit(c),
         NEW t \in Task, call[c].task = t, NEW s \in SessionId, s = live'[t]
  PROVE  /\ session'[s] = Started /\ call'[c].pc = "get" /\ call'[c].sess = s
         /\ At(s)' = "get" /\ Hand(s)' = None
<1>0. /\ session \in [SessionId -> Session] /\ call \in [Call -> CallState]
      /\ live \in [Task -> SessionId \cup {None}]
  BY DEF ProtocolInv, TypeOK
<1>1. PICK u \in Unused : Register(t, u) /\ EnterPump(c, t, u, Started)
  BY DEF Admit
<1>2. /\ s = u /\ session'[s] = Started
      /\ call'[c].pc = "get" /\ call'[c].sess = s
  BY <1>0, <1>1 DEF Unused, Register, EnterPump
<1>3. ConsumerInvariant /\ ConsumerInvariant' /\ \A d \in Call \ {c} : call'[d] = call[d]
  BY ProtocolStep, OtherCalls DEF ProtocolInv, Advance
<1>4. QED
  BY <1>2, <1>3, SessionMoves

(* Every step keeps it. *)
LEMMA AskingStep ==
  ASSUME ProtocolInv, AskingInv, EachSession, [Next]_vars
  PROVE  AskingInv'
<1> USE DEF ProtocolInv
<1> SUFFICES ASSUME NEW t \in Task, NEW s \in SessionId, s = live'[t]
             PROVE  Asking(session'[s], Hand(s)')
  <2>1. TypeOK'
    BY ProtocolStep
  <2>2. ASSUME NEW t \in Task, live'[t] # None
        PROVE  live'[t] \in SessionId
    BY <2>1, <2>2 DEF TypeOK
  <2>3. QED
    BY <2>2 DEF AskingInv, LiveTasks
<1>1. CASE live'[t] # live[t]
  <2>1. live'[t] # None
    BY ExecutorAssumption
  <2>2. PICK c \in Call : Admit(c) /\ call[c].task = t
    BY <1>1, <2>1, WhoRegisters
  <2>3. session'[s] = Started /\ Hand(s)' = None
    BY <2>2, Admitted
  <2>4. QED
    BY <2>3, RequestKind DEF Asking, Holds, Started, Unborn
<1>2. CASE live'[t] = live[t]
  <2>1. /\ t \in LiveTasks /\ live[t] = s /\ Registered(s)' /\ session[s].runner # "none"
    BY <1>2, ExecutorAssumption DEF LiveTasks, Registered, RegistryInv
  <2>2. /\ session[s] \in Session /\ Sound(session[s], At(s), Hand(s))
        /\ Hand(s) = None <=> At(s) # "yield"
    BY SessionTypes DEF OneSound
  <2>3. Goes(session[s], At(s), Hand(s), session'[s], At(s)', Hand(s)')
    BY StepStops DEF EachSession
  <2>4. Withdraws(session[s], session'[s], At(s)')
    BY <2>1 DEF EachSession, Tended, Withdraws
  <2>5. Asking(session[s], Hand(s))
    BY <2>1 DEF AskingInv
  <2>6. QED
    BY <2>2, <2>3, <2>4, <2>5, AskingGoes
<1>3. QED
  BY <1>1, <1>2

(* It holds always, whatever the faults: a registered session is not        *)
(* forgotten while a request of it is on its way (session.py:76-132).       *)
LEMMA AskingKept == Spec => []AskingInv
<1>1. Init => AskingInv
  BY DEF Init, AskingInv, LiveTasks
<1>2. ProtocolInv /\ AskingInv /\ [Next]_vars => AskingInv'
  BY ProtocolStep, AskingStep
<1>3. QED
  BY <1>1, <1>2, ProtocolKept, PTL DEF Spec

(* A registered session whose pump published a request and returned is      *)
(* parked until the caller decides (executor.py:209-219, session.py:103-114).*)
LEMMA PromptParks ==
  ASSUME ProtocolInv, AskingInv, NEW c \in Call, HandlePermission(c),
         NEW s \in SessionId, call[c].sess = s, Registered(s)
  PROVE  Parked(session'[s])
<1> USE DEF ProtocolInv
<1>1. /\ call[c].pc = "handle" /\ call[c].hand.kind = "permission"
      /\ call[c].hand \in Item /\ session[s] \in Session
  BY CallTypes, SessionAssumption DEF HandlePermission, Publishing, TypeOK
<1>2. PICK r \in ReqId \cup {None} : r = call[c].hand.id
  BY <1>1 DEF Item
<1>3. Hand(s) = Request(r)
  BY <1>1, <1>2, SessionTypes DEF Item, Request
<1>4. Asking(session[s], Hand(s))
  BY ExecutorAssumption DEF AskingInv, Registered, LiveTasks
<1>5. r \in session[s].pending
  BY <1>3, <1>4 DEF Asking
<1>6. session'[s] = Surfaced(session[s], r)
  BY <1>2 DEF HandlePermission, TypeOK
<1>7. QED
  BY <1>1, <1>5, <1>6 DEF Parked, Surfaced, Session

(* A registered session that is parked stays so until its answer is pumped. *)
LEMMA ParkedStays ==
  ASSUME ProtocolInv, EachSession, NEW s \in SessionId, Registered(s), Registered(s)',
         Parked(session[s])
  PROVE  Parked(session'[s]) \/ \E c \in Call : call'[c].pc \in Draining /\ call'[c].sess = s
<1> USE DEF ProtocolInv
<1>1. session[s].runner # "none"
  BY ExecutorAssumption DEF Registered, RegistryInv
<1>2. session[s] \in Session /\ Sound(session[s], At(s), Hand(s))
  BY SessionTypes DEF OneSound
<1>3. Goes(session[s], At(s), Hand(s), session'[s], At(s)', Hand(s)')
  BY StepStops DEF EachSession
<1>4. Withdraws(session[s], session'[s], At(s)')
  BY <1>1 DEF EachSession, Tended, Withdraws
<1>5. Parked(session'[s]) \/ At(s)' # "off"
  BY <1>1, <1>2, <1>3, <1>4, ParkedGoes
<1>6. At(s)' # "off" => \E c \in Call : call'[c].pc \in Draining /\ call'[c].sess = s
  BY ReadOff DEF AtIn, Draining
<1>7. QED
  BY <1>5, <1>6

(* Without disconnects every step leaves nothing behind. *)
LEMMA LeakStep ==
  ASSUME "disconnect" \notin Faults, ProtocolInv, AskingInv, NoLeakedSession, EachSession,
         [Next]_vars
  PROVE  NoLeakedSession'
<1> USE DEF ProtocolInv
<1> DEFINE Kept(s) == \/ Parked(session'[s])
                      \/ \E c \in Call : call'[c].pc \in InPump /\ call'[c].sess = s
<1> SUFFICES ASSUME NEW t \in Task, NEW s \in SessionId, s = live'[t]
             PROVE  Kept(s)
  <2>1. TypeOK'
    BY ProtocolStep
  <2>2. ASSUME NEW t \in Task, live'[t] # None
        PROVE  live'[t] \in SessionId
    BY <2>1, <2>2 DEF TypeOK
  <2>3. QED
    BY <2>2 DEF NoLeakedSession, LiveTasks, InPump
<1>1. CASE live'[t] # live[t]
  <2>1. live'[t] # None
    BY ExecutorAssumption
  <2>2. PICK c \in Call : Admit(c) /\ call[c].task = t
    BY <1>1, <2>1, WhoRegisters
  <2>3. call'[c].pc = "get" /\ call'[c].sess = s
    BY <2>2, Admitted
  <2>4. QED
    BY <2>3 DEF InPump, Draining
<1>2. CASE live'[t] = live[t]
  <2>1. /\ t \in LiveTasks /\ live[t] = s /\ Registered(s) /\ Registered(s)'
        /\ ~session[s].evicted
    BY <1>2, ExecutorAssumption DEF LiveTasks, Registered, RegistryInv
  <2>2. CASE Parked(session[s])
    BY <2>1, <2>2, ParkedStays DEF InPump
  <2>3. ASSUME NEW c \in Call, call[c].pc \in InPump, call[c].sess = s
        PROVE  Kept(s)
    <3>1. live'[call[c].task] # None
      BY <2>1, <2>3, ExecutorAssumption DEF RegistryInv
    <3>2. HandlePermission(c) => Kept(s)
      BY <2>1, <2>3, PromptParks
    <3>3. QED
      BY <2>1, <2>3, <3>1, <3>2, PumpGoes
  <2>4. QED
    BY <2>1, <2>2, <2>3 DEF NoLeakedSession, InPump
<1>3. QED
  BY <1>1, <1>2

(* While nobody disconnects, a registered session has a call that drains or *)
(* finishes it, or waits for the caller's decision, whatever is evicted or  *)
(* cancelled (executor.py:230-236, 271, 349-352).  A disconnect at the last *)
(* publication leaves one behind: run executor_disconnect.                  *)
THEOREM NothingStaysBehind ==
  ASSUME "disconnect" \notin Faults
  PROVE  Spec => []NoLeakedSession
<1>1. Init => NoLeakedSession
  BY DEF Init, NoLeakedSession, LiveTasks
<1>2. ProtocolInv /\ AskingInv /\ NoLeakedSession /\ [Next]_vars => NoLeakedSession'
  BY ProtocolStep, LeakStep
<1>3. QED
  BY <1>1, <1>2, ProtocolKept, AskingKept, PTL DEF Spec

-----------------------------------------------------------------------------
(* Without overlapping messages: whatever is evicted and whoever            *)
(* disconnects, what a task leaves in the maps can be told.                 *)

(* A run that was announced shows no prompt, and the registered session of  *)
(* a prompted task is parked.                                               *)
PromptInv ==
  /\ \A c \in Call : call[c].pc \in Starting \ {"open"} => ~Prompted(call[c].task)
  /\ PromptAnswerable

(* Without cancel() too: the session a call pumps or answers is registered  *)
(* for its task or was evicted; a task with a stream is registered, or the  *)
(* stream is one that was made for an evicted session; only a session that  *)
(* was started is evicted.                                                  *)
KeptInv ==
  /\ \A c \in Call : call[c].pc \in InPump \cup {"answer"} =>
       live[call[c].task] = call[c].sess \/ session[call[c].sess].evicted
  /\ \A t \in Task : streamOf[t] # None =>
       live[t] # None \/ session[streamOf[t]].evicted
  /\ \A s \in SessionId : session[s].evicted => session[s].runner # "none"

(* The mark of an eviction stays (executor.py:346).                         *)
LEMMA EvictedStays ==
  ASSUME ProtocolInv, KeptInv, EachSession, NEW s \in SessionId
  PROVE  /\ session[s].evicted => session'[s].evicted
         /\ session'[s].evicted => session'[s].runner # "none"
<1>1. /\ session[s] \in Session /\ Sound(session[s], At(s), Hand(s))
      /\ session[s].evicted => session[s].runner # "none"
      /\ Ages(session[s], session'[s])
  BY EachAges DEF ProtocolInv, TypeOK, OneSound, KeptInv
<1>2. CASE session[s].runner # "none"
  BY <1>1, <1>2 DEF Ages
<1>3. CASE session[s].runner = "none"
  <2> DEFINE x == session[s]
             y == session'[s]
  <2>1. /\ ~x.evicted /\ At(s) = "off" /\ ~Parked(x) /\ ~Finished(x)
        /\ x.runner \notin {"created", "doomed", "running", "cancelling"}
    BY <1>1, <1>3 DEF Sound, DrainSound, Parked, Finished, Over, Spoke
  <2>2. Goes(x, At(s), Hand(s), y, At(s)', Hand(s)')
    BY StepStops DEF EachSession
  <2>3. ASSUME NEW k \in EventKinds, y = Emitted(x, k)
        PROVE  ~y.evicted
    BY <1>1, <2>1, <2>3 DEF Emitted, Put, Session
  <2>4. ASSUME NEW how \in Spoke, y = Ended(x, how)
        PROVE  ~y.evicted
    BY <1>1, <2>1, <2>4 DEF Ended, Put, Session
  <2>5. Works(x, Hand(s), y) => ~y.evicted
    BY <1>3, <2>1, <2>3, <2>4 DEF Works
  <2>6. ~y.evicted
    BY <1>1, <1>3, <2>1, <2>2, <2>5
    DEF Goes, GoesOn, Takes, Forgets, Stops, Started, Unborn
  <2>7. QED
    BY <2>1, <2>6
<1>4. QED
  BY <1>2, <1>3

(* A pump that unregisters its task drops the task's stream and goes        *)
(* (executor.py:230-236, 262-273).                                          *)
LEMMA LeavesClean ==
  ASSUME TypeOK, NEW c \in Call, Leaves(c), live' # live
  PROVE  /\ streamOf' = [streamOf EXCEPT ![call[c].task] = None]
         /\ call'[c].pc \notin InPump \cup {"answer"}
<1>0. call \in [Call -> CallState] /\ call[c] \in CallFields
  BY DEF TypeOK, CallState
<1> USE DEF InPump, Draining
<1>1. CASE TakeError(c) \/ FlushLast(c)
  BY <1>0, <1>1 DEF TakeError, FlushLast, Discard, PopStream, Goto, CallFields
<1>2. CASE TakeDone(c)
  BY <1>0, <1>2 DEF TakeDone, Discard, PopStream, Goto, CallFields
<1>3. CASE LeavePump(c)
  BY <1>0, <1>3 DEF LeavePump, PopStream, Return, Idle
<1>4. QED
  BY <1>1, <1>2, <1>3 DEF Leaves

(* Who gives a task a stream (executor.py:180-190).                         *)
LEMMA WhoStreams ==
  ASSUME TypeOK, [Next]_vars, NEW t \in Task, streamOf[t] = None, streamOf'[t] # None
  PROVE  \E c \in Call : /\ Admit(c) \/ Answer(c)
                         /\ call[c].task = t
                         /\ Admit(c) => live'[t] # None
                         /\ Answer(c) => /\ live' = live /\ call[c].sess \in SessionId
                                         /\ streamOf'[t] = call[c].sess
<1> DEFINE Goal == \E c \in Call : /\ Admit(c) \/ Answer(c)
                                   /\ call[c].task = t
                                   /\ Admit(c) => live'[t] # None
                                   /\ Answer(c) => /\ live' = live
                                                   /\ call[c].sess \in SessionId
                                                   /\ streamOf'[t] = call[c].sess
<1>0. /\ streamOf \in [Task -> SessionId \cup {None}] /\ live \in [Task -> SessionId \cup {None}]
      /\ streamOf' # streamOf
  BY DEF TypeOK
<1>1. \A u : ~PopStream(u)
  BY <1>0 DEF PopStream
<1>2. ASSUME NEW c \in Call, Arrive(c) \/ Advance(c) \/ Leave(c) \/ LeavePump(c)
      PROVE  Goal
  <2>1. CASE Admit(c)
    <3>1. PICK s \in Unused : Register(call[c].task, s) /\ EnterPump(c, call[c].task, s, Started)
      BY <2>1 DEF Admit
    <3>2. call[c].task = t /\ s \in SessionId
      BY <1>0, <3>1 DEF EnterPump, Unused
    <3>3. live'[t] = s /\ ~Answer(c)
      BY <1>0, <2>1, <3>1, <3>2 DEF Register, Admit, Answer
    <3>4. QED
      BY <2>1, <3>2, <3>3, ExecutorAssumption
  <2>2. CASE Answer(c)
    <3>1. /\ call[c].task = t /\ live' = live /\ ~Admit(c) /\ call[c].sess \in SessionId
          /\ streamOf'[t] = call[c].sess
      BY <1>0, <2>2, CallTypes DEF Answer, EnterPump, Admit
    <3>2. QED
      BY <2>2, <3>1
  <2>3. QED
    BY <1>0, <1>1, <1>2, <2>1, <2>2, Zenon
    DEF Arrive, StartRun, FollowUp, CancelTask, Advance, Pump, OpenTask, BeginWork,
        MakeRoom, FinishEviction, TakeQuietly, TakeEvent, TakeError, TakeDone, FlushLast,
        Discard, HandleText, HandleTool, HandleFile, FlushForRequest, HandlePermission,
        Complete, Fail, FinishClose, PublishCanceled, Leave, LeavePump
<1>3. ASSUME NEW s \in SessionId, Drive(s) \/ Stop(s)
      PROVE  FALSE
  BY <1>0, <1>3
  DEF Drive, Stop, BeginDriver, Report, EndDriver, RaiseDriver, Emit, Ask, DropUnstarted,
      Unwind, Runs
<1>4. QED
  BY <1>0, <1>2, <1>3 DEF Next, vars

(* A task's stream is not replaced by another one.                          *)
LEMMA StreamsStay ==
  ASSUME TypeOK, [Next]_vars, NEW t \in Task, streamOf[t] # None
  PROVE  streamOf'[t] \in {None, streamOf[t]}
<1>0. streamOf \in [Task -> SessionId \cup {None}]
  BY DEF TypeOK
<1>1. \A u : PopStream(u) => streamOf'[t] \in {None, streamOf[t]}
  BY <1>0 DEF PopStream
<1>2. ASSUME NEW c \in Call, NEW u, NEW s, NEW x, EnterPump(c, u, s, x)
      PROVE  streamOf'[t] = streamOf[t]
  BY <1>0, <1>2 DEF EnterPump
<1>3. ASSUME NEW c \in Call, Arrive(c) \/ Advance(c) \/ Leave(c) \/ LeavePump(c)
      PROVE  streamOf'[t] \in {None, streamOf[t]}
  BY <1>0, <1>1, <1>2, <1>3, Zenon
  DEF Arrive, StartRun, FollowUp, CancelTask, Advance, Pump, OpenTask, BeginWork, Admit, Answer,
      MakeRoom, FinishEviction, TakeQuietly, TakeEvent, TakeError, TakeDone, FlushLast,
      Discard, HandleText, HandleTool, HandleFile, FlushForRequest, HandlePermission,
      Complete, Fail, FinishClose, PublishCanceled, Leave, LeavePump
<1>4. ASSUME NEW s \in SessionId, Drive(s) \/ Stop(s)
      PROVE  streamOf' = streamOf
  BY <1>4
  DEF Drive, Stop, BeginDriver, Report, EndDriver, RaiseDriver, Emit, Ask, DropUnstarted,
      Unwind, Runs
<1>5. QED
  BY <1>3, <1>4 DEF Next, vars

(* An eviction takes the stream of its victim along (executor.py:345-351).  *)
LEMMA EvictsClean ==
  ASSUME TypeOK, NEW c \in Call, MakeRoom(c), NEW t \in Task, live'[t] # live[t]
  PROVE  /\ streamOf'[t] = None /\ live'[t] = None
         /\ live[t] \in SessionId /\ session'[live[t]].evicted
<1>0. /\ live \in [Task -> SessionId \cup {None}]
      /\ streamOf \in [Task -> SessionId \cup {None}]
      /\ session \in [SessionId -> Session]
  BY DEF TypeOK
<1>1. PICK v \in LiveTasks :
        /\ session' = [session EXCEPT ![live[v]] = Closed(Evicted(session[live[v]]))]
        /\ PopLive(v) /\ PopStream(v)
  BY DEF MakeRoom
<1>2. v = t /\ live[t] \in SessionId
  BY <1>0, <1>1 DEF PopLive, LiveTasks
<1>3. PICK x \in Session : x = session[live[t]]
  BY <1>0, <1>2
<1>4. Closed(Evicted(x)).evicted
  BY DEF Closed, Evicted, Forgotten, CancelRunner, Session
<1>5. QED
  BY <1>0, <1>1, <1>2, <1>3, <1>4 DEF PopLive, PopStream

(* Who prompts the caller (executor.py:209-219). *)
LEMMA WhoPrompts ==
  ASSUME TypeOK, [Next]_vars, NEW t \in Task, ~Prompted(t), Prompted(t)'
  PROVE  \E c \in Call : /\ HandlePermission(c) /\ call[c].task = t
                         /\ call[c].pc = "handle" /\ live' = live
<1> DEFINE Goal == \E c \in Call : /\ HandlePermission(c) /\ call[c].task = t
                                   /\ call[c].pc = "handle" /\ live' = live
<1>0. /\ status \in [Task -> Status] /\ status' # status
      /\ status[t] # "input-required" /\ status'[t] = "input-required"
  BY DEF TypeOK, Prompted
<1>1. \A u, st : Publish(u, st) => u = t /\ st = "input-required"
  BY <1>0 DEF Publish
<1>2. ASSUME NEW c \in Call, Arrive(c) \/ Advance(c) \/ Leave(c) \/ LeavePump(c)
      PROVE  Goal
  <2>1. CASE HandlePermission(c)
    BY <1>1, <2>1 DEF HandlePermission, Publishing
  <2>2. ~OpenTask(c) /\ ~BeginWork(c) /\ ~Answer(c) /\ ~HandleTool(c) /\ ~Complete(c)
          /\ ~Fail(c) /\ ~PublishCanceled(c)
    BY <1>1 DEF OpenTask, BeginWork, Answer, HandleTool, Complete, Fail, PublishCanceled
  <2>3. QED
    BY <1>0, <1>2, <2>1, <2>2, Zenon
    DEF Arrive, StartRun, FollowUp, CancelTask, Advance, Pump, Admit, MakeRoom,
        FinishEviction, TakeQuietly, TakeEvent, TakeError, TakeDone, FlushLast,
        HandleText, HandleFile, FlushForRequest, FinishClose, Leave, LeavePump
<1>3. ASSUME NEW s \in SessionId, Drive(s) \/ Stop(s)
      PROVE  FALSE
  BY <1>0, <1>3
  DEF Drive, Stop, BeginDriver, Report, EndDriver, RaiseDriver, Emit, Ask, DropUnstarted,
      Unwind, Runs
<1>4. QED
  BY <1>0, <1>2, <1>3 DEF Next, vars

(* A run that is announced, and a follow-up that resumes the pump, publish   *)
(* another state first, so the task prompts no more (executor.py:148-155,    *)
(* 168-178).                                                                 *)
LEMMA StartUnprompts ==
  ASSUME TypeOK, [Next]_vars, NEW c \in Call,
         \/ call[c].pc = "answer" /\ call'[c].pc \in Draining
         \/ call[c].pc = "open" /\ call'[c].pc \in Starting \ {"open"},
         NEW t \in Task, call[c].task = t
  PROVE  ~Prompted(t)'
<1>0. /\ call \in [Call -> CallState] /\ call[c] \in CallFields
      /\ status \in [Task -> Status]
  BY DEF TypeOK, CallState
<1>1. call'[c].pc # call[c].pc
  BY DEF Draining
<1>2. ASSUME NEW d \in Call, Arrive(d) \/ Advance(d) \/ Leave(d) \/ LeavePump(d)
      PROVE  Answer(c) \/ OpenTask(c)
  <2>1. d = c
    BY <1>1, <1>2, OtherCalls
  <2>2. ~Arrive(c) /\ ~LeavePump(c)
    BY DEF Arrive, StartRun, FollowUp, CancelTask, Accepts, LeavePump, Draining
  <2>3. call'[c].pc # "idle"
    BY DEF Draining, Starting
  <2>4. ~Leave(c)
    BY <1>0, <2>3 DEF Leave, Return, Idle
  <2>5. QED
    BY <1>2, <2>1, <2>2, <2>4
    DEF Advance, Pump, BeginWork, Admit, MakeRoom, FinishEviction, CanTake,
        TakeQuietly, TakeEvent, TakeError, TakeDone, HandleText, HandleTool, HandleFile,
        FlushForRequest, HandlePermission, Publishing, FlushLast, Complete, Fail,
        FinishClose, PublishCanceled
<1>3. ASSUME NEW s \in SessionId, Drive(s) \/ Stop(s)
      PROVE  FALSE
  BY <1>1, <1>3
  DEF Drive, Stop, BeginDriver, Report, EndDriver, RaiseDriver, Emit, Ask, DropUnstarted,
      Unwind, Runs
<1>4. Answer(c) \/ OpenTask(c)
  BY <1>1, <1>2, <1>3 DEF Next, vars
<1>5. Publish(t, "working") \/ Publish(t, "submitted")
  BY <1>4 DEF Answer, OpenTask
<1>6. QED
  BY <1>0, <1>5 DEF Publish, Prompted

(* How a task that a call pumps or answers loses its registration: it is    *)
(* evicted, or that call's pump leaves (executor.py:230-236, 328-352).      *)
LEMMA WhoLeaves ==
  ASSUME "cancel" \notin Faults, ProtocolInv, OwnerInv, [Next]_vars,
         NEW t \in Task, live[t] # None, live'[t] # live[t]
  PROVE  \/ \E c \in Call : MakeRoom(c)
         \/ \E c \in Call : Leaves(c) /\ call[c].task = t
<1> USE DEF ProtocolInv
<1>1. \A c \in Call : Admit(c) => call[c].task # t
  BY DEF OwnerInv, Admit, Starting
<1>2. \A c \in Call : ~CancelTask(c, t)
  BY DEF CancelTask
<1>3. QED
  BY <1>1, <1>2, WhoPops

(* Every step keeps the first conjunct. *)
LEMMA PumpedStep ==
  ASSUME "cancel" \notin Faults, ProtocolInv, OwnerInv, KeptInv, EachSession, [Next]_vars,
         NEW c \in Call, call'[c].pc \in InPump \cup {"answer"}
  PROVE  live'[call'[c].task] = call'[c].sess \/ session'[call'[c].sess].evicted
<1> USE DEF ProtocolInv
<1>0. /\ live \in [Task -> SessionId \cup {None}]
      /\ \A d \in Call : call[d].pc # "idle" => call[d].task \in Task
  BY CallTypes DEF TypeOK
<1>1. call'[c].pc \in Executing /\ call'[c].pc # "open"
  BY DEF Executing, Pc, InPump, Draining
<1>2. ASSUME call[c].pc \in InPump \cup {"answer"}, call'[c].task = call[c].task,
             call'[c].sess = call[c].sess
      PROVE  live'[call'[c].task] = call'[c].sess \/ session'[call'[c].sess].evicted
  <2>1. PICK t \in Task, s \in SessionId : t = call[c].task /\ s = call[c].sess
    BY <1>0, <1>2, CallTypes DEF InPump, Draining
  <2>2. CASE session[s].evicted
    BY <1>2, <2>1, <2>2, EvictedStays
  <2>3. CASE live[t] = s /\ live'[t] # s
    <3>1. ASSUME NEW d \in Call, MakeRoom(d)
          PROVE  session'[s].evicted
      BY <2>3, <3>1, EvictsClean
    <3>2. ASSUME NEW d \in Call, Leaves(d), call[d].task = t
          PROVE  FALSE
      <4>1. call[d].pc \in InPump
        BY <3>2 DEF Leaves, TakeError, TakeDone, FlushLast, LeavePump, CanTake, InPump, Draining
      <4>2. d = c
        BY <1>2, <2>1, <3>2, <4>1 DEF OwnerInv, Executes, Executing, Pc, InPump, Draining
      <4>3. QED
        BY <2>3, <3>2, <4>2, LeavesClean
    <3>3. QED
      BY <1>2, <2>1, <2>3, <3>1, <3>2, WhoLeaves, ExecutorAssumption
  <2>4. QED
    BY <1>2, <2>1, <2>2, <2>3 DEF KeptInv
<1>3. CASE call'[c] = call[c]
  BY <1>2, <1>3
<1>4. CASE Continues(c)
  <2>1. call'[c].task = call[c].task
    BY <1>4 DEF Continues
  <2>2. \/ call[c].pc \in InPump \cup {"answer"} /\ call'[c].sess = call[c].sess
        \/ live'[call[c].task] = call'[c].sess
    BY <1>4 DEF Continues
  <2>3. QED
    BY <1>2, <2>1, <2>2
<1>5. ASSUME NEW t \in Task, FollowUp(c, t), call'[c].task = t, call'[c].sess = live[t]
      PROVE  live'[call'[c].task] = call'[c].sess
  BY <1>5 DEF FollowUp
<1>6. QED
  BY <1>1, <1>3, <1>4, <1>5, ComesToExecute

(* A prompted task that is registered is pumped by nobody (executor.py:209-219). *)
LEMMA PromptedUnpumped ==
  ASSUME ProtocolInv, NEW s \in SessionId, Parked(session[s])
  PROVE  \A c \in Call : call[c].pc \in InPump => call[c].sess # s
<1> USE DEF ProtocolInv
<1>1. Sound(session[s], At(s), Hand(s)) /\ ~Drained(s)
  BY DEF OneSound, ConsumerInvariant
<1>2. ~session[s].done
  BY <1>1 DEF Sound, DrainSound
<1>3. QED
  BY <1>1, <1>2 DEF InPump, Drained, Pumps, RegistryInv

(* A task that was prompted before stays answerable. *)
LEMMA PromptedStays ==
  ASSUME "overlap" \notin Faults, ProtocolInv, OwnerInv, AskingInv, PromptInv, EachSession,
         [Next]_vars, NEW t \in Task, Prompted(t), Prompted(t)', live'[t] # None
  PROVE  Parked(session'[live'[t]])
<1> USE DEF ProtocolInv
<1>1. live'[t] = live[t]
  <2>1. ASSUME live'[t] # live[t]
        PROVE  FALSE
    <3>1. PICK c \in Call : Admit(c) /\ call[c].task = t
      BY <2>1, WhoRegisters
    <3>2. QED
      BY <3>1 DEF Admit, Starting, PromptInv
  <2>2. QED
    BY <2>1
<1>2. PICK s \in SessionId : s = live[t] /\ Parked(session[s])
  BY <1>1 DEF PromptInv, PromptAnswerable, TypeOK
<1>3. Registered(s) /\ Registered(s)'
  BY <1>1, <1>2 DEF Registered
<1>4. \A c \in Call : call[c].pc \in InPump => call[c].sess # s
  BY <1>2, PromptedUnpumped
<1>5. ASSUME NEW c \in Call, call'[c].pc \in Draining, call'[c].sess = s
      PROVE  FALSE
  <2>1. /\ call'[c].pc \in InPump \cup {"answer"} /\ call'[c].pc \in Executing
        /\ call'[c].pc \notin {"open", "answer"}
    BY <1>5 DEF InPump, Draining, Executing, Pc
  <2>2. ~Admit(c)
    <3>1. ASSUME NEW u \in Unused, EnterPump(c, call[c].task, u, Started)
          PROVE  FALSE
      <4>1. u = s
        BY <1>5, <3>1 DEF EnterPump, TypeOK
      <4>2. QED
        BY <1>2, <3>1, <4>1, ExecutorAssumption DEF Unused, RegistryInv
    <3>2. QED
      BY <3>1 DEF Admit
  <2>3. call[c].pc = "answer" /\ call[c].sess = s
    BY <1>4, <1>5, <2>1, <2>2, ComesToExecute DEF Continues, InPump
  <2>4. call[c].task = t
    BY <1>2, <2>3 DEF RegistryInv
  <2>5. QED
    BY <1>5, <2>3, <2>4, StartUnprompts
<1>6. QED
  BY <1>1, <1>2, <1>3, <1>5, ParkedStays

(* Every step keeps KeptInv. *)
LEMMA KeptStep ==
  ASSUME "cancel" \notin Faults, "overlap" \notin Faults,
         ProtocolInv, OwnerInv, KeptInv, EachSession, [Next]_vars
  PROVE  KeptInv'
<1> USE DEF ProtocolInv
<1>0. /\ live \in [Task -> SessionId \cup {None}]
      /\ streamOf \in [Task -> SessionId \cup {None}]
      /\ \A c \in Call : call[c].pc # "idle" => call[c].task \in Task
  BY CallTypes DEF TypeOK
<1>1. \A c \in Call : call'[c].pc \in InPump \cup {"answer"} =>
        live'[call'[c].task] = call'[c].sess \/ session'[call'[c].sess].evicted
  BY PumpedStep
<1>2. ASSUME NEW t \in Task, streamOf'[t] # None
      PROVE  live'[t] # None \/ session'[streamOf'[t]].evicted
  <2>1. CASE streamOf[t] # None
    <3>1. streamOf'[t] = streamOf[t] /\ streamOf[t] \in SessionId
      BY <1>0, <1>2, <2>1, StreamsStay
    <3>2. CASE session[streamOf[t]].evicted
      BY <3>1, <3>2, EvictedStays
    <3>3. ASSUME live[t] # None, live'[t] = None
          PROVE  FALSE
      <4>1. \A c \in Call : ~MakeRoom(c)
        BY <1>2, <3>3, EvictsClean
      <4>2. PICK c \in Call : Leaves(c) /\ call[c].task = t
        BY <3>3, <4>1, WhoLeaves
      <4>3. streamOf' = [streamOf EXCEPT ![t] = None]
        BY <3>3, <4>2, LeavesClean
      <4>4. QED
        BY <1>0, <1>2, <4>3
    <3>4. QED
      BY <2>1, <3>2, <3>3 DEF KeptInv
  <2>2. CASE streamOf[t] = None
    <3>1. PICK c \in Call : /\ Admit(c) \/ Answer(c)
                            /\ call[c].task = t
                            /\ Admit(c) => live'[t] # None
                            /\ Answer(c) => /\ live' = live /\ call[c].sess \in SessionId
                                            /\ streamOf'[t] = call[c].sess
      BY <1>2, <2>2, WhoStreams
    <3>2. CASE Answer(c)
      <4>1. live[t] = call[c].sess \/ session[call[c].sess].evicted
        BY <3>1, <3>2 DEF KeptInv, Answer
      <4>2. QED
        BY <3>1, <3>2, <4>1, EvictedStays, ExecutorAssumption
    <3>3. QED
      BY <3>1, <3>2
  <2>3. QED
    BY <2>1, <2>2
<1>3. \A s \in SessionId : session'[s].evicted => session'[s].runner # "none"
  BY EvictedStays
<1>4. QED
  BY <1>1, <1>2, <1>3 DEF KeptInv

(* Every step keeps PromptInv. *)
LEMMA PromptStep ==
  ASSUME "overlap" \notin Faults,
         ProtocolInv, OwnerInv, AskingInv, PromptInv, EachSession, [Next]_vars
  PROVE  PromptInv'
<1> USE DEF ProtocolInv
<1>0. /\ live \in [Task -> SessionId \cup {None}]
      /\ \A c \in Call : call[c].pc # "idle" => call[c].task \in Task
  BY CallTypes DEF TypeOK
<1>1. ASSUME NEW c \in Call, call'[c].pc \in Starting \ {"open"}
      PROVE  status'[call'[c].task] # "input-required"
  <2>1. /\ call'[c].pc \in Executing /\ call'[c].pc \notin {"open", "answer"}
        /\ call[c].pc \in Starting /\ call'[c].task = call[c].task
    <3>1. call'[c].pc \in Executing /\ call'[c].pc \notin {"open", "answer"}
      BY <1>1 DEF Starting, Executing, Pc
    <3>2. QED
      BY <1>1, <3>1, ComesToExecute DEF Continues, Starting
  <2>2. PICK t \in Task : t = call[c].task
    BY <1>0, <2>1 DEF Starting
  <2>3. CASE call[c].pc = "open"
    BY <1>1, <2>1, <2>2, <2>3, StartUnprompts DEF Prompted
  <2>4. CASE call[c].pc # "open"
    <3>1. ~Prompted(t)
      BY <2>1, <2>2, <2>4 DEF PromptInv
    <3>2. ASSUME Prompted(t)'
          PROVE  FALSE
      <4>1. PICK d \in Call : HandlePermission(d) /\ call[d].task = t /\ call[d].pc = "handle"
        BY <3>1, <3>2, WhoPrompts
      <4>2. d = c
        BY <2>1, <2>2, <4>1 DEF OwnerInv, Executes, Executing, Pc, Starting
      <4>3. QED
        BY <2>1, <4>1, <4>2 DEF Starting
    <3>3. QED
      BY <2>1, <2>2, <3>2 DEF Prompted
  <2>5. QED
    BY <2>3, <2>4
<1>2. ASSUME NEW t \in Task, Prompted(t)', live'[t] # None
      PROVE  Parked(session'[live'[t]])
  <2>1. CASE Prompted(t)
    BY <1>2, <2>1, PromptedStays
  <2>2. CASE ~Prompted(t)
    <3>1. PICK c \in Call : /\ HandlePermission(c) /\ call[c].task = t
                            /\ call[c].pc = "handle" /\ live' = live
      BY <1>2, <2>2, WhoPrompts
    <3>2. PICK s \in SessionId : s = live[t] /\ s = call[c].sess
      BY <1>0, <1>2, <3>1 DEF OwnerInv, InPump, Draining
    <3>3. Parked(session'[s])
      BY <3>1, <3>2, PromptParks DEF Registered
    <3>4. QED
      BY <3>1, <3>2, <3>3
  <2>3. QED
    BY <2>1, <2>2
<1>3. QED
  BY <1>1, <1>2 DEF PromptInv, PromptAnswerable, Prompted

(* Both hold always. *)
LEMMA PromptAlways ==
  ASSUME "overlap" \notin Faults
  PROVE  Spec => [](OwnerInv /\ PromptInv)
<1>1. Init => OwnerInv /\ PromptInv
  <2> SUFFICES ASSUME Init PROVE OwnerInv /\ PromptInv
    OBVIOUS
  <2>1. /\ \A c \in Call : call[c].pc = "idle"
        /\ \A t \in Task : status[t] = "none"
    BY DEF Init, Idle
  <2>2. PromptInv
    BY <2>1 DEF PromptInv, PromptAnswerable, Prompted, Starting
  <2>3. QED
    BY <2>2, OwnerInit
<1>2. ProtocolInv /\ AskingInv /\ OwnerInv /\ PromptInv /\ [Next]_vars
        => OwnerInv' /\ PromptInv'
  BY ProtocolStep, OwnerStep, PromptStep
<1>3. QED
  BY <1>1, <1>2, ProtocolKept, AskingKept, PTL DEF Spec

LEMMA KeptAlways ==
  ASSUME "cancel" \notin Faults, "overlap" \notin Faults
  PROVE  Spec => [](OwnerInv /\ KeptInv)
<1>1. Init => OwnerInv /\ KeptInv
  <2> SUFFICES ASSUME Init PROVE OwnerInv /\ KeptInv
    OBVIOUS
  <2>1. /\ \A c \in Call : call[c].pc = "idle"
        /\ \A t \in Task : streamOf[t] = None
        /\ \A s \in SessionId : ~session[s].evicted
    BY DEF Init, Idle, Unborn
  <2>2. KeptInv
    BY <2>1 DEF KeptInv, InPump, Draining
  <2>3. QED
    BY <2>2, OwnerInit
<1>2. ProtocolInv /\ OwnerInv /\ KeptInv /\ [Next]_vars => OwnerInv' /\ KeptInv'
  BY ProtocolStep, OwnerStep, KeptStep
<1>3. QED
  BY <1>1, <1>2, ProtocolKept, PTL DEF Spec

(* Unless tasks are cancelled or messages of one task overlap, a stream is  *)
(* kept only for a task that is registered, but for one: the stream made    *)
(* anew for a session that was evicted while its caller's answer was under  *)
(* way.  This is so for every capacity, whatever is evicted and whoever     *)
(* disconnects (executor.py:46-50, 119, 187-189, 251-261).                  *)
THEOREM StreamsAreBounded ==
  ASSUME "cancel" \notin Faults, "overlap" \notin Faults
  PROVE  Spec => []NoLeakedStream
<1>1. KeptInv => NoLeakedStream
  BY DEF KeptInv, NoLeakedStream
<1>2. QED
  BY <1>1, KeptAlways, PTL

(* Unless messages of one task overlap, the registered session of a         *)
(* prompted task waits for the decision of its caller, through any number   *)
(* of evictions, cancels and new runs (executor.py:168-178,                 *)
(* session.py:89-93).                                                       *)
THEOREM PromptsCanBeAnswered ==
  ASSUME "overlap" \notin Faults
  PROVE  Spec => []PromptAnswerable
<1>1. PromptInv => PromptAnswerable
  BY DEF PromptInv
<1>2. QED
  BY <1>1, PromptAlways, PTL
=============================================================================
