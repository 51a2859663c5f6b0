------------------------ MODULE BackendSessionProofs ------------------------
(* BackendSession is type correct, and its drain waits for a runner that    *)
(* will speak unless that was cancelled before its first step, for every    *)
(* number of request ids, flows and queued events.                          *)
EXTENDS BackendSession, SessionLemmas

(* Every step keeps every variable in its type.                             *)
LEMMA TypeStep == TypeOK /\ [Next]_vars => TypeOK'
<1> SUFFICES ASSUME TypeOK, [Next]_vars
             PROVE  TypeOK'
  OBVIOUS
<1> USE DEF TypeOK
<1>1. CASE Start
  BY <1>1, BirthTypes DEF Start
<1>2. CASE Begin
  BY <1>2, BeganType DEF Begin
<1>3. CASE Emit
  BY <1>3, EmittedType DEF Emit
<1>4. CASE Report
  BY <1>4, ReportedType DEF Report
<1>5. CASE Return \/ Raise
  <2>1. {"returned", "raised"} \subseteq Over
    BY DEF Over, Spoke
  <2>2. QED
    BY <1>5, <2>1, EndedType DEF Return, Raise
<1>6. CASE \E r \in ReqId : Ask(r)
  BY <1>6, AskedType DEF Ask
<1>7. CASE Unwind
  <2>1. {"cancelled", "raised"} \subseteq Over
    BY DEF Over, Spoke
  <2>2. QED
    BY <1>7, <2>1, EndedType DEF Unwind
<1>8. CASE DropUnstarted
  BY <1>8, CancelType DEF DropUnstarted
<1>9. CASE Take
  <2>1. Taken(ses) \in Session /\ Head(ses.queue) \in Item
    BY <1>9, TakenType DEF Take, CanTake
  <2>2. Head(ses.queue) # None
    BY <2>1, SessionAssumption
  <2>3. QED
    BY <1>9, <2>1, <2>2 DEF Take, CanTake
<1>10. CASE TakeEnd
  <2>1. Taken(ses) \in Session
    BY <1>10, TakenType DEF TakeEnd, CanTake
  <2>2. QED
    BY <1>10, <2>1, ForgottenType DEF TakeEnd, CanTake
<1>11. CASE Resume
  <2>1. hand \in Item
    BY <1>11 DEF Resume
  <2>2. \A r \in ReqId \cup {None} : Surfaced(ses, r) \in Session
    BY DEF Surfaced, Session
  <2>3. hand.id \in ReqId \cup {None}
    BY <2>1 DEF Item
  <2>4. QED
    BY <1>11, <2>2, <2>3 DEF Resume
<1>12. CASE Resolve
  <2>1. ses.last \in ReqId
    BY <1>12 DEF Resolve, Parked, Session
  <2>2. QED
    BY <1>12, <2>1, ConsumerTypes DEF Resolve
<1>13. CASE Abort
  BY <1>13, CancelType DEF Abort
<1>14. CASE Close \/ CloseFinished
  <2>1. Marked(ses) \subseteq Session
    BY DEF Marked, Session
  <2>2. QED
    BY <1>14, <2>1, CancelType, ForgottenType DEF Close, CloseFinished
<1>15. CASE FinishClose
  BY <1>15, ForgottenType DEF FinishClose
<1>16. CASE UNCHANGED vars
  BY <1>16 DEF vars
<1>17. QED
  BY <1>1, <1>2, <1>3, <1>4, <1>5, <1>6, <1>7, <1>8, <1>9, <1>10, <1>11,
     <1>12, <1>13, <1>14, <1>15, <1>16 DEF Next

(* The session, its queue and its consumer keep their types through every   *)
(* run of session.py.                                                       *)
THEOREM TypeCorrect == Spec => []TypeOK
<1>1. Init => TypeOK
  BY BirthTypes, SessionAssumption DEF Init, TypeOK
<1>2. QED
  BY <1>1, TypeStep, PTL DEF Spec

-----------------------------------------------------------------------------
(* The inductive invariant behind NoHungDrain: the session is sound for      *)
(* where its consumer is and what it holds.                                  *)
DrainInvariant == TypeOK /\ Sound(ses, at, hand)

(* The steps of the runner keep the drain invariant (session.py:56-87). *)
LEMMA RunnerStep ==
  ASSUME DrainInvariant, TypeOK',
         UNCHANGED <<at, hand>>,
         Begin \/ Emit \/ Report \/ Return \/ Raise \/ Unwind
           \/ DropUnstarted \/ \E r \in ReqId : Ask(r)
  PROVE  DrainInvariant'
<1> USE DEF DrainInvariant, TypeOK
<1>1. CASE Begin \/ DropUnstarted
  BY <1>1, SoundRunner DEF Begin, DropUnstarted
<1>2. CASE Emit \/ Report
  BY <1>2, SoundEmit DEF Emit, Report, CanReport
<1>3. CASE Return \/ Raise \/ Unwind
  <2>1. PICK how \in Spoke : ses' = Ended(ses, how) /\ ses.runner \notin Spoke
    BY <1>3 DEF Return, Raise, Unwind, CanReturn, CanRaise, Spoke
  <2>2. QED
    BY <2>1, SoundEnded
<1>4. CASE \E r \in ReqId : Ask(r)
  BY <1>4, SoundAsked DEF Ask, CanAsk, Talking
<1>5. QED
  BY <1>1, <1>2, <1>3, <1>4

(* The steps of the consumer, of abort() and of close() keep it (session.py:89-132). *)
LEMMA ConsumerStep ==
  ASSUME DrainInvariant, TypeOK',
         \/ Start \/ Take \/ TakeEnd \/ Resume \/ Resolve \/ Abort
         \/ Close \/ CloseFinished \/ FinishClose
  PROVE  DrainInvariant'
<1> USE DEF DrainInvariant, TypeOK
<1>1. CASE Start
  BY <1>1, SoundBirth DEF Start
<1>2. CASE Take
  BY <1>2, SoundTaken DEF Take, CanTake
<1>3. CASE TakeEnd
  <2>1. /\ ses.queue # << >> /\ Ends(Head(ses.queue)) /\ at = "get" /\ hand = None
        /\ at' = "off" /\ hand' = None /\ ses' \in {Taken(ses), Forgotten(Taken(ses))}
    BY <1>3 DEF TakeEnd, CanTake
  <2>2. /\ Taken(ses) \in Session /\ Sound(Taken(ses), "off", None)
        /\ Taken(ses).runner \in Spoke
    BY <2>1, TakenType, SoundTakenEnd
  <2>3. Finished(Taken(ses))
    BY <2>2 DEF Finished, Over
  <2>4. QED
    BY <2>1, <2>2, <2>3, SoundForgotten
<1>4. CASE Resume
  <2>1. at = "yield" /\ hand \in Item /\ hand' = None
    BY <1>4 DEF Resume
  <2>2. CASE hand.kind = "permission"
    BY <1>4, <2>1, <2>2, SoundResumed DEF Resume
  <2>3. CASE hand.kind # "permission"
    BY <1>4, <2>1, <2>3, SoundResumed DEF Resume
  <2>4. QED
    BY <2>2, <2>3
<1>5. CASE Resolve
  BY <1>5, SoundResolved DEF Resolve
<1>6. CASE Abort
  BY <1>6, SoundAborted DEF Abort
<1>7. CASE Close \/ CloseFinished \/ FinishClose
  <2>1. \A x \in Marked(ses) : /\ x \in Session /\ Sound(x, at, hand)
                               /\ x.runner = ses.runner
    <3>1. LET x == [ses EXCEPT !.evicted = TRUE]
          IN  x \in Session /\ x.runner = ses.runner
      BY DEF Session
    <3>2. Sound([ses EXCEPT !.evicted = TRUE], at, hand)
      BY SoundRunner
    <3>3. QED
      BY <3>1, <3>2 DEF Marked
  <2>2. at' = at /\ hand' = hand
    BY <1>7 DEF Close, CloseFinished, FinishClose
  <2>3. CASE Close
    BY <2>1, <2>2, <2>3, SoundRunner DEF Close
  <2>4. CASE CloseFinished \/ FinishClose
    <3>1. PICK x \in Marked(ses) : ses' = Forgotten(x) /\ Finished(ses)
      BY <2>4 DEF CloseFinished, FinishClose, Marked
    <3>2. Finished(x)
      BY <2>1, <3>1 DEF Finished
    <3>3. QED
      BY <2>1, <2>2, <3>1, <3>2, SoundForgotten
  <2>5. QED
    BY <1>7, <2>3, <2>4
<1>8. QED
  BY <1>1, <1>2, <1>3, <1>4, <1>5, <1>6, <1>7

(* Every step keeps the drain invariant. *)
LEMMA DrainStep == DrainInvariant /\ [Next]_vars => DrainInvariant'
<1> SUFFICES ASSUME DrainInvariant, [Next]_vars
             PROVE  DrainInvariant'
  OBVIOUS
<1>1. TypeOK'
  BY TypeStep DEF DrainInvariant
<1>2. CASE UNCHANGED vars
  BY <1>2 DEF vars, DrainInvariant, TypeOK
<1>3. CASE \/ Start \/ Take \/ TakeEnd \/ Resume \/ Resolve \/ Abort
           \/ Close \/ CloseFinished \/ FinishClose
  BY <1>1, <1>3, ConsumerStep
<1>4. CASE Begin \/ Emit \/ Report \/ Return \/ Raise \/ Unwind
             \/ DropUnstarted \/ \E r \in ReqId : Ask(r)
  <2>1. UNCHANGED <<at, hand>>
    BY <1>4 DEF Begin, Emit, Report, Return, Raise, Unwind, DropUnstarted, Ask
  <2>2. QED
    BY <1>1, <1>4, <2>1, RunnerStep
<1>5. QED
  BY <1>2, <1>3, <1>4 DEF Next

(* It holds of a session nobody started yet (session.py:38-47). *)
LEMMA DrainStart == Init => DrainInvariant
BY BirthTypes, SoundBirth DEF Init, DrainInvariant, TypeOK

(* The drain invariant holds throughout (session.py:37-132). *)
LEMMA DrainAlways == Spec => []DrainInvariant
  BY DrainStart, DrainStep, PTL DEF Spec

(* A drain blocked on an empty queue waits for a runner that goes on and     *)
(* waits for no decision itself, or that unwinds into its sentinel, unless   *)
(* that runner was cancelled before its first step (session.py:56-67,        *)
(* 89-114).                                                                  *)
THEOREM DrainIsNeverHung == Spec => []NoHungDrain
<1>1. DrainInvariant => NoHungDrain
  <2> SUFFICES ASSUME DrainInvariant, Blocked, ses.runner \notin CancelledUnborn
               PROVE  \/ ses.runner = "cancelling"
                      \/ ses.runner \in Live /\ ses.pending = {}
    BY DEF NoHungDrain, Live
  <2>1. \A item : ~Holds(ses, item)
    BY DEF Holds, Blocked
  <2>2. at = "get" /\ hand = None /\ ~ses.done /\ ses.last \notin ses.pending
    BY DEF Blocked, DrainInvariant, TypeOK, Sound, DrainSound, Parked
  <2>3. \A r \in ses.pending : Request(r) # None
    BY ItemTypes, SessionAssumption DEF DrainInvariant, TypeOK, Session
  <2>4. ses.runner \notin Spoke /\ ses.runner # "none"
    BY <2>1, <2>2 DEF DrainInvariant, Sound, DrainSound
  <2>5. ses.runner \in Live \cup {"cancelling"}
    BY <2>4 DEF DrainInvariant, TypeOK, Session, Runner, Over, Live, CancelledUnborn
  <2>6. ses.runner \in Live => ses.pending = {}
    BY <2>1, <2>2, <2>3 DEF DrainInvariant, Sound, DrainSound
  <2>7. QED
    BY <2>5, <2>6
<1>2. QED
  BY <1>1, DrainAlways, PTL

(* No consumer is in drain() while a surfaced request waits for its decision *)
(* (session.py:49-54).                                                       *)
THEOREM ParkedMeansQuiescent == Spec => []ParkedIsQuiescent
<1>1. DrainInvariant => ParkedIsQuiescent
  BY DEF DrainInvariant, Sound, DrainSound, ParkedIsQuiescent
<1>2. QED
  BY <1>1, DrainAlways, PTL
=============================================================================
