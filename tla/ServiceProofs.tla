--------------------------- MODULE ServiceProofs ---------------------------
(* The service as a whole: it runs its session as BackendSession specifies  *)
(* one, nobody acts on it unauthenticated, and the agent is told what the   *)
(* caller decided.                                                          *)
EXTENDS Service, BackendSessionProofs, TextFileProofs, FiniteSetTheorems

-----------------------------------------------------------------------------
(* What serve() builds, for every command line and every request.           *)

(* A server that is up was built from options it did not refuse; it is what *)
(* build_app() made of them (cli.py:112-178, server.py:37-88).              *)
ServerInv ==
  \/ up = Down
  \/ \E o \in CommandLines : up = [Down EXCEPT !.at = "refused", !.opts = o]
  \/ \E o \in CommandLines : ~Refused(o) /\ up = BuildApp(o)

(* A server comes up by Serve and stays as it is.                           *)
LEMMA ServerStep == ServerInv /\ [Serve]_up => ServerInv'
  BY DEF ServerInv, Serve

(* The fields of a server that is up.                                       *)
LEMMA UpFields ==
  ASSUME ServerInv, up.at = "up"
  PROVE  \E o \in CommandLines :
           /\ ~Refused(o) /\ up.opts = o /\ up.token = o.token
           /\ up.card = BuildCard(o, o.token # None)
           /\ up.signatures = IF o.key = None THEN {} ELSE {Sign(up.card, o.kid)}
<1>1. PICK o \in CommandLines : ~Refused(o) /\ up = BuildApp(o)
  <2>1. Down.at = "down"
    BY DEF Down
  <2>2. \A o : [Down EXCEPT !.at = "refused", !.opts = o].at = "refused"
    BY DEF Down
  <2>3. up # Down /\ \A o : up # [Down EXCEPT !.at = "refused", !.opts = o]
    BY <2>1, <2>2
  <2>4. QED
    BY <2>3 DEF ServerInv
<1>2. QED
  BY <1>1 DEF BuildApp

(* The fields of a card and of a signature (card.py:127-134, 153-160).      *)
LEMMA CardFields ==
  /\ \A o : \A b \in BOOLEAN : /\ BuildCard(o, b).auth = b
                               /\ BuildCard(o, b).name = CardName(o)
  /\ \A c, k : Sign(c, k).over = c /\ Sign(c, k).kid = k
  BY DEF BuildCard, Sign

(* The preset agents have names of their own (card.py:5-6).                 *)
LEMMA PresetNames ==
  /\ DOMAIN Presets = {"claude", "gemini", "codex"}
  /\ \A a, b \in DOMAIN Presets : Presets[a] = Presets[b] => a = b
  /\ \A a \in DOMAIN Presets : Presets[a] # "Coding Agent"
  /\ Presets["claude"] = "Claude Code"
<1>1. DOMAIN Presets = {"claude", "gemini", "codex"}
  BY DEF Presets
<1>2. /\ Presets["claude"] = "Claude Code" /\ Presets["gemini"] = "Gemini CLI"
      /\ Presets["codex"] = "Codex"
  BY DEF Presets
<1>3. QED
  BY <1>1, <1>2

(* The credentials a request bears first.                                   *)
LEMMA FirstCredential ==
  ASSUME NEW q \in Requests, q.auth # << >>
  PROVE  1 \in DOMAIN q.auth /\ Head(q.auth) = q.auth[1]
<1>1. PICK C : q.auth \in Seq(C)
  BY ServerAssumption DEF ServerAssumption
<1>2. QED
  BY <1>1

(* Whoever passes a middleware with a token bears it (auth.py:40-71).       *)
LEMMA PassingBears ==
  ASSUME NEW q \in Requests, q.type = "http", ~q.public, Passes(q), up.token # None
  PROVE  \E i \in DOMAIN q.auth : q.auth[i] = Bearer(up.token)
  BY FirstCredential DEF Passes, Authorized

(* The card tells who is let in, for every request (auth.py:9-11).          *)
LEMMA CardTells == ServerInv => CardTellsAccess
<1> SUFFICES ASSUME ServerInv, up.at = "up",
                    NEW q \in Requests, q.type = "http", ~q.public
             PROVE  LET right == {i \in DOMAIN q.auth : q.auth[i] = Bearer(up.opts.token)}
                    IN  /\ Passes(q) => ~up.card.auth \/ right # {}
                        /\ ~up.card.auth \/ (q.auth # << >> /\ right = DOMAIN q.auth)
                             => Passes(q)
  BY DEF CardTellsAccess
<1> DEFINE right == {i \in DOMAIN q.auth : q.auth[i] = Bearer(up.opts.token)}
<1>1. up.opts.token = up.token /\ (up.card.auth <=> up.token # None)
  <2>1. PICK o \in CommandLines : /\ up.opts = o /\ up.token = o.token
                                  /\ up.card = BuildCard(o, o.token # None)
    BY UpFields
  <2>2. (o.token # None) \in BOOLEAN
    OBVIOUS
  <2>3. BuildCard(o, o.token # None).auth = (o.token # None)
    BY <2>2, CardFields
  <2>4. QED
    BY <2>1, <2>3, Zenon
<1>2. Passes(q) => ~up.card.auth \/ right # {}
  BY <1>1, PassingBears
<1>3. ~up.card.auth => Passes(q)
  BY <1>1 DEF Passes
<1>4. q.auth # << >> /\ right = DOMAIN q.auth => Passes(q)
  BY <1>1, FirstCredential DEF Passes, Authorized
<1>5. QED
  BY <1>2, <1>3, <1>4

(* The card names the agent and its signature covers it, whatever the       *)
(* options (card.py:149-150).                                               *)
LEMMA CardHonest == ServerInv => CardIsHonest
<1> SUFFICES ASSUME ServerInv, up.at = "up" PROVE CardIsHonest
  BY DEF CardIsHonest
<1>1. PICK o \in CommandLines :
        /\ ~Refused(o) /\ up.opts = o /\ up.card = BuildCard(o, o.token # None)
        /\ up.signatures = IF o.key = None THEN {} ELSE {Sign(up.card, o.kid)}
  BY UpFields
<1>2. \A s \in up.signatures : s.over = up.card
  BY <1>1 DEF Sign
<1>3. up.card.name = CardName(o)
  <2>1. (o.token # None) \in BOOLEAN
    OBVIOUS
  <2>2. QED
    BY <1>1, <2>1, CardFields, Zenon
<1>4. ASSUME NEW a \in DOMAIN Presets, up.card.name = Presets[a], o.backend # "echo"
      PROVE  Driven(o) = a
  <2>1. ~NoBackend(o)
    BY <1>1 DEF Refused
  <2>2. CASE o.backend = "acp"
    <3>1. o.command = None
      BY <1>3, <1>4, <2>2, PresetNames DEF CardName
    <3>2. o.agent \in DOMAIN Presets /\ Presets[o.agent] = Presets[a]
      BY <1>3, <1>4, <2>1, <2>2, <3>1 DEF CardName, NoBackend
    <3>3. o.agent = a
      BY <1>4, <3>2, PresetNames
    <3>4. QED
      BY <2>2, <3>1, <3>3 DEF Driven
  <2>3. CASE o.backend = "claude"
    <3>1. Presets[a] = Presets["claude"]
      BY <1>3, <1>4, <2>3, PresetNames DEF CardName
    <3>2. a = "claude"
      BY <1>4, <3>1, PresetNames
    <3>3. QED
      BY <2>3, <3>2 DEF Driven
  <2>4. QED
    BY <1>4, <2>1, <2>2, <2>3 DEF NoBackend
<1>5. QED
  BY <1>1, <1>2, <1>4 DEF CardIsHonest

(* Every option is carried out (cli.py:147-167).                            *)
LEMMA Honoured == ServerInv => OptionsHonoured
<1> SUFFICES ASSUME ServerInv, up.at = "up" PROVE OptionsHonoured
  BY DEF OptionsHonoured
<1>1. PICK o \in CommandLines :
        /\ ~Refused(o) /\ up.opts = o /\ up.token = o.token
        /\ up.card = BuildCard(o, o.token # None)
        /\ up.signatures = IF o.key = None THEN {} ELSE {Sign(up.card, o.kid)}
  BY UpFields
<1>2. (o.kid = None) <=> (o.key = None)
  BY <1>1 DEF Refused, NoSigner
<1>3. ASSUME o.key # None PROVE \E s \in up.signatures : s.kid = o.kid
  BY <1>1, <1>3, CardFields
<1>4. o.token # None => up.card.auth
  <2>1. (o.token # None) \in BOOLEAN
    OBVIOUS
  <2>2. BuildCard(o, o.token # None).auth = (o.token # None)
    BY <2>1, CardFields
  <2>3. QED
    BY <1>1, <2>2, Zenon
<1>5. QED
  BY <1>1, <1>2, <1>3, <1>4 DEF OptionsHonoured

-----------------------------------------------------------------------------
(* Types.                                                                   *)

Events == EventKinds \cup {"result"}
Places == {"off", "greet", "wait", "connect", "receive", "initialize", "open",
           "prompt", "return"}
DriverState == [name : {None, "echo", "claude", "acp"}, at : Places, todo : Seq(Events),
                blocks : Seq(Blocks), left : Int, files : BOOLEAN]

Decisions  == {"allow", "deny"}
Outcomes   == Allowing \cup Rejecting \cup Decisions \cup {"cancelled"}
Permission == [asked : BOOLEAN, opts : SUBSET (Allowing \cup Rejecting),
               verdict : Decisions \cup {None}, told : Outcomes \cup {None}]

Words   == Allows \cup Undocumented \cup Denies
Message == [for : ReqId \cup {None}, word : Words \cup {None}, q : TaskRequests,
            at : {"sent", "answering"}, again : BOOLEAN]

DriverTypeOK == drv \in DriverState /\ perm \in [ReqId -> Permission]
CallerTypeOK == /\ mail = None \/ mail \in Message
                /\ given \in [ReqId -> Decisions \cup {None}]
                /\ repeated \in BOOLEAN

(* Nothing happens to a server that is not up, a first message finds no     *)
(* session, and a follow-up that got as far as its session was let in.      *)
Reached == /\ mail # None \/ ses.runner # "none" => up.at = "up"
           /\ mail # None => mail \in Message
           /\ mail # None /\ mail.for = None => ses.runner = "none"
           /\ mail # None /\ mail.at = "answering" => mail.for # None /\ Passes(mail.q)

(* A driver queues one Result, and nothing it received after it; an ACP     *)
(* driver queues its Result itself.                                         *)
ReportsOnce ==
  \A i \in 1..Len(drv.todo) : drv.todo[i] = "result" =>
    i = Len(drv.todo) /\ ses.runner # "reported" /\ drv.name # "acp"

(* Something of the session x, or in the consumer's hand h, has the id r.   *)
Queued(q, r) == \E i \in 1..Len(q) : q[i].id = r
Uses(x, h, r) == \/ r \in x.pending \cup {x.last}
                 \/ Queued(x.queue, r)
                 \/ h \in Item /\ h.id = r

(* An id in use was given out by a driver's request.                        *)
UsedWasAsked == \A r \in ReqId : Uses(ses, hand, r) => perm[r].asked

ServiceInv == /\ DrainInvariant
              /\ ServerInv
              /\ FileInv
              /\ DriverTypeOK
              /\ CallerTypeOK
              /\ Reached
              /\ ReportsOnce
              /\ UsedWasAsked

-----------------------------------------------------------------------------
(* Each part of the service takes steps of its own.                         *)

(* The steps of a runner.                                                   *)
RunnerNext == \/ Begin \/ Emit \/ Report \/ Return \/ Raise \/ Unwind \/ DropUnstarted
              \/ \E r \in ReqId : Ask(r)

(* A flow is left to whoever asks next (base.py:79-94).                     *)
LEMMA FlowLeft == ASSUME TypeOK PROVE Free(ses)
<1>1. ses.pending \subseteq ReqId
  BY DEF TypeOK, Session
<1>2. /\ Cardinality(ses.pending) <= Cardinality(ReqId)
      /\ Cardinality(ses.pending) \in Nat /\ Cardinality(ReqId) \in Nat
  BY <1>1, BackendsAssumption, FS_Subset, FS_CardinalityType DEF BackendsAssumption
<1>3. QED
  BY <1>2, BackendsAssumption, SessionAssumption
     DEF BackendsAssumption, SessionAssumption, Free

(* What the drivers queue are events of a session, and one Result           *)
(* (base.py:23-76).                                                         *)
LEMMA EmitIsStep == ServiceInv /\ EmitNext => RunnerNext
<1> SUFFICES ASSUME ServiceInv, EmitNext PROVE RunnerNext
  OBVIOUS
<1>0. /\ Free(ses) /\ Flows > 1 /\ drv.todo \in Seq(Events) /\ drv.todo # << >>
  BY FlowLeft, BackendsAssumption
     DEF BackendsAssumption, ServiceInv, DrainInvariant, DriverTypeOK, DriverState, EmitNext
<1>1. Head(drv.todo) \in Events /\ 1 \in 1..Len(drv.todo) /\ Head(drv.todo) = drv.todo[1]
  BY <1>0
<1>2. CASE Head(drv.todo) = "result"
  <2>1. ses.runner = "running"
    BY <1>1, <1>2 DEF EmitNext, InDriver, ServiceInv, ReportsOnce
  <2>2. QED
    BY <1>0, <1>2, <2>1 DEF EmitNext, Report, CanReport, RunnerNext
<1>3. CASE Head(drv.todo) # "result"
  BY <1>0, <1>1, <1>3
     DEF EmitNext, InDriver, Events, Emit, CanEmit, Talking, RunnerNext
<1>4. QED
  BY <1>2, <1>3

(* A request has an id nothing of its session has (session.py:79).          *)
LEMMA AskIsStep ==
  ASSUME ServiceInv, NEW r \in ReqId, NEW opts, AskPermission(r, opts)
  PROVE  Ask(r)
<1>1. Free(ses) /\ Flows > 1
  BY FlowLeft, BackendsAssumption DEF BackendsAssumption, ServiceInv, DrainInvariant
<1>2. ~Uses(ses, hand, r)
  BY DEF AskPermission, ServiceInv, UsedWasAsked
<1>3. Fresh(ses, r)
  <2>1. ses.queue \in Seq(Item)
    BY DEF ServiceInv, DrainInvariant, TypeOK, Session
  <2>2. DOMAIN ses.queue = 1..Len(ses.queue)
    BY <2>1
  <2>3. QED
    BY <1>2, <2>2 DEF Uses, Queued, Fresh
<1>4. hand # Request(r)
  BY <1>2, ItemTypes DEF Uses, Request
<1>5. QED
  BY <1>1, <1>3, <1>4 DEF AskPermission, Ask, CanAsk, Talking, Open

(* A driver acts on its session as its runner (base.py:79-94).              *)
LEMMA DriverIsRunner == ServiceInv /\ Begun => RunnerNext \/ UNCHANGED vars
<1> SUFFICES ASSUME ServiceInv, Begun PROVE RunnerNext \/ UNCHANGED vars
  OBVIOUS
<1>0. Free(ses) /\ Flows > 1
  BY FlowLeft, BackendsAssumption DEF BackendsAssumption, ServiceInv, DrainInvariant
<1>1. CASE EmitNext
  BY <1>1, EmitIsStep
<1>2. CASE ReturnDriver \/ RaiseDriver
  BY <1>0, <1>2 DEF ReturnDriver, RaiseDriver, InDriver, RunnerNext, Return, Raise,
                    CanReturn, CanRaise
<1>3. CASE UnwindDriver \/ DropUnstarted \/ BeginDriver(up.opts.backend)
  BY <1>3 DEF UnwindDriver, BeginDriver, RunnerNext
<1>4. CASE AcpResponse
  BY <1>0, <1>4 DEF AcpResponse, Report, CanReport, RunnerNext
<1>5. CASE \E r \in ReqId : EchoAsk(r) \/ ClaudeAsk(r) \/ AcpAsk(r)
  <2>1. PICK r \in ReqId : EchoAsk(r) \/ ClaudeAsk(r) \/ AcpAsk(r)
    BY <1>5
  <2>2. PICK opts : AskPermission(r, opts)
    BY <2>1 DEF EchoAsk, ClaudeAsk, AcpAsk
  <2>3. Ask(r)
    BY <2>2, AskIsStep
  <2>4. QED
    BY <2>3 DEF RunnerNext
<1>6. CASE \E r \in ReqId : EchoAnswered(r) \/ ClaudeAnswered(r) \/ AcpAnswered(r)
  BY <1>6 DEF EchoAnswered, ClaudeAnswered, AcpAnswered, Tell, vars
<1>7. CASE \/ EchoSpeak \/ ClaudeConnect \/ ClaudeReceive \/ ClaudeBlock
           \/ AcpInitialized \/ AcpOpened \/ AcpUpdate
  BY <1>7 DEF EchoSpeak, ClaudeConnect, ClaudeReceive, ClaudeBlock, AcpInitialized,
              AcpOpened, AcpUpdate, vars
<1>8. QED
  BY <1>1, <1>2, <1>3, <1>4, <1>5, <1>6, <1>7 DEF Begun, Driver

(* A runner leaves the consumer alone, and never asks again for the request *)
(* surfaced last (session.py:73-87).                                        *)
LEMMA RunnerLeaves ==
  ASSUME TypeOK, RunnerNext \/ UNCHANGED vars
  PROVE  /\ at' = at /\ hand' = hand /\ ses'.last = ses.last
         /\ Parked(ses') => Parked(ses)
<1>1. CASE UNCHANGED vars
  BY <1>1 DEF vars
<1>2. CASE \E r \in ReqId : Ask(r)
  <2>1. PICK r \in ReqId : Ask(r)
    BY <1>2
  <2>2. /\ ses'.last = ses.last /\ ses'.pending = ses.pending \cup {r} /\ r # ses.last
        /\ at' = at /\ hand' = hand
    BY <2>1 DEF Ask, Asked, CanAsk, Fresh, Put, TypeOK, Session
  <2>3. QED
    BY <2>2 DEF Parked
<1>3. CASE Begin \/ Emit \/ Report \/ Return \/ Raise \/ Unwind \/ DropUnstarted
  <2>1. /\ ses'.last = ses.last /\ ses'.pending = ses.pending
        /\ at' = at /\ hand' = hand
    BY <1>3 DEF Begin, Emit, Report, Return, Raise, Unwind, DropUnstarted, Began, Emitted,
                Reported, Ended, Stillborn, Put, TypeOK, Session
  <2>2. QED
    BY <2>1 DEF Parked
<1>4. QED
  BY <1>1, <1>2, <1>3 DEF RunnerNext

(* The executor starts a session that is not, and enters a drain that       *)
(* nobody is in, because a parked session is not drained                    *)
(* (executor.py:163-178, session.py:97-114).                                *)
LEMMA ExecutorIsConsumer ==
  ASSUME ServiceInv
  PROVE  /\ StartSession => Start
         /\ Answer => Resolve
<1>1. Sound(ses, at, hand)
  BY DEF ServiceInv, DrainInvariant
<1>2. ASSUME StartSession PROVE Start
  <2>1. ses.runner = "none"
    BY <1>2 DEF StartSession, ServiceInv, Reached
  <2>2. at = "off"
    BY <1>1, <2>1 DEF Sound, DrainSound
  <2>3. QED
    BY <1>2, <2>1, <2>2 DEF StartSession, Start
<1>3. ASSUME Answer PROVE Resolve
  <2>1. Parked(ses)
    BY <1>3 DEF Answer, Parked
  <2>2. at = "off"
    BY <1>1, <2>1 DEF Sound, DrainSound
  <2>3. QED
    BY <1>3, <2>1, <2>2 DEF Answer, Resolve
<1>4. QED
  BY <1>2, <1>3

(* Every step of the service is one of the session or leaves it alone.      *)
LEMMA SessionPart == ServiceInv /\ [ServiceNext]_svars => [Next]_vars
<1> SUFFICES ASSUME ServiceInv, [ServiceNext]_svars PROVE [Next]_vars
  OBVIOUS
<1>1. CASE Begun
  BY <1>1, DriverIsRunner DEF RunnerNext, Next
<1>2. CASE Pump
  BY <1>2 DEF Pump, Next
<1>3. CASE StartSession \/ Answer
  BY <1>3, ExecutorIsConsumer DEF Next
<1>4. CASE \E q \in TaskRequests : \/ SendTask(q)
                                   \/ \E r \in ReqId, v \in Decisions : SendAnswer(r, v, q)
  BY <1>4 DEF SendTask, SendAnswer
<1>5. CASE NotDelivered \/ FollowUp \/ AnswerTooLate \/ Files
  BY <1>5 DEF NotDelivered, FollowUp, AnswerTooLate, Files
<1>6. CASE UNCHANGED vars
  BY <1>6
<1>7. QED
  BY <1>1, <1>2, <1>3, <1>4, <1>5, <1>6 DEF ServiceNext, svars, Decisions

(* The server only ever comes up.                                           *)
LEMMA ServerPart == [ServiceNext]_svars => [Serve]_up
  BY DEF ServiceNext, svars, SendTask, SendAnswer, NotDelivered, StartSession, FollowUp,
         Answer, AnswerTooLate, Pump, Files

(* The file is the file threads' and the agent's.                           *)
LEMMA FilePart == [ServiceNext]_svars => [FileNext]_fileVars
  BY DEF ServiceNext, svars, SendTask, SendAnswer, NotDelivered, StartSession, FollowUp,
         Answer, AnswerTooLate, Pump, Files, FileNext

-----------------------------------------------------------------------------
(* The drivers and the agent keep their types.                              *)

(* A driver's fields may change one by one (acp.py:216-291).                *)
LEMMA DriverUpdates ==
  ASSUME NEW d \in DriverState, NEW p \in Places, NEW t \in Seq(Events),
         NEW b \in Seq(Blocks), NEW n \in Int
  PROVE  /\ [d EXCEPT !.at = p] \in DriverState
         /\ [d EXCEPT !.todo = t] \in DriverState
         /\ [d EXCEPT !.at = p, !.todo = t] \in DriverState
         /\ [d EXCEPT !.todo = t, !.left = n] \in DriverState
         /\ [d EXCEPT !.at = p, !.todo = t, !.left = n] \in DriverState
         /\ [d EXCEPT !.blocks = b, !.left = n] \in DriverState
         /\ [d EXCEPT !.todo = t, !.blocks = b] \in DriverState
  BY DEF DriverState

(* The kinds of event there are (base.py:23-76).                            *)
LEMMA EventsAre == Events = {"text", "tool", "file", "result"}
  BY BackendsAssumption DEF BackendsAssumption, Events

(* Translations are sequences of events (claude.py:41-62, acp.py:85-108).   *)
LEMMA TranslationTypes ==
  /\ \A b : EventsFromBlock(b) \in Seq(EventKinds)
  /\ \A u \in Updates : EventsFromUpdate(u) \in Seq(EventKinds)
  /\ \A n \in 0..1 : \A t \in Said(n) :
       t \in Seq(Events) /\ \A i \in 1..Len(t) : t[i] = "result" => i = Len(t)
  /\ << >> \in Seq(Events) /\ <<"result">> \in Seq(Events) /\ <<"tool">> \in Seq(Events)
  /\ <<"text", "result">> \in Seq(Events)
<1>0. EventKinds = {"text", "tool", "file"}
  BY BackendsAssumption DEF BackendsAssumption
<1>1. /\ << >> \in Seq(Events) /\ <<"result">> \in Seq(Events) /\ <<"tool">> \in Seq(Events)
      /\ <<"text", "result">> \in Seq(Events)
      /\ << >> \in Seq(EventKinds) /\ <<"tool">> \in Seq(EventKinds)
      /\ <<"text">> \in Seq(EventKinds) /\ <<"file">> \in Seq(EventKinds)
  BY <1>0, EventsAre
<1>2. ASSUME NEW b PROVE EventsFromBlock(b) \in Seq(EventKinds)
  <2>1. FileChanges(b) \in {<<"file">>, << >>}
    BY DEF FileChanges
  <2>2. FileChanges(b) \in Seq(EventKinds)
    BY <1>1, <2>1
  <2>3. <<"tool">> \o FileChanges(b) \in Seq(EventKinds)
    BY <1>1, <2>2
  <2>4. QED
    BY <1>1, <2>3 DEF EventsFromBlock
<1>3. ASSUME NEW u \in Updates PROVE EventsFromUpdate(u) \in Seq(EventKinds)
  <2>1. ASSUME u.update \in {"start", "progress"} PROVE DiffEvents(u.content) \in Seq(EventKinds)
    <3>1. u.content \in Seq({"diff", "other"})
      BY <2>1, BackendsAssumption DEF BackendsAssumption
    <3>2. PICK n \in Nat : DOMAIN u.content = 1..n
      BY <3>1
    <3>3. IsFiniteSet(1..n)
      BY <3>2, FS_Interval
    <3>4. PICK k \in Nat : k = Cardinality({j \in DOMAIN u.content : u.content[j] = "diff"})
      <4>1. {j \in DOMAIN u.content : u.content[j] = "diff"} \subseteq 1..n
        BY <3>2
      <4>2. QED
        BY <3>3, <4>1, FS_Subset, FS_CardinalityType
    <3>5. DiffEvents(u.content) = [i \in 1..k |-> "file"]
      BY <3>4 DEF DiffEvents
    <3>6. "file" \in EventKinds
      BY <1>0
    <3>7. QED
      BY <3>4, <3>5, <3>6
  <2>2. CASE u.update = "text"
    BY <1>1, <2>2 DEF EventsFromUpdate
  <2>3. CASE u.update = "start"
    <3>1. <<"tool">> \o DiffEvents(u.content) \in Seq(EventKinds)
      BY <1>1, <2>1, <2>3
    <3>2. QED
      BY <2>3, <3>1 DEF EventsFromUpdate
  <2>4. CASE u.update = "progress"
    BY <2>1, <2>4 DEF EventsFromUpdate
  <2>5. CASE u.update \notin {"text", "start", "progress"}
    BY <1>1, <2>5 DEF EventsFromUpdate
  <2>6. QED
    BY <2>2, <2>3, <2>4, <2>5
<1>4. ASSUME NEW n \in 0..1, NEW t \in Said(n)
      PROVE  t \in Seq(Events) /\ \A i \in 1..Len(t) : t[i] = "result" => i = Len(t)
  <2>1. PICK m \in Nat : t = [i \in 1..m + 1 |-> IF i <= m THEN "text" ELSE "result"]
    BY BackendsAssumption DEF BackendsAssumption, Said
  <2>2. \A i \in 1..m + 1 : t[i] \in Events
    BY <2>1, EventsAre
  <2>3. m + 1 \in Nat
    OBVIOUS
  <2>4. t \in Seq(Events) /\ Len(t) = m + 1
    BY <2>1, <2>2, <2>3
  <2>5. \A i \in 1..m + 1 : t[i] = "result" => i = m + 1
    BY <2>1
  <2>6. QED
    BY <2>4, <2>5
<1>5. QED
  BY <1>1, <1>2, <1>3, <1>4

(* A translation is something a driver may be about to emit.                *)
LEMMA KindsAreEvents ==
  ASSUME NEW t \in Seq(EventKinds)
  PROVE  t \in Seq(Events) /\ \A i \in 1..Len(t) : t[i] # "result"
<1>1. \A i \in 1..Len(t) : t[i] \in EventKinds
  OBVIOUS
<1>2. "result" \notin EventKinds
  BY BackendsAssumption DEF BackendsAssumption
<1>3. QED
  BY <1>1, <1>2 DEF Events

(* What select_option() picks is of the decision's polarity, one-shot if    *)
(* that is offered; it cancels only when nothing fits (acp.py:76-83).       *)
LEMMA SelectedOption ==
  ASSUME NEW opts, NEW v
  PROVE  LET fit == opts \cap (IF v = "allow" THEN Allowing ELSE Rejecting)
         IN  \/ fit = {} /\ SelectOption(opts, v) = "cancelled"
             \/ /\ SelectOption(opts, v) \in fit
                /\ fit \cap {"allow_once", "reject_once"} # {} =>
                     SelectOption(opts, v) \in {"allow_once", "reject_once"}
<1> DEFINE fit == opts \cap (IF v = "allow" THEN Allowing ELSE Rejecting)
           one == fit \cap {"allow_once", "reject_once"}
<1> HIDE DEF fit
<1>1. SelectOption(opts, v) = IF fit = {} THEN "cancelled"
                              ELSE CHOOSE k \in fit : one = {} \/ k \in one
  BY DEF SelectOption, fit
<1>2. fit # {} => \E k \in fit : one = {} \/ k \in one
  OBVIOUS
<1>3. QED
  BY <1>1, <1>2 DEF fit

(* Either way the agent is told one of the outcomes.                        *)
LEMMA OptionIsOutcome == \A opts, v : SelectOption(opts, v) \in Outcomes
  BY SelectedOption DEF Outcomes, Allowing, Rejecting

(* Beginning one of the three drivers (backends/__init__.py:35-51).         *)
LEMMA BeginTypes ==
  ASSUME DriverTypeOK, NEW name \in {"echo", "claude", "acp"}, BeginDriver(name)
  PROVE  DriverTypeOK'
<1>1. PICK files \in BOOLEAN :
        drv' = [name |-> name, files |-> files, left |-> IF files THEN 0 ELSE MaxReceived,
                at |-> CASE name = "echo"   -> "greet"
                         [] name = "claude" -> "connect"
                         [] name = "acp"    -> "initialize",
                blocks |-> << >>,
                todo |-> IF name = "echo" THEN <<"tool">> ELSE << >>]
  BY DEF BeginDriver
<1>2. PICK p \in Places : p = CASE name = "echo"   -> "greet"
                                [] name = "claude" -> "connect"
                                [] name = "acp"    -> "initialize"
  BY DEF Places
<1>3. PICK n \in Int : n = IF files THEN 0 ELSE MaxReceived
  BY BackendsAssumption DEF BackendsAssumption
<1>4. PICK t \in Seq(Events) : t = IF name = "echo" THEN <<"tool">> ELSE << >>
  BY TranslationTypes
<1>5. drv' = [name |-> name, files |-> files, left |-> n, at |-> p, blocks |-> << >>,
              todo |-> t]
  BY <1>1, <1>2, <1>3, <1>4
<1>6. << >> \in Seq(Blocks)
  OBVIOUS
<1>7. drv' \in DriverState
  BY <1>5, <1>6 DEF DriverState
<1>8. QED
  BY <1>7 DEF BeginDriver, DriverTypeOK

(* Every step of a driver or its agent keeps the types (acp.py:120-291,     *)
(* claude.py:90-125, echo.py:19-47).                                        *)
LEMMA DriverTypes == DriverTypeOK /\ Driver => DriverTypeOK'
<1> SUFFICES ASSUME DriverTypeOK, Driver PROVE DriverTypeOK'
  OBVIOUS
<1> USE DEF DriverTypeOK
<1>0. /\ drv \in DriverState /\ drv.todo \in Seq(Events) /\ drv.blocks \in Seq(Blocks)
      /\ drv.left \in Int /\ drv.at \in Places
  BY DEF DriverState
<1>1. CASE EmitNext
  <2>1. Tail(drv.todo) \in Seq(Events)
    BY <1>0, <1>1 DEF EmitNext
  <2>2. drv' = [drv EXCEPT !.todo = Tail(drv.todo)] /\ perm' = perm
    BY <1>1 DEF EmitNext
  <2>3. QED
    BY <1>0, <2>1, <2>2, DriverUpdates
<1>2. CASE ReturnDriver \/ RaiseDriver \/ UnwindDriver \/ (DropUnstarted /\ UNCHANGED backendVars)
  BY <1>2 DEF ReturnDriver, RaiseDriver, UnwindDriver, backendVars
<1>3. CASE EchoSpeak
  <2>1. \A t \in Said(0) : t \in Seq(Events)
    BY TranslationTypes
  <2>2. PICK t \in Seq(Events) : drv' = [drv EXCEPT !.at = "return", !.todo = t]
    BY <1>3, <2>1 DEF EchoSpeak
  <2>3. "return" \in Places /\ perm' = perm
    BY <1>3 DEF EchoSpeak, Places
  <2>4. QED
    BY <1>0, <2>2, <2>3, DriverUpdates
<1>4. CASE ClaudeConnect \/ AcpInitialized \/ AcpOpened \/ AcpResponse
  <2>1. {"receive", "open", "prompt", "return"} \subseteq Places
    BY DEF Places
  <2>2. PICK p \in Places : drv' = [drv EXCEPT !.at = p]
    BY <1>4, <2>1 DEF ClaudeConnect, AcpInitialized, AcpOpened, AcpResponse, Goto
  <2>3. perm' = perm
    BY <1>4 DEF ClaudeConnect, AcpInitialized, AcpOpened, AcpResponse
  <2>4. QED
    BY <1>0, <2>2, <2>3, DriverUpdates
<1>5. CASE ClaudeReceive
  <2>1. PICK m \in Messages :
          drv' = IF m.result
                   THEN [drv EXCEPT !.at = "return", !.todo = <<"result">>, !.left = drv.left - 1]
                   ELSE [drv EXCEPT !.blocks = m.blocks, !.left = drv.left - 1]
    BY <1>5 DEF ClaudeReceive
  <2>2. m.blocks \in Seq(Blocks) /\ drv.left - 1 \in Int /\ "return" \in Places
    BY <1>0, BackendsAssumption DEF BackendsAssumption, Places
  <2>3. perm' = perm
    BY <1>5 DEF ClaudeReceive
  <2>4. [drv EXCEPT !.at = "return", !.todo = <<"result">>, !.left = drv.left - 1] \in DriverState
    BY <1>0, <2>2, TranslationTypes, DriverUpdates
  <2>5. [drv EXCEPT !.blocks = m.blocks, !.left = drv.left - 1] \in DriverState
    BY <1>0, <2>2, DriverUpdates
  <2>6. QED
    BY <2>1, <2>3, <2>4, <2>5
<1>6. CASE ClaudeBlock
  <2>1. EventsFromBlock(Head(drv.blocks)) \in Seq(Events)
    BY TranslationTypes, KindsAreEvents
  <2>2. Tail(drv.blocks) \in Seq(Blocks)
    BY <1>0, <1>6 DEF ClaudeBlock
  <2>3. perm' = perm /\ drv' = [drv EXCEPT !.todo = EventsFromBlock(Head(drv.blocks)),
                                           !.blocks = Tail(drv.blocks)]
    BY <1>6 DEF ClaudeBlock
  <2>4. QED
    BY <1>0, <2>1, <2>2, <2>3, DriverUpdates
<1>7. CASE AcpUpdate
  <2>1. PICK u \in Updates : drv' = [drv EXCEPT !.todo = EventsFromUpdate(u), !.left = drv.left - 1]
    BY <1>7 DEF AcpUpdate, Received
  <2>2. EventsFromUpdate(u) \in Seq(Events) /\ drv.left - 1 \in Int /\ perm' = perm
    BY <1>0, <1>7, TranslationTypes, KindsAreEvents DEF AcpUpdate
  <2>3. QED
    BY <1>0, <2>1, <2>2, DriverUpdates
<1>8. CASE \E r \in ReqId : EchoAsk(r) \/ ClaudeAsk(r) \/ AcpAsk(r)
  <2>1. PICK r \in ReqId : EchoAsk(r) \/ ClaudeAsk(r) \/ AcpAsk(r)
    BY <1>8
  <2>2. PICK opts \in SUBSET (Allowing \cup Rejecting) :
          perm' = [perm EXCEPT ![r].asked = TRUE, ![r].opts = opts]
    BY <2>1, BackendsAssumption
       DEF BackendsAssumption, EchoAsk, ClaudeAsk, AcpAsk, AskPermission
  <2>3. perm' \in [ReqId -> Permission]
    BY <2>1, <2>2 DEF Permission
  <2>4. drv' = [drv EXCEPT !.at = "wait"] \/ drv' = [drv EXCEPT !.todo = << >>, !.left = drv.left - 1]
    BY <2>1 DEF EchoAsk, ClaudeAsk, AcpAsk, Goto, Received
  <2>5. drv.left - 1 \in Int /\ "wait" \in Places
    BY <1>0 DEF Places
  <2>6. drv' \in DriverState
    <3>1. [drv EXCEPT !.at = "wait"] \in DriverState
      BY <1>0, <2>5, DriverUpdates
    <3>2. [drv EXCEPT !.todo = << >>, !.left = drv.left - 1] \in DriverState
      BY <1>0, <2>5, TranslationTypes, DriverUpdates
    <3>3. QED
      BY <2>4, <3>1, <3>2
  <2>7. QED
    BY <2>3, <2>6
<1>9. CASE \E r \in ReqId : EchoAnswered(r) \/ ClaudeAnswered(r) \/ AcpAnswered(r)
  <2>1. PICK r \in ReqId : EchoAnswered(r) \/ ClaudeAnswered(r) \/ AcpAnswered(r)
    BY <1>9
  <2>2. perm[r].verdict \in Decisions
    <3>1. perm[r].verdict # None
      BY <2>1 DEF EchoAnswered, ClaudeAnswered, AcpAnswered, Tell, Answered
    <3>2. QED
      BY <2>1, <3>1 DEF Permission
  <2>3. perm[r].verdict \in Outcomes /\ SelectOption(perm[r].opts, perm[r].verdict) \in Outcomes
    <3>1. \A opts : SelectOption(opts, perm[r].verdict) \in Outcomes
      BY OptionIsOutcome
    <3>2. QED
      BY <2>2, <3>1 DEF Outcomes
  <2>4. PICK o \in Outcomes : perm' = [perm EXCEPT ![r].told = o]
    BY <2>1, <2>3 DEF EchoAnswered, ClaudeAnswered, AcpAnswered, Tell
  <2>5. perm' \in [ReqId -> Permission]
    BY <2>1, <2>4 DEF Permission
  <2>6. drv' \in DriverState
    <3>1. CASE EchoAnswered(r)
      <4>1. \A t \in Said(1) : t \in Seq(Events)
        BY TranslationTypes
      <4>2. PICK t \in Seq(Events) : drv' = [drv EXCEPT !.at = "return", !.todo = t]
        BY <3>1, <4>1, TranslationTypes DEF EchoAnswered
      <4>3. "return" \in Places
        BY DEF Places
      <4>4. QED
        BY <1>0, <4>2, <4>3, DriverUpdates
    <3>2. CASE ClaudeAnswered(r) \/ AcpAnswered(r)
      BY <3>2 DEF ClaudeAnswered, AcpAnswered
    <3>3. QED
      BY <2>1, <3>1, <3>2
  <2>7. QED
    BY <2>5, <2>6
<1>10. QED
  BY <1>1, <1>2, <1>3, <1>4, <1>5, <1>6, <1>7, <1>8, <1>9 DEF Driver

-----------------------------------------------------------------------------
(* The caller, and who gets to act.                                         *)

(* A middleware that is up stays as it is (auth.py:30-38).                  *)
LEMMA UpStays == [Serve]_up /\ up.at = "up" => up' = up
  BY DEF Serve

(* A session that does not exist comes into being by start() only           *)
(* (session.py:56-71).                                                      *)
LEMMA OnlyStartStarts ==
  ASSUME TypeOK, [Next]_vars, ses.runner = "none", ses'.runner # "none"
  PROVE  Start
<1>1. CASE Begin \/ Emit \/ Report \/ Return \/ Raise \/ Unwind \/ DropUnstarted
           \/ \E r \in ReqId : Ask(r)
  BY <1>1 DEF Begin, Emit, Report, Return, Raise, Unwind, DropUnstarted, Ask, CanEmit,
              CanReport, CanReturn, CanRaise, CanAsk, Talking
<1>2. CASE Take \/ TakeEnd
  BY <1>2 DEF Take, TakeEnd, Taken, Forgotten, TypeOK, Session
<1>3. CASE Resume \/ Resolve
  BY <1>3 DEF Resume, Resolve, Resolved, Surfaced, TypeOK, Session
<1>4. CASE Abort
  BY <1>4 DEF Abort, CancelRunner, TypeOK, Session
<1>5. CASE CloseFinished \/ Close \/ FinishClose
  BY <1>5 DEF CloseFinished, Close, FinishClose, Finished, Over, Spoke
<1>6. QED
  BY <1>1, <1>2, <1>3, <1>4, <1>5 DEF Next, vars

(* Nobody but StartSession starts a session, and nobody but Answer decides  *)
(* a request (executor.py:163-178).                                         *)
LEMMA StartersAndDeciders ==
  ASSUME ServiceInv, [ServiceNext]_svars
  PROVE  /\ ses.runner = "none" /\ ses'.runner # "none" => StartSession
         /\ (\E r \in ReqId : perm'[r].verdict # perm[r].verdict) => Answer
<1> USE DEF ServiceInv, DrainInvariant
<1>1. ASSUME ses.runner = "none", ses'.runner # "none" PROVE StartSession
  <2>1. Start
    BY <1>1, SessionPart, OnlyStartStarts
  <2>2. ~Driver /\ ~Begun /\ ~Pump /\ ~Answer
    <3>1. ses'.runner = "created" /\ at = "off" /\ at' = "get"
      BY <2>1 DEF Start, Started, Unborn
    <3>2. ~Begun /\ ~Driver
      BY <3>1, DriverIsRunner, RunnerLeaves DEF Begun
    <3>3. ~Pump
      BY <3>1 DEF Pump, Take, TakeEnd, CanTake, Resume, Abort, Close, CloseFinished, FinishClose
    <3>4. ~Answer
      <4>1. Answer => ses'.runner = ses.runner
        BY DEF Answer, Resolved, TypeOK, Session
      <4>2. QED
        BY <1>1, <4>1
    <3>5. QED
      BY <3>2, <3>3, <3>4
  <2>3. QED
    BY <1>1, <2>2 DEF ServiceNext, SendTask, SendAnswer, NotDelivered, FollowUp, AnswerTooLate,
                      Files, svars, vars
<1>2. ASSUME NEW r \in ReqId, perm'[r].verdict # perm[r].verdict PROVE Answer
  <2>1. perm \in [ReqId -> Permission]
    BY DEF DriverTypeOK
  <2>2. perm' # perm
    BY <1>2
  <2>3. ~Begun
    <3>1. \A x \in ReqId :
            /\ \A opts : [perm EXCEPT ![x].asked = TRUE, ![x].opts = opts][r].verdict
                            = perm[r].verdict
            /\ \A o : [perm EXCEPT ![x].told = o][r].verdict = perm[r].verdict
      BY <2>1 DEF Permission
    <3>2. ASSUME Driver PROVE FALSE
      <4>1. (\E x \in ReqId : EchoAsk(x) \/ ClaudeAsk(x) \/ AcpAsk(x))
            \/ (\E x \in ReqId : EchoAnswered(x) \/ ClaudeAnswered(x) \/ AcpAnswered(x))
        BY <2>2, <3>2 DEF Driver, EmitNext, ReturnDriver, RaiseDriver, UnwindDriver, EchoSpeak,
             ClaudeConnect, ClaudeReceive, ClaudeBlock, AcpInitialized, AcpOpened, AcpUpdate,
             AcpResponse, backendVars
      <4>2. ASSUME NEW x \in ReqId, EchoAsk(x) \/ ClaudeAsk(x) \/ AcpAsk(x) PROVE FALSE
        <5>1. PICK opts : perm' = [perm EXCEPT ![x].asked = TRUE, ![x].opts = opts]
          BY <4>2 DEF EchoAsk, ClaudeAsk, AcpAsk, AskPermission
        <5>2. [perm EXCEPT ![x].asked = TRUE, ![x].opts = opts][r].verdict = perm[r].verdict
          BY <3>1
        <5>3. QED
          BY <1>2, <5>1, <5>2
      <4>3. ASSUME NEW x \in ReqId, EchoAnswered(x) \/ ClaudeAnswered(x) \/ AcpAnswered(x)
            PROVE  FALSE
        <5>1. PICK o : perm' = [perm EXCEPT ![x].told = o]
          BY <4>3 DEF EchoAnswered, ClaudeAnswered, AcpAnswered, Tell
        <5>2. [perm EXCEPT ![x].told = o][r].verdict = perm[r].verdict
          BY <3>1
        <5>3. QED
          BY <1>2, <5>1, <5>2
      <4>4. QED
        BY <4>1, <4>2, <4>3
    <3>3. QED
      BY <2>2, <3>2 DEF Begun, BeginDriver
  <2>4. QED
    BY <2>2, <2>3 DEF ServiceNext, SendTask, SendAnswer, NotDelivered, StartSession, FollowUp,
                      AnswerTooLate, Pump, Files, svars, backendVars
<1>3. QED
  BY <1>1, <1>2

(* The caller's message, and the caller's decisions, keep their types.      *)
LEMMA CallerTypes ==
  ASSUME ServiceInv, [ServiceNext]_svars
  PROVE  CallerTypeOK'
<1> USE DEF CallerTypeOK
<1>0. CallerTypeOK /\ (mail # None => mail \in Message)
  BY DEF ServiceInv
<1>1. CASE \E q \in TaskRequests : SendTask(q)
  <2>1. PICK q \in TaskRequests : mail' = [for |-> None, word |-> None, q |-> q,
                                           at |-> "sent", again |-> FALSE]
    BY <1>1 DEF SendTask
  <2>2. mail' \in Message
    BY <2>1 DEF Message
  <2>3. given' = given /\ repeated' = repeated
    BY <1>1 DEF SendTask
  <2>4. QED
    BY <1>0, <2>2, <2>3
<1>2. CASE \E q \in TaskRequests, r \in ReqId, v \in Decisions : SendAnswer(r, v, q)
  <2>1. PICK q \in TaskRequests, r \in ReqId, v \in Decisions : SendAnswer(r, v, q)
    BY <1>2
  <2>2. PICK w \in Words, g \in BOOLEAN :
          mail' = [for |-> r, word |-> w, q |-> q, at |-> "sent", again |-> g]
    BY <2>1 DEF SendAnswer, Wordings, Words
  <2>3. mail' \in Message
    BY <2>1, <2>2 DEF Message
  <2>4. given' \in [ReqId -> Decisions \cup {None}]
    BY <1>0, <2>1 DEF SendAnswer
  <2>5. repeated' \in BOOLEAN
    BY <1>0, <2>1 DEF SendAnswer
  <2>6. QED
    BY <2>3, <2>4, <2>5
<1>3. CASE FollowUp \/ NotDelivered \/ AnswerTooLate
  <2>1. mail \in Message /\ mail # None
    BY <1>0, <1>3 DEF FollowUp, NotDelivered, AnswerTooLate
  <2>2. [mail EXCEPT !.at = "answering"] \in Message
    BY <2>1 DEF Message
  <2>3. ASSUME Failed PROVE CallerTypeOK'
    BY <1>0, <2>3 DEF Failed
  <2>4. CASE Failed
    BY <2>3, <2>4
  <2>5. CASE /\ mail' = [mail EXCEPT !.at = "answering"]
             /\ given' = given /\ repeated' = repeated
    BY <1>0, <2>2, <2>5
  <2>6. QED
    BY <1>3, <2>4, <2>5 DEF FollowUp, NotDelivered, AnswerTooLate
<1>4. CASE StartSession \/ Answer
  BY <1>0, <1>4 DEF StartSession, Answer
<1>5. CASE UNCHANGED callerVars
  BY <1>0, <1>5 DEF callerVars
<1>6. QED
  BY <1>1, <1>2, <1>3, <1>4, <1>5 DEF ServiceNext, svars, callerVars, Pump, Files, Decisions

(* A caller has something to say to a server that is up, and what it says   *)
(* goes past the middleware first (auth.py:40-71).                          *)
LEMMA ReachedStep ==
  ASSUME ServiceInv, [ServiceNext]_svars
  PROVE  Reached'
<1>0. Reached /\ TypeOK /\ DriverTypeOK /\ CallerTypeOK'
  BY CallerTypes DEF ServiceInv, DrainInvariant
<1>1. up.at = "up" => up' = up
  BY ServerPart, UpStays
<1>2. mail' # None => mail' \in Message
  BY <1>0 DEF CallerTypeOK
<1>3. mail' # None /\ mail = None => (\E q \in TaskRequests : SendTask(q))
        \/ \E q \in TaskRequests, r \in ReqId, v \in Decisions : SendAnswer(r, v, q)
  BY DEF ServiceNext, svars, callerVars, NotDelivered, StartSession, FollowUp, Answer,
         AnswerTooLate, Pump, Files, Decisions
<1>4. ASSUME NEW q \in TaskRequests, NEW r \in ReqId, NEW v \in Decisions, SendAnswer(r, v, q)
      PROVE  up.at = "up" /\ mail'.at = "sent"
  BY <1>4 DEF SendAnswer
<1>5. ASSUME NEW q \in TaskRequests, SendTask(q)
      PROVE  up.at = "up" /\ mail'.at = "sent"
  BY <1>5 DEF SendTask
<1>6. mail' # None => up'.at = "up"
  BY <1>0, <1>1, <1>3, <1>4, <1>5 DEF Reached
<1>7. ses'.runner # "none" => up'.at = "up"
  <2>1. CASE ses.runner # "none"
    BY <1>0, <1>1, <2>1 DEF Reached
  <2>2. CASE ses.runner = "none" /\ ses'.runner # "none"
    <3>1. StartSession
      BY <1>0, <2>2, StartersAndDeciders
    <3>2. QED
      BY <1>0, <1>1, <3>1 DEF Reached, StartSession
  <2>3. QED
    BY <2>1, <2>2
<1>8. ASSUME mail' # None, mail'.at = "answering"
      PROVE  mail'.for # None /\ Passes(mail.q)'
  <2>1. mail # None
    BY <1>3, <1>4, <1>5, <1>8
  <2>2. up' = up /\ mail \in Message
    BY <1>0, <1>1, <2>1 DEF Reached
  <2>3. CASE FollowUp
    <3>1. mail.for # None /\ Passes(mail.q) /\ mail' = [mail EXCEPT !.at = "answering"]
      BY <1>8, <2>3 DEF FollowUp, Failed
    <3>2. mail'.for = mail.for /\ mail'.q = mail.q
      BY <2>2, <3>1 DEF Message
    <3>3. QED
      BY <2>2, <3>1, <3>2 DEF Passes, Authorized
  <2>4. CASE mail' = mail
    BY <1>0, <1>8, <2>2, <2>4 DEF Reached, Passes, Authorized
  <2>5. FollowUp \/ mail' = mail
    BY <1>8, <2>1 DEF ServiceNext, svars, callerVars, NotDelivered, StartSession, Answer,
         AnswerTooLate, Pump, Files, SendTask, SendAnswer, Failed
  <2>6. QED
    BY <2>3, <2>4, <2>5
<1>9. ASSUME mail' # None, mail'.for = None PROVE ses'.runner = "none"
  <2>1. CASE mail # None /\ mail.for = None /\ ses'.runner # "none"
    <3>1. StartSession
      BY <1>0, <2>1, StartersAndDeciders DEF Reached
    <3>2. QED
      BY <1>9, <3>1 DEF StartSession
  <2>2. CASE mail # None /\ mail.for # None
    <3>1. mail' = [mail EXCEPT !.at = "answering"] \/ mail' = mail
      BY <1>9, <2>2 DEF ServiceNext, svars, callerVars, NotDelivered, StartSession, Answer,
         AnswerTooLate, Pump, Files, SendTask, SendAnswer, Failed, FollowUp
    <3>2. mail'.for = mail.for
      BY <1>0, <2>2, <3>1 DEF Reached, Message
    <3>3. QED
      BY <1>9, <2>2, <3>2
  <2>3. CASE mail = None
    <3>1. ASSUME NEW q \in TaskRequests, NEW r \in ReqId, NEW v \in Decisions,
                 SendAnswer(r, v, q)
          PROVE  FALSE
      <4>1. mail'.for = r
        BY <3>1 DEF SendAnswer
      <4>2. QED
        BY <1>9, <4>1, SessionAssumption
    <3>2. PICK q \in TaskRequests : SendTask(q)
      BY <1>3, <1>9, <2>3, <3>1
    <3>3. QED
      BY <3>2 DEF SendTask, vars
  <2>4. QED
    BY <2>1, <2>2, <2>3
<1>10. QED
  BY <1>2, <1>6, <1>7, <1>8, <1>9 DEF Reached

-----------------------------------------------------------------------------
(* Requests: who asks, and what has their ids.                              *)

(* The caller that answers request r faces it: it is shown, or surfaced, or *)
(* the session has gone on to its end without it.                           *)
Facing(r) == \/ at = "off" /\ (ses.last = r \/ ~Parked(ses))
             \/ at = "yield" /\ hand = Request(r)

(* The drivers and the agent decide nothing: they ask, and are told what    *)
(* follows from the decision (acp.py:120-164).                              *)
LEMMA DriverTells ==
  ASSUME TypeOK, DriverTypeOK, Begun, NEW r \in ReqId
  PROVE  /\ perm'[r].verdict = perm[r].verdict
         /\ perm[r].asked => perm'[r].asked /\ perm'[r].opts = perm[r].opts
         /\ perm'[r].told = perm[r].told \/
              /\ perm[r].verdict # None /\ perm'[r].opts = perm[r].opts
              /\ perm'[r].told \in {perm[r].verdict,
                                    SelectOption(perm[r].opts, perm[r].verdict)}
         /\ r \in ses'.pending => r \in ses.pending \/ (~perm[r].asked /\ perm'[r].asked)
<1>0. perm \in [ReqId -> Permission] /\ perm[r].asked \in BOOLEAN
  BY DEF DriverTypeOK, Permission
<1>1. CASE \E x \in ReqId : EchoAsk(x) \/ ClaudeAsk(x) \/ AcpAsk(x)
  <2>1. PICK x \in ReqId : EchoAsk(x) \/ ClaudeAsk(x) \/ AcpAsk(x)
    BY <1>1
  <2>2. AskPermission(x, {}) \/ \E opts \in OptionSets : AskPermission(x, opts)
    BY <2>1 DEF EchoAsk, ClaudeAsk, AcpAsk
  <2>3. PICK opts : perm' = [perm EXCEPT ![x].asked = TRUE, ![x].opts = opts]
    BY <2>2 DEF AskPermission
  <2>4. ~perm[x].asked /\ ses' = Asked(ses, x)
    BY <2>2 DEF AskPermission, Ask
  <2>5. ses'.pending = ses.pending \cup {x}
    BY <2>4 DEF Asked, Put, TypeOK, Session
  <2>6. CASE r = x
    <3>1. /\ perm'[r].asked = TRUE /\ perm'[r].verdict = perm[r].verdict
          /\ perm'[r].told = perm[r].told
      BY <1>0, <2>3, <2>6 DEF Permission
    <3>2. QED
      BY <2>4, <2>6, <3>1
  <2>7. CASE r # x
    <3>1. perm'[r] = perm[r]
      BY <1>0, <2>3, <2>7
    <3>2. QED
      BY <2>5, <2>7, <3>1
  <2>8. QED
    BY <2>6, <2>7
<1>2. CASE \E x \in ReqId : EchoAnswered(x) \/ ClaudeAnswered(x) \/ AcpAnswered(x)
  <2>1. PICK x \in ReqId : EchoAnswered(x) \/ ClaudeAnswered(x) \/ AcpAnswered(x)
    BY <1>2
  <2>2. /\ perm[x].verdict # None /\ ses' = ses
        /\ \E o \in {perm[x].verdict, SelectOption(perm[x].opts, perm[x].verdict)} :
             perm' = [perm EXCEPT ![x].told = o]
    BY <2>1 DEF EchoAnswered, ClaudeAnswered, AcpAnswered, Tell, Answered
  <2>3. PICK o \in {perm[x].verdict, SelectOption(perm[x].opts, perm[x].verdict)} :
          perm' = [perm EXCEPT ![x].told = o]
    BY <2>2
  <2>4. CASE r = x
    <3>1. /\ perm'[r].told = o /\ perm'[r].verdict = perm[r].verdict
          /\ perm'[r].opts = perm[r].opts /\ perm'[r].asked = perm[r].asked
      BY <1>0, <2>3, <2>4 DEF Permission
    <3>2. QED
      BY <2>2, <2>3, <2>4, <3>1
  <2>5. CASE r # x
    <3>1. perm'[r] = perm[r]
      BY <1>0, <2>3, <2>5
    <3>2. QED
      BY <2>2, <3>1
  <2>6. QED
    BY <2>4, <2>5
<1>3. CASE \/ EmitNext \/ ReturnDriver \/ RaiseDriver \/ UnwindDriver
           \/ (DropUnstarted /\ UNCHANGED backendVars)
           \/ EchoSpeak \/ ClaudeConnect \/ ClaudeReceive \/ ClaudeBlock
           \/ AcpInitialized \/ AcpOpened \/ AcpUpdate \/ AcpResponse
           \/ BeginDriver(up.opts.backend)
  <2>1. perm' = perm
    BY <1>3 DEF EmitNext, ReturnDriver, RaiseDriver, UnwindDriver, EchoSpeak, ClaudeConnect,
         ClaudeReceive, ClaudeBlock, AcpInitialized, AcpOpened, AcpUpdate, AcpResponse,
         BeginDriver, backendVars
  <2>2. ses'.pending = ses.pending
    BY <1>3 DEF EmitNext, ReturnDriver, RaiseDriver, UnwindDriver, EchoSpeak, ClaudeConnect,
         ClaudeReceive, ClaudeBlock, AcpInitialized, AcpOpened, AcpUpdate, AcpResponse,
         BeginDriver, Begin, Return, Raise, Unwind, DropUnstarted, Report, Began, Emitted,
         Reported, Ended, Stillborn, Put, TypeOK, Session
  <2>3. QED
    BY <2>1, <2>2
<1>4. QED
  BY <1>1, <1>2, <1>3 DEF Begun, Driver

(* Whatever the pump, an abort or a close does, a caller that faces its     *)
(* request keeps facing it, and a drain is not entered (session.py:97-132). *)
LEMMA PumpFaces ==
  ASSUME DrainInvariant, Pump
  PROVE  /\ \A r \in ReqId : Facing(r) => Facing(r)'
         /\ at' # "off" => at # "off" /\ ses'.last = ses.last
         /\ ses'.pending \subseteq ses.pending
<1>0. TypeOK /\ ParkedIsQuiescent
  BY DEF DrainInvariant, Sound, DrainSound, ParkedIsQuiescent
<1>1. CASE Take \/ TakeEnd
  <2>1. /\ at = "get" /\ ses'.last = ses.last /\ ses'.pending \subseteq ses.pending
    BY <1>0, <1>1 DEF Take, TakeEnd, CanTake, Taken, Forgotten, TypeOK, Session
  <2>2. QED
    BY <2>1 DEF Facing
<1>2. CASE Resume
  <2>1. at = "yield" /\ ses'.pending = ses.pending
    BY <1>0, <1>2 DEF Resume, Surfaced, TypeOK, Session
  <2>2. ASSUME NEW r \in ReqId, hand = Request(r)
        PROVE  at' = "off" /\ ses'.last = r
    BY <1>0, <1>2, <2>2 DEF Resume, Surfaced, Request, TypeOK, Session
  <2>3. at' # "off" => ses'.last = ses.last
    BY <1>2 DEF Resume
  <2>4. QED
    BY <2>1, <2>2, <2>3 DEF Facing
<1>3. CASE Abort \/ Close
  <2>1. /\ ses'.last = ses.last /\ ses'.pending = ses.pending
    BY <1>0, <1>3 DEF Abort, Close, Marked, CancelRunner, TypeOK, Session
  <2>2. CASE Abort
    BY <1>0, <2>1, <2>2 DEF Abort, Facing, Parked, ParkedIsQuiescent
  <2>3. CASE Close
    BY <2>1, <2>3 DEF Close, Facing, Parked
  <2>4. QED
    BY <1>3, <2>2, <2>3
<1>4. CASE CloseFinished \/ FinishClose
  <2>1. /\ ses'.last = ses.last /\ ses'.pending = {} /\ at' = at /\ hand' = hand
    BY <1>0, <1>4 DEF CloseFinished, FinishClose, Marked, Forgotten, TypeOK, Session
  <2>2. QED
    BY <2>1 DEF Facing, Parked
<1>5. QED
  BY <1>1, <1>2, <1>3, <1>4 DEF Pump

(* What is put last, what is taken first (session.py:73-110).               *)
LEMMA QueuedIds ==
  ASSUME NEW q \in Seq(Item), NEW r
  PROVE  /\ \A item \in Item : Queued(Append(q, item), r) => Queued(q, r) \/ item.id = r
         /\ q # << >> => /\ Queued(Tail(q), r) => Queued(q, r)
                         /\ Head(q).id = r => Queued(q, r)
<1>1. ASSUME NEW item \in Item, Queued(Append(q, item), r)
      PROVE  Queued(q, r) \/ item.id = r
  <2>1. PICK i \in 1..Len(q) + 1 : Append(q, item)[i].id = r
    BY <1>1 DEF Queued
  <2>2. CASE i = Len(q) + 1
    BY <2>1, <2>2
  <2>3. CASE i # Len(q) + 1
    <3>1. i \in 1..Len(q) /\ Append(q, item)[i] = q[i]
      BY <2>1, <2>3
    <3>2. QED
      BY <2>1, <3>1 DEF Queued
  <2>4. QED
    BY <2>2, <2>3
<1>2. ASSUME q # << >>, Queued(Tail(q), r) PROVE Queued(q, r)
  <2>1. PICK i \in 1..Len(Tail(q)) : Tail(q)[i].id = r
    BY <1>2 DEF Queued
  <2>2. i + 1 \in 1..Len(q) /\ Tail(q)[i] = q[i + 1]
    BY <1>2, <2>1
  <2>3. QED
    BY <2>1, <2>2 DEF Queued
<1>3. ASSUME q # << >>, Head(q).id = r PROVE Queued(q, r)
  <2>1. 1 \in 1..Len(q) /\ q[1] = Head(q)
    BY <1>3
  <2>2. QED
    BY <1>3, <2>1 DEF Queued
<1>4. QED
  BY <1>1, <1>2, <1>3

(* A runner brings no id into use but that of its request (session.py:57-87).*)
LEMMA RunnerUses ==
  ASSUME NEW x \in Session, NEW r \in ReqId, NEW h
  PROVE  /\ Uses(Began(x), h, r) => Uses(x, h, r)
         /\ Uses(Stillborn(x), h, r) => Uses(x, h, r)
         /\ Uses(CancelRunner(x), h, r) => Uses(x, h, r)
         /\ \A k \in Kinds : Uses(Put(x, Event(k)), h, r) => Uses(x, h, r)
         /\ Uses(Reported(x), h, r) => Uses(x, h, r)
         /\ \A how \in Over : Uses(Ended(x, how), h, r) => Uses(x, h, r)
         /\ \A a \in ReqId : Uses(Asked(x, a), h, r) => Uses(x, h, r) \/ a = r
<1>1. /\ Uses(Began(x), h, r) => Uses(x, h, r)
      /\ Uses(Stillborn(x), h, r) => Uses(x, h, r)
      /\ Uses(CancelRunner(x), h, r) => Uses(x, h, r)
  BY DEF Uses, Began, Stillborn, CancelRunner, Session
<1>2. ASSUME NEW y \in Session, NEW k \in Kinds, Uses(Put(y, Event(k)), h, r)
      PROVE  Uses(y, h, r)
  <2>1. /\ Event(k) \in Item /\ Event(k).id # r
    BY ItemTypes, SessionAssumption DEF Event, SessionAssumption
  <2>2. Put(y, Event(k)).queue = Append(y.queue, Event(k)) /\ y.queue \in Seq(Item)
        /\ Put(y, Event(k)).pending = y.pending /\ Put(y, Event(k)).last = y.last
    BY <2>1, PutFields DEF Session
  <2>3. QED
    BY <1>2, <2>1, <2>2, QueuedIds DEF Uses
<1>3. ASSUME NEW y \in Session, NEW how \in Runner
      PROVE  Uses([y EXCEPT !.runner = how], h, r) => Uses(y, h, r)
  BY DEF Uses, Session
<1>4. \A k \in Kinds : \A y \in Session : Put(y, Event(k)) \in Session
  BY ItemTypes, PutType
<1>5. {"result", "error", "done"} \subseteq Kinds /\ Over \subseteq Runner /\ "reported" \in Runner
  BY DEF Kinds, Runner
<1>6. Uses(Reported(x), h, r) => Uses(x, h, r)
  BY <1>2, <1>3, <1>4, <1>5 DEF Reported
<1>7. ASSUME NEW how \in Over, Uses(Ended(x, how), h, r) PROVE Uses(x, h, r)
  <2> DEFINE y == IF how = "raised" THEN Put(x, Event("error")) ELSE x
  <2>1. Ended(x, how) = [Put(y, Event("done")) EXCEPT !.runner = how]
    BY DEF Ended
  <2>2. y \in Session /\ (Uses(y, h, r) => Uses(x, h, r))
    BY <1>2, <1>4, <1>5
  <2> HIDE DEF y
  <2>3. Put(y, Event("done")) \in Session
    BY <1>4, <1>5, <2>2
  <2>4. Uses(Put(y, Event("done")), h, r)
    BY <1>3, <1>5, <1>7, <2>1, <2>3
  <2>5. QED
    BY <1>2, <1>5, <2>2, <2>4
<1>8. ASSUME NEW a \in ReqId, Uses(Asked(x, a), h, r), a # r PROVE Uses(x, h, r)
  <2>1. Request(a) \in Item /\ Request(a).id = a
    BY ItemTypes DEF Request
  <2>2. /\ Asked(x, a).queue = Append(x.queue, Request(a)) /\ x.queue \in Seq(Item)
        /\ Asked(x, a).pending = x.pending \cup {a} /\ Asked(x, a).last = x.last
    BY <2>1 DEF Asked, Put, Session
  <2>3. QED
    BY <1>8, <2>1, <2>2, QueuedIds DEF Uses
<1>9. QED
  BY <1>1, <1>2, <1>6, <1>7, <1>8

(* Nor does any other step of a session (session.py:89-132).                *)
LEMMA NoIdFromNowhere ==
  ASSUME TypeOK, [Next]_vars, NEW r \in ReqId, Uses(ses', hand', r), ~Uses(ses, hand, r)
  PROVE  r \in ses'.pending
<1> USE DEF TypeOK
<1>0. ses \in Session /\ ses.queue \in Seq(Item)
  BY DEF Session
<1>1. CASE \E a \in ReqId : Ask(a)
  <2>1. PICK a \in ReqId : Ask(a)
    BY <1>1
  <2>2. ses' = Asked(ses, a) /\ hand' = hand
    BY <2>1 DEF Ask
  <2>3. a = r
    BY <1>0, <2>2, RunnerUses
  <2>4. QED
    BY <1>0, <2>2, <2>3 DEF Asked, Put, Session
<1>2. CASE Begin \/ Emit \/ Report \/ Return \/ Raise \/ Unwind \/ DropUnstarted
  <2>1. hand' = hand
    BY <1>2 DEF Begin, Emit, Report, Return, Raise, Unwind, DropUnstarted
  <2>2. EventKinds \subseteq Kinds /\ Spoke \subseteq Over
    BY SessionAssumption DEF SessionAssumption, Kinds, Over
  <2>3. \/ ses' \in {Began(ses), Reported(ses), Stillborn(ses)}
        \/ \E k \in Kinds : ses' = Put(ses, Event(k))
        \/ \E how \in Over : ses' = Ended(ses, how)
    BY <1>2, <2>2 DEF Begin, Emit, Report, Return, Raise, Unwind, DropUnstarted, Emitted, Spoke
  <2>4. QED
    BY <1>0, <2>1, <2>3, RunnerUses
<1>3. CASE Start
  <2>1. /\ ses'.pending = {} /\ ses'.last = None /\ ses'.queue = << >> /\ hand' = hand
    BY <1>3 DEF Start, Started, Unborn
  <2>2. QED
    BY <2>1, SessionAssumption DEF Uses, Queued, SessionAssumption
<1>4. CASE Resolve
  <2>1. /\ ses'.pending \subseteq ses.pending /\ ses'.last = ses.last /\ ses'.queue = ses.queue
        /\ hand' = hand
    BY <1>0, <1>4 DEF Resolve, Resolved, Session
  <2>2. QED
    BY <2>1 DEF Uses
<1>5. CASE Take \/ TakeEnd
  <2>1. /\ ses'.pending \subseteq ses.pending /\ ses'.last = ses.last
        /\ ses'.queue = Tail(ses.queue) /\ ses.queue # << >>
        /\ hand' = hand \/ hand' = Head(ses.queue)
    BY <1>0, <1>5 DEF Take, TakeEnd, CanTake, Taken, Forgotten, Session
  <2>2. QED
    BY <1>0, <2>1, QueuedIds DEF Uses
<1>6. CASE Resume
  <2>1. /\ ses'.pending = ses.pending /\ ses'.queue = ses.queue /\ hand' = None
        /\ hand \in Item
        /\ ses'.last = ses.last \/ ses'.last = hand.id
    BY <1>0, <1>6 DEF Resume, Surfaced, Session
  <2>2. QED
    BY <2>1, SessionAssumption DEF Uses, SessionAssumption
<1>7. CASE Abort \/ Close \/ CloseFinished \/ FinishClose
  <2>1. /\ ses'.pending \subseteq ses.pending /\ ses'.last = ses.last /\ ses'.queue = ses.queue
        /\ hand' = hand \/ hand' = None
    <3>1. \A x \in Marked(ses) : /\ x \in Session /\ x.pending = ses.pending
                                 /\ x.last = ses.last /\ x.queue = ses.queue
      BY <1>0 DEF Marked, Session
    <3>2. ASSUME NEW x \in Session
          PROVE  /\ CancelRunner(x).pending = x.pending /\ CancelRunner(x).last = x.last
                 /\ CancelRunner(x).queue = x.queue
                 /\ Forgotten(x).pending = {} /\ Forgotten(x).last = x.last
                 /\ Forgotten(x).queue = x.queue
      BY DEF CancelRunner, Forgotten, Session
    <3>3. PICK x \in Session : /\ x.pending = ses.pending /\ x.last = ses.last
                               /\ x.queue = ses.queue
                               /\ ses' \in {CancelRunner(x), Forgotten(x)}
      BY <1>0, <1>7, <3>1 DEF Abort, Close, CloseFinished, FinishClose
    <3>4. QED
      BY <1>7, <3>2, <3>3 DEF Abort, Close, CloseFinished, FinishClose
  <2>2. QED
    BY <2>1, SessionAssumption DEF Uses, SessionAssumption
<1>8. CASE UNCHANGED vars
  BY <1>8 DEF vars
<1>9. QED
  BY <1>1, <1>2, <1>3, <1>4, <1>5, <1>6, <1>7, <1>8 DEF Next

(* Ids in use were given out by a driver's request (session.py:79-86).      *)
LEMMA UsesStep == ASSUME ServiceInv, [ServiceNext]_svars PROVE UsedWasAsked'
<1> SUFFICES ASSUME NEW r \in ReqId, Uses(ses', hand', r) PROVE perm'[r].asked
  BY DEF UsedWasAsked
<1>0. DrainInvariant /\ TypeOK /\ DriverTypeOK /\ perm \in [ReqId -> Permission]
  BY DEF ServiceInv, DrainInvariant, DriverTypeOK
<1>1. [Next]_vars
  BY SessionPart
<1>2. perm[r].asked => perm'[r].asked
  <2>1. CASE Begun
    BY <1>0, <2>1, DriverTells
  <2>2. CASE Answer
    BY <1>0, <2>2 DEF Answer, Permission
  <2>3. CASE UNCHANGED backendVars
    BY <2>3 DEF backendVars
  <2>4. QED
    BY <2>1, <2>2, <2>3 DEF ServiceNext, svars, backendVars, SendTask, SendAnswer,
         NotDelivered, StartSession, FollowUp, AnswerTooLate, Pump, Files
<1>3. CASE Uses(ses, hand, r)
  BY <1>2, <1>3 DEF ServiceInv, UsedWasAsked
<1>4. CASE ~Uses(ses, hand, r)
  <2>1. r \in ses'.pending /\ r \notin ses.pending
    BY <1>0, <1>1, <1>4, NoIdFromNowhere DEF Uses
  <2>2. CASE Begun
    BY <1>0, <2>1, <2>2, DriverTells
  <2>3. ~Pump
    BY <1>0, <2>1, PumpFaces
  <2>4. ~Answer /\ ~StartSession
    BY <1>0, <2>1 DEF Answer, Resolved, StartSession, Started, Unborn, TypeOK, Session
  <2>5. ses' # ses
    BY <2>1
  <2>6. QED
    BY <2>2, <2>3, <2>4, <2>5 DEF ServiceNext, svars, vars, SendTask, SendAnswer,
         NotDelivered, FollowUp, AnswerTooLate, Files
<1>5. QED
  BY <1>3, <1>4

(* One Result, and nothing after it (base.py:68-76, acp.py:265-276,         *)
(* claude.py:123-125).                                                      *)
LEMMA ReportsOnceStep == ASSUME ServiceInv, [ServiceNext]_svars PROVE ReportsOnce'
<1>0. /\ TypeOK /\ DriverTypeOK /\ ReportsOnce /\ ses \in Session
      /\ drv \in DriverState /\ drv.todo \in Seq(Events)
  BY DEF ServiceInv, DrainInvariant, TypeOK, DriverTypeOK, DriverState
<1>1. CASE EmitNext
  <2>1. drv'.todo = Tail(drv.todo) /\ drv'.name = drv.name /\ drv.todo # << >>
    BY <1>0, <1>1 DEF EmitNext, DriverState
  <2>2. \A i \in 1..Len(Tail(drv.todo)) :
          /\ i + 1 \in 1..Len(drv.todo) /\ Tail(drv.todo)[i] = drv.todo[i + 1]
          /\ i + 1 = Len(drv.todo) => i = Len(Tail(drv.todo))
    BY <1>0, <2>1
  <2>3. CASE Head(drv.todo) = "result"
    <3>1. 1 \in 1..Len(drv.todo) /\ drv.todo[1] = "result"
      BY <1>0, <2>1, <2>3
    <3>2. Len(drv.todo) = 1
      BY <1>0, <3>1 DEF ReportsOnce
    <3>3. Len(Tail(drv.todo)) = 0
      BY <1>0, <2>1, <3>2
    <3>4. QED
      BY <2>1, <3>3 DEF ReportsOnce
  <2>4. CASE Head(drv.todo) # "result"
    <3>1. ses'.runner = ses.runner
      BY <1>0, <1>1, <2>4 DEF EmitNext, Emitted, Put, Session
    <3>2. QED
      BY <1>0, <2>1, <2>2, <3>1 DEF ReportsOnce
  <2>5. QED
    BY <2>3, <2>4
<1>2. ASSUME drv'.todo = drv.todo, drv'.name = drv.name,
             ses'.runner = "reported" => ses.runner = "reported"
      PROVE  ReportsOnce'
  BY <1>0, <1>2 DEF ReportsOnce
<1>3. ASSUME \A i \in 1..Len(drv'.todo) : drv'.todo[i] # "result"
      PROVE  ReportsOnce'
  BY <1>3 DEF ReportsOnce
<1>4. ASSUME ses'.runner = "running", drv'.name # "acp",
             \A i \in 1..Len(drv'.todo) : drv'.todo[i] = "result" => i = Len(drv'.todo)
      PROVE  ReportsOnce'
  BY <1>4 DEF ReportsOnce
<1>5. CASE BeginDriver(up.opts.backend)
  <2>1. drv'.todo \in {<<"tool">>, << >>}
    BY <1>5 DEF BeginDriver
  <2>2. QED
    BY <1>3, <2>1
<1>6. CASE ReturnDriver \/ RaiseDriver \/ UnwindDriver \/ (DropUnstarted /\ UNCHANGED backendVars)
  <2>1. drv' = drv
    BY <1>6 DEF ReturnDriver, RaiseDriver, UnwindDriver, backendVars
  <2>2. ses'.runner \in Over
    <3>1. \/ ses' = Stillborn(ses)
          \/ \E how \in Spoke : ses' = Ended(ses, how)
      BY <1>6 DEF ReturnDriver, RaiseDriver, UnwindDriver, Unwind, DropUnstarted, Spoke
    <3>2. QED
      BY <1>0, <3>1, EndedEffect DEF Stillborn, Over, Session
  <2>3. QED
    BY <1>2, <2>1, <2>2 DEF Over, Spoke
<1>7. CASE EchoSpeak
  <2>1. PICK t \in Said(0) : drv' = [drv EXCEPT !.at = "return", !.todo = t]
    BY <1>7 DEF EchoSpeak
  <2>2. drv'.todo = t /\ drv'.name = drv.name
    BY <1>0, <2>1 DEF DriverState
  <2>3. ses'.runner = "running" /\ drv.name = "echo"
    BY <1>7 DEF EchoSpeak
  <2>4. QED
    BY <1>4, <2>2, <2>3, TranslationTypes
<1>8. CASE ClaudeConnect \/ AcpInitialized \/ AcpOpened
  <2>1. drv'.todo = drv.todo /\ drv'.name = drv.name /\ ses' = ses
    BY <1>0, <1>8 DEF ClaudeConnect, AcpInitialized, AcpOpened, Goto, DriverState
  <2>2. QED
    BY <1>2, <2>1
<1>9. CASE AcpResponse
  <2>1. drv'.todo = << >>
    BY <1>0, <1>9 DEF AcpResponse, Goto, Quiet, DriverState
  <2>2. QED
    BY <1>3, <2>1
<1>10. CASE ClaudeReceive
  <2>1. drv'.todo \in {<<"result">>, << >>} /\ drv'.name = drv.name
    BY <1>0, <1>10 DEF ClaudeReceive, Quiet, DriverState
  <2>2. ses'.runner = "running" /\ drv.name = "claude"
    BY <1>10 DEF ClaudeReceive
  <2>3. \A i \in 1..Len(drv'.todo) : drv'.todo[i] = "result" => i = Len(drv'.todo)
    <3>1. CASE drv'.todo = <<"result">>
      BY <3>1
    <3>2. CASE drv'.todo = << >>
      BY <3>2
    <3>3. QED
      BY <2>1, <3>1, <3>2
  <2>4. QED
    BY <1>4, <2>1, <2>2, <2>3
<1>11. CASE ClaudeBlock
  <2>1. drv'.todo = EventsFromBlock(Head(drv.blocks))
    BY <1>0, <1>11 DEF ClaudeBlock, DriverState
  <2>2. QED
    BY <1>3, <2>1, TranslationTypes, KindsAreEvents
<1>12. CASE AcpUpdate
  <2>1. PICK u \in Updates : drv' = [drv EXCEPT !.todo = EventsFromUpdate(u), !.left = drv.left - 1]
    BY <1>12 DEF AcpUpdate, Received
  <2>2. drv'.todo = EventsFromUpdate(u)
    BY <1>0, <2>1 DEF DriverState
  <2>3. QED
    BY <1>3, <2>2, TranslationTypes, KindsAreEvents
<1>13. CASE \E r \in ReqId : EchoAsk(r) \/ ClaudeAsk(r) \/ AcpAsk(r)
  <2>1. PICK r \in ReqId : EchoAsk(r) \/ ClaudeAsk(r) \/ AcpAsk(r)
    BY <1>13
  <2>2. drv'.todo = << >>
    BY <1>0, <2>1 DEF EchoAsk, ClaudeAsk, AcpAsk, AskPermission, Goto, Received, Quiet, DriverState
  <2>3. QED
    BY <1>3, <2>2
<1>14. CASE \E r \in ReqId : EchoAnswered(r) \/ ClaudeAnswered(r) \/ AcpAnswered(r)
  <2>1. PICK r \in ReqId : EchoAnswered(r) \/ ClaudeAnswered(r) \/ AcpAnswered(r)
    BY <1>14
  <2>2. CASE EchoAnswered(r)
    <3>1. PICK t \in Said(1) :
            drv' = [drv EXCEPT !.at = "return",
                      !.todo = IF perm[r].verdict = "allow" THEN t ELSE <<"text", "result">>]
      BY <2>2 DEF EchoAnswered
    <3>2. drv'.todo \in {t, <<"text", "result">>} /\ drv'.name = drv.name
      BY <1>0, <3>1 DEF DriverState
    <3>3. ses'.runner = "running" /\ drv.name = "echo"
      BY <2>2 DEF EchoAnswered, Tell
    <3>4. \A i \in 1..Len(t) : t[i] = "result" => i = Len(t)
      BY TranslationTypes
    <3>5. \A i \in 1..Len(<<"text", "result">>) :
            <<"text", "result">>[i] = "result" => i = Len(<<"text", "result">>)
      OBVIOUS
    <3>6. \A i \in 1..Len(drv'.todo) : drv'.todo[i] = "result" => i = Len(drv'.todo)
      BY <3>2, <3>4, <3>5
    <3>7. QED
      BY <1>4, <3>2, <3>3, <3>6
  <2>3. CASE ClaudeAnswered(r) \/ AcpAnswered(r)
    <3>1. drv' = drv /\ ses' = ses
      BY <2>3 DEF ClaudeAnswered, AcpAnswered, Tell
    <3>2. QED
      BY <1>2, <3>1
  <2>4. QED
    BY <2>1, <2>2, <2>3
<1>15. CASE Pump
  <2>1. drv' = drv
    BY <1>15 DEF Pump, backendVars
  <2>2. ses'.runner = "reported" => ses.runner = "reported"
    BY <1>0, <1>15 DEF Pump, Take, TakeEnd, Resume, Abort, Close, CloseFinished, FinishClose,
         CanTake, Taken, Forgotten, Surfaced, Marked, CancelRunner, Session
  <2>3. QED
    BY <1>2, <2>1, <2>2
<1>16. CASE StartSession \/ Answer
  <2>1. drv' = drv /\ (ses'.runner = "reported" => ses.runner = "reported")
    BY <1>0, <1>16 DEF StartSession, Answer, Started, Unborn, Resolved, backendVars, Session
  <2>2. QED
    BY <1>2, <2>1
<1>17. CASE UNCHANGED <<vars, backendVars>>
  <2>1. drv' = drv /\ ses' = ses
    BY <1>17 DEF vars, backendVars
  <2>2. QED
    BY <1>2, <2>1
<1>18. CASE Begun
  BY <1>1, <1>5, <1>6, <1>7, <1>8, <1>9, <1>10, <1>11, <1>12, <1>13, <1>14, <1>18
     DEF Begun, Driver
<1>19. QED
  BY <1>15, <1>16, <1>17, <1>18 DEF ServiceNext, svars, SendTask, SendAnswer, NotDelivered,
       FollowUp, AnswerTooLate, Files

-----------------------------------------------------------------------------
(* The invariant of the service.                                            *)

LEMMA ServiceStart == ServiceInit => ServiceInv
<1> SUFFICES ASSUME ServiceInit PROVE ServiceInv
  OBVIOUS
<1>1. DrainInvariant
  BY DrainStart DEF ServiceInit
<1>2. ServerInv /\ FileInv
  BY FileStart DEF ServiceInit, ServerInit, ServerInv
<1>3. DriverTypeOK
  <2>1. << >> \in Seq(Events) /\ << >> \in Seq(Blocks) /\ "off" \in Places
    BY DEF Places
  <2>2. drv \in DriverState
    BY <2>1 DEF ServiceInit, BackendsInit, DriverState
  <2>3. Unasked \in Permission
    BY DEF Unasked, Permission
  <2>4. QED
    BY <2>2, <2>3 DEF ServiceInit, BackendsInit, DriverTypeOK
<1>4. CallerTypeOK
  BY DEF ServiceInit, CallerTypeOK
<1>5. Reached
  BY DEF ServiceInit, Reached, Init, Unborn
<1>6. ReportsOnce
  BY DEF ServiceInit, BackendsInit, ReportsOnce
<1>7. UsedWasAsked
  <2>1. /\ ses.pending = {} /\ ses.last = None /\ ses.queue = << >> /\ hand = None
        /\ None \notin ReqId /\ None \notin Item
    BY SessionAssumption DEF ServiceInit, Init, Unborn, SessionAssumption
  <2>2. QED
    BY <2>1 DEF UsedWasAsked, Uses, Queued
<1>8. QED
  BY <1>1, <1>2, <1>3, <1>4, <1>5, <1>6, <1>7 DEF ServiceInv

LEMMA ServiceStep == ServiceInv /\ [ServiceNext]_svars => ServiceInv'
<1> SUFFICES ASSUME ServiceInv, [ServiceNext]_svars PROVE ServiceInv'
  OBVIOUS
<1>1. DrainInvariant'
  BY SessionPart, DrainStep DEF ServiceInv
<1>2. ServerInv' /\ FileInv'
  BY ServerPart, ServerStep, FilePart, FileStep DEF ServiceInv
<1>3. CallerTypeOK' /\ Reached'
  BY CallerTypes, ReachedStep
<1>4. DriverTypeOK'
  <2>1. CASE Begun
    <3>1. CASE Driver
      BY <3>1, DriverTypes DEF ServiceInv
    <3>2. CASE BeginDriver(up.opts.backend)
      <4>1. ses.runner # "none"
        BY <3>2 DEF BeginDriver, Begin
      <4>2. up.at = "up"
        BY <4>1 DEF ServiceInv, Reached
      <4>3. up.opts.backend \in {"echo", "claude", "acp"}
        BY <4>2, UpFields DEF ServiceInv, Refused, NoBackend
      <4>4. QED
        BY <3>2, <4>3, BeginTypes DEF ServiceInv
    <3>3. QED
      BY <2>1, <3>1, <3>2 DEF Begun
  <2>2. CASE Answer
    <3>1. Decision(mail.word) \in Decisions
      BY DEF Decision, Decisions
    <3>2. ses.last \in ReqId
      BY <2>2 DEF Answer, ServiceInv, DrainInvariant, TypeOK, Session
    <3>3. perm' = [perm EXCEPT ![ses.last].verdict = Decision(mail.word)] /\ drv' = drv
      BY <2>2 DEF Answer
    <3>4. QED
      BY <3>1, <3>2, <3>3 DEF ServiceInv, DriverTypeOK, Permission
  <2>3. CASE UNCHANGED backendVars
    BY <2>3 DEF backendVars, ServiceInv, DriverTypeOK
  <2>4. QED
    BY <2>1, <2>2, <2>3 DEF ServiceNext, svars, backendVars, SendTask, SendAnswer, NotDelivered,
                            StartSession, FollowUp, AnswerTooLate, Pump, Files
<1>5. QED
  BY <1>1, <1>2, <1>3, <1>4, ReportsOnceStep, UsesStep DEF ServiceInv

LEMMA ServiceAlways == ServiceSpec => []ServiceInv
  BY ServiceStart, ServiceStep, PTL DEF ServiceSpec

(* Whatever driver, agent, caller and command line there are, the session   *)
(* is started once, drained by one consumer at a time, asked under fresh    *)
(* ids and given one Result (backends/base.py:8-11, executor.py:163-178).   *)
THEOREM ServiceRunsASession == ServiceSpec => ImplementsSession
<1>1. ServiceInit => Init
  BY DEF ServiceInit
<1>2. ServiceInv /\ [ServiceNext]_svars => [Next]_vars
  BY SessionPart DEF ServiceInv
<1>3. QED
  BY <1>1, <1>2, ServiceAlways, PTL DEF ServiceSpec, ImplementsSession, Spec

(* So a drain of it waits for a runner that will still queue something, or  *)
(* for one that was cancelled before its first step (session.py:97-114).    *)
THEOREM ServiceNeverHangs == ServiceSpec => []NoHungDrain
  BY ServiceRunsASession, DrainIsNeverHung, PTL DEF ImplementsSession

(* What a read that no write overlapped returns (acp.py:177-195).           *)
THEOREM ReadsTheWindow == ServiceSpec => []ReadIsWindow
<1>1. ServiceInv => ReadIsWindow
  BY DEF ServiceInv, FileInv
<1>2. QED
  BY <1>1, ServiceAlways, PTL

(* The card tells a caller whether it needs a token (auth.py:9-11).         *)
THEOREM CardTellsTheCaller == ServiceSpec => []CardTellsAccess
<1>1. ServiceInv => CardTellsAccess
  BY CardTells DEF ServiceInv
<1>2. QED
  BY <1>1, ServiceAlways, PTL

(* The card names the agent driven and its signature covers it              *)
(* (card.py:149-150).                                                       *)
THEOREM CardStaysHonest == ServiceSpec => []CardIsHonest
<1>1. ServiceInv => CardIsHonest
  BY CardHonest DEF ServiceInv
<1>2. QED
  BY <1>1, ServiceAlways, PTL

(* No option is silently dropped (cli.py:147-167).                          *)
THEOREM EveryOptionHonoured == ServiceSpec => []OptionsHonoured
<1>1. ServiceInv => OptionsHonoured
  BY Honoured DEF ServiceInv
<1>2. QED
  BY <1>1, ServiceAlways, PTL

(* Whoever starts a session or decides a request bears the token, where     *)
(* there is one (auth.py:3-7).                                              *)
THEOREM NobodyElseActs == ServiceSpec => OnlyCallersAct
<1> DEFINE Bears == \/ up.opts.token = None
                    \/ \E i \in DOMAIN mail.q.auth : mail.q.auth[i] = Bearer(up.opts.token)
<1>1. ASSUME ServiceInv, mail # None, Passes(mail.q) PROVE Bears
  <2>1. up.at = "up" /\ mail \in Message
    BY <1>1 DEF ServiceInv, Reached
  <2>2. mail.q \in Requests /\ mail.q.type = "http" /\ ~mail.q.public
    BY <2>1 DEF Message, TaskRequests
  <2>3. up.opts.token = up.token
    BY <1>1, <2>1, UpFields DEF ServiceInv
  <2>4. QED
    BY <1>1, <2>2, <2>3, PassingBears
<1>2. ASSUME ServiceInv, [ServiceNext]_svars, ActedOn PROVE Bears
  <2>1. StartSession \/ Answer
    BY <1>2, StartersAndDeciders DEF ActedOn, ServiceInv, DrainInvariant
  <2>2. mail # None /\ Passes(mail.q)
    BY <1>2, <2>1 DEF StartSession, Answer, ServiceInv, Reached
  <2>3. QED
    BY <1>1, <1>2, <2>2
<1>3. ServiceInv /\ [ServiceNext]_svars => [ActedOn => Bears]_svars
  BY <1>2
<1>4. QED
  BY <1>3, ServiceAlways, PTL DEF ServiceSpec, OnlyCallersAct

-----------------------------------------------------------------------------
(* Decisions.                                                               *)

(* Only what was asked is decided, nothing that waits is, and what the      *)
(* agent is told follows from the decision (executor.py:305-315).           *)
Followed(r) ==
  /\ r \in ses.pending => perm[r].verdict = None
  /\ perm[r].verdict # None => perm[r].asked
  /\ perm[r].told # None =>
       /\ perm[r].verdict # None
       /\ perm[r].told \in {perm[r].verdict, SelectOption(perm[r].opts, perm[r].verdict)}

(* The message under way says what its caller decided.                      *)
Carries == mail # None /\ mail.for # None =>
             given[mail.for] # None /\ given[mail.for] = Decision(mail.word)

(* What a caller decided about d got through.                               *)
Sure(d) == given[d] # None /\ (mail # None /\ mail.for = d => mail.again)

(* Every decision is one some caller gave.                                  *)
Meant(r) == perm[r].verdict # None => \E d \in ReqId : Sure(d) /\ given[d] = perm[r].verdict

(* A drain goes on only when the request surfaced last is decided.          *)
DrainDecided == at # "off" /\ ses.last # None => perm[ses.last].verdict # None

(* Until a caller repeats itself every decision is about its own request,   *)
(* and an answer under way finds that request parked, or none.              *)
FirstHand ==
  ~repeated => /\ \A r \in ReqId : perm[r].verdict # None => given[r] = perm[r].verdict
               /\ mail # None /\ mail.for # None =>
                    perm[mail.for].verdict = None /\ Facing(mail.for)

DecisionInv == /\ \A r \in ReqId : Followed(r) /\ Meant(r)
               /\ Carries /\ DrainDecided /\ FirstHand

(* The kinds of step there are, for the caller's decisions.                 *)
LEMMA StepKinds ==
  ASSUME [ServiceNext]_svars
  PROVE  \/ Begun /\ UNCHANGED callerVars
         \/ Pump
         \/ UNCHANGED <<vars, backendVars, callerVars>>
         \/ \E q \in TaskRequests : SendTask(q)
         \/ \E q \in TaskRequests, r \in ReqId, v \in Decisions : SendAnswer(r, v, q)
         \/ mail # None /\ Failed /\ UNCHANGED <<vars, backendVars>>
         \/ /\ mail # None /\ mail' = [mail EXCEPT !.at = "answering"]
            /\ UNCHANGED <<vars, backendVars, given, repeated>>
         \/ StartSession
         \/ Answer
  BY DEF ServiceNext, svars, callerVars, NotDelivered, FollowUp, AnswerTooLate, Files, Decisions

(* What a caller says is heard as README.md:149 tells it (executor.py:310). *)
LEMMA WordsAreHeard ==
  ASSUME Undocumented = {}, NEW v \in Decisions, NEW w \in Wordings(v)
  PROVE  Decision(w) = v
  BY ServiceAssumption DEF ServiceAssumption, Decision, Wordings, Decisions

(* An answer is sent: the decision is in the message, and it is the first   *)
(* about its request unless the caller repeats itself.                      *)
LEMMA SentAnswer ==
  ASSUME ServiceInv, NEW q \in TaskRequests, NEW r \in ReqId, NEW v \in Decisions,
         SendAnswer(r, v, q)
  PROVE  /\ mail = None /\ mail'.for = r /\ mail'.again = (given[r] # None)
         /\ \E w \in Wordings(v) : mail'.word = w
         /\ given' = [given EXCEPT ![r] = v] /\ given'[r] = v /\ v # None
         /\ UNCHANGED <<ses, at, hand, perm>>
         /\ given[r] = None => r = Shown /\ repeated' = repeated
         /\ given[r] # None => given' = given /\ repeated' = TRUE
<1>1. PICK w \in Wordings(v) :
        mail' = [for |-> r, word |-> w, q |-> q, at |-> "sent", again |-> given[r] # None]
  BY DEF SendAnswer
<1>2. mail'.for = r /\ mail'.again = (given[r] # None) /\ mail'.word = w
  BY <1>1
<1>3. given \in [ReqId -> Decisions \cup {None}] /\ v # None
  BY ServiceAssumption DEF ServiceInv, CallerTypeOK, ServiceAssumption, Decisions
<1>4. given[r] # None => given[r] = v
  BY DEF SendAnswer
<1>5. QED
  BY <1>2, <1>3, <1>4 DEF SendAnswer, vars, backendVars

(* What was told stays what follows from the decision.                      *)
LEMMA FollowedStep ==
  ASSUME ServiceInv, DecisionInv, [ServiceNext]_svars, NEW r \in ReqId
  PROVE  Followed(r)'
<1>0. /\ DrainInvariant /\ TypeOK /\ DriverTypeOK /\ perm \in [ReqId -> Permission]
      /\ Followed(r)
  BY DEF ServiceInv, DrainInvariant, DriverTypeOK, DecisionInv
<1>1. CASE Begun
  <2>1. /\ perm'[r].verdict = perm[r].verdict
        /\ perm[r].asked => perm'[r].asked /\ perm'[r].opts = perm[r].opts
        /\ perm'[r].told = perm[r].told \/
             /\ perm[r].verdict # None /\ perm'[r].opts = perm[r].opts
             /\ perm'[r].told \in {perm[r].verdict,
                                   SelectOption(perm[r].opts, perm[r].verdict)}
        /\ r \in ses'.pending => r \in ses.pending \/ ~perm[r].asked
    BY <1>0, <1>1, DriverTells
  <2>2. QED
    BY <1>0, <2>1 DEF Followed
<1>2. CASE Answer
  <2>0. ses'.pending = ses.pending \ {ses.last}
    BY <1>0, <1>2 DEF Answer, Resolved, TypeOK, Session
  <2>1. CASE r = ses.last
    <3>1. /\ perm'[r].asked = perm[r].asked /\ perm'[r].opts = perm[r].opts
          /\ perm'[r].told = perm[r].told
      BY <1>0, <1>2, <2>1 DEF Answer, Permission
    <3>2. r \in ses.pending /\ perm[r].asked
      BY <1>2, <2>1 DEF Answer, ServiceInv, UsedWasAsked, Uses
    <3>3. QED
      BY <1>0, <2>0, <2>1, <3>1, <3>2 DEF Followed
  <2>2. CASE r # ses.last
    <3>1. perm'[r] = perm[r]
      BY <1>0, <1>2, <2>2 DEF Answer
    <3>2. QED
      BY <1>0, <2>0, <3>1 DEF Followed
  <2>3. QED
    BY <2>1, <2>2
<1>3. CASE perm' = perm /\ ses'.pending \subseteq ses.pending
  BY <1>0, <1>3 DEF Followed
<1>4. CASE Pump \/ StartSession
  <2>1. ses'.pending \subseteq ses.pending
    BY <1>0, <1>4, PumpFaces DEF StartSession, Started, Unborn
  <2>2. QED
    BY <1>3, <1>4, <2>1 DEF Pump, StartSession, backendVars
<1>5. QED
  BY <1>1, <1>2, <1>3, <1>4, StepKinds DEF SendTask, SendAnswer, vars, backendVars

(* The message under way goes on saying what its caller decided.            *)
LEMMA CarriesStep ==
  ASSUME Undocumented = {}, ServiceInv, DecisionInv, [ServiceNext]_svars
  PROVE  Carries'
<1>0. Carries /\ (mail # None => mail \in Message)
  BY DEF DecisionInv, ServiceInv, Reached
<1>1. CASE mail' = None
  BY <1>1 DEF Carries
<1>2. CASE mail' = mail /\ given' = given
  BY <1>0, <1>2 DEF Carries
<1>3. CASE \E q \in TaskRequests : SendTask(q)
  <2>1. mail'.for = None
    BY <1>3 DEF SendTask
  <2>2. QED
    BY <2>1 DEF Carries
<1>4. CASE \E q \in TaskRequests, r \in ReqId, v \in Decisions : SendAnswer(r, v, q)
  <2>1. PICK q \in TaskRequests, r \in ReqId, v \in Decisions : SendAnswer(r, v, q)
    BY <1>4
  <2>2. mail'.for = r /\ given'[r] = v /\ v # None
    BY <2>1, SentAnswer
  <2>3. Decision(mail'.word) = v
    <3>1. PICK w \in Wordings(v) : mail'.word = w
      BY <2>1, SentAnswer
    <3>2. Decision(w) = v
      BY WordsAreHeard
    <3>3. QED
      BY <3>1, <3>2
  <2>4. QED
    BY <2>2, <2>3 DEF Carries, Decision
<1>5. CASE mail # None /\ mail' = [mail EXCEPT !.at = "answering"] /\ given' = given
  <2>1. mail'.for = mail.for /\ mail'.word = mail.word
    BY <1>0, <1>5 DEF Message
  <2>2. QED
    BY <1>0, <1>5, <2>1 DEF Carries, Decision
<1>6. QED
  BY <1>1, <1>2, <1>3, <1>4, <1>5, StepKinds
     DEF Pump, callerVars, Failed, StartSession, Answer

(* What got through is not taken back: a caller forgets a decision only     *)
(* when it is told of the message that first carried it that it failed.     *)
LEMMA SureStays ==
  ASSUME ServiceInv, [ServiceNext]_svars, NEW d \in ReqId, Sure(d)
  PROVE  Sure(d)' /\ given'[d] = given[d]
<1>0. /\ given \in [ReqId -> Decisions \cup {None}]
      /\ mail # None => mail \in Message
  BY DEF ServiceInv, CallerTypeOK, Reached
<1>1. CASE given' = given /\ (mail' = None \/ mail' = mail)
  BY <1>1 DEF Sure
<1>2. CASE \E q \in TaskRequests : SendTask(q)
  <2>1. mail'.for = None /\ given' = given /\ None \notin ReqId
    BY <1>2, SessionAssumption DEF SendTask, SessionAssumption
  <2>2. QED
    BY <2>1 DEF Sure
<1>3. CASE \E q \in TaskRequests, r \in ReqId, v \in Decisions : SendAnswer(r, v, q)
  <2>1. PICK q \in TaskRequests, r \in ReqId, v \in Decisions : SendAnswer(r, v, q)
    BY <1>3
  <2>2. /\ mail'.for = r /\ mail'.again = (given[r] # None)
        /\ given' = [given EXCEPT ![r] = v] /\ (given[r] # None => given' = given)
    BY <2>1, SentAnswer
  <2>3. given'[d] = given[d]
    BY <1>0, <2>2 DEF Sure
  <2>4. QED
    BY <2>2, <2>3 DEF Sure
<1>4. CASE mail # None /\ Failed
  BY <1>0, <1>4 DEF Failed, Sure
<1>5. CASE mail # None /\ mail' = [mail EXCEPT !.at = "answering"] /\ given' = given
  <2>1. mail'.for = mail.for /\ mail'.again = mail.again
    BY <1>0, <1>5 DEF Message
  <2>2. QED
    BY <1>5, <2>1 DEF Sure
<1>6. QED
  BY <1>1, <1>2, <1>3, <1>4, <1>5, StepKinds
     DEF Pump, callerVars, StartSession, Answer

(* Who decided what, but for an answer that arrives, stays as it is.        *)
LEMMA VerdictsStay ==
  ASSUME ServiceInv, [ServiceNext]_svars, ~Answer, NEW r \in ReqId
  PROVE  perm'[r].verdict = perm[r].verdict
  BY StartersAndDeciders

(* Every decision is one some caller gave.                                  *)
LEMMA MeantStep ==
  ASSUME ServiceInv, DecisionInv, [ServiceNext]_svars, NEW r \in ReqId
  PROVE  Meant(r)'
<1>0. Meant(r) /\ perm \in [ReqId -> Permission]
  BY DEF DecisionInv, ServiceInv, DriverTypeOK
<1>1. CASE perm'[r].verdict = perm[r].verdict
  BY <1>0, <1>1, SureStays DEF Meant
<1>2. CASE perm'[r].verdict # perm[r].verdict
  <2>1. Answer
    BY <1>2, VerdictsStay
  <2>2. mail # None /\ mail.for \in ReqId /\ mail' = None /\ given' = given
    BY <2>1 DEF Answer, ServiceInv, Reached, Message
  <2>3. r = ses.last /\ perm'[r].verdict = Decision(mail.word)
    BY <1>0, <1>2, <2>1 DEF Answer, Permission
  <2>4. given[mail.for] # None /\ given[mail.for] = Decision(mail.word)
    BY <2>2, SessionAssumption DEF DecisionInv, Carries, SessionAssumption
  <2>5. QED
    BY <2>2, <2>3, <2>4 DEF Meant, Sure
<1>3. QED
  BY <1>1, <1>2

(* A drain goes on only after a decision (session.py:111-114).              *)
LEMMA DrainDecidedStep ==
  ASSUME ServiceInv, DecisionInv, [ServiceNext]_svars
  PROVE  DrainDecided'
<1>0. /\ DrainInvariant /\ TypeOK /\ DrainDecided /\ ses.last \in ReqId \cup {None}
      /\ perm \in [ReqId -> Permission]
  BY DEF DecisionInv, ServiceInv, DrainInvariant, TypeOK, Session, DriverTypeOK
<1>1. CASE at' # "off" /\ at # "off" /\ ses'.last = ses.last
  <2>1. CASE ses'.last = None
    BY <2>1 DEF DrainDecided
  <2>2. CASE ses'.last # None /\ ~Answer
    <3>1. ses.last \in ReqId /\ perm[ses.last].verdict # None
      BY <1>0, <1>1, <2>2 DEF DrainDecided
    <3>2. perm'[ses.last].verdict = perm[ses.last].verdict
      BY <2>2, <3>1, VerdictsStay
    <3>3. QED
      BY <1>1, <3>1, <3>2 DEF DrainDecided
  <2>3. CASE Answer
    BY <1>1, <2>3, ExecutorIsConsumer DEF Resolve
  <2>4. QED
    BY <2>1, <2>2, <2>3
<1>2. CASE at' = "off" \/ ses'.last = None
  BY <1>2 DEF DrainDecided
<1>3. CASE Begun
  <2>1. at' = at /\ ses'.last = ses.last
    BY <1>0, <1>3, DriverIsRunner, RunnerLeaves
  <2>2. QED
    BY <1>1, <1>2, <2>1
<1>4. CASE Pump
  BY <1>0, <1>1, <1>2, <1>4, PumpFaces
<1>5. CASE StartSession
  BY <1>2, <1>5 DEF StartSession, Started, Unborn
<1>6. CASE Answer
  <2>1. ses.last \in ReqId /\ ses'.last = ses.last
    BY <1>0, <1>6 DEF Answer, Resolved, TypeOK, Session
  <2>2. perm'[ses.last].verdict = Decision(mail.word)
    BY <1>0, <1>6, <2>1 DEF Answer, Permission
  <2>3. QED
    BY <2>1, <2>2, ServiceAssumption DEF DrainDecided, Decision, ServiceAssumption
<1>7. CASE ses' = ses /\ at' = at
  BY <1>1, <1>2, <1>7
<1>8. QED
  BY <1>3, <1>4, <1>5, <1>6, <1>7, StepKinds DEF SendTask, SendAnswer, vars

(* A caller that does not repeat itself answers the request it faces, and   *)
(* its answer arrives there or nowhere (executor.py:171-178).               *)
LEMMA FirstHandStep ==
  ASSUME ServiceInv, DecisionInv, [ServiceNext]_svars
  PROVE  FirstHand'
<1> SUFFICES ASSUME ~repeated'
             PROVE  /\ \A r \in ReqId : perm'[r].verdict # None => given'[r] = perm'[r].verdict
                    /\ mail' # None /\ mail'.for # None =>
                         perm'[mail'.for].verdict = None /\ Facing(mail.for)'
  BY DEF FirstHand
<1>0. /\ DrainInvariant /\ TypeOK /\ DriverTypeOK
      /\ perm \in [ReqId -> Permission] /\ given \in [ReqId -> Decisions \cup {None}]
      /\ mail # None => mail \in Message /\ mail.for \in ReqId \cup {None}
      /\ None \notin ReqId
  BY SessionAssumption DEF ServiceInv, DrainInvariant, DriverTypeOK, CallerTypeOK, Reached,
                           Message, SessionAssumption
<1>1. ~repeated
  <2>1. CASE \E q \in TaskRequests, r \in ReqId, v \in Decisions : SendAnswer(r, v, q)
    BY <2>1 DEF SendAnswer
  <2>2. QED
    BY <2>1, StepKinds DEF Pump, callerVars, Failed, StartSession, Answer, SendTask
<1>2. /\ \A r \in ReqId : perm[r].verdict # None => given[r] = perm[r].verdict
      /\ mail # None /\ mail.for # None => perm[mail.for].verdict = None /\ Facing(mail.for)
  BY <1>1 DEF DecisionInv, FirstHand
<1>3. ASSUME ~Answer, given' = given, mail' = None \/ mail' = mail,
             \A r \in ReqId : Facing(r) => Facing(r)'
      PROVE  FirstHand'
  <2>1. \A r \in ReqId : perm'[r].verdict = perm[r].verdict
    BY <1>3, VerdictsStay
  <2>2. QED
    BY <1>0, <1>2, <1>3, <2>1 DEF FirstHand
<1>4. CASE Begun /\ UNCHANGED callerVars
  <2>1. /\ at' = at /\ hand' = hand /\ ses'.last = ses.last
        /\ Parked(ses') => Parked(ses)
    BY <1>0, <1>4, DriverIsRunner, RunnerLeaves
  <2>2. \A r \in ReqId : Facing(r) => Facing(r)'
    BY <2>1 DEF Facing
  <2>3. \A r \in ReqId : perm'[r].verdict = perm[r].verdict
    BY <1>0, <1>4, DriverTells
  <2>4. QED
    BY <1>0, <1>2, <1>4, <2>2, <2>3 DEF callerVars
<1>5. CASE Pump
  <2>1. \A r \in ReqId : Facing(r) => Facing(r)'
    BY <1>0, <1>5, PumpFaces
  <2>2. perm' = perm /\ mail' = mail /\ given' = given
    BY <1>5 DEF Pump, backendVars, callerVars
  <2>3. QED
    BY <1>0, <1>2, <2>1, <2>2
<1>6. CASE UNCHANGED <<vars, backendVars, callerVars>>
  <2>1. UNCHANGED <<ses, at, hand, perm, mail, given>>
    BY <1>6 DEF vars, backendVars, callerVars
  <2>2. QED
    BY <1>2, <2>1 DEF Facing
<1>7. CASE \E q \in TaskRequests : SendTask(q)
  <2>1. mail'.for = None /\ perm' = perm /\ given' = given
    BY <1>7 DEF SendTask, backendVars
  <2>2. QED
    BY <1>2, <2>1
<1>8. CASE \E q \in TaskRequests, r \in ReqId, v \in Decisions : SendAnswer(r, v, q)
  <2>1. PICK q \in TaskRequests, r \in ReqId, v \in Decisions : SendAnswer(r, v, q)
    BY <1>8
  <2>2. /\ given[r] = None /\ r = Shown /\ given' = [given EXCEPT ![r] = v]
        /\ mail'.for = r /\ UNCHANGED <<ses, at, hand, perm>>
    BY <2>1, SentAnswer
  <2>3. perm[r].verdict = None
    BY <1>2, <2>2
  <2>4. Facing(r)
    <3>1. CASE at = "yield" /\ hand.kind = "permission"
      <4>1. hand \in Item /\ r = hand.id
        BY <1>0, <2>2, <3>1 DEF Shown, TypeOK
      <4>2. hand = Request(r)
        BY <3>1, <4>1 DEF Item, Request
      <4>3. QED
        BY <3>1, <4>2 DEF Facing
    <3>2. CASE ~(at = "yield" /\ hand.kind = "permission")
      <4>1. r = ses.last
        BY <2>2, <3>2 DEF Shown
      <4>2. at = "off"
        BY <1>0, <2>3, <4>1 DEF DecisionInv, DrainDecided
      <4>3. QED
        BY <4>1, <4>2 DEF Facing
    <3>3. QED
      BY <3>1, <3>2
  <2>5. \A x \in ReqId : perm[x].verdict # None => given'[x] = given[x]
    BY <1>0, <2>2, <2>3
  <2>6. QED
    BY <1>2, <2>2, <2>3, <2>4, <2>5 DEF Facing
<1>9. CASE mail # None /\ Failed /\ UNCHANGED <<vars, backendVars>>
  <2>1. mail' = None /\ perm' = perm
    BY <1>9 DEF Failed, backendVars
  <2>2. ASSUME NEW r \in ReqId, perm[r].verdict # None PROVE given'[r] = given[r]
    <3>1. mail.for # r \/ mail.for = None
      BY <1>2, <1>9, <2>2
    <3>2. QED
      BY <1>0, <1>9, <3>1 DEF Failed
  <2>3. QED
    BY <1>2, <2>1, <2>2
<1>10. CASE /\ mail # None /\ mail' = [mail EXCEPT !.at = "answering"]
            /\ UNCHANGED <<vars, backendVars, given, repeated>>
  <2>1. mail'.for = mail.for
    BY <1>0, <1>10 DEF Message
  <2>2. UNCHANGED <<ses, at, hand, perm, given>>
    BY <1>10 DEF vars, backendVars
  <2>3. QED
    BY <1>2, <1>10, <2>1, <2>2 DEF Facing
<1>11. CASE StartSession
  <2>1. perm' = perm /\ mail' = None /\ given' = given
    BY <1>11 DEF StartSession, backendVars
  <2>2. QED
    BY <1>2, <2>1
<1>12. CASE Answer
  <2>1. Resolve
    BY <1>12, ExecutorIsConsumer
  <2>2. /\ at = "off" /\ Parked(ses)
        /\ mail # None /\ mail.for # None /\ mail' = None /\ given' = given
        /\ perm' = [perm EXCEPT ![ses.last].verdict = Decision(mail.word)]
    BY <1>12, <2>1 DEF Resolve, Answer, ServiceInv, Reached
  <2>3. ses.last = mail.for
    BY <1>2, <2>2 DEF Facing
  <2>4. given[ses.last] = Decision(mail.word)
    BY <2>2, <2>3 DEF DecisionInv, Carries
  <2>5. ASSUME NEW r \in ReqId, perm'[r].verdict # None PROVE given[r] = perm'[r].verdict
    BY <1>0, <1>2, <2>2, <2>4, <2>5 DEF Permission
  <2>6. QED
    BY <2>2, <2>5
<1>13. QED
  BY <1>4, <1>5, <1>6, <1>7, <1>8, <1>9, <1>10, <1>11, <1>12, StepKinds

(* The agent is told what its caller decided about that very request, or,   *)
(* of a caller that repeats itself, a decision that caller gave; where the  *)
(* words the code takes for approval are those README.md:149 names          *)
(* (executor.py:309-315, acp.py:154-164).                                   *)
THEOREM AgentsHearTheDecision ==
  ASSUME Undocumented = {}
  PROVE  ServiceSpec => []OutcomeMatchesDecision
<1>1. ServiceInit => DecisionInv
  <2> SUFFICES ASSUME ServiceInit PROVE DecisionInv
    OBVIOUS
  <2>1. ses.pending = {} /\ ses.last = None /\ mail = None
    BY DEF ServiceInit, Init, Unborn
  <2>2. \A r \in ReqId : perm[r].verdict = None /\ perm[r].told = None
    BY DEF ServiceInit, BackendsInit, Unasked
  <2>3. QED
    BY <2>1, <2>2 DEF DecisionInv, Followed, Meant, Carries, DrainDecided, FirstHand
<1>2. ServiceInv /\ DecisionInv /\ [ServiceNext]_svars => DecisionInv'
  <2> SUFFICES ASSUME ServiceInv, DecisionInv, [ServiceNext]_svars PROVE DecisionInv'
    OBVIOUS
  <2>1. \A r \in ReqId : Followed(r)' /\ Meant(r)'
    BY FollowedStep, MeantStep
  <2>2. Carries' /\ DrainDecided' /\ FirstHand'
    BY CarriesStep, DrainDecidedStep, FirstHandStep
  <2>3. QED
    BY <2>1, <2>2 DEF DecisionInv
<1>3. ServiceInv /\ DecisionInv => OutcomeMatchesDecision
  <2> SUFFICES ASSUME ServiceInv, DecisionInv, NEW r \in ReqId, perm[r].told # None
               PROVE  \E d \in IF repeated THEN ReqId ELSE {r} :
                        given[d] # None /\ Fits(perm[r].told, given[d], perm[r].opts)
    BY DEF OutcomeMatchesDecision
  <2>1. /\ perm[r].verdict # None
        /\ perm[r].told \in {perm[r].verdict, SelectOption(perm[r].opts, perm[r].verdict)}
    BY DEF DecisionInv, Followed
  <2>2. perm[r].verdict \in Decisions
    BY <2>1 DEF ServiceInv, DriverTypeOK, Permission
  <2>3. Fits(perm[r].told, perm[r].verdict, perm[r].opts)
    <3>1. CASE perm[r].told = perm[r].verdict
      BY <2>2, <3>1 DEF Decisions, Fits
    <3>2. CASE perm[r].told = SelectOption(perm[r].opts, perm[r].verdict)
      BY <2>2, <3>2, SelectedOption DEF Decisions, Allowing, Rejecting, Fits
    <3>3. QED
      BY <2>1, <3>1, <3>2
  <2>4. CASE repeated
    <3>1. PICK d \in ReqId : given[d] # None /\ given[d] = perm[r].verdict
      BY <2>1 DEF DecisionInv, Meant, Sure
    <3>2. QED
      BY <2>3, <2>4, <3>1
  <2>5. CASE ~repeated
    <3>1. given[r] = perm[r].verdict
      BY <2>1, <2>5 DEF DecisionInv, FirstHand
    <3>2. QED
      BY <2>1, <2>3, <2>5, <3>1
  <2>6. QED
    BY <2>4, <2>5
<1>4. QED
  BY <1>1, <1>2, <1>3, ServiceAlways, PTL DEF ServiceSpec
=============================================================================
