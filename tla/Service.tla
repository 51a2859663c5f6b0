------------------------------ MODULE Service ------------------------------
(***************************************************************************)
(* A server from its command line on, one task of a caller, and the agent  *)
(* behind it.  The caller's messages pass the middleware and reach the     *)
(* executor: the first starts the session, and each later one is taken for *)
(* the decision about the request the session is parked on.  Executor.tla  *)
(* has many tasks; this module has what one task's decisions go through.   *)
(***************************************************************************)
EXTENDS Backends, Server, TextFile

CONSTANTS
  Allows,       \* the answers README.md:149 says approve: allow, yes, approve, ok
  Undocumented, \* other answers that approve: y, accept, grant, "allow ..."
  Denies,       \* answers that do not
  Faults        \* of {"loss", "retry", "disconnect", "close"}

ASSUME ServiceAssumption == /\ Denies \cap (Allows \cup Undocumented) = {}
                            /\ Allows \cap Undocumented = {}
                            /\ None \notin {"allow", "deny"}

VARIABLES
  mail,     \* the caller's message under way: the request it answers, or
            \* None for the first, the word, the HTTP request, how far it is,
            \* whether the caller said it before
  given,    \* per request: what the caller decided, unless the caller was told
            \* that it did not get through
  repeated  \* whether the caller ever said a decision again

callerVars == <<mail, given, repeated>>
svars == <<vars, backendVars, up, fileVars, callerVars>>

ServiceInit == /\ Init /\ BackendsInit /\ ServerInit /\ FileInit
               /\ mail = None
               /\ given = [r \in ReqId |-> None]
               /\ repeated = FALSE

\* what goes to the task endpoints
TaskRequests == {q \in Requests : q.type = "http" /\ ~q.public}

\* what a caller says by an answer: README.md:149, "anything else denies"
Wordings(v) == IF v = "allow" THEN Allows ELSE Undocumented \cup Denies

-----------------------------------------------------------------------------
(* The caller.                                                             *)

\* the request shown last: while it is published, and from then on
Shown == IF at = "yield" /\ hand.kind = "permission" THEN hand.id ELSE ses.last

SendTask(q) == /\ up.at = "up" /\ mail = None /\ ses.runner = "none"
               /\ mail' = [for |-> None, word |-> None, q |-> q, at |-> "sent",
                           again |-> FALSE]
               /\ UNCHANGED <<vars, backendVars, up, fileVars, given, repeated>>

\* a caller decides about the request it is shown; with retries it may say
\* again what it said about that request or an earlier one
SendAnswer(r, v, q) ==
  /\ up.at = "up" /\ mail = None
  /\ IF given[r] = None
       THEN r = Shown /\ UNCHANGED repeated
       ELSE "retry" \in Faults /\ given[r] = v /\ repeated' = TRUE
  /\ \E w \in Wordings(v) : mail' = [for |-> r, word |-> w, q |-> q, at |-> "sent",
                                    again |-> given[r] # None]
  /\ given' = [given EXCEPT ![r] = v]
  /\ UNCHANGED <<vars, backendVars, up, fileVars>>

\* the message is over, and the caller was told that it failed; of a decision
\* said again it knows that it got through before
Failed == /\ mail' = None
          /\ given' = IF mail.for = None \/ mail.again
                        THEN given ELSE [given EXCEPT ![mail.for] = None]
          /\ UNCHANGED repeated

\* lost, or answered 401
Turn(m) == \/ "loss" \in Faults
           \/ ~Passes(m.q)
NotDelivered == /\ mail # None /\ mail.at = "sent" /\ Turn(mail)
                /\ Failed
                /\ UNCHANGED <<vars, backendVars, up, fileVars>>

-----------------------------------------------------------------------------
(* The executor's part.                                                    *)

\* execute() of the first message
StartSession == /\ mail # None /\ mail.at = "sent" /\ mail.for = None /\ Passes(mail.q)
                /\ ses' = Started
                /\ at' = "get"
                /\ mail' = None
                /\ UNCHANGED <<hand, closing, backendVars, up, fileVars, given, repeated>>

\* execute() of a later one: refused unless the session is parked
FollowUp == /\ mail # None /\ mail.at = "sent" /\ mail.for # None /\ Passes(mail.q)
            /\ IF Parked(ses)
                 THEN /\ mail' = [mail EXCEPT !.at = "answering"]
                      /\ UNCHANGED <<given, repeated>>
                 ELSE Failed
            /\ UNCHANGED <<vars, backendVars, up, fileVars>>

\* _decision(): _ALLOW_WORDS, and whatever begins with "allow"
Decision(w) == IF w \in Allows \cup Undocumented THEN "allow" ELSE "deny"

\* mutant: resolve() of a request that is gone does nothing
Answer_Blind == /\ mail # None /\ mail.at = "answering"
                /\ ses' = Resolved(ses, ses.last)
                /\ at' = "get"
                /\ mail' = None
                /\ UNCHANGED <<hand, closing, backendVars, up, fileVars, given, repeated>>

\* start_work() is over: resolve() pops the future of the request surfaced
\* last, whichever request the caller meant, and the pump drains again
Answer == /\ mail # None /\ mail.at = "answering" /\ ses.last \in ses.pending
          /\ ses' = Resolved(ses, ses.last)
          /\ perm' = [perm EXCEPT ![ses.last].verdict = Decision(mail.word)]
          /\ at' = "get"
          /\ mail' = None
          /\ UNCHANGED <<hand, closing, drv, up, fileVars, given, repeated>>

\* resolve() finds no future: the session was closed meanwhile
AnswerTooLate == /\ mail # None /\ mail.at = "answering"
                 /\ ses.last \notin ses.pending
                 /\ Failed
                 /\ UNCHANGED <<vars, backendVars, up, fileVars>>

\* the pump, and those who abort or close the session
Pump == /\ \/ Take \/ TakeEnd \/ Resume
           \/ "disconnect" \in Faults /\ Abort
           \/ "close" \in Faults /\ (Close \/ CloseFinished)
           \/ FinishClose
        /\ UNCHANGED <<backendVars, up, fileVars, callerVars>>

-----------------------------------------------------------------------------
Begun == BeginDriver(up.opts.backend) \/ Driver

\* the agent's file requests need its connection; the threads do not
Files == /\ \/ drv.files /\ drv.at = "prompt" /\ Open /\ FileRequest
            \/ FileWork
         /\ UNCHANGED <<vars, backendVars, up, callerVars>>

ServiceNext ==
  \/ Serve /\ UNCHANGED <<vars, backendVars, fileVars, callerVars>>
  \/ \E q \in TaskRequests : \/ SendTask(q)
                             \/ \E r \in ReqId, v \in {"allow", "deny"} : SendAnswer(r, v, q)
  \/ NotDelivered \/ StartSession \/ FollowUp \/ Answer \/ AnswerTooLate
  \/ Pump
  \/ Begun /\ UNCHANGED <<up, fileVars, callerVars>>
  \/ Files

ServiceSpec == ServiceInit /\ [][ServiceNext]_svars

-----------------------------------------------------------------------------
(* The session behind the server is used as a session: the executor starts *)
(* it once and enters drain() again only where nobody else drains it, no   *)
(* driver asks with an id something still holds, and none reports a second *)
(* Result.  None of these is a guard here: they follow from where the      *)
(* caller's message and the driver's code are (executor.py:171-178,        *)
(* backends/session.py:76-95, backends/base.py:8-11).                      *)
ImplementsSession == Spec

(* The agent is told what the caller decided about that very request: what *)
(* the caller allowed is allowed, once rather than for ever where the      *)
(* agent offers that; and what it did not allow is never allowed.  With no *)
(* option that fits, the request is cancelled.  What a caller says is what *)
(* README.md:149 tells it.  Of a caller that says a decision again, only   *)
(* this much holds: what the agent is told is a decision it gave about     *)
(* some request (README.md:149-151, executor.py:309-315, acp.py:76-83,     *)
(* 154-164).                                                               *)
Fits(told, v, opts) ==
  IF v = "deny"
    THEN told \in Rejecting \cup {"deny", "cancelled"}
    ELSE \/ told \in {"allow", "allow_once"}
         \/ told = "allow_always" /\ "allow_once" \notin opts
         \/ told = "cancelled" /\ opts \cap Allowing = {}
OutcomeMatchesDecision ==
  \A r \in ReqId : perm[r].told # None =>
    \E d \in IF repeated THEN ReqId ELSE {r} :
      given[d] # None /\ Fits(perm[r].told, given[d], perm[r].opts)

(* A session is started, and a request decided, by nobody who did not      *)
(* present the configured token (auth.py:3-7).                             *)
ActedOn == \/ ses.runner = "none" /\ ses'.runner # "none"
           \/ \E r \in ReqId : perm'[r].verdict # perm[r].verdict
OnlyCallersAct ==
  [][ActedOn => \/ up.opts.token = None
                \/ \E i \in DOMAIN mail.q.auth : mail.q.auth[i] = Bearer(up.opts.token)]_svars
=============================================================================
