------------------------------ MODULE Backends ------------------------------
(***************************************************************************)
(* The three drivers a session may run: EchoBackend, ClaudeBackend and     *)
(* ACPBackend, with the agent each of them talks to and the callbacks      *)
(* through which the agent asks for permission.  A driver has the effects  *)
(* of SessionOps on its session, under its own guards: what it may do is   *)
(* where it is in its code, and that its runner is not over; that this     *)
(* keeps to the session's rules is a result (Service!ImplementsSession).   *)
(* An await of emit() never suspends; its events are still queued one step *)
(* at a time here.                                                         *)
(***************************************************************************)
EXTENDS BackendSession

CONSTANTS
  Blocks,      \* BOUND: content blocks the assistant may send
  Messages,    \* BOUND: messages the Claude client may receive
  Updates,     \* BOUND: session updates an ACP agent may send
  OptionSets,  \* BOUND: the kinds of option an ACP request may offer
  MaxReceived  \* BOUND: messages, updates and requests received in one run

Allowing  == {"allow_once", "allow_always"}
Rejecting == {"reject_once", "reject_always"}

ASSUME BackendsAssumption ==
  /\ EventKinds = {"text", "tool", "file"}
  /\ Messages \subseteq [result : BOOLEAN, blocks : Seq(Blocks)]
  /\ \A u \in Updates : u.update \in {"start", "progress"} =>
                         u.content \in Seq({"diff", "other"})
  /\ OptionSets \subseteq SUBSET (Allowing \cup Rejecting)
  /\ MaxReceived \in Nat
  \* every request waits in a flow of its own, beside the driver's
  /\ Flows > 1 /\ IsFiniteSet(ReqId) /\ Cardinality(ReqId) < Flows

VARIABLES
  drv,   \* the driver: its name, the await it is at, the events and the
         \* blocks it has yet to emit of what it received, how much it may
         \* still receive, whether its agent uses files.
         \* BOUND: an ACP agent that uses files does nothing else
  perm   \* per request: the options offered, the decision, what the agent
         \* was told

backendVars == <<drv, perm>>

\* an id is uuid4().hex: no two requests of a run share one
Unasked == [asked |-> FALSE, opts |-> {}, verdict |-> None, told |-> None]

BackendsInit == /\ drv = [name |-> None, at |-> "off", todo |-> << >>,
                          blocks |-> << >>, left |-> 0, files |-> FALSE]
                /\ perm = [r \in ReqId |-> Unasked]

-----------------------------------------------------------------------------
(* Translation: what is received, as the kinds of event it becomes.        *)

\* file_changes(): the tool edits a named file, and some edit of it that is
\* not malformed changes the text; edits that are no list count as none
FileChanges(t) ==
  IF t.name \in {"Write", "Edit", "MultiEdit"} /\ t.path
     /\ \E i \in DOMAIN t.edits : t.edits[i] = "changes"
    THEN <<"file">> ELSE << >>

EventsFromBlock(b) == CASE b.block = "text" -> <<"text">>
                        [] b.block = "tool" -> <<"tool">> \o FileChanges(b)
                        [] OTHER            -> << >>

\* one change per diff in a tool call's content
DiffEvents(content) == [i \in 1..Cardinality({j \in DOMAIN content : content[j] = "diff"})
                          |-> "file"]

EventsFromUpdate(u) == CASE u.update = "text"     -> <<"text">>
                         [] u.update = "start"    -> <<"tool">> \o DiffEvents(u.content)
                         [] u.update = "progress" -> DiffEvents(u.content)
                         [] OTHER                 -> << >>

\* mutant: the sticky option is preferred
SelectOption_Sticky(opts, v) ==
  LET fit == opts \cap (IF v = "allow" THEN Allowing ELSE Rejecting)
      ever == fit \cap {"allow_always", "reject_always"}
  IN  IF fit = {} THEN "cancelled"
      ELSE CHOOSE k \in fit : ever = {} \/ k \in ever

\* select_option(): a one-shot option of the decision's polarity, else a
\* sticky one; with neither, the request is cancelled
SelectOption(opts, v) ==
  LET fit == opts \cap (IF v = "allow" THEN Allowing ELSE Rejecting)
      one == fit \cap {"allow_once", "reject_once"}
  IN  IF fit = {} THEN "cancelled"
      ELSE CHOOSE k \in fit : one = {} \/ k \in one

-----------------------------------------------------------------------------
(* Steps every driver takes.                                               *)

Open == ses.runner \in {"running", "reported", "cancelling"}
InDriver == ses.runner \in {"running", "reported"}
Quiet == drv.todo = << >> /\ drv.blocks = << >>
Goto(place) == drv' = [drv EXCEPT !.at = place]
Received(events) == drv' = [drv EXCEPT !.todo = events, !.left = @ - 1]

\* start() runs drive(): the first await of each driver
BeginDriver(name) ==
  /\ Begin
  /\ \E files \in BOOLEAN : (files => name = "acp") /\
     drv' = [name |-> name, files |-> files, left |-> IF files THEN 0 ELSE MaxReceived,
              at   |-> CASE name = "echo"   -> "greet"
                         [] name = "claude" -> "connect"
                         [] name = "acp"    -> "initialize",
              blocks |-> << >>,
              todo |-> IF name = "echo" THEN <<"tool">> ELSE << >>]
  /\ UNCHANGED perm

\* the next event of what was received; only the reader of an ACP connection
\* goes on while the driver is being cancelled
EmitNext ==
  /\ drv.todo # << >>
  /\ InDriver \/ (ses.runner = "cancelling" /\ drv.name = "acp")
  /\ IF Head(drv.todo) = "result"
       THEN ses' = Reported(ses)
       ELSE Len(ses.queue) < QueueBound /\ ses' = Emitted(ses, Head(drv.todo))
  /\ drv' = [drv EXCEPT !.todo = Tail(@)]
  /\ UNCHANGED <<at, hand, closing, perm>>

AskPermission(r, opts) ==
  /\ Open /\ Quiet /\ drv.left > 0 /\ ~perm[r].asked
  /\ ses' = Asked(ses, r)
  /\ UNCHANGED <<at, hand, closing>>
  /\ perm' = [perm EXCEPT ![r].asked = TRUE, ![r].opts = opts]

\* the future of request r was resolved, and the flow that waits for it runs
Answered(r) == perm[r].verdict # None /\ perm[r].told = None
Tell(r, outcome) == /\ Answered(r)
                    /\ perm' = [perm EXCEPT ![r].told = outcome]
                    /\ UNCHANGED <<ses, at, hand, closing>>

ReturnDriver == /\ InDriver /\ Quiet /\ drv.at \in {"return", "receive"}
                /\ ses' = Ended(ses, "returned")
                /\ UNCHANGED <<at, hand, closing, backendVars>>

\* the agent or its connection fails; echo talks to nobody
RaiseDriver == /\ InDriver /\ drv.name # "echo"
               /\ ses' = Ended(ses, "raised")
               /\ UNCHANGED <<at, hand, closing, backendVars>>

UnwindDriver == /\ Unwind
                /\ drv.name = "echo" => ses'.runner = "cancelled"
                /\ UNCHANGED backendVars

-----------------------------------------------------------------------------
(* EchoBackend: a tool status, a request if the prompt says sudo, the words *)
(* of the prompt or a refusal, the Result.                                 *)

\* a prompt with sudo in it has a word
Said(least) == {[i \in 1..n + 1 |-> IF i <= n THEN "text" ELSE "result"] :
                  n \in least..MaxReceived}

EchoSpeak == /\ drv.name = "echo" /\ drv.at = "greet" /\ Quiet
             /\ ses.runner = "running"
             /\ \E t \in Said(0) : drv' = [drv EXCEPT !.at = "return", !.todo = t]
             /\ UNCHANGED <<ses, at, hand, closing, perm>>

EchoAsk(r) == /\ drv.name = "echo" /\ drv.at = "greet"
              /\ ses.runner = "running"
              /\ AskPermission(r, {})
              /\ Goto("wait")

EchoAnswered(r) ==
  /\ drv.name = "echo" /\ drv.at = "wait" /\ ses.runner = "running"
  /\ Tell(r, perm[r].verdict)
  /\ \E t \in Said(1) :
       drv' = [drv EXCEPT !.at = "return",
                 !.todo = IF perm[r].verdict = "allow" THEN t ELSE <<"text", "result">>]

-----------------------------------------------------------------------------
(* ClaudeBackend: connect and query, then emit what is received until the  *)
(* response ends; can_use_tool runs beside that.                           *)

ClaudeConnect == /\ drv.at = "connect" /\ ses.runner = "running"
                 /\ Goto("receive")
                 /\ UNCHANGED <<ses, at, hand, closing, perm>>

\* a message of the assistant, or the one that ends the response
ClaudeReceive ==
  /\ drv.name = "claude" /\ drv.at = "receive" /\ Quiet /\ drv.left > 0
  /\ ses.runner = "running"
  /\ \E m \in Messages :
       drv' = IF m.result
                THEN [drv EXCEPT !.at = "return", !.todo = <<"result">>, !.left = @ - 1]
                ELSE [drv EXCEPT !.blocks = m.blocks, !.left = @ - 1]
  /\ UNCHANGED <<ses, at, hand, closing, perm>>

\* the next block of the message
ClaudeBlock ==
  /\ drv.blocks # << >> /\ drv.todo = << >> /\ ses.runner = "running"
  /\ drv' = [drv EXCEPT !.todo = EventsFromBlock(Head(drv.blocks)), !.blocks = Tail(@)]
  /\ UNCHANGED <<ses, at, hand, closing, perm>>

ClaudeAsk(r) == /\ drv.name = "claude" /\ drv.at \in {"receive", "return"}
                /\ AskPermission(r, {})
                /\ Received(<< >>)

ClaudeAnswered(r) == /\ drv.name = "claude" /\ Open
                     /\ Tell(r, perm[r].verdict)
                     /\ UNCHANGED drv

-----------------------------------------------------------------------------
(* ACPBackend: start the agent, load or open a conversation, prompt it.    *)
(* Updates and requests come on the reader of the connection, from the     *)
(* opening on; a loaded conversation may be replayed as updates.           *)

AcpInitialized == /\ drv.at = "initialize" /\ ses.runner = "running"
                  /\ Goto("open")
                  /\ UNCHANGED <<ses, at, hand, closing, perm>>

AcpOpened == /\ drv.at = "open" /\ Quiet /\ ses.runner = "running"
             /\ Goto("prompt")
             /\ UNCHANGED <<ses, at, hand, closing, perm>>

AcpUpdate ==
  /\ drv.name = "acp" /\ drv.at \in {"open", "prompt", "return"} /\ Open
  /\ Quiet /\ drv.left > 0
  /\ \E u \in Updates : Received(EventsFromUpdate(u))
  /\ UNCHANGED <<ses, at, hand, closing, perm>>

\* the prompt's response: the Result
AcpResponse == /\ drv.at = "prompt" /\ Quiet /\ ses.runner = "running"
               /\ ses' = Reported(ses)
               /\ Goto("return")
               /\ UNCHANGED <<at, hand, closing, perm>>

AcpAsk(r) == /\ drv.name = "acp" /\ drv.at \in {"prompt", "return"}
             /\ \E opts \in OptionSets : AskPermission(r, opts)
             /\ Received(<< >>)

AcpAnswered(r) == /\ drv.name = "acp" /\ Open
                  /\ Tell(r, SelectOption(perm[r].opts, perm[r].verdict))
                  /\ UNCHANGED drv

-----------------------------------------------------------------------------
Driver ==
  \/ EmitNext \/ ReturnDriver \/ RaiseDriver \/ UnwindDriver
  \/ DropUnstarted /\ UNCHANGED backendVars
  \/ EchoSpeak \/ ClaudeConnect \/ ClaudeReceive \/ ClaudeBlock
  \/ AcpInitialized \/ AcpOpened \/ AcpUpdate \/ AcpResponse
  \/ \E r \in ReqId : \/ EchoAsk(r) \/ EchoAnswered(r)
                      \/ ClaudeAsk(r) \/ ClaudeAnswered(r)
                      \/ AcpAsk(r) \/ AcpAnswered(r)
=============================================================================
