--------------------------- MODULE ResponseStream ---------------------------
(***************************************************************************)
(* The response stream of one task (executor.py, _Stream and the flushes   *)
(* of _pump), from its first pump over the pauses for permission to the    *)
(* end of its run.  A chunk is held back until the next one comes, so that *)
(* the last one can be sent with last_chunk.  Each value of at is an await *)
(* of the task's call, or the state it left the task in.                   *)
(*                                                                         *)
(* tasks/cancel and an eviction drop the run at any await: its session is  *)
(* closed and popped from _live, its stream from _streams, and the call    *)
(* goes on with the objects it holds.  BOUND: one run of a task that had   *)
(* no stream before, and one call of it at a time; a message that comes    *)
(* when the run is paused and dropped starts another run.                  *)
(***************************************************************************)
EXTENDS Naturals, Sequences

CONSTANTS
  Chunk,     \* texts a backend emits, never empty
  Meta,      \* run metadata a Result carries
  None,
  MaxChunks  \* BOUND: chunks sent before a driver falls silent

ASSUME StreamAssumption == None \notin Chunk \cup Meta /\ MaxChunks \in Nat

VARIABLES
  at,        \* where the call is
  stream,    \* the _Stream the pump works with
  hand,      \* the text of the event being handled while a flush goes out
  artifact,  \* the artifact of that stream as the caller assembles it
  earlier,   \* the artifact of the stream it replaced
  answer,    \* the message of the completion
  fate       \* live, or why the run was dropped

vars == <<at, stream, hand, artifact, earlier, answer, fate>>

Places == {"get", "text", "event", "ask", "prompt", "last", "close",
           "complete", "fail", "answer",
           "paused", "completed", "failed", "gone"}
Ended  == {"completed", "failed", "gone"}
Fates  == {"live", "cancelled", "evicted"}

Stream == [chunks : Seq(Chunk), pending : Chunk \cup {None}, sent : BOOLEAN,
           metadata : Meta \cup {None}]
NewStream == [chunks |-> << >>, pending |-> None, sent |-> FALSE,
              metadata |-> None]

Artifact == [parts : Seq(Chunk), state : {"absent", "open", "closed"}]
NoArtifact == [parts |-> << >>, state |-> "absent"]

Init == /\ at = "get"
        /\ stream = NewStream
        /\ hand = None
        /\ artifact = NoArtifact /\ earlier = NoArtifact
        /\ answer = None
        /\ fate = "live"

-----------------------------------------------------------------------------
\* The first chunk makes the artifact, the others are appended to it; one
\* appended to an artifact that is not there is dropped.
Assembled(a, text, append, last) ==
  IF append /\ a.state = "absent" THEN a
  ELSE [parts |-> IF append THEN a.parts \o text ELSE text,
        state |-> IF last THEN "closed" ELSE "open"]

\* mutant: sent_first is never set
Flush_Reopens(x, text, last) ==
  /\ artifact' = Assembled(artifact, text, stream.sent, last)
  /\ stream' = x

\* flush(text, last): artifact and sent_first, the stream being x otherwise
Flush(x, text, last) ==
  /\ artifact' = Assembled(artifact, text, stream.sent, last)
  /\ stream' = [x EXCEPT !.sent = TRUE]

\* stream.chunks.append(stream.pending), before the await of the flush
Collected == [stream EXCEPT !.chunks = Append(@, stream.pending)]
Holding   == stream.pending # None

TakeText ==
  /\ at = "get" /\ Len(stream.chunks) < MaxChunks
  /\ \E c \in Chunk :
       \/ /\ ~Holding
          /\ stream' = [stream EXCEPT !.pending = c]
          /\ UNCHANGED <<at, hand>>
       \/ /\ Holding
          /\ stream' = Collected
          /\ at' = "text" /\ hand' = c
  /\ UNCHANGED <<artifact, earlier, answer, fate>>

FlushText ==
  /\ at = "text"
  /\ Flush([stream EXCEPT !.pending = hand], <<stream.pending>>, FALSE)
  /\ at' = "get" /\ hand' = None
  /\ UNCHANGED <<earlier, answer, fate>>

\* a tool status or a diff passes the text held back
TakeEvent == /\ at = "get"
             /\ at' = "event"
             /\ UNCHANGED <<stream, hand, artifact, earlier, answer, fate>>

PublishEvent == /\ at = "event"
                /\ at' = "get"
                /\ UNCHANGED <<stream, hand, artifact, earlier, answer, fate>>

TakeResult ==
  /\ at = "get"
  /\ \E m \in Meta : stream' = [stream EXCEPT !.metadata = m]
  /\ UNCHANGED <<at, hand, artifact, earlier, answer, fate>>

\* mutant: stream.pending is not tested
TakeRequest_Untested ==
  /\ at = "get"
  /\ at' = "ask" /\ stream' = Collected
  /\ UNCHANGED <<hand, artifact, earlier, answer, fate>>

TakeRequest ==
  /\ at = "get"
  /\ \/ Holding /\ at' = "ask" /\ stream' = Collected
     \/ ~Holding /\ at' = "prompt" /\ stream' = stream
  /\ UNCHANGED <<hand, artifact, earlier, answer, fate>>

\* mutant: the artifact is closed by the pause
FlushForRequest_Last ==
  /\ at = "ask"
  /\ Flush([stream EXCEPT !.pending = None], <<stream.pending>>, TRUE)
  /\ at' = "prompt"
  /\ UNCHANGED <<hand, earlier, answer, fate>>

FlushForRequest ==
  /\ at = "ask"
  /\ Flush([stream EXCEPT !.pending = None], <<stream.pending>>, FALSE)
  /\ at' = "prompt"
  /\ UNCHANGED <<hand, earlier, answer, fate>>

\* requires_input is published, the drain ends and the pump returns
Prompt == /\ at = "prompt"
          /\ at' = "paused"
          /\ UNCHANGED <<stream, hand, artifact, earlier, answer, fate>>

\* the caller's decision comes while the session is registered and parked
FollowUp == /\ at = "paused" /\ fate = "live"
            /\ at' = "answer"
            /\ UNCHANGED <<stream, hand, artifact, earlier, answer, fate>>

\* start_work() is over.  If the run was dropped meanwhile, resolve() finds
\* the withdrawn request and the pump makes the stream anew, or it finds
\* none and raises out of the call.
Answer ==
  /\ at = "answer"
  /\ \/ /\ fate = "live" /\ at' = "get"
        /\ UNCHANGED <<stream, artifact, earlier>>
     \/ /\ fate # "live" /\ at' = "get"
        /\ stream' = NewStream
        /\ artifact' = NoArtifact /\ earlier' = artifact
     \/ /\ fate # "live" /\ at' = "gone"
        /\ UNCHANGED <<stream, artifact, earlier>>
  /\ UNCHANGED <<hand, answer, fate>>

\* cancel(), or an eviction by another call, while the run is registered
Drop == /\ at \notin Ended \cup {"complete", "fail"} /\ fate = "live"
        /\ fate' \in Fates \ {"live"}
        /\ UNCHANGED <<at, stream, hand, artifact, earlier, answer>>

-----------------------------------------------------------------------------
\* mutant: an artifact without new text in the last turn is not closed
TakeDone_LeavesOpen ==
  /\ at = "get" /\ fate # "evicted"
  /\ \/ Holding /\ at' = "last" /\ stream' = Collected
     \/ ~Holding /\ at' = "complete" /\ stream' = stream
  /\ UNCHANGED <<hand, artifact, earlier, answer, fate>>

\* the run is over and was not evicted
TakeDone ==
  /\ at = "get" /\ fate # "evicted"
  /\ \/ Holding /\ at' = "last" /\ stream' = Collected
     \/ ~Holding /\ stream.sent /\ at' = "close" /\ stream' = stream
     \/ ~Holding /\ ~stream.sent /\ at' = "complete" /\ stream' = stream
  /\ UNCHANGED <<hand, artifact, earlier, answer, fate>>

FlushLast == /\ at = "last"
             /\ Flush(stream, <<stream.pending>>, TRUE)
             /\ at' = "complete"
             /\ UNCHANGED <<hand, earlier, answer, fate>>

\* flush("", last=True)
CloseArtifact == /\ at = "close"
                 /\ Flush(stream, << >>, TRUE)
                 /\ at' = "complete"
                 /\ UNCHANGED <<hand, earlier, answer, fate>>

Complete == /\ at = "complete"
            /\ answer' = [text |-> stream.chunks, meta |-> stream.metadata]
            /\ at' = "completed"
            /\ UNCHANGED <<stream, hand, artifact, earlier, fate>>

\* the driver raised, or the sentinel came after an eviction
TakeFailure == /\ at = "get"
               /\ at' = "fail"
               /\ UNCHANGED <<stream, hand, artifact, earlier, answer, fate>>

Fail == /\ at = "fail"
        /\ at' = "failed"
        /\ UNCHANGED <<stream, hand, artifact, earlier, answer, fate>>

\* The call is cancelled at its await.  Before the pump this leaves the task
\* as it was; after the last event the run is over anyhow.
Leave == /\ at \notin Ended \cup {"paused"}
         /\ at' = IF at = "answer" THEN "paused" ELSE "gone"
         /\ hand' = None
         /\ UNCHANGED <<stream, artifact, earlier, answer, fate>>

-----------------------------------------------------------------------------
Next == \/ TakeText \/ FlushText \/ TakeEvent \/ PublishEvent \/ TakeResult
        \/ TakeRequest \/ FlushForRequest \/ Prompt \/ FollowUp \/ Answer \/ Drop
        \/ TakeDone \/ FlushLast \/ CloseArtifact \/ Complete
        \/ TakeFailure \/ Fail \/ Leave

Spec == Init /\ [][Next]_vars

-----------------------------------------------------------------------------
(* Every variable keeps its type, and what an await needs is there         *)
(* (executor.py:55-63, 189-228).                                           *)
TypeOK ==
  /\ at \in Places
  /\ stream \in Stream
  /\ hand \in Chunk \cup {None}
  /\ artifact \in Artifact /\ earlier \in Artifact
  /\ answer \in [text : Seq(Chunk), meta : Meta \cup {None}] \cup {None}
  /\ fate \in Fates
  /\ at \in {"text", "ask", "last"} => Holding
  /\ at = "text" <=> hand # None

(* A task that completes, after any number of pauses, has closed the       *)
(* response artifact: "close the artifact so it is not left without a final*)
(* chunk" (executor.py:191-199, 263-269).  With one exception, which the   *)
(* code has: if tasks/cancel drops the run while the caller's answer waits *)
(* in start_work() (175, 282), the pump goes on with a new stream (189),   *)
(* and the artifact of the old one stays open.  An eviction at that point  *)
(* makes the task fail, and nothing else leaves an artifact open.          *)
ClosedAtEnd ==
  at = "completed" =>
    /\ artifact.state = IF artifact.parts = << >> THEN "absent" ELSE "closed"
    /\ earlier.state = "open" => fate = "cancelled"

(* Nothing is sent for an artifact after its last chunk                    *)
(* (executor.py:191-199).                                                  *)
NothingAfterLast == [][artifact.state = "closed" => UNCHANGED artifact]_vars

-----------------------------------------------------------------------------
(* The text of a run, as the caller sees it.                               *)

Sent  == {"complete", "completed"}  \* the last chunk went out, and is still held
Rest  == IF at \in Sent \cup {"fail", "failed", "gone"} \/ ~Holding THEN << >>
         ELSE IF at = "text" THEN <<stream.pending, hand>> ELSE <<stream.pending>>

Phase == CASE at \in {"paused", "answer"}         -> "asking"
           [] at = "completed"                   -> "completed"
           [] at \in {"fail", "failed", "gone"}  -> "failed"
           [] OTHER                              -> "running"

Text == INSTANCE ResponseText
          WITH rest <- Rest, shown <- artifact.parts, meta <- stream.metadata,
               phase <- Phase, answer <- answer, dropped <- fate # "live"

(* Whatever the order of events, pauses, drops and failures, the caller    *)
(* reads every chunk once and in order, all of them before it is asked for *)
(* a decision and before its task completes, and the completion repeats    *)
(* them: "the response stays a single artifact and the completion text is  *)
(* whole" (executor.py:187-228, 247-277).  Of a run that is cancelled or   *)
(* evicted between its caller's answer and the pump this holds only from   *)
(* there on: its completion does not repeat what the caller read before.   *)
(* Otherwise nothing that was shown is ever left out.                      *)
ImplementsText == Text!Spec
=============================================================================
