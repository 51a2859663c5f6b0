------------------------ MODULE ResponseStreamProofs ------------------------
(* The response stream shows the caller the text of the run: ResponseStream  *)
(* implements ResponseText, for all texts, metadata and numbers of chunks.   *)
EXTENDS ResponseStream, TLAPS

(* The inductive invariant.  What was collected is what the caller has, but  *)
(* for the chunk a flush is sending; text is held back nowhere else; the     *)
(* artifact is there once something was sent, and closed at the end only.    *)
(* An artifact was replaced only in a run that was dropped, and after its    *)
(* last event only in one that was cancelled.                                *)
Flushing == {"text", "ask", "last"}
Silent   == {"prompt", "paused", "answer", "close"}
Ending   == {"last", "close"} \cup Sent

StreamInvariant ==
  /\ TypeOK
  /\ stream.sent <=> artifact.state # "absent"
  /\ artifact.state = "absent" <=> artifact.parts = << >>
  /\ at \notin Flushing \cup {"gone"} => stream.chunks = artifact.parts
  /\ at \in Flushing => stream.chunks = Append(artifact.parts, stream.pending)
  /\ at \in Silent => ~Holding
  /\ at = "close" => stream.sent
  /\ artifact.state = "closed" => at \in Sent \cup {"gone"}
  /\ at \in Sent => artifact.state # "open"
  /\ earlier.state = "open" => fate # "live"
  /\ at \in Ending /\ earlier.state = "open" => fate = "cancelled"

-----------------------------------------------------------------------------
(* A chunk that is sent ends up at the end of the artifact                   *)
(* (executor.py:191-199).                                                    *)
LEMMA AppendOne ==
  ASSUME NEW q \in Seq(Chunk), NEW c \in Chunk
  PROVE  /\ q \o <<c>> = Append(q, c)
         /\ Append(q, c) \in Seq(Chunk)
         /\ Append(q, c) # << >>
OBVIOUS

(* flush() of the text held back, whatever else of the stream x changes      *)
(* (executor.py:191-199).                                                    *)
LEMMA FlushEffect ==
  ASSUME StreamInvariant, NEW c \in Chunk, NEW last \in BOOLEAN, NEW x \in Stream,
         Flush(x, <<c>>, last)
  PROVE  /\ artifact' = [parts |-> Append(artifact.parts, c),
                         state |-> IF last THEN "closed" ELSE "open"]
         /\ artifact' \in Artifact
         /\ artifact'.parts = Append(artifact.parts, c)
         /\ artifact'.parts # << >>
         /\ stream' = [x EXCEPT !.sent = TRUE]
         /\ stream' \in Stream
<1>1. artifact.parts \in Seq(Chunk)
  BY DEF StreamInvariant, TypeOK, Artifact
<1>2. /\ artifact.parts \o <<c>> = Append(artifact.parts, c)
      /\ Append(artifact.parts, c) \in Seq(Chunk)
      /\ Append(artifact.parts, c) # << >>
  BY <1>1, AppendOne
<1>3. ~stream.sent => <<c>> = Append(artifact.parts, c)
  BY DEF StreamInvariant
<1>4. artifact' = [parts |-> Append(artifact.parts, c),
                   state |-> IF last THEN "closed" ELSE "open"]
  BY <1>2, <1>3 DEF Flush, Assembled, StreamInvariant
<1>5. stream' = [x EXCEPT !.sent = TRUE] /\ stream' \in Stream
  BY DEF Flush, Stream
<1>6. artifact'.parts = Append(artifact.parts, c)
  BY <1>4
<1>7. QED
  BY <1>2, <1>4, <1>5, <1>6 DEF Artifact

(* The text held back is collected before it is sent (executor.py:205, 222,  *)
(* 264).                                                                     *)
LEMMA CollectedEffect ==
  ASSUME StreamInvariant, Holding
  PROVE  /\ Collected \in Stream
         /\ Collected.chunks = Append(stream.chunks, stream.pending)
         /\ Collected.pending = stream.pending
         /\ Collected.sent = stream.sent
         /\ Collected.metadata = stream.metadata
         /\ stream.pending \in Chunk
<1>1. stream.chunks \in Seq(Chunk) /\ stream.pending \in Chunk
  BY DEF StreamInvariant, TypeOK, Stream, Holding
<1>2. Append(stream.chunks, stream.pending) \in Seq(Chunk)
  BY <1>1
<1>3. QED
  BY <1>1, <1>2 DEF StreamInvariant, TypeOK, Stream, Collected

-----------------------------------------------------------------------------
(* The invariant, action by action.                                          *)

(* Before the first event nothing was said or sent (executor.py:187-189).    *)
LEMMA InitInvariant == Init => StreamInvariant
BY DEF Init, StreamInvariant, TypeOK, NewStream, NoArtifact, Stream, Artifact,
       Places, Flushing, Silent, Sent, Ending, Fates, Holding

(* An event is taken from the drain (executor.py:202-229).                   *)
LEMMA TakeInvariant ==
  ASSUME StreamInvariant, StreamAssumption,
         TakeText \/ TakeEvent \/ TakeResult \/ TakeRequest \/ TakeDone \/ TakeFailure
  PROVE  StreamInvariant'
<1>1. CASE TakeText
  <2>1. PICK c \in Chunk :
          \/ /\ ~Holding /\ stream' = [stream EXCEPT !.pending = c]
             /\ UNCHANGED <<at, hand>>
          \/ /\ Holding /\ stream' = Collected
             /\ at' = "text" /\ hand' = c
    BY <1>1 DEF TakeText
  <2>2. at = "get" /\ UNCHANGED <<artifact, earlier, answer, fate>> /\ c # None
    BY <1>1 DEF TakeText, StreamAssumption
  <2>3. CASE ~Holding
    <3>1. stream' = [stream EXCEPT !.pending = c] /\ UNCHANGED <<at, hand>>
      BY <2>1, <2>3
    <3>2. stream' \in Stream
      BY <3>1 DEF StreamInvariant, TypeOK, Stream
    <3>3. stream'.sent = stream.sent /\ stream'.chunks = stream.chunks
      BY <3>1 DEF StreamInvariant, TypeOK, Stream
    <3>4. QED
      BY <2>2, <3>1, <3>2, <3>3
      DEF StreamInvariant, TypeOK, Flushing, Silent, Sent, Ending, Fates, Holding
  <2>4. CASE Holding
    BY <2>1, <2>2, <2>4, CollectedEffect
    DEF StreamInvariant, TypeOK, Places, Flushing, Silent, Sent, Ending, Fates, Holding
  <2>5. QED
    BY <2>3, <2>4
<1>2. CASE TakeResult
  <2>1. PICK m \in Meta : stream' = [stream EXCEPT !.metadata = m]
    BY <1>2 DEF TakeResult
  <2>2. stream' \in Stream /\ stream'.sent = stream.sent
          /\ stream'.chunks = stream.chunks /\ stream'.pending = stream.pending
    BY <2>1 DEF StreamInvariant, TypeOK, Stream
  <2>3. QED
    BY <1>2, <2>2 DEF TakeResult, StreamInvariant, TypeOK, Flushing, Silent, Sent, Ending, Fates, Holding
<1>3. CASE (TakeRequest \/ TakeDone) /\ Holding
  <2>1. /\ at = "get" /\ at' \in {"ask", "last"} /\ stream' = Collected
        /\ at' = "last" => fate # "evicted"
        /\ UNCHANGED <<hand, artifact, earlier, answer, fate>>
    BY <1>3 DEF TakeRequest, TakeDone
  <2>2. QED
    BY <1>3, <2>1, CollectedEffect
    DEF StreamInvariant, TypeOK, Places, Flushing, Silent, Sent, Ending, Fates, Holding
<1>4. CASE TakeRequest /\ ~Holding
  BY <1>4 DEF TakeRequest, StreamInvariant, TypeOK, Places, Flushing, Silent, Sent, Ending, Fates, Holding
<1>5. CASE TakeDone /\ ~Holding
  BY <1>5 DEF TakeDone, StreamInvariant, TypeOK, Places, Flushing, Silent, Sent, Ending, Fates, Holding
<1>6. CASE TakeEvent \/ TakeFailure
  BY <1>6 DEF TakeEvent, TakeFailure, StreamInvariant, TypeOK, Places, Flushing,
              Silent, Sent, Ending, Fates, Holding
<1>7. QED
  BY <1>1, <1>2, <1>3, <1>4, <1>5, <1>6

(* A flush went out (executor.py:206-207, 223-224, 265, 269).                *)
LEMMA FlushInvariant ==
  ASSUME StreamInvariant, StreamAssumption,
         FlushText \/ FlushForRequest \/ FlushLast \/ CloseArtifact
  PROVE  StreamInvariant'
<1>1. CASE FlushText
  <2>1. /\ at = "text" /\ at' = "get" /\ hand' = None /\ UNCHANGED <<earlier, answer, fate>>
        /\ stream.pending \in Chunk /\ hand \in Chunk /\ stream \in Stream
    BY <1>1 DEF FlushText, StreamInvariant, TypeOK, Holding, Stream
  <2> DEFINE x == [stream EXCEPT !.pending = hand]
  <2>2. x \in Stream /\ x.chunks = stream.chunks /\ x.pending = hand
    BY <2>1 DEF Stream
  <2>3. Flush(x, <<stream.pending>>, FALSE)
    BY <1>1 DEF FlushText
  <2>4. /\ artifact' = [parts |-> Append(artifact.parts, stream.pending), state |-> "open"]
        /\ artifact' \in Artifact /\ artifact'.parts # << >>
        /\ stream' = [x EXCEPT !.sent = TRUE] /\ stream' \in Stream
    BY <2>1, <2>2, <2>3, FlushEffect
  <2>5. stream'.chunks = artifact'.parts /\ stream'.sent
    BY <2>1, <2>2, <2>4 DEF StreamInvariant, Flushing, Stream
  <2>6. QED
    BY <2>1, <2>4, <2>5
    DEF StreamInvariant, TypeOK, Places, Flushing, Silent, Sent, Ending, Fates
<1>2. CASE FlushForRequest
  <2>1. /\ at = "ask" /\ at' = "prompt" /\ hand' = hand /\ UNCHANGED <<earlier, answer, fate>>
        /\ stream.pending \in Chunk /\ stream \in Stream
    BY <1>2 DEF FlushForRequest, StreamInvariant, TypeOK, Holding, Stream
  <2> DEFINE x == [stream EXCEPT !.pending = None]
  <2>2. x \in Stream /\ x.chunks = stream.chunks /\ x.pending = None
    BY <2>1 DEF Stream
  <2>3. Flush(x, <<stream.pending>>, FALSE)
    BY <1>2 DEF FlushForRequest
  <2>4. /\ artifact' = [parts |-> Append(artifact.parts, stream.pending), state |-> "open"]
        /\ artifact' \in Artifact /\ artifact'.parts # << >>
        /\ stream' = [x EXCEPT !.sent = TRUE] /\ stream' \in Stream
    BY <2>1, <2>2, <2>3, FlushEffect
  <2>5. stream'.chunks = artifact'.parts /\ stream'.sent /\ stream'.pending = None
    BY <2>1, <2>2, <2>4 DEF StreamInvariant, Flushing, Stream
  <2>6. QED
    BY <2>1, <2>4, <2>5
    DEF StreamInvariant, TypeOK, Places, Flushing, Silent, Sent, Ending, Fates, Holding
<1>3. CASE FlushLast
  <2>1. /\ at = "last" /\ at' = "complete" /\ hand' = hand /\ UNCHANGED <<earlier, answer, fate>>
        /\ stream.pending \in Chunk /\ stream \in Stream
    BY <1>3 DEF FlushLast, StreamInvariant, TypeOK, Holding, Stream
  <2>2. /\ artifact' = [parts |-> Append(artifact.parts, stream.pending), state |-> "closed"]
        /\ artifact' \in Artifact /\ artifact'.parts # << >>
        /\ stream' = [stream EXCEPT !.sent = TRUE] /\ stream' \in Stream
    BY <1>3, <2>1, FlushEffect DEF FlushLast
  <2>3. stream'.chunks = artifact'.parts /\ stream'.sent
    BY <2>1, <2>2 DEF StreamInvariant, Flushing, Stream
  <2>4. QED
    BY <2>1, <2>2, <2>3
    DEF StreamInvariant, TypeOK, Places, Flushing, Silent, Sent, Ending, Fates
<1>4. CASE CloseArtifact
  <2>1. /\ at = "close" /\ at' = "complete" /\ hand' = hand /\ UNCHANGED <<earlier, answer, fate>>
        /\ stream.sent /\ artifact.state # "absent" /\ artifact.parts # << >>
        /\ artifact.parts \in Seq(Chunk) /\ stream.chunks = artifact.parts
    BY <1>4 DEF CloseArtifact, StreamInvariant, TypeOK, Artifact, Flushing
  <2>2. /\ artifact' = [parts |-> artifact.parts, state |-> "closed"]
        /\ stream' = [stream EXCEPT !.sent = TRUE]
    BY <1>4, <2>1 DEF CloseArtifact, Flush, Assembled
  <2>3. stream' = stream /\ artifact' \in Artifact
    BY <2>1, <2>2 DEF StreamInvariant, TypeOK, Stream, Artifact
  <2>4. QED
    BY <2>1, <2>2, <2>3
    DEF StreamInvariant, TypeOK, Places, Flushing, Silent, Sent, Ending, Fates
<1>5. QED
  BY <1>1, <1>2, <1>3, <1>4

(* The pump goes on, pauses or is over (executor.py:208-219, 225, 230-261,   *)
(* 271-277).                                                                 *)
LEMMA MoveInvariant ==
  ASSUME StreamInvariant,
         PublishEvent \/ Prompt \/ FollowUp \/ Answer \/ Drop \/ Complete
           \/ Fail \/ Leave
  PROVE  StreamInvariant'
<1>1. CASE Complete
  <2>1. stream.chunks \in Seq(Chunk) /\ stream.metadata \in Meta \cup {None}
    BY DEF StreamInvariant, TypeOK, Stream
  <2>2. QED
    BY <1>1, <2>1 DEF Complete, StreamInvariant, TypeOK, Places, Flushing, Silent,
                      Sent, Ending, Fates, Holding
<1>2. CASE PublishEvent \/ Prompt \/ FollowUp \/ Fail
  BY <1>2 DEF PublishEvent, Prompt, FollowUp, Fail, StreamInvariant, TypeOK, Places,
              Flushing, Silent, Sent, Ending, Fates, Holding
<1>3. CASE Leave
  BY <1>3 DEF Leave, StreamInvariant, TypeOK, Places, Ended, Flushing, Silent, Sent,
              Ending, Holding
<1>4. CASE Answer
  <2>1. /\ NewStream \in Stream /\ NewStream.chunks = << >> /\ ~NewStream.sent
        /\ NewStream.pending = None
        /\ NoArtifact \in Artifact /\ NoArtifact.parts = << >>
        /\ NoArtifact.state = "absent"
    BY DEF NewStream, Stream, NoArtifact, Artifact
  <2>2. /\ at = "answer" /\ at' \in {"get", "gone"}
        /\ UNCHANGED <<hand, answer, fate>>
    BY <1>4 DEF Answer
  <2>3. CASE UNCHANGED <<stream, artifact, earlier>>
    BY <2>2, <2>3 DEF StreamInvariant, TypeOK, Places, Flushing, Silent, Sent,
                      Ending, Holding
  <2>4. CASE /\ fate # "live" /\ stream' = NewStream
             /\ artifact' = NoArtifact /\ earlier' = artifact
    BY <2>1, <2>2, <2>4 DEF StreamInvariant, TypeOK, Places, Flushing, Silent, Sent,
                            Ending, Holding
  <2>5. QED
    BY <1>4, <2>3, <2>4 DEF Answer
<1>5. CASE Drop
  BY <1>5 DEF Drop, StreamInvariant, TypeOK, Places, Ended, Flushing, Silent, Sent,
              Ending, Fates, Holding
<1>6. QED
  BY <1>1, <1>2, <1>3, <1>4, <1>5

(* Every step preserves the invariant (executor.py:180-277).                 *)
LEMMA Inductive ==
  ASSUME StreamInvariant, StreamAssumption, [Next]_vars
  PROVE  StreamInvariant'
<1>1. CASE TakeText \/ TakeEvent \/ TakeResult \/ TakeRequest \/ TakeDone \/ TakeFailure
  BY <1>1, TakeInvariant
<1>2. CASE FlushText \/ FlushForRequest \/ FlushLast \/ CloseArtifact
  BY <1>2, FlushInvariant
<1>3. CASE PublishEvent \/ Prompt \/ FollowUp \/ Answer \/ Drop \/ Complete
           \/ Fail \/ Leave
  BY <1>3, MoveInvariant
<1>4. CASE UNCHANGED vars
  BY <1>4 DEF vars, StreamInvariant, TypeOK, Flushing, Silent, Sent, Ending, Fates, Holding
<1>5. QED
  BY <1>1, <1>2, <1>3, <1>4 DEF Next

(* The invariant holds of every state of the stream.                         *)
THEOREM Invariant == Spec => []StreamInvariant
<1>1. Init => StreamInvariant
  BY InitInvariant
<1>2. StreamInvariant /\ [Next]_vars => StreamInvariant'
  BY Inductive, StreamAssumption
<1>3. QED
  BY <1>1, <1>2, PTL DEF Spec

(* The variables are what their types say, at every point of a run, of any   *)
(* length and with any texts (executor.py:55-63, 189-228).                   *)
THEOREM TypeCorrect == Spec => []TypeOK
BY Invariant, PTL DEF StreamInvariant

(* A completed task left no artifact open, unless tasks/cancel dropped its   *)
(* run during an answer (executor.py:175, 189, 263-269).                     *)
THEOREM ClosedWhenComplete == Spec => []ClosedAtEnd
<1>1. StreamInvariant => ClosedAtEnd
  BY DEF StreamInvariant, TypeOK, Artifact, ClosedAtEnd, Sent, Ending
<1>2. QED
  BY <1>1, Invariant, PTL

(* No step touches a closed artifact (executor.py:191-199, 263-269).         *)
THEOREM LastIsLast == Spec => NothingAfterLast
<1>1. StreamInvariant /\ [Next]_vars
        => [artifact.state = "closed" => UNCHANGED artifact]_vars
  <2> SUFFICES ASSUME StreamInvariant, [Next]_vars, artifact.state = "closed"
               PROVE  artifact' = artifact
    OBVIOUS
  <2>1. at \notin {"text", "ask", "last", "close", "answer"}
    BY DEF StreamInvariant, Sent
  <2>2. QED
    BY <2>1 DEF Next, vars, TakeText, FlushText, TakeEvent, PublishEvent, TakeResult,
                TakeRequest, FlushForRequest, Prompt, FollowUp, Answer, Drop, TakeDone,
                FlushLast, CloseArtifact, Complete, TakeFailure, Fail, Leave
<1>2. QED
  BY <1>1, Invariant, PTL DEF Spec, NothingAfterLast

-----------------------------------------------------------------------------
(* The refinement.                                                           *)

(* Nothing to read at first (executor.py:187-189).                           *)
LEMMA InitText == Init => Text!Init
BY DEF Init, NewStream, NoArtifact, Text!Init, Rest, Phase, Sent, Holding

(* Taking an event says a chunk, reports metadata, fails or shows nothing    *)
(* (executor.py:202-229).                                                    *)
LEMMA TakeText_Simulates ==
  ASSUME StreamInvariant, StreamAssumption, TakeText
  PROVE  Text!Say
<1>1. PICK c \in Chunk :
        \/ /\ ~Holding /\ stream' = [stream EXCEPT !.pending = c]
           /\ UNCHANGED <<at, hand>>
        \/ /\ Holding /\ stream' = Collected
           /\ at' = "text" /\ hand' = c
  BY DEF TakeText
<1>2. at = "get" /\ UNCHANGED <<artifact, earlier, answer, fate>> /\ c # None
  BY DEF TakeText, StreamAssumption
<1>3. Phase = "running" /\ Phase' = "running"
  BY <1>1, <1>2 DEF Phase
<1>4. stream \in Stream
  BY DEF StreamInvariant, TypeOK
<1>5. Rest' = Append(Rest, c) /\ stream'.metadata = stream.metadata
  <2>1. CASE ~Holding
    <3>1. stream'.pending = c /\ stream'.metadata = stream.metadata
      BY <1>1, <1>4, <2>1 DEF Stream
    <3>2. Rest = << >> /\ Rest' = <<c>>
      BY <1>1, <1>2, <2>1, <3>1 DEF Rest, Holding, Sent
    <3>3. QED
      BY <3>1, <3>2
  <2>2. CASE Holding
    <3>1. stream'.pending = stream.pending /\ stream'.metadata = stream.metadata
      BY <1>1, <2>2, CollectedEffect
    <3>2. Rest = <<stream.pending>> /\ Rest' = <<stream.pending, c>>
      BY <1>1, <1>2, <2>2, <3>1 DEF Rest, Holding, Sent
    <3>3. QED
      BY <3>1, <3>2
  <2>3. QED
    BY <2>1, <2>2
<1>6. QED
  BY <1>2, <1>3, <1>5 DEF Text!Say

(* The other events leave what there is to read (executor.py:208-229).       *)
LEMMA Take_Simulates ==
  ASSUME StreamInvariant,
         TakeEvent \/ TakeResult \/ TakeRequest \/ TakeDone \/ TakeFailure
  PROVE  [Text!Next]_Text!vars
<1>1. stream \in Stream
  BY DEF StreamInvariant, TypeOK
<1>2. CASE TakeEvent
  BY <1>2 DEF TakeEvent, Text!vars, Rest, Phase, Sent, Holding
<1>3. CASE TakeResult
  <2>1. PICK m \in Meta : stream' = [stream EXCEPT !.metadata = m]
    BY <1>3 DEF TakeResult
  <2>2. stream'.metadata \in Meta /\ stream'.pending = stream.pending
    BY <1>1, <2>1 DEF Stream
  <2>3. Rest' = Rest /\ Phase = "running" /\ Phase' = Phase
    BY <1>3, <2>2 DEF TakeResult, Rest, Phase, Sent, Holding
  <2>4. Text!Report
    BY <1>3, <2>2, <2>3 DEF TakeResult, Text!Report
  <2>5. QED
    BY <2>4 DEF Text!Next
<1>4. CASE (TakeRequest \/ TakeDone) /\ Holding
  <2>1. /\ at = "get" /\ at' \in {"ask", "last"} /\ stream' = Collected
        /\ at' = "last" => fate # "evicted"
        /\ UNCHANGED <<hand, artifact, earlier, answer, fate>>
    BY <1>4 DEF TakeRequest, TakeDone
  <2>2. stream'.pending = stream.pending /\ stream'.metadata = stream.metadata
    BY <1>4, <2>1, CollectedEffect
  <2>3. QED
    BY <2>1, <2>2 DEF Text!vars, Rest, Phase, Sent, Holding
<1>5. CASE (TakeRequest \/ TakeDone) /\ ~Holding
  <2>1. /\ at = "get" /\ at' \in {"prompt", "close", "complete"}
        /\ UNCHANGED <<stream, hand, artifact, earlier, answer, fate>>
    BY <1>5 DEF TakeRequest, TakeDone
  <2>2. QED
    BY <1>5, <2>1 DEF Text!vars, Rest, Phase, Sent, Holding
<1>6. CASE TakeFailure
  <2>1. Text!Fail
    BY <1>6 DEF TakeFailure, Text!Fail, Rest, Phase, Sent
  <2>2. QED
    BY <2>1 DEF Text!Next
<1>7. QED
  BY <1>2, <1>3, <1>4, <1>5, <1>6

(* A flush shows the chunk held back; closing shows nothing                  *)
(* (executor.py:191-199).                                                    *)
LEMMA Flush_Simulates ==
  ASSUME StreamInvariant,
         FlushText \/ FlushForRequest \/ FlushLast \/ CloseArtifact
  PROVE  [Text!Next]_Text!vars
<1>1. stream \in Stream
  BY DEF StreamInvariant, TypeOK
<1>2. CASE FlushText
  <2>1. /\ at = "text" /\ at' = "get" /\ UNCHANGED <<earlier, answer, fate>>
        /\ Holding /\ stream.pending \in Chunk /\ hand \in Chunk /\ hand # None
    BY <1>1, <1>2 DEF FlushText, StreamInvariant, TypeOK, Holding, Stream
  <2> DEFINE x == [stream EXCEPT !.pending = hand]
  <2>2. x \in Stream /\ x.pending = hand /\ x.metadata = stream.metadata
    BY <1>1, <2>1 DEF Stream
  <2>3. Flush(x, <<stream.pending>>, FALSE)
    BY <1>2 DEF FlushText
  <2>4. /\ artifact'.parts = Append(artifact.parts, stream.pending)
        /\ stream' = [x EXCEPT !.sent = TRUE]
    BY <2>1, <2>2, <2>3, FlushEffect
  <2>5. stream'.pending = hand /\ stream'.metadata = stream.metadata
    BY <2>2, <2>4 DEF Stream
  <2>6. Rest = <<stream.pending, hand>> /\ Rest' = <<hand>>
    BY <2>1, <2>5 DEF Rest, Holding, Sent
  <2>7. Phase = "running" /\ Phase' = "running"
    BY <2>1 DEF Phase
  <2>8. Text!Show
    BY <2>1, <2>4, <2>5, <2>6, <2>7 DEF Text!Show
  <2>9. QED
    BY <2>8 DEF Text!Next
<1>3. CASE FlushForRequest
  <2>1. /\ at = "ask" /\ at' = "prompt" /\ UNCHANGED <<earlier, answer, fate>>
        /\ Holding /\ stream.pending \in Chunk
    BY <1>1, <1>3 DEF FlushForRequest, StreamInvariant, TypeOK, Holding, Stream
  <2> DEFINE x == [stream EXCEPT !.pending = None]
  <2>2. x \in Stream /\ x.pending = None /\ x.metadata = stream.metadata
    BY <1>1 DEF Stream
  <2>3. Flush(x, <<stream.pending>>, FALSE)
    BY <1>3 DEF FlushForRequest
  <2>4. /\ artifact'.parts = Append(artifact.parts, stream.pending)
        /\ stream' = [x EXCEPT !.sent = TRUE]
    BY <2>1, <2>2, <2>3, FlushEffect
  <2>5. stream'.pending = None /\ stream'.metadata = stream.metadata
    BY <2>2, <2>4 DEF Stream
  <2>6. Rest = <<stream.pending>> /\ Rest' = << >>
    BY <2>1, <2>5 DEF Rest, Holding, Sent
  <2>7. Phase = "running" /\ Phase' = "running"
    BY <2>1 DEF Phase
  <2>8. Text!Show
    BY <2>1, <2>4, <2>5, <2>6, <2>7 DEF Text!Show
  <2>9. QED
    BY <2>8 DEF Text!Next
<1>4. CASE FlushLast
  <2>1. /\ at = "last" /\ at' = "complete" /\ UNCHANGED <<earlier, answer, fate>>
        /\ Holding /\ stream.pending \in Chunk
    BY <1>1, <1>4 DEF FlushLast, StreamInvariant, TypeOK, Holding, Stream
  <2>2. /\ artifact'.parts = Append(artifact.parts, stream.pending)
        /\ stream' = [stream EXCEPT !.sent = TRUE]
    BY <1>1, <1>4, <2>1, FlushEffect DEF FlushLast
  <2>3. stream'.metadata = stream.metadata
    BY <1>1, <2>2 DEF Stream
  <2>4. Rest = <<stream.pending>> /\ Rest' = << >>
    BY <2>1 DEF Rest, Sent
  <2>5. Phase = "running" /\ Phase' = "running"
    BY <2>1 DEF Phase
  <2>6. Text!Show
    BY <2>1, <2>2, <2>3, <2>4, <2>5 DEF Text!Show
  <2>7. QED
    BY <2>6 DEF Text!Next
<1>5. CASE CloseArtifact
  <2>1. /\ at = "close" /\ at' = "complete" /\ UNCHANGED <<earlier, answer, fate>>
        /\ ~Holding /\ stream.sent /\ artifact.state # "absent"
        /\ artifact.parts \in Seq(Chunk)
    BY <1>5 DEF CloseArtifact, StreamInvariant, TypeOK, Artifact, Silent
  <2>2. /\ artifact'.parts = artifact.parts
        /\ stream' = [stream EXCEPT !.sent = TRUE]
    BY <1>5, <2>1 DEF CloseArtifact, Flush, Assembled
  <2>3. stream'.metadata = stream.metadata
    BY <1>1, <2>2 DEF Stream
  <2>4. Rest = << >> /\ Rest' = << >>
    BY <2>1 DEF Rest, Sent
  <2>5. QED
    BY <2>1, <2>2, <2>3, <2>4 DEF Text!vars, Phase
<1>6. QED
  BY <1>2, <1>3, <1>4, <1>5

(* The rest asks, lets decide, completes, fails or shows nothing             *)
(* (executor.py:208-219, 225, 230-261, 271-277).                             *)
LEMMA Move_Simulates ==
  ASSUME StreamInvariant,
         PublishEvent \/ Prompt \/ FollowUp \/ Answer \/ Drop \/ Complete
           \/ Fail \/ Leave
  PROVE  [Text!Next]_Text!vars
<1>1. CASE PublishEvent
  BY <1>1 DEF PublishEvent, Text!vars, Rest, Phase, Sent, Holding
<1>2. CASE Prompt
  <2>1. Text!Ask
    BY <1>2 DEF Prompt, Text!Ask, StreamInvariant, Rest, Phase, Sent, Silent, Holding
  <2>2. QED
    BY <2>1 DEF Text!Next
<1>3. CASE FollowUp
  BY <1>3 DEF FollowUp, Text!vars, Rest, Phase, Sent, Holding
<1>4. CASE Complete
  <2>1. stream.chunks = artifact.parts
    BY <1>4 DEF Complete, StreamInvariant, Flushing
  <2>2. Text!Complete
    BY <1>4, <2>1 DEF Complete, Text!Complete, Rest, Phase, Sent
  <2>3. QED
    BY <2>2 DEF Text!Next
<1>5. CASE Fail
  BY <1>5 DEF Fail, Text!vars, Rest, Phase, Sent
<1>6. CASE Leave /\ at \in {"fail", "answer"}
  BY <1>6 DEF Leave, Text!vars, StreamInvariant, Rest, Phase, Sent, Silent, Holding
<1>7. CASE Leave /\ at \notin {"fail", "answer"}
  <2>1. Text!Fail
    BY <1>7 DEF Leave, Ended, StreamInvariant, TypeOK, Places, Text!Fail, Rest, Phase, Sent
  <2>2. QED
    BY <2>1 DEF Text!Next
<1>8. CASE Answer /\ fate = "live"
  <2>1. Text!Decide
    BY <1>8 DEF Answer, Text!Decide, StreamInvariant, Rest, Phase, Sent, Silent, Holding
  <2>2. QED
    BY <2>1 DEF Text!Next
<1>9. CASE Answer /\ fate # "live" /\ at' = "get"
  <2>1. /\ at = "answer" /\ ~Holding /\ UNCHANGED <<answer, fate>>
        /\ stream' = NewStream /\ artifact' = NoArtifact
    BY <1>9 DEF Answer, StreamInvariant, Silent
  <2>2. /\ artifact'.parts = << >> /\ stream'.metadata = None
        /\ stream'.pending = None
    BY <2>1 DEF NewStream, NoArtifact
  <2>3. Text!StartOver
    BY <1>9, <2>1, <2>2 DEF Text!StartOver, Rest, Phase, Sent, Holding
  <2>4. QED
    BY <2>3 DEF Text!Next
<1>10. CASE Answer /\ fate # "live" /\ at' = "gone"
  <2>1. Text!Fail
    BY <1>10 DEF Answer, Text!Fail, Rest, Phase, Sent
  <2>2. QED
    BY <2>1 DEF Text!Next
<1>11. CASE Drop
  <2>1. Text!Drop
    BY <1>11 DEF Drop, Text!Drop, Rest, Phase, Sent, Holding
  <2>2. QED
    BY <2>1 DEF Text!Next
<1>12. QED
  BY <1>1, <1>2, <1>3, <1>4, <1>5, <1>6, <1>7, <1>8, <1>9, <1>10, <1>11 DEF Answer

(* What the caller reads is the text of the run, in order, once, all of it   *)
(* before a decision and before the completion, which repeats it; a response *)
(* starts over only when its run was dropped during an answer                *)
(* (executor.py:175, 187-228, 247-277).                                      *)
THEOREM Implements == Spec => ImplementsText
<1>1. Init => Text!Init
  BY InitText
<1>2. StreamInvariant /\ [Next]_vars => [Text!Next]_Text!vars
  <2> SUFFICES ASSUME StreamInvariant, [Next]_vars
               PROVE  [Text!Next]_Text!vars
    OBVIOUS
  <2>1. CASE TakeText
    BY <2>1, TakeText_Simulates, StreamAssumption DEF Text!Next
  <2>2. CASE TakeEvent \/ TakeResult \/ TakeRequest \/ TakeDone \/ TakeFailure
    BY <2>2, Take_Simulates
  <2>3. CASE FlushText \/ FlushForRequest \/ FlushLast \/ CloseArtifact
    BY <2>3, Flush_Simulates
  <2>4. CASE PublishEvent \/ Prompt \/ FollowUp \/ Answer \/ Drop \/ Complete
           \/ Fail \/ Leave
    BY <2>4, Move_Simulates
  <2>5. CASE UNCHANGED vars
    BY <2>5 DEF vars, Text!vars, Rest, Phase, Sent, Holding
  <2>6. QED
    BY <2>1, <2>2, <2>3, <2>4, <2>5 DEF Next
<1>3. QED
  BY <1>1, <1>2, Invariant, PTL DEF Spec, ImplementsText, Text!Spec
=============================================================================
