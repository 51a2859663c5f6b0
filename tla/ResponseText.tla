---------------------------- MODULE ResponseText ----------------------------
(***************************************************************************)
(* What the caller of a task is promised about the text of its run: it     *)
(* reads every chunk the backend produced, once and in order; when it is   *)
(* asked for a decision it has read all there is; and the message that     *)
(* completes the task repeats the whole text, with the metadata of the     *)
(* run's result.  Only a run that was dropped while its caller decided may *)
(* start the response over: the promise then holds of what follows.        *)
(***************************************************************************)
EXTENDS Sequences

CONSTANTS
  Chunk,  \* texts a backend emits
  Meta,   \* run metadata a result carries
  None

VARIABLES
  rest,    \* chunks produced, not yet readable
  shown,   \* chunks the caller can read
  meta,    \* metadata of the last result
  phase,   \* running, asking, completed or failed
  answer,  \* the message that completed the task
  dropped  \* the server let go of the run

vars == <<rest, shown, meta, phase, answer, dropped>>

Init == /\ rest = << >> /\ shown = << >>
        /\ meta = None /\ answer = None
        /\ phase = "running" /\ dropped = FALSE

Say == /\ phase = "running"
       /\ \E c \in Chunk : rest' = Append(rest, c)
       /\ UNCHANGED <<shown, meta, phase, answer, dropped>>

Show == /\ phase = "running" /\ rest # << >>
        /\ shown' = Append(shown, Head(rest))
        /\ rest' = Tail(rest)
        /\ UNCHANGED <<meta, phase, answer, dropped>>

Report == /\ phase = "running"
          /\ meta' \in Meta
          /\ UNCHANGED <<rest, shown, phase, answer, dropped>>

Ask == /\ phase = "running" /\ rest = << >>
       /\ phase' = "asking"
       /\ UNCHANGED <<rest, shown, meta, answer, dropped>>

Decide == /\ phase = "asking" /\ ~dropped
          /\ phase' = "running"
          /\ UNCHANGED <<rest, shown, meta, answer, dropped>>

Drop == /\ ~dropped /\ dropped' = TRUE
        /\ UNCHANGED <<rest, shown, meta, phase, answer>>

\* a response of its own for what a dropped run still says
StartOver == /\ phase = "asking" /\ dropped
             /\ phase' = "running"
             /\ shown' = << >> /\ meta' = None
             /\ UNCHANGED <<rest, answer, dropped>>

Complete == /\ phase = "running" /\ rest = << >>
            /\ phase' = "completed"
            /\ answer' = [text |-> shown, meta |-> meta]
            /\ UNCHANGED <<rest, shown, meta, dropped>>

\* what was not shown by then is lost
Fail == /\ phase \in {"running", "asking"}
        /\ phase' = "failed" /\ rest' = << >>
        /\ UNCHANGED <<shown, meta, answer, dropped>>

Next == \/ Say \/ Show \/ Report \/ Ask \/ Decide \/ Drop \/ StartOver
        \/ Complete \/ Fail

Spec == Init /\ [][Next]_vars
=============================================================================
