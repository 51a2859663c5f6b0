----------------------------- MODULE Continuity -----------------------------
(***************************************************************************)
(* The continuity map of ClaudeCodeExecutor (executor.py, _session_ids):   *)
(* a run looks up the conversation of its context once, before it waits    *)
(* for admission; its backend resumes that conversation or opens another   *)
(* one (acp.py, claude.py); and the run records the conversation its       *)
(* result names, whenever that comes.  Runs of one context or of several   *)
(* overlap freely.                                                         *)
(***************************************************************************)
EXTENDS Dicts, FiniteSets

CONSTANTS
  Context,      \* A2A context ids
  Conversation, \* session ids; one nobody holds any more is reused
  Run,          \* BOUND: runs under way at once
  MaxContexts,  \* _MAX_CONTEXTS
  None

ASSUME ContinuityAssumption ==
  /\ IsFiniteSet(Context)
  /\ None \notin Context \cup Conversation
  /\ MaxContexts \in Nat \ {0}

VARIABLES
  ids,      \* _session_ids: context -> conversation
  recency,  \* the insertion order of its keys
  run,      \* the runs: the context each works for, the conversation it
            \* found there and the one it is in, once that is open
  last,     \* history: the conversation a context's last result named
  newer     \* history: the contexts recorded since this one was

vars == <<ids, recency, run, last, newer>>

Init == /\ ids = [x \in Context |-> None]
        /\ recency = << >>
        /\ run = [r \in Run |-> None]
        /\ last = [x \in Context |-> None]
        /\ newer = [x \in Context |-> {}]

-----------------------------------------------------------------------------
\* mutant: plain reassignment, an existing key stays where it is
Moved_Kept(x) == With(recency, x)

\* pop, then set
Moved(x) == Append(Without(recency, x), x)

\* mutant: one entry too many is kept
Kept_OffByOne(q) == IF Len(q) > MaxContexts + 1
                      THEN SubSeq(q, Len(q) - MaxContexts, Len(q)) ELSE q

\* the oldest entries over the bound, at the front, are deleted
Kept(q) == IF Len(q) > MaxContexts
             THEN SubSeq(q, Len(q) - MaxContexts + 1, Len(q)) ELSE q

Remember(x, v) ==
  LET q == Kept(Moved(x))
  IN  /\ recency' = q
      /\ ids' = [y \in Context |-> IF ~Contains(q, y) THEN None
                                   ELSE IF y = x THEN v ELSE ids[y]]

\* context x has conversation v: in the map, or in one of its runs
Holds(x, v) == \/ ids[x] = v
               \/ \E r \in Run : run[r] # None /\ run[r].context = x
                                /\ v \in {run[r].resume, run[r].in}

\* mutant: the conversation recorded last is resumed
Resumed_Newest(x) == IF recency = << >> THEN None ELSE ids[recency[Len(recency)]]

Resumed(x) == ids[x]

\* execute() looks the context up when start_work() returns, which does not
\* move it in the order
Start(r, x) ==
  /\ run[r] = None
  /\ run' = [run EXCEPT ![r] = [context |-> x, resume |-> Resumed(x), in |-> None]]
  /\ UNCHANGED <<ids, recency, last, newer>>

\* the backend resumes what it was given, or the agent opens a conversation
\* of its own: nothing was given, or it cannot load one, or it forks it
Open(r) ==
  /\ run[r] # None /\ run[r].in = None
  /\ \E v \in Conversation :
       /\ v = run[r].resume \/ \A x \in Context : ~Holds(x, v)
       /\ run' = [run EXCEPT ![r].in = v]
  /\ UNCHANGED <<ids, recency, last, newer>>

\* mutant: a result without a session id is recorded like any other
Named_Always(v) == TRUE

\* if event.session_id
Named(v) == v # None

\* _pump() handles the run's result, which names its conversation or none
Finish(r) ==
  /\ run[r] # None /\ run[r].in # None
  /\ run' = [run EXCEPT ![r] = None]
  /\ LET x == run[r].context
     IN  \E v \in {run[r].in, None} :
           \/ /\ Named(v)
              /\ Remember(x, v)
              /\ last' = [last EXCEPT ![x] = v]
              /\ newer' = [y \in Context |-> IF y = x THEN {} ELSE newer[y] \cup {x}]
           \/ ~Named(v) /\ UNCHANGED <<ids, recency, last, newer>>

\* a run that ends without a result
End(r) ==
  /\ run[r] # None
  /\ run' = [run EXCEPT ![r] = None]
  /\ UNCHANGED <<ids, recency, last, newer>>

Next == \E r \in Run : Open(r) \/ Finish(r) \/ End(r) \/ \E x \in Context : Start(r, x)

Spec == Init /\ [][Next]_vars

-----------------------------------------------------------------------------
(* The map, its order and the runs keep their types, and the order lists   *)
(* exactly the contexts that are mapped (executor.py:115-116).             *)
TypeOK ==
  /\ ids \in [Context -> Conversation \cup {None}]
  /\ recency \in Seq(Context)
  /\ \A r \in Run : run[r] = None \/
       run[r] \in [context : Context, resume : Conversation \cup {None},
                  in : Conversation \cup {None}]
  /\ last \in [Context -> Conversation \cup {None}]
  /\ newer \in [Context -> SUBSET Context]
  /\ \A x \in Context : Contains(recency, x) <=> ids[x] # None

(* The map never holds more than _MAX_CONTEXTS contexts                    *)
(* (executor.py:46-51, 324-326).                                           *)
BoundedContinuity == Len(recency) <= MaxContexts

(* A context is forgotten only after _MAX_CONTEXTS others had results      *)
(* recorded since its own, however the runs overlap; until then a new task *)
(* in it resumes the conversation of its last result                       *)
(* (executor.py:13-14, 156-160, 317-326).                                  *)
KeptWhileRecent ==
  \A x \in Context :
    last[x] # None /\ Cardinality(newer[x]) < MaxContexts => ids[x] = last[x]

(* A conversation belongs to one context, whichever runs of other contexts *)
(* overlapped, were forgotten or ended without a result: nobody's prompt   *)
(* goes to an agent that remembers what another context said               *)
(* (executor.py:13-14, 156-160, 253-254, acp.py:278-291, claude.py:96-97). *)
ConversationOfOneContext ==
  \A v \in Conversation : \A x, y \in Context : Holds(x, v) /\ Holds(y, v) => x = y
=============================================================================
