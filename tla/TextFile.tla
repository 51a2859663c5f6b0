------------------------------ MODULE TextFile ------------------------------
(***************************************************************************)
(* A text file of the workspace as the agent reads and writes it through   *)
(* the ACP client (acp.py, read_text_file and write_text_file).  Each      *)
(* request does its work in a thread of its own, one line or one system    *)
(* call at a time, so a read may overlap a write; and a thread goes on     *)
(* when the session that asked for it is over.                             *)
(***************************************************************************)
EXTENDS PythonNone, Integers, Sequences

CONSTANTS
  Line,    \* lines of text
  Texts,   \* BOUND: the contents, sequences of lines, the file may be given
  Numbers  \* BOUND: the values of line and limit in a request;
           \* None stands for one that is absent

ASSUME TextFileAssumption == /\ Texts \subseteq Seq(Line)
                             /\ Numbers \subseteq Int
                             /\ None \notin Int

VARIABLES
  file,    \* the lines on disk
  read,    \* the read under way
  write    \* the write under way

fileVars == <<file, read, write>>

\* steady: the file has not changed since the read was asked for
Idle    == [at |-> "idle", line |-> None, limit |-> None, i |-> 0,
            out |-> << >>, steady |-> TRUE]
NoWrite == [at |-> "idle", text |-> << >>]

FileInit == file = << >> /\ read = Idle /\ write = NoWrite

-----------------------------------------------------------------------------
(* Reading.                                                                *)

\* the lines to skip; a line number below 1 reads from the top
Skipped(q) == IF q.line # None /\ q.line > 0 THEN q.line - 1 ELSE 0

\* paths that resolve outside the workspace are refused by _safe_path()
\* before anything else happens
ReadRequest ==
  /\ read.at = "idle"
  /\ \E line, limit \in Numbers \cup {None} :
       read' = [Idle EXCEPT !.line = line, !.limit = limit,
                  !.at = IF limit # None /\ limit <= 0 THEN "done" ELSE "lines"]
  /\ UNCHANGED <<file, write>>

\* mutant: the limit counts from the top of the file
AtEnd_Absolute(q) == q.limit # None /\ q.i >= q.limit - 1

\* the line in hand is the last one of the window
AtEnd(q) == q.limit # None /\ q.i >= Skipped(q) + q.limit - 1

ReadLine ==
  /\ read.at = "lines" /\ read.i < Len(file)
  /\ read' = [read EXCEPT
       !.i   = @ + 1,
       !.out = IF read.i >= Skipped(read) THEN Append(@, file[read.i + 1]) ELSE @,
       !.at  = IF AtEnd(read) THEN "done" ELSE @]
  /\ UNCHANGED <<file, write>>

\* the end of the file, as it is by now
ReadEnd == /\ read.at = "lines" /\ read.i >= Len(file)
           /\ read' = [read EXCEPT !.at = "done"]
           /\ UNCHANGED <<file, write>>

ReadReply == /\ read.at = "done"
             /\ read' = Idle
             /\ UNCHANGED <<file, write>>

-----------------------------------------------------------------------------
(* Writing.  Path.write_text opens the file, which empties it, and stores. *)

WriteRequest == /\ write.at = "idle"
                /\ \E t \in Texts : write' = [at |-> "open", text |-> t]
                /\ UNCHANGED <<file, read>>

OnDisk(t) == file' = t /\ read' = [read EXCEPT !.steady = FALSE]

Truncate == /\ write.at = "open"
            /\ OnDisk(<< >>)
            /\ write' = [write EXCEPT !.at = "store"]

Store == /\ write.at = "store"
         /\ OnDisk(write.text)
         /\ write' = NoWrite

\* what the agent asks for over an open connection, and what the threads do
FileRequest == ReadRequest \/ WriteRequest
FileWork    == ReadLine \/ ReadEnd \/ ReadReply \/ Truncate \/ Store
FileNext    == FileRequest \/ FileWork

-----------------------------------------------------------------------------
(* The window that line and limit name: limit lines from line on, counted  *)
(* from 1, or the rest of the file.                                        *)
First(q)  == IF q.line = None \/ q.line < 1 THEN 1 ELSE q.line
Length(q) == LET rest == Len(file) - First(q) + 1
                 size == IF q.limit = None \/ q.limit > rest THEN rest ELSE q.limit
             IN  IF size < 0 THEN 0 ELSE size
Window(q) == [k \in 1..Length(q) |-> file[First(q) + k - 1]]

(* A read that no write overlapped returns the window of the file that was *)
(* asked for, and the whole file when none was: for a line or limit that   *)
(* is absent, zero, negative or past the end (acp.py:177-195).             *)
ReadIsWindow == read.at = "done" /\ read.steady => read.out = Window(read)
=============================================================================
