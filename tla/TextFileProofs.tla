--------------------------- MODULE TextFileProofs ---------------------------
(* What a read that no write overlapped returns, for every file and every   *)
(* request.                                                                 *)
EXTENDS TextFile, TLAPS

ReadType == [at : {"idle", "lines", "done"}, line : Numbers \cup {None},
             limit : Numbers \cup {None}, i : Nat, out : Seq(Line), steady : BOOLEAN]

FileTypeOK == /\ file \in Seq(Line)
              /\ read \in ReadType
              /\ write \in [at : {"idle", "open", "store"}, text : Seq(Line)]

\* Len(out) lines are out, the ones after those that are skipped
Collected(q) ==
  /\ q.i <= Len(file)
  /\ Len(q.out) = IF q.i <= Skipped(q) THEN 0 ELSE q.i - Skipped(q)
  /\ \A k \in 1..Len(q.out) : q.out[k] = file[Skipped(q) + k]

(* A steady read has collected the lines up to i that are not skipped, and  *)
(* goes on only inside its window (acp.py:180-195).                         *)
FileInv ==
  /\ FileTypeOK
  /\ read.at = "lines" /\ read.steady =>
       /\ Collected(read)
       /\ read.limit # None => read.limit > 0 /\ read.i < Skipped(read) + read.limit
  /\ ReadIsWindow

(* The fields of a read, one by one.                                        *)
LEMMA ReadFields == ASSUME NEW q \in ReadType
                    PROVE  /\ q.line = None \/ q.line \in Int
                           /\ q.limit = None \/ q.limit \in Int
                           /\ q.i \in Nat /\ q.out \in Seq(Line) /\ Len(q.out) \in Nat
                           /\ q.at \in {"idle", "lines", "done"} /\ q.steady \in BOOLEAN
<1>1. q.line = None \/ q.line \in Int
  BY TextFileAssumption DEF ReadType
<1>2. q.limit = None \/ q.limit \in Int
  BY TextFileAssumption DEF ReadType
<1>3. q.i \in Nat /\ q.out \in Seq(Line) /\ q.steady \in BOOLEAN
  BY DEF ReadType
<1>4. Len(q.out) \in Nat /\ q.at \in {"idle", "lines", "done"}
  BY DEF ReadType
<1>5. QED
  BY <1>1, <1>2, <1>3, <1>4

(* What First and Skipped name is the same line.                            *)
LEMMA FirstLine == ASSUME NEW q \in ReadType
                   PROVE  First(q) = Skipped(q) + 1 /\ Skipped(q) \in Nat
  BY ReadFields DEF First, Skipped

(* How many lines there are in a window of l lines when i lines were read.  *)
LEMMA WindowLength ==
  ASSUME NEW q, NEW s \in Nat, NEW n \in Nat, NEW i \in Nat, NEW m \in Nat, NEW l \in Int,
         m = Len(file), First(q) = s + 1, q.limit = l, q.limit # None,
         i <= m, l > 0, (i = m /\ i <= s + l) \/ i = s + l,
         n = IF i <= s THEN 0 ELSE i - s
  PROVE  Length(q) = n
  BY DEF Length

(* The end of a steady read: what was collected is the window.              *)
LEMMA EndOfWindow ==
  ASSUME FileTypeOK, NEW q \in ReadType, Collected(q),
         \/ q.i = Len(file) /\ (q.limit # None => q.limit > 0 /\ q.i <= Skipped(q) + q.limit)
         \/ q.limit # None /\ q.limit > 0 /\ q.i = Skipped(q) + q.limit
  PROVE  q.out = Window(q)
<1>1. PICK s \in Nat : s = Skipped(q) /\ First(q) = s + 1
  BY FirstLine
<1>2. PICK n \in Nat : n = Len(q.out)
  BY ReadFields
<1>3. PICK m \in Nat : m = Len(file)
  BY DEF FileTypeOK
<1>4. PICK i \in Nat : i = q.i
  BY ReadFields
<1>5. /\ i <= m /\ n = IF i <= s THEN 0 ELSE i - s
      /\ \A k \in 1..n : q.out[k] = file[s + k]
  BY <1>1, <1>2, <1>3, <1>4 DEF Collected
<1>6. Length(q) = n
  <2>1. CASE q.limit = None
    BY <1>1, <1>2, <1>3, <1>4, <1>5, <2>1 DEF Length
  <2>2. CASE q.limit # None
    <3>1. PICK l \in Int : l = q.limit
      BY <2>2, ReadFields
    <3>2. l > 0 /\ ((i = m /\ i <= s + l) \/ i = s + l)
      BY <1>1, <1>3, <1>4, <2>2, <3>1
    <3>3. i <= m /\ n = IF i <= s THEN 0 ELSE i - s
      BY <1>5
    <3>4. First(q) = s + 1 /\ m = Len(file)
      BY <1>1, <1>3
    <3>5. QED
      BY <2>2, <3>1, <3>2, <3>3, <3>4, WindowLength
  <2>3. QED
    BY <2>1, <2>2
<1>7. \A k \in 1..n : q.out[k] = file[First(q) + k - 1]
  BY <1>1, <1>2, <1>5
<1>8. q.out = [k \in 1..n |-> q.out[k]]
  BY <1>2, ReadFields
<1>9. QED
  BY <1>6, <1>7, <1>8 DEF Window

(* The file begins empty, with no read under way.                           *)
LEMMA FileStart == FileInit => FileInv
  BY TextFileAssumption DEF TextFileAssumption, FileInit, FileInv, FileTypeOK, ReadType, Idle, NoWrite, ReadIsWindow

(* Reads under way stay reads, however a step changes their fields.         *)
LEMMA NewRead ==
  ASSUME NEW line \in Numbers \cup {None}, NEW limit \in Numbers \cup {None},
         NEW a \in {"idle", "lines", "done"}
  PROVE  [Idle EXCEPT !.line = line, !.limit = limit, !.at = a] \in ReadType
<1>1. << >> \in Seq(Line) /\ None \in Numbers \cup {None}
  OBVIOUS
<1>2. QED
  BY <1>1 DEF ReadType, Idle

LEMMA NextRead ==
  ASSUME NEW q \in ReadType, NEW n \in Nat, NEW o \in Seq(Line),
         NEW a \in {"idle", "lines", "done"}
  PROVE  [q EXCEPT !.i = n, !.out = o, !.at = a] \in ReadType
  BY DEF ReadType

LEMMA DoneRead ==
  ASSUME NEW q \in ReadType
  PROVE  [q EXCEPT !.at = "done"] \in ReadType /\ [q EXCEPT !.steady = FALSE] \in ReadType
  BY DEF ReadType

(* A sequence with a line appended.                                         *)
LEMMA OneMore ==
  ASSUME NEW o \in Seq(Line), NEW l \in Line
  PROVE  /\ Append(o, l) \in Seq(Line) /\ Len(o) \in Nat
         /\ Len(Append(o, l)) = Len(o) + 1 /\ Append(o, l)[Len(o) + 1] = l
         /\ \A k \in 1..Len(o) : Append(o, l)[k] = o[k]
  OBVIOUS

(* One more line, taken if it is not skipped (acp.py:184-191).              *)
LEMMA CollectOne ==
  ASSUME FileTypeOK, NEW q \in ReadType, NEW p \in ReadType, Collected(q), q.i < Len(file),
         p.i = q.i + 1, Skipped(p) = Skipped(q),
         p.out = IF q.i >= Skipped(q) THEN Append(q.out, file[q.i + 1]) ELSE q.out
  PROVE  Collected(p)
<1>1. PICK s \in Nat : s = Skipped(q)
  BY FirstLine
<1>2. PICK i \in Nat : i = q.i
  BY ReadFields
<1>3. PICK o \in Seq(Line) : o = q.out
  BY ReadFields
<1>4. PICK m \in Nat : m = Len(file)
  BY DEF FileTypeOK
<1>5. i < m /\ file[i + 1] \in Line /\ file \in Seq(Line)
  BY <1>2, <1>4 DEF FileTypeOK
<1>6. Len(o) = IF i <= s THEN 0 ELSE i - s
  BY <1>1, <1>2, <1>3 DEF Collected
<1>7. \A k \in 1..Len(o) : o[k] = file[s + k]
  BY <1>1, <1>3 DEF Collected
<1>8. CASE i >= s
  <2>1. p.out = Append(o, file[i + 1])
    BY <1>1, <1>2, <1>3, <1>8
  <2>2. Len(p.out) = Len(o) + 1 /\ p.out[Len(o) + 1] = file[i + 1]
    <3>1. /\ Len(Append(o, file[i + 1])) = Len(o) + 1
          /\ Append(o, file[i + 1])[Len(o) + 1] = file[i + 1]
      BY <1>5, OneMore
    <3>2. QED
      BY <2>1, <3>1, Zenon
  <2>3. \A k \in 1..Len(o) : p.out[k] = o[k]
    <3>1. \A k \in 1..Len(o) : Append(o, file[i + 1])[k] = o[k]
      BY <1>5, OneMore
    <3>2. QED
      BY <2>1, <3>1, Zenon
  <2>4. Len(o) \in Nat /\ Len(o) = i - s
    BY <1>6, <1>8
  <2>5. s + (Len(o) + 1) = i + 1
    BY <2>4
  <2>6. \A k \in 1..Len(p.out) : p.out[k] = file[s + k]
    <3>1. ASSUME NEW k \in 1..Len(p.out) PROVE p.out[k] = file[s + k]
      <4>1. k \in 1..Len(o) \/ k = Len(o) + 1
        BY <2>2, <2>4
      <4>2. QED
        BY <1>7, <2>2, <2>3, <2>5, <4>1
    <3>2. QED
      BY <3>1
  <2>7. Len(p.out) = IF i + 1 <= s THEN 0 ELSE i + 1 - s
    BY <1>8, <2>2, <2>4
  <2>8. i + 1 <= Len(file)
    BY <1>4, <1>5
  <2>9. QED
    BY <1>1, <1>2, <2>6, <2>7, <2>8 DEF Collected
<1>9. CASE i < s
  <2>1. p.out = o
    BY <1>1, <1>2, <1>3, <1>9
  <2>2. Len(o) = IF i + 1 <= s THEN 0 ELSE i + 1 - s
    BY <1>6, <1>9
  <2>3. i + 1 <= Len(file)
    BY <1>4, <1>5
  <2>4. QED
    <3>1. Skipped(p) = s /\ p.i = i + 1
      BY <1>1, <1>2
    <3>2. QED
      <4>1. p.i <= Len(file)
        BY <2>3, <3>1
      <4>2. Len(p.out) = IF p.i <= Skipped(p) THEN 0 ELSE p.i - Skipped(p)
        <5>1. Len(p.out) = Len(o)
          BY <2>1, Zenon
        <5>2. Len(o) = IF p.i <= Skipped(p) THEN 0 ELSE p.i - Skipped(p)
          BY <2>2, <3>1
        <5>3. QED
          BY <5>1, <5>2, Zenon
      <4>3. \A k \in 1..Len(p.out) : p.out[k] = file[Skipped(p) + k]
        BY <1>7, <2>1, <3>1, Zenon
      <4>4. QED
        BY <4>1, <4>2, <4>3 DEF Collected
<1>10. QED
  BY <1>8, <1>9

(* Only the lines on disk and the fields of the read say what its window is *)
(* and what it collected.                                                   *)
LEMMA SameFile ==
  ASSUME file' = file
  PROVE  /\ Collected(read)' <=> Collected(read')
         /\ Window(read)' = Window(read')
         /\ Skipped(read)' = Skipped(read')
  BY DEF Collected, Window, First, Length, Skipped

(* A limit of zero or less is an empty window (acp.py:181-182).             *)
LEMMA NoWindow ==
  ASSUME FileTypeOK, NEW q \in ReadType, q.limit # None, q.limit <= 0
  PROVE  Window(q) = << >>
<1>1. PICK f \in Int : f = First(q)
  BY FirstLine
<1>2. PICK m \in Nat : m = Len(file)
  BY DEF FileTypeOK
<1>3. PICK l \in Int : l = q.limit
  BY ReadFields
<1>4. Length(q) = 0
  BY <1>1, <1>2, <1>3 DEF Length
<1>5. QED
  BY <1>4 DEF Window

(* The guard of the reader and the end of its window (acp.py:189-190).      *)
LEMMA AtEndMeans ==
  ASSUME NEW q \in ReadType, q.limit # None => q.limit > 0 /\ q.i < Skipped(q) + q.limit
  PROVE  /\ AtEnd(q) => /\ q.limit # None /\ q.limit > 0
                        /\ q.i + 1 = Skipped(q) + q.limit
         /\ ~AtEnd(q) /\ q.limit # None => q.i + 1 < Skipped(q) + q.limit
<1>1. CASE q.limit = None
  BY <1>1 DEF AtEnd
<1>2. CASE q.limit # None
  <2>1. PICK s \in Nat : s = Skipped(q)
    BY FirstLine
  <2>2. PICK i \in Nat : i = q.i
    BY ReadFields
  <2>3. PICK l \in Int : l = q.limit
    BY <1>2, ReadFields
  <2>4. l > 0 /\ i < s + l
    BY <1>2, <2>1, <2>2, <2>3
  <2>5. AtEnd(q) <=> i >= s + l - 1
    BY <1>2, <2>1, <2>2, <2>3 DEF AtEnd
  <2>6. i >= s + l - 1 => i + 1 = s + l
    BY <2>4
  <2>7. ~(i >= s + l - 1) => i + 1 < s + l
    OBVIOUS
  <2>8. QED
    BY <1>2, <2>1, <2>2, <2>3, <2>4, <2>5, <2>6, <2>7
<1>3. QED
  BY <1>1, <1>2

(* Every step of the reader and of the writer keeps the invariant.          *)
LEMMA RequestStep == FileInv /\ ReadRequest => FileInv'
<1> SUFFICES ASSUME FileInv, ReadRequest PROVE FileInv'
  OBVIOUS
<1>1. PICK line, limit \in Numbers \cup {None} :
        read' = [Idle EXCEPT !.line = line, !.limit = limit,
                   !.at = IF limit # None /\ limit <= 0 THEN "done" ELSE "lines"]
  BY DEF ReadRequest
<1>2. file' = file /\ write' = write
  BY DEF ReadRequest
<1>3. read' \in ReadType
  <2>1. PICK a \in {"idle", "lines", "done"} :
          a = IF limit # None /\ limit <= 0 THEN "done" ELSE "lines"
    OBVIOUS
  <2>2. QED
    BY <1>1, <2>1, NewRead
<1>4. /\ read'.line = line /\ read'.limit = limit /\ read'.i = 0 /\ read'.out = << >>
      /\ read'.at = IF limit # None /\ limit <= 0 THEN "done" ELSE "lines"
  BY <1>1 DEF Idle
<1>5. FileTypeOK'
  BY <1>2, <1>3 DEF FileInv, FileTypeOK
<1>6. CASE read'.at = "done"
  <2>1. limit # None /\ limit <= 0
    BY <1>4, <1>6
  <2>2. FileTypeOK /\ read'.limit # None /\ read'.limit <= 0
    BY <1>4, <2>1 DEF FileInv
  <2>3. Window(read') = << >>
    BY <1>3, <2>2, NoWindow
  <2>4. read'.out = Window(read)'
    BY <1>2, <1>4, <2>3, SameFile
  <2>5. QED
    BY <1>5, <1>6, <2>4 DEF FileInv, ReadIsWindow
<1>7. CASE read'.at = "lines"
  <2>1. PICK s \in Nat : s = Skipped(read')
    BY <1>3, FirstLine
  <2>2. Collected(read')
    <3>1. 0 <= Len(file) /\ Len(read'.out) = 0
      BY <1>4 DEF FileInv, FileTypeOK
    <3>2. QED
      BY <1>4, <2>1, <3>1 DEF Collected
  <2>3. limit # None => limit > 0 /\ 0 < s + limit
    <3>1. limit # None => limit \in Int
      BY TextFileAssumption DEF TextFileAssumption
    <3>2. limit # None => limit > 0
      BY <1>4, <1>7, <3>1
    <3>3. QED
      BY <3>1, <3>2
  <2>4. read'.limit # None => read'.limit > 0 /\ read'.i < Skipped(read)' + read'.limit
    BY <1>2, <1>4, <2>1, <2>3, SameFile
  <2>5. QED
    BY <1>2, <1>5, <1>7, <2>2, <2>4, SameFile DEF FileInv, ReadIsWindow
<1>8. QED
  BY <1>4, <1>6, <1>7

LEMMA LineStep == FileInv /\ ReadLine => FileInv'
<1> SUFFICES ASSUME FileInv, ReadLine PROVE FileInv'
  OBVIOUS
<1>1. /\ read.at = "lines" /\ read.i < Len(file) /\ file' = file /\ write' = write
      /\ read \in ReadType /\ file \in Seq(Line) /\ FileTypeOK
  BY DEF ReadLine, FileInv, FileTypeOK
<1>2. PICK n \in Nat : n = read.i + 1
  BY <1>1, ReadFields
<1>3. PICK o \in Seq(Line) :
        o = IF read.i >= Skipped(read) THEN Append(read.out, file[read.i + 1]) ELSE read.out
  <2>1. file[read.i + 1] \in Line
    BY <1>1, ReadFields
  <2>2. read.out \in Seq(Line) /\ Append(read.out, file[read.i + 1]) \in Seq(Line)
    BY <1>1, <2>1, ReadFields, OneMore
  <2>3. QED
    BY <2>2
<1>4. PICK a \in {"idle", "lines", "done"} : a = IF AtEnd(read) THEN "done" ELSE read.at
  BY <1>1
<1>5. read' = [read EXCEPT !.i = n, !.out = o, !.at = a]
  BY <1>2, <1>3, <1>4 DEF ReadLine
<1>6. read' \in ReadType
  BY <1>1, <1>5, NextRead
<1>7. /\ read'.i = n /\ read'.out = o /\ read'.at = a /\ read'.line = read.line
      /\ read'.limit = read.limit /\ read'.steady = read.steady
  BY <1>1, <1>5 DEF ReadType
<1>8. Skipped(read') = Skipped(read)
  BY <1>7 DEF Skipped
<1>9. FileTypeOK'
  BY <1>1, <1>6 DEF FileTypeOK
<1>10. CASE ~read.steady
  BY <1>7, <1>9, <1>10 DEF FileInv, ReadIsWindow
<1>11. CASE read.steady
  <2>1. Collected(read) /\ (read.limit # None => read.limit > 0
                              /\ read.i < Skipped(read) + read.limit)
    BY <1>1, <1>11 DEF FileInv
  <2>2. Collected(read')
    BY <1>1, <1>2, <1>3, <1>6, <1>7, <1>8, <2>1, CollectOne
  <2>3. CASE AtEnd(read)
    <3>1. /\ read'.limit # None /\ read'.limit > 0
          /\ read'.i = Skipped(read') + read'.limit
      BY <1>1, <1>2, <1>7, <1>8, <2>1, <2>3, AtEndMeans
    <3>2. read'.out = Window(read')
      BY <1>1, <1>6, <2>2, <3>1, EndOfWindow
    <3>3. read'.out = Window(read)'
      BY <1>1, <3>2, SameFile
    <3>4. read'.at = "done"
      BY <1>4, <1>7, <2>3
    <3>5. QED
      BY <1>9, <3>3, <3>4 DEF FileInv, ReadIsWindow
  <2>4. CASE ~AtEnd(read)
    <3>1. read'.limit # None => read'.limit > 0
                                /\ read'.i < Skipped(read)' + read'.limit
      BY <1>1, <1>2, <1>7, <1>8, <2>1, <2>4, AtEndMeans, SameFile
    <3>2. read'.at = "lines"
      BY <1>1, <1>4, <1>7, <2>4
    <3>3. Collected(read)'
      BY <1>1, <2>2, SameFile
    <3>4. QED
      BY <1>9, <3>1, <3>2, <3>3 DEF FileInv, ReadIsWindow
  <2>5. QED
    BY <2>3, <2>4
<1>12. QED
  BY <1>1, <1>10, <1>11, ReadFields

LEMMA EndStep == FileInv /\ ReadEnd => FileInv'
<1> SUFFICES ASSUME FileInv, ReadEnd PROVE FileInv'
  OBVIOUS
<1>1. /\ read' = [read EXCEPT !.at = "done"] /\ file' = file /\ write' = write
      /\ read.at = "lines" /\ read.i >= Len(file) /\ read \in ReadType /\ FileTypeOK
  BY DEF ReadEnd, FileInv, FileTypeOK
<1>2. read' \in ReadType
  BY <1>1, DoneRead
<1>3. /\ read'.at = "done" /\ read'.steady = read.steady /\ read'.out = read.out
      /\ read'.i = read.i /\ read'.limit = read.limit /\ read'.line = read.line
  BY <1>1 DEF ReadType
<1>4. FileTypeOK'
  BY <1>1, <1>2 DEF FileTypeOK
<1>5. ASSUME read.steady PROVE read.out = Window(read)
  <2>1. Collected(read) /\ (read.limit # None => read.limit > 0
                              /\ read.i < Skipped(read) + read.limit)
    BY <1>1, <1>5 DEF FileInv
  <2>2. Len(file) \in Nat /\ read.i \in Nat /\ Skipped(read) \in Nat
    BY <1>1, ReadFields, FirstLine DEF FileTypeOK
  <2>3. read.i = Len(file)
    BY <1>1, <2>1, <2>2 DEF Collected
  <2>4. read.limit # None => read.limit > 0 /\ read.i <= Skipped(read) + read.limit
    BY <1>1, <2>1, <2>2, ReadFields
  <2>5. QED
    BY <1>1, <2>1, <2>3, <2>4, EndOfWindow
<1>6. Window(read)' = Window(read)
  BY <1>1, <1>3 DEF Window, First, Length
<1>7. QED
  BY <1>3, <1>4, <1>5, <1>6 DEF FileInv, ReadIsWindow

LEMMA FileStep == FileInv /\ [FileNext]_fileVars => FileInv'
<1> SUFFICES ASSUME FileInv, [FileNext]_fileVars
             PROVE  FileInv'
  OBVIOUS
<1>1. CASE ReadReply
  <2>1. read' = Idle /\ file' = file /\ write' = write
    BY <1>1 DEF ReadReply
  <2>2. << >> \in Seq(Line) /\ Idle \in ReadType
    BY DEF Idle, ReadType
  <2>3. QED
    BY <2>1, <2>2 DEF FileInv, FileTypeOK, Idle, ReadIsWindow
<1>2. CASE WriteRequest
  <2>1. \A t \in Texts : t \in Seq(Line)
    BY TextFileAssumption DEF TextFileAssumption
  <2>2. write' \in [at : {"idle", "open", "store"}, text : Seq(Line)]
    BY <1>2, <2>1 DEF WriteRequest
  <2>3. file' = file /\ read' = read
    BY <1>2 DEF WriteRequest
  <2>4. FileTypeOK'
    BY <2>2, <2>3 DEF FileInv, FileTypeOK
  <2>5. Window(read)' = Window(read) /\ (Collected(read)' <=> Collected(read))
        /\ Skipped(read)' = Skipped(read)
    BY <2>3 DEF Window, Collected, First, Length, Skipped
  <2>6. QED
    BY <2>3, <2>4, <2>5 DEF FileInv, ReadIsWindow
<1>3. CASE Truncate \/ Store
  <2>1. file' \in Seq(Line) /\ read' = [read EXCEPT !.steady = FALSE]
    <3>1. << >> \in Seq(Line) /\ write.text \in Seq(Line)
      BY DEF FileInv, FileTypeOK
    <3>2. QED
      BY <1>3, <3>1 DEF Truncate, Store, OnDisk
  <2>2. read' \in ReadType
    BY <2>1, DoneRead DEF FileInv, FileTypeOK
  <2>3. ~read'.steady
    BY <2>1 DEF FileInv, FileTypeOK, ReadType
  <2>4. write' \in [at : {"idle", "open", "store"}, text : Seq(Line)]
    <3>1. CASE Truncate
      BY <3>1 DEF Truncate, FileInv, FileTypeOK
    <3>2. CASE Store
      <4>1. << >> \in Seq(Line)
        OBVIOUS
      <4>2. QED
        BY <3>2, <4>1 DEF Store, NoWrite
    <3>3. QED
      BY <1>3, <3>1, <3>2
  <2>5. QED
    BY <2>1, <2>2, <2>3, <2>4 DEF FileInv, FileTypeOK, ReadIsWindow
<1>4. CASE UNCHANGED fileVars
  <2>1. file' = file /\ read' = read /\ write' = write
    BY <1>4 DEF fileVars
  <2>2. Window(read)' = Window(read) /\ (Collected(read)' <=> Collected(read))
        /\ Skipped(read)' = Skipped(read)
    BY <2>1 DEF Window, Collected, First, Length, Skipped
  <2>3. QED
    BY <2>1, <2>2 DEF FileInv, FileTypeOK, ReadIsWindow
<1>5. QED
  BY <1>1, <1>2, <1>3, <1>4, RequestStep, LineStep, EndStep
     DEF FileNext, FileRequest, FileWork
=============================================================================
