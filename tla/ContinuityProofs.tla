-------------------------- MODULE ContinuityProofs --------------------------
(* The continuity map for any number of contexts, conversations and runs:   *)
(* it stays within its bound, forgets the least recently recorded context   *)
(* only, and never gives one context the conversation of another.           *)
EXTENDS Continuity, FiniteSetTheorems, SequenceTheorems, TLAPS

\* a comes before b in the order; no key comes twice
Before(q, a, b) == \E i, j \in DOMAIN q : i < j /\ q[i] = a /\ q[j] = b
Distinct(q)     == \A i, j \in DOMAIN q : q[i] = q[j] => i = j

-----------------------------------------------------------------------------
(* The order of a dict.                                                     *)

(* The indices of a sequence that loses the element at p.                   *)
LEMMA Removing ==
  ASSUME NEW S, NEW q \in Seq(S), NEW p \in 1..Len(q)
  PROVE  LET w == SubSeq(q, 1, p - 1) \o SubSeq(q, p + 1, Len(q))
         IN  /\ w \in Seq(S) /\ Len(w) = Len(q) - 1
             /\ \A i \in 1..Len(w) : w[i] = IF i < p THEN q[i] ELSE q[i + 1]
<1>1. PICK n \in Nat : n = Len(q) /\ p \in 1..n /\ DOMAIN q = 1..n
  OBVIOUS
<1> DEFINE l == SubSeq(q, 1, p - 1)
           r == SubSeq(q, p + 1, n)
<1>2. l \in Seq(S) /\ Len(l) = p - 1 /\ \A i \in 1..p - 1 : l[i] = q[i]
  BY <1>1
<1>3. r \in Seq(S) /\ Len(r) = n - p /\ \A i \in 1..n - p : r[i] = q[i + p]
  BY <1>1
<1> HIDE DEF l, r
<1> DEFINE w == l \o r
<1>4. /\ w \in Seq(S) /\ Len(w) = n - 1
      /\ \A i \in 1..n - 1 : w[i] = IF i <= p - 1 THEN l[i] ELSE r[i - (p - 1)]
  <2>1. /\ w \in Seq(S) /\ Len(w) = Len(l) + Len(r)
        /\ \A i \in 1..Len(l) + Len(r) : w[i] = IF i <= Len(l) THEN l[i] ELSE r[i - Len(l)]
    BY <1>2, <1>3, ConcatProperties
  <2>2. Len(l) + Len(r) = n - 1
    BY <1>1, <1>2, <1>3
  <2>3. QED
    BY <1>2, <2>1, <2>2
<1> HIDE DEF w
<1>5. ASSUME NEW i \in 1..n - 1
      PROVE  w[i] = IF i < p THEN q[i] ELSE q[i + 1]
  <2>1. CASE i < p
    BY <1>1, <1>2, <1>4, <2>1
  <2>2. CASE i >= p
    <3>1. i - (p - 1) \in 1..n - p /\ i - (p - 1) + p = i + 1
      BY <1>1, <2>2
    <3>2. r[i - (p - 1)] = q[i + 1]
      BY <1>3, <3>1
    <3>3. QED
      BY <1>1, <1>4, <2>2, <3>2
  <2>3. QED
    BY <1>1, <2>1, <2>2
<1>6. Len(w) = Len(q) - 1
  BY <1>1, <1>4
<1>7. w = SubSeq(q, 1, p - 1) \o SubSeq(q, p + 1, Len(q))
  BY <1>1 DEF w, l, r
<1>8. QED
  BY <1>1, <1>4, <1>5, <1>6, <1>7

(* pop(): the key is gone, the others keep their order (executor.py:322).   *)
LEMMA WithoutFacts ==
  ASSUME NEW S, NEW q \in Seq(S), NEW e, Distinct(q)
  PROVE  /\ Without(q, e) \in Seq(S) /\ Distinct(Without(q, e))
         /\ \A y : Contains(Without(q, e), y) <=> Contains(q, y) /\ y # e
         /\ \A a, b : Before(Without(q, e), a, b) => Before(q, a, b)
<1> DEFINE w == Without(q, e)
<1>1. CASE ~Contains(q, e)
  BY <1>1 DEF Without, Contains
<1>2. CASE Contains(q, e)
  <2>1. PICK p \in 1..Len(q) : p = Position(q, e) /\ q[p] = e
    BY <1>2 DEF Contains, Position
  <2>2. w = SubSeq(q, 1, p - 1) \o SubSeq(q, p + 1, Len(q))
    BY <1>2, <2>1 DEF Without
  <2>3. /\ w \in Seq(S) /\ Len(w) = Len(q) - 1
        /\ \A i \in 1..Len(w) : w[i] = IF i < p THEN q[i] ELSE q[i + 1]
    <3> HIDE DEF w
    <3> QED
      BY <2>2, Removing, Zenon
  <2> HIDE DEF w
  <2> DEFINE at(i) == IF i < p THEN i ELSE i + 1
  <2>4. \A i \in 1..Len(w) : at(i) \in 1..Len(q) /\ w[i] = q[at(i)] /\ at(i) # p
    BY <2>3
  <2>5. \A i, j \in 1..Len(w) : (i < j => at(i) < at(j)) /\ (at(i) = at(j) => i = j)
    BY <2>3
  <2>6. \A k \in 1..Len(q) : k # p => \E i \in 1..Len(w) : at(i) = k
    <3> TAKE k \in 1..Len(q)
    <3>1. CASE k < p
      BY <2>3, <3>1
    <3>2. CASE k > p
      <4>1. k - 1 \in 1..Len(w) /\ at(k - 1) = k
        BY <2>3, <3>2
      <4>2. QED
        BY <4>1
    <3>3. QED
      BY <3>1, <3>2
  <2> HIDE DEF at
  <2>7. Distinct(w)
    BY <2>3, <2>4, <2>5 DEF Distinct
  <2>8. \A y : Contains(w, y) <=> Contains(q, y) /\ y # e
    <3>1. DOMAIN w = 1..Len(w) /\ DOMAIN q = 1..Len(q)
      BY <2>3
    <3>2. ASSUME NEW y, Contains(w, y) PROVE Contains(q, y) /\ y # e
      <4>1. PICK i \in 1..Len(w) : w[i] = y
        BY <3>1, <3>2 DEF Contains
      <4>2. at(i) \in 1..Len(q) /\ y = q[at(i)] /\ at(i) # p
        BY <2>4, <4>1
      <4>3. q[at(i)] # q[p]
        BY <2>1, <3>1, <4>2, Zenon DEF Distinct
      <4>4. QED
        BY <2>1, <3>1, <4>2, <4>3, Zenon DEF Contains
    <3>3. ASSUME NEW y, Contains(q, y), y # e PROVE Contains(w, y)
      <4>1. PICK k \in 1..Len(q) : q[k] = y
        BY <3>1, <3>3 DEF Contains
      <4>2. PICK i \in 1..Len(w) : at(i) = k
        BY <2>1, <2>6, <3>3, <4>1
      <4>3. QED
        BY <2>4, <3>1, <4>1, <4>2 DEF Contains
    <3>4. QED
      BY <3>2, <3>3
  <2>9. \A a, b : Before(w, a, b) => Before(q, a, b)
    BY <2>3, <2>4, <2>5 DEF Before
  <2>10. QED
    BY <2>3, <2>7, <2>8, <2>9 DEF w
<1>3. QED
  BY <1>1, <1>2

(* Pop-then-set: the key is the last one (executor.py:322-323).             *)
LEMMA MovedFacts ==
  ASSUME NEW x \in Context, recency \in Seq(Context), Distinct(recency)
  PROVE  /\ Moved(x) \in Seq(Context) /\ Distinct(Moved(x))
         /\ \A y : Contains(Moved(x), y) <=> Contains(recency, y) \/ y = x
         /\ \A a, b : Before(Moved(x), a, b) =>
              a # x /\ (Before(recency, a, b) \/ b = x)
         /\ \E n \in Nat \ {0} : n = Len(Moved(x)) /\ Moved(x)[n] = x
<1> DEFINE w == Without(recency, x)
<1>1. /\ w \in Seq(Context) /\ Distinct(w)
      /\ \A y : Contains(w, y) <=> Contains(recency, y) /\ y # x
      /\ \A a, b : Before(w, a, b) => Before(recency, a, b)
  BY WithoutFacts
<1>2. Moved(x) = Append(w, x)
  BY DEF Moved
<1> HIDE DEF w
<1> DEFINE m == Append(w, x)
<1>3. PICK n \in Nat : n = Len(w)
  BY <1>1
<1>4. /\ m \in Seq(Context) /\ Len(m) = n + 1 /\ m[n + 1] = x
      /\ \A i \in 1..n : m[i] = w[i]
  BY <1>1, <1>3
<1>5. DOMAIN m = 1..n + 1 /\ DOMAIN w = 1..n
  BY <1>1, <1>3, <1>4
<1> HIDE DEF m
<1>6. \A i \in 1..n : w[i] # x
  BY <1>1, <1>5 DEF Contains
<1>7. Distinct(m)
  BY <1>1, <1>4, <1>5, <1>6 DEF Distinct
<1>8. \A y : Contains(m, y) <=> Contains(recency, y) \/ y = x
  <2>1. \A y : Contains(m, y) <=> Contains(w, y) \/ y = x
    BY <1>4, <1>5 DEF Contains
  <2>2. QED
    BY <1>1, <2>1
<1>9. ASSUME NEW a, NEW b, Before(m, a, b)
      PROVE  a # x /\ (Before(recency, a, b) \/ b = x)
  <2>1. PICK i, j \in 1..n + 1 : i < j /\ m[i] = a /\ m[j] = b
    BY <1>5, <1>9 DEF Before
  <2>2. i \in 1..n /\ a = w[i]
    BY <1>4, <2>1
  <2>3. CASE j = n + 1
    BY <1>4, <1>6, <2>1, <2>2, <2>3
  <2>4. CASE j \in 1..n
    <3>1. Before(w, a, b)
      BY <1>4, <1>5, <2>1, <2>2, <2>4 DEF Before
    <3>2. QED
      BY <1>1, <1>6, <2>2, <3>1
  <2>5. QED
    BY <2>1, <2>3, <2>4
<1>10. QED
  BY <1>2, <1>4, <1>7, <1>8, <1>9 DEF m

(* The bound: what goes is at the front, so _MAX_CONTEXTS keys come after   *)
(* it; the last key stays (executor.py:324-326).                            *)
LEMMA KeptFacts ==
  ASSUME NEW m \in Seq(Context), Distinct(m)
  PROVE  /\ Kept(m) \in Seq(Context) /\ Len(Kept(m)) <= MaxContexts /\ Distinct(Kept(m))
         /\ \A y : Contains(Kept(m), y) => Contains(m, y)
         /\ \A a, b : Before(Kept(m), a, b) => Before(m, a, b)
         /\ \A n \in Nat \ {0} : n = Len(m) => Contains(Kept(m), m[n])
         /\ \A y, N : Contains(m, y) /\ ~Contains(Kept(m), y)
                       /\ IsFiniteSet(N) /\ (\A b : Before(m, y, b) => b \in N)
                      => Cardinality(N) >= MaxContexts
<1>1. PICK n \in Nat, M \in Nat \ {0} : n = Len(m) /\ M = MaxContexts /\ DOMAIN m = 1..n
  BY ContinuityAssumption
<1>2. CASE n <= M
  <2>1. Kept(m) = m
    BY <1>1, <1>2 DEF Kept
  <2>2. \A k \in Nat \ {0} : k = Len(m) => Contains(m, m[k])
    BY <1>1 DEF Contains
  <2>3. QED
    BY <1>1, <1>2, <2>1, <2>2
<1>3. CASE n > M
  <2> DEFINE q == SubSeq(m, n - M + 1, n)
  <2>1. Kept(m) = q
    BY <1>1, <1>3 DEF Kept
  <2>2. /\ q \in Seq(Context) /\ Len(q) = M /\ DOMAIN q = 1..M
        /\ \A i \in 1..M : q[i] = m[i + (n - M)]
    BY <1>1, <1>3
  <2> HIDE DEF q
  <2> DEFINE at(i) == i + (n - M)
  <2>3. /\ \A i \in 1..M : at(i) \in 1..n /\ q[i] = m[at(i)]
        /\ \A i, j \in 1..M : (i < j => at(i) < at(j)) /\ (at(i) = at(j) => i = j)
        /\ \A k \in 1..n : k > n - M => \E i \in 1..M : at(i) = k
    <3>1. ASSUME NEW k \in 1..n, k > n - M PROVE \E i \in 1..M : at(i) = k
      <4>1. k - (n - M) \in 1..M /\ at(k - (n - M)) = k
        BY <1>1, <1>3, <3>1
      <4>2. QED
        BY <4>1
    <3>2. QED
      BY <1>1, <1>3, <2>2, <3>1
  <2>4. \A k \in Nat : k = n => k \in 1..n /\ k > n - M
    BY <1>1, <1>3
  <2> HIDE DEF at
  <2>5. Distinct(q)
    BY <1>1, <2>2, <2>3 DEF Distinct
  <2>6. \A y : Contains(q, y) => Contains(m, y)
    BY <1>1, <2>2, <2>3 DEF Contains
  <2>7. \A a, b : Before(q, a, b) => Before(m, a, b)
    BY <1>1, <2>2, <2>3 DEF Before
  <2>8. ASSUME NEW k \in 1..n, k > n - M PROVE Contains(q, m[k])
    <3>1. PICK i \in 1..M : at(i) = k
      BY <2>3, <2>8
    <3>2. QED
      BY <2>2, <2>3, <3>1 DEF Contains
  <2>9. ASSUME NEW y, NEW N, Contains(m, y), ~Contains(q, y), IsFiniteSet(N),
               \A b : Before(m, y, b) => b \in N
        PROVE  Cardinality(N) >= M
    <3>1. PICK k \in 1..n : m[k] = y
      BY <1>1, <2>9 DEF Contains
    <3>2. \A i \in 1..M : k < at(i)
      <4>1. ~(k > n - M)
        BY <2>8, <2>9, <3>1
      <4>2. QED
        BY <1>1, <1>3, <4>1 DEF at
    <3>3. \A i \in 1..M : q[i] \in N
      BY <1>1, <2>3, <2>9, <3>1, <3>2 DEF Before
    <3>4. [i \in 1..M |-> q[i]] \in Injection(1..M, N)
      BY <2>2, <2>5, <3>3 DEF Distinct, Injection, IsInjective
    <3>5. Cardinality(1..M) <= Cardinality(N)
      BY <2>9, <3>4, FS_Injection
    <3>6. Cardinality(1..M) = M
      BY <1>1, FS_Interval
    <3>7. Cardinality(N) \in Nat
      BY <2>9, FS_CardinalityType
    <3>8. QED
      BY <1>1, <3>5, <3>6, <3>7
  <2>10. Contains(q, m[n])
    BY <1>1, <2>4, <2>8
  <2>11. Len(q) <= MaxContexts
    BY <1>1, <2>2
  <2>12. QED
    BY <1>1, <2>1, <2>2, <2>5, <2>6, <2>7, <2>9, <2>10, <2>11
<1>4. QED
  BY <1>1, <1>2, <1>3

-----------------------------------------------------------------------------
(* The map.                                                                 *)

\* the order tells which contexts were recorded later than which
Ordered == /\ Distinct(recency)
           /\ \A a, b : Before(recency, a, b) => b \in newer[a]

\* what is in the map is the last result's, and what is gone made room for
\* enough others
Remembered ==
  \A x \in Context :
    last[x] # None => \/ ids[x] = last[x]
                      \/ ids[x] = None /\ Cardinality(newer[x]) >= MaxContexts

Inv == TypeOK /\ BoundedContinuity /\ Ordered /\ Remembered

LEMMA InitInv == Init => Inv
<1> SUFFICES ASSUME Init PROVE Inv
  OBVIOUS
<1>1. DOMAIN recency = {} /\ Len(recency) = 0 /\ recency \in Seq(Context)
  BY DEF Init
<1>2. TypeOK
  BY <1>1 DEF Init, TypeOK, Contains
<1>3. BoundedContinuity
  BY <1>1, ContinuityAssumption DEF BoundedContinuity
<1>4. Ordered
  BY <1>1 DEF Ordered, Distinct, Before
<1>5. Remembered
  BY DEF Init, Remembered
<1>6. QED
  BY <1>2, <1>3, <1>4, <1>5 DEF Inv

\* the types of what Remember() leaves alone
RunsOK == \A r \in Run : run[r] = None \/
            run[r] \in [context : Context, resume : Conversation \cup {None},
                       in : Conversation \cup {None}]

LEMMA RunUpdate ==
  ASSUME RunsOK, NEW r \in Run, NEW e,
         e = None \/ e \in [context : Context, resume : Conversation \cup {None},
                           in : Conversation \cup {None}],
         run' = [run EXCEPT ![r] = e]
  PROVE  RunsOK'
<1>1. \A s \in Run : run'[s] = run[s] \/ run'[s] = e
  OBVIOUS
<1>2. QED
  BY <1>1, Zenon DEF RunsOK

(* A result with a conversation is recorded (executor.py:317-326).          *)
LEMMA RecordInv ==
  ASSUME Inv, RunsOK', NEW x \in Context, NEW v \in Conversation, Remember(x, v),
         last' = [last EXCEPT ![x] = v],
         newer' = [y \in Context |-> IF y = x THEN {} ELSE newer[y] \cup {x}]
  PROVE  Inv'
<1> DEFINE m == Moved(x)
           q == Kept(m)
<1>1. /\ recency \in Seq(Context) /\ Distinct(recency)
      /\ last \in [Context -> Conversation \cup {None}]
      /\ newer \in [Context -> SUBSET Context]
      /\ ids \in [Context -> Conversation \cup {None}]
      /\ \A y \in Context : Contains(recency, y) <=> ids[y] # None
  BY DEF Inv, TypeOK, Ordered
<1>2. /\ m \in Seq(Context) /\ Distinct(m)
      /\ \A y : Contains(m, y) <=> Contains(recency, y) \/ y = x
      /\ \A a, b : Before(m, a, b) => a # x /\ (Before(recency, a, b) \/ b = x)
      /\ \E n \in Nat \ {0} : n = Len(m) /\ m[n] = x
  BY <1>1, MovedFacts
<1>3. /\ recency' = q
      /\ ids' = [y \in Context |-> IF ~Contains(q, y) THEN None
                                   ELSE IF y = x THEN v ELSE ids[y]]
  BY DEF Remember
<1> HIDE DEF m
<1>4. /\ q \in Seq(Context) /\ Len(q) <= MaxContexts /\ Distinct(q)
      /\ \A y : Contains(q, y) => Contains(m, y)
      /\ \A a, b : Before(q, a, b) => Before(m, a, b)
      /\ \A n \in Nat \ {0} : n = Len(m) => Contains(q, m[n])
      /\ \A y, N : Contains(m, y) /\ ~Contains(q, y)
                    /\ IsFiniteSet(N) /\ (\A b : Before(m, y, b) => b \in N)
                   => Cardinality(N) >= MaxContexts
  BY <1>2, KeptFacts
<1>5. Contains(q, x)
  BY <1>2, <1>4
<1> HIDE DEF q
<1>6. v # None
  BY ContinuityAssumption
<1>7. \A y \in Context : Contains(q, y) <=> ids'[y] # None
  <2> TAKE y \in Context
  <2>1. CASE ~Contains(q, y)
    BY <1>3, <2>1
  <2>2. CASE Contains(q, y) /\ y = x
    BY <1>3, <1>6, <2>2
  <2>3. CASE Contains(q, y) /\ y # x
    <3>1. ids'[y] = ids[y]
      BY <1>3, <2>3
    <3>2. Contains(recency, y)
      BY <1>2, <1>4, <2>3
    <3>3. QED
      BY <1>1, <2>3, <3>1, <3>2
  <2>4. QED
    BY <2>1, <2>2, <2>3
<1>8. ids' \in [Context -> Conversation \cup {None}]
  BY <1>1, <1>3
<1>9. /\ last' \in [Context -> Conversation \cup {None}]
      /\ newer' \in [Context -> SUBSET Context]
  BY <1>1
<1>10. TypeOK'
  <2>1. \A y \in Context : Contains(recency', y) <=> ids'[y] # None
    BY <1>3, <1>7, Zenon
  <2>2. recency' \in Seq(Context)
    BY <1>3, <1>4
  <2>3. QED
    BY <1>8, <1>9, <2>1, <2>2, Zenon DEF TypeOK, RunsOK
<1>11. BoundedContinuity'
  BY <1>3, <1>4 DEF BoundedContinuity
<1>12. ASSUME NEW a, NEW b, Before(m, a, b)
       PROVE  a \in Context /\ b \in newer'[a]
  <2>1. a \in Context
    BY <1>2, <1>12 DEF Before
  <2>2. a # x /\ newer'[a] = newer[a] \cup {x}
    BY <1>2, <1>12, <2>1
  <2>3. Before(recency, a, b) => b \in newer[a]
    BY DEF Inv, Ordered
  <2>4. QED
    BY <1>2, <1>12, <2>1, <2>2, <2>3
<1>13. Ordered'
  <2>1. Distinct(recency')
    BY <1>3, <1>4, Zenon
  <2>2. \A a, b : Before(recency', a, b) => b \in newer'[a]
    BY <1>3, <1>4, <1>12, Zenon
  <2>3. QED
    BY <2>1, <2>2, Zenon DEF Ordered, Distinct, Before
<1>14. \A y \in Context : IsFiniteSet(newer[y]) /\ IsFiniteSet(newer'[y])
  BY <1>1, <1>9, ContinuityAssumption, FS_Subset
<1>15. ASSUME NEW y \in Context, last'[y] # None
       PROVE  ids'[y] = last'[y] \/ (ids'[y] = None /\ Cardinality(newer'[y]) >= MaxContexts)
  <2>1. CASE y = x
    BY <1>1, <1>3, <1>5, <2>1
  <2>2. CASE y # x
    <3>1. last'[y] = last[y] /\ newer'[y] = newer[y] \cup {x}
      BY <1>1, <2>2
    <3>2. last[y] # None => ids[y] = last[y] \/ (ids[y] = None /\ Cardinality(newer[y]) >= MaxContexts)
      BY DEF Inv, Remembered
    <3>3. CASE Contains(q, y)
      <4>1. ids'[y] = ids[y] /\ ids[y] # None
        BY <1>1, <1>2, <1>3, <1>4, <2>2, <3>3
      <4>2. QED
        BY <1>15, <3>1, <3>2, <4>1
    <3>4. CASE ~Contains(q, y) /\ Contains(recency, y)
      <4>1. ids'[y] = None
        BY <1>3, <3>4
      <4>2. Cardinality(newer'[y]) >= MaxContexts
        BY <1>2, <1>4, <1>12, <1>14, <3>4
      <4>3. QED
        BY <4>1, <4>2
    <3>5. CASE ~Contains(q, y) /\ ~Contains(recency, y)
      <4>1. ids'[y] = None /\ ids[y] = None
        BY <1>1, <1>3, <3>5
      <4>2. Cardinality(newer[y]) >= MaxContexts
        BY <1>15, <3>1, <3>2, <4>1
      <4>3. Cardinality(newer[y]) <= Cardinality(newer'[y])
        BY <1>14, <3>1, FS_Subset
      <4>4. Cardinality(newer[y]) \in Nat /\ Cardinality(newer'[y]) \in Nat
        BY <1>14, FS_CardinalityType
      <4>5. QED
        BY <4>1, <4>2, <4>3, <4>4, ContinuityAssumption
    <3>6. QED
      BY <3>3, <3>4, <3>5
  <2>3. QED
    BY <2>1, <2>2
<1>16. Remembered'
  BY <1>15 DEF Remembered
<1>17. QED
  BY <1>10, <1>11, <1>13, <1>16 DEF Inv

LEMMA SameMap ==
  ASSUME Inv, RunsOK', UNCHANGED <<ids, recency, last, newer>>
  PROVE  Inv'
<1>1. TypeOK'
  BY DEF Inv, TypeOK, RunsOK
<1>2. QED
  BY <1>1 DEF Inv, BoundedContinuity, Ordered, Remembered, Distinct, Before

LEMMA NextInv == Inv /\ [Next]_vars => Inv'
<1> SUFFICES ASSUME Inv, [Next]_vars PROVE Inv'
  OBVIOUS
<1>1. RunsOK /\ ids \in [Context -> Conversation \cup {None}]
  BY DEF Inv, TypeOK, RunsOK
<1>2. ASSUME NEW r \in Run, NEW x \in Context, Start(r, x) PROVE Inv'
  <2>1. [context |-> x, resume |-> Resumed(x), in |-> None] \in
          [context : Context, resume : Conversation \cup {None}, in : Conversation \cup {None}]
    BY <1>1 DEF Resumed
  <2>2. RunsOK'
    BY <1>1, <1>2, <2>1, RunUpdate DEF Start
  <2>3. QED
    BY <1>2, <2>2, SameMap DEF Start
<1>3. ASSUME NEW r \in Run, Open(r) PROVE Inv'
  <2>1. PICK v \in Conversation : run' = [run EXCEPT ![r].in = v]
    BY <1>3 DEF Open
  <2>2. run[r] \in [context : Context, resume : Conversation \cup {None},
                   in : Conversation \cup {None}]
    BY <1>1, <1>3 DEF Open, RunsOK
  <2>3. PICK e : /\ e \in [context : Context, resume : Conversation \cup {None},
                          in : Conversation \cup {None}]
                 /\ run' = [run EXCEPT ![r] = e]
    BY <2>1, <2>2
  <2>4. RunsOK'
    BY <1>1, <2>3, RunUpdate
  <2>5. QED
    BY <1>3, <2>4, SameMap DEF Open
<1>4. ASSUME NEW r \in Run, Finish(r) PROVE Inv'
  <2>1. RunsOK'
    BY <1>1, <1>4, RunUpdate DEF Finish
  <2>2. run[r] \in [context : Context, resume : Conversation \cup {None},
                   in : Conversation \cup {None}]
    BY <1>1, <1>4 DEF Finish, RunsOK
  <2>3. PICK x \in Context : x = run[r].context
    BY <2>2
  <2>4. PICK v \in {run[r].in, None} :
           \/ /\ Named(v)
              /\ Remember(x, v)
              /\ last' = [last EXCEPT ![x] = v]
              /\ newer' = [y \in Context |-> IF y = x THEN {} ELSE newer[y] \cup {x}]
           \/ ~Named(v) /\ UNCHANGED <<ids, recency, last, newer>>
    BY <1>4, <2>3, Zenon DEF Finish
  <2>5. CASE Named(v)
    <3>1. v \in Conversation
      BY <2>2, <2>5 DEF Named
    <3>2. QED
      BY <2>1, <2>4, <2>5, <3>1, RecordInv
  <2>6. CASE ~Named(v)
    BY <2>1, <2>4, <2>6, SameMap
  <2>7. QED
    BY <2>5, <2>6
<1>5. ASSUME NEW r \in Run, End(r) PROVE Inv'
  BY <1>1, <1>5, RunUpdate, SameMap DEF End
<1>6. CASE UNCHANGED vars
  <2>1. RunsOK'
    BY <1>1, <1>6 DEF vars, RunsOK
  <2>2. QED
    BY <1>6, <2>1, SameMap DEF vars
<1>7. QED
  BY <1>2, <1>3, <1>4, <1>5, <1>6 DEF Next

LEMMA Invariance == Spec => []Inv
BY InitInv, NextInv, PTL DEF Spec

(* The map, its order and the runs keep their types, and the order lists    *)
(* exactly the mapped contexts (executor.py:115-116).                       *)
THEOREM TypeCorrect == Spec => []TypeOK
BY Invariance, PTL DEF Inv

(* The map never outgrows _MAX_CONTEXTS (executor.py:324-326).              *)
THEOREM StaysBounded == Spec => []BoundedContinuity
BY Invariance, PTL DEF Inv

(* A context is forgotten only once _MAX_CONTEXTS others had results        *)
(* recorded since its own (executor.py:317-326).                            *)
THEOREM RecentIsKept == Spec => []KeptWhileRecent
<1>1. Inv => KeptWhileRecent
  <2> SUFFICES ASSUME Inv, NEW x \in Context,
                      last[x] # None, Cardinality(newer[x]) < MaxContexts
               PROVE  ids[x] = last[x]
    BY DEF KeptWhileRecent
  <2>1. IsFiniteSet(newer[x])
    BY ContinuityAssumption, FS_Subset DEF Inv, TypeOK
  <2>2. Cardinality(newer[x]) \in Nat
    BY <2>1, FS_CardinalityType
  <2>3. QED
    BY <2>2, ContinuityAssumption DEF Inv, Remembered
<1>2. QED
  BY <1>1, Invariance, PTL

-----------------------------------------------------------------------------
(* Conversations.                                                           *)

\* what a run in another context does to the holders of a conversation
LEMMA HoldsAfter ==
  ASSUME RunsOK, NEW r \in Run, NEW e,
         run' = [run EXCEPT ![r] = e], ids' = ids,
         NEW z \in Context, NEW v \in Conversation, Holds(z, v)'
  PROVE  Holds(z, v) \/ (e.context = z /\ v \in {e.resume, e.in})
<1>1. CASE ids'[z] = v
  BY <1>1 DEF Holds
<1>2. CASE \E s \in Run : /\ run'[s] # None /\ run'[s].context = z
                          /\ v \in {run'[s].resume, run'[s].in}
  <2>1. PICK s \in Run : /\ run'[s] # None /\ run'[s].context = z
                         /\ v \in {run'[s].resume, run'[s].in}
    BY <1>2
  <2>2. run'[s] = run[s] \/ run'[s] = e
    OBVIOUS
  <2>3. CASE run'[s] = run[s]
    BY <2>1, <2>3 DEF Holds
  <2>4. CASE run'[s] = e
    BY <2>1, <2>4
  <2>5. QED
    BY <2>2, <2>3, <2>4
<1>3. QED
  BY <1>1, <1>2, Zenon DEF Holds

\* a step that opens nothing gives nobody another conversation
LEMMA HoldsLess ==
  ASSUME NEW z \in Context, NEW v \in Conversation, Holds(z, v)',
         ids'[z] = v => Holds(z, v),
         \A s \in Run : run'[s] # None => run'[s] = run[s]
  PROVE  Holds(z, v)
<1>1. CASE \E s \in Run : /\ run'[s] # None /\ run'[s].context = z
                          /\ v \in {run'[s].resume, run'[s].in}
  BY <1>1 DEF Holds
<1>2. QED
  BY <1>1, Zenon DEF Holds

LEMMA NextSeparate ==
  Inv /\ ConversationOfOneContext /\ [Next]_vars => ConversationOfOneContext'
<1> SUFFICES ASSUME Inv, ConversationOfOneContext, [Next]_vars
             PROVE  ConversationOfOneContext'
  OBVIOUS
<1>1. /\ RunsOK /\ ids \in [Context -> Conversation \cup {None}]
      /\ \A r \in Run : run[r] # None =>
           run[r] \in [context : Context, resume : Conversation \cup {None},
                      in : Conversation \cup {None}]
  BY DEF Inv, TypeOK, RunsOK
<1>2. \A v \in Conversation : v # None
  BY ContinuityAssumption
<1>3. ASSUME \A z \in Context, v \in Conversation : Holds(z, v)' => Holds(z, v)
      PROVE  ConversationOfOneContext'
  BY <1>3, Zenon DEF ConversationOfOneContext
<1>4. ASSUME NEW r \in Run, NEW x \in Context, Start(r, x)
      PROVE  ConversationOfOneContext'
  <2> DEFINE e == [context |-> x, resume |-> ids[x], in |-> None]
  <2>1. run' = [run EXCEPT ![r] = e] /\ ids' = ids
    BY <1>4 DEF Start, Resumed
  <2>2. ASSUME NEW z \in Context, NEW v \in Conversation, Holds(z, v)' PROVE Holds(z, v)
    <3>1. Holds(z, v) \/ (e.context = z /\ v \in {e.resume, e.in})
      BY <1>1, <2>1, <2>2, HoldsAfter
    <3>2. e.context = z /\ v \in {e.resume, e.in} => ids[z] = v
      BY <1>2
    <3>3. QED
      BY <3>1, <3>2 DEF Holds
  <2>3. QED
    BY <1>3, <2>2
<1>5. ASSUME NEW r \in Run, Open(r) PROVE ConversationOfOneContext'
  <2>1. PICK w \in Conversation :
          /\ w = run[r].resume \/ \A x \in Context : ~Holds(x, w)
          /\ run' = [run EXCEPT ![r].in = w] /\ ids' = ids
    BY <1>5 DEF Open
  <2>2. run[r] # None /\ run[r].in = None
    BY <1>5 DEF Open
  <2>3. PICK e : e = [run[r] EXCEPT !.in = w]
    OBVIOUS
  <2>4. /\ e.context = run[r].context /\ e.resume = run[r].resume /\ e.in = w
        /\ run' = [run EXCEPT ![r] = e]
    BY <1>1, <2>1, <2>2, <2>3
  <2>5. ASSUME NEW z \in Context, NEW v \in Conversation, Holds(z, v)'
        PROVE  Holds(z, v) \/ (z = run[r].context /\ v = w)
    <3>1. Holds(z, v) \/ (e.context = z /\ v \in {e.resume, e.in})
      BY <1>1, <2>1, <2>4, <2>5, HoldsAfter
    <3>2. CASE e.context = z /\ v = run[r].resume
      BY <2>2, <2>4, <3>2 DEF Holds
    <3>3. QED
      BY <2>4, <3>1, <3>2
  <2>6. CASE w = run[r].resume
    <3>1. Holds(run[r].context, w)
      BY <2>2, <2>6 DEF Holds
    <3>2. QED
      BY <1>3, <2>5, <3>1
  <2>7. CASE \A x \in Context : ~Holds(x, w)
    <3> SUFFICES ASSUME NEW v \in Conversation, NEW x \in Context, NEW y \in Context,
                        Holds(x, v)', Holds(y, v)'
                 PROVE  x = y
      BY Zenon DEF ConversationOfOneContext
    <3>1. (Holds(x, v) \/ (x = run[r].context /\ v = w)) /\ (Holds(y, v) \/ (y = run[r].context /\ v = w))
      BY <2>5
    <3>2. Holds(x, v) /\ Holds(y, v) => x = y
      BY DEF ConversationOfOneContext
    <3>3. QED
      BY <2>7, <3>1, <3>2
  <2>8. QED
    BY <2>1, <2>6, <2>7
<1>6. ASSUME NEW r \in Run, Finish(r) PROVE ConversationOfOneContext'
  <2>1. run[r] # None /\ run[r].in # None /\ run' = [run EXCEPT ![r] = None]
    BY <1>6 DEF Finish
  <2>2. PICK x \in Context : x = run[r].context
    BY <1>1, <2>1
  <2>3. \A z \in Context : ids'[z] \in {None, ids[z]} \/ (z = x /\ ids'[z] = run[r].in)
    <3>1. PICK w \in {run[r].in, None} :
            \/ Named(w) /\ Remember(x, w)
            \/ ~Named(w) /\ ids' = ids
      BY <1>6, <2>2, Zenon DEF Finish
    <3>2. CASE Named(w) /\ Remember(x, w)
      BY <3>1, <3>2 DEF Remember, Named
    <3>3. QED
      BY <3>1, <3>2
  <2>4. ASSUME NEW z \in Context, NEW v \in Conversation, Holds(z, v)' PROVE Holds(z, v)
    <3>1. ids'[z] = v => Holds(z, v)
      BY <1>2, <2>1, <2>2, <2>3 DEF Holds
    <3>2. \A s \in Run : run'[s] # None => run'[s] = run[s]
      BY <2>1
    <3>3. QED
      BY <2>4, <3>1, <3>2, HoldsLess
  <2>5. QED
    BY <1>3, <2>4
<1>7. ASSUME NEW r \in Run, End(r) PROVE ConversationOfOneContext'
  <2>1. ASSUME NEW z \in Context, NEW v \in Conversation, Holds(z, v)' PROVE Holds(z, v)
    <3>1. ids'[z] = v => Holds(z, v)
      BY <1>7 DEF End, Holds
    <3>2. \A s \in Run : run'[s] # None => run'[s] = run[s]
      BY <1>7 DEF End
    <3>3. QED
      BY <2>1, <3>1, <3>2, HoldsLess
  <2>2. QED
    BY <1>3, <2>1
<1>8. CASE UNCHANGED vars
  BY <1>8 DEF vars, ConversationOfOneContext, Holds
<1>9. QED
  BY <1>4, <1>5, <1>6, <1>7, <1>8 DEF Next

(* Whatever overlaps, is forgotten or fails, a conversation belongs to one  *)
(* context (executor.py:156-160, 253-254, 317-326).                         *)
THEOREM ConversationsKeptApart == Spec => []ConversationOfOneContext
<1>1. Init => ConversationOfOneContext
  BY ContinuityAssumption DEF Init, ConversationOfOneContext, Holds
<1>2. QED
  BY <1>1, NextSeparate, Invariance, PTL DEF Spec
=============================================================================
