------------------------- MODULE LogPipelineProofs -------------------------
(***************************************************************************)
(* TLAPS proofs about LogPipeline, for any number of producers and records *)
(* and any capacity.                                                       *)
(***************************************************************************)
EXTENDS LogPipeline, SequenceTheorems, TLAPS

-----------------------------------------------------------------------------
(* The queue as a sequence: its elements, their order, no repetitions. *)

LEMMA MembersAreRange == \A s : ToSet(s) = Range(s)
  BY DEF ToSet, Range

LEMMA Members ==
  ASSUME NEW S, NEW s \in Seq(S)
  PROVE  ToSet(s) = {s[i] : i \in 1 .. Len(s)} /\ ToSet(s) \subseteq S
  BY DEF ToSet

\* An empty queue has no elements.
LEMMA NoMembers == ToSet(<<>>) = {}
  BY DEF ToSet

LEMMA MembersOfConcat ==
  ASSUME NEW S, NEW s \in Seq(S), NEW t \in Seq(S)
  PROVE  ToSet(s \o t) = ToSet(s) \cup ToSet(t)
  <1>1. Range(s \o t) = Range(s) \cup Range(t)
    BY RangeConcatenation
  <1> QED
    BY <1>1, MembersAreRange

\* Appending adds one element, taking the front leaves the others.
LEMMA MembersOfAppend ==
  ASSUME NEW S, NEW s \in Seq(S), NEW e \in S
  PROVE  ToSet(Append(s, e)) = ToSet(s) \cup {e}
  <1> DEFINE t == <<e>>
  <1>1. Append(s, e) = s \o t /\ t \in Seq(S)
    BY AppendIsConcat
  <1>2. ToSet(t) = {e}
    BY DEF ToSet
  <1> HIDE DEF t
  <1>3. ToSet(s \o t) = ToSet(s) \cup ToSet(t)
    BY <1>1, MembersOfConcat
  <1> QED
    BY <1>1, <1>2, <1>3

LEMMA MembersOfTail ==
  ASSUME NEW S, NEW s \in Seq(S), s # <<>>
  PROVE  ToSet(s) = {Head(s)} \cup ToSet(Tail(s))
  <1> DEFINE t == <<Head(s)>>
             r == Tail(s)
  <1>1. s = t \o r /\ t \in Seq(S) /\ r \in Seq(S)
    OBVIOUS
  <1>2. ToSet(t) = {Head(s)}
    BY DEF ToSet
  <1> HIDE DEF t, r
  <1>3. ToSet(t \o r) = ToSet(t) \cup ToSet(r)
    BY <1>1, MembersOfConcat
  <1> QED
    BY <1>1, <1>2, <1>3 DEF r

\* Moving the front of one queue to the back of another keeps both in order.
LEMMA MoveFront ==
  ASSUME NEW S, NEW s \in Seq(S), NEW t \in Seq(S), t # <<>>
  PROVE  Append(s, Head(t)) \o Tail(t) = s \o t
  OBVIOUS

LEMMA AppendToConcat ==
  ASSUME NEW S, NEW s \in Seq(S), NEW t \in Seq(S), NEW e \in S
  PROVE  Append(s \o t, e) = s \o Append(t, e)
  OBVIOUS

\* A new element keeps a queue free of repetitions; the front of one that is
\* does not occur in it again.
LEMMA InjectiveAppend ==
  ASSUME NEW S, NEW s \in Seq(S), NEW e \in S, e \notin ToSet(s), IsInjective(s)
  PROVE  IsInjective(Append(s, e))
  BY DEF ToSet, IsInjective

LEMMA InjectiveTail ==
  ASSUME NEW S, NEW s \in Seq(S), s # <<>>, IsInjective(s)
  PROVE  Head(s) \notin ToSet(Tail(s)) /\ IsInjective(Tail(s))
  BY DEF ToSet, IsInjective

\* Two queues that make up one without repetitions share nothing.
LEMMA InjectiveConcat ==
  ASSUME NEW S, NEW s \in Seq(S), NEW t \in Seq(S), IsInjective(s \o t)
  PROVE  /\ IsInjective(s) /\ IsInjective(t)
         /\ ToSet(s) \cap ToSet(t) = {}
  <1> DEFINE c == s \o t
  <1>1. c \in Seq(S) /\ Len(c) = Len(s) + Len(t)
        /\ \A i \in 1 .. Len(s) + Len(t) :
             c[i] = IF i <= Len(s) THEN s[i] ELSE t[i - Len(s)]
    BY ConcatProperties
  <1> HIDE DEF c
  <1>2. Len(s) \in Nat /\ Len(t) \in Nat
        /\ DOMAIN c = 1 .. Len(c) /\ DOMAIN s = 1 .. Len(s) /\ DOMAIN t = 1 .. Len(t)
    BY <1>1, LenProperties
  <1>3. \A i, j \in 1 .. Len(c) : c[i] = c[j] => i = j
    BY <1>2 DEF IsInjective, c
  <1>4. \A i \in 1 .. Len(s) : i \in 1 .. Len(c) /\ c[i] = s[i]
    BY <1>1, <1>2
  <1>5. ASSUME NEW i \in 1 .. Len(t)
        PROVE  Len(s) + i \in 1 .. Len(c) /\ c[Len(s) + i] = t[i]
    BY <1>1, <1>2
  <1>6. IsInjective(s)
    BY <1>2, <1>3, <1>4 DEF IsInjective
  <1>7. IsInjective(t)
    <2> SUFFICES ASSUME NEW i \in 1 .. Len(t), NEW j \in 1 .. Len(t), t[i] = t[j]
                 PROVE  i = j
      BY <1>2 DEF IsInjective
    <2>1. Len(s) + i = Len(s) + j
      BY <1>3, <1>5
    <2> QED
      BY <1>2, <2>1
  <1>8. ASSUME NEW i \in 1 .. Len(s), NEW j \in 1 .. Len(t) PROVE s[i] # t[j]
    <2>1. i # Len(s) + j
      BY <1>2
    <2> QED
      BY <1>3, <1>4, <1>5, <2>1
  <1> QED
    BY <1>6, <1>7, <1>8, Members

\* Conversely, queues that share nothing make one without repetitions.
LEMMA DisjointConcat ==
  ASSUME NEW S, NEW s \in Seq(S), NEW t \in Seq(S),
         IsInjective(s), IsInjective(t), ToSet(s) \cap ToSet(t) = {}
  PROVE  IsInjective(s \o t)
  <1> DEFINE c == s \o t
  <1>1. c \in Seq(S) /\ Len(c) = Len(s) + Len(t)
        /\ \A i \in 1 .. Len(s) + Len(t) :
             c[i] = IF i <= Len(s) THEN s[i] ELSE t[i - Len(s)]
    BY ConcatProperties
  <1>2. Len(s) \in Nat /\ Len(t) \in Nat /\ DOMAIN c = 1 .. Len(c)
    BY <1>1, LenProperties
  <1>3. \A i, j \in 1 .. Len(s) : s[i] = s[j] => i = j
    BY DEF IsInjective
  <1>4. \A i, j \in 1 .. Len(t) : t[i] = t[j] => i = j
    BY DEF IsInjective
  <1>5. \A i \in 1 .. Len(s), j \in 1 .. Len(t) : s[i] # t[j]
    <2>1. \A i \in 1 .. Len(s) : s[i] \in ToSet(s)
      BY Members
    <2>2. \A j \in 1 .. Len(t) : t[j] \in ToSet(t)
      BY Members
    <2> QED
      BY <2>1, <2>2
  <1> HIDE DEF c
  <1>6. ASSUME NEW i \in 1 .. Len(c), NEW j \in 1 .. Len(c), c[i] = c[j]
        PROVE  i = j
    <2>1. CASE i <= Len(s) /\ j <= Len(s)
      BY <1>1, <1>2, <1>3, <1>6, <2>1
    <2>2. CASE i <= Len(s) /\ ~ (j <= Len(s))
      <3>1. j - Len(s) \in 1 .. Len(t) /\ c[j] = t[j - Len(s)] /\ c[i] = s[i]
        BY <1>1, <1>2, <2>2
      <3> QED
        BY <1>1, <1>2, <1>5, <1>6, <2>2, <3>1
    <2>3. CASE ~ (i <= Len(s)) /\ j <= Len(s)
      <3>1. i - Len(s) \in 1 .. Len(t) /\ c[i] = t[i - Len(s)] /\ c[j] = s[j]
        BY <1>1, <1>2, <2>3
      <3>2. j \in 1 .. Len(s)
        BY <1>1, <1>2, <2>3
      <3>3. s[j] # t[i - Len(s)]
        BY <1>5, <3>1, <3>2
      <3> QED
        BY <1>6, <3>1, <3>3
    <2>4. CASE ~ (i <= Len(s)) /\ ~ (j <= Len(s))
      <3>1. /\ i - Len(s) \in 1 .. Len(t) /\ c[i] = t[i - Len(s)]
            /\ j - Len(s) \in 1 .. Len(t) /\ c[j] = t[j - Len(s)]
        BY <1>1, <1>2, <2>4
      <3>2. i - Len(s) = j - Len(s)
        BY <1>4, <1>6, <3>1
      <3>3. i \in Int /\ j \in Int /\ Len(s) \in Int
        BY <1>1, <1>2
      <3> QED
        BY <3>2, <3>3
    <2> QED
      BY <2>1, <2>2, <2>3, <2>4
  <1> QED
    BY <1>2, <1>6 DEF IsInjective, c
-----------------------------------------------------------------------------
(* The numbers that producers hold and have yet to enqueue. *)
Held == {number[p] : p \in {q \in Producers : producer[q] = "created"}}

(* The records that passed into the queue and were not given up, in the    *)
(* order they entered it: processed, with the worker, still queued.        *)
Taken == IF worker = "process" THEN <<current>> ELSE <<>>
Line  == processed \o Taken \o queue

(* What a producer holds is the last record it made. *)
HeldInv ==
  \A p \in Producers : producer[p] = "created" =>
    /\ number[p] \in 1 .. Len(author) /\ author[number[p]] = p
    /\ \A n \in 1 .. Len(author) : author[n] = p => n <= number[p]

(* A record is held, in the line or lost, and once in the line. *)
PlaceInv ==
  /\ Held \cup ToSet(Line) \cup lost = 1 .. Len(author)
  /\ Held \cap ToSet(Line) = {} /\ Held \cap lost = {} /\ lost \cap ToSet(Line) = {}
  /\ IsInjective(Line)

CurrentInv == worker = "process" => current # 0

Ascending(s, by) ==
  \A i, j \in 1 .. Len(s) : i < j /\ by[s[i]] = by[s[j]] => s[i] < s[j]

IInv == TypeOK /\ CurrentInv /\ HeldInv /\ PlaceInv /\ Ascending(Line, author)

-----------------------------------------------------------------------------
(* The parts of the line. *)
LEMMA LineType ==
  ASSUME TypeOK, CurrentInv
  PROVE  /\ Taken \in Seq(1 .. Len(author))
         /\ processed \o Taken \in Seq(1 .. Len(author))
         /\ processed \in Seq(1 .. Len(author)) /\ queue \in Seq(1 .. Len(author))
         /\ Line \in Seq(1 .. Len(author))
         /\ Len(author) \in Nat
  <1>1. Len(author) \in Nat /\ processed \in Seq(1 .. Len(author))
        /\ queue \in Seq(1 .. Len(author)) /\ current \in 0 .. Len(author)
    BY DEF TypeOK
  <1>2. Taken \in Seq(1 .. Len(author))
    <2>1. CASE worker = "process"
      <3>1. current \in 1 .. Len(author)
        BY <1>1, <2>1 DEF CurrentInv
      <3> QED
        BY <2>1, <3>1 DEF Taken
    <2>2. CASE worker # "process"
      BY <2>2, EmptySeq DEF Taken
    <2> QED
      BY <2>1, <2>2
  <1>3. processed \o Taken \in Seq(1 .. Len(author))
    BY <1>1, <1>2, ConcatProperties
  <1>4. Line \in Seq(1 .. Len(author))
    BY <1>1, <1>3, ConcatProperties DEF Line
  <1> QED
    BY <1>1, <1>2, <1>3, <1>4

(* Giving up an element in the middle of a line keeps the others in order. *)
LEMMA DropFront ==
  ASSUME NEW N \in Nat, NEW s \in Seq(1 .. N), NEW t \in Seq(1 .. N), t # <<>>, NEW by,
         IsInjective(s \o t), Ascending(s \o t, by)
  PROVE  /\ s \o Tail(t) \in Seq(1 .. N) /\ IsInjective(s \o Tail(t))
         /\ Ascending(s \o Tail(t), by)
         /\ ToSet(s \o t) = ToSet(s \o Tail(t)) \cup {Head(t)}
         /\ Head(t) \notin ToSet(s \o Tail(t))
  <1> DEFINE c == s \o t
             d == s \o Tail(t)
             f(i) == IF i <= Len(s) THEN i ELSE i + 1
  <1>1. /\ c \in Seq(1 .. N) /\ d \in Seq(1 .. N) /\ Tail(t) \in Seq(1 .. N)
        /\ Len(c) = Len(s) + Len(t) /\ Len(d) = Len(s) + Len(t) - 1
        /\ Len(s) \in Nat /\ Len(t) \in Nat \ {0}
    BY ConcatProperties, HeadTailProperties, EmptySeq
  <1>2. ASSUME NEW i \in 1 .. Len(d)
        PROVE  f(i) \in 1 .. Len(c) /\ d[i] = c[f(i)] /\ c[f(i)] \in 1 .. N
    <2>1. CASE i <= Len(s)
      <3>1. d[i] = s[i] /\ c[i] = s[i]
        BY <1>1, <2>1, ConcatProperties
      <3> QED
        BY <1>1, <2>1, <3>1
    <2>2. CASE ~ (i <= Len(s))
      <3>1. i - Len(s) \in 1 .. Len(Tail(t)) /\ i + 1 \in 1 .. Len(c)
        BY <1>1, <2>2, HeadTailProperties
      <3>2. d[i] = Tail(t)[i - Len(s)] /\ c[i + 1] = t[i + 1 - Len(s)]
        <4>1. \A u \in Seq(1 .. N) : \A k \in 1 .. Len(s) + Len(u) :
                k > Len(s) => (s \o u)[k] = u[k - Len(s)]
          BY ConcatProperties
        <4>2. Len(Tail(t)) = Len(t) - 1 /\ i > Len(s) /\ i + 1 > Len(s)
              /\ i \in 1 .. Len(s) + Len(Tail(t)) /\ i + 1 \in 1 .. Len(s) + Len(t)
          BY <1>1, <2>2, <3>1, HeadTailProperties
        <4> QED
          BY <1>1, <4>1, <4>2
      <3>3. Tail(t)[i - Len(s)] = t[i - Len(s) + 1]
        BY <3>1, HeadTailProperties
      <3> QED
        BY <1>1, <2>2, <3>1, <3>2, <3>3
    <2> QED
      BY <2>1, <2>2
  <1>3. \A i, j \in 1 .. Len(d) : (i < j => f(i) < f(j)) /\ (i # j => f(i) # f(j))
    BY <1>1
  <1>4. \A i, j \in 1 .. Len(c) : c[i] = c[j] => i = j
    <2>1. IsInjective(c) /\ DOMAIN c = 1 .. Len(c)
      BY <1>1, LenProperties
    <2> HIDE DEF c
    <2> QED
      BY <2>1 DEF IsInjective
  <1>5. \A i, j \in 1 .. Len(c) : i < j /\ by[c[i]] = by[c[j]] => c[i] < c[j]
    BY DEF Ascending
  <1> HIDE DEF f
  <1>6. \A u \in Seq(1 .. N) : ToSet(s \o u) = ToSet(s) \cup ToSet(u)
    BY MembersOfConcat
  <1>7. ToSet(c) = ToSet(s) \cup ToSet(t) /\ ToSet(d) = ToSet(s) \cup ToSet(Tail(t))
    BY <1>1, <1>6
  <1>8. DOMAIN d = 1 .. Len(d)
    BY <1>1, LenProperties
  <1> HIDE DEF c, d
  <1>9. IsInjective(d)
    <2> SUFFICES ASSUME NEW i \in 1 .. Len(d), NEW j \in 1 .. Len(d), d[i] = d[j]
                 PROVE  i = j
      BY <1>8 DEF IsInjective
    <2>1. f(i) = f(j)
      BY <1>2, <1>4
    <2> QED
      BY <1>3, <2>1
  <1>10. Ascending(d, by)
    <2> SUFFICES ASSUME NEW i \in 1 .. Len(d), NEW j \in 1 .. Len(d),
                        i < j, by[d[i]] = by[d[j]]
                 PROVE  d[i] < d[j]
      BY DEF Ascending
    <2> QED
      BY <1>2, <1>3, <1>5
  <1>11. ToSet(c) = ToSet(d) \cup {Head(t)}
    BY <1>7, MembersOfTail
  <1>12. Head(t) \notin ToSet(d)
    <2>1. ToSet(s) \cap ToSet(t) = {} /\ IsInjective(t)
      BY InjectiveConcat
    <2>2. Head(t) \notin ToSet(Tail(t)) /\ Head(t) \in ToSet(t)
      BY <2>1, InjectiveTail, MembersOfTail
    <2> QED
      BY <1>7, <2>1, <2>2
  <1> QED
    BY <1>1, <1>9, <1>10, <1>11, <1>12 DEF c, d

(* A record that is newer than those of its author keeps the order.        *)
LEMMA AppendAscending ==
  ASSUME NEW N \in Nat, NEW s \in Seq(1 .. N), NEW n \in 1 .. N, NEW by,
         Ascending(s, by),
         \A m \in ToSet(s) : by[m] = by[n] => m < n
  PROVE  Ascending(Append(s, n), by)
  <1> DEFINE t == Append(s, n)
  <1>1. /\ Len(t) = Len(s) + 1 /\ Len(s) \in Nat /\ t[Len(s) + 1] = n
        /\ \A i \in 1 .. Len(s) : t[i] = s[i] /\ s[i] \in ToSet(s)
    BY AppendProperties, Members
  <1> HIDE DEF t
  <1> SUFFICES ASSUME NEW i \in 1 .. Len(t), NEW j \in 1 .. Len(t),
                      i < j, by[t[i]] = by[t[j]]
               PROVE  t[i] < t[j]
    BY DEF Ascending, t
  <1>2. CASE j <= Len(s)
    BY <1>1, <1>2 DEF Ascending
  <1>3. CASE j = Len(s) + 1
    BY <1>1, <1>3
  <1> QED
    BY <1>1, <1>2, <1>3

-----------------------------------------------------------------------------
LEMMA InitIInv == Init => IInv
  <1> SUFFICES ASSUME Init PROVE IInv
    OBVIOUS
  <1> USE LogAssumption DEF Init, LogAssumption
  <1>1. author = <<>> /\ Len(author) = 0 /\ Line = <<>>
    BY DEF Line, Taken
  <1>2. TypeOK
    <2>1. <<>> \in Seq(Producers) /\ <<>> \in Seq(1 .. 0) /\ Len(<<>>) = 0
      BY EmptySeq
    <2>2. /\ producer \in [Producers -> {"idle", "created", "enqueued"}]
          /\ number \in [Producers -> 0 .. 0] /\ count \in [Producers -> 0 .. MaxRecords]
      OBVIOUS
    <2>3. /\ counter = 1 /\ {lastSubmitted, lastProcessed, current} \subseteq 0 .. 0
          /\ lost \subseteq 1 .. 0 /\ 0 <= MaxCapacity
      OBVIOUS
    <2>4. author \in Seq(Producers) /\ queue \in Seq(1 .. 0) /\ Len(queue) = 0
          /\ processed \in Seq(1 .. 0)
      BY <2>1
    <2>5. /\ policy \in Policies /\ worker = "none" /\ stopFlag \in BOOLEAN
          /\ object = "live" /\ owner = "idle"
      OBVIOUS
    <2> HIDE DEF Init
    <2> QED
      BY <1>1, <2>2, <2>3, <2>4, <2>5 DEF TypeOK
  <1>3. HeldInv /\ CurrentInv /\ Held = {}
    BY DEF HeldInv, CurrentInv, Held
  <1>4. PlaceInv /\ Ascending(Line, author)
    BY <1>1, <1>3, NoMembers DEF PlaceInv, Ascending, IsInjective
  <1> QED
    BY <1>2, <1>3, <1>4 DEF IInv

(* The steps that move no record. *)
LEMMA QuietIInv ==
  ASSUME IInv, TypeOK', CurrentInv', Held' = Held, Line' = Line,
         UNCHANGED <<lost, author>>, HeldInv'
  PROVE  IInv'
  BY DEF IInv, PlaceInv

LEMMA CreateIInv ==
  ASSUME IInv, NEW p \in Producers, CreateRecord(p)
  PROVE  IInv'
  <1> DEFINE N == Len(author)
  <1> USE DEF IInv, CreateRecord, At, workVars, ownerVars
  <1>1. /\ N \in Nat /\ counter = N + 1 /\ author \in Seq(Producers)
        /\ author' \in Seq(Producers) /\ Len(author') = N + 1 /\ author'[N + 1] = p
        /\ \A n \in 1 .. N : author'[n] = author[n]
    BY AppendProperties DEF TypeOK
  <1>2. 1 .. N \subseteq 1 .. N + 1 /\ 0 .. N \subseteq 0 .. N + 1 /\ N + 1 \in 0 .. N + 1
    BY <1>1
  <1>3. \A s \in Seq(1 .. N) : s \in Seq(1 .. N + 1)
    BY <1>2, SeqMonotonic
  <1> HIDE DEF N
  <1>4. TypeOK'
    <2>1. /\ {lastSubmitted, lastProcessed, current} \subseteq 0 .. N + 1
          /\ queue \in Seq(1 .. N + 1) /\ processed \in Seq(1 .. N + 1)
          /\ lost \subseteq 1 .. N + 1
      <3>1. /\ {lastSubmitted, lastProcessed, current} \subseteq 0 .. N
            /\ queue \in Seq(1 .. N) /\ processed \in Seq(1 .. N) /\ lost \subseteq 1 .. N
        BY DEF TypeOK, N
      <3> HIDE DEF IInv, CreateRecord
      <3>2. queue \in Seq(1 .. N + 1) /\ processed \in Seq(1 .. N + 1)
        BY <1>3, <3>1
      <3> QED
        BY <1>2, <3>1, <3>2
    <2>2. /\ number' \in [Producers -> 0 .. N + 1]
          /\ producer' \in [Producers -> {"idle", "created", "enqueued"}]
      BY <1>1, <1>2 DEF TypeOK, N
    <2>3. count' \in [Producers -> 0 .. MaxRecords]
      <3>1. /\ count \in [Producers -> 0 .. MaxRecords] /\ MaxRecords \in Nat
            /\ count' = [count EXCEPT ![p] = @ + 1] /\ count[p] < MaxRecords
        BY LogAssumption DEF TypeOK, LogAssumption
      <3> HIDE DEF IInv, CreateRecord
      <3>2. count[p] + 1 \in 0 .. MaxRecords
        BY <3>1
      <3> QED
        BY <3>1, <3>2
    <2> QED
      BY <1>1, <2>1, <2>2, <2>3 DEF TypeOK, N
  <1>5. \A q \in Producers : /\ number'[q] = IF q = p THEN N + 1 ELSE number[q]
                             /\ producer'[q] = IF q = p THEN "created" ELSE producer[q]
    BY <1>1 DEF TypeOK, N
  <1>6. producer[p] = "idle"
    OBVIOUS
  <1>7. HeldInv'
    BY <1>1, <1>5, <1>6 DEF HeldInv, N
  <1>8. Held' = Held \cup {N + 1}
    BY <1>5, <1>6 DEF Held
  <1>9. Line' = Line /\ CurrentInv' /\ UNCHANGED lost
    BY DEF Line, Taken, CurrentInv
  <1>10. Line \in Seq(1 .. N)
    BY LineType DEF N
  <1>11. PlaceInv'
    <2>1. N + 1 \notin 1 .. N /\ 1 .. N + 1 = (1 .. N) \cup {N + 1}
      BY <1>1 DEF N
    <2>2. N + 1 \notin ToSet(Line) \cup lost
      BY <2>1 DEF PlaceInv, N
    <2> QED
      BY <1>1, <1>8, <1>9, <2>1, <2>2 DEF PlaceInv, N
  <1>12. Ascending(Line, author)'
    <2>1. \A i \in 1 .. Len(Line) : author'[Line[i]] = author[Line[i]]
      BY <1>1, <1>10, ElementOfSeq
    <2>2. Ascending(Line, author)
      OBVIOUS
    <2> HIDE DEF IInv, CreateRecord
    <2>3. Ascending(Line, author')
      BY <2>1, <2>2 DEF Ascending
    <2> QED
      BY <1>9, <2>3
  <1> QED
    BY <1>4, <1>7, <1>9, <1>11, <1>12

LEMMA EnqueueIInv ==
  ASSUME IInv, NEW p \in Producers, Enqueue(p)
  PROVE  IInv'
  <1> DEFINE N == Len(author)
             n == number[p]
             front == processed \o Taken
  <1>1. TypeOK /\ CurrentInv /\ HeldInv /\ PlaceInv /\ Ascending(Line, author)
    BY DEF IInv
  <1>2. /\ producer[p] = "created" /\ producer' = [producer EXCEPT ![p] = "enqueued"]
        /\ UNCHANGED <<policy, counter, lastSubmitted, number, count, author, worker,
                       current, lastProcessed, processed, stopFlag, owner, object>>
    BY DEF Enqueue, At, workVars, ownerVars
  <1>3. N \in Nat /\ N' = N /\ Taken' = Taken /\ front' = front
    BY <1>1, <1>2 DEF TypeOK, Taken
  <1>4. \A q \in Producers : producer'[q] = "created" <=> q # p /\ producer[q] = "created"
    BY <1>1, <1>2 DEF TypeOK
  <1>5. HeldInv' /\ CurrentInv'
    BY <1>1, <1>2, <1>4 DEF HeldInv, CurrentInv
  <1>6. n \in 1 .. N /\ author[n] = p /\ \A m \in 1 .. N : author[m] = p => m <= n
    BY <1>1, <1>2 DEF HeldInv
  <1>7. n \in Held /\ Held' = Held \ {n}
    <2>1. \A q \in Producers : q # p /\ producer[q] = "created" => number[q] # n
      BY <1>1, <1>6 DEF HeldInv
    <2> QED
      BY <1>2, <1>4, <2>1 DEF Held
  <1>8. n \notin ToSet(Line) /\ n \notin lost
    BY <1>1, <1>7 DEF PlaceInv
  <1>9. /\ front \in Seq(1 .. N) /\ queue \in Seq(1 .. N) /\ Line \in Seq(1 .. N)
        /\ Line = front \o queue /\ Line' = front \o queue'
        /\ policy # "Grow" => Len(queue) <= MaxCapacity
    BY <1>1, <1>3, LineType DEF Line, TypeOK
  <1> HIDE DEF n, N, front
  <1>10. producer' \in [Producers -> {"idle", "created", "enqueued"}]
    BY <1>1, <1>2 DEF TypeOK
  <1>11. ASSUME queue' \in Seq(1 .. N), policy # "Grow" => Len(queue') <= MaxCapacity,
                lost' \subseteq 1 .. N
         PROVE  TypeOK'
    BY <1>1, <1>2, <1>3, <1>10, <1>11 DEF TypeOK, N
  <1>12. CASE ~ Full /\ Push(n)
    <2>1. queue' = Append(queue, n) /\ UNCHANGED lost /\ Len(queue) < MaxCapacity
      BY <1>9, <1>12, LogAssumption DEF Push, Full, LogAssumption
    <2>2. Line' = Append(Line, n)
      BY <1>6, <1>9, <2>1, AppendToConcat
    <2>3. TypeOK'
      <3>1. queue' \in Seq(1 .. N) /\ Len(queue') <= MaxCapacity
        BY <1>6, <1>9, <2>1, LogAssumption, AppendProperties DEF LogAssumption
      <3> QED
        BY <1>1, <1>11, <2>1, <3>1 DEF TypeOK, N
    <2>4. ToSet(Line') = ToSet(Line) \cup {n} /\ IsInjective(Line')
      <3>1. ToSet(Append(Line, n)) = ToSet(Line) \cup {n}
        <4>1. \A s \in Seq(1 .. N), e \in 1 .. N : ToSet(Append(s, e)) = ToSet(s) \cup {e}
          BY MembersOfAppend
        <4> QED
          BY <1>6, <1>9, <4>1
      <3>2. IsInjective(Line)
        BY <1>1 DEF PlaceInv
      <3>3. IsInjective(Append(Line, n))
        BY <1>6, <1>8, <1>9, <3>2, InjectiveAppend
      <3> QED
        BY <2>2, <3>1, <3>3
    <2>5. PlaceInv'
      BY <1>1, <1>2, <1>3, <1>6, <1>7, <1>8, <2>1, <2>4 DEF PlaceInv, N
    <2>6. Ascending(Line', author)
      <3>1. \A m \in ToSet(Line) : m \in 1 .. N
        BY <1>9, Members
      <3>2. \A m \in ToSet(Line) : author[m] = author[n] => m < n
        BY <1>6, <1>8, <3>1
      <3> QED
        BY <1>1, <1>3, <1>6, <1>9, <2>2, <3>2, AppendAscending
    <2> QED
      BY <1>2, <1>5, <2>3, <2>5, <2>6 DEF IInv
  <1>13. CASE UNCHANGED queue /\ lost' = lost \cup {n}
    <2>1. Line' = Line
      BY <1>9, <1>13
    <2>2. TypeOK'
      BY <1>1, <1>6, <1>9, <1>11, <1>13 DEF TypeOK, N
    <2>3. PlaceInv'
      BY <1>1, <1>2, <1>3, <1>6, <1>7, <1>8, <1>13, <2>1 DEF PlaceInv, N
    <2> QED
      BY <1>1, <1>2, <1>5, <2>1, <2>2, <2>3 DEF IInv
  <1>14. CASE Full /\ queue' = Tail(queue) /\ lost' = lost \cup {Head(queue), n}
    <2> DEFINE h == Head(queue)
    <2>1. queue # <<>>
      BY <1>9, <1>14, LogAssumption DEF Full, LogAssumption
    <2>2. queue' \in Seq(1 .. N) /\ (policy # "Grow" => Len(queue') <= MaxCapacity) /\ h \in 1 .. N
      <3>1. h \in 1 .. N /\ Tail(queue) \in Seq(1 .. N) /\ Len(Tail(queue)) = Len(queue) - 1
        BY <1>9, <2>1, HeadTailProperties
      <3>2. Len(queue) \in Nat /\ MaxCapacity \in Nat
        BY <1>9, LogAssumption DEF LogAssumption
      <3> QED
        BY <1>9, <1>14, <3>1, <3>2
    <2>3. TypeOK'
      BY <1>1, <1>6, <1>11, <1>14, <2>2 DEF TypeOK, N
    <2>4. IsInjective(front \o queue) /\ Ascending(front \o queue, author)
      BY <1>1, <1>9 DEF PlaceInv
    <2>5. /\ IsInjective(Line') /\ Ascending(Line', author)
          /\ ToSet(Line) = ToSet(Line') \cup {h} /\ h \notin ToSet(Line')
      BY <1>3, <1>9, <1>14, <2>1, <2>4, DropFront
    <2> HIDE DEF h
    <2>6. lost' = lost \cup {h, n}
      BY <1>14 DEF h
    <2>7. PlaceInv'
      BY <1>1, <1>2, <1>3, <1>6, <1>7, <1>8, <2>5, <2>6 DEF PlaceInv, N
    <2> QED
      BY <1>2, <1>5, <2>3, <2>5, <2>7 DEF IInv
  <1> QED
    BY <1>12, <1>13, <1>14 DEF Enqueue, Overflow, n

LEMMA StoreIInv ==
  ASSUME IInv, NEW p \in Producers, StoreSubmitted(p)
  PROVE  IInv'
  <1> USE DEF IInv, StoreSubmitted, At, workVars, ownerVars
  <1>1. TypeOK'
    BY DEF TypeOK
  <1>2. \A q \in Producers :
          producer'[q] = "created" <=> q # p /\ producer[q] = "created"
    BY DEF TypeOK
  <1>3. \A q \in Producers : q # p => number'[q] = number[q]
    BY DEF TypeOK
  <1>4. producer[p] # "created"
    OBVIOUS
  <1>5. Held' = Held /\ HeldInv'
    BY <1>2, <1>3, <1>4 DEF Held, HeldInv
  <1>6. Line' = Line /\ CurrentInv'
    BY DEF Line, Taken, CurrentInv
  <1> QED
    BY <1>1, <1>5, <1>6, QuietIInv

LEMMA WorkerIInv ==
  ASSUME IInv, WorkerNext
  PROVE  IInv'
  <1> DEFINE N == Len(author)
  <1> USE DEF submitVars, ownerVars
  <1>1. TypeOK /\ CurrentInv /\ HeldInv
    BY DEF IInv
  <1>2. /\ processed \in Seq(1 .. N) /\ queue \in Seq(1 .. N) /\ current \in 0 .. N
        /\ N \in Nat /\ (policy # "Grow" => Len(queue) <= MaxCapacity)
    BY <1>1 DEF TypeOK
  <1>3. UNCHANGED <<policy, lost, submitVars, ownerVars>>
    BY DEF WorkerNext, Dequeue, Process, CheckStop
  <1>4. Held' = Held /\ HeldInv'
    BY <1>1, <1>3 DEF Held, HeldInv
  <1>5. CASE Dequeue /\ queue # <<>>
    <2> DEFINE h == Head(queue)
    <2>1. /\ worker = "dequeue" /\ worker' = "process" /\ current' = h
          /\ queue' = Tail(queue) /\ UNCHANGED <<processed, lastProcessed>>
      BY <1>5 DEF Dequeue
    <2>2. h \in 1 .. N /\ queue' \in Seq(1 .. N) /\ (policy # "Grow" => Len(queue') <= MaxCapacity)
      <3>1. h \in 1 .. N /\ Tail(queue) \in Seq(1 .. N) /\ Len(Tail(queue)) = Len(queue) - 1
        BY <1>2, <1>5, HeadTailProperties
      <3>2. Len(queue) \in Nat /\ MaxCapacity \in Nat
        BY <1>2, LogAssumption DEF LogAssumption
      <3> QED
        BY <1>2, <2>1, <3>1, <3>2
    <2>3. TypeOK' /\ CurrentInv'
      <3> HIDE DEF h
      <3>1. {lastSubmitted, lastProcessed} \subseteq 0 .. N
        BY <1>1 DEF TypeOK
      <3>2. h \in 0 .. N /\ h # 0
        BY <1>2, <2>2
      <3> QED
        BY <1>1, <1>2, <1>3, <2>1, <2>2, <3>1, <3>2 DEF TypeOK, CurrentInv
    <2>4. Line' = Line
      <3>1. Line = processed \o queue
        BY <1>2, <2>1 DEF Line, Taken
      <3>2. Line' = processed \o <<h>> \o Tail(queue)
        BY <2>1 DEF Line, Taken
      <3>3. Append(processed, h) = processed \o <<h>>
        BY <1>2, <2>2, AppendIsConcat
      <3>4. Append(processed, h) \o Tail(queue) = processed \o queue
        BY <1>2, <1>5, MoveFront
      <3> QED
        BY <3>1, <3>2, <3>3, <3>4
    <2> QED
      BY <1>3, <1>4, <2>3, <2>4, QuietIInv
  <1>6. CASE (Dequeue /\ queue = <<>>) \/ CheckStop
    <2>1. /\ worker \notin {"process"} /\ worker' \in {"none", "dequeue", "check"}
          /\ UNCHANGED <<queue, current, processed, lastProcessed>>
      BY <1>6 DEF Dequeue, CheckStop
    <2>2. TypeOK' /\ CurrentInv'
      BY <1>1, <1>3, <2>1 DEF TypeOK, CurrentInv
    <2>3. Line' = Line
      BY <2>1 DEF Line, Taken
    <2> QED
      BY <1>3, <1>4, <2>2, <2>3, QuietIInv
  <1>7. CASE Process
    <2>1. /\ worker = "process" /\ worker' = "check" /\ UNCHANGED queue
          /\ lastProcessed' = current /\ current' = 0
          /\ processed' = Append(processed, current)
      BY <1>7 DEF Process
    <2>2. current \in 1 .. N
      BY <1>1, <1>2, <2>1 DEF CurrentInv
    <2>3. TypeOK' /\ CurrentInv'
      <3>1. processed' \in Seq(1 .. N)
        BY <1>2, <2>1, <2>2, AppendProperties
      <3>2. {lastSubmitted, lastProcessed', current'} \subseteq 0 .. N
        BY <1>1, <1>2, <2>1 DEF TypeOK
      <3> QED
        BY <1>1, <1>2, <1>3, <2>1, <3>1, <3>2 DEF TypeOK, CurrentInv
    <2>4. Line' = Line
      <3>1. Line = processed \o <<current>> \o queue
        BY <2>1 DEF Line, Taken
      <3>2. Line' = Append(processed, current) \o queue
        BY <1>2, <2>1, <2>2 DEF Line, Taken
      <3> QED
        BY <1>2, <2>2, <3>1, <3>2, AppendIsConcat
    <2> QED
      BY <1>3, <1>4, <2>3, <2>4, QuietIInv
  <1> QED
    BY <1>5, <1>6, <1>7 DEF WorkerNext

(* The owner starts and stops the worker and touches no record. *)
LEMMA OwnerIInv ==
  ASSUME IInv, OwnerNext
  PROVE  IInv'
  <1> USE DEF OwnerStep, submitVars, workVars
  <1>1. TypeOK /\ CurrentInv /\ HeldInv
    BY DEF IInv
  <1>2. /\ UNCHANGED <<policy, queue, lost, submitVars, current, lastProcessed, processed>>
        /\ worker' = worker \/ (worker = "none" /\ worker' = "dequeue")
        /\ stopFlag' \in BOOLEAN /\ object' \in {"live", "dead"}
        /\ owner' \in {"idle", "joining", "destroying"}
    <2>1. CASE Start
      BY <1>1, <2>1 DEF Start, TypeOK
    <2>2. CASE RequestStop
      BY <1>1, <2>2 DEF RequestStop, TypeOK
    <2>3. CASE Join
      BY <1>1, <2>3 DEF Join, TypeOK
    <2>4. CASE JoinReturns
      BY <1>1, <2>4 DEF JoinReturns, TypeOK
    <2>5. CASE Destroy
      BY <1>1, <2>5 DEF Destroy, TypeOK
    <2>6. CASE DestroyReturns
      BY <1>1, <2>6 DEF DestroyReturns, TypeOK
    <2> QED
      BY <2>1, <2>2, <2>3, <2>4, <2>5, <2>6 DEF OwnerNext
  <1>3. TypeOK' /\ CurrentInv'
    BY <1>1, <1>2 DEF TypeOK, CurrentInv
  <1>4. Line' = Line /\ Held' = Held /\ HeldInv'
    BY <1>1, <1>2 DEF Line, Taken, Held, HeldInv
  <1> QED
    BY <1>2, <1>3, <1>4, QuietIInv

LEMMA StutterIInv ==
  ASSUME IInv, UNCHANGED vars
  PROVE  IInv'
  <1> USE DEF IInv, vars, submitVars, workVars, ownerVars
  <1>1. TypeOK' /\ CurrentInv'
    BY DEF TypeOK, CurrentInv
  <1>2. Line' = Line /\ Held' = Held /\ HeldInv'
    BY DEF Line, Taken, Held, HeldInv
  <1> QED
    BY <1>1, <1>2, QuietIInv

LEMMA NextIInv == IInv /\ [Next]_vars => IInv'
  BY CreateIInv, EnqueueIInv, StoreIInv, WorkerIInv, OwnerIInv, StutterIInv
  DEF Next, Submit, Finished

(* IInv is an inductive invariant of the pipeline. *)
THEOREM Inductive == Spec => []IInv
  BY InitIInv, NextIInv, PTL DEF Spec

-----------------------------------------------------------------------------
(* The four places of EachRecordOnce, in terms of the line. *)
LEMMA PlacesOfLine ==
  ASSUME IInv
  PROVE  EachRecordOnce
  <1> DEFINE c == ToSet(Taken)
             q == ToSet(queue)
             d == ToSet(processed)
             places == <<InHand, q, d, lost>>
  <1>1. TypeOK /\ CurrentInv /\ PlaceInv
    BY DEF IInv
  <1>2. /\ Taken \in Seq(1 .. Len(author)) /\ processed \o Taken \in Seq(1 .. Len(author))
        /\ processed \in Seq(1 .. Len(author)) /\ queue \in Seq(1 .. Len(author))
        /\ Line \in Seq(1 .. Len(author))
    BY <1>1, LineType
  <1>3. ToSet(processed \o Taken) = d \cup c /\ ToSet(Line) = d \cup c \cup q
    <2> DEFINE N == 1 .. Len(author)
    <2> HIDE DEF N
    <2>1. \A s, t \in Seq(N) : ToSet(s \o t) = ToSet(s) \cup ToSet(t)
      BY MembersOfConcat
    <2>2. /\ processed \in Seq(N) /\ Taken \in Seq(N)
          /\ queue \in Seq(N) /\ processed \o Taken \in Seq(N)
      BY <1>2 DEF N
    <2>3. ToSet(processed \o Taken) = d \cup c
      BY <2>1, <2>2
    <2>4. ToSet((processed \o Taken) \o queue) = ToSet(processed \o Taken) \cup q
      BY <2>1, <2>2
    <2> QED
      BY <2>3, <2>4 DEF Line
  <1>4. /\ IsInjective(processed) /\ IsInjective(queue)
        /\ (d \cup c) \cap q = {} /\ d \cap c = {}
    <2>1. IsInjective(processed \o Taken \o queue)
      BY <1>1 DEF PlaceInv, Line
    <2>2. /\ IsInjective(processed \o Taken) /\ IsInjective(queue)
          /\ ToSet(processed \o Taken) \cap q = {}
      BY <1>2, <2>1, InjectiveConcat
    <2>3. IsInjective(processed) /\ d \cap c = {}
      BY <1>2, <2>2, InjectiveConcat
    <2> QED
      BY <1>3, <2>2, <2>3
  <1>5. InHand = Held \cup c
    BY DEF InHand, Held, Taken, ToSet
  <1>6. IsInjective(processed \o queue)
    BY <1>2, <1>4, DisjointConcat
  <1> HIDE DEF c, q, d
  <1>7. UNION ToSet(places) = InHand \cup q \cup d \cup lost
    BY DEF ToSet
  <1>8. \A i, j \in 1 .. 4 : i # j => places[i] \cap places[j] = {}
    BY <1>1, <1>3, <1>4, <1>5 DEF PlaceInv
  <1> QED
    BY <1>1, <1>3, <1>5, <1>6, <1>7, <1>8 DEF EachRecordOnce, PlaceInv, q, d

(* Every record is at exactly one place, and is processed once.            *)
THEOREM RecordsAccounted == Spec => []EachRecordOnce
  BY PlacesOfLine, Inductive, PTL

(* Each producer's records are processed in the order it made them.        *)
THEOREM ProducersInOrder == Spec => []OrderPerProducer
  <1>1. IInv => OrderPerProducer
    <2> SUFFICES ASSUME IInv PROVE OrderPerProducer
      OBVIOUS
    <2>1. Ascending(Line, author) /\ DOMAIN Line = 1 .. Len(Line)
      BY LineType, LenProperties DEF IInv
    <2> QED
      BY <2>1 DEF OrderPerProducer, Ascending, Line, Taken
  <1> QED
    BY <1>1, Inductive, PTL

(* A record is given up only by a call that finds the queue full.          *)
THEOREM NoLossWhileRoom == Spec => LostOnlyWhenFull
  <1>1. IInv /\ [Next]_vars => [lost' # lost => Len(queue) >= MaxCapacity]_vars
    <2> SUFFICES ASSUME IInv, Next, lost' # lost PROVE Len(queue) >= MaxCapacity
      OBVIOUS
    <2>1. PICK p \in Producers : Enqueue(p)
      BY DEF Next, Submit, CreateRecord, StoreSubmitted, WorkerNext, Dequeue, Process,
             CheckStop, OwnerNext, OwnerStep, Start, RequestStop, Join, JoinReturns, Destroy,
             DestroyReturns, Finished, vars
    <2>2. Full
      BY <2>1 DEF Enqueue, Push
    <2> QED
      BY <2>2 DEF Full
  <1> QED
    BY <1>1, Inductive, PTL DEF Spec, LostOnlyWhenFull
=============================================================================
