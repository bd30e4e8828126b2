-------------------------- MODULE ThreadPoolProofs --------------------------
(***************************************************************************)
(* TLAPS proofs about ThreadPool, for any number of workers and tasks.     *)
(***************************************************************************)
EXTENDS ThreadPool, SequenceTheorems, FiniteSetTheorems, TLAPS

-----------------------------------------------------------------------------
(* The queue as a sequence: its elements, their order, no repetitions. *)

LEMMA MembersAreRange == \A s : ToSet(s) = Range(s)
  BY DEF ToSet, Range

\* An empty queue has no elements.
LEMMA NoMembers == ToSet(<<>>) = {}
  BY DEF ToSet

LEMMA MembersOfConcat ==
  ASSUME NEW S, NEW s \in Seq(S), NEW t \in Seq(S)
  PROVE  ToSet(s \o t) = ToSet(s) \cup ToSet(t)
  <1>1. Range(s \o t) = Range(s) \cup Range(t)
    BY RangeConcatenation
  <1> QED
    BY <1>1, MembersAreRange

\* Appending adds one element, taking the front leaves the others.
LEMMA MembersOfAppend ==
  ASSUME NEW S, NEW s \in Seq(S), NEW e \in S
  PROVE  ToSet(Append(s, e)) = ToSet(s) \cup {e}
  <1> DEFINE t == <<e>>
  <1>1. Append(s, e) = s \o t /\ t \in Seq(S)
    BY AppendIsConcat
  <1>2. ToSet(t) = {e}
    BY DEF ToSet
  <1> HIDE DEF t
  <1>3. ToSet(s \o t) = ToSet(s) \cup ToSet(t)
    BY <1>1, MembersOfConcat
  <1> QED
    BY <1>1, <1>2, <1>3

LEMMA MembersOfTail ==
  ASSUME NEW S, NEW s \in Seq(S), s # <<>>
  PROVE  ToSet(s) = {Head(s)} \cup ToSet(Tail(s))
  <1> DEFINE t == <<Head(s)>>
             r == Tail(s)
  <1>1. s = t \o r /\ t \in Seq(S) /\ r \in Seq(S)
    OBVIOUS
  <1>2. ToSet(t) = {Head(s)}
    BY DEF ToSet
  <1> HIDE DEF t, r
  <1>3. ToSet(t \o r) = ToSet(t) \cup ToSet(r)
    BY <1>1, MembersOfConcat
  <1> QED
    BY <1>1, <1>2, <1>3 DEF r

\* Moving the front of one queue to the back of another keeps both in order.
LEMMA MoveFront ==
  ASSUME NEW S, NEW s \in Seq(S), NEW t \in Seq(S), t # <<>>
  PROVE  Append(s, Head(t)) \o Tail(t) = s \o t
  OBVIOUS

\* A new element keeps a queue free of repetitions; the front of one that is
\* does not occur in it again.
LEMMA InjectiveAppend ==
  ASSUME NEW S, NEW s \in Seq(S), NEW e \in S, e \notin ToSet(s), IsInjective(s)
  PROVE  IsInjective(Append(s, e))
  BY DEF ToSet, IsInjective

LEMMA InjectiveTail ==
  ASSUME NEW S, NEW s \in Seq(S), s # <<>>, IsInjective(s)
  PROVE  Head(s) \notin ToSet(Tail(s)) /\ IsInjective(Tail(s))
  BY DEF ToSet, IsInjective

-----------------------------------------------------------------------------
(* A task is submitted once, is queued or taken, and has one worker; with  *)
(* the pool gone nobody holds one.                                         *)
QueueInv ==
  /\ IsInjective(queue)
  /\ ToSet(queue) \cup ToSet(taken) \subseteq ToSet(submitted)
  /\ ToSet(queue) \cap ToSet(taken) = {}
  /\ \A w \in Workers : task[w] # NoTask => task[w] \in ToSet(taken)
  /\ \A v, w \in Workers : v # w /\ task[v] # NoTask => task[v] # task[w]
  /\ object = "dead" => owner = "idle" /\ queue = <<>> /\ \A w \in Workers : ~ Alive(w)

(* Only start() meets fewer Threads than Capacity, all new: none of them   *)
(* has a stop request, and none has left.                                  *)
StartInv ==
  /\ owner = "starting" => size = next - 1 \/ size = Capacity
  /\ owner # "starting" => size \in {0, Capacity}
  /\ \A w \in Workers : pc[w] # "none" => w <= size
  /\ size < Capacity => \A w \in Workers : ~ stopFlag[w] /\ pc[w] # "exited"

(* Requests are made in the order of threads_, so that the last Thread is  *)
(* the last to be asked.                                                   *)
FlagInv ==
  /\ \A u, v \in Workers : stopFlag[v] /\ u <= v => stopFlag[u]
  /\ owner = "requesting" => \A u \in Workers : u < next => stopFlag[u]

IInv == PoolIsConsistent /\ QueueInv /\ StartInv /\ FlagInv

-----------------------------------------------------------------------------
LEMMA InitIInv == Init => IInv
  <1> SUFFICES ASSUME Init PROVE IInv
    OBVIOUS
  <1> USE PoolAssumption DEF Init, PoolAssumption, Workers
  <1>1. TypeOK
    <2>1. <<>> \in Seq(Tasks)
      BY EmptySeq
    <2>2. /\ stopFlag \in [Workers -> BOOLEAN]
          /\ pc \in [Workers -> {"none", "check", "pop", "run", "exited"}]
          /\ task \in [Workers -> Tasks \cup {NoTask}]
      OBVIOUS
    <2>3. size \in 0 .. Capacity /\ next \in 1 .. Capacity + 1
      OBVIOUS
    <2> QED
      BY <2>1, <2>2, <2>3 DEF TypeOK
  <1>2. submitted = taken \o queue
    OBVIOUS
  <1>3. NobodyLeavesEarly /\ StartInv /\ FlagInv
    BY DEF NobodyLeavesEarly, StartInv, FlagInv
  <1>4. QueueInv
    BY NoMembers DEF QueueInv, IsInjective
  <1> QED
    BY <1>1, <1>2, <1>3, <1>4 DEF IInv, PoolIsConsistent, TakenInOrder

-----------------------------------------------------------------------------
LEMMA ExecuteIInv ==
  ASSUME IInv, NEW t \in Tasks, Execute(t)
  PROVE  IInv'
  <1> USE DEF IInv, PoolIsConsistent, TakenInOrder, Execute, workerVars, ownerVars
  <1>1. /\ queue \in Seq(Tasks) /\ submitted \in Seq(Tasks) /\ taken \in Seq(Tasks)
        /\ IsInjective(queue) /\ t \notin ToSet(queue)
        /\ submitted = taken \o queue
    BY DEF TypeOK, QueueInv
  <1>2. /\ ToSet(queue') = ToSet(queue) \cup {t}
        /\ ToSet(submitted') = ToSet(submitted) \cup {t}
    <2>1. \A s \in Seq(Tasks) : ToSet(Append(s, t)) = ToSet(s) \cup {t}
      BY MembersOfAppend
    <2>2. queue' = Append(queue, t) /\ submitted' = Append(submitted, t)
      OBVIOUS
    <2> QED
      BY <1>1, <2>1, <2>2
  <1>3. IsInjective(queue') /\ submitted' = taken' \o queue'
    <2>1. IsInjective(Append(queue, t))
      BY <1>1, InjectiveAppend
    <2>2. queue' = Append(queue, t) /\ submitted' = Append(submitted, t)
      OBVIOUS
    <2> HIDE DEF IInv, Execute
    <2>3. queue \in Seq(Tasks) /\ submitted \in Seq(Tasks) /\ taken \in Seq(Tasks)
      BY <1>1
    <2>4. Append(taken \o queue, t) = taken \o Append(queue, t)
      <3>1. \A a, b \in Seq(Tasks) : Append(a \o b, t) = a \o Append(b, t)
        OBVIOUS
      <3> QED
        BY <2>3, <3>1, Zenon
    <2> QED
      BY <1>1, <2>1, <2>2, <2>4 DEF Execute
  <1>4. TypeOK'
    BY <1>1 DEF TypeOK
  <1>5. QueueInv'
    BY <1>2, <1>3 DEF QueueInv, Alive
  <1>6. NobodyLeavesEarly' /\ StartInv' /\ FlagInv'
    BY DEF NobodyLeavesEarly, StartInv, FlagInv
  <1> QED
    BY <1>3, <1>4, <1>5, <1>6

LEMMA WorkerIInv ==
  ASSUME IInv, NEW w \in Workers, Worker(w)
  PROVE  IInv'
  <1> USE PoolAssumption
      DEF PoolAssumption, Workers, IInv, PoolIsConsistent, TakenInOrder, Goto, Usable,
          queueVars, ownerVars
  <1>1. TypeOK
    OBVIOUS
  <1>2. CASE CheckStop(w)
    <2> USE <1>2 DEF CheckStop, BackStopRequested
    <2>1. TypeOK'
      BY <1>1 DEF TypeOK
    <2>2. QueueInv'
      BY DEF QueueInv
    <2>3. w \in 1 .. size /\ size \in Workers
      BY <1>1 DEF TypeOK, StartInv
    <2>4. StartInv'
      BY <1>1, <2>3 DEF TypeOK, StartInv
    <2>5. stopFlag[size] => \A v \in 1 .. size : stopFlag[v]
      BY <1>1, <2>3 DEF TypeOK, FlagInv
    <2>6. NobodyLeavesEarly' /\ FlagInv'
      BY <1>1, <2>5 DEF TypeOK, NobodyLeavesEarly, FlagInv
    <2> QED
      BY <2>1, <2>2, <2>4, <2>6
  <1>3. CASE Pop(w)
    <2> USE <1>3 DEF Pop
    <2> DEFINE h == Head(queue)
    <2>1. queue \in Seq(Tasks) /\ taken \in Seq(Tasks) /\ h \in Tasks
          /\ IsInjective(queue)
      BY <1>1 DEF TypeOK, QueueInv
    <2>2. ToSet(queue) = ToSet(queue') \cup {h} /\ h \notin ToSet(queue')
      BY <2>1, MembersOfTail, InjectiveTail
    <2>3. ToSet(taken') = ToSet(taken) \cup {h} /\ h \notin ToSet(taken)
      BY <2>1, <2>2, MembersOfAppend DEF QueueInv
    <2>4. IsInjective(queue') /\ taken' \o queue' = taken \o queue
      BY <2>1, InjectiveTail, MoveFront
    <2>5. TypeOK'
      BY <1>1, <2>1 DEF TypeOK
    <2> HIDE DEF h
    <2>6. task' = [task EXCEPT ![w] = h]
      BY DEF h
    <2>7. QueueInv'
      BY <1>1, <2>2, <2>3, <2>4, <2>6 DEF TypeOK, QueueInv, Alive
    <2>8. NobodyLeavesEarly' /\ StartInv' /\ FlagInv'
      BY <1>1 DEF TypeOK, NobodyLeavesEarly, StartInv, FlagInv
    <2> QED
      BY <2>4, <2>5, <2>7, <2>8
  <1>4. CASE FindEmpty(w)
    <2> USE <1>4 DEF FindEmpty
    <2>1. TypeOK'
      BY <1>1 DEF TypeOK
    <2>2. QueueInv'
      BY DEF QueueInv
    <2>3. NobodyLeavesEarly' /\ StartInv' /\ FlagInv'
      BY <1>1 DEF TypeOK, NobodyLeavesEarly, StartInv, FlagInv
    <2> QED
      BY <2>1, <2>2, <2>3
  <1>5. CASE Run(w)
    <2> USE <1>5 DEF Run
    <2>1. TypeOK'
      BY <1>1 DEF TypeOK
    <2>2. QueueInv'
      BY <1>1 DEF TypeOK, QueueInv
    <2>3. NobodyLeavesEarly' /\ StartInv' /\ FlagInv'
      BY <1>1 DEF TypeOK, NobodyLeavesEarly, StartInv, FlagInv
    <2> QED
      BY <2>1, <2>2, <2>3
  <1> QED
    BY <1>2, <1>3, <1>4, <1>5 DEF Worker

LEMMA OwnerIInv ==
  ASSUME IInv, OwnerNext
  PROVE  IInv'
  <1> USE PoolAssumption
      DEF PoolAssumption, Workers, IInv, PoolIsConsistent, TakenInOrder, queueVars, workerVars
  <1>1. TypeOK
    OBVIOUS
  <1>2. CASE Start \/ Stop
    <2> USE <1>2 DEF Start, Stop, EnterLoop
    <2>1. TypeOK'
      BY <1>1 DEF TypeOK
    <2>2. QueueInv'
      BY DEF QueueInv, Alive
    <2>3. NobodyLeavesEarly' /\ StartInv' /\ FlagInv'
      BY <1>1 DEF TypeOK, NobodyLeavesEarly, StartInv, FlagInv
    <2> QED
      BY <2>1, <2>2, <2>3
  <1>3. CASE StartWorker
    <2> USE <1>3 DEF StartWorker
    <2>1. pc[size + 1] = "none" /\ size + 1 \in Workers
      BY <1>1 DEF TypeOK, StartInv
    <2>2. TypeOK'
      <3>1. size' \in 0 .. Capacity /\ next' \in 1 .. Capacity + 1
        BY <1>1 DEF TypeOK
      <3>2. stopFlag' \in [Workers -> BOOLEAN]
        BY <1>1 DEF TypeOK
      <3>3. /\ pc' \in [Workers -> {"none", "check", "pop", "run", "exited"}]
            /\ \A w \in Workers : task'[w] # NoTask <=> pc'[w] = "run"
        BY <1>1, <2>1 DEF TypeOK
      <3> QED
        BY <1>1, <3>1, <3>2, <3>3 DEF TypeOK
    <2>3. QueueInv'
      BY DEF QueueInv, Alive
    <2>4. NobodyLeavesEarly' /\ StartInv' /\ FlagInv'
      BY <1>1 DEF TypeOK, NobodyLeavesEarly, StartInv, FlagInv
    <2> QED
      BY <2>2, <2>3, <2>4
  <1>4. CASE Reallocate
    <2> USE <1>4 DEF Reallocate
    <2>1. TypeOK'
      BY <1>1 DEF TypeOK
    <2>2. QueueInv'
      BY DEF QueueInv, Alive
    <2>3. NobodyLeavesEarly' /\ StartInv' /\ FlagInv'
      BY <1>1 DEF TypeOK, NobodyLeavesEarly, StartInv, FlagInv
    <2> QED
      BY <2>1, <2>2, <2>3
  <1>5. CASE StartReturns
    <2> USE <1>5 DEF StartReturns
    <2>1. TypeOK'
      BY <1>1 DEF TypeOK
    <2>2. QueueInv'
      BY DEF QueueInv, Alive
    <2>3. NobodyLeavesEarly' /\ StartInv' /\ FlagInv'
      BY <1>1 DEF TypeOK, NobodyLeavesEarly, StartInv, FlagInv
    <2> QED
      BY <2>1, <2>2, <2>3
  <1>6. CASE RequestEach /\ next <= size
    <2>1. /\ owner = "requesting" /\ next' = next + 1
          /\ stopFlag' = [stopFlag EXCEPT ![next] = TRUE]
          /\ UNCHANGED <<queue, submitted, taken, pc, task, size, object, owner>>
      BY <1>6 DEF RequestEach
    <2>2. next \in Workers /\ size = Capacity
      BY <1>1, <1>6, <2>1 DEF TypeOK, StartInv
    <2>3. TypeOK'
      BY <1>1, <2>1, <2>2 DEF TypeOK
    <2>4. QueueInv'
      BY <2>1 DEF QueueInv, Alive
    <2>5. NobodyLeavesEarly' /\ StartInv' /\ FlagInv'
      BY <1>1, <2>1, <2>2 DEF TypeOK, NobodyLeavesEarly, StartInv, FlagInv
    <2> QED
      BY <2>1, <2>3, <2>4, <2>5
  <1>7. CASE RequestEach /\ ~ (next <= size)
    <2>1. /\ owner = "requesting" /\ owner' = "joining" /\ next' = 1
          /\ UNCHANGED <<queue, submitted, taken, pc, task, size, object, stopFlag>>
      BY <1>7 DEF RequestEach
    <2>2. TypeOK'
      BY <1>1, <2>1 DEF TypeOK
    <2>3. QueueInv'
      BY <2>1 DEF QueueInv, Alive
    <2>4. NobodyLeavesEarly' /\ StartInv' /\ FlagInv'
      BY <1>1, <2>1 DEF TypeOK, NobodyLeavesEarly, StartInv, FlagInv
    <2> QED
      BY <2>1, <2>2, <2>3, <2>4
  <1>8. CASE JoinEach
    <2> USE <1>8 DEF JoinEach
    <2>1. TypeOK'
      BY <1>1 DEF TypeOK
    <2>2. QueueInv'
      BY DEF QueueInv, Alive
    <2>3. NobodyLeavesEarly' /\ StartInv' /\ FlagInv'
      BY <1>1 DEF TypeOK, NobodyLeavesEarly, StartInv, FlagInv
    <2> QED
      BY <2>1, <2>2, <2>3
  <1>9. CASE Destroy
    <2> USE <1>9 DEF Destroy
    <2>1. TypeOK'
      BY <1>1, EmptySeq DEF TypeOK
    <2>2. QueueInv'
      BY NoMembers DEF QueueInv, Alive, IsInjective
    <2>3. NobodyLeavesEarly' /\ StartInv' /\ FlagInv'
      BY <1>1 DEF TypeOK, NobodyLeavesEarly, StartInv, FlagInv
    <2> QED
      BY <2>1, <2>2, <2>3
  <1> QED
    BY <1>2, <1>3, <1>4, <1>5, <1>6, <1>7, <1>8, <1>9 DEF OwnerNext, OwnerCall

LEMMA StutterIInv ==
  ASSUME IInv, UNCHANGED vars
  PROVE  IInv'
  <1> USE DEF IInv, PoolIsConsistent, TakenInOrder, vars, queueVars, workerVars, ownerVars
  <1>1. TypeOK' /\ (object = "live" => submitted = taken \o queue)'
    BY DEF TypeOK
  <1>2. NobodyLeavesEarly' /\ QueueInv' /\ StartInv' /\ FlagInv'
    BY DEF NobodyLeavesEarly, QueueInv, StartInv, FlagInv, Alive
  <1> QED
    BY <1>1, <1>2

LEMMA NextIInv == IInv /\ [Next]_vars => IInv'
  BY ExecuteIInv, WorkerIInv, OwnerIInv, StutterIInv DEF Next, Finished

(* IInv is an inductive invariant of the pool. *)
THEOREM Inductive == Spec => []IInv
  BY InitIInv, NextIInv, PTL DEF Spec

(* Tasks are taken in order and each once, and no worker leaves before     *)
(* every Thread was asked to, although all look at the flag of the last.   *)
THEOREM NeitherIsLost == Spec => []PoolIsConsistent
  <1>1. IInv => PoolIsConsistent
    BY DEF IInv
  <1> QED
    BY <1>1, Inductive, PTL

-----------------------------------------------------------------------------
(* ThreadPool implements Executor with Capacity threads: Execute is a      *)
(* Submit, Pop a Begin, Run an End, the regular end of the pool a Discard. *)

LEMMA InitRefines == Init => Promise!Init
  BY NoMembers DEF Init, Promise!Init, activeTasks

LEMMA ExecuteRefines ==
  ASSUME IInv, NEW t \in Tasks, Execute(t)
  PROVE  [Promise!Next]_Promise!vars
  <1> USE DEF IInv, PoolIsConsistent, TakenInOrder
  <1>1. TypeOK /\ QueueInv
    OBVIOUS
  <1>2. /\ object = "live" /\ t \notin ToSet(submitted) /\ t # NoTask
        /\ queue' = Append(queue, t)
        /\ UNCHANGED <<object, task, taken>>
    BY PoolAssumption DEF Execute, workerVars, ownerVars, PoolAssumption
  <1>3. ToSet(queue') = ToSet(queue) \cup {t}
    BY <1>1, <1>2, MembersOfAppend DEF TypeOK
  <1>4. t \notin ToSet(queue) \cup ToSet(taken) \cup activeTasks
    BY <1>1, <1>2 DEF QueueInv, activeTasks
  <1>5. Promise!Submit(t)
    BY <1>2, <1>3, <1>4 DEF Promise!Submit, activeTasks
  <1> QED
    BY <1>5 DEF Promise!Next

(* A worker that looks for a task is one that runs none. *)
LEMMA RoomForOneMore ==
  ASSUME TypeOK, NEW w \in Workers, task[w] = NoTask
  PROVE  Cardinality(activeTasks) < Capacity
  <1> DEFINE busy == {v \in Workers : task[v] # NoTask}
             held == [v \in busy |-> task[v]]
  <1>1. IsFiniteSet(Workers) /\ Cardinality(Workers) = Capacity /\ Capacity \in Nat
    BY PoolAssumption, FS_Interval DEF PoolAssumption, Workers
  <1>2. IsFiniteSet(Workers \ {w}) /\ Cardinality(Workers \ {w}) = Capacity - 1
    BY <1>1, FS_RemoveElement
  <1>3. busy \subseteq Workers \ {w}
    OBVIOUS
  <1>4. /\ IsFiniteSet(busy) /\ Cardinality(busy) <= Capacity - 1
        /\ Cardinality(busy) \in Nat
    BY <1>2, <1>3, FS_Subset, FS_CardinalityType
  <1>5. held \in Surjection(busy, activeTasks)
    BY DEF Surjection, activeTasks
  <1> HIDE DEF busy, held
  <1>6. IsFiniteSet(activeTasks) /\ Cardinality(activeTasks) <= Cardinality(busy)
    BY <1>4, <1>5, FS_Surjection
  <1>7. Cardinality(activeTasks) \in Nat
    BY <1>6, FS_CardinalityType
  <1> QED
    BY <1>1, <1>4, <1>6, <1>7

LEMMA WorkerRefines ==
  ASSUME IInv, NEW w \in Workers, Worker(w)
  PROVE  [Promise!Next]_Promise!vars
  <1> USE DEF IInv, PoolIsConsistent, TakenInOrder, Goto, Usable
  <1>1. TypeOK /\ QueueInv
    OBVIOUS
  <1>2. CASE CheckStop(w) \/ FindEmpty(w)
    BY <1>2 DEF CheckStop, FindEmpty, queueVars, ownerVars, Promise!vars, activeTasks
  <1>3. CASE Pop(w)
    <2> DEFINE h == Head(queue)
    <2>1. /\ queue # <<>> /\ queue' = Tail(queue) /\ taken' = Append(taken, h)
          /\ task[w] = NoTask /\ task' = [task EXCEPT ![w] = h]
          /\ object = "live" /\ UNCHANGED object
      BY <1>1, <1>3 DEF Pop, TypeOK, ownerVars
    <2>2. h \in Tasks /\ queue \in Seq(Tasks) /\ taken \in Seq(Tasks) /\ IsInjective(queue)
      BY <1>1, <2>1 DEF TypeOK, QueueInv
    <2>3. /\ ToSet(queue) = ToSet(queue') \cup {h} /\ h \notin ToSet(queue')
          /\ ToSet(taken') = ToSet(taken) \cup {h}
      BY <2>1, <2>2, MembersOfTail, InjectiveTail, MembersOfAppend
    <2> HIDE DEF h
    <2>4. h \notin ToSet(taken) /\ h # NoTask
      BY <1>1, <2>2, <2>3, PoolAssumption DEF QueueInv, PoolAssumption
    <2>5. activeTasks' = activeTasks \cup {h}
      BY <1>1, <2>1, <2>4 DEF TypeOK, activeTasks
    <2>6. activeTasks \subseteq ToSet(taken)
      BY <1>1 DEF QueueInv, activeTasks
    <2>7. ToSet(queue') = ToSet(queue) \ {h}
          /\ ToSet(taken') \ activeTasks' = ToSet(taken) \ activeTasks
      BY <2>3, <2>4, <2>5, <2>6
    <2>8. Promise!Cardinality(activeTasks) < Capacity
      <3>1. Promise!Cardinality(activeTasks) = Cardinality(activeTasks)
        BY DEF Promise!Cardinality, Cardinality
      <3> QED
        BY <1>1, <2>1, <3>1, RoomForOneMore
    <2>9. Promise!Begin(h)
      BY <2>1, <2>3, <2>5, <2>7, <2>8 DEF Promise!Begin
    <2> QED
      BY <2>2, <2>9 DEF Promise!Next
  <1>4. CASE Run(w)
    <2> DEFINE t == task[w]
    <2>1. /\ task' = [task EXCEPT ![w] = NoTask] /\ t \in Tasks
          /\ UNCHANGED <<queue, submitted, taken, object>>
      BY <1>1, <1>4 DEF Run, TypeOK, queueVars, ownerVars
    <2>2. t \in activeTasks /\ t \in ToSet(taken)
      BY <1>1, <2>1, PoolAssumption DEF QueueInv, activeTasks, PoolAssumption
    <2>3. \A v \in Workers : v # w => task[v] # t
      BY <1>1, <2>1, PoolAssumption DEF QueueInv, PoolAssumption
    <2> HIDE DEF t
    <2>4. activeTasks' = activeTasks \ {t}
      <3>1. \A v \in Workers : task'[v] = IF v = w THEN NoTask ELSE task[v]
        BY <1>1, <2>1 DEF TypeOK
      <3>2. task[w] = t
        BY DEF t
      <3> QED
        BY <2>3, <3>1, <3>2 DEF activeTasks
    <2>5. Promise!End(t)
      BY <2>1, <2>2, <2>4 DEF Promise!End
    <2> QED
      BY <2>1, <2>5 DEF Promise!Next
  <1> QED
    BY <1>2, <1>3, <1>4 DEF Worker

LEMMA OwnerRefines ==
  ASSUME IInv, OwnerNext
  PROVE  [Promise!Next]_Promise!vars
  <1> USE DEF IInv, PoolIsConsistent, TakenInOrder
  <1>1. TypeOK /\ QueueInv
    OBVIOUS
  <1>2. CASE Start \/ Stop \/ OwnerCall
    BY <1>2 DEF Start, Stop, EnterLoop, OwnerCall, StartWorker, StartReturns, RequestEach,
                JoinEach, queueVars, workerVars, Promise!vars, activeTasks
  <1>3. CASE Reallocate
    <2>1. object # "dead" /\ object' # "dead" /\ UNCHANGED <<queue, taken, task>>
      BY <1>1, <1>3 DEF Reallocate, QueueInv, queueVars, workerVars
    <2> QED
      BY <2>1 DEF Promise!vars, activeTasks
  <1>4. CASE Destroy
    <2> USE <1>4 DEF Destroy, workerVars
    <2>1. object = "live" /\ UNCHANGED <<submitted, taken, task, activeTasks>>
      BY DEF activeTasks
    <2>2. CASE \E w \in Workers : Alive(w)
      BY <2>1, <2>2 DEF Promise!vars
    <2>3. CASE ~ \E w \in Workers : Alive(w)
      <3>1. activeTasks = {}
        BY <1>1, <2>3 DEF TypeOK, Alive, activeTasks
      <3>2. ToSet(submitted) = ToSet(taken) \cup ToSet(queue)
        <4>1. submitted = taken \o queue /\ taken \in Seq(Tasks) /\ queue \in Seq(Tasks)
          BY <2>1 DEF TypeOK
        <4> QED
          BY <4>1, MembersOfConcat
      <3>3. ToSet(submitted) \ ToSet(taken) = ToSet(queue)
        BY <1>1, <3>2 DEF QueueInv
      <3>4. Promise!Discard
        BY <2>1, <2>3, <3>1, <3>3, NoMembers DEF Promise!Discard
      <3> QED
        BY <3>4 DEF Promise!Next
    <2> QED
      BY <2>2, <2>3
  <1> QED
    BY <1>2, <1>3, <1>4 DEF OwnerNext

LEMMA NextRefines == IInv /\ [Next]_vars => [Promise!Next]_Promise!vars
  <1> SUFFICES ASSUME IInv, [Next]_vars PROVE [Promise!Next]_Promise!vars
    OBVIOUS
  <1>1. CASE UNCHANGED vars
    BY <1>1 DEF vars, queueVars, workerVars, ownerVars, Promise!vars, activeTasks
  <1> QED
    BY <1>1, ExecuteRefines, WorkerRefines, OwnerRefines DEF Next, Finished

(* Every behaviour of ThreadPool is one of Executor with Capacity threads: *)
(* a task runs at most once, at most Capacity of them at a time, and only  *)
(* the destruction of the pool, with no task running, gives one up.        *)
THEOREM RefinesExecutor == Spec => ImplementsExecutor
  BY InitRefines, NextRefines, Inductive, PTL DEF Spec, ImplementsExecutor, Promise!Spec
=============================================================================
