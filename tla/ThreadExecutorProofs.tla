------------------------ MODULE ThreadExecutorProofs ------------------------
(***************************************************************************)
(* TLAPS proofs about ThreadExecutor, for any set of tasks.                *)
(***************************************************************************)
EXTENDS ThreadExecutor, SequenceTheorems, FiniteSetTheorems, TLAPS

-----------------------------------------------------------------------------
(* The queue as a sequence: its elements, their order, no repetitions. *)

LEMMA MembersAreRange == \A s : ToSet(s) = Range(s)
  BY DEF ToSet, Range

LEMMA Members ==
  ASSUME NEW S, NEW s \in Seq(S)
  PROVE  ToSet(s) = {s[i] : i \in 1 .. Len(s)} /\ ToSet(s) \subseteq S
  BY DEF ToSet

\* An empty queue has no elements.
LEMMA NoMembers == ToSet(<<>>) = {}
  BY DEF ToSet

LEMMA MembersOfConcat ==
  ASSUME NEW S, NEW s \in Seq(S), NEW t \in Seq(S)
  PROVE  ToSet(s \o t) = ToSet(s) \cup ToSet(t)
  <1>1. Range(s \o t) = Range(s) \cup Range(t)
    BY RangeConcatenation
  <1> QED
    BY <1>1, MembersAreRange

\* Appending adds one element, taking the front leaves the others.
LEMMA MembersOfAppend ==
  ASSUME NEW S, NEW s \in Seq(S), NEW e \in S
  PROVE  ToSet(Append(s, e)) = ToSet(s) \cup {e}
  <1> DEFINE t == <<e>>
  <1>1. Append(s, e) = s \o t /\ t \in Seq(S)
    BY AppendIsConcat
  <1>2. ToSet(t) = {e}
    BY DEF ToSet
  <1> HIDE DEF t
  <1>3. ToSet(s \o t) = ToSet(s) \cup ToSet(t)
    BY <1>1, MembersOfConcat
  <1> QED
    BY <1>1, <1>2, <1>3

LEMMA MembersOfTail ==
  ASSUME NEW S, NEW s \in Seq(S), s # <<>>
  PROVE  ToSet(s) = {Head(s)} \cup ToSet(Tail(s))
  <1> DEFINE t == <<Head(s)>>
             r == Tail(s)
  <1>1. s = t \o r /\ t \in Seq(S) /\ r \in Seq(S)
    OBVIOUS
  <1>2. ToSet(t) = {Head(s)}
    BY DEF ToSet
  <1> HIDE DEF t, r
  <1>3. ToSet(t \o r) = ToSet(t) \cup ToSet(r)
    BY <1>1, MembersOfConcat
  <1> QED
    BY <1>1, <1>2, <1>3 DEF r

\* Moving the front of one queue to the back of another keeps both in order.
LEMMA MoveFront ==
  ASSUME NEW S, NEW s \in Seq(S), NEW t \in Seq(S), t # <<>>
  PROVE  Append(s, Head(t)) \o Tail(t) = s \o t
  OBVIOUS

\* A new element keeps a queue free of repetitions; the front of one that is
\* does not occur in it again.
LEMMA InjectiveAppend ==
  ASSUME NEW S, NEW s \in Seq(S), NEW e \in S, e \notin ToSet(s), IsInjective(s)
  PROVE  IsInjective(Append(s, e))
  BY DEF ToSet, IsInjective

LEMMA InjectiveTail ==
  ASSUME NEW S, NEW s \in Seq(S), s # <<>>, IsInjective(s)
  PROVE  Head(s) \notin ToSet(Tail(s)) /\ IsInjective(Tail(s))
  BY DEF ToSet, IsInjective

-----------------------------------------------------------------------------
(* Who owes an outcome: the async() call until it returns or throws, and   *)
(* the task until it was run or destroyed; nobody owes a settled one.      *)
PromiseInv ==
  \A t \in Tasks :
    /\ cell[t] = "none" <=> caller[t] = "idle"
    /\ "caller" \in owing[t] <=> caller[t] \in {"made", "threw", "pushed"}
    /\ "task" \in owing[t] <=> caller[t] = "made" \/ t \in ToSet(queue) \/ t = current
    /\ "task" \in owing[t] \/ caller[t] = "threw" => cell[t] = "pending"

(* A task is submitted once, by its own call; queued or taken, not both.   *)
QueueInv ==
  /\ IsInjective(queue)
  /\ ToSet(queue) \cup ToSet(executed) \subseteq ToSet(submitted)
  /\ ToSet(queue) \cap ToSet(executed) = {}
  /\ current # NoTask => current \in ToSet(executed)
  /\ \A t \in Tasks :
       /\ t \in ToSet(submitted) => caller[t] \in {"pushed", "returned"}
       /\ caller[t] = "pushed" => t \in ToSet(submitted)

(* Nobody is inside the executor once it is gone. *)
DeathInv ==
  /\ object = "dead" => owner = "idle" /\ worker = "none" /\ queue = <<>>
  /\ object = "dead" \/ owner = "destroying" => \A t \in Tasks : caller[t] # "made"

IInv == TasksAccounted /\ PromiseInv /\ QueueInv /\ DeathInv

-----------------------------------------------------------------------------
LEMMA InitIInv == Init => IInv
  <1> SUFFICES ASSUME Init PROVE IInv
    OBVIOUS
  <1> USE DEF Init
  <1>1. TypeOK
    <2>1. <<>> \in Seq(Tasks)
      BY EmptySeq
    <2>2. cell \in [Tasks -> {"none", "pending", "value", "error", "broken"}]
      OBVIOUS
    <2>3. owing \in [Tasks -> SUBSET {"caller", "task"}]
      OBVIOUS
    <2>4. caller \in [Tasks -> {"idle", "made", "threw", "pushed", "returned"}]
      OBVIOUS
    <2> QED
      BY <2>1, <2>2, <2>3, <2>4 DEF TypeOK
  <1>2. submitted = executed \o queue
    OBVIOUS
  <1>3. PromiseInv /\ BrokenMeansNotRun
    BY ExecutorAssumption, NoMembers DEF PromiseInv, BrokenMeansNotRun
  <1>4. QueueInv /\ DeathInv
    BY NoMembers DEF QueueInv, DeathInv, IsInjective
  <1> QED
    BY <1>1, <1>2, <1>3, <1>4 DEF IInv, TasksAccounted, FifoExactlyOnce

(* What is queued or taken is a task. *)
LEMMA QueuedAreTasks ==
  ASSUME TypeOK
  PROVE  /\ ToSet(queue) \subseteq Tasks /\ ToSet(executed) \subseteq Tasks
         /\ ToSet(submitted) \subseteq Tasks
  BY Members DEF TypeOK

(* What a push does to the queue and the histories. *)
LEMMA EnqueueFacts ==
  ASSUME IInv, NEW t \in Tasks, Enqueue(t), t \notin ToSet(submitted)
  PROVE  /\ queue' \in Seq(Tasks) /\ submitted' \in Seq(Tasks)
         /\ ToSet(queue') = ToSet(queue) \cup {t}
         /\ ToSet(submitted') = ToSet(submitted) \cup {t}
         /\ IsInjective(queue')
         /\ submitted = executed \o queue => submitted' = executed \o queue'
  <1> USE DEF Enqueue
  <1>1. queue \in Seq(Tasks) /\ submitted \in Seq(Tasks) /\ executed \in Seq(Tasks)
    BY DEF IInv, TasksAccounted, FifoExactlyOnce, TypeOK
  <1>2. queue' \in Seq(Tasks) /\ submitted' \in Seq(Tasks)
    BY <1>1
  <1>3. /\ ToSet(queue') = ToSet(queue) \cup {t}
        /\ ToSet(submitted') = ToSet(submitted) \cup {t}
    BY <1>1, MembersOfAppend
  <1>4. IsInjective(queue) /\ t \notin ToSet(queue)
    BY DEF IInv, QueueInv
  <1>5. IsInjective(queue')
    BY <1>1, <1>4, InjectiveAppend
  <1>6. Append(executed \o queue, t) = executed \o Append(queue, t)
    <2> HIDE DEF Enqueue
    <2>1. \A a, b \in Seq(Tasks) : Append(a \o b, t) = a \o Append(b, t)
      OBVIOUS
    <2> QED
      BY <1>1, <2>1, Zenon
  <1> QED
    BY <1>2, <1>3, <1>5, <1>6

(* What taking the front does to them. *)
LEMMA TakeFacts ==
  ASSUME IInv, queue # <<>>,
         queue' = Tail(queue), executed' = Append(executed, Head(queue))
  PROVE  /\ Head(queue) \in Tasks
         /\ queue' \in Seq(Tasks) /\ executed' \in Seq(Tasks)
         /\ ToSet(queue) = ToSet(queue') \cup {Head(queue)}
         /\ ToSet(executed') = ToSet(executed) \cup {Head(queue)}
         /\ IsInjective(queue') /\ Head(queue) \notin ToSet(queue')
         /\ executed' \o queue' = executed \o queue
  <1>1. queue \in Seq(Tasks) /\ executed \in Seq(Tasks) /\ IsInjective(queue)
    BY DEF IInv, TasksAccounted, FifoExactlyOnce, TypeOK, QueueInv
  <1>2. Head(queue) \in Tasks /\ queue' \in Seq(Tasks) /\ executed' \in Seq(Tasks)
    BY <1>1
  <1>3. ToSet(queue) = ToSet(queue') \cup {Head(queue)}
    BY <1>1, MembersOfTail
  <1>4. ToSet(executed') = ToSet(executed) \cup {Head(queue)}
    BY <1>1, <1>2, MembersOfAppend
  <1>5. IsInjective(queue') /\ Head(queue) \notin ToSet(queue')
    BY <1>1, InjectiveTail
  <1>6. executed' \o queue' = executed \o queue
    BY <1>1, MoveFront
  <1> QED
    BY <1>2, <1>3, <1>4, <1>5, <1>6

-----------------------------------------------------------------------------
LEMMA CallerIInv ==
  ASSUME IInv, NEW t \in Tasks, CallerNext(t)
  PROVE  IInv'
  <1> USE ExecutorAssumption
      DEF IInv, TasksAccounted, FifoExactlyOnce, CallerStep, workVars, ownerVars
  <1>1. TypeOK
    OBVIOUS
  <1>2. CASE Make(t)
    <2> USE <1>2 DEF Make
    <2>1. TypeOK'
      BY <1>1 DEF TypeOK
    <2>2. BrokenMeansNotRun'
      BY <1>1 DEF TypeOK, BrokenMeansNotRun, QueueInv
    <2>3. PromiseInv'
      BY <1>1 DEF TypeOK, PromiseInv
    <2>4. QueueInv' /\ DeathInv'
      BY <1>1 DEF TypeOK, QueueInv, DeathInv
    <2> QED
      BY <2>1, <2>2, <2>3, <2>4
  <1>3. CASE Execute(t)
    <2> USE <1>3 DEF Execute
    <2>1. Enqueue(t) /\ t \notin ToSet(submitted)
      BY DEF QueueInv
    <2>2. /\ queue' \in Seq(Tasks) /\ submitted' \in Seq(Tasks)
          /\ ToSet(queue') = ToSet(queue) \cup {t}
          /\ ToSet(submitted') = ToSet(submitted) \cup {t}
          /\ IsInjective(queue')
          /\ submitted = executed \o queue => submitted' = executed \o queue'
      BY <2>1, EnqueueFacts
    <2>3. TypeOK'
      BY <1>1, <2>2 DEF TypeOK
    <2>4. BrokenMeansNotRun'
      BY <1>1, <2>1, <2>2 DEF TypeOK, BrokenMeansNotRun, QueueInv
    <2>5. PromiseInv'
      BY <1>1, <2>2 DEF TypeOK, PromiseInv
    <2>6. DeathInv'
      BY <1>1, <2>1, <2>2 DEF TypeOK, DeathInv
    <2>7. QueueInv'
      <3>1. /\ ToSet(queue') \cup ToSet(executed') \subseteq ToSet(submitted')
            /\ ToSet(queue') \cap ToSet(executed') = {}
            /\ current' # NoTask => current' \in ToSet(executed')
        BY <2>1, <2>2 DEF QueueInv
      <3>2. \A u \in Tasks :
              /\ u \in ToSet(submitted') => caller'[u] \in {"pushed", "returned"}
              /\ caller'[u] = "pushed" => u \in ToSet(submitted')
        BY <1>1, <2>1, <2>2 DEF TypeOK, QueueInv
      <3> QED
        BY <2>2, <3>1, <3>2 DEF QueueInv
    <2> QED
      BY <2>2, <2>3, <2>4, <2>5, <2>6, <2>7
  <1>4. CASE ExecuteThrows(t)
    <2> USE <1>4 DEF ExecuteThrows, Drop
    <2>1. TypeOK'
      BY <1>1 DEF TypeOK
    <2>2. BrokenMeansNotRun'
      BY <1>1 DEF TypeOK, BrokenMeansNotRun, PromiseInv
    <2>3. PromiseInv'
      BY <1>1 DEF TypeOK, PromiseInv, QueueInv
    <2>4. QueueInv' /\ DeathInv'
      BY <1>1 DEF TypeOK, QueueInv, DeathInv
    <2> QED
      BY <2>1, <2>2, <2>3, <2>4
  <1>5. CASE CatchThrown(t)
    <2> USE <1>5 DEF CatchThrown, Settle
    <2>1. TypeOK'
      BY <1>1 DEF TypeOK
    <2>2. BrokenMeansNotRun'
      BY <1>1 DEF TypeOK, BrokenMeansNotRun
    <2>3. PromiseInv'
      BY <1>1 DEF TypeOK, PromiseInv, QueueInv
    <2>4. QueueInv' /\ DeathInv'
      BY <1>1 DEF TypeOK, QueueInv, DeathInv
    <2> QED
      BY <2>1, <2>2, <2>3, <2>4
  <1>6. CASE Return(t)
    <2> USE <1>6 DEF Return, Drop
    <2>1. TypeOK'
      BY <1>1 DEF TypeOK
    <2>2. BrokenMeansNotRun'
      <3>1. ToSet(submitted) = ToSet(executed) \cup ToSet(queue) \/ object = "dead"
        <4>1. /\ executed \in Seq(Tasks) /\ queue \in Seq(Tasks)
              /\ submitted = executed \o queue \/ object = "dead"
          BY <1>1 DEF TypeOK
        <4>2. ToSet(executed \o queue) = ToSet(executed) \cup ToSet(queue)
          BY <4>1, MembersOfConcat
        <4> QED
          BY <4>1, <4>2
      <3>2. t \in ToSet(submitted) /\ UNCHANGED <<submitted, executed, current, object>>
        BY DEF QueueInv
      <3>3. \A u \in Tasks : u # t => cell'[u] = cell[u] /\ caller'[u] = caller[u]
        BY <1>1 DEF TypeOK
      <3>4. CASE cell'[t] # cell[t]
        <4>1. cell'[t] = "broken" /\ cell[t] = "pending" /\ "task" \notin owing[t]
          BY <1>1, <3>4 DEF TypeOK
        <4>2. t \notin ToSet(queue) /\ t # current
          BY <4>1 DEF PromiseInv
        <4>3. t \notin ToSet(executed)
          BY <4>1, <4>2 DEF BrokenMeansNotRun
        <4> QED
          BY <3>1, <3>2, <3>3, <4>1, <4>2, <4>3 DEF BrokenMeansNotRun
      <3> QED
        BY <3>2, <3>3, <3>4 DEF BrokenMeansNotRun
    <2>3. PromiseInv'
      BY <1>1 DEF TypeOK, PromiseInv
    <2>4. QueueInv' /\ DeathInv'
      BY <1>1 DEF TypeOK, QueueInv, DeathInv
    <2> QED
      BY <2>1, <2>2, <2>3, <2>4
  <1>7. CASE AsyncInside(t)
    <2> USE <1>7 DEF AsyncInside
    <2>1. Enqueue(t) /\ t \notin ToSet(submitted)
      BY DEF QueueInv
    <2>2. /\ queue' \in Seq(Tasks) /\ submitted' \in Seq(Tasks)
          /\ ToSet(queue') = ToSet(queue) \cup {t}
          /\ ToSet(submitted') = ToSet(submitted) \cup {t}
          /\ IsInjective(queue')
          /\ submitted = executed \o queue => submitted' = executed \o queue'
      BY <2>1, EnqueueFacts
    <2>3. TypeOK'
      BY <1>1, <2>2 DEF TypeOK
    <2>4. BrokenMeansNotRun'
      <3>1. \A u \in Tasks : u # t =>
              cell'[u] = cell[u] /\ caller'[u] = caller[u]
              /\ (u \in ToSet(submitted') <=> u \in ToSet(submitted))
        BY <1>1, <2>2 DEF TypeOK
      <3>2. cell'[t] = "pending" /\ t \in ToSet(submitted') /\ t \notin ToSet(executed)
        BY <1>1, <2>1, <2>2 DEF TypeOK, QueueInv
      <3>3. UNCHANGED <<executed, current, object>>
        OBVIOUS
      <3> QED
        BY <3>1, <3>2, <3>3 DEF BrokenMeansNotRun
    <2>5. PromiseInv'
      BY <1>1, <2>2 DEF TypeOK, PromiseInv
    <2>6. DeathInv'
      BY <1>1, <2>1, <2>2 DEF TypeOK, DeathInv
    <2>7. QueueInv'
      <3>1. /\ ToSet(queue') \cup ToSet(executed') \subseteq ToSet(submitted')
            /\ ToSet(queue') \cap ToSet(executed') = {}
            /\ current' # NoTask => current' \in ToSet(executed')
        BY <2>1, <2>2 DEF QueueInv
      <3>2. \A u \in Tasks :
              /\ u \in ToSet(submitted') => caller'[u] \in {"pushed", "returned"}
              /\ caller'[u] = "pushed" => u \in ToSet(submitted')
        BY <1>1, <2>1, <2>2 DEF TypeOK, QueueInv
      <3> QED
        BY <2>2, <3>1, <3>2 DEF QueueInv
    <2> QED
      BY <2>2, <2>3, <2>4, <2>5, <2>6, <2>7
  <1> QED
    BY <1>2, <1>3, <1>4, <1>5, <1>6, <1>7 DEF CallerNext

LEMMA WorkerIInv ==
  ASSUME IInv, WorkerNext
  PROVE  IInv'
  <1> USE ExecutorAssumption
      DEF IInv, TasksAccounted, FifoExactlyOnce, promiseVars, ownerVars
  <1>1. TypeOK
    OBVIOUS
  <1>2. CASE CheckStop
    <2> USE <1>2 DEF CheckStop
    <2>1. TypeOK'
      BY <1>1 DEF TypeOK
    <2>2. BrokenMeansNotRun' /\ PromiseInv'
      BY DEF BrokenMeansNotRun, PromiseInv
    <2>3. QueueInv' /\ DeathInv'
      BY DEF QueueInv, DeathInv
    <2> QED
      BY <2>1, <2>2, <2>3
  <1>3. CASE Pop /\ queue = <<>>
    <2> USE <1>3 DEF Pop
    <2>1. TypeOK'
      BY <1>1 DEF TypeOK
    <2>2. BrokenMeansNotRun' /\ PromiseInv'
      BY DEF BrokenMeansNotRun, PromiseInv
    <2>3. QueueInv' /\ DeathInv'
      BY DEF QueueInv, DeathInv
    <2> QED
      BY <2>1, <2>2, <2>3
  <1>4. CASE Pop /\ queue # <<>>
    <2> USE <1>4 DEF Pop
    <2>1. current' = Head(queue) /\ worker' = "run"
          /\ queue' = Tail(queue) /\ executed' = Append(executed, Head(queue))
      OBVIOUS
    <2>2. /\ Head(queue) \in Tasks
          /\ queue' \in Seq(Tasks) /\ executed' \in Seq(Tasks)
          /\ ToSet(queue) = ToSet(queue') \cup {Head(queue)}
          /\ ToSet(executed') = ToSet(executed) \cup {Head(queue)}
          /\ IsInjective(queue') /\ Head(queue) \notin ToSet(queue')
          /\ executed' \o queue' = executed \o queue
      BY <2>1, TakeFacts
    <2>3. current = NoTask
      BY <1>1 DEF TypeOK
    <2>4. TypeOK'
      BY <1>1, <2>2 DEF TypeOK
    <2>5. BrokenMeansNotRun'
      BY <2>1, <2>2, <2>3 DEF BrokenMeansNotRun, PromiseInv
    <2>6. PromiseInv'
      BY <2>1, <2>2, <2>3 DEF PromiseInv
    <2>7. QueueInv' /\ DeathInv'
      BY <2>1, <2>2 DEF QueueInv, DeathInv
    <2> QED
      BY <2>2, <2>4, <2>5, <2>6, <2>7
  <1>5. ASSUME NEW outcome \in {"value", "error"}, Settle(current, "task", outcome),
               worker \in {"run", "selfjoin"}, worker' = "check", current' = NoTask,
               UNCHANGED <<caller, queue, submitted, executed, ownerVars>>
        PROVE  IInv'
    <2> USE <1>5 DEF Settle
    <2>1. current \in Tasks
      BY <1>1 DEF TypeOK
    <2>2. TypeOK'
      BY <1>1, <2>1 DEF TypeOK
    <2>3. BrokenMeansNotRun'
      BY <1>1, <2>1 DEF TypeOK, BrokenMeansNotRun, QueueInv
    <2>4. PromiseInv'
      BY <1>1, <2>1 DEF TypeOK, PromiseInv, QueueInv
    <2>5. QueueInv' /\ DeathInv'
      BY DEF QueueInv, DeathInv
    <2> QED
      BY <2>2, <2>3, <2>4, <2>5
  <1>6. CASE Run
    BY <1>5, <1>6 DEF Run
  <1>7. CASE SelfJoin
    BY <1>5, <1>7 DEF SelfJoin
  <1>8. CASE SelfStop
    <2> USE <1>8 DEF SelfStop, RequestStop
    <2>1. TypeOK'
      BY <1>1 DEF TypeOK
    <2>2. BrokenMeansNotRun' /\ PromiseInv'
      BY DEF BrokenMeansNotRun, PromiseInv
    <2>3. QueueInv' /\ DeathInv'
      BY DEF QueueInv, DeathInv
    <2> QED
      BY <2>1, <2>2, <2>3
  <1> QED
    BY <1>2, <1>3, <1>4, <1>6, <1>7, <1>8 DEF WorkerNext

LEMMA OwnerIInv ==
  ASSUME IInv, OwnerNext
  PROVE  IInv'
  <1> USE ExecutorAssumption
      DEF IInv, TasksAccounted, FifoExactlyOnce, OwnerStep, promiseVars, workVars
  <1>1. TypeOK
    OBVIOUS
  <1>2. CASE Start
    <2> USE <1>2 DEF Start
    <2>1. TypeOK'
      BY <1>1 DEF TypeOK
    <2>2. BrokenMeansNotRun' /\ PromiseInv'
      BY DEF BrokenMeansNotRun, PromiseInv
    <2>3. QueueInv' /\ DeathInv'
      BY DEF QueueInv, DeathInv
    <2> QED
      BY <2>1, <2>2, <2>3
  <1>3. CASE Assign \/ Stop \/ StopReturns \/ Destroy
    <2> USE <1>3 DEF Assign, Stop, StopReturns, Destroy, RequestStop
    <2>1. TypeOK'
      BY <1>1 DEF TypeOK
    <2>2. BrokenMeansNotRun' /\ PromiseInv'
      BY DEF BrokenMeansNotRun, PromiseInv
    <2>3. QueueInv'
      BY DEF QueueInv
    <2>4. DeathInv'
      BY DEF DeathInv
    <2> QED
      BY <2>1, <2>2, <2>3, <2>4
  <1>4. CASE Free
    <2> USE <1>4 DEF Free, Drop
    <2>1. current = NoTask /\ ToSet(queue) \subseteq Tasks /\ queue' = <<>>
      BY <1>1, QueuedAreTasks DEF TypeOK
    <2>2. TypeOK'
      <3>1. queue' \in Seq(Tasks)
        BY EmptySeq
      <3> QED
        BY <1>1, <3>1 DEF TypeOK
    <2>3. BrokenMeansNotRun'
      BY <1>1 DEF TypeOK, BrokenMeansNotRun, QueueInv
    <2>4. PromiseInv'
      BY <1>1, <2>1, NoMembers DEF TypeOK, PromiseInv, DeathInv
    <2>5. QueueInv' /\ DeathInv'
      BY NoMembers DEF QueueInv, DeathInv, IsInjective
    <2> QED
      BY <2>2, <2>3, <2>4, <2>5
  <1> QED
    BY <1>2, <1>3, <1>4 DEF OwnerNext

LEMMA StutterIInv ==
  ASSUME IInv, UNCHANGED vars
  PROVE  IInv'
  <1> USE DEF IInv, TasksAccounted, FifoExactlyOnce, vars, promiseVars, workVars, ownerVars
  <1>1. TypeOK' /\ (object = "live" => submitted = executed \o queue)'
    BY DEF TypeOK
  <1>2. BrokenMeansNotRun' /\ PromiseInv' /\ QueueInv' /\ DeathInv'
    BY DEF BrokenMeansNotRun, PromiseInv, QueueInv, DeathInv
  <1> QED
    BY <1>1, <1>2

LEMMA NextIInv == IInv /\ [Next]_vars => IInv'
  BY CallerIInv, WorkerIInv, OwnerIInv, StutterIInv DEF Next, Finished

(* IInv is an inductive invariant of the executor. *)
THEOREM Inductive == Spec => []IInv
  BY InitIInv, NextIInv, PTL DEF Spec

(* Whatever is stopped, restarted or thrown, every task is queued, was run *)
(* once and in order, or is broken without having been run.                *)
THEOREM AccountsForTasks == Spec => []TasksAccounted
  <1>1. IInv => TasksAccounted
    BY DEF IInv
  <1> QED
    BY <1>1, Inductive, PTL

-----------------------------------------------------------------------------
(* ThreadExecutor implements Executor: a push is a Submit, the pop of a    *)
(* task its Begin, the end of its run its End, freeing the Impl a Discard. *)

LEMMA InitRefines == Init => Promise!Init
  BY NoMembers DEF Init, Promise!Init, activeTasks

LEMMA PushRefines ==
  ASSUME IInv, NEW t \in Tasks, Execute(t) \/ AsyncInside(t)
  PROVE  Promise!Submit(t)
  <1>1. TypeOK /\ QueueInv /\ DeathInv
    BY DEF IInv, TasksAccounted, FifoExactlyOnce
  <1>2. /\ Enqueue(t) /\ UNCHANGED <<object, current, executed>>
        /\ caller[t] \in {"idle", "made"} /\ (caller[t] = "made" \/ worker = "run")
    BY DEF Execute, AsyncInside, CallerStep, ownerVars
  <1>3. object = "live"
    BY <1>1, <1>2 DEF TypeOK, DeathInv
  <1>4. t \notin ToSet(submitted)
    BY <1>1, <1>2 DEF QueueInv
  <1>5. t # current
    BY <1>1, <1>4, ExecutorAssumption DEF QueueInv, ExecutorAssumption
  <1>6. /\ Enqueue(t) /\ t \notin ToSet(submitted)
        /\ object = "live" /\ t # current
        /\ UNCHANGED <<object, current, executed>>
    BY <1>2, <1>3, <1>4, <1>5
  <1>7. ToSet(queue') = ToSet(queue) \cup {t}
    BY <1>6, EnqueueFacts
  <1>8. t \notin ToSet(queue) \cup ToSet(executed)
    BY <1>1, <1>6 DEF QueueInv
  <1> QED
    BY <1>6, <1>7, <1>8 DEF Promise!Submit, activeTasks

LEMMA CallerRefines ==
  ASSUME IInv, NEW t \in Tasks, CallerNext(t)
  PROVE  [Promise!Next]_Promise!vars
  <1>1. CASE Execute(t) \/ AsyncInside(t)
    BY <1>1, PushRefines DEF Promise!Next
  <1>2. CASE Make(t) \/ ExecuteThrows(t) \/ CatchThrown(t) \/ Return(t)
    BY <1>2 DEF Make, ExecuteThrows, CatchThrown, Return, workVars, ownerVars,
                Promise!vars, activeTasks
  <1> QED
    BY <1>1, <1>2 DEF CallerNext

LEMMA WorkerRefines ==
  ASSUME IInv, WorkerNext
  PROVE  [Promise!Next]_Promise!vars
  <1> USE ExecutorAssumption DEF IInv, TasksAccounted, FifoExactlyOnce
  <1>1. TypeOK
    OBVIOUS
  <1>2. CASE CheckStop \/ SelfStop \/ (Pop /\ queue = <<>>)
    BY <1>2 DEF CheckStop, SelfStop, Pop, promiseVars, ownerVars,
                Promise!vars, activeTasks
  <1>3. CASE Pop /\ queue # <<>>
    <2> DEFINE h == Head(queue)
    <2>1. /\ current = NoTask /\ current' = h
          /\ queue' = Tail(queue) /\ executed' = Append(executed, h)
          /\ UNCHANGED <<object, submitted>>
      BY <1>1, <1>3 DEF Pop, TypeOK, ownerVars
    <2>2. /\ h \in Tasks /\ h \notin ToSet(queue')
          /\ ToSet(queue) = ToSet(queue') \cup {h}
          /\ ToSet(executed') = ToSet(executed) \cup {h}
      BY <1>3, <2>1, TakeFacts
    <2>3. h \notin ToSet(executed) /\ h # NoTask
      BY <2>2 DEF QueueInv
    <2> HIDE DEF h
    <2>4. activeTasks = {} /\ activeTasks' = {h}
      BY <2>1, <2>3 DEF activeTasks
    <2>5. Promise!Cardinality(activeTasks) < 1
      <3>1. Promise!Cardinality(activeTasks) = Cardinality(activeTasks)
        BY DEF Promise!Cardinality, Cardinality
      <3> QED
        BY <2>4, <3>1, FS_EmptySet
    <2>6. object = "live"
      BY <1>3 DEF DeathInv, TypeOK
    <2>7. ToSet(queue') = ToSet(queue) \ {h} /\ activeTasks' = activeTasks \cup {h}
      BY <2>2, <2>4
    <2>8. ToSet(executed') \ activeTasks' = ToSet(executed) \ activeTasks
      BY <2>2, <2>3, <2>4
    <2>9. Promise!Begin(h)
      BY <2>1, <2>2, <2>5, <2>6, <2>7, <2>8 DEF Promise!Begin
    <2> QED
      BY <2>2, <2>9 DEF Promise!Next
  <1>4. CASE Run \/ SelfJoin
    <2>1. /\ current \in Tasks /\ current \in ToSet(executed)
          /\ current' = NoTask
          /\ UNCHANGED <<queue, submitted, executed, object>>
      BY <1>1, <1>4 DEF Run, SelfJoin, TypeOK, QueueInv, ownerVars
    <2>2. Promise!End(current)
      BY <2>1 DEF Promise!End, activeTasks
    <2> QED
      BY <2>1, <2>2 DEF Promise!Next
  <1> QED
    BY <1>2, <1>3, <1>4 DEF WorkerNext

LEMMA OwnerRefines ==
  ASSUME IInv, OwnerNext
  PROVE  [Promise!Next]_Promise!vars
  <1>1. CASE Start \/ Assign \/ Stop \/ StopReturns \/ Destroy
    BY <1>1 DEF Start, Assign, Stop, StopReturns, Destroy, promiseVars, workVars,
                Promise!vars, activeTasks
  <1>2. CASE Free
    <2> USE <1>2 DEF IInv, TasksAccounted, FifoExactlyOnce, Free, OwnerStep
    <2>1. current = NoTask /\ object = "live"
      BY DEF TypeOK, DeathInv
    <2>2. ToSet(submitted) \ ToSet(executed) = ToSet(queue)
      <3>1. ToSet(submitted) = ToSet(executed) \cup ToSet(queue)
        <4>1. submitted = executed \o queue /\ executed \in Seq(Tasks) /\ queue \in Seq(Tasks)
          BY <2>1 DEF TypeOK
        <4> QED
          BY <4>1, MembersOfConcat
      <3> QED
        BY <3>1 DEF QueueInv
    <2>3. Promise!Discard
      BY <2>1, <2>2, NoMembers DEF Promise!Discard, activeTasks
    <2> QED
      BY <2>3 DEF Promise!Next
  <1> QED
    BY <1>1, <1>2 DEF OwnerNext

LEMMA NextRefines == IInv /\ [Next]_vars => [Promise!Next]_Promise!vars
  <1> SUFFICES ASSUME IInv, [Next]_vars PROVE [Promise!Next]_Promise!vars
    OBVIOUS
  <1>1. CASE UNCHANGED vars
    BY <1>1 DEF vars, workVars, ownerVars, Promise!vars, activeTasks
  <1> QED
    BY <1>1, CallerRefines, WorkerRefines, OwnerRefines DEF Next, Finished

(* Every behaviour of ThreadExecutor is one of Executor with one thread: a *)
(* task runs at most once, never beside another, and only the destruction  *)
(* of the executor, with no task running, gives one up.                    *)
THEOREM RefinesExecutor == Spec => ImplementsExecutor
  BY InitRefines, NextRefines, Inductive, PTL DEF Spec, ImplementsExecutor, Promise!Spec
=============================================================================
