----------------------------- MODULE ThreadPool -----------------------------
(***************************************************************************)
(* nex::ThreadPool (include/nex/core/executor.h, src/core/executor.cpp):   *)
(* callers put tasks into one queue, Capacity worker threads take them,    *)
(* an owner starts, stops and destroys the pool.  A critical section of    *)
(* queueMutex_ is one action; start(), stop() and the destructor take one  *)
(* action for each Thread of threads_.  Of a Thread (module Thread) its    *)
(* stop flag and its join() are kept.                                      *)
(*                                                                         *)
(* All workers run the same lambda, which looks at the stop flag of        *)
(* threads_.back(), not at their own.                                      *)
(***************************************************************************)
EXTENDS Naturals, Sequences, SequencesExt

CONSTANTS
  Tasks,
  Capacity,  (* capacity of threads_ after reserve() in the constructor    *)
  NoTask

ASSUME PoolAssumption ==
  Capacity \in Nat /\ NoTask \notin Tasks

Workers == 1 .. Capacity

VARIABLES
  size,      (* threads_.size()                                            *)
  stopFlag,  (* stop source of each Thread                                 *)
  queue,     (* Impl::taskQueue_                                           *)
  pc,        (* where each worker is in the lambda                         *)
  task,      (* the task it has taken                                      *)
  owner,     (* where the owner is                                         *)
  next,      (* its loop index over threads_                               *)
  object,    (* "live", "dead"; "crashed" once freed or null memory is used *)
  submitted, (* history: tasks in the order execute() queued them          *)
  taken      (* history: tasks in the order they were taken                *)

queueVars  == <<queue, submitted, taken>>
workerVars == <<pc, task>>
ownerVars  == <<size, stopFlag, owner, next, object>>
vars       == <<queueVars, workerVars, ownerVars>>

Init ==
  /\ size = 0 /\ stopFlag = [w \in Workers |-> FALSE]
  /\ queue = <<>> /\ submitted = <<>> /\ taken = <<>>
  /\ pc = [w \in Workers |-> "none"] /\ task = [w \in Workers |-> NoTask]
  /\ owner = "idle" /\ next = 1 /\ object = "live"

-----------------------------------------------------------------------------
(* execute(), by any thread. *)
Execute(t) ==
  /\ object = "live"
  /\ t \notin ToSet(submitted)
  /\ queue' = Append(queue, t) /\ submitted' = Append(submitted, t)
  /\ UNCHANGED <<taken, workerVars, ownerVars>>

-----------------------------------------------------------------------------
(* The workers. *)

Goto(w, from, to) == pc[w] = from /\ pc' = [pc EXCEPT ![w] = to]

Alive(w) == pc[w] \in {"check", "pop", "run"}

Usable == object = "live"

(* Mutated form: each worker looks at the flag of the first Thread. *)
FrontStopRequested == stopFlag[1]

(* threads_.back().stopRequested().  While start() appends to threads_,    *)
(* this races with it and may read the size from before the append: a      *)
(* Thread appended a moment ago has no stop request either way.            *)
BackStopRequested == stopFlag[size]

CheckStop(w) ==
  /\ Usable
  /\ Goto(w, "check", IF BackStopRequested THEN "exited" ELSE "pop")
  /\ UNCHANGED <<queueVars, task, ownerVars>>

(* Mutated form: front() without pop(). *)
TakeFront(w) ==
  /\ Usable /\ Goto(w, "pop", "run") /\ queue # <<>>
  /\ task' = [task EXCEPT ![w] = Head(queue)]
  /\ taken' = Append(taken, Head(queue))
  /\ UNCHANGED <<queue, submitted, ownerVars>>

(* Take the front task under queueMutex_ ... *)
Pop(w) ==
  /\ Usable /\ Goto(w, "pop", "run") /\ queue # <<>>
  /\ task' = [task EXCEPT ![w] = Head(queue)]
  /\ queue' = Tail(queue) /\ taken' = Append(taken, Head(queue))
  /\ UNCHANGED <<submitted, ownerVars>>

(* ... or go round the loop. *)
FindEmpty(w) ==
  /\ Usable /\ Goto(w, "pop", "check") /\ queue = <<>>
  /\ UNCHANGED <<queueVars, task, ownerVars>>

Run(w) ==
  /\ Usable /\ Goto(w, "run", "check")
  /\ task' = [task EXCEPT ![w] = NoTask]
  /\ UNCHANGED <<queueVars, ownerVars>>

-----------------------------------------------------------------------------
(* The owner. *)

(* start() and stop() go over threads_. *)
EnterLoop(to) ==
  /\ object = "live" /\ owner = "idle"
  /\ owner' = to /\ next' = 1
  /\ UNCHANGED <<queueVars, workerVars, size, stopFlag, object>>

Start == EnterLoop("starting")
Stop  == EnterLoop("requesting")

(* emplaceBack() and start(): a new Thread with a new stop source. *)
StartWorker ==
  /\ owner = "starting" /\ next <= Capacity /\ size < Capacity
  /\ size' = size + 1 /\ next' = next + 1
  /\ stopFlag' = [stopFlag EXCEPT ![size + 1] = FALSE]
  /\ pc' = [pc EXCEPT ![size + 1] = "check"]
  /\ UNCHANGED <<queueVars, task, owner, object>>

(* emplaceBack() on a full threads_ moves its Threads to a larger buffer   *)
(* and destroys what is left of them: ~Thread() of a moved-from Thread.    *)
Reallocate ==
  /\ owner = "starting" /\ next <= Capacity /\ size = Capacity
  /\ object' = "crashed"
  /\ UNCHANGED <<queueVars, workerVars, size, stopFlag, owner, next>>

StartReturns ==
  /\ owner = "starting" /\ next > Capacity
  /\ owner' = "idle"
  /\ UNCHANGED <<queueVars, workerVars, size, stopFlag, next, object>>

(* Mutated form: the loop ends one Thread early. *)
RequestAllButLast ==
  /\ owner = "requesting"
  /\ IF next < size
     THEN /\ stopFlag' = [stopFlag EXCEPT ![next] = TRUE]
          /\ next' = next + 1 /\ UNCHANGED owner
     ELSE owner' = "joining" /\ next' = 1 /\ UNCHANGED stopFlag
  /\ UNCHANGED <<queueVars, workerVars, size, object>>

(* First loop of stop(): thread.requestStop() for each Thread. *)
RequestEach ==
  /\ owner = "requesting"
  /\ IF next <= size
     THEN /\ stopFlag' = [stopFlag EXCEPT ![next] = TRUE]
          /\ next' = next + 1 /\ UNCHANGED owner
     ELSE owner' = "joining" /\ next' = 1 /\ UNCHANGED stopFlag
  /\ UNCHANGED <<queueVars, workerVars, size, object>>

(* Second loop: thread.join() for each. *)
JoinEach ==
  /\ owner = "joining"
  /\ IF next <= size
     THEN pc[next] = "exited" /\ next' = next + 1 /\ UNCHANGED owner
     ELSE owner' = "idle" /\ UNCHANGED next
  /\ UNCHANGED <<queueVars, workerVars, size, stopFlag, object>>

(* There is no ~ThreadPool(): the members of Impl are destroyed in reverse *)
(* order, queueMutex_ and taskQueue_ first, then each Thread, stopped and  *)
(* joined.  With no worker left that is all; workers that still run use    *)
(* the mutex and the queue that are gone.                                  *)
Destroy ==
  /\ object = "live" /\ owner = "idle"
  /\ IF \E w \in Workers : Alive(w)
     THEN object' = "crashed" /\ UNCHANGED queue
     ELSE object' = "dead" /\ queue' = <<>>
  /\ UNCHANGED <<submitted, taken, workerVars, size, stopFlag, owner, next>>

-----------------------------------------------------------------------------
Worker(w) == CheckStop(w) \/ Pop(w) \/ FindEmpty(w) \/ Run(w)

OwnerCall == StartWorker \/ StartReturns \/ RequestEach \/ JoinEach

OwnerNext == Start \/ Reallocate \/ Stop \/ Destroy \/ OwnerCall

Finished == object \in {"dead", "crashed"} /\ UNCHANGED vars

Next ==
  \/ \E t \in Tasks : Execute(t)
  \/ \E w \in Workers : Worker(w)
  \/ OwnerNext
  \/ Finished

(* Workers are scheduled, tasks return, and the owner goes on inside a     *)
(* call; nobody has to make one.                                           *)
Fairness == WF_vars(OwnerCall) /\ \A w \in Workers : WF_vars(Worker(w))

Spec == Init /\ [][Next]_vars
FairSpec == Spec /\ Fairness

-----------------------------------------------------------------------------
(* Properties.  *)

(* Types; a worker holds a task exactly while it runs it.                  *)
TypeOK ==
  /\ size \in 0 .. Capacity /\ next \in 1 .. Capacity + 1
  /\ stopFlag \in [Workers -> BOOLEAN]
  /\ queue \in Seq(Tasks) /\ submitted \in Seq(Tasks) /\ taken \in Seq(Tasks)
  /\ pc \in [Workers -> {"none", "check", "pop", "run", "exited"}]
  /\ task \in [Workers -> Tasks \cup {NoTask}]
  /\ \A w \in Workers : task[w] # NoTask <=> pc[w] = "run"
  /\ owner \in {"idle", "starting", "requesting", "joining"}
  /\ object \in {"live", "dead", "crashed"}

(* Tasks leave the queue in the order they came, each once, none lost,     *)
(* whichever workers take them.                                            *)
TakenInOrder ==
  /\ TypeOK
  /\ object = "live" => submitted = taken \o queue

(* Although all look at one flag and not at their own, no worker leaves    *)
(* before every Thread was asked to, whatever the order of the requests.   *)
NobodyLeavesEarly ==
  (\E w \in Workers : pc[w] = "exited") => \A v \in 1 .. size : stopFlag[v]

(* Tasks and workers together: neither is lost by a stop.                  *)
PoolIsConsistent == TakenInOrder /\ NobodyLeavesEarly

(* stop() returns, although it joins its workers one after the other.      *)
StopReturns == owner \in {"requesting", "joining"} ~> owner = "idle"

-----------------------------------------------------------------------------
(* The pool implements Executor with Capacity threads.                     *)
activeTasks == {task[w] : w \in Workers} \ {NoTask}

Promise == INSTANCE Executor WITH
  Width <- Capacity,
  pending <- ToSet(queue), active <- activeTasks,
  done <- ToSet(taken) \ activeTasks,
  dropped <- IF object = "dead" THEN ToSet(submitted) \ ToSet(taken) ELSE {}

(* A submitted task runs at most once, and only the destruction of the     *)
(* pool, with no task running, gives one up.                               *)
ImplementsExecutor == Promise!Spec
=============================================================================
