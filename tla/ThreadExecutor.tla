--------------------------- MODULE ThreadExecutor ---------------------------
(***************************************************************************)
(* nex::ThreadExecutor (include/nex/core/executor.h, src/core/executor.cpp) *)
(* with the tasks nex::async() hands to it (include/nex/core/async.h).     *)
(*                                                                         *)
(* Callers submit tasks, an owner starts, stops and destroys the executor, *)
(* one worker thread takes tasks from the queue and runs them.  A critical *)
(* section of queueMutex_ is one action.  Of the shared state behind a     *)
(* task's Promise and Future (module FutureState) only its content and the *)
(* Promise copies that still owe it an outcome are kept; of the Thread     *)
(* (module Thread) whether it runs, its stop flag and its join().          *)
(***************************************************************************)
EXTENDS Naturals, Sequences, SequencesExt

CONSTANTS
  Tasks,     (* the tasks, one async() call each                           *)
  Stoppers,  (* those that call stop() on the executor they run on         *)
  NoTask

ASSUME ExecutorAssumption == Stoppers \subseteq Tasks /\ NoTask \notin Tasks

VARIABLES
  cell,      (* content of the shared state of each task                   *)
  owing,     (* Promise copies that hold its PromiseLifetime               *)
  caller,    (* where the async() call for each task is                    *)
  queue,     (* Impl::taskQueue_                                           *)
  worker,    (* where the worker thread is; "none": thread_ is not running *)
  current,   (* the task it has taken                                      *)
  stopFlag,  (* thread_.stopRequested()                                    *)
  owner,     (* where the owner is                                         *)
  object,    (* "live", "dead"                                             *)
  submitted, (* history: tasks in the order execute() queued them          *)
  executed   (* history: tasks in the order the worker took them           *)

promiseVars == <<cell, owing, caller>>
workVars    == <<queue, worker, current, submitted, executed>>
ownerVars   == <<stopFlag, owner, object>>
vars        == <<promiseVars, workVars, ownerVars>>

Init ==
  /\ cell = [t \in Tasks |-> "none"]
  /\ owing = [t \in Tasks |-> {}]
  /\ caller = [t \in Tasks |-> "idle"]
  /\ queue = <<>> /\ submitted = <<>> /\ executed = <<>>
  /\ worker = "none" /\ current = NoTask
  /\ stopFlag = FALSE /\ owner = "idle" /\ object = "live"

-----------------------------------------------------------------------------
(* The shared states.                                                      *)

(* Mutated form: the last Promise copy goes without breaking the state. *)
DropSilently(ts, who) ==
  /\ owing' = [t \in Tasks |-> IF t \in ts THEN owing[t] \ {who} ELSE owing[t]]
  /\ UNCHANGED cell

(* who's copies of the Promises of ts are destroyed: ~PromiseLifetime()    *)
(* breaks the state when no other copy is left and none was satisfied.     *)
Drop(ts, who) ==
  /\ owing' = [t \in Tasks |-> IF t \in ts THEN owing[t] \ {who} ELSE owing[t]]
  /\ cell' = [t \in Tasks |->
       IF t \in ts /\ who \in owing[t] /\ owing'[t] = {} /\ cell[t] = "pending"
       THEN "broken" ELSE cell[t]]

(* setValue() or setException() through who's copy. *)
Settle(t, who, outcome) ==
  /\ cell' = [cell EXCEPT ![t] = outcome]
  /\ owing' = [owing EXCEPT ![t] = @ \ {who}]

-----------------------------------------------------------------------------
(* async(): make the Promise, the Future and the task; execute(); return.  *)

CallerStep(t, from, to) == caller[t] = from /\ caller' = [caller EXCEPT ![t] = to]

Make(t) ==
  /\ object = "live" /\ owner # "destroying"
  /\ CallerStep(t, "idle", "made")
  /\ cell' = [cell EXCEPT ![t] = "pending"]
  /\ owing' = [owing EXCEPT ![t] = {"caller", "task"}]
  /\ UNCHANGED <<workVars, ownerVars>>

(* execute(): push under queueMutex_. *)
Enqueue(t) ==
  /\ queue' = Append(queue, t)
  /\ submitted' = Append(submitted, t)

Execute(t) ==
  /\ CallerStep(t, "made", "pushed")
  /\ Enqueue(t)
  /\ UNCHANGED <<cell, owing, worker, current, executed, ownerVars>>

(* Allocating for the push fails: the task is destroyed, async() catches.  *)
ExecuteThrows(t) ==
  /\ CallerStep(t, "made", "threw")
  /\ Drop({t}, "task")
  /\ UNCHANGED <<workVars, ownerVars>>

CatchThrown(t) ==
  /\ CallerStep(t, "threw", "returned")
  /\ Settle(t, "caller", "error")
  /\ UNCHANGED <<workVars, ownerVars>>

(* async() returns the Future; its own copy of the Promise is destroyed.   *)
Return(t) ==
  /\ CallerStep(t, "pushed", "returned")
  /\ Drop({t}, "caller")
  /\ UNCHANGED <<workVars, ownerVars>>

(* A running task calls async() on its own executor.  The worker is inside *)
(* the call from beginning to end, so only the push is visible.            *)
AsyncInside(t) ==
  /\ worker = "run" /\ CallerStep(t, "idle", "returned")
  /\ cell' = [cell EXCEPT ![t] = "pending"]
  /\ owing' = [owing EXCEPT ![t] = {"task"}]
  /\ Enqueue(t)
  /\ UNCHANGED <<worker, current, executed, ownerVars>>

-----------------------------------------------------------------------------
(* The worker: the lambda of start().                                      *)

CheckStop ==
  /\ worker = "check"
  /\ worker' = IF stopFlag THEN "none" ELSE "pop"
  /\ UNCHANGED <<promiseVars, queue, current, submitted, executed, ownerVars>>

(* Mutated form: the task is read but stays in the queue. *)
PeekNotPop ==
  /\ worker = "pop"
  /\ IF queue = <<>>
     THEN worker' = "check" /\ UNCHANGED <<queue, current, executed>>
     ELSE /\ worker' = "run"
          /\ current' = Head(queue) /\ UNCHANGED queue
          /\ executed' = Append(executed, Head(queue))
  /\ UNCHANGED <<promiseVars, submitted, ownerVars>>

(* Mutated form: an off-by-one leaves the last task alone. *)
PopAllButOne ==
  /\ worker = "pop"
  /\ IF Len(queue) <= 1
     THEN worker' = "check" /\ UNCHANGED <<queue, current, executed>>
     ELSE /\ worker' = "run"
          /\ current' = Head(queue) /\ queue' = Tail(queue)
          /\ executed' = Append(executed, Head(queue))
  /\ UNCHANGED <<promiseVars, submitted, ownerVars>>

(* Take the front task under queueMutex_, or go round the loop.            *)
Pop ==
  /\ worker = "pop"
  /\ IF queue = <<>>
     THEN worker' = "check" /\ UNCHANGED <<queue, current, executed>>
     ELSE /\ worker' = "run"
          /\ current' = Head(queue) /\ queue' = Tail(queue)
          /\ executed' = Append(executed, Head(queue))
  /\ UNCHANGED <<promiseVars, submitted, ownerVars>>

(* Mutated form: an exception of the function leaves run() uncaught. *)
RunUncaught ==
  /\ worker = "run" /\ current \notin Stoppers
  /\ worker' = "check" /\ current' = NoTask
  /\ \/ Settle(current, "task", "value")
     \/ Drop({current}, "task")
  /\ UNCHANGED <<caller, queue, submitted, executed, ownerVars>>

(* AsyncTask::run() ends in setValue() or, when the function throws, in    *)
(* setException(); the loop destroys the task and goes on.                 *)
Run ==
  /\ worker = "run" /\ current \notin Stoppers
  /\ worker' = "check" /\ current' = NoTask
  /\ \E outcome \in {"value", "error"} : Settle(current, "task", outcome)
  /\ UNCHANGED <<caller, queue, submitted, executed, ownerVars>>

(* thread_.requestStop() *)
RequestStop == stopFlag' = TRUE

(* A task calls stop(): requestStop() ...                                  *)
SelfStop ==
  /\ worker = "run" /\ current \in Stoppers
  /\ worker' = "selfjoin"
  /\ RequestStop
  /\ UNCHANGED <<promiseVars, queue, current, submitted, executed, owner, object>>

(* ... then join() on the thread it runs on, which std::jthread refuses    *)
(* with an exception, so run() ends in setException(); unless start() has  *)
(* yet to assign the jthread: a race, and join() may then do nothing.      *)
SelfJoin ==
  /\ worker = "selfjoin"
  /\ worker' = "check" /\ current' = NoTask
  /\ \/ Settle(current, "task", "error")
     \/ owner = "assign" /\ Settle(current, "task", "value")
  /\ UNCHANGED <<caller, queue, submitted, executed, ownerVars>>

-----------------------------------------------------------------------------
(* The owner.                                                              *)

OwnerStep(from, to) == owner = from /\ owner' = to

(* thread_.start(): the stop source is reset and the worker is spawned ... *)
(* (While thread_ is running it returns false, which start() ignores: no   *)
(* step at all, also when the worker was told to stop and is on its way.)  *)
Start ==
  /\ object = "live" /\ OwnerStep("idle", "assign")
  /\ worker = "none"
  /\ worker' = "check"
  /\ stopFlag' = FALSE
  /\ UNCHANGED <<promiseVars, queue, current, submitted, executed, object>>

(* ... then impl_->jthread is assigned. *)
Assign ==
  /\ OwnerStep("assign", "idle")
  /\ UNCHANGED <<promiseVars, workVars, stopFlag, object>>

(* stop(): requestStop(), then join(). *)
Stop ==
  /\ object = "live" /\ OwnerStep("idle", "stopping")
  /\ RequestStop
  /\ UNCHANGED <<promiseVars, workVars, object>>

StopReturns ==
  /\ OwnerStep("stopping", "idle")
  /\ worker = "none"
  /\ UNCHANGED <<promiseVars, workVars, stopFlag, object>>

(* ~ThreadExecutor() calls stop(); no other thread may be in a call then.  *)
Destroy ==
  /\ object = "live" /\ OwnerStep("idle", "destroying")
  /\ \A t \in Tasks : caller[t] # "made"
  /\ RequestStop
  /\ UNCHANGED <<promiseVars, workVars, object>>

(* The Impl is freed, and with the queue every task that was never run.    *)
Free ==
  /\ OwnerStep("destroying", "idle")
  /\ worker = "none"
  /\ object' = "dead" /\ queue' = <<>>
  /\ Drop(ToSet(queue), "task")
  /\ UNCHANGED <<caller, worker, current, submitted, executed, stopFlag>>

-----------------------------------------------------------------------------
CallerNext(t) ==
  Make(t) \/ Execute(t) \/ ExecuteThrows(t) \/ CatchThrown(t) \/ Return(t) \/ AsyncInside(t)

WorkerNext == CheckStop \/ Pop \/ Run \/ SelfStop \/ SelfJoin

OwnerNext ==
  Start \/ Assign \/ Stop \/ StopReturns \/ Destroy \/ Free

(* The executor is gone, and every async() call has returned. *)
Finished ==
  /\ object = "dead" /\ \A t \in Tasks : caller[t] \in {"idle", "returned"}
  /\ UNCHANGED vars

Next == (\E t \in Tasks : CallerNext(t)) \/ WorkerNext \/ OwnerNext \/ Finished

(* Threads inside a call go on, and so does the worker; tasks return.      *)
(* Nobody has to call anything.                                            *)
Fairness ==
  /\ \A t \in Tasks :
       /\ WF_vars(Execute(t) \/ ExecuteThrows(t))
       /\ WF_vars(CatchThrown(t) \/ Return(t))
  /\ WF_vars(WorkerNext)
  /\ WF_vars(Assign \/ StopReturns \/ Free)

Spec == Init /\ [][Next]_vars
FairSpec == Spec /\ Fairness

-----------------------------------------------------------------------------
(* Properties.  *)

(* Types; and who owes an outcome at each point of a call.                 *)
TypeOK ==
  /\ cell \in [Tasks -> {"none", "pending", "value", "error", "broken"}]
  /\ owing \in [Tasks -> SUBSET {"caller", "task"}]
  /\ caller \in [Tasks -> {"idle", "made", "threw", "pushed", "returned"}]
  /\ queue \in Seq(Tasks) /\ submitted \in Seq(Tasks) /\ executed \in Seq(Tasks)
  /\ worker \in {"none", "check", "pop", "run", "selfjoin"}
  /\ current \in Tasks \cup {NoTask}
  /\ current # NoTask <=> worker \in {"run", "selfjoin"}
  /\ stopFlag \in BOOLEAN
  /\ owner \in {"idle", "assign", "stopping", "destroying"}
  /\ object \in {"live", "dead"}

(* "In the order they were received", each once, none lost: what was       *)
(* executed and what is queued is together what was submitted, across any  *)
(* number of stops and restarts.                                           *)
FifoExactlyOnce ==
  /\ TypeOK
  /\ object = "live" => submitted = executed \o queue

(* A future is broken exactly for a task that was queued and never taken,  *)
(* by the end of the executor; a taken one gets the outcome of its own     *)
(* run, and one whose execute() threw gets that exception.                 *)
BrokenMeansNotRun ==
  \A t \in Tasks :
    /\ cell[t] = "broken" =>
         t \in ToSet(submitted) /\ t \notin ToSet(executed) /\ object = "dead"
    /\ t \in ToSet(executed) /\ t # current => cell[t] \in {"value", "error"}
    /\ caller[t] = "returned" /\ t \notin ToSet(submitted) => cell[t] = "error"

(* Whatever is stopped, restarted or thrown, the tasks are accounted for:  *)
(* queued, run once and in order, broken by the end of the executor, or    *)
(* refused with the exception in its future.                               *)
TasksAccounted == FifoExactlyOnce /\ BrokenMeansNotRun

(* Every future resolves once the executor goes, also one whose async()    *)
(* call is returning while its task is destroyed with the queue.           *)
DestructionResolves ==
  owner = "destroying" ~> \A t \in Tasks : cell[t] # "pending"

(* A queued task is run unless the executor is stopped.                    *)
QueuedIsRun ==
  \A t \in Tasks : t \in ToSet(queue) ~> t \notin ToSet(queue) \/ stopFlag \/ worker = "none"

-----------------------------------------------------------------------------
(* ThreadExecutor implements Executor with one thread.                     *)
activeTasks == {current} \ {NoTask}

Promise == INSTANCE Executor WITH
  Width <- 1,
  pending <- ToSet(queue), active <- activeTasks,
  done <- ToSet(executed) \ activeTasks,
  dropped <- IF object = "dead" THEN ToSet(submitted) \ ToSet(executed) ELSE {}

(* A submitted task runs at most once and never beside another, and only   *)
(* the destruction of the executor, with no task running, gives one up.    *)
ImplementsExecutor == Promise!Spec

=============================================================================
