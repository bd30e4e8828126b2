------------------------------- MODULE Thread -------------------------------
(***************************************************************************)
(* nex::Thread (include/nex/core/thread.h, src/core/thread.cpp): one       *)
(* Thread object, the thread that owns and controls it, and the OS threads *)
(* ("incarnations") that its start() calls spawn one after another.        *)
(*                                                                         *)
(* An incarnation runs from the moment std::jthread is constructed, so it  *)
(* interleaves with the rest of startWithTask(), in particular with the    *)
(* assignment to impl_->jthread.  Two stop flags exist: the one of         *)
(* impl_->stopSource, which requestStop() sets and stopRequested() reads,  *)
(* and the one inside each std::jthread, whose token a task that accepts a *)
(* StopToken is given.                                                     *)
(***************************************************************************)
EXTENDS Naturals

CONSTANTS
  MaxStarts,  (* bound: how many incarnations start() may spawn             *)
  Kinds       (* kinds of task: "run" returns by itself, "poll" waits for   *)
              (* thread.stopRequested(), "token" waits for its StopToken    *)

ASSUME ThreadAssumption ==
  MaxStarts \in Nat /\ Kinds \subseteq {"run", "poll", "token"}

Incarnations == 1 .. MaxStarts
None == 0     (* no incarnation: a jthread that is not joinable             *)

VARIABLES
  running,    (* Impl::running                                              *)
  sourceStop, (* stop state of Impl::stopSource                             *)
  handle,     (* Impl::jthread: the incarnation it stands for, or None      *)
  object,     (* "live", "dead"                                             *)
  shell,      (* a moved-from Thread left behind: "none" or "empty"; or     *)
              (* "crashed", once null or freed memory was used              *)
  owner,      (* where the controlling thread is                            *)
  last,       (* number of incarnations spawned                             *)
  failed,     (* history: the constructor of a jthread has thrown           *)
  phase,      (* where each incarnation is in the lambda of startWithTask   *)
  kind,       (* the kind of task each one runs                             *)
  token,      (* stop state of each incarnation's own jthread               *)
  detached,   (* incarnations given up by detach()                          *)
  asked       (* history: incarnations requestStop() was called for         *)

implVars  == <<running, sourceStop, handle>>
ownerVars == <<object, shell, owner, last, failed, detached, asked>>
taskVars  == <<phase, kind, token>>
vars      == <<implVars, ownerVars, taskVars>>

Alive(i) == phase[i] \in {"spawned", "task", "returning"}

Init ==
  /\ running = FALSE /\ sourceStop = FALSE /\ handle = None
  /\ object = "live" /\ shell = "none" /\ owner = "idle"
  /\ last = 0 /\ failed = FALSE /\ detached = {} /\ asked = {}
  /\ phase = [i \in Incarnations |-> "none"]
  /\ kind = [i \in Incarnations |-> "run"]
  /\ token = [i \in Incarnations |-> FALSE]

Up == shell # "crashed"

(* What std::jthread::join() on impl_->jthread waits for. *)
Joined == \A i \in Incarnations : i = handle => phase[i] = "exited"

Goto(from, to) == Up /\ owner = from /\ owner' = to

-----------------------------------------------------------------------------
(* start(): the steps of startWithTask().                                  *)

(* Mutated form: the isRunning() test dropped. *)
StartUnchecked ==
  /\ object = "live" /\ last < MaxStarts
  /\ Goto("idle", "reset")
  /\ UNCHANGED <<implVars, object, shell, last, failed, detached, asked, taskVars>>

(* isRunning() refuses a second start; otherwise go on. *)
Start ==
  /\ object = "live" /\ last < MaxStarts
  /\ ~ running
  /\ Goto("idle", "reset")
  /\ UNCHANGED <<implVars, object, shell, last, failed, detached, asked, taskVars>>

(* Mutated form: the stop source is kept. *)
KeepSource ==
  /\ Goto("reset", "mark")
  /\ UNCHANGED <<implVars, object, shell, last, failed, detached, asked, taskVars>>

(* impl_->stopSource = StopSource{} *)
ResetSource ==
  /\ Goto("reset", "mark")
  /\ sourceStop' = FALSE
  /\ UNCHANGED <<running, handle, object, shell, last, failed, detached, asked, taskVars>>

(* Mutated form: running is not set before the jthread is constructed. *)
ForgetRunning ==
  /\ Goto("mark", "spawn")
  /\ UNCHANGED <<implVars, object, shell, last, failed, detached, asked, taskVars>>

MarkRunning ==
  /\ Goto("mark", "spawn")
  /\ running' = TRUE
  /\ UNCHANGED <<sourceStop, handle, object, shell, last, failed, detached, asked, taskVars>>

(* The std::jthread is constructed: the incarnation exists from here on. *)
Spawn(k) ==
  /\ Goto("spawn", "assign")
  /\ last' = last + 1
  /\ phase' = [phase EXCEPT ![last + 1] = "spawned"]
  /\ kind' = [kind EXCEPT ![last + 1] = k]
  /\ UNCHANGED <<implVars, object, shell, failed, detached, asked, token>>

(* Or its constructor throws, because the system has no thread to give, and *)
(* start() with it: running has been stored, and nobody takes it back.     *)
SpawnFails ==
  /\ Goto("spawn", "idle")
  /\ failed' = TRUE
  /\ UNCHANGED <<implVars, object, shell, last, detached, asked, taskVars>>

(* impl_->jthread = ...: if the old jthread is still joinable the          *)
(* assignment stops it and joins it first.                                 *)
Assign ==
  /\ Goto("assign", "idle")
  /\ Joined
  /\ token' = [i \in Incarnations |-> i = handle \/ token[i]]
  /\ handle' = last
  /\ UNCHANGED <<running, sourceStop, object, shell, last, failed, detached, asked,
                 phase, kind>>

-----------------------------------------------------------------------------
(* The other calls of the owner.                                           *)

(* The stop state behind impl_->stopSource is set; the jthread's is not. *)
SignalStop ==
  /\ sourceStop' = TRUE
  /\ asked' = asked \cup {i \in Incarnations : i = last}

RequestStop ==
  /\ object = "live" /\ Goto("idle", "idle")
  /\ SignalStop
  /\ UNCHANGED <<running, handle, object, shell, last, failed, detached, taskVars>>

(* join(): does nothing unless joinable, else blocks.                      *)
Join ==
  /\ object = "live" /\ Goto("idle", "joining")
  /\ handle # None
  /\ UNCHANGED <<implVars, object, shell, last, failed, detached, asked, taskVars>>

JoinReturns ==
  /\ Goto("joining", "idle")
  /\ Joined
  /\ handle' = None
  /\ UNCHANGED <<running, sourceStop, object, shell, last, failed, detached, asked, taskVars>>

Detach ==
  /\ object = "live" /\ Goto("idle", "idle")
  /\ handle # None
  /\ detached' = detached \cup {handle}
  /\ handle' = None
  /\ UNCHANGED <<running, sourceStop, object, shell, last, failed, asked, taskVars>>

(* Mutated form: a destructor that only joins. *)
DestroyWithoutStop ==
  /\ object = "live" /\ Goto("idle", "destroying")
  /\ UNCHANGED <<implVars, object, shell, last, failed, detached, asked, taskVars>>

(* ~Thread(): requestStop(), then join(), then the Impl is freed.          *)
Destroy ==
  /\ object = "live" /\ Goto("idle", "destroying")
  /\ SignalStop
  /\ UNCHANGED <<running, handle, object, shell, last, failed, detached, taskVars>>

DestroyReturns ==
  /\ Goto("destroying", "idle")
  /\ Joined
  /\ handle' = None
  /\ object' = "dead"
  /\ UNCHANGED <<running, sourceStop, shell, last, failed, detached, asked, taskVars>>

(* The default move hands impl_ to another Thread object, which the owner  *)
(* uses from now on, and leaves a null impl_ behind ...                    *)
Move ==
  /\ object = "live" /\ Goto("idle", "idle")
  /\ shell = "none"
  /\ shell' = "empty"
  /\ UNCHANGED <<implVars, object, last, failed, detached, asked, taskVars>>

(* ... which ~Thread() dereferences in requestStop().                      *)
DestroyShell ==
  /\ Goto("idle", "idle")
  /\ shell = "empty"
  /\ shell' = "crashed"
  /\ UNCHANGED <<implVars, object, last, failed, detached, asked, taskVars>>

(* Unless it is given the impl_ of another Thread before.                  *)
AssignShell ==
  /\ Goto("idle", "idle")
  /\ shell = "empty"
  /\ shell' = "none"
  /\ UNCHANGED <<implVars, object, last, failed, detached, asked, taskVars>>

(* Move assignment to this object frees its Impl: the members in reverse,  *)
(* stopSource among them, and the jthread at the end, which sets its own   *)
(* stop flag and joins.  The Impl it gets instead is not followed here.    *)
MoveAssign ==
  /\ object = "live" /\ Goto("idle", "overwriting")
  /\ token' = [i \in Incarnations |-> i = handle \/ token[i]]
  /\ UNCHANGED <<implVars, object, shell, last, failed, detached, asked, phase, kind>>

MoveAssignReturns ==
  /\ Goto("overwriting", "idle")
  /\ Joined
  /\ handle' = None
  /\ object' = "dead"
  /\ UNCHANGED <<running, sourceStop, shell, last, failed, detached, asked, taskVars>>

-----------------------------------------------------------------------------
(* The lambda an incarnation runs.                                         *)

(* applyThreadName() and applyThreadPriority(); their effects on the OS    *)
(* thread are left out.                                                    *)
ApplyAttributes(i) ==
  /\ Up /\ phase[i] = "spawned"
  /\ phase' = [phase EXCEPT ![i] = "task"]
  /\ UNCHANGED <<implVars, ownerVars, kind, token>>

TaskReturns(i) ==
  /\ Up /\ phase[i] = "task"
  /\ kind[i] = "poll" => sourceStop
  /\ kind[i] = "token" => token[i]
  /\ phase' = [phase EXCEPT ![i] = "returning"]
  /\ UNCHANGED <<implVars, ownerVars, kind, token>>

(* impl_->running.store(false), the last statement of the lambda. *)
ClearRunning(i) ==
  /\ Up /\ phase[i] = "returning"
  /\ phase' = [phase EXCEPT ![i] = "exited"]
  /\ running' = FALSE
  /\ UNCHANGED <<sourceStop, handle, ownerVars, kind, token>>

(* A detached thread uses the Impl that ~Thread() has freed, or any one    *)
(* the members that move assignment has destroyed: it may find the memory  *)
(* as it was (the steps above) or not.                                     *)
UseFreedImpl(i) ==
  /\ Up /\ (object = "dead" \/ owner = "overwriting") /\ Alive(i)
  /\ shell' = "crashed"
  /\ UNCHANGED <<implVars, object, owner, last, failed, detached, asked, taskVars>>

-----------------------------------------------------------------------------
OwnerStep ==
  \/ Start \/ ResetSource \/ MarkRunning \/ Assign
  \/ (\E k \in Kinds : Spawn(k)) \/ SpawnFails
  \/ RequestStop \/ Join \/ JoinReturns \/ Detach
  \/ Destroy \/ DestroyReturns \/ Move \/ DestroyShell
  \/ AssignShell \/ MoveAssign \/ MoveAssignReturns

Incarnation(i) ==
  \/ ApplyAttributes(i) \/ TaskReturns(i) \/ ClearRunning(i) \/ UseFreedImpl(i)

(* The process is over, or the object and all it started are.              *)
Finished ==
  /\ \/ shell = "crashed"
     \/ object = "dead" /\ \A i \in Incarnations : ~ Alive(i)
  /\ UNCHANGED vars

Next ==
  \/ OwnerStep
  \/ \E i \in Incarnations : Incarnation(i)
  \/ Finished

(* An OS thread runs until its task returns, and the owner goes on inside  *)
(* a call; it need not make any.                                           *)
Fairness ==
  /\ WF_vars(ResetSource) /\ WF_vars(MarkRunning)
  /\ WF_vars((\E k \in Kinds : Spawn(k)) \/ SpawnFails)
  /\ WF_vars(Assign) /\ WF_vars(JoinReturns) /\ WF_vars(DestroyReturns)
  /\ WF_vars(MoveAssignReturns)
  /\ \A i \in Incarnations :
       WF_vars(ApplyAttributes(i)) /\ WF_vars(TaskReturns(i)) /\ WF_vars(ClearRunning(i))

Spec == Init /\ [][Next]_vars
FairSpec == Spec /\ Fairness

-----------------------------------------------------------------------------
(* Properties.  *)

(* Types; jthread never stands for an incarnation that was not spawned.    *)
TypeOK ==
  /\ running \in BOOLEAN /\ sourceStop \in BOOLEAN
  /\ last \in 0 .. MaxStarts /\ handle \in 0 .. last /\ failed \in BOOLEAN
  /\ object \in {"live", "dead"} /\ shell \in {"none", "empty", "crashed"}
  /\ owner \in {"idle", "reset", "mark", "spawn", "assign", "joining", "destroying", "overwriting"}
  /\ detached \subseteq Incarnations /\ asked \subseteq Incarnations
  /\ phase \in [Incarnations -> {"none", "spawned", "task", "returning", "exited"}]
  /\ kind \in [Incarnations -> {"run", "poll", "token"}]
  /\ token \in [Incarnations -> BOOLEAN]

(* "If the thread is already running, this function will return false and  *)
(* do nothing": one Thread object never runs two tasks at once, not even   *)
(* when it was detached from the first.                                    *)
SingleIncarnation ==
  \A i, j \in Incarnations : Alive(i) /\ Alive(j) => i = j

(* isRunning() is true exactly from before the OS thread exists until its  *)
(* last statement, although the flag is set and cleared by two threads; of *)
(* an object whose start() has thrown, which is one of README section 6's  *)
(* disagreements, it is not claimed.                                       *)
RunningExact ==
  ~ failed => (running <=> (owner = "spawn" \/ \E i \in Incarnations : Alive(i)))

(* The join hidden in the assignment to impl_->jthread never waits: start() *)
(* does not block on a previous task.                                      *)
StartNeverBlocks ==
  owner = "assign" => Joined

(* "... to prevent any previous stop requests from affecting the new       *)
(* thread": a polling task ends only if it was itself asked to.            *)
StopNotInherited ==
  \A i \in Incarnations :
    kind[i] = "poll" /\ phase[i] \in {"returning", "exited"} => i \in asked

(* "Automatically requests stop and joins the thread (RAII) to ensure      *)
(* clean shutdown": only a detached task outlives the object.              *)
CleanShutdown ==
  object = "dead" => \A i \in Incarnations : Alive(i) => i \in detached

(* However an object is started, joined, detached, moved from and          *)
(* destroyed, it has one task at a time, and outlives those it still owns. *)
TasksUnderControl == SingleIncarnation /\ CleanShutdown

(* After join() the object is not running and can be started again, unless *)
(* a start() has thrown: that object stays joinable but never restarts.    *)
JoinedIsRestartable ==
  [][owner = "joining" /\ owner' = "idle" /\ ~ failed => ~ running']_vars

(* getId(): the id in impl_->jthread, whoever asks.                        *)
GetId == IF running THEN handle ELSE None

(* A task that asks its Thread for getId() is told its own id, from the    *)
(* moment start() has returned and unless it was detached.                 *)
OwnIdAfterStart ==
  \A i \in Incarnations :
    phase[i] = "task" /\ owner # "assign" /\ i \notin detached => GetId = i

(* ~Thread() returns, unless a task waits for its StopToken: the request   *)
(* it makes reaches every task that polls stopRequested().  With move      *)
(* assignment it is the other way round: the request is the jthread's own, *)
(* and it returns unless a task polls stopRequested(), of an object that   *)
(* is gone.                                                                *)
DestructorReturns ==
  /\ owner = "destroying"
       ~> object = "dead" \/ \E i \in Incarnations : Alive(i) /\ kind[i] = "token"
  /\ owner = "overwriting"
       ~> \/ object = "dead" \/ shell = "crashed"
          \/ \E i \in Incarnations : Alive(i) /\ kind[i] = "poll"

-----------------------------------------------------------------------------
(* What a comment of the code says and the code does not do.               *)

(* thread.h:54-55, a task can check for requestStop() "by directly         *)
(* checking the StopToken": the token comes from another stop source.      *)
TokenSeesStop ==
  \A i \in Incarnations :
    i \in asked /\ phase[i] = "task" /\ kind[i] = "token" => token[i]
=============================================================================
