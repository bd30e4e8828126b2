---------------------------- MODULE LogPipeline ----------------------------
(***************************************************************************)
(* The logging pipeline: LogBuilder's submit() (src/base/logging.cpp,      *)
(* src/infra/logging/backend.cpp) puts numbered records into a LogQueue    *)
(* (queue.h) that a LogWorker (worker.cpp) empties.                        *)
(*                                                                         *)
(* Any number of producers, one worker and the worker's owner.  An         *)
(* operation on the queue is one action, as if its callers were            *)
(* serialised.  Nothing in the code serialises them: what two operations   *)
(* at once do to the std container underneath is undefined, and nothing    *)
(* can be said of the pipeline unless they happen not to overlap.          *)
(***************************************************************************)
EXTENDS Naturals, FiniteSets, Sequences, SequencesExt

CONSTANTS
  Producers,
  MaxRecords,  (* bound: records each producer submits                     *)
  MaxCapacity, (* LogQueue::maxCapacity_, after clamping                   *)
  Policies     (* values of overflowPolicy_ considered                     *)

ASSUME LogAssumption ==
  /\ MaxRecords \in Nat /\ MaxCapacity \in Nat \ {0}
  /\ Policies \subseteq {"Block", "DropNewest", "DropOldest", "Grow"}

VARIABLES
  policy,        (* overflowPolicy_                                        *)
  counter,       (* the next SequenceNumber                                *)
  lastSubmitted, (* lastSubmittedSequenceNumber                            *)
  queue,         (* LogQueue::queue_                                       *)
  producer,      (* where each producer is in submit()                     *)
  number,        (* the number of the record it holds                      *)
  count,         (* records it has created                                 *)
  worker,        (* where the worker is; "none": not running               *)
  current,       (* the number of the record it has dequeued, or 0         *)
  lastProcessed, (* lastProcessedSequenceNumber_                           *)
  stopFlag,      (* workerThread_.stopRequested()                          *)
  owner,         (* where the owner is                                     *)
  object,        (* the LogWorker: "live" or "dead"                        *)
  lost,          (* history: records that will never be processed          *)
  processed,     (* history: numbers in the order they were processed      *)
  author         (* history: who submitted each number                     *)

submitVars == <<counter, lastSubmitted, producer, number, count, author>>
workVars   == <<worker, current, lastProcessed, processed>>
ownerVars  == <<stopFlag, owner, object>>
vars       == <<policy, queue, lost, submitVars, workVars, ownerVars>>

Init ==
  /\ policy \in Policies
  /\ counter = 1 /\ lastSubmitted = 0 /\ queue = <<>> /\ lost = {}
  /\ producer = [p \in Producers |-> "idle"]
  /\ number = [p \in Producers |-> 0]
  /\ count = [p \in Producers |-> 0] /\ author = <<>>
  /\ worker = "none" /\ current = 0 /\ lastProcessed = 0 /\ processed = <<>>
  /\ stopFlag = FALSE /\ owner = "idle" /\ object = "live"

-----------------------------------------------------------------------------
(* submit().  The sizes it reads before and after are only asserted about. *)

At(p, from, to) == producer[p] = from /\ producer' = [producer EXCEPT ![p] = to]

(* createLogRecord(): SequenceNumber::next() is one fetch_add. *)
CreateRecord(p) ==
  /\ count[p] < MaxRecords /\ At(p, "idle", "created")
  /\ number' = [number EXCEPT ![p] = counter]
  /\ counter' = counter + 1
  /\ count' = [count EXCEPT ![p] = @ + 1]
  /\ author' = Append(author, p)
  /\ UNCHANGED <<policy, queue, lost, lastSubmitted, workVars, ownerVars>>

(* Mutated form: one place is never used. *)
FullOneEarly == Len(queue) >= MaxCapacity - 1

Full == Len(queue) >= MaxCapacity

(* Mutated form: the record is put in front. *)
PushFront(n) ==
  /\ queue' = <<n>> \o queue
  /\ UNCHANGED lost

(* The queue is not full: the record is added. *)
Push(n) ==
  /\ queue' = Append(queue, n)
  /\ UNCHANGED lost

(* The queue is full: Block and DropNewest return; DropOldest pops the     *)
(* front; in no case, Grow included, is the new record pushed.             *)
Overflow(n) ==
  \/ /\ policy \in {"Block", "DropNewest", "Grow"}
     /\ lost' = lost \cup {n} /\ UNCHANGED queue
  \/ /\ policy = "DropOldest"
     /\ lost' = lost \cup {Head(queue), n} /\ queue' = Tail(queue)

Enqueue(p) ==
  /\ At(p, "created", "enqueued")
  /\ \/ ~ Full /\ Push(number[p])
     \/ Full /\ Overflow(number[p])
  /\ UNCHANGED <<policy, counter, lastSubmitted, number, count, author,
                 workVars, ownerVars>>

StoreSubmitted(p) ==
  /\ At(p, "enqueued", "idle")
  /\ lastSubmitted' = number[p]
  /\ number' = [number EXCEPT ![p] = 0]
  /\ UNCHANGED <<policy, queue, lost, counter, count, author,
                 workVars, ownerVars>>

-----------------------------------------------------------------------------
(* The worker's loop: do { ... } while (!stopRequested()). *)

(* Mutated form: the record is processed and stays in the queue. *)
DequeueFront ==
  /\ worker = "dequeue"
  /\ IF queue = <<>>
     THEN worker' = "check" /\ UNCHANGED <<queue, current>>
     ELSE worker' = "process" /\ current' = Head(queue) /\ UNCHANGED queue
  /\ UNCHANGED <<policy, lost, submitVars, lastProcessed, processed, ownerVars>>

(* Mutated form: a single record is taken for an empty queue. *)
DequeueUnlessLast ==
  /\ worker = "dequeue"
  /\ IF Len(queue) <= 1
     THEN worker' = "check" /\ UNCHANGED <<queue, current>>
     ELSE worker' = "process" /\ current' = Head(queue) /\ queue' = Tail(queue)
  /\ UNCHANGED <<policy, lost, submitVars, lastProcessed, processed, ownerVars>>

(* dequeue(), or sleep when there is nothing. *)
Dequeue ==
  /\ worker = "dequeue"
  /\ IF queue = <<>>
     THEN worker' = "check" /\ UNCHANGED <<queue, current>>
     ELSE worker' = "process" /\ current' = Head(queue) /\ queue' = Tail(queue)
  /\ UNCHANGED <<policy, lost, submitVars, lastProcessed, processed, ownerVars>>

Process ==
  /\ worker = "process" /\ worker' = "check"
  /\ lastProcessed' = current /\ current' = 0
  /\ processed' = Append(processed, current)
  /\ UNCHANGED <<policy, queue, lost, submitVars, ownerVars>>

CheckStop ==
  /\ worker = "check"
  /\ worker' = IF stopFlag THEN "none" ELSE "dequeue"
  /\ UNCHANGED <<policy, queue, lost, submitVars, current, lastProcessed, processed, ownerVars>>

-----------------------------------------------------------------------------
(* The owner of the LogWorker.  flush() changes nothing and has no action. *)

OwnerStep(from, to) == object = "live" /\ owner = from /\ owner' = to

(* Thread::start() resets the stop source. *)
Start ==
  /\ OwnerStep("idle", "idle") /\ worker = "none"
  /\ worker' = "dequeue" /\ stopFlag' = FALSE
  /\ UNCHANGED <<policy, queue, lost, submitVars, current, lastProcessed, processed,
                 object>>

RequestStop ==
  /\ OwnerStep("idle", "idle")
  /\ stopFlag' = TRUE
  /\ UNCHANGED <<policy, queue, lost, submitVars, workVars, object>>

Join ==
  /\ OwnerStep("idle", "joining")
  /\ UNCHANGED <<policy, queue, lost, submitVars, workVars, stopFlag, object>>

JoinReturns ==
  /\ OwnerStep("joining", "idle") /\ worker = "none"
  /\ UNCHANGED <<policy, queue, lost, submitVars, workVars, stopFlag, object>>

(* ~LogWorker(): requestStop(), join(), let go of the queue.               *)
Destroy ==
  /\ OwnerStep("idle", "destroying")
  /\ stopFlag' = TRUE
  /\ UNCHANGED <<policy, queue, lost, submitVars, workVars, object>>

DestroyReturns ==
  /\ OwnerStep("destroying", "idle") /\ worker = "none"
  /\ object' = "dead"
  /\ UNCHANGED <<policy, queue, lost, submitVars, workVars, stopFlag>>

-----------------------------------------------------------------------------
Submit(p) == CreateRecord(p) \/ Enqueue(p) \/ StoreSubmitted(p)
WorkerNext == Dequeue \/ Process \/ CheckStop
OwnerNext ==
  Start \/ RequestStop \/ Join \/ JoinReturns \/ Destroy \/ DestroyReturns

(* The worker is gone and every producer is through. *)
Finished ==
  /\ object = "dead" /\ \A p \in Producers : count[p] = MaxRecords /\ producer[p] = "idle"
  /\ UNCHANGED vars

Next == (\E p \in Producers : Submit(p)) \/ WorkerNext \/ OwnerNext \/ Finished

(* The worker is scheduled, and calls go on; nobody has to make one.       *)
Fairness ==
  /\ WF_vars(WorkerNext)
  /\ WF_vars(JoinReturns \/ DestroyReturns)
  /\ \A p \in Producers : WF_vars(Enqueue(p) \/ StoreSubmitted(p))

Spec == Init /\ [][Next]_vars
FairSpec == Spec /\ Fairness

-----------------------------------------------------------------------------
(* Properties.  *)

InHand == {number[p] : p \in {q \in Producers : producer[q] = "created"}}
            \cup (IF worker = "process" THEN {current} ELSE {})

(* Types; and the queue does not exceed its capacity, unless its policy is *)
(* to let it grow: whether Grow then does is no part of this.              *)
TypeOK ==
  /\ policy \in Policies
  /\ counter = Len(author) + 1 /\ author \in Seq(Producers)
  /\ {lastSubmitted, lastProcessed, current} \subseteq 0 .. Len(author)
  /\ queue \in Seq(1 .. Len(author))
  /\ policy # "Grow" => Len(queue) <= MaxCapacity
  /\ producer \in [Producers -> {"idle", "created", "enqueued"}]
  /\ number \in [Producers -> 0 .. Len(author)]
  /\ count \in [Producers -> 0 .. MaxRecords]
  /\ worker \in {"none", "dequeue", "process", "check"}
  /\ stopFlag \in BOOLEAN /\ object \in {"live", "dead"}
  /\ owner \in {"idle", "joining", "destroying"}
  /\ lost \subseteq 1 .. Len(author)
  /\ processed \in Seq(1 .. Len(author))

(* Every record is at exactly one place: with its producer, in the queue,  *)
(* with the worker, processed or given up; and it is processed once.       *)
EachRecordOnce ==
  LET places == <<InHand, ToSet(queue), ToSet(processed), lost>> IN
  /\ TypeOK
  /\ UNION ToSet(places) = 1 .. Len(author)
  /\ \A i, j \in 1 .. 4 : i # j => places[i] \cap places[j] = {}
  /\ IsInjective(processed \o queue)

(* The records of one producer are processed in the order it made them,    *)
(* with gaps where the queue was full.                                     *)
OrderPerProducer ==
  LET all == processed \o (IF worker = "process" THEN <<current>> ELSE <<>>) \o queue IN
  \A i, j \in DOMAIN all : i < j /\ author[all[i]] = author[all[j]] => all[i] < all[j]

(* Nothing is given up while there is room: a record is lost only by a     *)
(* call that finds the queue full.                                         *)
LostOnlyWhenFull ==
  [][lost' # lost => Len(queue) >= MaxCapacity]_vars

(* A record that was queued is processed as long as the worker runs.       *)
QueuedIsProcessed ==
  \A n \in 1 .. MaxRecords * Cardinality(Producers) :
    n \in ToSet(queue) ~> n \notin ToSet(queue) \/ stopFlag \/ worker = "none"
=============================================================================
