----------------------------- MODULE FutureState -----------------------------
(***************************************************************************)
(* nex::Promise<T>, nex::Future<T> and the detail::FutureState<T> they     *)
(* share (include/nex/core/async.h), for ONE shared state: the objects     *)
(* below all descend from one default-constructed Promise.                 *)
(*                                                                         *)
(* Every field of FutureState is read and written under mutex_ only, so a  *)
(* critical section is one action.  What lies OUTSIDE the lock is a step   *)
(* of its own: notify_all() after setValue / setException, the release of  *)
(* the setter's share of the PromiseLifetime, and the setBrokenPromise()   *)
(* of ~PromiseLifetime, which the thread dropping the last share runs.     *)
(*                                                                         *)
(* A Promise or Future object is used by one thread at a time, different   *)
(* objects by different threads; an object's name is used for its thread.  *)
(***************************************************************************)
EXTENDS Naturals, Sequences, FiniteSets

CONSTANTS
  Promises,  (* Promise objects: the first one and its copies               *)
  Futures,   (* Future objects: from getFuture() and their copies           *)
  First,     (* the Promise that Promise() constructs together with the state *)
  Values,    (* what setValue can store                                     *)
  Errors,    (* the non-null exception_ptr arguments of setException        *)
  NullPtr,   (* the null exception_ptr                                      *)
  Broken,    (* future_error(broken_promise)                                *)
  Nothing    (* no value, no exception, no result                           *)

ASSUME FutureAssumption ==
  /\ First \in Promises
  /\ Promises \cap Futures = {}
  /\ Broken \notin Values \cup Errors \cup {NullPtr, Nothing, "no_state"}
  /\ Nothing \notin Values \cup Errors \cup {NullPtr, "no_state"}
  /\ NullPtr \notin Values \cup Errors
  /\ "no_state" \notin Values \cup Errors

VARIABLES
  ready,      (* FutureState::ready_                                        *)
  outcome,    (* FutureState::value_ or exception_, whichever is set        *)
  consumed,   (* FutureState::consumed_                                     *)
  waiting,    (* Futures whose get() sleeps in condition_                   *)
  promise,    (* life of each Promise: state_ is non-null iff "live"        *)
  lifetime,   (* Promises whose lifetime_ is non-null                       *)
  setter,     (* where the thread of each Promise is                        *)
  thrown,     (* error code each Promise's last failed call threw           *)
  future,     (* life of each Future: state_ is non-null iff "live"         *)
  getter,     (* where the thread of each Future is                         *)
  result,     (* what each Future's last get() gave                         *)
  polled,     (* whether isReady() has answered true to each Future         *)
  winners,    (* history: Promises whose setValue/setException succeeded    *)
  taken       (* history: the get() calls that received the outcome         *)

stateVars   == <<ready, outcome, consumed, waiting>>
promiseVars == <<promise, lifetime, setter, thrown, winners>>
futureVars  == <<future, getter, result, polled, taken>>
vars        == <<stateVars, promiseVars, futureVars>>

Outcomes == Values \cup Errors \cup {Broken}

Init ==
  /\ ready = FALSE /\ outcome = Nothing /\ consumed = FALSE /\ waiting = {}
  /\ promise = [p \in Promises |-> IF p = First THEN "live" ELSE "unborn"]
  /\ lifetime = {First}
  /\ setter = [p \in Promises |-> "idle"]
  /\ thrown = [p \in Promises |-> "none"]
  /\ future = [f \in Futures |-> "unborn"]
  /\ getter = [f \in Futures |-> "idle"]
  /\ result = [f \in Futures |-> Nothing]
  /\ polled = [f \in Futures |-> FALSE]
  /\ winners = {} /\ taken = <<>>

-----------------------------------------------------------------------------
(* Setters.  *)

Idle(p) == setter[p] = "idle"

(* throwIfReady() under the lock: nothing stored, lifetime_ kept. *)
RejectSatisfied(p) ==
  /\ ready
  /\ thrown' = [thrown EXCEPT ![p] = "promise_already_satisfied"]
  /\ UNCHANGED <<stateVars, promise, lifetime, setter, winners>>

(* Mutated form: throwIfReady() forgotten. *)
StoreUnchecked(p, o) ==
  /\ ready' = TRUE /\ outcome' = o
  /\ setter' = [setter EXCEPT ![p] = "notify"]
  /\ winners' = winners \cup {p}
  /\ UNCHANGED <<consumed, waiting, promise, lifetime, thrown>>

(* The critical section of FutureState::setValue and setException. *)
Store(p, o) ==
  /\ ~ready
  /\ ready' = TRUE /\ outcome' = o
  /\ setter' = [setter EXCEPT ![p] = "notify"]
  /\ winners' = winners \cup {p}
  /\ UNCHANGED <<consumed, waiting, promise, lifetime, thrown>>

(* ensureState() on a moved-from Promise. *)
NoState(p) ==
  /\ Idle(p) /\ promise[p] = "moved"
  /\ thrown' = [thrown EXCEPT ![p] = "no_state"]
  /\ UNCHANGED <<stateVars, promise, lifetime, setter, winners, futureVars>>

SetValue(p, v) ==
  /\ Idle(p) /\ promise[p] = "live"
  /\ RejectSatisfied(p) \/ Store(p, v)
  /\ UNCHANGED futureVars

(* A null exception_ptr is stored as broken_promise. *)
SetException(p, e) ==
  /\ Idle(p) /\ promise[p] = "live"
  /\ RejectSatisfied(p) \/ Store(p, IF e = NullPtr THEN Broken ELSE e)
  /\ UNCHANGED futureVars

(* Mutated form: notify_one() for notify_all(). *)
NotifyOne(p) ==
  /\ setter[p] = "notify"
  /\ IF waiting = {} THEN UNCHANGED waiting ELSE \E f \in waiting : waiting' = waiting \ {f}
  /\ setter' = [setter EXCEPT ![p] = "release"]
  /\ UNCHANGED <<ready, outcome, consumed, promise, lifetime, thrown, winners, futureVars>>

(* condition_.notify_all(), after the lock is released. *)
NotifyAll(p) ==
  /\ setter[p] = "notify"
  /\ waiting' = {}
  /\ setter' = [setter EXCEPT ![p] = "release"]
  /\ UNCHANGED <<ready, outcome, consumed, promise, lifetime, thrown, winners, futureVars>>

(* Mutated form: no destructor runs when the last share goes. *)
DropLifetimeSilently(p) ==
  /\ lifetime' = lifetime \ {p}
  /\ setter' = [setter EXCEPT ![p] = "idle"]

(* The shared_ptr<PromiseLifetime> of p is dropped: the thread that drops  *)
(* the last share goes on to run ~PromiseLifetime.                         *)
DropLifetime(p) ==
  /\ lifetime' = lifetime \ {p}
  /\ setter' = [setter EXCEPT ![p] = IF lifetime = {p} THEN "break" ELSE "idle"]

(* lifetime_.reset(), the end of Promise::setValue and setException. *)
ResetLifetime(p) ==
  /\ setter[p] = "release"
  /\ DropLifetime(p)
  /\ UNCHANGED <<stateVars, promise, thrown, winners, futureVars>>

(* Mutated form: broken without a notification. *)
BreakWithoutNotify(p) ==
  /\ setter[p] = "break"
  /\ setter' = [setter EXCEPT ![p] = "idle"]
  /\ IF ready THEN UNCHANGED stateVars
              ELSE ready' = TRUE /\ outcome' = Broken /\ UNCHANGED <<consumed, waiting>>
  /\ UNCHANGED <<promise, lifetime, thrown, winners, futureVars>>

(* ~PromiseLifetime -> setBrokenPromise(): notifies under the lock. *)
SetBrokenPromise(p) ==
  /\ setter[p] = "break"
  /\ setter' = [setter EXCEPT ![p] = "idle"]
  /\ IF ready THEN UNCHANGED stateVars
              ELSE /\ ready' = TRUE /\ outcome' = Broken /\ waiting' = {}
                   /\ UNCHANGED consumed
  /\ UNCHANGED <<promise, lifetime, thrown, winners, futureVars>>

(* ~Promise(), of a live or a moved-from object. *)
DestroyPromise(p) ==
  /\ Idle(p) /\ promise[p] \in {"live", "moved"}
  /\ promise' = [promise EXCEPT ![p] = "dead"]
  /\ DropLifetime(p)
  /\ UNCHANGED <<stateVars, thrown, winners, futureVars>>

(* Promise(const Promise&): shares state_ and, if p still has it, lifetime_. *)
CopyPromise(p, q) ==
  /\ Idle(p) /\ promise[p] = "live" /\ promise[q] = "unborn"
  /\ promise' = [promise EXCEPT ![q] = "live"]
  /\ lifetime' = IF p \in lifetime THEN lifetime \cup {q} ELSE lifetime
  /\ UNCHANGED <<stateVars, setter, thrown, winners, futureVars>>

(* Promise(Promise&&): state_ and lifetime_ change hands. *)
MovePromise(p, q) ==
  /\ Idle(p) /\ promise[p] = "live" /\ promise[q] = "unborn"
  /\ promise' = [promise EXCEPT ![p] = "moved", ![q] = "live"]
  /\ lifetime' = IF p \in lifetime THEN (lifetime \ {p}) \cup {q} ELSE lifetime
  /\ UNCHANGED <<stateVars, setter, thrown, winners, futureVars>>

-----------------------------------------------------------------------------
(* Getters.  *)

GetFuture(p, f) ==
  /\ Idle(p) /\ promise[p] = "live" /\ future[f] = "unborn"
  /\ future' = [future EXCEPT ![f] = "live"]
  /\ UNCHANGED <<stateVars, promiseVars, getter, result, polled, taken>>

CopyFuture(f, g) ==
  /\ getter[f] = "idle" /\ future[f] = "live" /\ future[g] = "unborn"
  /\ future' = [future EXCEPT ![g] = "live"]
  /\ UNCHANGED <<stateVars, promiseVars, getter, result, polled, taken>>

MoveFuture(f, g) ==
  /\ getter[f] = "idle" /\ future[f] = "live" /\ future[g] = "unborn"
  /\ future' = [future EXCEPT ![f] = "moved", ![g] = "live"]
  /\ UNCHANGED <<stateVars, promiseVars, getter, result, polled, taken>>

DestroyFuture(f) ==
  /\ getter[f] = "idle" /\ future[f] \in {"live", "moved"}
  /\ future' = [future EXCEPT ![f] = "dead"]
  /\ UNCHANGED <<stateVars, promiseVars, getter, result, polled, taken>>

(* The rest of get() once the wait is over, still under the lock: only the *)
(* first caller receives the outcome.                                      *)
Take(f) ==
  /\ ready
  /\ getter' = [getter EXCEPT ![f] = "idle"]
  /\ consumed' = TRUE
  /\ IF consumed
     THEN /\ result' = [result EXCEPT ![f] = "no_state"]
          /\ UNCHANGED taken
     ELSE /\ result' = [result EXCEPT ![f] = outcome]
          /\ taken' = Append(taken, [by |-> f, got |-> outcome])

(* condition_.wait(): releases the lock and sleeps. *)
Block(f) ==
  /\ ~ready
  /\ getter' = [getter EXCEPT ![f] = "blocked"]
  /\ waiting' = waiting \cup {f}
  /\ UNCHANGED <<consumed, result, taken>>

Get(f) ==
  /\ getter[f] = "idle"
  /\ future[f] = "live"
  /\ \/ Take(f) /\ UNCHANGED waiting
     \/ Block(f)
  /\ UNCHANGED <<ready, outcome, promiseVars, future, polled>>

(* get() on a moved-from Future. *)
GetNoState(f) ==
  /\ getter[f] = "idle" /\ future[f] = "moved"
  /\ result' = [result EXCEPT ![f] = "no_state"]
  /\ UNCHANGED <<stateVars, promiseVars, future, getter, polled, taken>>

(* A notified getter re-acquires the lock and tests the predicate again. *)
Wake(f) ==
  /\ getter[f] = "blocked" /\ f \notin waiting
  /\ \/ Take(f) /\ UNCHANGED waiting
     \/ Block(f)
  /\ UNCHANGED <<ready, outcome, promiseVars, future, polled>>

(* A condition variable may wake without a notification. *)
SpuriousWake(f) ==
  /\ f \in waiting
  /\ waiting' = waiting \ {f}
  /\ UNCHANGED <<ready, outcome, consumed, promiseVars, futureVars>>

IsReady(f) ==
  /\ getter[f] = "idle" /\ future[f] = "live" /\ ready
  /\ polled' = [polled EXCEPT ![f] = TRUE]
  /\ UNCHANGED <<stateVars, promiseVars, future, getter, result, taken>>

-----------------------------------------------------------------------------
(* Every object is gone: the only way this system stops. *)
Finished ==
  /\ \A p \in Promises : promise[p] \in {"unborn", "dead"} /\ Idle(p)
  /\ \A f \in Futures : future[f] \in {"unborn", "dead"}
  /\ UNCHANGED vars

PromiseStep(p) ==
  \/ \E v \in Values : SetValue(p, v)
  \/ \E e \in Errors \cup {NullPtr} : SetException(p, e)
  \/ NoState(p)
  \/ NotifyAll(p)
  \/ ResetLifetime(p)
  \/ SetBrokenPromise(p)
  \/ DestroyPromise(p)
  \/ \E q \in Promises : CopyPromise(p, q) \/ MovePromise(p, q)
  \/ \E f \in Futures : GetFuture(p, f)

FutureStep(f) ==
  \/ \E g \in Futures : CopyFuture(f, g) \/ MoveFuture(f, g)
  \/ DestroyFuture(f)
  \/ Get(f)
  \/ GetNoState(f)
  \/ Wake(f)
  \/ SpuriousWake(f)
  \/ IsReady(f)

Next ==
  \/ \E p \in Promises : PromiseStep(p)
  \/ \E f \in Futures : FutureStep(f)
  \/ Finished

(* A thread inside a call finishes it, a notified getter runs, and every   *)
(* Promise is destroyed in the end (each C++ object is).  No fairness for  *)
(* the calls themselves: nobody has to set, copy or get anything.          *)
Fairness ==
  /\ \A p \in Promises : WF_vars(NotifyAll(p) \/ ResetLifetime(p) \/ SetBrokenPromise(p))
  /\ \A p \in Promises : WF_vars(DestroyPromise(p))
  /\ \A f \in Futures : WF_vars(Wake(f))

Spec == Init /\ [][Next]_vars
FairSpec == Spec /\ Fairness

-----------------------------------------------------------------------------
(* Properties.  *)

(* Types; and an outcome is stored exactly when ready_ says so: value_ and *)
(* exception_ are never read by get() while both are empty.                *)
TypeOK ==
  /\ ready \in BOOLEAN /\ consumed \in BOOLEAN
  /\ outcome \in Outcomes \cup {Nothing}
  /\ ready <=> outcome # Nothing
  /\ waiting \subseteq Futures
  /\ promise \in [Promises -> {"unborn", "live", "moved", "dead"}]
  /\ lifetime \subseteq Promises
  /\ setter \in [Promises -> {"idle", "notify", "release", "break"}]
  /\ thrown \in [Promises -> {"none", "no_state", "promise_already_satisfied"}]
  /\ future \in [Futures -> {"unborn", "live", "moved", "dead"}]
  /\ getter \in [Futures -> {"idle", "blocked"}]
  /\ result \in [Futures -> Outcomes \cup {Nothing, "no_state"}]
  /\ polled \in [Futures -> BOOLEAN]
  /\ winners \subseteq Promises
  /\ taken \in Seq([by : Futures, got : Outcomes])

(* "The Future will not wait indefinitely if the Promise is destroyed      *)
(* without fulfilling it": an unsettled state always has a Promise that    *)
(* still owes it an outcome, or a thread inside ~PromiseLifetime.          *)
NoAbandonedFuture ==
  \/ ready
  \/ lifetime # {}
  \/ \E p \in Promises : setter[p] = "break"

(* No lost wake-up, although setValue notifies after it has unlocked: a    *)
(* getter sleeping on a settled state has a notification on its way.       *)
NoLostWakeup ==
  ready /\ waiting # {} => \E p \in Promises : setter[p] = "notify"

(* However many copies of the Promise race, at most one call succeeds; and *)
(* a state nobody satisfied is broken only once no copy can satisfy it.    *)
OneSatisfier ==
  /\ \A p, q \in winners : p = q
  /\ ready /\ winners = {} => lifetime = {} /\ outcome = Broken

(* The outcome is handed to exactly one get(), whatever number of Futures  *)
(* share the state, and it is the outcome that was stored.                 *)
DeliveredOnce ==
  /\ Len(taken) = IF consumed THEN 1 ELSE 0
  /\ \A i \in DOMAIN taken : ready /\ taken[i].got = outcome

(* A Future that isReady() once answered true for never blocks in get().   *)
PolledNeverBlocks ==
  \A f \in Futures : polled[f] => getter[f] # "blocked"

(* Single assignment: what one getter saw can never change under another.  *)
SettledForGood == [][ready => ready' /\ outcome' = outcome]_vars

(* Every blocked get() returns: by an outcome, or by the broken promise.   *)
GetReturns == \A f \in Futures : getter[f] = "blocked" ~> getter[f] = "idle"

-----------------------------------------------------------------------------
(* The pair implements a one-shot cell (OneShot).  *)
servedTo == IF taken = <<>> THEN Nothing ELSE Head(taken).by

Cell == INSTANCE OneShot WITH Readers <- Futures, Empty <- Nothing,
                              cell <- outcome, reader <- servedTo

(* The shared state behaves as a one-shot cell: filled once, eventually,   *)
(* and read by one reader.                                                 *)
ImplementsOneShot == Cell!Spec
=============================================================================
