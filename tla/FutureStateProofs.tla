-------------------------- MODULE FutureStateProofs --------------------------
(***************************************************************************)
(* TLAPS proofs about FutureState, for any number of Promises and Futures. *)
(***************************************************************************)
EXTENDS FutureState, TLAPS

(* Who holds a share of the PromiseLifetime.  A live Promise without one   *)
(* has satisfied the state, or was copied from one that has; and the       *)
(* thread in ~PromiseLifetime runs it because no share is left.            *)
LifetimeInv ==
  /\ \A p \in lifetime : promise[p] = "live"
  /\ \A p \in Promises : promise[p] = "live" /\ p \notin lifetime => ready
  /\ \A p \in Promises : setter[p] = "break" => lifetime = {}
  /\ \A p \in Promises : setter[p] \in {"notify", "release"} => ready

(* A Future that was told "ready" is told so of a state that stays ready.  *)
PolledInv == \A f \in Futures : polled[f] => ready /\ getter[f] = "idle"

IInv ==
  /\ TypeOK
  /\ LifetimeInv
  /\ NoAbandonedFuture
  /\ NoLostWakeup
  /\ (winners # {} => ready)
  /\ OneSatisfier
  /\ DeliveredOnce
  /\ PolledInv

-----------------------------------------------------------------------------
LEMMA InitIInv == Init => IInv
  <1> SUFFICES ASSUME Init PROVE IInv
    OBVIOUS
  <1> USE FutureAssumption DEF Init
  <1>1. TypeOK
    <2>1. /\ ready \in BOOLEAN /\ consumed \in BOOLEAN /\ (ready <=> outcome # Nothing)
          /\ outcome \in Outcomes \cup {Nothing}
      OBVIOUS
    <2>2. /\ waiting \subseteq Futures /\ lifetime \subseteq Promises
          /\ winners \subseteq Promises /\ taken \in Seq([by : Futures, got : Outcomes])
      OBVIOUS
    <2>3. /\ promise \in [Promises -> {"unborn", "live", "moved", "dead"}]
          /\ setter \in [Promises -> {"idle", "notify", "release", "break"}]
          /\ thrown \in [Promises -> {"none", "no_state", "promise_already_satisfied"}]
      OBVIOUS
    <2>4. /\ future \in [Futures -> {"unborn", "live", "moved", "dead"}]
          /\ getter \in [Futures -> {"idle", "blocked"}]
          /\ result \in [Futures -> Outcomes \cup {Nothing, "no_state"}]
          /\ polled \in [Futures -> BOOLEAN]
      OBVIOUS
    <2> QED
      BY <2>1, <2>2, <2>3, <2>4 DEF TypeOK
  <1>2. LifetimeInv /\ NoAbandonedFuture /\ NoLostWakeup
    BY DEF LifetimeInv, NoAbandonedFuture, NoLostWakeup
  <1>3. (winners # {} => ready) /\ OneSatisfier /\ DeliveredOnce /\ PolledInv
    BY DEF OneSatisfier, DeliveredOnce, PolledInv
  <1> QED
    BY <1>1, <1>2, <1>3 DEF IInv

(* The successful call: the state is settled by p, which goes on to notify. *)
LEMMA StoreIInv ==
  ASSUME IInv, NEW p \in Promises, NEW o \in Outcomes, Idle(p),
         promise[p] = "live", Store(p, o), UNCHANGED futureVars
  PROVE  IInv'
  <1> USE FutureAssumption DEF Idle, Store, futureVars, IInv
  <1>1. TypeOK'
    BY DEF TypeOK, Outcomes
  <1>2. LifetimeInv' /\ NoAbandonedFuture'
    BY DEF TypeOK, LifetimeInv, NoAbandonedFuture
  <1>3. NoLostWakeup'
    BY DEF TypeOK, NoLostWakeup, LifetimeInv
  <1>4. (winners # {} => ready)' /\ OneSatisfier'
    BY DEF TypeOK, OneSatisfier, LifetimeInv
  <1>5. DeliveredOnce' /\ PolledInv'
    BY DEF TypeOK, DeliveredOnce, PolledInv
  <1> QED
    BY <1>1, <1>2, <1>3, <1>4, <1>5

(* A call that throws changes nothing but what its caller is told. *)
LEMMA RejectIInv ==
  ASSUME IInv, NEW p \in Promises, (RejectSatisfied(p) /\ UNCHANGED futureVars) \/ NoState(p)
  PROVE  IInv'
  <1> USE FutureAssumption DEF RejectSatisfied, NoState, stateVars, futureVars, IInv
  <1>1. TypeOK'
    BY DEF TypeOK, Outcomes
  <1>2. LifetimeInv' /\ NoAbandonedFuture'
    BY DEF TypeOK, LifetimeInv, NoAbandonedFuture
  <1>3. NoLostWakeup'
    BY DEF TypeOK, NoLostWakeup, LifetimeInv
  <1>4. (winners # {} => ready)' /\ OneSatisfier'
    BY DEF TypeOK, OneSatisfier, LifetimeInv
  <1>5. DeliveredOnce' /\ PolledInv'
    BY DEF TypeOK, DeliveredOnce, PolledInv
  <1> QED
    BY <1>1, <1>2, <1>3, <1>4, <1>5

LEMMA NotifyIInv ==
  ASSUME IInv, NEW p \in Promises, NotifyAll(p)
  PROVE  IInv'
  <1> USE FutureAssumption DEF NotifyAll, futureVars, IInv
  <1>1. TypeOK'
    BY DEF TypeOK, Outcomes
  <1>2. LifetimeInv' /\ NoAbandonedFuture'
    BY DEF TypeOK, LifetimeInv, NoAbandonedFuture
  <1>3. NoLostWakeup'
    BY DEF TypeOK, NoLostWakeup, LifetimeInv
  <1>4. (winners # {} => ready)' /\ OneSatisfier'
    BY DEF TypeOK, OneSatisfier, LifetimeInv
  <1>5. DeliveredOnce' /\ PolledInv'
    BY DEF TypeOK, DeliveredOnce, PolledInv
  <1> QED
    BY <1>1, <1>2, <1>3, <1>4, <1>5

(* A share of the lifetime is dropped: if it was the last one, p's thread  *)
(* takes over the duty to settle the state.                                *)
LEMMA DropIInv ==
  ASSUME IInv, NEW p \in Promises, ResetLifetime(p) \/ DestroyPromise(p)
  PROVE  IInv'
  <1> USE FutureAssumption DEF ResetLifetime, DestroyPromise, DropLifetime, Idle, stateVars, futureVars, IInv
  <1>1. TypeOK'
    <2>1. CASE ResetLifetime(p)
      BY <2>1 DEF TypeOK, Outcomes
    <2>2. CASE DestroyPromise(p)
      BY <2>2 DEF TypeOK, Outcomes
    <2> QED
      BY <2>1, <2>2
  <1>2. LifetimeInv' /\ NoAbandonedFuture'
    BY DEF TypeOK, LifetimeInv, NoAbandonedFuture
  <1>3. NoLostWakeup'
    BY DEF TypeOK, NoLostWakeup, LifetimeInv
  <1>4. (winners # {} => ready)' /\ OneSatisfier'
    BY DEF TypeOK, OneSatisfier, LifetimeInv
  <1>5. DeliveredOnce' /\ PolledInv'
    BY DEF TypeOK, DeliveredOnce, PolledInv
  <1> QED
    BY <1>1, <1>2, <1>3, <1>4, <1>5

LEMMA BreakIInv ==
  ASSUME IInv, NEW p \in Promises, SetBrokenPromise(p)
  PROVE  IInv'
  <1> USE FutureAssumption DEF SetBrokenPromise, stateVars, futureVars, IInv
  <1>1. TypeOK'
    BY DEF TypeOK, Outcomes
  <1>2. LifetimeInv' /\ NoAbandonedFuture'
    BY DEF TypeOK, LifetimeInv, NoAbandonedFuture
  <1>3. NoLostWakeup'
    BY DEF TypeOK, NoLostWakeup, LifetimeInv
  <1>4. (winners # {} => ready)' /\ OneSatisfier'
    BY DEF TypeOK, OneSatisfier, LifetimeInv
  <1>5. DeliveredOnce' /\ PolledInv'
    BY DEF TypeOK, DeliveredOnce, PolledInv
  <1> QED
    BY <1>1, <1>2, <1>3, <1>4, <1>5

LEMMA CopyIInv ==
  ASSUME IInv, NEW p \in Promises, NEW q \in Promises,
         CopyPromise(p, q) \/ MovePromise(p, q)
  PROVE  IInv'
  <1> USE FutureAssumption DEF CopyPromise, MovePromise, Idle, stateVars, futureVars, IInv
  <1>1. TypeOK'
    BY DEF TypeOK, Outcomes
  <1>2. LifetimeInv' /\ NoAbandonedFuture'
    BY DEF TypeOK, LifetimeInv, NoAbandonedFuture
  <1>3. NoLostWakeup'
    BY DEF TypeOK, NoLostWakeup, LifetimeInv
  <1>4. (winners # {} => ready)' /\ OneSatisfier'
    BY DEF TypeOK, OneSatisfier, LifetimeInv
  <1>5. DeliveredOnce' /\ PolledInv'
    BY DEF TypeOK, DeliveredOnce, PolledInv
  <1> QED
    BY <1>1, <1>2, <1>3, <1>4, <1>5

(* What Futures do without entering the wait. *)
LEMMA HandleIInv ==
  ASSUME IInv, NEW f \in Futures,
         \/ \E p \in Promises : GetFuture(p, f)
         \/ \E g \in Futures : CopyFuture(f, g) \/ MoveFuture(f, g)
         \/ DestroyFuture(f) \/ GetNoState(f) \/ SpuriousWake(f) \/ IsReady(f)
  PROVE  IInv'
  <1> USE FutureAssumption DEF GetFuture, CopyFuture, MoveFuture, DestroyFuture, GetNoState, SpuriousWake,
          IsReady, stateVars, promiseVars, futureVars, IInv
  <1>1. TypeOK'
    <2>1. CASE \E p \in Promises : GetFuture(p, f)
      BY <2>1 DEF TypeOK, Outcomes
    <2>2. CASE \E g \in Futures : CopyFuture(f, g) \/ MoveFuture(f, g)
      BY <2>2 DEF TypeOK, Outcomes
    <2>3. CASE DestroyFuture(f)
      BY <2>3 DEF TypeOK, Outcomes
    <2>4. CASE GetNoState(f)
      BY <2>4 DEF TypeOK, Outcomes
    <2>5. CASE SpuriousWake(f)
      BY <2>5 DEF TypeOK, Outcomes
    <2>6. CASE IsReady(f)
      BY <2>6 DEF TypeOK, Outcomes
    <2> QED
      BY <2>1, <2>2, <2>3, <2>4, <2>5, <2>6
  <1>2. LifetimeInv' /\ NoAbandonedFuture'
    BY DEF TypeOK, LifetimeInv, NoAbandonedFuture
  <1>3. NoLostWakeup'
    BY DEF TypeOK, NoLostWakeup, LifetimeInv
  <1>4. (winners # {} => ready)' /\ OneSatisfier'
    BY DEF TypeOK, OneSatisfier, LifetimeInv
  <1>5. DeliveredOnce' /\ PolledInv'
    BY DEF TypeOK, DeliveredOnce, PolledInv
  <1> QED
    BY <1>1, <1>2, <1>3, <1>4, <1>5

LEMMA GetIInv ==
  ASSUME IInv, NEW f \in Futures, Get(f) \/ Wake(f)
  PROVE  IInv'
  <1> USE FutureAssumption DEF Get, Wake, promiseVars, IInv
  <1>1. CASE Take(f)
    <2> USE <1>1 DEF Take
    <2>1. CASE consumed
      <3>1. TypeOK'
        <4>1. /\ getter' = [getter EXCEPT ![f] = "idle"] /\ consumed' = TRUE
              /\ result' = [result EXCEPT ![f] = "no_state"]
              /\ UNCHANGED <<taken, waiting, ready, outcome, promiseVars, future, polled>>
          BY <2>1 DEF Block
        <4>2. /\ getter' \in [Futures -> {"idle", "blocked"}]
              /\ result' \in [Futures -> Outcomes \cup {Nothing, "no_state"}]
          BY <4>1 DEF TypeOK
        <4> QED
          BY <4>1, <4>2 DEF TypeOK
      <3>2. DeliveredOnce'
        BY <2>1 DEF DeliveredOnce, Block
      <3>3. PolledInv'
        BY <2>1 DEF TypeOK, PolledInv, Block
      <3> QED
        BY <3>1, <3>2, <3>3, <2>1 DEF TypeOK, LifetimeInv, NoAbandonedFuture, NoLostWakeup,
           OneSatisfier, Block
    <2>2. CASE ~consumed
      <3> DEFINE R == [by : Futures, got : Outcomes]
                 t == [by |-> f, got |-> outcome]
      <3>1. t \in R /\ taken \in Seq(R) /\ Len(taken) = 0
        BY <2>2 DEF TypeOK, DeliveredOnce
      <3>2. /\ taken' \in Seq(R) /\ Len(taken') = 1 /\ DOMAIN taken' = {1}
            /\ taken'[1].got = outcome
        <4>1. taken' = Append(taken, t)
          BY <2>2 DEF Block
        <4> HIDE DEF R
        <4> QED
          BY <3>1, <4>1
      <3>3. TypeOK'
        <4>1. /\ getter' \in [Futures -> {"idle", "blocked"}]
              /\ result' \in [Futures -> Outcomes \cup {Nothing, "no_state"}]
              /\ consumed' \in BOOLEAN /\ waiting' = waiting
          <5>1. /\ getter' = [getter EXCEPT ![f] = "idle"] /\ consumed' = TRUE
                /\ result' = [result EXCEPT ![f] = outcome] /\ waiting' = waiting
            BY <2>2 DEF Block
          <5>2. /\ getter \in [Futures -> {"idle", "blocked"}] /\ outcome \in Outcomes
                /\ result \in [Futures -> Outcomes \cup {Nothing, "no_state"}]
            BY DEF TypeOK
          <5> HIDE DEF Get, Wake, Take, IInv
          <5> QED
            BY <5>1, <5>2
        <4>2. UNCHANGED <<ready, outcome, promise, lifetime, setter, thrown, winners,
                          future, polled>>
          OBVIOUS
        <4> HIDE DEF Get, Wake, Take, R, t
        <4> QED
          BY <3>2, <4>1, <4>2 DEF TypeOK, R
      <3>4. DeliveredOnce'
        BY <2>2, <3>2 DEF DeliveredOnce, Block
      <3>5. PolledInv'
        BY <2>2 DEF TypeOK, PolledInv, Block
      <3>6. LifetimeInv' /\ NoAbandonedFuture'
        BY <2>2 DEF TypeOK, LifetimeInv, NoAbandonedFuture, Block
      <3>7. NoLostWakeup' /\ OneSatisfier' /\ (winners # {} => ready)'
        BY <2>2 DEF TypeOK, NoLostWakeup, OneSatisfier, Block
      <3> QED
        BY <3>3, <3>4, <3>5, <3>6, <3>7
    <2> QED
      BY <2>1, <2>2
  <1>2. CASE Block(f)
    BY <1>2 DEF Block, Take, TypeOK, Outcomes, LifetimeInv, NoAbandonedFuture, NoLostWakeup,
       OneSatisfier, DeliveredOnce, PolledInv
  <1> QED
    BY <1>1, <1>2

-----------------------------------------------------------------------------
LEMMA StepIInv == IInv /\ [Next]_vars => IInv'
  <1> SUFFICES ASSUME IInv, [Next]_vars PROVE IInv'
    OBVIOUS
  <1>1. ASSUME NEW p \in Promises, PromiseStep(p) PROVE IInv'
    <2>1. ASSUME NEW v \in Values, SetValue(p, v) PROVE IInv'
      BY <2>1, StoreIInv, RejectIInv DEF SetValue, Outcomes
    <2>2. ASSUME NEW e \in Errors \cup {NullPtr}, SetException(p, e) PROVE IInv'
      <3> DEFINE o == IF e = NullPtr THEN Broken ELSE e
      <3>1. o \in Outcomes
        BY DEF Outcomes
      <3>2. RejectSatisfied(p) \/ Store(p, o)
        BY <2>2 DEF SetException
      <3> QED
        BY <2>2, <3>1, <3>2, StoreIInv, RejectIInv DEF SetException
    <2>3. CASE NoState(p)
      BY <2>3, RejectIInv
    <2>4. CASE NotifyAll(p)
      BY <2>4, NotifyIInv
    <2>5. CASE ResetLifetime(p) \/ DestroyPromise(p)
      BY <2>5, DropIInv
    <2>6. CASE SetBrokenPromise(p)
      BY <2>6, BreakIInv
    <2>7. ASSUME NEW q \in Promises, CopyPromise(p, q) \/ MovePromise(p, q) PROVE IInv'
      BY <2>7, CopyIInv
    <2>8. ASSUME NEW f \in Futures, GetFuture(p, f) PROVE IInv'
      BY <2>8, HandleIInv
    <2> QED
      BY <1>1, <2>1, <2>2, <2>3, <2>4, <2>5, <2>6, <2>7, <2>8 DEF PromiseStep
  <1>2. ASSUME NEW f \in Futures, FutureStep(f) PROVE IInv'
    BY <1>2, HandleIInv, GetIInv DEF FutureStep
  <1>3. CASE Finished \/ UNCHANGED vars
    BY <1>3 DEF Finished, vars, stateVars, promiseVars, futureVars, IInv, TypeOK, Outcomes,
       LifetimeInv, NoAbandonedFuture, NoLostWakeup, OneSatisfier, DeliveredOnce, PolledInv
  <1> QED
    BY <1>1, <1>2, <1>3 DEF Next

(* The inductive invariant holds of every behaviour.                       *)
THEOREM Inductive == Spec => []IInv
  BY InitIInv, StepIInv, PTL DEF Spec

(* Types; and ready_ is true exactly when there is something for get() to  *)
(* return or rethrow.                                                      *)
THEOREM TypeCorrect == Spec => []TypeOK
  <1>1. IInv => TypeOK
    BY DEF IInv
  <1> QED
    BY Inductive, <1>1, PTL

(* However many copies of a Promise are made, moved and destroyed, as long *)
(* as the state is not settled there is a share of the PromiseLifetime (or *)
(* a thread in its destructor) that will settle it.                        *)
THEOREM NeverAbandoned == Spec => []NoAbandonedFuture
  <1>1. IInv => NoAbandonedFuture
    BY DEF IInv
  <1> QED
    BY Inductive, <1>1, PTL

(* setValue() unlocks before it notifies, and still no getter can sleep    *)
(* through it.                                                             *)
THEOREM WakeupNeverLost == Spec => []NoLostWakeup
  <1>1. IInv => NoLostWakeup
    BY DEF IInv
  <1> QED
    BY Inductive, <1>1, PTL

(* One call at most succeeds, and broken_promise cannot pre-empt a Promise *)
(* that can still be satisfied.                                            *)
THEOREM SatisfiedByOne == Spec => []OneSatisfier
  <1>1. IInv => OneSatisfier
    BY DEF IInv
  <1> QED
    BY Inductive, <1>1, PTL

(* The outcome goes to one get(), unchanged.                               *)
THEOREM DeliveredToOne == Spec => []DeliveredOnce
  <1>1. IInv => DeliveredOnce
    BY DEF IInv
  <1> QED
    BY Inductive, <1>1, PTL

(* isReady() = true means that get() will not block.                       *)
THEOREM PollingIsSafe == Spec => []PolledNeverBlocks
  <1>1. IInv => PolledNeverBlocks
    BY DEF IInv, PolledInv, PolledNeverBlocks
  <1> QED
    BY Inductive, <1>1, PTL

-----------------------------------------------------------------------------
(* Action properties and refinement: what one step can do to the outcome   *)
(* and to the record of who received it.                                   *)

LEMMA SetterStep ==
  ASSUME IInv, NEW p \in Promises, PromiseStep(p)
  PROVE  /\ UNCHANGED taken
         /\ ready => ready' /\ outcome' = outcome
         /\ ~ready => UNCHANGED outcome \/ outcome' \in Outcomes
  <1> USE DEF stateVars, futureVars
  <1>1. ASSUME NEW v \in Values, SetValue(p, v) PROVE UNCHANGED taken
               /\ (ready => ready' /\ outcome' = outcome)
               /\ (~ready => outcome' \in Outcomes)
    BY <1>1 DEF SetValue, Store, RejectSatisfied, Outcomes
  <1>2. ASSUME NEW e \in Errors \cup {NullPtr}, SetException(p, e) PROVE UNCHANGED taken
               /\ (ready => ready' /\ outcome' = outcome)
               /\ (~ready => outcome' \in Outcomes)
    BY <1>2 DEF SetException, Store, RejectSatisfied, Outcomes
  <1>3. CASE SetBrokenPromise(p)
    BY <1>3 DEF SetBrokenPromise, Outcomes
  <1>4. CASE NoState(p) \/ NotifyAll(p) \/ ResetLifetime(p) \/ DestroyPromise(p)
    BY <1>4 DEF NoState, NotifyAll, ResetLifetime, DestroyPromise
  <1>5. CASE \E q \in Promises : CopyPromise(p, q) \/ MovePromise(p, q)
    BY <1>5 DEF CopyPromise, MovePromise
  <1>6. CASE \E f \in Futures : GetFuture(p, f)
    BY <1>6 DEF GetFuture
  <1> QED
    BY <1>1, <1>2, <1>3, <1>4, <1>5, <1>6 DEF PromiseStep

LEMMA GetterStep ==
  ASSUME IInv, NEW f \in Futures, FutureStep(f)
  PROVE  /\ UNCHANGED <<ready, outcome>>
         /\ \/ UNCHANGED taken
            \/ /\ ready /\ taken = <<>>
               /\ taken' = Append(taken, [by |-> f, got |-> outcome])
  <1>1. CASE Get(f) \/ Wake(f)
    <2>1. UNCHANGED <<ready, outcome>>
      BY <1>1 DEF Get, Wake
    <2>2. CASE Take(f)
      <3>1. consumed \in BOOLEAN
        BY DEF IInv, TypeOK
      <3>2. CASE consumed
        BY <2>1, <2>2, <3>2 DEF Take
      <3>3. CASE ~consumed
        <4>1. taken \in Seq([by : Futures, got : Outcomes]) /\ Len(taken) = 0
          BY <3>3 DEF IInv, TypeOK, DeliveredOnce
        <4>2. taken = <<>>
          BY <4>1
        <4>3. ready /\ taken' = Append(taken, [by |-> f, got |-> outcome])
          BY <2>2, <3>3 DEF Take
        <4> QED
          BY <2>1, <4>2, <4>3
      <3> QED
        BY <3>1, <3>2, <3>3
    <2>3. CASE Block(f)
      BY <2>1, <2>3 DEF Block
    <2> QED
      BY <1>1, <2>2, <2>3 DEF Get, Wake
  <1>2. CASE \E g \in Futures : CopyFuture(f, g) \/ MoveFuture(f, g)
    BY <1>2 DEF CopyFuture, MoveFuture, stateVars
  <1>3. CASE DestroyFuture(f) \/ GetNoState(f) \/ SpuriousWake(f) \/ IsReady(f)
    BY <1>3 DEF DestroyFuture, GetNoState, SpuriousWake, IsReady, stateVars, futureVars
  <1> QED
    BY <1>1, <1>2, <1>3 DEF FutureStep

(* No interleaving of setters, copies and destructors changes an outcome   *)
(* that some getter may already have seen.                                 *)
THEOREM OutcomeIsFinal == Spec => SettledForGood
  <1>1. IInv /\ [Next]_vars => [ready => ready' /\ outcome' = outcome]_vars
    <2> SUFFICES ASSUME IInv, Next, ready PROVE ready' /\ outcome' = outcome
      OBVIOUS
    <2> QED
      BY SetterStep, GetterStep DEF Next, Finished, vars, stateVars
  <1> QED
    BY Inductive, <1>1, PTL DEF Spec, SettledForGood

(* The safety part of ImplementsOneShot: every step of the shared state is *)
(* a Fill, a Serve or a stutter of the one-shot cell.                      *)
THEOREM RefinesOneShot == Spec => Cell!SafeSpec
  <1>1. Init => Cell!Init
    BY DEF Init, Cell!Init, servedTo
  <1>2. IInv /\ [Next]_vars => [Cell!Next]_(Cell!vars)
    <2> SUFFICES ASSUME IInv, [Next]_vars PROVE [Cell!Next]_(Cell!vars)
      OBVIOUS
    <2> USE DEF Cell!Next, Cell!Fill, Cell!Serve, Cell!vars
    <2>1. ASSUME NEW p \in Promises, PromiseStep(p) PROVE [Cell!Next]_(Cell!vars)
      <3>1. UNCHANGED servedTo
        BY <2>1, SetterStep DEF servedTo
      <3>2. CASE ready
        BY <2>1, <3>1, <3>2, SetterStep
      <3>3. CASE ~ready
        BY <2>1, <3>1, <3>3, SetterStep DEF IInv, TypeOK
      <3> QED
        BY <3>2, <3>3
    <2>2. ASSUME NEW f \in Futures, FutureStep(f) PROVE [Cell!Next]_(Cell!vars)
      <3>1. UNCHANGED <<ready, outcome>>
        BY <2>2, GetterStep
      <3>2. CASE UNCHANGED taken
        BY <3>1, <3>2 DEF servedTo
      <3>3. CASE /\ ready /\ taken = <<>>
                 /\ taken' = Append(taken, [by |-> f, got |-> outcome])
        <4>1. servedTo = Nothing
          BY <3>3 DEF servedTo
        <4>2. servedTo' = f
          BY <3>3 DEF servedTo
        <4>3. outcome # Nothing
          BY <3>3 DEF IInv, TypeOK
        <4> QED
          BY <3>1, <4>1, <4>2, <4>3
      <3> QED
        BY <2>2, <3>2, <3>3, GetterStep
    <2>3. CASE Finished \/ UNCHANGED vars
      BY <2>3 DEF Finished, vars, stateVars, futureVars, servedTo
    <2> QED
      BY <2>1, <2>2, <2>3 DEF Next
  <1> QED
    BY Inductive, <1>1, <1>2, PTL DEF Spec, Cell!SafeSpec
=============================================================================
