---------------------------- MODULE ThreadProofs ----------------------------
(***************************************************************************)
(* TLAPS proofs about Thread, for any number of starts and kinds of task.  *)
(***************************************************************************)
EXTENDS Thread, TLAPS

(* Incarnations are spawned in turn, and only the latest can be alive.     *)
SpawnInv ==
  /\ \A i \in Incarnations : phase[i] = "none" <=> i > last
  /\ \A i \in Incarnations : Alive(i) => i = last
  /\ owner \in {"reset", "mark"} => ~ running
  /\ failed => running /\ owner \notin {"reset", "mark", "spawn", "assign"}
  /\ failed => \A i \in Incarnations : ~ Alive(i)
  /\ owner = "spawn" => \A i \in Incarnations : ~ Alive(i)
  /\ owner \in {"reset", "mark", "spawn"} => last < MaxStarts

(* impl_->jthread stands for the latest incarnation, except while start()  *)
(* has yet to assign it; an incarnation it has lost was detached.          *)
HandleInv ==
  /\ owner = "assign" => handle < last
  /\ owner # "assign" /\ handle # None => handle = last
  /\ owner # "assign" => \A i \in Incarnations : Alive(i) => i = handle \/ i \in detached
  /\ owner = "joining" => handle # None
  /\ object = "dead" => owner = "idle" /\ handle = None

(* A stop request that is pending was made for the incarnation alive.      *)
StopInv ==
  /\ owner \in {"mark", "spawn"} => ~ sourceStop
  /\ \A i \in Incarnations : Alive(i) /\ sourceStop => i \in asked

IInv ==
  TypeOK /\ RunningExact /\ SpawnInv /\ HandleInv /\ StopInv /\ StopNotInherited

-----------------------------------------------------------------------------
LEMMA InitIInv == Init => IInv
  <1> SUFFICES ASSUME Init PROVE IInv
    OBVIOUS
  <1>1. TypeOK
    <2>1. running \in BOOLEAN /\ sourceStop \in BOOLEAN
      BY DEF Init
    <2>2. last = 0 /\ handle = 0
      BY DEF Init, None
    <2>3. last \in 0 .. MaxStarts /\ handle \in 0 .. last
      BY <2>2, ThreadAssumption DEF ThreadAssumption
    <2>4. /\ phase \in [Incarnations -> {"none", "spawned", "task", "returning", "exited"}]
          /\ kind \in [Incarnations -> {"run", "poll", "token"}]
          /\ token \in [Incarnations -> BOOLEAN]
      BY DEF Init
    <2> QED
      BY <2>1, <2>3, <2>4 DEF Init, TypeOK
  <1>2. SpawnInv /\ RunningExact
    BY ThreadAssumption DEF Init, SpawnInv, RunningExact, Alive, Incarnations, ThreadAssumption
  <1>3. HandleInv /\ StopInv /\ StopNotInherited
    BY DEF Init, HandleInv, StopInv, StopNotInherited, Alive, None
  <1> QED
    BY <1>1, <1>2, <1>3 DEF IInv

LEMMA OwnerIInv ==
  ASSUME IInv, OwnerStep
  PROVE  IInv'
  <1> USE ThreadAssumption DEF IInv, Goto, Up, None, implVars, ownerVars, taskVars
  <1>1. CASE Start
    <2> USE <1>1 DEF Start
    <2>1. TypeOK'
      BY DEF TypeOK, Incarnations
    <2>2. RunningExact'
      BY DEF TypeOK, RunningExact, SpawnInv, Alive, Incarnations
    <2>3. SpawnInv'
      BY DEF TypeOK, RunningExact, SpawnInv, Alive, Incarnations
    <2>4. HandleInv'
      BY DEF TypeOK, RunningExact, SpawnInv, HandleInv, Alive, Incarnations
    <2>5. StopInv' /\ StopNotInherited'
      BY DEF TypeOK, RunningExact, SpawnInv, StopInv, StopNotInherited, Alive, Incarnations
    <2> QED
      BY <2>1, <2>2, <2>3, <2>4, <2>5
  <1>2. CASE ResetSource
    <2> USE <1>2 DEF ResetSource
    <2>1. TypeOK'
      BY DEF TypeOK, Incarnations
    <2>2. RunningExact'
      BY DEF TypeOK, RunningExact, SpawnInv, Alive, Incarnations
    <2>3. SpawnInv'
      BY DEF TypeOK, RunningExact, SpawnInv, Alive, Incarnations
    <2>4. HandleInv'
      BY DEF TypeOK, RunningExact, SpawnInv, HandleInv, Alive, Incarnations
    <2>5. StopInv' /\ StopNotInherited'
      BY DEF TypeOK, RunningExact, SpawnInv, StopInv, StopNotInherited, Alive, Incarnations
    <2> QED
      BY <2>1, <2>2, <2>3, <2>4, <2>5
  <1>3. CASE MarkRunning
    <2> USE <1>3 DEF MarkRunning
    <2>1. TypeOK'
      BY DEF TypeOK, Incarnations
    <2>2. RunningExact'
      BY DEF TypeOK, RunningExact, SpawnInv, Alive, Incarnations
    <2>3. SpawnInv'
      BY DEF TypeOK, RunningExact, SpawnInv, Alive, Incarnations
    <2>4. HandleInv'
      BY DEF TypeOK, RunningExact, SpawnInv, HandleInv, Alive, Incarnations
    <2>5. StopInv' /\ StopNotInherited'
      BY DEF TypeOK, RunningExact, SpawnInv, StopInv, StopNotInherited, Alive, Incarnations
    <2> QED
      BY <2>1, <2>2, <2>3, <2>4, <2>5
  <1>4. CASE Assign
    <2> USE <1>4 DEF Assign, Joined
    <2>1. TypeOK'
      BY DEF TypeOK, Incarnations
    <2>2. RunningExact'
      BY DEF TypeOK, RunningExact, SpawnInv, Alive, Incarnations
    <2>3. SpawnInv'
      BY DEF TypeOK, RunningExact, SpawnInv, Alive, Incarnations
    <2>4. HandleInv'
      BY DEF TypeOK, RunningExact, SpawnInv, HandleInv, Alive, Incarnations
    <2>5. StopInv' /\ StopNotInherited'
      BY DEF TypeOK, RunningExact, SpawnInv, StopInv, StopNotInherited, Alive, Incarnations
    <2> QED
      BY <2>1, <2>2, <2>3, <2>4, <2>5
  <1>5. CASE RequestStop
    <2> USE <1>5 DEF RequestStop, SignalStop
    <2>1. TypeOK'
      BY DEF TypeOK, Incarnations
    <2>2. RunningExact'
      BY DEF TypeOK, RunningExact, SpawnInv, Alive, Incarnations
    <2>3. SpawnInv'
      BY DEF TypeOK, RunningExact, SpawnInv, Alive, Incarnations
    <2>4. HandleInv'
      BY DEF TypeOK, RunningExact, SpawnInv, HandleInv, Alive, Incarnations
    <2>5. StopInv' /\ StopNotInherited'
      BY DEF TypeOK, RunningExact, SpawnInv, StopInv, StopNotInherited, Alive, Incarnations
    <2> QED
      BY <2>1, <2>2, <2>3, <2>4, <2>5
  <1>6. CASE Join
    <2> USE <1>6 DEF Join
    <2>1. TypeOK'
      BY DEF TypeOK, Incarnations
    <2>2. RunningExact'
      BY DEF TypeOK, RunningExact, SpawnInv, Alive, Incarnations
    <2>3. SpawnInv'
      BY DEF TypeOK, RunningExact, SpawnInv, Alive, Incarnations
    <2>4. HandleInv'
      BY DEF TypeOK, RunningExact, SpawnInv, HandleInv, Alive, Incarnations
    <2>5. StopInv' /\ StopNotInherited'
      BY DEF TypeOK, RunningExact, SpawnInv, StopInv, StopNotInherited, Alive, Incarnations
    <2> QED
      BY <2>1, <2>2, <2>3, <2>4, <2>5
  <1>7. CASE JoinReturns
    <2> USE <1>7 DEF JoinReturns, Joined
    <2>1. TypeOK'
      BY DEF TypeOK, Incarnations
    <2>2. RunningExact'
      BY DEF TypeOK, RunningExact, SpawnInv, Alive, Incarnations
    <2>3. SpawnInv'
      BY DEF TypeOK, RunningExact, SpawnInv, Alive, Incarnations
    <2>4. HandleInv'
      BY DEF TypeOK, RunningExact, SpawnInv, HandleInv, Alive, Incarnations
    <2>5. StopInv' /\ StopNotInherited'
      BY DEF TypeOK, RunningExact, SpawnInv, StopInv, StopNotInherited, Alive, Incarnations
    <2> QED
      BY <2>1, <2>2, <2>3, <2>4, <2>5
  <1>8. CASE Detach
    <2> USE <1>8 DEF Detach
    <2>1. TypeOK'
      BY DEF TypeOK, Incarnations
    <2>2. RunningExact'
      BY DEF TypeOK, RunningExact, SpawnInv, Alive, Incarnations
    <2>3. SpawnInv'
      BY DEF TypeOK, RunningExact, SpawnInv, Alive, Incarnations
    <2>4. HandleInv'
      BY DEF TypeOK, RunningExact, SpawnInv, HandleInv, Alive, Incarnations
    <2>5. StopInv' /\ StopNotInherited'
      BY DEF TypeOK, RunningExact, SpawnInv, StopInv, StopNotInherited, Alive, Incarnations
    <2> QED
      BY <2>1, <2>2, <2>3, <2>4, <2>5
  <1>9. CASE Destroy
    <2> USE <1>9 DEF Destroy, SignalStop
    <2>1. TypeOK'
      BY DEF TypeOK, Incarnations
    <2>2. RunningExact'
      BY DEF TypeOK, RunningExact, SpawnInv, Alive, Incarnations
    <2>3. SpawnInv'
      BY DEF TypeOK, RunningExact, SpawnInv, Alive, Incarnations
    <2>4. HandleInv'
      BY DEF TypeOK, RunningExact, SpawnInv, HandleInv, Alive, Incarnations
    <2>5. StopInv' /\ StopNotInherited'
      BY DEF TypeOK, RunningExact, SpawnInv, StopInv, StopNotInherited, Alive, Incarnations
    <2> QED
      BY <2>1, <2>2, <2>3, <2>4, <2>5
  <1>10. CASE DestroyReturns
    <2> USE <1>10 DEF DestroyReturns, Joined
    <2>1. TypeOK'
      BY DEF TypeOK, Incarnations
    <2>2. RunningExact'
      BY DEF TypeOK, RunningExact, SpawnInv, Alive, Incarnations
    <2>3. SpawnInv'
      BY DEF TypeOK, RunningExact, SpawnInv, Alive, Incarnations
    <2>4. HandleInv'
      BY DEF TypeOK, RunningExact, SpawnInv, HandleInv, Alive, Incarnations
    <2>5. StopInv' /\ StopNotInherited'
      BY DEF TypeOK, RunningExact, SpawnInv, StopInv, StopNotInherited, Alive, Incarnations
    <2> QED
      BY <2>1, <2>2, <2>3, <2>4, <2>5
  <1>11. CASE Move
    <2> USE <1>11 DEF Move
    <2>1. TypeOK'
      BY DEF TypeOK, Incarnations
    <2>2. RunningExact'
      BY DEF TypeOK, RunningExact, SpawnInv, Alive, Incarnations
    <2>3. SpawnInv'
      BY DEF TypeOK, RunningExact, SpawnInv, Alive, Incarnations
    <2>4. HandleInv'
      BY DEF TypeOK, RunningExact, SpawnInv, HandleInv, Alive, Incarnations
    <2>5. StopInv' /\ StopNotInherited'
      BY DEF TypeOK, RunningExact, SpawnInv, StopInv, StopNotInherited, Alive, Incarnations
    <2> QED
      BY <2>1, <2>2, <2>3, <2>4, <2>5
  <1>12. CASE DestroyShell
    <2> USE <1>12 DEF DestroyShell
    <2>1. TypeOK'
      BY DEF TypeOK, Incarnations
    <2>2. RunningExact'
      BY DEF TypeOK, RunningExact, SpawnInv, Alive, Incarnations
    <2>3. SpawnInv'
      BY DEF TypeOK, RunningExact, SpawnInv, Alive, Incarnations
    <2>4. HandleInv'
      BY DEF TypeOK, RunningExact, SpawnInv, HandleInv, Alive, Incarnations
    <2>5. StopInv' /\ StopNotInherited'
      BY DEF TypeOK, RunningExact, SpawnInv, StopInv, StopNotInherited, Alive, Incarnations
    <2> QED
      BY <2>1, <2>2, <2>3, <2>4, <2>5
  <1>13. ASSUME NEW k \in Kinds, Spawn(k) PROVE IInv'
    <2> USE <1>13 DEF Spawn
    <2>1. last + 1 \in Incarnations /\ last' = last + 1 /\ last' \in 0 .. MaxStarts
      BY DEF TypeOK, SpawnInv, Incarnations
    <2>2. /\ \A i \in Incarnations : i # last + 1 => phase'[i] = phase[i] /\ kind'[i] = kind[i]
          /\ phase'[last + 1] = "spawned"
      BY <2>1 DEF TypeOK
    <2>3. TypeOK'
      <3>1. /\ last' \in 0 .. MaxStarts /\ handle' \in 0 .. last'
            /\ owner' = "assign"
        BY <2>1 DEF TypeOK
      <3>2. /\ phase' \in [Incarnations -> {"none", "spawned", "task", "returning", "exited"}]
            /\ kind' \in [Incarnations -> {"run", "poll", "token"}]
        BY <2>1 DEF TypeOK, ThreadAssumption
      <3> QED
        BY <3>1, <3>2 DEF TypeOK
    <2>4. \A i \in Incarnations : Alive(i)' <=> i = last + 1
      <3>1. \A i \in Incarnations : ~ Alive(i)
        BY DEF RunningExact, TypeOK, SpawnInv, Alive, Incarnations
      <3> QED
        BY <2>2, <3>1 DEF Alive
    <2>5. RunningExact'
      BY <2>1, <2>4 DEF RunningExact
    <2>6. SpawnInv'
      <3>1. \A i \in Incarnations : phase'[i] = "none" <=> i > last + 1
        BY <2>1, <2>2 DEF TypeOK, SpawnInv, Incarnations
      <3> QED
        BY <2>1, <2>4, <3>1 DEF SpawnInv
    <2>7. HandleInv'
      BY <2>1, <2>4 DEF TypeOK, HandleInv
    <2>8. StopInv'
      BY <2>4 DEF StopInv
    <2>9. StopNotInherited'
      BY <2>2 DEF StopNotInherited
    <2> QED
      BY <2>3, <2>5, <2>6, <2>7, <2>8, <2>9
  <1>14. CASE AssignShell
    <2> USE <1>14 DEF AssignShell
    <2>1. TypeOK'
      BY DEF TypeOK, Incarnations
    <2>2. RunningExact'
      BY DEF TypeOK, RunningExact, SpawnInv, Alive, Incarnations
    <2>3. SpawnInv'
      BY DEF TypeOK, RunningExact, SpawnInv, Alive, Incarnations
    <2>4. HandleInv'
      BY DEF TypeOK, RunningExact, SpawnInv, HandleInv, Alive, Incarnations
    <2>5. StopInv' /\ StopNotInherited'
      BY DEF TypeOK, RunningExact, SpawnInv, StopInv, StopNotInherited, Alive, Incarnations
    <2> QED
      BY <2>1, <2>2, <2>3, <2>4, <2>5
  <1>15. CASE MoveAssign
    <2> USE <1>15 DEF MoveAssign
    <2>1. TypeOK'
      BY DEF TypeOK, Incarnations
    <2>2. RunningExact'
      BY DEF TypeOK, RunningExact, SpawnInv, Alive, Incarnations
    <2>3. SpawnInv'
      BY DEF TypeOK, RunningExact, SpawnInv, Alive, Incarnations
    <2>4. HandleInv'
      BY DEF TypeOK, RunningExact, SpawnInv, HandleInv, Alive, Incarnations
    <2>5. StopInv' /\ StopNotInherited'
      BY DEF TypeOK, RunningExact, SpawnInv, StopInv, StopNotInherited, Alive, Incarnations
    <2> QED
      BY <2>1, <2>2, <2>3, <2>4, <2>5
  <1>16. CASE MoveAssignReturns
    <2> USE <1>16 DEF MoveAssignReturns, Joined
    <2>1. TypeOK'
      BY DEF TypeOK, Incarnations
    <2>2. RunningExact'
      BY DEF TypeOK, RunningExact, SpawnInv, Alive, Incarnations
    <2>3. SpawnInv'
      BY DEF TypeOK, RunningExact, SpawnInv, Alive, Incarnations
    <2>4. HandleInv'
      BY DEF TypeOK, RunningExact, SpawnInv, HandleInv, Alive, Incarnations
    <2>5. StopInv' /\ StopNotInherited'
      BY DEF TypeOK, RunningExact, SpawnInv, StopInv, StopNotInherited, Alive, Incarnations
    <2> QED
      BY <2>1, <2>2, <2>3, <2>4, <2>5
  <1>17. CASE SpawnFails
    <2> USE <1>17 DEF SpawnFails
    <2>1. TypeOK'
      BY DEF TypeOK, Incarnations
    <2>2. RunningExact'
      BY DEF TypeOK, RunningExact, SpawnInv, Alive, Incarnations
    <2>3. SpawnInv'
      BY DEF TypeOK, RunningExact, SpawnInv, Alive, Incarnations
    <2>4. HandleInv'
      BY DEF TypeOK, RunningExact, SpawnInv, HandleInv, Alive, Incarnations
    <2>5. StopInv' /\ StopNotInherited'
      BY DEF TypeOK, RunningExact, SpawnInv, StopInv, StopNotInherited, Alive, Incarnations
    <2> QED
      BY <2>1, <2>2, <2>3, <2>4, <2>5
  <1> QED
    BY <1>1, <1>2, <1>3, <1>4, <1>5, <1>6, <1>7, <1>8, <1>9, <1>10, <1>11, <1>12, <1>13,
       <1>14, <1>15, <1>16, <1>17 DEF OwnerStep

LEMMA IncarnationIInv ==
  ASSUME IInv, NEW j \in Incarnations, Incarnation(j)
  PROVE  IInv'
  <1> USE ThreadAssumption DEF IInv, Up, None, implVars, ownerVars, taskVars
  <1>1. CASE ApplyAttributes(j)
    <2> USE <1>1 DEF ApplyAttributes
    <2>1. TypeOK'
      BY DEF TypeOK, Incarnations
    <2>2. RunningExact'
      BY DEF TypeOK, RunningExact, SpawnInv, Alive, Incarnations
    <2>3. SpawnInv'
      BY DEF TypeOK, RunningExact, SpawnInv, Alive, Incarnations
    <2>4. HandleInv'
      BY DEF TypeOK, RunningExact, SpawnInv, HandleInv, Alive, Incarnations
    <2>5. StopInv' /\ StopNotInherited'
      BY DEF TypeOK, RunningExact, SpawnInv, StopInv, StopNotInherited, Alive, Incarnations
    <2> QED
      BY <2>1, <2>2, <2>3, <2>4, <2>5
  <1>2. CASE UseFreedImpl(j)
    <2> USE <1>2 DEF UseFreedImpl
    <2>1. TypeOK'
      BY DEF TypeOK, Incarnations
    <2>2. RunningExact'
      BY DEF TypeOK, RunningExact, SpawnInv, Alive, Incarnations
    <2>3. SpawnInv'
      BY DEF TypeOK, RunningExact, SpawnInv, Alive, Incarnations
    <2>4. HandleInv'
      BY DEF TypeOK, RunningExact, SpawnInv, HandleInv, Alive, Incarnations
    <2>5. StopInv' /\ StopNotInherited'
      BY DEF TypeOK, RunningExact, SpawnInv, StopInv, StopNotInherited, Alive, Incarnations
    <2> QED
      BY <2>1, <2>2, <2>3, <2>4, <2>5
  <1>3. CASE TaskReturns(j)
    <2> USE <1>3 DEF TaskReturns
    <2>1. TypeOK'
      BY DEF TypeOK, Incarnations
    <2>2. RunningExact'
      BY DEF TypeOK, RunningExact, SpawnInv, Alive, Incarnations
    <2>3. SpawnInv'
      BY DEF TypeOK, RunningExact, SpawnInv, Alive, Incarnations
    <2>4. HandleInv'
      BY DEF TypeOK, RunningExact, SpawnInv, HandleInv, Alive, Incarnations
    <2>5. StopInv' /\ StopNotInherited'
      BY DEF TypeOK, RunningExact, SpawnInv, StopInv, StopNotInherited, Alive, Incarnations
    <2> QED
      BY <2>1, <2>2, <2>3, <2>4, <2>5
  <1>4. CASE ClearRunning(j)
    <2> USE <1>4 DEF ClearRunning
    <2>1. TypeOK'
      BY DEF TypeOK, Incarnations
    <2>2. RunningExact'
      <3>1. Alive(j) /\ j = last
        BY DEF SpawnInv, Alive
      <3>2. \A i \in Incarnations : ~ Alive(i)'
        BY <3>1 DEF TypeOK, SpawnInv, Alive
      <3>3. owner # "spawn"
        BY <3>1 DEF SpawnInv, RunningExact
      <3> QED
        BY <3>2, <3>3 DEF RunningExact, ownerVars
    <2>3. SpawnInv'
      BY DEF TypeOK, RunningExact, SpawnInv, Alive, Incarnations
    <2>4. HandleInv'
      BY DEF TypeOK, RunningExact, SpawnInv, HandleInv, Alive, Incarnations
    <2>5. StopInv' /\ StopNotInherited'
      BY DEF TypeOK, RunningExact, SpawnInv, StopInv, StopNotInherited, Alive, Incarnations
    <2> QED
      BY <2>1, <2>2, <2>3, <2>4, <2>5
  <1> QED
    BY <1>1, <1>2, <1>3, <1>4 DEF Incarnation

LEMMA StutterIInv ==
  ASSUME IInv, UNCHANGED vars
  PROVE  IInv'
  BY DEF vars, implVars, ownerVars, taskVars, IInv, TypeOK, RunningExact, SpawnInv, HandleInv,
     StopInv, StopNotInherited, Alive

(* The inductive invariant holds of every behaviour.                       *)
THEOREM Inductive == Spec => []IInv
  <1>1. IInv /\ [Next]_vars => IInv'
    BY OwnerIInv, IncarnationIInv, StutterIInv DEF Next, Finished
  <1> QED
    BY InitIInv, <1>1, PTL DEF Spec

(* Types; impl_->jthread never stands for an incarnation not yet spawned.  *)
THEOREM TypeCorrect == Spec => []TypeOK
  <1>1. IInv => TypeOK
    BY DEF IInv
  <1> QED
    BY Inductive, <1>1, PTL

(* One Thread object never runs two tasks at once.                         *)
THEOREM OneTaskAtATime == Spec => []SingleIncarnation
  <1>1. IInv => SingleIncarnation
    BY DEF IInv, SpawnInv, SingleIncarnation
  <1> QED
    BY Inductive, <1>1, PTL

(* isRunning() is exact, of an object whose start() has not thrown.         *)
THEOREM RunningIsExact == Spec => []RunningExact
  <1>1. IInv => RunningExact
    BY DEF IInv
  <1> QED
    BY Inductive, <1>1, PTL

(* start() does not wait for a previous task.                              *)
THEOREM StartDoesNotBlock == Spec => []StartNeverBlocks
  <1>1. IInv => StartNeverBlocks
    <2> SUFFICES ASSUME IInv, owner = "assign", NEW i \in Incarnations, i = handle
                 PROVE  phase[i] = "exited"
      BY DEF StartNeverBlocks, Joined
    <2>1. i # last /\ phase[i] # "none"
      BY DEF IInv, TypeOK, SpawnInv, HandleInv, Incarnations
    <2> QED
      BY <2>1 DEF IInv, TypeOK, SpawnInv, Alive
  <1> QED
    BY Inductive, <1>1, PTL

(* A polling task ends only if it was itself asked to.                     *)
THEOREM RequestsNotInherited == Spec => []StopNotInherited
  <1>1. IInv => StopNotInherited
    BY DEF IInv
  <1> QED
    BY Inductive, <1>1, PTL

(* Only a detached task outlives the Thread object.                        *)
THEOREM ShutdownIsClean == Spec => []CleanShutdown
  <1>1. IInv => CleanShutdown
    BY DEF IInv, HandleInv, CleanShutdown, Incarnations, None
  <1> QED
    BY Inductive, <1>1, PTL

(* One task at a time, and none but the detached ones outlives its object. *)
THEOREM TasksAreControlled == Spec => []TasksUnderControl
  <1>1. SingleIncarnation /\ CleanShutdown => TasksUnderControl
    BY DEF TasksUnderControl
  <1> QED
    BY OneTaskAtATime, ShutdownIsClean, <1>1, PTL

(* A task that asks for its own id gets it once start() has returned.      *)
THEOREM IdIsOwn == Spec => []OwnIdAfterStart
  <1>1. IInv => OwnIdAfterStart
    <2> SUFFICES ASSUME IInv, NEW i \in Incarnations, phase[i] = "task",
                        owner # "assign", i \notin detached
                 PROVE  GetId = i
      BY DEF OwnIdAfterStart
    <2>1. Alive(i)
      BY DEF Alive
    <2> QED
      BY <2>1 DEF IInv, SpawnInv, HandleInv, RunningExact, GetId
  <1> QED
    BY Inductive, <1>1, PTL

(* A joined object can be started again, unless a start() has thrown.      *)
THEOREM JoinedCanRestart == Spec => JoinedIsRestartable
  <1>1. IInv /\ [Next]_vars => [owner = "joining" /\ owner' = "idle" /\ ~ failed => ~ running']_vars
    <2> SUFFICES ASSUME IInv, Next, owner = "joining", owner' = "idle", ~ failed
                 PROVE  ~ running'
      OBVIOUS
    <2>1. JoinReturns
      BY DEF Next, OwnerStep, Incarnation, Finished, Start, ResetSource, MarkRunning, Assign,
         Spawn, SpawnFails, RequestStop, Join, Detach, Destroy, DestroyReturns, Move, DestroyShell,
         AssignShell, MoveAssign, MoveAssignReturns,
         ApplyAttributes, UseFreedImpl, TaskReturns, ClearRunning, Goto, vars, ownerVars
    <2>2. handle = last
      BY DEF IInv, HandleInv
    <2>3. \A i \in Incarnations : ~ Alive(i)
      BY <2>1, <2>2 DEF JoinReturns, Joined, IInv, SpawnInv, Alive
    <2> QED
      BY <2>1, <2>3 DEF JoinReturns, IInv, RunningExact
  <1> QED
    BY Inductive, <1>1, PTL DEF Spec, JoinedIsRestartable
=============================================================================
