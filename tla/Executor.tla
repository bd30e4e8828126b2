------------------------------ MODULE Executor ------------------------------
(***************************************************************************)
(* What nex::Executor promises of execute(task) (the class comments of     *)
(* include/nex/core/executor.h): a submitted task runs at most once, at    *)
(* most Width of them at a time, unless the executor goes before.          *)
(***************************************************************************)
EXTENDS FiniteSets, Naturals

CONSTANTS
  Tasks,    (* what can be submitted                                       *)
  Width     (* how many threads run them                                   *)

VARIABLES
  pending,  (* submitted, not begun                                        *)
  active,   (* being run                                                   *)
  done,     (* run                                                         *)
  dropped   (* given up with the executor                                  *)

vars == <<pending, active, done, dropped>>

Init == pending = {} /\ active = {} /\ done = {} /\ dropped = {}

Submit(t) ==
  /\ t \notin pending \cup active \cup done \cup dropped
  /\ pending' = pending \cup {t}
  /\ UNCHANGED <<active, done, dropped>>

Begin(t) ==
  /\ t \in pending /\ Cardinality(active) < Width
  /\ pending' = pending \ {t} /\ active' = active \cup {t}
  /\ UNCHANGED <<done, dropped>>

End(t) ==
  /\ t \in active
  /\ active' = active \ {t} /\ done' = done \cup {t}
  /\ UNCHANGED <<pending, dropped>>

Discard ==
  /\ active = {}
  /\ pending' = {} /\ dropped' = dropped \cup pending
  /\ UNCHANGED <<active, done>>

Next == Discard \/ \E t \in Tasks : Submit(t) \/ Begin(t) \/ End(t)

Spec == Init /\ [][Next]_vars
=============================================================================
