------------------------------ MODULE Property ------------------------------
(***************************************************************************)
(* nex::Property (core/property.h): a value with a validator that may      *)
(* reject a new one and a callback that is told of it.  The callback may   *)
(* call set() again, and is given the value by reference.                  *)
(***************************************************************************)
EXTENDS Naturals, Sequences

CONSTANTS
  Settings,     \* the values of the property
  Rejections,   \* what a validator may reject: a set of sets of values
  MaxNesting    \* bound on the callbacks that run inside one another

Itself == "itself"    \* a reference to value_ itself

VARIABLES
  setting,      \* value_
  rejected,     \* the values that validator_ rejects; none if it is empty
  listening,    \* callback_ is not empty
  callbacks,    \* the callbacks that are running, the outermost first
  told          \* what the callback was told when it was called last
PropertyVars == <<setting, rejected, listening, callbacks, told>>

PropertyInit ==
  /\ setting \in Settings /\ told = setting
  /\ rejected = {} /\ listening = FALSE /\ callbacks = <<>>

Referred(reference, current) == IF reference = Itself THEN current ELSE reference

(* Mutated form: the callback is given oldVal. *)
GivenOld(reference, moves) == setting

(* A copy leaves newVal as it is; after a move there is only value_. *)
Given(reference, moves) == IF moves THEN Itself ELSE reference

(* set() of a copy, or of a temporary, which is moved from; called by the  *)
(* owner or by a running callback, with a new value or the property's own. *)
SetValue(reference, moves) ==
  LET newVal == Referred(reference, setting)
      given == Given(reference, moves)
  IN /\ Len(callbacks) < MaxNesting
     /\ newVal \notin rejected
     /\ setting' = newVal
     /\ IF listening
        THEN /\ told' = Referred(given, newVal)
             /\ callbacks' = Append(callbacks, [param |-> given, setAgain |-> FALSE])
        ELSE UNCHANGED <<told, callbacks>>
     /\ UNCHANGED <<rejected, listening>>

Reject(reference) ==
  /\ Referred(reference, setting) \in rejected
  /\ UNCHANGED PropertyVars

(* The callback returns or throws, and the one around it goes on. *)
CallbackEnds ==
  LET outer == Len(callbacks) - 1
  IN /\ outer >= 0
     /\ callbacks' = [i \in 1 .. outer |-> [callbacks[i] EXCEPT !.setAgain = TRUE]]
     /\ UNCHANGED <<setting, rejected, listening, told>>

SetValidator(S) ==
  rejected' = S /\ UNCHANGED <<setting, listening, callbacks, told>>

(* Not from inside a callback, whose function object would be destroyed. *)
SetCallback ==
  /\ callbacks = <<>> /\ listening' = TRUE /\ told' = setting
  /\ UNCHANGED <<setting, rejected, callbacks>>

PropertyNext ==
  \/ \E v \in Settings, moves \in BOOLEAN : SetValue(v, moves) \/ Reject(v)
  \/ SetValue(Itself, FALSE) \/ Reject(Itself)
  \/ CallbackEnds \/ SetCallback
  \/ \E S \in Rejections : SetValidator(S)

PropertySpec == PropertyInit /\ [][PropertyNext]_PropertyVars

-----------------------------------------------------------------------------
(* However deep the callbacks call set(): the value is the one that the    *)
(* callback was told last, also when the outer calls go on after the inner *)
(* ones; a callback reads the current value from its parameter as long as  *)
(* it has not called set() itself; and after a move it always does.        *)
ObserverIsCurrent ==
  /\ listening => told = setting
  /\ \A i \in DOMAIN callbacks :
       LET running == callbacks[i]
       IN i = Len(callbacks) /\ ~ running.setAgain => Referred(running.param, setting) = setting
=============================================================================
