------------------------------- MODULE OneShot -------------------------------
(***************************************************************************)
(* What a Promise and its Futures promise together (the class comments of  *)
(* include/nex/core/async.h): a cell that is filled exactly once, with a   *)
(* value or an error, and whose content goes to a single reader.           *)
(***************************************************************************)
CONSTANTS
  Outcomes,  (* what the cell can hold                       *)
  Readers,   (* who can be served                            *)
  Empty      (* neither an outcome nor a reader              *)

VARIABLES
  cell,      (* the outcome, or Empty                        *)
  reader     (* the reader that was served, or Empty         *)

vars == <<cell, reader>>

Init == cell = Empty /\ reader = Empty

Fill == cell = Empty /\ cell' \in Outcomes /\ UNCHANGED reader

Serve == cell # Empty /\ reader = Empty /\ reader' \in Readers /\ UNCHANGED cell

Next == Fill \/ Serve

SafeSpec == Init /\ [][Next]_vars

(* Only filling is guaranteed: nobody has to ask for the content.          *)
Spec == SafeSpec /\ WF_vars(Fill)
=============================================================================
