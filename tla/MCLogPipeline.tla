--------------------------- MODULE MCLogPipeline ---------------------------
(* Instances of LogPipeline for TLC: two producers, so that numbers can be  *)
(* enqueued out of order, and fewer places in the queue than records.       *)
EXTENDS LogPipeline

CONSTANTS p, q

TwoProducers == {p, q}
AllPolicies == {"Block", "DropNewest", "DropOldest", "Grow"}
=============================================================================
