------------------------------ MODULE MCGrowth ------------------------------
(* Machine words of a few bits: every capacity, every request and every wrap *)
(* of the real ones has a small counterpart.                                 *)
EXTENDS Growth
AllPolicies == Looping \cup Direct
JustDouble == {"double"}
\* Two bytes or more: the maximum is below half the range of a word.
Sizes == 2..8
NonEmpty == Word \ {0}
Empty == {0}
=============================================================================
