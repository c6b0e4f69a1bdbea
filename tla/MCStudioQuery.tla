--------------------------- MODULE MCStudioQuery ---------------------------
(* Instances of StudioQuery for TLC. *)
EXTENDS StudioQuery
CONSTANTS q1, q2
Pair == {q1, q2}
First == {q1}
None == {}
============================================================================
