-------------------------- MODULE MCLiveExecution --------------------------
(* Two clips and a sale at a time, on an exchange of a few dollars. *)
EXTENDS LiveExecution
MCSizes == {1, 3}
MCFewSizes == {2, 4}
=============================================================================
