----------------------------- MODULE MCEventLog -----------------------------
(* Instances of EventLog for TLC. *)
EXTENDS EventLog, TLC

Symmetry == Permutations(Serialised) \cup Permutations(Direct) \cup Permutations(Ids)
=============================================================================
