--------------------------- MODULE MCNotifications ---------------------------
(***************************************************************************)
(* Two workers, one failure event and one digest event, two channels.      *)
(***************************************************************************)
EXTENDS Notifications

MCOffered ==
  {[channels |-> <<"local", "telegram">>, batched |-> {}, max |-> 2],
   [channels |-> <<"telegram">>, batched |-> {"failure"}, max |-> 1]}
WorkerSymmetry == Permutations(Workers)
=============================================================================
