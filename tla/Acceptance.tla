----------------------------- MODULE Acceptance -----------------------------
(***************************************************************************)
(* What the inbox promises for bundles that appear in Downloads, however   *)
(* many runners look after them: a bundle is accepted in one step, and     *)
(* only under an id that is free; and only an accepted bundle is taken     *)
(* away, or goes to the pipeline or the event log.  One that was accepted  *)
(* and could not be taken away goes there again and again.                 *)
(*                                                                         *)
(* There are no runners, claims, copies or crashes here: this is what      *)
(* accept_completed_download of automation/inbox.py says of itself,        *)
(* "Atomically accept one complete extension bundle".                      *)
(***************************************************************************)
CONSTANTS Bundles, Observations, IdOf, ContentOf, TaskOf, None

VARIABLES
  source,         \* bundle -> "absent", "whole" or "taken"
  inbox,          \* id -> the accepted content
  tasks,          \* tasks the pipeline has stored
  recorded        \* observations in the event log

vars == <<source, inbox, tasks, recorded>>

Init ==
  /\ source = [b \in Bundles |-> "absent"]
  /\ inbox = [i \in {IdOf[b] : b \in Bundles} |-> None]
  /\ tasks = {} /\ recorded = {}

Accepted(b) == inbox[IdOf[b]] = ContentOf[b]

Appear(b) ==
  /\ source[b] = "absent"
  /\ source' = [source EXCEPT ![b] = "whole"]
  /\ UNCHANGED <<inbox, tasks, recorded>>

Accept(b) ==
  /\ source[b] = "whole" /\ inbox[IdOf[b]] = None
  /\ inbox' = [inbox EXCEPT ![IdOf[b]] = ContentOf[b]]
  /\ UNCHANGED <<source, tasks, recorded>>

\* Also where an equal bundle was accepted before.
Take(b) ==
  /\ source[b] = "whole" /\ Accepted(b)
  /\ source' = [source EXCEPT ![b] = "taken"]
  /\ UNCHANGED <<inbox, tasks, recorded>>

\* A completion is recorded for a task that is stored.
HandOver(b) ==
  /\ source[b] # "absent" /\ Accepted(b)
  /\ IF b \in Observations
     THEN /\ TaskOf[b] \in tasks \cup {None}
          /\ recorded' = recorded \cup {b}
          /\ UNCHANGED tasks
     ELSE tasks' = tasks \cup {TaskOf[b]} /\ UNCHANGED recorded
  /\ UNCHANGED <<source, inbox>>

Next == \E b \in Bundles : Appear(b) \/ Accept(b) \/ Take(b) \/ HandOver(b)

Spec == Init /\ [][Next]_vars
=============================================================================
