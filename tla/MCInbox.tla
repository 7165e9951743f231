------------------------------- MODULE MCInbox -------------------------------
(* Instances of Inbox for TLC: two downloads of one post in two versions, which   *)
(* got the same capture id, and the observation of its completion.                *)
EXTENDS Inbox, TLC

CONSTANTS b1, b2, o1, t1, x, y, c1, c2, done

Conflicting == [b \in Bundles |-> IF b = o1 THEN done ELSE IF b = b2 THEN y ELSE x]
SamePost    == [b \in Bundles |-> IF b = o1 THEN c2 ELSE c1]
OneTask     == [b \in Bundles |-> t1]
=============================================================================
