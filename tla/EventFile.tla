----------------------------- MODULE EventFile -----------------------------
(***************************************************************************)
(* state/events.jsonl as its readers see it (automation/events.py): a      *)
(* sequence of lines, each an event with an id, or torn: cut off when its  *)
(* writer was killed, and not an event.  read() goes through the lines in  *)
(* order and raises at the first it does not accept.                       *)
(***************************************************************************)
EXTENDS Naturals, Sequences

LoggedIds(log) == {log[i].id : i \in {j \in DOMAIN log : ~log[j].torn}}

\* Line i is where read() stops: torn, or an event whose id came before.
StopsAt(log, i) ==
  /\ i \in DOMAIN log
  /\ log[i].torn \/ \E j \in 1..(i - 1) : log[j].id = log[i].id
  /\ \A j \in 1..(i - 1) : ~log[j].torn
  /\ \A j, l \in 1..(i - 1) : j # l => log[j].id # log[l].id

RaisesCorrupt(log)   == \E i \in DOMAIN log : StopsAt(log, i) /\ log[i].torn
RaisesDuplicate(log) == \E i \in DOMAIN log : StopsAt(log, i) /\ ~log[i].torn
Readable(log)        == ~RaisesCorrupt(log) /\ ~RaisesDuplicate(log)
=============================================================================
