------------------------------ MODULE EventLog ------------------------------
(***************************************************************************)
(* Concurrent appends to state/events.jsonl.  EventLog.append reads the    *)
(* whole log, looks for the id of the event and then appends a line; it    *)
(* takes no lock of its own.                                               *)
(*   - Serialised writers (run_pipeline._record_event and                  *)
(*     inbox.ingest_source_observation) hold events.jsonl.lock around a    *)
(*     read of their own and the append; an error of the append is theirs. *)
(*   - Direct writers (execution_service, feedback, candidates, taskctl)   *)
(*     call append as it is and take DuplicateEventError to mean that the  *)
(*     event is there.                                                     *)
(* A caller that returns without an error has acknowledged its event.      *)
(***************************************************************************)
EXTENDS EventFile, FiniteSets

CONSTANTS
  Serialised, Direct,   \* processes of the two kinds
  Ids,                  \* event ids
  MaxLines, MaxCrashes  \* bounds on the log and on processes killed

ASSUME WritersAssumption == Serialised \cap Direct = {}
ASSUME BoundsAssumption == MaxLines \in Nat /\ MaxCrashes \in Nat

VARIABLES
  log,      \* lines of events.jsonl
  holder,   \* who holds events.jsonl.lock: at most one writer
  pc,       \* control point of every writer
  want,     \* the id of the event a writer has been called with
  seen,     \* the number of lines append has read
  acked,    \* ids of the events whose callers were told nothing went wrong
  crashes

vars == <<log, holder, pc, want, seen, acked, crashes>>

Writers == Serialised \cup Direct
Line    == [id : Ids, by : Writers, torn : BOOLEAN]
Points  == {"idle", "waiting", "looking", "reading", "writing"}
Locked  == {"looking", "reading", "writing"}

TypeOK ==
  /\ log \in Seq(Line)
  /\ holder \subseteq Serialised
  /\ pc \in [Writers -> Points]
  /\ want \in [Writers -> Ids]
  /\ seen \in [Writers -> Nat]
  /\ acked \subseteq Ids
  /\ crashes \in Nat

Init ==
  /\ log = <<>>
  /\ holder = {}
  /\ pc = [w \in Writers |-> "idle"]
  /\ want \in [Writers -> Ids]
  /\ seen = [w \in Writers |-> 0]
  /\ acked = {}
  /\ crashes = 0

Goto(w, p) == pc' = [pc EXCEPT ![w] = p]
\* The call ends, by a return or by an error; a lock it holds is released.
Return(w)  == Goto(w, "idle") /\ holder' = holder \ {w}
Present(w) == want[w] \in LoggedIds(log)

Call(w, id) ==
  /\ pc[w] = "idle"
  /\ Len(log) < MaxLines
  /\ want' = [want EXCEPT ![w] = id]
  /\ Goto(w, IF w \in Serialised THEN "waiting" ELSE "reading")
  /\ UNCHANGED <<log, holder, seen, acked, crashes>>

LockFreeAlways == TRUE       \* mutant: the lock does not exclude
LockFree == holder = {}

Acquire(w) ==
  /\ pc[w] = "waiting"
  /\ LockFree
  /\ holder' = holder \cup {w}
  /\ Goto(w, "looking")
  /\ UNCHANGED <<log, want, seen, acked, crashes>>

\* The caller's own read under the lock: an event that is there is left alone.
Look(w) ==
  /\ pc[w] = "looking"
  /\ IF Readable(log) /\ ~Present(w)
     THEN Goto(w, "reading") /\ UNCHANGED <<holder, acked>>
     ELSE /\ Return(w)
          /\ acked' = IF Readable(log) THEN acked \cup {want[w]} ELSE acked
  /\ UNCHANGED <<log, want, seen, crashes>>

\* append reads the log.  DuplicateEventError, from the read as well as from
\* the comparison, is what direct callers swallow.
Swallowed(w) == w \in Direct /\ (RaisesDuplicate(log) \/ (Readable(log) /\ Present(w)))

Read(w) ==
  /\ pc[w] = "reading"
  /\ seen' = [seen EXCEPT ![w] = Len(log)]
  /\ IF Readable(log) /\ ~Present(w)
     THEN Goto(w, "writing") /\ UNCHANGED <<holder, acked>>
     ELSE /\ Return(w)
          /\ acked' = IF Swallowed(w) THEN acked \cup {want[w]} ELSE acked
  /\ UNCHANGED <<log, want, crashes>>

\* The file is opened for appending: what others wrote meanwhile stays.  A torn
\* line in front is closed with a newline first, so the new line stays whole.
LogLineOver(w, torn) ==      \* mutant: the file is written back as it was read
  log' = Append(SubSeq(log, 1, seen[w]), [id |-> want[w], by |-> w, torn |-> torn])
LogLine(w, torn) == log' = Append(log, [id |-> want[w], by |-> w, torn |-> torn])

Write(w) ==
  /\ pc[w] = "writing"
  /\ LogLine(w, FALSE)
  /\ acked' = acked \cup {want[w]}
  /\ Return(w)
  /\ UNCHANGED <<want, seen, crashes>>

\* A process is killed; in the middle of its write it may leave part of a line,
\* or the whole of it.
Crash(w) ==
  /\ pc[w] # "idle"
  /\ crashes < MaxCrashes
  /\ crashes' = crashes + 1
  /\ Return(w)
  /\ \/ UNCHANGED log
     \/ pc[w] = "writing" /\ \E torn \in BOOLEAN : LogLine(w, torn)
  /\ UNCHANGED <<want, seen, acked>>

Step(w) == Acquire(w) \/ Look(w) \/ Read(w) \/ Write(w)

Next ==
  \/ \E w \in Writers, id \in Ids : Call(w, id)
  \/ \E w \in Writers : Step(w) \/ Crash(w)

Spec == Init /\ [][Next]_vars

-----------------------------------------------------------------------------
\* Two lines have one id only if an unserialised writer wrote one of them: the
\* lock makes check and write of the others one step, whatever else is appended
\* (run_pipeline.py:113-118, inbox.py:186-192).
SerialisedNeverRepeat ==
  \A i, j \in DOMAIN log :
    i # j /\ ~log[i].torn /\ ~log[j].torn /\ log[i].id = log[j].id
      => log[i].by \in Direct \/ log[j].by \in Direct

\* As long as the log can be read, nothing that was acknowledged is missing from
\* it, whoever is killed and whoever appends at the same moment.
ReadableKeepsAcks == Readable(log) => acked \subseteq LoggedIds(log)

\* What a caller was told is recorded is in the log (record_feedback: "validate,
\* persist, and return", feedback.py:44).
AckedIsLogged == acked \subseteq LoggedIds(log)
=============================================================================
