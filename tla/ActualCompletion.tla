-------------------------- MODULE ActualCompletion --------------------------
(***************************************************************************)
(* The actual completion of one task: execution_service.confirm_task, the  *)
(* executions it may rest on and the verification events it asks for.      *)
(*                                                                         *)
(* A confirmation is a call of a person (taskctl confirm, or a button of   *)
(* the dashboard).  It reads the task, the execution, and twice the log,   *)
(* and then appends up to two events with EventLog.append: every read and  *)
(* every append is a step, and an append is a check and a write, with no   *)
(* lock around any of it.  An execution that ends puts its record first    *)
(* and appends its verification later.  A process may die in between.      *)
(***************************************************************************)
EXTENDS EventFile, FiniteSets

CONSTANTS
  Callers,        \* processes that run confirm_task
  Keys,           \* execution keys of the task
  Others,         \* manual, external: a completion that rests on no execution
  MaxRevision, MaxAttempt, MaxDeaths   \* bounds

ASSUME BasesAssumption == Keys \cap Others = {}
ASSUME CompletionBounds == {MaxRevision, MaxAttempt, MaxDeaths} \subseteq Nat

VARIABLES
  revision,       \* revision of the stored task
  executions,     \* state and attempt of every key
  unreported,     \* verifications of ended attempts that are not logged yet
  events,         \* lines of events.jsonl about this task
  at, mem,        \* control point and local variables of every caller
  told,           \* completions a caller has been told are recorded
  deaths

completionVars == <<revision, executions, unreported, events, at, mem, told, deaths>>

Bases == Keys \cup Others

Verified(k, n)  == <<"verification", k, n>>
Confirmed(k, n) == <<"verification-confirmed", k, n>>
Completed(v, b) == <<"actual-completion", v, b>>

EventIds == {"verification", "verification-confirmed"} \X Keys \X Nat
              \cup {"actual-completion"} \X Nat \X Bases
EventLine == [id : EventIds, passed : BOOLEAN, torn : {FALSE}]
Report    == [key : Keys, attempt : Nat, passed : BOOLEAN]

Stages == {"idle", "request", "verification", "previous",
           "confirming", "confirm", "completing", "complete"}
Work      == [version : Nat, basis : Bases, attempt : Nat]

CompletionTypeOK ==
  /\ revision \in Nat
  /\ executions \in [Keys -> [state : {"executing", "succeeded", "failed"}, attempt : Nat]]
  /\ unreported \subseteq Report
  /\ events \in Seq(EventLine)
  /\ at \in [Callers -> Stages]
  /\ mem \in [Callers -> Work]
  /\ told \subseteq EventIds
  /\ deaths \in Nat

CompletionInit ==
  /\ revision = 1
  /\ executions = [k \in Keys |-> [state |-> "executing", attempt |-> 1]]
  /\ unreported = {}
  /\ events = <<>>
  /\ at = [w \in Callers |-> "idle"]
  /\ mem \in [Callers -> [version : {1}, basis : Bases, attempt : {0}]]
  /\ told = {}
  /\ deaths = 0

(***************************************************************************)
(* The executions and the task, as far as a confirmation can tell.         *)
(***************************************************************************)
\* EventLog.append: nothing is added when the read raises or the id is there;
\* the callers here swallow DuplicateEventError, and no other can be raised.
Appendable(id) == Readable(events) /\ id \notin LoggedIds(events)
AddLine(id, passed) == events' = Append(events, [id |-> id, passed |-> passed, torn |-> FALSE])

\* An attempt ends: verified, or without a result to verify.
EndAttempt(k) ==
  /\ executions[k].state = "executing"
  /\ \E s \in {"succeeded", "failed"} :
       /\ executions' = [executions EXCEPT ![k].state = s]
       /\ \/ unreported' = unreported \cup {[key |-> k, attempt |-> executions[k].attempt,
                                             passed |-> s = "succeeded"]}
          \/ s = "failed" /\ UNCHANGED unreported
  /\ UNCHANGED <<revision, events, at, mem, told, deaths>>

ReportVerification(r) ==
  /\ r \in unreported
  /\ unreported' = unreported \ {r}
  /\ IF Appendable(Verified(r.key, r.attempt)) THEN AddLine(Verified(r.key, r.attempt), r.passed)
                                               ELSE UNCHANGED events
  /\ UNCHANGED <<revision, executions, at, mem, told, deaths>>

Retry(k) ==
  /\ executions[k].state = "failed"
  /\ executions[k].attempt < MaxAttempt
  /\ executions' = [executions EXCEPT ![k] = [state |-> "executing", attempt |-> @.attempt + 1]]
  /\ UNCHANGED <<revision, unreported, events, at, mem, told, deaths>>

Revise ==
  /\ revision < MaxRevision
  /\ revision' = revision + 1
  /\ UNCHANGED <<executions, unreported, events, at, mem, told, deaths>>

(***************************************************************************)
(* confirm_task.                                                           *)
(***************************************************************************)
Go(w, p) == at' = [at EXCEPT ![w] = p]
Quit(w)    == Go(w, "idle") /\ UNCHANGED <<events, mem, told>>

\* The person names the revision that is on the screen; any other is refused.
Confirm(w, b) ==
  /\ at[w] = "idle"
  /\ mem' = [mem EXCEPT ![w] = [version |-> revision, basis |-> b, attempt |-> 0]]
  /\ Go(w, IF b \in Keys THEN "request" ELSE "previous")
  /\ UNCHANGED <<revision, executions, unreported, events, told, deaths>>

Confirmable(k) == executions[k].state = "succeeded"

ReadRequest(w) ==
  LET k == mem[w].basis IN
  /\ at[w] = "request"
  /\ IF Confirmable(k)
     THEN /\ mem' = [mem EXCEPT ![w].attempt = executions[k].attempt]
          /\ Go(w, "verification")
          /\ UNCHANGED <<events, told>>
     ELSE Quit(w)
  /\ UNCHANGED <<revision, executions, unreported, deaths>>

\* The latest verification event of the attempt says passed.
About(i, k, n)     == events[i].id \in {Verified(k, n), Confirmed(k, n)}
NoneFailed(k, n) ==            \* mutant: no verification is as good as a passed one
  \A i \in DOMAIN events : About(i, k, n) => events[i].passed
LatestPassed(k, n) ==
  \E i \in DOMAIN events : /\ About(i, k, n) /\ events[i].passed
                           /\ \A j \in (i + 1)..Len(events) : ~About(j, k, n)

ReadVerification(w) ==
  /\ at[w] = "verification"
  /\ IF Readable(events) /\ LatestPassed(mem[w].basis, mem[w].attempt)
     THEN Go(w, "previous") /\ UNCHANGED <<events, mem, told>>
     ELSE Quit(w)
  /\ UNCHANGED <<revision, executions, unreported, deaths>>

\* The last completion in the log: the same one again, another one, or none.
IsCompletion(i) == events[i].id[1] = "actual-completion"
Previous(w) == {i \in DOMAIN events : IsCompletion(i)}
Latest(w)   == CHOOSE i \in Previous(w) : \A j \in Previous(w) : j <= i

SameAsPrevious(w, i) == events[i].id = Completed(mem[w].version, mem[w].basis)

ReadPrevious(w) ==
  LET id == Completed(mem[w].version, mem[w].basis) IN
  /\ at[w] = "previous"
  /\ IF Readable(events) /\ Previous(w) = {}
     THEN /\ Go(w, IF mem[w].basis \in Keys THEN "confirming" ELSE "completing")
          /\ UNCHANGED told
     ELSE /\ Go(w, "idle")
          /\ told' = IF Readable(events) /\ SameAsPrevious(w, Latest(w)) THEN told \cup {id}
                     ELSE told
  /\ UNCHANGED <<revision, executions, unreported, events, mem, deaths>>

\* The two appends, each a check and a write.
CheckConfirmation(w) ==
  /\ at[w] = "confirming"
  /\ Go(w, IF Appendable(Confirmed(mem[w].basis, mem[w].attempt)) THEN "confirm" ELSE "completing")
  /\ UNCHANGED <<revision, executions, unreported, events, mem, told, deaths>>

AppendConfirmation(w) ==
  /\ at[w] = "confirm"
  /\ AddLine(Confirmed(mem[w].basis, mem[w].attempt), TRUE)
  /\ Go(w, "completing")
  /\ UNCHANGED <<revision, executions, unreported, mem, told, deaths>>

CheckCompletion(w) ==
  LET id == Completed(mem[w].version, mem[w].basis) IN
  /\ at[w] = "completing"
  /\ IF Appendable(id) THEN Go(w, "complete") /\ UNCHANGED told
                       ELSE Go(w, "idle") /\ told' = told \cup {id}
  /\ UNCHANGED <<revision, executions, unreported, events, mem, deaths>>

AppendCompletion(w) ==
  LET id == Completed(mem[w].version, mem[w].basis) IN
  /\ at[w] = "complete"
  /\ AddLine(id, FALSE)
  /\ told' = told \cup {id}
  /\ Go(w, "idle")
  /\ UNCHANGED <<revision, executions, unreported, mem, deaths>>

Die(w) ==
  /\ at[w] # "idle"
  /\ deaths < MaxDeaths
  /\ deaths' = deaths + 1
  /\ Quit(w)
  /\ UNCHANGED <<revision, executions, unreported>>

\* The executing process dies after it has put its record.
CrashReport(r) ==
  /\ r \in unreported
  /\ deaths < MaxDeaths
  /\ deaths' = deaths + 1
  /\ unreported' = unreported \ {r}
  /\ UNCHANGED <<revision, executions, events, at, mem, told>>

-----------------------------------------------------------------------------
Advance(w) ==
  \/ ReadRequest(w) \/ ReadVerification(w) \/ ReadPrevious(w)
  \/ CheckConfirmation(w) \/ AppendConfirmation(w) \/ CheckCompletion(w) \/ AppendCompletion(w)

CompletionNext ==
  \/ \E k \in Keys : EndAttempt(k) \/ Retry(k)
  \/ \E r \in unreported : ReportVerification(r) \/ CrashReport(r)
  \/ Revise
  \/ \E w \in Callers, b \in Bases : Confirm(w, b)
  \/ \E w \in Callers : Advance(w) \/ Die(w)

CompletionSpec == CompletionInit /\ [][CompletionNext]_completionVars

-----------------------------------------------------------------------------
Completions    == {i \in DOMAIN events : IsCompletion(i)}
CompletedOn(k) == \E i \in Completions : events[i].id[3] = k

\* A completion that rests on an execution rests on one that succeeded and whose
\* last attempt was verified as passed, although the execution, its
\* verification and the completion are read and written at different times.
CompletionIsBacked ==
  \A k \in Keys : CompletedOn(k) =>
    /\ executions[k].state = "succeeded"
    /\ \E i \in DOMAIN events : events[i].id = Verified(k, executions[k].attempt) /\ events[i].passed

\* The task is completed once, on one basis and for one revision
\* (test_a_task_already_completed_is_not_completed_again_on_another_basis).
OneCompletion == Cardinality(Completions) <= 1

\* A confirmed handoff is followed by the completion it was confirmed for, once
\* nobody is at it any more, unless a process died over it.
ConfirmedIsCompleted ==
  deaths = 0 /\ (\A w \in Callers : at[w] = "idle") =>
    \A k \in Keys, n \in 1..MaxAttempt : Confirmed(k, n) \in LoggedIds(events) => CompletedOn(k)

=============================================================================
