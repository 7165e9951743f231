------------------------- MODULE ExecutionLifecycle -------------------------
(***************************************************************************)
(* What the execution store promises for one execution key, whoever writes *)
(* it: a key is requested, approved, executing and then succeeded or       *)
(* failed; only a failed attempt is followed by another one, numbered one  *)
(* higher; the result version, once given, stays; and the approval an      *)
(* attempt was started under is the approval it ends with.                 *)
(*                                                                         *)
(* The edges are the _TRANSITIONS table of automation/execution.py, and    *)
(* the step from failed to requested is next_attempt/reserve_execution of  *)
(* automation/execution_store.py.                                          *)
(***************************************************************************)
EXTENDS Naturals

CONSTANT Keys               \* execution keys

VARIABLE executions         \* executions[k]: the stored ExecutionRequest of k

States == {"none", "requested", "approved", "executing", "succeeded", "failed"}

Request == [state : States, attempt : Nat, version : Nat, approval : Nat]

\* "none" stands for a key that has no file under state/executions.
NoRequest == [state |-> "none", attempt |-> 0, version |-> 0, approval |-> 0]

Init == executions = [k \in Keys |-> NoRequest]

\* The steps of one key, from request r to request s.
FirstAttempt(r, s) ==
  /\ r = NoRequest
  /\ s.version > 0
  /\ s = [state |-> "requested", attempt |-> 1, version |-> s.version, approval |-> 0]

Retry(r, s) ==
  /\ r.state = "failed"
  /\ s = [state |-> "requested", attempt |-> r.attempt + 1, version |-> r.version, approval |-> 0]

Approve(r, s) ==
  /\ r.state = "requested"
  /\ s.approval > 0
  /\ s = [state |-> "approved", attempt |-> r.attempt, version |-> r.version,
          approval |-> s.approval]

Start(r, s) ==
  /\ r.state = "approved"
  /\ s = [r EXCEPT !.state = "executing"]

Finish(r, s) ==
  /\ r.state = "executing"
  /\ \E outcome \in {"succeeded", "failed"} : s = [r EXCEPT !.state = outcome]

Step(r, s) ==
  FirstAttempt(r, s) \/ Retry(r, s) \/ Approve(r, s) \/ Start(r, s) \/ Finish(r, s)

\* Keys are separate files: a step changes one of them.
Next ==
  \E k \in Keys :
    /\ Step(executions[k], executions'[k])
    /\ \A j \in Keys \ {k} : executions'[j] = executions[j]
    /\ DOMAIN executions' = Keys

Spec == Init /\ [][Next]_executions
=============================================================================
