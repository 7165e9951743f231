-------------------------- MODULE ExecutionService --------------------------
(***************************************************************************)
(* The approval-gated execution of one task: automation/execution_service  *)
(* with the stores it writes (execution_store, the decision events of      *)
(* events.jsonl, the artifact directories).                                *)
(*                                                                         *)
(* Every call is a process of its own (a taskctl command or a dashboard    *)
(* button), so calls interleave at every read and write of a file.         *)
(*   - Workers run execute_task, one step per access to shared state.      *)
(*   - A person records decisions (record_decision): the binding is read   *)
(*     first, the event is appended later under the decision lock.         *)
(*   - An operator runs recover_execution: it reads the record, moves the  *)
(*     artifacts, and later overwrites the record.                         *)
(*   - The task is revised, its attachment is edited and a new version of  *)
(*     a recipe is activated at any time.                                  *)
(*   - A process may die between any two of its steps.                     *)
(*                                                                         *)
(* One task: every file these calls touch belongs to a task or to one of   *)
(* its keys, except events.jsonl, whose readers here filter by task.  The  *)
(* log is kept as the sequence of decisions, with the claims carrying the  *)
(* number of decisions that precede them: no reader depends on any other   *)
(* order.  A log that two unserialised appends have spoiled is not a       *)
(* state of this module.                                                   *)
(***************************************************************************)
EXTENDS Naturals, Sequences, FiniteSets

CONSTANTS
  Workers,        \* processes that run execute_task
  Recipes,        \* recipe ids active for the scope of the task
  Inputs,         \* contents the attachment may have (its hash tells them apart)
  RebuildIds,     \* rebuild request ids
  None,           \* no recipe, no input, no rebuild request
  Stamps,         \* actor, reason and second: what tells equal decisions apart
  MaxRevision, MaxDefinition, MaxDecisions, MaxAttempt, MaxCrashes,  \* bounds
  RecoverLive     \* may the operator recover an execution that still runs?

ASSUME ConstantsAssumption ==
  /\ None \notin Recipes \cup Inputs \cup RebuildIds
  /\ {MaxRevision, MaxDefinition, MaxDecisions, MaxAttempt, MaxCrashes} \subseteq Nat
  /\ RecoverLive \in BOOLEAN

VARIABLES
  revision,       \* revision of the stored task (its content digest follows it)
  input,          \* contents of the attachment on disk
  definition,     \* definition[r]: the active immutable version of recipe r
  edited,         \* keys whose attachment was edited between its hash and its use
  decisions,      \* decision events of the task, in log order
  pending,        \* decisions computed by record_decision, not yet appended
  claims,         \* execution_claim events
  history,        \* execution events
  verifications,  \* verification events
  executions,     \* state/executions: the stored request of every key
  registry,       \* state/result_versions: reservations and the next version
  artifacts,      \* artifact directories, in place or in quarantine
  pc, mem,        \* control point and local variables of every worker
  recovery,       \* the request recover_execution has read, if it is under way
  crashes         \* processes that have died so far

env    == <<revision, input, definition, edited>>
logs   == <<claims, history, verifications>>
stores == <<executions, registry, artifacts>>
vars   == <<env, decisions, pending, logs, stores, pc, mem, recovery, crashes>>

(***************************************************************************)
(* Types.                                                                  *)
(***************************************************************************)
Rebuilds == RebuildIds \cup {None}
Keys     == [recipe : Recipes, input : Inputs, rebuild : Rebuilds]

L == INSTANCE ExecutionLifecycle WITH Keys <- Keys, executions <- executions
Request == L!Request

\* details.execution of an approval; without a recipe there is no binding.
Binding   == [recipe : Recipes, input : Inputs, definition : Nat]
NoBinding == [recipe |-> None, input |-> None, definition |-> 0]

\* reject, modify and defer have one effect on an execution: "withhold".
Decision == [action : {"approve", "withhold"}, version : Nat,
             binding : Binding \cup {NoBinding}, stamp : Stamps]

Claim        == [key : Keys, approval : Nat, version : Nat, at : Nat]
Event        == [key : Keys, attempt : Nat, state : {"requested", "executing", "succeeded", "failed"}]
Verification == [key : Keys, attempt : Nat, passed : BOOLEAN]
Reservation  == [key : Keys, version : Nat]
Artifact     == [key : Keys, version : Nat, attempt : Nat, approval : Nat,
                 definition : Nat, input : Inputs, place : {"result", "quarantine"}]

\* Local variables of execute_task.  outcome is what is still to be reported.
Work == [recipe : Recipes \cup {None}, input : Inputs \cup {None}, rebuild : Rebuilds,
         revision : Nat, approval : Nat, definition : Nat, attempt : Nat, version : Nat,
         outcome : {"none", "succeeded", "failed", "rejected"}]
NoWork == [recipe |-> None, input |-> None, rebuild |-> None, revision |-> 0,
           approval |-> 0, definition |-> 0, attempt |-> 0, version |-> 0,
           outcome |-> "none"]

\* Control points before the key is reserved, and from then to the last put; and
\* those between the hash of the attachment and its use.
Checking == {"recipe", "bind", "recheck", "initial", "version", "probe", "reserve"}
Owning   == {"requested", "approved", "executing", "claimed", "failing", "verify", "passed"}
Points   == {"idle", "report"} \cup Checking \cup Owning
Hashed   == Points \ {"idle", "recipe", "bind"}

TypeOK ==
  /\ revision \in Nat
  /\ input \in Inputs
  /\ definition \in [Recipes -> Nat]
  /\ edited \subseteq Keys
  /\ decisions \in Seq(Decision)
  /\ pending \subseteq Decision
  /\ claims \subseteq Claim
  /\ history \subseteq Event
  /\ verifications \subseteq Verification
  /\ executions \in [Keys -> Request]
  /\ registry \in [requests : SUBSET Reservation, next : Nat]
  /\ artifacts \subseteq Artifact
  /\ pc \in [Workers -> Points]
  /\ mem \in [Workers -> Work]
  /\ recovery \subseteq [key : Keys, request : Request]
  /\ crashes \in Nat

Init ==
  /\ revision = 1
  /\ input \in Inputs
  /\ definition = [r \in Recipes |-> 1]
  /\ edited = {}
  /\ decisions = <<>>
  /\ pending = {}
  /\ claims = {} /\ history = {} /\ verifications = {}
  /\ executions = [k \in Keys |-> L!NoRequest]
  /\ registry = [requests |-> {}, next |-> 1]
  /\ artifacts = {}
  /\ pc = [w \in Workers |-> "idle"]
  /\ mem = [w \in Workers |-> NoWork]
  /\ recovery = {}
  /\ crashes = 0

(***************************************************************************)
(* Helpers.                                                                *)
(***************************************************************************)
KeyOf(m)   == [recipe |-> m.recipe, input |-> m.input, rebuild |-> m.rebuild]
Owns(w, k) == pc[w] \in Owning /\ KeyOf(mem[w]) = k

Goto(w, p)    == pc' = [pc EXCEPT ![w] = p]
Leave(w)      == Goto(w, "idle") /\ mem' = [mem EXCEPT ![w] = NoWork]
Put(k, r)     == executions' = [executions EXCEPT ![k] = r]

\* The request as the worker's own state machine holds it.
Held(w, s) == [state |-> s, attempt |-> mem[w].attempt, version |-> mem[w].version,
               approval |-> IF s = "requested" THEN 0 ELSE mem[w].approval]

EventOf(k, n, s) == [key |-> k, attempt |-> n, state |-> s]

\* Decision i is what _approved returns for revision rev on the first n
\* decisions: the last one that counts, and an approval.  An approval of
\* another revision is skipped; any other decision counts whatever its version.
Approved(i, n, rev) ==
  /\ i \in 1..n
  /\ decisions[i].action = "approve" /\ decisions[i].version = rev
  /\ \A j \in (i + 1)..n : decisions[j].action = "approve" /\ decisions[j].version # rev

ApprovedNow(w) == Approved(mem[w].approval, Len(decisions), mem[w].revision)

\* Every field of the binding is compared with what is current.
BindingMatchesButInput(w) ==     \* mutant: the input hash is not compared
  decisions[mem[w].approval].binding \in
    [recipe : {mem[w].recipe}, input : Inputs, definition : {definition[mem[w].recipe]}]
BindingMatches(w) ==
  decisions[mem[w].approval].binding =
    [recipe |-> mem[w].recipe, input |-> input, definition |-> definition[mem[w].recipe]]

\* reserve_result_version: the reservations of the identity of k, whether k may
\* use them, the version k gets and the registry once it has it.
ReservedFor(k) == {e \in registry.requests : e.key.rebuild = k.rebuild}
MayReserve(k)  == \A e \in ReservedFor(k) : e.key = k
NewVersionFixed(k) == 1                  \* mutant: a rebuild has no version of its own
NewVersion(k)  == IF k.rebuild = None THEN 1
                  ELSE IF registry.next < 2 THEN 2 ELSE registry.next
NextAfter(k)   == IF k.rebuild = None THEN IF registry.next < 2 THEN 2 ELSE registry.next
                  ELSE NewVersion(k) + 1
VersionOf(k)   == IF ReservedFor(k) = {} THEN NewVersion(k)
                  ELSE (CHOOSE e \in ReservedFor(k) : TRUE).version
ReserveVersion(k) ==
  registry' = IF ReservedFor(k) # {} THEN registry
              ELSE [requests |-> registry.requests \cup {[key |-> k, version |-> NewVersion(k)]},
                    next |-> NextAfter(k)]

\* The check-and-set of reserve_execution, under the lock of the key.
ReservableAlways(k, n) == n > 0                                         \* mutant: no check
ReservableIfFree(k, n) == executions[k].state \in {"none", "failed"}    \* mutant: any attempt
Reservable(k, n) ==
  \/ executions[k].state = "none" /\ n = 1
  \/ executions[k].state = "failed" /\ n = executions[k].attempt + 1

\* _quarantine of result version v, attempt n: nothing to move, or a free place.
Dir(v, n, place) == {a \in artifacts : a.version = v /\ a.attempt = n /\ a.place = place}
CanQuarantine(v, n) == Dir(v, n, "result") = {} \/ Dir(v, n, "quarantine") = {}
Quarantined(v, n) ==
  (artifacts \ Dir(v, n, "result"))
    \cup {[a EXCEPT !.place = "quarantine"] : a \in Dir(v, n, "result")}

(***************************************************************************)
(* The surroundings: the stored task, its attachment and the recipes.      *)
(***************************************************************************)
\* put_task stores new content of the same task under the next revision.
Revise ==
  /\ revision < MaxRevision
  /\ revision' = revision + 1
  /\ UNCHANGED <<input, definition, edited, decisions, pending, logs, stores, pc, mem,
                 recovery, crashes>>

\* The attachment changes on disk without a new revision, at any moment.
EditInput ==
  /\ input' \in Inputs \ {input}
  /\ edited' = edited \cup {KeyOf(mem[w]) : w \in {v \in Workers : pc[v] \in Hashed}}
  /\ UNCHANGED <<revision, definition, decisions, pending, logs, stores, pc, mem, recovery, crashes>>

\* activate_draft replaces the active pointer; versions only grow.
Activate(r) ==
  /\ definition[r] < MaxDefinition
  /\ definition' = [definition EXCEPT ![r] = @ + 1]
  /\ UNCHANGED <<revision, input, edited, decisions, pending, logs, stores, pc, mem,
                 recovery, crashes>>

(***************************************************************************)
(* record_decision.                                                        *)
(***************************************************************************)
\* The task, the recipe and the input are read and the decision is built.
PrepareDecision(d) ==
  /\ Len(decisions) + Cardinality(pending) < MaxDecisions
  /\ d.version = revision
  /\ d.binding # NoBinding =>
       /\ d.action = "approve"
       /\ d.binding.input = input
       /\ d.binding.definition = definition[d.binding.recipe]
  /\ pending' = pending \cup {d}
  /\ UNCHANGED <<env, decisions, logs, stores, pc, mem, recovery, crashes>>

\* Under the decision lock the event is appended; an event with the same id
\* (the digest of the decision) is already there, and the append is skipped.
AppendDecision(d) ==
  /\ d \in pending
  /\ pending' = pending \ {d}
  /\ decisions' = IF \E i \in DOMAIN decisions : decisions[i] = d
                  THEN decisions ELSE Append(decisions, d)
  /\ UNCHANGED <<env, logs, stores, pc, mem, recovery, crashes>>

(***************************************************************************)
(* execute_task, until the key is reserved: every refusal returns with     *)
(* nothing written but a result version.                                   *)
(***************************************************************************)
\* The task is read and _approved finds an approval for its revision.
Begin(w, r, b) ==
  /\ pc[w] = "idle"
  /\ \E i \in DOMAIN decisions :
       /\ Approved(i, Len(decisions), revision)
       /\ mem' = [mem EXCEPT ![w] = [NoWork EXCEPT !.recipe = r, !.rebuild = b,
                                                   !.revision = revision, !.approval = i]]
  /\ Goto(w, "recipe")
  /\ UNCHANGED <<env, decisions, pending, logs, stores, recovery, crashes>>

\* get_recipe: the definition that will be executed.
ReadRecipe(w) ==
  /\ pc[w] = "recipe"
  /\ mem' = [mem EXCEPT ![w].definition = definition[mem[w].recipe]]
  /\ Goto(w, "bind")
  /\ UNCHANGED <<env, decisions, pending, logs, stores, recovery, crashes>>

\* load_active_metadata, the input hash, and the comparison with the approval.
Bind(w) ==
  /\ pc[w] = "bind"
  /\ BindingMatches(w)
  /\ mem' = [mem EXCEPT ![w].input = input]
  /\ Goto(w, "recheck")
  /\ UNCHANGED <<env, decisions, pending, logs, stores, recovery, crashes>>

\* After the input has been validated the approval must still be the latest.
Recheck(w) ==
  /\ pc[w] = "recheck"
  /\ ApprovedNow(w)
  /\ Goto(w, IF mem[w].rebuild = None THEN "version" ELSE "initial")
  /\ UNCHANGED <<env, decisions, pending, logs, stores, mem, recovery, crashes>>

\* A rebuild needs the initial execution of the same work to have succeeded.
InitialKey(w) == [KeyOf(mem[w]) EXCEPT !.rebuild = None]
InitialSucceeded(w) ==
  executions[InitialKey(w)].state = "succeeded" /\ executions[InitialKey(w)].version = 1

CheckInitial(w) ==
  /\ pc[w] = "initial"
  /\ InitialSucceeded(w)
  /\ MayReserve(InitialKey(w))
  /\ ReserveVersion(InitialKey(w))
  /\ Goto(w, "version")
  /\ UNCHANGED <<env, decisions, pending, logs, executions, artifacts, mem, recovery, crashes>>

TakeVersion(w) ==
  LET k == KeyOf(mem[w]) IN
  /\ pc[w] = "version"
  /\ MayReserve(k)
  /\ ReserveVersion(k)
  /\ mem' = [mem EXCEPT ![w].version = VersionOf(k)]
  /\ Goto(w, "probe")
  /\ UNCHANGED <<env, decisions, pending, logs, executions, artifacts, recovery, crashes>>

\* The stored request and next_attempt: a new key, or one past a failure.
MayRetry(w) ==
  LET r == executions[KeyOf(mem[w])] IN
  \/ r.state = "none"
  \/ r.state = "failed" /\ r.version = mem[w].version

Probe(w) ==
  /\ pc[w] = "probe"
  /\ MayRetry(w)
  /\ executions[KeyOf(mem[w])].attempt < MaxAttempt
  /\ mem' = [mem EXCEPT ![w].attempt = executions[KeyOf(mem[w])].attempt + 1]
  /\ Goto(w, "reserve")
  /\ UNCHANGED <<env, decisions, pending, logs, stores, recovery, crashes>>

\* Any check that fails ends the call (so does an input that is not ready).
Refuse(w) ==
  /\ \/ pc[w] \in {"recipe", "bind"}
     \/ pc[w] = "recheck" /\ ~ApprovedNow(w)
     \/ pc[w] = "initial" /\ ~(InitialSucceeded(w) /\ MayReserve(InitialKey(w)))
     \/ pc[w] = "version" /\ ~MayReserve(KeyOf(mem[w]))
     \/ pc[w] = "probe" /\ (~MayRetry(w) \/ executions[KeyOf(mem[w])].attempt >= MaxAttempt)
     \/ pc[w] = "reserve" /\ ~Reservable(KeyOf(mem[w]), mem[w].attempt)
  /\ Leave(w)
  /\ UNCHANGED <<env, decisions, pending, logs, stores, recovery, crashes>>

(***************************************************************************)
(* execute_task, from the reservation of the key on.                       *)
(***************************************************************************)
Reserve(w) ==
  LET k == KeyOf(mem[w]) IN
  /\ pc[w] = "reserve"
  /\ Reservable(k, mem[w].attempt)
  /\ Put(k, Held(w, "requested"))
  /\ history' = history \cup {EventOf(k, mem[w].attempt, "requested")}
  /\ Goto(w, "requested")
  /\ UNCHANGED <<env, decisions, pending, claims, verifications, registry, artifacts, mem,
                 recovery, crashes>>

PutApproved(w) ==
  /\ pc[w] = "requested"
  /\ Put(KeyOf(mem[w]), Held(w, "approved"))
  /\ Goto(w, "approved")
  /\ UNCHANGED <<env, decisions, pending, logs, registry, artifacts, mem, recovery, crashes>>

PutExecuting(w) ==
  LET k == KeyOf(mem[w]) IN
  /\ pc[w] = "approved"
  /\ Put(k, Held(w, "executing"))
  /\ history' = history \cup {EventOf(k, mem[w].attempt, "executing")}
  /\ Goto(w, "executing")
  /\ UNCHANGED <<env, decisions, pending, claims, verifications, registry, artifacts, mem,
                 recovery, crashes>>

\* Under the decision lock the approval is looked up once more; if it still
\* stands the claim is logged (once per key and approval), and from here on a
\* decision comes too late.
ClaimableOnceApproved(w) == mem[w].approval \in DOMAIN decisions        \* mutant: no second look
Claimable(w) == ApprovedNow(w)

RecordClaim(w) ==
  LET k == KeyOf(mem[w]) IN
  claims' = IF \E c \in claims : c.key = k /\ c.approval = mem[w].approval
            THEN claims
            ELSE claims \cup {[key |-> k, approval |-> mem[w].approval,
                               version |-> mem[w].revision, at |-> Len(decisions)]}

ClaimExecution(w) ==
  /\ pc[w] = "executing"
  /\ Claimable(w)
  /\ RecordClaim(w)
  /\ Goto(w, "claimed")
  /\ UNCHANGED <<env, decisions, pending, history, verifications, stores, mem, recovery, crashes>>

Withdrawn(w) ==
  /\ pc[w] = "executing"
  /\ ~Claimable(w)
  /\ Put(KeyOf(mem[w]), Held(w, "failed"))
  /\ mem' = [mem EXCEPT ![w].outcome = "failed"]
  /\ Goto(w, "report")
  /\ UNCHANGED <<env, decisions, pending, logs, registry, artifacts, recovery, crashes>>

\* dispatch_recipe: the executor reads the attachment again, applies the
\* definition it was handed and creates a file that must not exist yet.  When
\* it fails it may have written part of its output.
DefinitionRunNow(w) == definition[mem[w].recipe]   \* mutant: the recipe is resolved again
DefinitionRun(w) == mem[w].definition

Output(w) == [key |-> KeyOf(mem[w]), version |-> mem[w].version, attempt |-> mem[w].attempt,
              approval |-> mem[w].approval, definition |-> DefinitionRun(w), input |-> input,
              place |-> "result"]

Dispatch(w) ==
  /\ pc[w] = "claimed"
  /\ \/ /\ Dir(mem[w].version, mem[w].attempt, "result") = {}
        /\ artifacts' = artifacts \cup {Output(w)}
        /\ \E p \in {"verify", "failing"} : Goto(w, p)
     \/ /\ UNCHANGED artifacts
        /\ Goto(w, "failing")
  /\ UNCHANGED <<env, decisions, pending, logs, executions, registry, mem, recovery, crashes>>

\* verify_recipe_output: without its artifact the result is unverifiable.
Verify(w) ==
  /\ pc[w] = "verify"
  /\ \/ /\ Dir(mem[w].version, mem[w].attempt, "result") # {}
        /\ Goto(w, "passed")
        /\ UNCHANGED mem
     \/ /\ Goto(w, "failing")
        /\ mem' = [mem EXCEPT ![w].outcome = "rejected"]
  /\ UNCHANGED <<env, decisions, pending, logs, stores, recovery, crashes>>

PutFailed(w) ==
  /\ pc[w] = "failing"
  /\ CanQuarantine(mem[w].version, mem[w].attempt)
  /\ artifacts' = Quarantined(mem[w].version, mem[w].attempt)
  /\ Put(KeyOf(mem[w]), Held(w, "failed"))
  /\ mem' = [mem EXCEPT ![w].outcome = IF @ = "rejected" THEN @ ELSE "failed"]
  /\ Goto(w, "report")
  /\ UNCHANGED <<env, decisions, pending, logs, registry, recovery, crashes>>

\* The quarantine destination is taken: the call ends before it records failure.
QuarantineBlocked(w) ==
  /\ pc[w] = "failing"
  /\ ~CanQuarantine(mem[w].version, mem[w].attempt)
  /\ Leave(w)
  /\ UNCHANGED <<env, decisions, pending, logs, stores, recovery, crashes>>

PutSucceeded(w) ==
  /\ pc[w] = "passed"
  /\ Put(KeyOf(mem[w]), Held(w, "succeeded"))
  /\ mem' = [mem EXCEPT ![w].outcome = "succeeded"]
  /\ Goto(w, "report")
  /\ UNCHANGED <<env, decisions, pending, logs, registry, artifacts, recovery, crashes>>

\* The execution event and, when the result was verified, the verification event.
Report(w) ==
  LET k == KeyOf(mem[w])
      s == IF mem[w].outcome = "succeeded" THEN "succeeded" ELSE "failed" IN
  /\ pc[w] = "report"
  /\ history' = history \cup {EventOf(k, mem[w].attempt, s)}
  /\ verifications' = IF mem[w].outcome = "failed" THEN verifications
                      ELSE verifications \cup {[key |-> k, attempt |-> mem[w].attempt,
                                                passed |-> s = "succeeded"]}
  /\ Leave(w)
  /\ UNCHANGED <<env, decisions, pending, claims, stores, recovery, crashes>>

\* The process dies; what it has written stays, its locks are released.
Crash(w) ==
  /\ pc[w] # "idle"
  /\ crashes < MaxCrashes
  /\ crashes' = crashes + 1
  /\ Leave(w)
  /\ UNCHANGED <<env, decisions, pending, logs, stores, recovery>>

(***************************************************************************)
(* recover_execution: "mark an interrupted executing request as failed".   *)
(* The code cannot tell an interrupted execution from one that still runs; *)
(* RecoverLive = FALSE is an operator who recovers only the former.        *)
(***************************************************************************)
RecoverableDone(k) == executions[k].state \in {"executing", "succeeded"}    \* mutant
RecoverableUnstarted(k) == executions[k].state \in {"requested", "approved"} \* mutant
Recoverable(k) == executions[k].state = "executing"

BeginRecovery(k) ==
  LET r == executions[k] IN
  /\ recovery = {}
  /\ RecoverLive \/ \A w \in Workers : ~Owns(w, k)
  /\ Recoverable(k)
  /\ CanQuarantine(r.version, r.attempt)
  /\ artifacts' = Quarantined(r.version, r.attempt)
  /\ recovery' = {[key |-> k, request |-> r]}
  /\ UNCHANGED <<env, decisions, pending, logs, executions, registry, pc, mem, crashes>>

FinishRecovery(c) ==
  /\ c \in recovery
  /\ Put(c.key, [c.request EXCEPT !.state = "failed"])
  /\ history' = history \cup {EventOf(c.key, c.request.attempt, "failed")}
  /\ recovery' = {}
  /\ UNCHANGED <<env, decisions, pending, claims, verifications, registry, artifacts, pc, mem,
                 crashes>>

CrashRecovery ==
  /\ recovery # {}
  /\ crashes < MaxCrashes
  /\ crashes' = crashes + 1
  /\ recovery' = {}
  /\ UNCHANGED <<env, decisions, pending, logs, stores, pc, mem>>

-----------------------------------------------------------------------------
Advance(w) ==
  \/ ReadRecipe(w) \/ Bind(w) \/ Recheck(w) \/ CheckInitial(w) \/ TakeVersion(w)
  \/ Probe(w) \/ Refuse(w) \/ Reserve(w) \/ PutApproved(w) \/ PutExecuting(w)
  \/ ClaimExecution(w) \/ Withdrawn(w) \/ Dispatch(w) \/ Verify(w) \/ PutFailed(w)
  \/ QuarantineBlocked(w) \/ PutSucceeded(w) \/ Report(w)

Bindings == [recipe : Recipes, input : {input}, definition : {definition[r] : r \in Recipes}]
Decide ==
  \/ \E s \in Stamps, a \in {"approve", "withhold"}, b \in Bindings \cup {NoBinding} :
       PrepareDecision([action |-> a, version |-> revision, binding |-> b, stamp |-> s])
  \/ \E d \in pending : AppendDecision(d)

Recover ==
  \/ \E k \in Keys : BeginRecovery(k)
  \/ \E c \in recovery : FinishRecovery(c)

Next ==
  \/ Revise \/ EditInput \/ \E r \in Recipes : Activate(r)
  \/ Decide
  \/ \E w \in Workers, r \in Recipes, b \in Rebuilds : Begin(w, r, b)
  \/ \E w \in Workers : Advance(w)
  \/ Recover
  \/ \E w \in Workers : Crash(w)
  \/ CrashRecovery

Spec == Init /\ [][Next]_vars

\* A call that has begun goes on until it ends or dies, and so does a recovery.
\* Nobody has to decide, edit or start anything, and no operator has to look after
\* the executions of calls that died.
Fairness ==
  /\ \A w \in Workers : WF_vars(Advance(w))
  /\ WF_vars(\E c \in recovery : FinishRecovery(c))

FairSpec == Spec /\ Fairness

-----------------------------------------------------------------------------
(***************************************************************************)
(* Safety.                                                                 *)
(***************************************************************************)
\* Every claim names the approval that was the last decision in the log when
\* the claim was appended, and for the revision the executor had read: a
\* reject, modify or defer recorded before the claim is never overtaken
\* (execution_service.py:372-384, test_revoke_between_final_validation...).
ClaimHonoursLatestDecision ==
  \A c \in claims : Approved(c.approval, c.at, c.version)

\* The definition an executor ran is the one its approval was bound to, although
\* the recipe, its metadata and the decisions are read at different moments
\* and a new version may be activated between any two of them.
ApprovedDefinitionRuns ==
  \A a \in artifacts : decisions[a.approval].binding.recipe = a.key.recipe
                       /\ decisions[a.approval].binding.definition = a.definition

\* A result is filed under the input that was approved, although the attachment is
\* read at three moments; and its executor has read that input, unless the attachment
\* was edited between its hash and its use, which nothing looks at
\* (execution_service.py:297-318 and 387).
ApprovedInputRuns ==
  \A a \in artifacts :
    /\ decisions[a.approval].binding.input = a.key.input
    /\ a.input = a.key.input \/ a.key \in edited

\* Two calls are never inside the same execution key at the same time
\* (next_attempt: an in-flight execution is not something a caller may re-run).
InFlightNotRerun ==
  \A v, w \in Workers : v # w /\ pc[v] \in Owning /\ pc[w] \in Owning
                          => KeyOf(mem[v]) # KeyOf(mem[w])

\* What reserve_result_version writes it can read back: the checks that report
\* a corrupt record (execution_store.py:98-150) never fire, so distinct
\* identities have distinct versions and a version is never given twice.
RegistryReadable ==
  /\ registry.next >= 1
  /\ \A e \in registry.requests :
       /\ e.version < registry.next
       /\ IF e.key.rebuild = None THEN e.version = 1 ELSE e.version >= 2
  /\ \A e, f \in registry.requests :
       e # f => e.version # f.version /\ e.key.rebuild # f.key.rebuild

\* A result directory belongs to one key: two executions never share a version,
\* so neither can overwrite or quarantine the files of the other.
DirectoryHasOneKey ==
  \A a, b \in artifacts : a.version = b.version => a.key = b.key

\* A key stored as succeeded points at files that are in place, made by that
\* attempt under that approval, and not in quarantine ("a failed attempt's output
\* must not be mistaken for the run that actually succeeded").
SucceededInPlace ==
  \A k \in Keys : executions[k].state = "succeeded" =>
    \E a \in artifacts :
      /\ a.key = k /\ a.place = "result"
      /\ a.version = executions[k].version /\ a.attempt = executions[k].attempt
      /\ a.approval = executions[k].approval

\* A failing call always finds room in the quarantine, so it gets to record
\* its failure.
QuarantineHasRoom ==
  \A w \in Workers : pc[w] = "failing" => CanQuarantine(mem[w].version, mem[w].attempt)

\* A verification event that says passed belongs to an attempt that is stored,
\* or superseded, and never to one recorded as failed.
PassedAttemptDidNotFail ==
  \A v \in verifications : v.passed =>
    /\ EventOf(v.key, v.attempt, "failed") \notin history
    /\ executions[v.key].attempt = v.attempt /\ executions[v.key].state = "succeeded"

\* A key that has been requested or approved is being carried on by some call
\* ("a failure used to block that input forever", test_execute_command.py:480):
\* next_attempt refuses it and recover_execution takes only executing keys.
NoKeyIsStranded ==
  \A k \in Keys : executions[k].state \in {"requested", "approved"} =>
    \E w \in Workers : Owns(w, k)

(***************************************************************************)
(* Action properties, refinement and liveness.                             *)
(***************************************************************************)
\* Whatever the interleaving, each key follows the store's life cycle.
Lifecycle == L!Spec

\* A process has died and left k executing: nobody carries it on, and taskctl recover
\* would settle it (its files can be moved), if somebody runs it.
LeftForOperator(k) == crashes > 0 /\ ENABLED BeginRecovery(k)

\* An execution that has started is settled by the call that runs it or by the
\* recovery that has begun.  Where that process dies nothing in the program settles
\* it; it is then in a state that recover_execution accepts.
ExecutingSettles ==
  \A k \in Keys :
    (executions[k].state = "executing")
      ~> (executions[k].state \in {"succeeded", "failed"} \/ LeftForOperator(k))
=============================================================================
