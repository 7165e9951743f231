----------------------- MODULE ExecutionServiceProofs -----------------------
(***************************************************************************)
(* Proofs about ExecutionService, in three parts: what needs nothing from  *)
(* the operator who recovers executions (types, the claims, the definition *)
(* and the input that run), the execution store, and the files.            *)
(***************************************************************************)
EXTENDS ExecutionService, TLAPS

\* A call knows its recipe from the start and its input once it is bound.
WorkKnown ==
  \A w \in Workers :
    /\ pc[w] # "idle" => mem[w].recipe \in Recipes
    /\ pc[w] \notin {"idle", "recipe", "bind"} => mem[w].input \in Inputs

TypeInv == TypeOK /\ WorkKnown

LEMMA KeyOfType ==
  ASSUME TypeInv, NEW w \in Workers, pc[w] \notin {"idle", "recipe", "bind"}
  PROVE  KeyOf(mem[w]) \in Keys
BY DEF TypeInv, TypeOK, WorkKnown, KeyOf, Keys, Work

LEMMA HeldType ==
  ASSUME TypeInv, NEW w \in Workers, NEW s \in L!States
  PROVE  Held(w, s) \in Request
BY DEF TypeInv, TypeOK, Held, Work, Request, L!Request

LEMMA PutType ==
  ASSUME executions \in [Keys -> Request], NEW k \in Keys, NEW r \in Request, Put(k, r)
  PROVE  executions' \in [Keys -> Request]
BY DEF Put

LEMMA VersionType ==
  ASSUME TypeInv, NEW k \in Keys
  PROVE  /\ NewVersion(k) \in Nat
         /\ NextAfter(k) \in Nat
         /\ VersionOf(k) \in Nat
<1>1. NewVersion(k) \in Nat /\ NextAfter(k) \in Nat
  BY DEF TypeInv, TypeOK, NewVersion, NextAfter
<1>2. CASE ReservedFor(k) = {}
  BY <1>1, <1>2 DEF VersionOf
<1>3. CASE ReservedFor(k) # {}
  <2>1. (CHOOSE e \in ReservedFor(k) : TRUE) \in ReservedFor(k)
    BY <1>3
  <2>2. ReservedFor(k) \subseteq Reservation
    BY DEF TypeInv, TypeOK, ReservedFor
  <2> QED
    BY <1>1, <1>3, <2>1, <2>2 DEF VersionOf, Reservation
<1> QED
  BY <1>2, <1>3

LEMMA ReserveVersionType ==
  ASSUME TypeInv, NEW k \in Keys, ReserveVersion(k)
  PROVE  registry' \in [requests : SUBSET Reservation, next : Nat]
BY VersionType DEF TypeInv, TypeOK, ReserveVersion, Reservation

LEMMA QuarantinedType ==
  ASSUME TypeInv, NEW v, NEW n
  PROVE  Quarantined(v, n) \subseteq Artifact
<1> SUFFICES ASSUME NEW b \in Quarantined(v, n)
             PROVE  b \in Artifact
  OBVIOUS
<1>1. artifacts \subseteq Artifact
  BY DEF TypeInv, TypeOK
<1>2. CASE b \in artifacts
  BY <1>1, <1>2
<1>3. CASE b \notin artifacts
  <2>1. PICK a \in artifacts : b = [a EXCEPT !.place = "quarantine"]
    BY <1>3 DEF Quarantined, Dir
  <2> QED
    BY <1>1, <2>1 DEF Artifact
<1> QED
  BY <1>2, <1>3

LEMMA OutcomeUpdate ==
  ASSUME TypeInv, NEW w \in Workers, NEW o \in {"none", "succeeded", "failed", "rejected"},
         mem' = mem \/ mem' = [mem EXCEPT ![w].outcome = o]
  PROVE  /\ mem' \in [Workers -> Work]
         /\ \A v \in Workers : mem'[v].recipe = mem[v].recipe /\ mem'[v].input = mem[v].input
<1>1. mem[w] \in Work /\ mem \in [Workers -> Work]
  BY DEF TypeInv, TypeOK
<1>2. [mem[w] EXCEPT !.outcome = o] \in Work
  BY <1>1 DEF Work
<1> QED
  BY <1>1, <1>2 DEF Work

LEMMA InitTypes == Init => TypeInv
BY ConstantsAssumption
   DEF Init, TypeInv, TypeOK, WorkKnown, Points, Checking, Work, NoWork, Rebuilds,
       Request, L!Request, L!NoRequest, L!States, Reservation

\* One step per action of Next; the actions of a worker are split below.
LEMMA AdvanceTypes ==
  ASSUME TypeInv, NEW w \in Workers, Advance(w)
  PROVE  TypeInv'
<1> USE DEF Points, Checking, Owning
<1>1. CASE ReadRecipe(w)
  <2>1. mem' \in [Workers -> Work]
    <3>1. mem[w] \in Work /\ definition[mem[w].recipe] \in Nat
      BY <1>1 DEF TypeInv, TypeOK, WorkKnown, ReadRecipe
    <3>2. [mem[w] EXCEPT !.definition = definition[mem[w].recipe]] \in Work
      BY <3>1 DEF Work
    <3> QED
      BY <1>1, <3>2 DEF TypeInv, TypeOK, ReadRecipe
  <2>2. pc' \in [Workers -> Points]
    BY <1>1 DEF TypeInv, TypeOK, ReadRecipe, Goto
  <2>3. \A v \in Workers : mem'[v].recipe = mem[v].recipe /\ mem'[v].input = mem[v].input
    BY <1>1 DEF TypeInv, TypeOK, ReadRecipe, Work
  <2>4. WorkKnown'
    BY <1>1, <2>3 DEF TypeInv, TypeOK, WorkKnown, ReadRecipe, Goto
  <2> QED
    BY <1>1, <2>1, <2>2, <2>4 DEF TypeInv, TypeOK, ReadRecipe, env, logs, stores
<1>2. CASE Bind(w)
  <2>1. mem' \in [Workers -> Work]
    <3>1. mem[w] \in Work /\ input \in Inputs
      BY DEF TypeInv, TypeOK
    <3>2. [mem[w] EXCEPT !.input = input] \in Work
      BY <3>1 DEF Work
    <3> QED
      BY <1>2, <3>2 DEF TypeInv, TypeOK, Bind
  <2> QED
    BY <1>2, <2>1 DEF TypeInv, TypeOK, WorkKnown, Bind, Goto, env, logs, stores
<1>3. CASE Recheck(w)
  BY <1>3 DEF TypeInv, TypeOK, WorkKnown, Recheck, Goto, Work, env, logs, stores
<1>4. CASE CheckInitial(w)
  <2>1. InitialKey(w) \in Keys
    BY <1>4, KeyOfType DEF CheckInitial, InitialKey, Keys, Rebuilds
  <2>2. registry' \in [requests : SUBSET Reservation, next : Nat]
    BY <1>4, <2>1, ReserveVersionType DEF CheckInitial
  <2> QED
    BY <1>4, <2>2 DEF TypeInv, TypeOK, WorkKnown, CheckInitial, Goto, env, logs, stores
<1>5. CASE TakeVersion(w)
  <2>1. KeyOf(mem[w]) \in Keys
    BY <1>5, KeyOfType DEF TakeVersion
  <2>2. registry' \in [requests : SUBSET Reservation, next : Nat]
    BY <1>5, <2>1, ReserveVersionType DEF TakeVersion
  <2>3. mem[w] \in Work /\ VersionOf(KeyOf(mem[w])) \in Nat
    BY <2>1, VersionType DEF TypeInv, TypeOK
  <2>4. [mem[w] EXCEPT !.version = VersionOf(KeyOf(mem[w]))] \in Work
    BY <2>3 DEF Work
  <2>5. mem' \in [Workers -> Work]
    BY <1>5, <2>4 DEF TypeInv, TypeOK, TakeVersion
  <2>6. \A v \in Workers : mem'[v].recipe = mem[v].recipe /\ mem'[v].input = mem[v].input
    BY <1>5 DEF TypeInv, TypeOK, TakeVersion, Work
  <2> QED
    BY <1>5, <2>2, <2>5, <2>6 DEF TypeInv, TypeOK, WorkKnown, TakeVersion, Goto, env, logs, stores
<1>6. CASE Probe(w)
  <2>1. KeyOf(mem[w]) \in Keys
    BY <1>6, KeyOfType DEF Probe
  <2>2. mem[w] \in Work /\ executions[KeyOf(mem[w])].attempt + 1 \in Nat
    BY <2>1 DEF TypeInv, TypeOK, Request, L!Request
  <2>3. [mem[w] EXCEPT !.attempt = executions[KeyOf(mem[w])].attempt + 1] \in Work
    BY <2>2 DEF Work
  <2>4. mem' \in [Workers -> Work]
    BY <1>6, <2>3 DEF TypeInv, TypeOK, Probe
  <2>5. \A v \in Workers : mem'[v].recipe = mem[v].recipe /\ mem'[v].input = mem[v].input
    BY <1>6 DEF TypeInv, TypeOK, Probe, Work
  <2> QED
    BY <1>6, <2>4, <2>5 DEF TypeInv, TypeOK, WorkKnown, Probe, Goto, env, logs, stores
<1>7. CASE Refuse(w)
  BY <1>7 DEF TypeInv, TypeOK, WorkKnown, Refuse, Leave, NoWork, Rebuilds, Goto, Work, env, logs, stores
<1>8. CASE Reserve(w)
  <2>1. KeyOf(mem[w]) \in Keys /\ Held(w, "requested") \in Request /\ mem[w].attempt \in Nat
    BY <1>8, KeyOfType, HeldType DEF Reserve, L!States, TypeInv, TypeOK, Work
  <2>2. executions' \in [Keys -> Request]
    BY <1>8, <2>1 DEF TypeInv, TypeOK, Reserve, Put
  <2>3. history' \subseteq Event
    BY <1>8, <2>1 DEF TypeInv, TypeOK, Reserve, EventOf, Event
  <2> QED
    BY <1>8, <2>2, <2>3 DEF TypeInv, TypeOK, WorkKnown, Reserve, Goto, env, logs, stores
<1>9. CASE PutApproved(w)
  <2>1. KeyOf(mem[w]) \in Keys /\ Held(w, "approved") \in Request
    BY <1>9, KeyOfType, HeldType DEF PutApproved, L!States
  <2>2. executions' \in [Keys -> Request]
    BY <1>9, <2>1 DEF TypeInv, TypeOK, PutApproved, Put
  <2> QED
    BY <1>9, <2>2 DEF TypeInv, TypeOK, WorkKnown, PutApproved, Goto, env, logs, stores
<1>10. CASE PutExecuting(w)
  <2>1. KeyOf(mem[w]) \in Keys /\ Held(w, "executing") \in Request /\ mem[w].attempt \in Nat
    BY <1>10, KeyOfType, HeldType DEF PutExecuting, L!States, TypeInv, TypeOK, Work
  <2>2. executions' \in [Keys -> Request]
    BY <1>10, <2>1 DEF TypeInv, TypeOK, PutExecuting, Put
  <2>3. history' \subseteq Event
    BY <1>10, <2>1 DEF TypeInv, TypeOK, PutExecuting, EventOf, Event
  <2> QED
    BY <1>10, <2>2, <2>3 DEF TypeInv, TypeOK, WorkKnown, PutExecuting, Goto, env, logs, stores
<1>11. CASE ClaimExecution(w)
  <2>1. KeyOf(mem[w]) \in Keys
    BY <1>11, KeyOfType DEF ClaimExecution
  <2>2. mem[w].approval \in Nat /\ mem[w].revision \in Nat /\ Len(decisions) \in Nat
    BY DEF TypeInv, TypeOK, Work
  <2>3. claims' \subseteq Claim
    BY <1>11, <2>1, <2>2 DEF TypeInv, TypeOK, ClaimExecution, RecordClaim, Claim
  <2> QED
    BY <1>11, <2>3 DEF TypeInv, TypeOK, WorkKnown, ClaimExecution, Goto, env, stores
<1>12. CASE Withdrawn(w)
  <2>1. KeyOf(mem[w]) \in Keys /\ Held(w, "failed") \in Request
    BY <1>12, KeyOfType, HeldType DEF Withdrawn, L!States
  <2>2. executions' \in [Keys -> Request]
    BY <1>12, <2>1 DEF TypeInv, TypeOK, Withdrawn, Put
  <2>3. mem' \in [Workers -> Work]
        /\ \A v \in Workers : mem'[v].recipe = mem[v].recipe /\ mem'[v].input = mem[v].input
    BY <1>12, OutcomeUpdate DEF TypeInv, Withdrawn
  <2> QED
    BY <1>12, <2>2, <2>3 DEF TypeInv, TypeOK, WorkKnown, Withdrawn, Goto, env, logs, stores
<1>13. CASE Dispatch(w)
  <2>1. Output(w) \in Artifact
    BY <1>13, KeyOfType
       DEF Dispatch, TypeInv, TypeOK, Work, Output, DefinitionRun, Artifact
  <2> QED
    BY <1>13, <2>1 DEF TypeInv, TypeOK, WorkKnown, Dispatch, Goto, env, logs, stores
<1>14. CASE Verify(w)
  <2>1. mem' \in [Workers -> Work]
        /\ \A v \in Workers : mem'[v].recipe = mem[v].recipe /\ mem'[v].input = mem[v].input
    BY <1>14, OutcomeUpdate DEF TypeInv, TypeOK, Verify
  <2> QED
    BY <1>14, <2>1 DEF TypeInv, TypeOK, WorkKnown, Verify, Goto, env, logs, stores
<1>15. CASE PutFailed(w)
  <2>1. KeyOf(mem[w]) \in Keys /\ Held(w, "failed") \in Request
    BY <1>15, KeyOfType, HeldType DEF PutFailed, L!States
  <2>2. executions' \in [Keys -> Request]
    BY <1>15, <2>1 DEF TypeInv, TypeOK, PutFailed, Put
  <2>3. mem' = [mem EXCEPT ![w].outcome = IF mem[w].outcome = "rejected" THEN "rejected" ELSE "failed"]
    BY <1>15 DEF PutFailed, TypeInv, TypeOK, Work
  <2>4. mem' \in [Workers -> Work]
        /\ \A v \in Workers : mem'[v].recipe = mem[v].recipe /\ mem'[v].input = mem[v].input
    BY <2>3, OutcomeUpdate DEF TypeInv
  <2>5. artifacts' \subseteq Artifact
    BY <1>15, QuarantinedType DEF PutFailed
  <2> QED
    BY <1>15, <2>2, <2>4, <2>5 DEF TypeInv, TypeOK, WorkKnown, PutFailed, Goto, env, logs, stores
<1>16. CASE QuarantineBlocked(w)
  BY <1>16 DEF TypeInv, TypeOK, WorkKnown, QuarantineBlocked, Leave, NoWork, Rebuilds, Goto, Work, env, logs, stores
<1>17. CASE PutSucceeded(w)
  <2>1. KeyOf(mem[w]) \in Keys /\ Held(w, "succeeded") \in Request
    BY <1>17, KeyOfType, HeldType DEF PutSucceeded, L!States
  <2>2. executions' \in [Keys -> Request]
    BY <1>17, <2>1 DEF TypeInv, TypeOK, PutSucceeded, Put
  <2>3. mem' \in [Workers -> Work]
        /\ \A v \in Workers : mem'[v].recipe = mem[v].recipe /\ mem'[v].input = mem[v].input
    BY <1>17, OutcomeUpdate DEF TypeInv, PutSucceeded
  <2> QED
    BY <1>17, <2>2, <2>3 DEF TypeInv, TypeOK, WorkKnown, PutSucceeded, Goto, env, logs, stores
<1>18. CASE Report(w)
  <2>1. KeyOf(mem[w]) \in Keys /\ mem[w].attempt \in Nat
    BY <1>18, KeyOfType DEF Report, TypeInv, TypeOK, Work
  <2>2. history' \subseteq Event
    BY <1>18, <2>1 DEF TypeInv, TypeOK, Report, EventOf, Event
  <2>3. verifications' \subseteq Verification
    <3>1. \A passed \in BOOLEAN :
            [key |-> KeyOf(mem[w]), attempt |-> mem[w].attempt, passed |-> passed] \in Verification
      BY <2>1 DEF Verification
    <3>2. PICK passed \in BOOLEAN : verifications' \subseteq verifications \cup
            {[key |-> KeyOf(mem[w]), attempt |-> mem[w].attempt, passed |-> passed]}
      BY <1>18 DEF Report
    <3> QED
      BY <3>1, <3>2 DEF TypeInv, TypeOK
  <2> QED
    BY <1>18, <2>2, <2>3 DEF TypeInv, TypeOK, WorkKnown, Report, Leave, NoWork, Rebuilds, Goto, Work, env, stores
<1> QED
  BY <1>1, <1>2, <1>3, <1>4, <1>5, <1>6, <1>7, <1>8, <1>9, <1>10, <1>11, <1>12, <1>13, <1>14,
     <1>15, <1>16, <1>17, <1>18 DEF Advance

LEMMA DecideTypes ==
  ASSUME TypeInv, Decide
  PROVE  TypeInv'
<1>1. CASE \E s \in Stamps, a \in {"approve", "withhold"}, b \in Bindings \cup {NoBinding} :
             PrepareDecision([action |-> a, version |-> revision, binding |-> b, stamp |-> s])
  <2>1. PICK s \in Stamps, a \in {"approve", "withhold"}, b \in Bindings \cup {NoBinding} :
               PrepareDecision([action |-> a, version |-> revision, binding |-> b, stamp |-> s])
    BY <1>1
  <2>2. b \in Binding \cup {NoBinding}
    BY DEF Bindings, Binding, TypeInv, TypeOK
  <2>3. [action |-> a, version |-> revision, binding |-> b, stamp |-> s] \in Decision
    BY <2>2 DEF Decision, TypeInv, TypeOK
  <2> QED
    BY <2>1, <2>3 DEF TypeInv, TypeOK, WorkKnown, PrepareDecision, env, logs, stores
<1>2. CASE \E d \in pending : AppendDecision(d)
  BY <1>2 DEF TypeInv, TypeOK, WorkKnown, AppendDecision, env, logs, stores
<1> QED
  BY <1>1, <1>2 DEF Decide

LEMMA RecoverTypes ==
  ASSUME TypeInv, Recover
  PROVE  TypeInv'
<1>1. ASSUME NEW k \in Keys, BeginRecovery(k)
      PROVE  TypeInv'
  <2>1. artifacts' \subseteq Artifact
    BY <1>1, QuarantinedType DEF BeginRecovery
  <2>2. recovery' \subseteq [key : Keys, request : Request]
    BY <1>1 DEF BeginRecovery, TypeInv, TypeOK
  <2> QED
    BY <1>1, <2>1, <2>2 DEF TypeInv, TypeOK, WorkKnown, BeginRecovery, env, logs
<1>2. ASSUME NEW c \in recovery, FinishRecovery(c)
      PROVE  TypeInv'
  <2>1. c.key \in Keys /\ c.request \in Request
    BY DEF TypeInv, TypeOK
  <2>2. [c.request EXCEPT !.state = "failed"] \in Request /\ c.request.attempt \in Nat
    BY <2>1 DEF Request, L!Request, L!States
  <2>3. executions' \in [Keys -> Request]
    BY <1>2, <2>1, <2>2 DEF TypeInv, TypeOK, FinishRecovery, Put
  <2>4. history' \subseteq Event
    BY <1>2, <2>1, <2>2 DEF TypeInv, TypeOK, FinishRecovery, EventOf, Event
  <2> QED
    BY <1>2, <2>3, <2>4 DEF TypeInv, TypeOK, WorkKnown, FinishRecovery, env
<1> QED
  BY <1>1, <1>2 DEF Recover

LEMMA NextTypes ==
  ASSUME TypeInv, [Next]_vars
  PROVE  TypeInv'
<1>1. CASE Revise
  BY <1>1 DEF TypeInv, TypeOK, WorkKnown, Revise, logs, stores
<1>2. CASE EditInput
  <2>1. edited' \subseteq Keys
    <3>1. \A w \in Workers : pc[w] \in Hashed => KeyOf(mem[w]) \in Keys
      BY KeyOfType DEF Hashed
    <3> QED
      BY <1>2, <3>1 DEF EditInput, TypeInv, TypeOK
  <2> QED
    BY <1>2, <2>1 DEF TypeInv, TypeOK, WorkKnown, EditInput, logs, stores
<1>3. ASSUME NEW r \in Recipes, Activate(r)
      PROVE  TypeInv'
  BY <1>3 DEF TypeInv, TypeOK, WorkKnown, Activate, logs, stores
<1>4. CASE Decide
  BY <1>4, DecideTypes
<1>5. ASSUME NEW w \in Workers, NEW r \in Recipes, NEW b \in Rebuilds, Begin(w, r, b)
      PROVE  TypeInv'
  <2>1. PICK i \in DOMAIN decisions :
          mem' = [mem EXCEPT ![w] = [NoWork EXCEPT !.recipe = r, !.rebuild = b,
                                                   !.revision = revision, !.approval = i]]
    BY <1>5 DEF Begin
  <2>2. [NoWork EXCEPT !.recipe = r, !.rebuild = b, !.revision = revision, !.approval = i] \in Work
    <3>1. r \in Recipes \cup {None} /\ revision \in Nat /\ i \in Nat
      BY DEF TypeInv, TypeOK
    <3> QED
      BY <3>1 DEF NoWork, Work
  <2>3. mem' \in [Workers -> Work] /\ mem'[w].recipe = r
    BY <2>1, <2>2 DEF TypeInv, TypeOK, NoWork
  <2> QED
    BY <1>5, <2>1, <2>3
       DEF TypeInv, TypeOK, WorkKnown, Begin, Goto, Points, Checking, env, logs, stores
<1>6. ASSUME NEW w \in Workers, Advance(w)
      PROVE  TypeInv'
  BY <1>6, AdvanceTypes
<1>7. CASE Recover
  BY <1>7, RecoverTypes
<1>8. ASSUME NEW w \in Workers, Crash(w)
      PROVE  TypeInv'
  <2>1. NoWork \in Work
    BY DEF NoWork, Work, Rebuilds
  <2>2. crashes' \in Nat /\ pc' \in [Workers -> Points] /\ mem' \in [Workers -> Work]
    BY <1>8, <2>1 DEF TypeInv, TypeOK, Crash, Leave, Goto, Points
  <2> QED
    BY <1>8, <2>2 DEF TypeInv, TypeOK, WorkKnown, Crash, Leave, Goto, env, logs, stores
<1>9. CASE CrashRecovery
  BY <1>9 DEF TypeInv, TypeOK, WorkKnown, CrashRecovery, env, logs, stores
<1>10. CASE UNCHANGED vars
  BY <1>10 DEF TypeInv, TypeOK, WorkKnown, vars, env, logs, stores
<1> QED
  BY <1>1, <1>2, <1>3, <1>4, <1>5, <1>6, <1>7, <1>8, <1>9, <1>10 DEF Next

\* Type correctness: whatever the interleaving, every file and every local
\* variable holds a value the code can read back.
THEOREM TypeCorrect == Spec => []TypeOK
<1>1. Init => TypeInv
  BY InitTypes
<1>2. TypeInv /\ [Next]_vars => TypeInv'
  BY NextTypes
<1>3. TypeInv => TypeOK
  BY DEF TypeInv
<1> QED
  BY <1>1, <1>2, <1>3, PTL DEF Spec

(***************************************************************************)
(* The log of decisions only grows, and only two actions matter to the     *)
(* claims: the one that appends a decision and the one that logs a claim.  *)
(***************************************************************************)
LEMMA ClaimWriters ==
  ASSUME Next
  PROVE  \/ UNCHANGED <<decisions, claims>>
         \/ UNCHANGED claims /\ \E d \in pending : AppendDecision(d)
         \/ UNCHANGED decisions /\ \E w \in Workers : ClaimExecution(w)
<1>1. CASE Revise \/ EditInput \/ (\E r \in Recipes : Activate(r)) \/ CrashRecovery
  BY <1>1 DEF Revise, EditInput, Activate, CrashRecovery, logs
<1>2. CASE Decide
  BY <1>2 DEF Decide, PrepareDecision, AppendDecision, logs
<1>3. CASE \E w \in Workers, r \in Recipes, b \in Rebuilds : Begin(w, r, b)
  BY <1>3 DEF Begin, logs
<1>4. CASE \E w \in Workers : Advance(w)
  BY <1>4 DEF Advance, ReadRecipe, Bind, Recheck, CheckInitial, TakeVersion, Probe, Refuse,
              Reserve, PutApproved, PutExecuting, ClaimExecution, Withdrawn, Dispatch, Verify,
              PutFailed, QuarantineBlocked, PutSucceeded, Report, logs
<1>5. CASE Recover
  BY <1>5 DEF Recover, BeginRecovery, FinishRecovery, logs
<1>6. CASE \E w \in Workers : Crash(w)
  BY <1>6 DEF Crash, logs
<1> QED
  BY <1>1, <1>2, <1>3, <1>4, <1>5, <1>6 DEF Next

LEMMA DecisionsGrow ==
  ASSUME TypeInv, [Next]_vars
  PROVE  /\ Len(decisions) \in Nat /\ Len(decisions') \in Nat
         /\ Len(decisions) <= Len(decisions')
         /\ \A i \in 1..Len(decisions) : decisions'[i] = decisions[i]
<1>1. decisions \in Seq(Decision) /\ decisions' \in Seq(Decision)
  BY NextTypes DEF TypeInv, TypeOK
<1>2. CASE UNCHANGED decisions
  BY <1>1, <1>2
<1>3. CASE \E d \in pending : AppendDecision(d)
  BY <1>1, <1>3 DEF AppendDecision, TypeInv, TypeOK
<1> QED
  BY <1>2, <1>3, ClaimWriters DEF vars

\* What is approved among the first n decisions stays so.
LEMMA ApprovedStays ==
  ASSUME TypeInv, [Next]_vars, NEW i, NEW n \in Nat, NEW rev,
         n <= Len(decisions), Approved(i, n, rev)
  PROVE  Approved(i, n, rev)'
BY DecisionsGrow DEF Approved

ClaimsInv ==
  \A c \in claims : c.at <= Len(decisions) /\ Approved(c.approval, c.at, c.version)

LEMMA ClaimsStep ==
  ASSUME TypeInv, ClaimsInv, [Next]_vars
  PROVE  ClaimsInv'
<1> SUFFICES ASSUME NEW c \in claims'
             PROVE  c.at <= Len(decisions') /\ Approved(c.approval, c.at, c.version)'
  BY DEF ClaimsInv
<1>1. CASE c \in claims
  <2>1. c.at \in Nat /\ c.at <= Len(decisions) /\ Approved(c.approval, c.at, c.version)
    BY <1>1 DEF ClaimsInv, TypeInv, TypeOK, Claim
  <2> QED
    BY <2>1, ApprovedStays, DecisionsGrow
<1>2. CASE c \notin claims
  <2>1. PICK w \in Workers : UNCHANGED decisions /\ ClaimExecution(w)
    BY <1>2, ClaimWriters DEF vars, logs, AppendDecision
  <2>2. c = [key |-> KeyOf(mem[w]), approval |-> mem[w].approval,
             version |-> mem[w].revision, at |-> Len(decisions)]
    BY <1>2, <2>1 DEF ClaimExecution, RecordClaim
  <2>3. Approved(c.approval, c.at, c.version)
    BY <2>1, <2>2 DEF ClaimExecution, Claimable, ApprovedNow
  <2> QED
    BY <2>1, <2>2, <2>3, DecisionsGrow, ApprovedStays DEF TypeInv, TypeOK
<1> QED
  BY <1>1, <1>2

\* No decision that was in the log before a claim is ever overtaken by it, for
\* any number of calls, decisions, revisions, crashes and recoveries.
THEOREM ClaimsHonourDecisions == Spec => []ClaimHonoursLatestDecision
<1>1. Init => TypeInv /\ ClaimsInv
  BY InitTypes DEF Init, ClaimsInv
<1>2. TypeInv /\ ClaimsInv /\ [Next]_vars => TypeInv' /\ ClaimsInv'
  BY NextTypes, ClaimsStep
<1>3. ClaimsInv => ClaimHonoursLatestDecision
  BY DEF ClaimsInv, ClaimHonoursLatestDecision
<1> QED
  BY <1>1, <1>2, <1>3, PTL DEF Spec

(***************************************************************************)
(* The definition that runs.  A binding never names a version that is not  *)
(* active yet, and versions only grow; so when the binding of an approval  *)
(* equals the version that is active after the call read its definition,   *)
(* the definition it read, which lies in between, is that version too.     *)
(***************************************************************************)
BoundBy(w) == decisions[mem[w].approval].binding
Past(b)    == b.recipe \in Recipes => b.definition <= definition[b.recipe]

DecisionsPast ==
  /\ \A d \in pending : Past(d.binding)
  /\ \A i \in 1..Len(decisions) : Past(decisions[i].binding)

WorkerBound(w) ==
  /\ pc[w] # "idle" => mem[w].approval \in 1..Len(decisions)
  /\ pc[w] = "bind" =>
       /\ mem[w].definition <= definition[mem[w].recipe]
       /\ BoundBy(w).recipe = mem[w].recipe => BoundBy(w).definition <= mem[w].definition
  /\ pc[w] \in Hashed =>
       BoundBy(w) = [recipe |-> mem[w].recipe, input |-> mem[w].input,
                     definition |-> mem[w].definition]

WorkBound == \A w \in Workers : WorkerBound(w)

InputKept == \A w \in Workers :
  pc[w] \in Hashed => mem[w].input = input \/ KeyOf(mem[w]) \in edited

ArtifactBound(a) ==
  LET b == decisions[a.approval].binding IN
  /\ a.approval \in 1..Len(decisions)
  /\ b.recipe = a.key.recipe
  /\ b.definition = a.definition
  /\ b.input = a.key.input
  /\ a.input = a.key.input \/ a.key \in edited

ArtifactsBound == \A a \in artifacts : ArtifactBound(a)

BindingInv == DecisionsPast /\ WorkBound /\ InputKept /\ ArtifactsBound

\* A step that leaves the surroundings and the decisions alone, moves calls only
\* within the bound part or out of the call, and moves files only.
SameWork(w) == mem'[w].recipe = mem[w].recipe /\ mem'[w].input = mem[w].input
               /\ mem'[w].rebuild = mem[w].rebuild
               /\ mem'[w].definition = mem[w].definition /\ mem'[w].approval = mem[w].approval
Onward(w) == \/ pc'[w] = pc[w] /\ mem'[w] = mem[w]
             \/ pc'[w] = "idle"
             \/ pc[w] \in Hashed /\ pc'[w] \in Hashed /\ SameWork(w)
SameOrigin(a, b) == a.key = b.key /\ a.approval = b.approval
                    /\ a.definition = b.definition /\ a.input = b.input
FilesMove == \A a \in artifacts' : \E b \in artifacts : SameOrigin(a, b)

LEMMA BindingFrame ==
  ASSUME TypeInv, BindingInv, UNCHANGED <<input, edited, definition, decisions, pending>>,
         \A w \in Workers : Onward(w), FilesMove
  PROVE  BindingInv'
<1>1. DecisionsPast'
  BY DEF BindingInv, DecisionsPast, Past
<1>2. WorkBound'
  BY DEF BindingInv, WorkBound, WorkerBound, Onward, SameWork, BoundBy, Hashed
<1>3. InputKept'
  BY DEF BindingInv, InputKept, Onward, SameWork, Hashed, KeyOf
<1>4. ArtifactsBound'
  BY DEF BindingInv, ArtifactsBound, ArtifactBound, FilesMove, SameOrigin
<1> QED
  BY <1>1, <1>2, <1>3, <1>4 DEF BindingInv

LEMMA QuarantineMoves ==
  ASSUME NEW v, NEW n, artifacts \subseteq Artifact, artifacts' = Quarantined(v, n)
  PROVE  FilesMove
<1> SUFFICES ASSUME NEW a \in artifacts'
             PROVE  \E b \in artifacts : SameOrigin(a, b)
  BY DEF FilesMove
<1>1. CASE a \in artifacts
  BY <1>1 DEF SameOrigin
<1>2. CASE a \notin artifacts
  <2>1. PICK b \in artifacts : a = [b EXCEPT !.place = "quarantine"]
    BY <1>2 DEF Quarantined, Dir
  <2> QED
    BY <2>1 DEF SameOrigin, Artifact
<1> QED
  BY <1>1, <1>2

LEMMA AdvanceBinding ==
  ASSUME TypeInv, BindingInv, NEW w \in Workers, Advance(w)
  PROVE  BindingInv'
<1>1. CASE ReadRecipe(w)
  <2>1. pc[w] = "recipe" /\ pc' = [pc EXCEPT ![w] = "bind"]
        /\ mem' = [mem EXCEPT ![w].definition = definition[mem[w].recipe]]
        /\ UNCHANGED <<input, edited, definition, decisions, pending, artifacts>>
    BY <1>1 DEF ReadRecipe, Goto, env, stores
  <2>2. /\ mem'[w].recipe = mem[w].recipe /\ mem'[w].approval = mem[w].approval
        /\ mem'[w].definition = definition[mem[w].recipe]
        /\ mem[w].recipe \in Recipes /\ definition[mem[w].recipe] \in Nat
        /\ \A v \in Workers \ {w} : mem'[v] = mem[v] /\ pc'[v] = pc[v]
        /\ pc'[w] = "bind"
    BY <2>1 DEF TypeInv, TypeOK, WorkKnown, Work
  <2>3. mem[w].approval \in 1..Len(decisions) /\ Past(BoundBy(w))
    BY <2>1 DEF BindingInv, WorkBound, WorkerBound, DecisionsPast, BoundBy
  <2>4. WorkBound'
    <3>1. mem'[w].approval \in 1..Len(decisions')
          /\ mem'[w].definition <= definition'[mem'[w].recipe]
          /\ BoundBy(w)' = BoundBy(w)
      BY <2>1, <2>2, <2>3 DEF BoundBy
    <3>2. BoundBy(w)'.recipe = mem'[w].recipe => BoundBy(w)'.definition <= mem'[w].definition
      BY <2>1, <2>2, <2>3, <3>1 DEF Past
    <3>3. ASSUME NEW v \in Workers, v # w
          PROVE  pc'[v] = pc[v] /\ mem'[v] = mem[v] /\ BoundBy(v)' = BoundBy(v)
      BY <2>1, <2>2, <3>3 DEF BoundBy
    <3>4. ASSUME NEW v \in Workers
          PROVE  WorkerBound(v)'
      <4>1. CASE v = w
        BY <2>2, <3>1, <3>2, <4>1 DEF WorkerBound, Hashed
      <4>2. CASE v # w
        BY <2>1, <3>3, <4>2 DEF BindingInv, WorkBound, WorkerBound
      <4> QED
        BY <4>1, <4>2
    <3> QED
      BY <3>4 DEF WorkBound
  <2>5. InputKept'
    BY <2>1, <2>2 DEF BindingInv, InputKept, Hashed
  <2> QED
    BY <2>1, <2>4, <2>5 DEF BindingInv, DecisionsPast, Past, ArtifactsBound, ArtifactBound
<1>2. CASE Bind(w)
  <2>1. pc[w] = "bind" /\ pc' = [pc EXCEPT ![w] = "recheck"]
        /\ mem' = [mem EXCEPT ![w].input = input]
        /\ UNCHANGED <<input, edited, definition, decisions, pending, artifacts>>
    BY <1>2 DEF Bind, Goto, env, stores
  <2>2. /\ mem'[w].recipe = mem[w].recipe /\ mem'[w].approval = mem[w].approval
        /\ mem'[w].definition = mem[w].definition /\ mem'[w].input = input
        /\ mem[w].definition \in Nat /\ mem[w].recipe \in Recipes
        /\ definition[mem[w].recipe] \in Nat
        /\ \A v \in Workers \ {w} : mem'[v] = mem[v] /\ pc'[v] = pc[v]
        /\ pc'[w] = "recheck"
    BY <2>1 DEF TypeInv, TypeOK, WorkKnown, Work
  <2>3. BoundBy(w) = [recipe |-> mem[w].recipe, input |-> input,
                      definition |-> definition[mem[w].recipe]]
    BY <1>2 DEF Bind, BindingMatches, BoundBy
  <2>4. mem[w].definition = definition[mem[w].recipe]
    BY <2>1, <2>2, <2>3 DEF BindingInv, WorkBound, WorkerBound
  <2>5. WorkBound'
    <3>1. mem'[w].approval \in 1..Len(decisions') /\ BoundBy(w)' = BoundBy(w)
      BY <2>1, <2>2 DEF BindingInv, WorkBound, WorkerBound, BoundBy
    <3>2. WorkerBound(w)'
      BY <2>1, <2>2, <2>3, <2>4, <3>1 DEF WorkerBound, Hashed
    <3>3. ASSUME NEW v \in Workers, v # w
          PROVE  WorkerBound(v)'
      BY <2>1, <2>2, <3>3 DEF BindingInv, WorkBound, WorkerBound, BoundBy
    <3> QED
      BY <3>2, <3>3 DEF WorkBound
  <2>6. InputKept'
    BY <2>1, <2>2 DEF BindingInv, InputKept, Hashed
  <2> QED
    BY <2>1, <2>5, <2>6 DEF BindingInv, DecisionsPast, Past, ArtifactsBound, ArtifactBound
<1>3. CASE Dispatch(w)
  <2>1. pc[w] = "claimed" /\ mem' = mem /\ pc'[w] \in {"verify", "failing"}
        /\ (\A v \in Workers \ {w} : pc'[v] = pc[v])
        /\ UNCHANGED <<input, edited, definition, decisions, pending>>
    BY <1>3 DEF Dispatch, Goto, env, TypeInv, TypeOK
  <2>2. \A v \in Workers : Onward(v)
    BY <2>1 DEF Onward, SameWork, Hashed, Points, Checking, Owning
  <2>3. CASE UNCHANGED artifacts
    BY <2>1, <2>2, <2>3, BindingFrame DEF FilesMove, SameOrigin
  <2>4. CASE artifacts' = artifacts \cup {Output(w)}
    <3>1. mem[w].approval \in 1..Len(decisions)
          /\ BoundBy(w) = [recipe |-> mem[w].recipe, input |-> mem[w].input,
                           definition |-> mem[w].definition]
          /\ (mem[w].input = input \/ KeyOf(mem[w]) \in edited)
      BY <2>1 DEF BindingInv, WorkBound, WorkerBound, InputKept, Hashed, Points, Checking, Owning
    <3>2. ArtifactBound(Output(w))
      <4>1. PICK o : o = Output(w)
        OBVIOUS
      <4>2. /\ o.key.recipe = mem[w].recipe /\ o.key.input = mem[w].input
            /\ o.approval = mem[w].approval /\ o.definition = mem[w].definition
            /\ o.input = input /\ o.key = KeyOf(mem[w])
        BY <4>1 DEF Output, DefinitionRun, KeyOf
      <4>3. decisions[o.approval].binding = BoundBy(w) /\ o.approval \in 1..Len(decisions)
        BY <3>1, <4>2 DEF BoundBy
      <4>4. /\ BoundBy(w).recipe = o.key.recipe /\ BoundBy(w).definition = o.definition
            /\ BoundBy(w).input = o.key.input
        BY <3>1, <4>2
      <4>5. o.input = o.key.input \/ o.key \in edited
        BY <3>1, <4>2
      <4>6. ArtifactBound(o)
        BY <4>3, <4>4, <4>5 DEF ArtifactBound
      <4> QED
        BY <4>1, <4>6
    <3>3. ArtifactsBound'
      BY <2>1, <2>4, <3>2 DEF BindingInv, ArtifactsBound, ArtifactBound
    <3>4. WorkBound' /\ InputKept'
      BY <2>1, <2>2 DEF BindingInv, WorkBound, WorkerBound, InputKept, Onward, SameWork, BoundBy, Hashed
    <3> QED
      BY <2>1, <3>3, <3>4 DEF BindingInv, DecisionsPast, Past
  <2> QED
    BY <1>3, <2>3, <2>4 DEF Dispatch
<1>4. CASE ~ReadRecipe(w) /\ ~Bind(w) /\ ~Dispatch(w)
  <2>1. UNCHANGED <<input, edited, definition, decisions, pending>>
    BY <1>4 DEF Advance, Recheck, CheckInitial, TakeVersion, Probe, Refuse,
         Reserve, PutApproved, PutExecuting, ClaimExecution, Withdrawn, Verify,
         PutFailed, QuarantineBlocked, PutSucceeded, Report, env
  <2>2. FilesMove
    <3>1. CASE PutFailed(w)
      BY <3>1, QuarantineMoves DEF PutFailed, TypeInv, TypeOK
    <3>2. CASE UNCHANGED artifacts
      BY <3>2 DEF FilesMove, SameOrigin
    <3> QED
      BY <1>4, <3>1, <3>2 DEF Advance, Recheck, CheckInitial, TakeVersion, Probe, Refuse,
         Reserve, PutApproved, PutExecuting, ClaimExecution, Withdrawn, Verify,
         QuarantineBlocked, PutSucceeded, Report, stores
  <2>3. ASSUME NEW v \in Workers
        PROVE  Onward(v)
    <3> USE DEF Onward, SameWork, Hashed, Points, Checking, Owning, Goto, TypeInv, TypeOK, Work
    <3>1. CASE Refuse(w) \/ QuarantineBlocked(w) \/ Report(w)
      BY <3>1 DEF Refuse, QuarantineBlocked, Report, Leave
    <3>2. CASE Recheck(w) \/ CheckInitial(w) \/ TakeVersion(w) \/ Probe(w)
      BY <3>2 DEF Recheck, CheckInitial, TakeVersion, Probe
    <3>3. CASE Reserve(w) \/ PutApproved(w) \/ PutExecuting(w) \/ ClaimExecution(w)
      BY <3>3 DEF Reserve, PutApproved, PutExecuting, ClaimExecution
    <3>4. CASE Withdrawn(w) \/ Verify(w) \/ PutFailed(w) \/ PutSucceeded(w)
      BY <3>4 DEF Withdrawn, Verify, PutFailed, PutSucceeded
    <3> QED
      BY <1>4, <3>1, <3>2, <3>3, <3>4 DEF Advance
  <2> QED
    BY <2>1, <2>2, <2>3, BindingFrame
<1> QED
  BY <1>1, <1>2, <1>3, <1>4

LEMMA BindingStep ==
  ASSUME TypeInv, BindingInv, [Next]_vars
  PROVE  BindingInv'
<1> USE DEF BindingInv
<1>1. CASE Revise \/ CrashRecovery \/ UNCHANGED vars
  <2>1. UNCHANGED <<input, edited, definition, decisions, pending, artifacts, pc, mem>>
    BY <1>1 DEF Revise, CrashRecovery, vars, env, stores
  <2> QED
    BY <2>1, BindingFrame DEF Onward, FilesMove, SameOrigin
<1>2. CASE EditInput
  <2>1. /\ UNCHANGED <<definition, decisions, pending, artifacts, pc, mem>>
        /\ edited \subseteq edited'
        /\ \A w \in Workers : pc[w] \in Hashed => KeyOf(mem[w]) \in edited'
    BY <1>2 DEF EditInput, stores
  <2>2. InputKept'
    BY <2>1 DEF InputKept, KeyOf
  <2> QED
    BY <2>1, <2>2 DEF DecisionsPast, Past, WorkBound, WorkerBound, BoundBy, ArtifactsBound, ArtifactBound
<1>3. ASSUME NEW r \in Recipes, Activate(r)
      PROVE  BindingInv'
  <2>1. UNCHANGED <<input, edited, decisions, pending, artifacts, pc, mem>>
    BY <1>3 DEF Activate, stores
  <2>2. \A q \in Recipes : definition[q] \in Nat /\ definition'[q] \in Nat
                            /\ definition[q] <= definition'[q]
    BY <1>3 DEF Activate, TypeInv, TypeOK
  <2>3. ASSUME NEW b \in Binding \cup {NoBinding}, Past(b)
        PROVE  Past(b)'
    BY <2>2, <2>3, ConstantsAssumption DEF Past, Binding, NoBinding
  <2>4. DecisionsPast'
    <3>1. /\ \A d \in pending : d.binding \in Binding \cup {NoBinding}
          /\ \A i \in 1..Len(decisions) : decisions[i].binding \in Binding \cup {NoBinding}
      <4>1. pending \subseteq Decision /\ \A i \in 1..Len(decisions) : decisions[i] \in Decision
        BY DEF TypeInv, TypeOK
      <4> QED
        BY <4>1 DEF Decision
    <3> QED
      BY <2>1, <2>3, <3>1 DEF DecisionsPast
  <2>5. WorkBound'
    BY <2>1, <2>2 DEF WorkBound, WorkerBound, BoundBy, TypeInv, TypeOK, WorkKnown, Work
  <2> QED
    BY <2>1, <2>4, <2>5 DEF InputKept, ArtifactsBound, ArtifactBound
<1>4. ASSUME NEW d, PrepareDecision(d)
      PROVE  BindingInv'
  <2>1. UNCHANGED <<input, edited, definition, decisions, artifacts, pc, mem>>
        /\ pending' = pending \cup {d}
    BY <1>4 DEF PrepareDecision, env, stores
  <2>2. Past(d.binding)
    BY <1>4, ConstantsAssumption DEF PrepareDecision, Past, NoBinding, TypeInv, TypeOK
  <2>3. DecisionsPast'
    BY <2>1, <2>2 DEF DecisionsPast, Past
  <2> QED
    BY <2>1, <2>3 DEF WorkBound, WorkerBound, BoundBy, InputKept, ArtifactsBound, ArtifactBound
<1>5. ASSUME NEW d \in pending, AppendDecision(d)
      PROVE  BindingInv'
  <2>1. UNCHANGED <<input, edited, definition, artifacts, pc, mem>> /\ pending' = pending \ {d}
    BY <1>5 DEF AppendDecision, env, stores
  <2>2. /\ Len(decisions) \in Nat /\ Len(decisions') \in Nat /\ Len(decisions) <= Len(decisions')
        /\ \A i \in 1..Len(decisions) : decisions'[i] = decisions[i]
    BY DecisionsGrow
  <2>3. \A i \in 1..Len(decisions') : decisions'[i] = d \/ i \in 1..Len(decisions)
    BY <1>5 DEF AppendDecision, TypeInv, TypeOK
  <2>4. DecisionsPast'
    BY <2>1, <2>2, <2>3 DEF DecisionsPast, Past
  <2>5. WorkBound'
    BY <2>1, <2>2 DEF WorkBound, WorkerBound, BoundBy, Hashed, Points
  <2>6. ArtifactsBound'
    BY <2>1, <2>2 DEF ArtifactsBound, ArtifactBound
  <2> QED
    BY <2>1, <2>4, <2>5, <2>6 DEF InputKept
<1>6. ASSUME NEW w \in Workers, NEW r \in Recipes, NEW b \in Rebuilds, Begin(w, r, b)
      PROVE  BindingInv'
  <2>1. UNCHANGED <<input, edited, definition, decisions, pending, artifacts>> /\ pc'[w] = "recipe"
        /\ (\A v \in Workers \ {w} : pc'[v] = pc[v] /\ mem'[v] = mem[v])
        /\ mem'[w].approval \in 1..Len(decisions)
    BY <1>6 DEF Begin, Goto, env, stores, TypeInv, TypeOK, NoWork
  <2>2. WorkBound' /\ InputKept'
    BY <2>1 DEF WorkBound, WorkerBound, InputKept, BoundBy, Hashed
  <2> QED
    BY <2>1, <2>2 DEF DecisionsPast, Past, ArtifactsBound, ArtifactBound
<1>7. ASSUME NEW w \in Workers, Advance(w)
      PROVE  BindingInv'
  BY <1>7, AdvanceBinding
<1>8. CASE Recover
  <2>1. UNCHANGED <<input, edited, definition, decisions, pending, pc, mem>>
    BY <1>8 DEF Recover, BeginRecovery, FinishRecovery, env
  <2>2. FilesMove
    BY <1>8, QuarantineMoves
       DEF Recover, BeginRecovery, FinishRecovery, FilesMove, SameOrigin, TypeInv, TypeOK
  <2> QED
    BY <2>1, <2>2, BindingFrame DEF Onward
<1>9. ASSUME NEW w \in Workers, Crash(w)
      PROVE  BindingInv'
  <2>1. UNCHANGED <<input, edited, definition, decisions, pending, artifacts>>
    BY <1>9 DEF Crash, env, stores
  <2>2. \A v \in Workers : Onward(v)
    BY <1>9 DEF Crash, Leave, Goto, Onward, TypeInv, TypeOK
  <2> QED
    BY <2>1, <2>2, BindingFrame DEF FilesMove, SameOrigin
<1> QED
  BY <1>1, <1>2, <1>3, <1>4, <1>5, <1>6, <1>7, <1>8, <1>9 DEF Next, Decide

LEMMA BindingInit == Init => BindingInv
BY DEF Init, BindingInv, DecisionsPast, WorkBound, WorkerBound, InputKept, Hashed, ArtifactsBound

\* An executor runs the definition its approval was bound to, although the
\* decision, the recipe and its active version are read at different moments.
THEOREM ApprovedDefinitionAlwaysRuns == Spec => []ApprovedDefinitionRuns
<1>1. TypeInv /\ BindingInv /\ [Next]_vars => TypeInv' /\ BindingInv'
  BY NextTypes, BindingStep
<1>2. BindingInv => ApprovedDefinitionRuns
  BY DEF BindingInv, ArtifactsBound, ArtifactBound, ApprovedDefinitionRuns
<1> QED
  BY <1>1, <1>2, InitTypes, BindingInit, PTL DEF Spec

\* A result is filed under the input its approval was bound to, and that is what its
\* executor has read, unless the attachment was edited between the hash and the use.
THEOREM ApprovedInputIsFiled == Spec => []ApprovedInputRuns
<1>1. TypeInv /\ BindingInv /\ [Next]_vars => TypeInv' /\ BindingInv'
  BY NextTypes, BindingStep
<1>2. BindingInv => ApprovedInputRuns
  BY DEF BindingInv, ArtifactsBound, ArtifactBound, ApprovedInputRuns
<1> QED
  BY <1>1, <1>2, InitTypes, BindingInit, PTL DEF Spec

-----------------------------------------------------------------------------
(***************************************************************************)
(* Proofs about the execution store: with an operator who recovers only    *)
(* executions that nobody runs, each key has at most one call inside it,   *)
(* and the store implements ExecutionLifecycle.                            *)
(*                                                                         *)
(* The argument is ownership.  A call that has reserved a key, and has not *)
(* yet put a final state, finds in the store exactly the request it holds  *)
(* in memory; two calls never own one key, because a reservation needs a   *)
(* key that is new or failed, and a recovery owns a key that no call owns. *)
(***************************************************************************)

\* The state the store shows while its owner is at control point p.
StoredState(p) == IF p = "requested" THEN "requested"
                  ELSE IF p = "approved" THEN "approved" ELSE "executing"

OwnersHold ==
  \A w \in Workers : pc[w] \in Owning =>
    executions[KeyOf(mem[w])] = Held(w, StoredState(pc[w]))

RecoveryHolds ==
  \A c \in recovery : /\ executions[c.key] = c.request
                      /\ c.request.state = "executing"
                      /\ \A w \in Workers : ~Owns(w, c.key)

OwnerInv == OwnersHold /\ InFlightNotRerun /\ RecoveryHolds

\* A step of call w that keeps, or gives up, what it owns.
SameHold(w) == /\ KeyOf(mem'[w]) = KeyOf(mem[w])
               /\ mem'[w].attempt = mem[w].attempt /\ mem'[w].version = mem[w].version
               /\ mem'[w].approval = mem[w].approval
Keeps(w) == \/ pc'[w] \notin Owning
            \/ pc[w] \in Owning /\ StoredState(pc'[w]) = StoredState(pc[w]) /\ SameHold(w)

LEMMA OwnerFrame ==
  ASSUME OwnerInv, UNCHANGED executions, recovery' \subseteq recovery,
         \A w \in Workers : Keeps(w)
  PROVE  OwnerInv'
<1>1. OwnersHold'
  BY DEF OwnerInv, OwnersHold, Keeps, SameHold, Held
<1>2. InFlightNotRerun'
  BY DEF OwnerInv, InFlightNotRerun, Keeps, SameHold
<1>3. RecoveryHolds'
  BY DEF OwnerInv, RecoveryHolds, Keeps, SameHold, Owns
<1> QED
  BY <1>1, <1>2, <1>3 DEF OwnerInv

\* The owner of a key replaces its stored request.
LEMMA OwnerPuts ==
  ASSUME TypeInv, OwnerInv, NEW w \in Workers, pc[w] \in Owning, NEW s \in L!States, NEW p \in Points,
         Put(KeyOf(mem[w]), Held(w, s)), UNCHANGED recovery,
         pc' = [pc EXCEPT ![w] = p], p \in Owning => StoredState(p) = s,
         SameHold(w), \A v \in Workers \ {w} : mem'[v] = mem[v]
  PROVE  OwnerInv'
<1>0. KeyOf(mem[w]) \in Keys /\ executions \in [Keys -> Request] /\ pc \in [Workers -> Points]
  BY KeyOfType DEF TypeInv, TypeOK, Owning
<1>1. executions'[KeyOf(mem[w])] = Held(w, s)
      /\ \A k \in Keys \ {KeyOf(mem[w])} : executions'[k] = executions[k]
  BY <1>0 DEF Put
<1>2. \A v \in Workers \ {w} : /\ pc'[v] = pc[v] /\ mem'[v] = mem[v]
                               /\ pc[v] \in Owning => KeyOf(mem[v]) # KeyOf(mem[w])
                               /\ pc[v] \in Owning => KeyOf(mem[v]) \in Keys
  BY <1>0, KeyOfType DEF OwnerInv, InFlightNotRerun, Owning
<1>3. pc'[w] = p
  BY <1>0
<1>4. OwnersHold'
  <2>1. ASSUME NEW v \in Workers, v # w, pc'[v] \in Owning
        PROVE  executions'[KeyOf(mem'[v])] = Held(v, StoredState(pc[v]))'
    <3>1. executions[KeyOf(mem[v])] = Held(v, StoredState(pc[v]))
      BY <1>2, <2>1 DEF OwnerInv, OwnersHold
    <3> QED
      BY <1>1, <1>2, <2>1, <3>1 DEF Held
  <2>2. pc'[w] \in Owning => executions'[KeyOf(mem'[w])] = Held(w, StoredState(pc[w]))'
    BY <1>1, <1>3 DEF SameHold, Held
  <2> QED
    BY <2>1, <2>2 DEF OwnersHold
<1>5. InFlightNotRerun'
  BY <1>2, <1>3 DEF OwnerInv, InFlightNotRerun, SameHold
<1>6. RecoveryHolds'
  <2>1. \A c \in recovery : c.key \in Keys /\ c.key # KeyOf(mem[w])
    BY DEF OwnerInv, RecoveryHolds, Owns, TypeInv, TypeOK
  <2> QED
    BY <1>1, <1>2, <1>3, <2>1 DEF OwnerInv, RecoveryHolds, Owns, SameHold
<1> QED
  BY <1>4, <1>5, <1>6 DEF OwnerInv

\* A reservation: the key is new or failed, so nobody owns it.
LEMMA OwnerReserves ==
  ASSUME TypeInv, OwnerInv, NEW w \in Workers, Reserve(w)
  PROVE  OwnerInv'
<1> DEFINE k == KeyOf(mem[w])
<1>0. k \in Keys /\ executions \in [Keys -> Request] /\ pc \in [Workers -> Points]
  BY KeyOfType DEF TypeInv, TypeOK, Reserve
<1>1. /\ executions'[k] = Held(w, "requested")
      /\ \A j \in Keys \ {k} : executions'[j] = executions[j]
      /\ executions[k].state \in {"none", "failed"}
      /\ mem' = mem /\ recovery' = recovery
  BY <1>0 DEF Reserve, Put, Reservable
<1>2. \A v \in Workers \ {w} : pc'[v] = pc[v]
  BY <1>0 DEF Reserve, Goto
<1>3. pc'[w] = "requested"
  BY <1>0 DEF Reserve, Goto
<1>4. \A v \in Workers : pc[v] \in Owning => KeyOf(mem[v]) \in Keys \ {k}
  <2>1. ASSUME NEW v \in Workers, pc[v] \in Owning
        PROVE  executions[KeyOf(mem[v])].state \notin {"none", "failed"}
    <3>1. executions[KeyOf(mem[v])] = Held(v, StoredState(pc[v]))
      BY <2>1 DEF OwnerInv, OwnersHold
    <3>2. Held(v, StoredState(pc[v])).state = StoredState(pc[v])
      BY DEF Held
    <3> QED
      BY <3>1, <3>2 DEF StoredState
  <2> QED
    BY <1>1, <2>1, KeyOfType DEF Owning
<1>5. OwnersHold'
  <2>1. ASSUME NEW v \in Workers, v # w, pc'[v] \in Owning
        PROVE  executions'[KeyOf(mem'[v])] = Held(v, StoredState(pc[v]))'
    BY <1>1, <1>2, <1>4, <2>1 DEF OwnerInv, OwnersHold, Held
  <2>2. executions'[KeyOf(mem'[w])] = Held(w, StoredState(pc[w]))'
    BY <1>1, <1>3 DEF Held, StoredState
  <2> QED
    BY <2>1, <2>2 DEF OwnersHold
<1>6. InFlightNotRerun'
  BY <1>1, <1>2, <1>3, <1>4 DEF OwnerInv, InFlightNotRerun
<1>7. RecoveryHolds'
  <2>1. \A c \in recovery : c.key \in Keys /\ c.key # k
    BY <1>1 DEF OwnerInv, RecoveryHolds, TypeInv, TypeOK
  <2> QED
    BY <1>1, <1>2, <1>3, <2>1 DEF OwnerInv, RecoveryHolds, Owns
<1> QED
  BY <1>5, <1>6, <1>7 DEF OwnerInv

LEMMA AdvanceOwners ==
  ASSUME TypeInv, OwnerInv, NEW w \in Workers, Advance(w)
  PROVE  OwnerInv'
<1>1. CASE Reserve(w)
  BY <1>1, OwnerReserves
<1>2. CASE PutApproved(w) \/ PutExecuting(w)
  <2>1. mem' = mem /\ recovery' = recovery
    BY <1>2 DEF PutApproved, PutExecuting
  <2> QED
    BY <1>2, <2>1, OwnerPuts
       DEF PutApproved, PutExecuting, Goto, Owning, Points, StoredState, SameHold, L!States
<1>3. CASE Withdrawn(w) \/ PutFailed(w) \/ PutSucceeded(w)
  <2>1. PICK s \in {"failed", "succeeded"} :
          /\ pc[w] \in {"executing", "failing", "passed"}
          /\ Put(KeyOf(mem[w]), Held(w, s)) /\ UNCHANGED recovery
          /\ pc' = [pc EXCEPT ![w] = "report"]
          /\ \E o : mem' = [mem EXCEPT ![w].outcome = o]
    BY <1>3 DEF Withdrawn, PutFailed, PutSucceeded, Goto
  <2>2. SameHold(w) /\ \A v \in Workers \ {w} : mem'[v] = mem[v]
    BY <2>1 DEF SameHold, KeyOf, TypeInv, TypeOK, Work
  <2> QED
    BY <2>1, <2>2, OwnerPuts DEF Owning, Checking, Points, L!States
<1>4. CASE ~Reserve(w) /\ ~PutApproved(w) /\ ~PutExecuting(w)
           /\ ~Withdrawn(w) /\ ~PutFailed(w) /\ ~PutSucceeded(w)
  <2>1. UNCHANGED executions /\ UNCHANGED recovery
    BY <1>4 DEF Advance, ReadRecipe, Bind, Recheck, CheckInitial, TakeVersion, Probe, Refuse,
         ClaimExecution, Dispatch, Verify, QuarantineBlocked, Report, stores
  <2>2. ASSUME NEW v \in Workers
        PROVE  Keeps(v)
    <3> USE DEF Keeps, SameHold, Owning, Checking, Points, Goto, TypeInv, TypeOK, Work
    <3>1. CASE Refuse(w) \/ QuarantineBlocked(w) \/ Report(w)
      BY <3>1 DEF Refuse, QuarantineBlocked, Report, Leave
    <3>2. CASE ReadRecipe(w) \/ Bind(w) \/ Recheck(w) \/ CheckInitial(w) \/ TakeVersion(w) \/ Probe(w)
      BY <3>2 DEF ReadRecipe, Bind, Recheck, CheckInitial, TakeVersion, Probe
    <3>3. CASE ClaimExecution(w) \/ Dispatch(w)
      BY <3>3 DEF ClaimExecution, Dispatch, StoredState
    <3>4. CASE Verify(w)
      BY <3>4 DEF Verify, StoredState, KeyOf
    <3> QED
      BY <1>4, <3>1, <3>2, <3>3, <3>4 DEF Advance
  <2> QED
    BY <2>1, <2>2, OwnerFrame
<1> QED
  BY <1>1, <1>2, <1>3, <1>4

LEMMA OwnerStep ==
  ASSUME ~RecoverLive, TypeInv, OwnerInv, [Next]_vars
  PROVE  OwnerInv'
<1>1. CASE Revise \/ EditInput \/ (\E r \in Recipes : Activate(r)) \/ Decide \/ UNCHANGED vars
  <2>1. UNCHANGED <<executions, recovery, pc, mem>>
    BY <1>1 DEF Revise, EditInput, Activate, Decide, PrepareDecision, AppendDecision, vars, stores
  <2> QED
    BY <2>1, OwnerFrame DEF Keeps, SameHold
<1>2. CASE CrashRecovery
  <2>1. UNCHANGED <<executions, pc, mem>> /\ recovery' = {}
    BY <1>2 DEF CrashRecovery, stores
  <2> QED
    BY <2>1, OwnerFrame DEF Keeps, SameHold
<1>3. ASSUME NEW w \in Workers, NEW r \in Recipes, NEW b \in Rebuilds, Begin(w, r, b)
      PROVE  OwnerInv'
  BY <1>3, OwnerFrame DEF Begin, Goto, Keeps, SameHold, Owning, stores, TypeInv, TypeOK
<1>4. ASSUME NEW w \in Workers, Advance(w)
      PROVE  OwnerInv'
  BY <1>4, AdvanceOwners
<1>5. ASSUME NEW k \in Keys, BeginRecovery(k)
      PROVE  OwnerInv'
  <2>1. UNCHANGED <<executions, pc, mem>> /\ recovery' = {[key |-> k, request |-> executions[k]]}
        /\ executions[k].state = "executing" /\ \A w \in Workers : ~Owns(w, k)
    BY <1>5 DEF BeginRecovery, Recoverable
  <2>2. RecoveryHolds'
    BY <2>1 DEF RecoveryHolds, Owns
  <2> QED
    BY <2>1, <2>2 DEF OwnerInv, OwnersHold, InFlightNotRerun, Held
<1>6. ASSUME NEW c \in recovery, FinishRecovery(c)
      PROVE  OwnerInv'
  <2>1. c.key \in Keys /\ \A w \in Workers : ~Owns(w, c.key)
    BY DEF TypeInv, TypeOK, OwnerInv, RecoveryHolds
  <2>2. UNCHANGED <<pc, mem>> /\ recovery' = {}
        /\ \A k \in Keys \ {c.key} : executions'[k] = executions[k]
    BY <1>6 DEF FinishRecovery, Put, TypeInv, TypeOK
  <2>3. \A w \in Workers : pc[w] \in Owning => KeyOf(mem[w]) \in Keys \ {c.key}
    BY <2>1, KeyOfType DEF Owns, Owning
  <2> QED
    BY <2>2, <2>3 DEF OwnerInv, OwnersHold, InFlightNotRerun, RecoveryHolds, Held
<1>7. ASSUME NEW w \in Workers, Crash(w)
      PROVE  OwnerInv'
  BY <1>7, OwnerFrame DEF Crash, Leave, Goto, Keeps, SameHold, Owning, stores, TypeInv, TypeOK
<1> QED
  BY <1>1, <1>2, <1>3, <1>4, <1>5, <1>6, <1>7 DEF Next, Recover

\* One call per execution key, for any number of calls, provided the operator
\* recovers only executions that nobody runs.
THEOREM OneCallPerKey == ~RecoverLive => (Spec => []InFlightNotRerun)
<1> SUFFICES ASSUME ~RecoverLive
             PROVE  Spec => []InFlightNotRerun
  OBVIOUS
<1>1. Init => OwnerInv
  BY DEF Init, OwnerInv, OwnersHold, InFlightNotRerun, RecoveryHolds, Owning
<1>2. TypeInv /\ OwnerInv /\ [Next]_vars => TypeInv' /\ OwnerInv'
  BY NextTypes, OwnerStep
<1>3. OwnerInv => InFlightNotRerun
  BY DEF OwnerInv
<1> QED
  BY <1>1, <1>2, <1>3, InitTypes, PTL DEF Spec

(***************************************************************************)
(* The version registry.                                                   *)
(***************************************************************************)
LEMMA ReservationStep ==
  ASSUME TypeInv, RegistryReadable, NEW k \in Keys, MayReserve(k), ReserveVersion(k)
  PROVE  /\ RegistryReadable'
         /\ registry.requests \subseteq registry'.requests
         /\ [key |-> k, version |-> VersionOf(k)] \in registry'.requests
<1>0. registry.requests \subseteq Reservation /\ registry.next \in Nat
  BY DEF TypeInv, TypeOK
<1>1. CASE ReservedFor(k) # {}
  <2>1. PICK e \in ReservedFor(k) : VersionOf(k) = e.version
    BY <1>1 DEF VersionOf
  <2>2. e \in registry.requests /\ e.key = k
    BY <2>1 DEF MayReserve, ReservedFor
  <2>3. e = [key |-> k, version |-> e.version]
    BY <1>0, <2>2 DEF Reservation
  <2> QED
    BY <1>1, <2>1, <2>2, <2>3 DEF ReserveVersion, RegistryReadable
<1>2. CASE ReservedFor(k) = {}
  <2> DEFINE new == [key |-> k, version |-> NewVersion(k)]
  <2>1. registry' = [requests |-> registry.requests \cup {new}, next |-> NextAfter(k)]
        /\ VersionOf(k) = NewVersion(k)
    BY <1>2 DEF ReserveVersion, VersionOf
  <2>2. /\ NewVersion(k) \in Nat /\ NextAfter(k) \in Nat
        /\ NewVersion(k) < NextAfter(k) /\ registry.next <= NextAfter(k)
        /\ IF k.rebuild = None THEN NewVersion(k) = 1 ELSE NewVersion(k) >= 2
        /\ k.rebuild # None => registry.next <= NewVersion(k)
    BY <1>0 DEF NewVersion, NextAfter, RegistryReadable
  <2>3. ASSUME NEW e \in registry.requests
        PROVE  /\ e.version \in Nat /\ e.version < NextAfter(k)
               /\ e.key.rebuild # k.rebuild /\ e.version # NewVersion(k)
               /\ IF e.key.rebuild = None THEN e.version = 1 ELSE e.version >= 2
    <3>1. e.version \in Nat /\ e.version < registry.next
          /\ (IF e.key.rebuild = None THEN e.version = 1 ELSE e.version >= 2)
      BY <1>0 DEF RegistryReadable, Reservation
    <3>2. e.key.rebuild # k.rebuild
      BY <1>2 DEF ReservedFor
    <3> QED
      BY <1>0, <2>2, <3>1, <3>2
  <2>4. RegistryReadable'
    <3>1. registry'.next >= 1
      BY <1>0, <2>1, <2>2 DEF RegistryReadable
    <3>2. \A e \in registry'.requests :
            /\ e.version < registry'.next
            /\ IF e.key.rebuild = None THEN e.version = 1 ELSE e.version >= 2
      BY <2>1, <2>2, <2>3
    <3>3. \A e, f \in registry'.requests :
            e # f => e.version # f.version /\ e.key.rebuild # f.key.rebuild
      BY <2>1, <2>2, <2>3 DEF RegistryReadable
    <3> QED
      BY <3>1, <3>2, <3>3 DEF RegistryReadable
  <2> QED
    BY <2>1, <2>4
<1> QED
  BY <1>1, <1>2

\* Only two steps of a call reserve a version.
LEMMA RegistryWriters ==
  ASSUME [Next]_vars
  PROVE  \/ UNCHANGED registry
         \/ \E w \in Workers : CheckInitial(w) \/ TakeVersion(w)
<1>1. CASE Revise \/ EditInput \/ (\E r \in Recipes : Activate(r)) \/ CrashRecovery \/ UNCHANGED vars
  BY <1>1 DEF Revise, EditInput, Activate, CrashRecovery, vars, stores
<1>2. CASE Decide \/ (\E w \in Workers, r \in Recipes, b \in Rebuilds : Begin(w, r, b))
  BY <1>2 DEF Decide, PrepareDecision, AppendDecision, Begin, stores
<1>3. CASE \E w \in Workers : Advance(w)
  BY <1>3 DEF Advance, ReadRecipe, Bind, Recheck, Probe, Refuse,
              Reserve, PutApproved, PutExecuting, ClaimExecution, Withdrawn, Dispatch, Verify,
              PutFailed, QuarantineBlocked, PutSucceeded, Report, stores
<1>4. CASE Recover \/ \E w \in Workers : Crash(w)
  BY <1>4 DEF Recover, BeginRecovery, FinishRecovery, Crash, stores
<1> QED
  BY <1>1, <1>2, <1>3, <1>4 DEF Next

LEMMA RegistryStep ==
  ASSUME TypeInv, RegistryReadable, [Next]_vars
  PROVE  RegistryReadable' /\ registry.requests \subseteq registry'.requests
<1>1. CASE UNCHANGED registry
  BY <1>1 DEF RegistryReadable
<1>2. ASSUME NEW w \in Workers, CheckInitial(w)
      PROVE  RegistryReadable' /\ registry.requests \subseteq registry'.requests
  <2>1. InitialKey(w) \in Keys
    BY <1>2, KeyOfType DEF CheckInitial, InitialKey, Keys, Rebuilds
  <2> QED
    BY <1>2, <2>1, ReservationStep DEF CheckInitial
<1>3. ASSUME NEW w \in Workers, TakeVersion(w)
      PROVE  RegistryReadable' /\ registry.requests \subseteq registry'.requests
  BY <1>3, KeyOfType, ReservationStep DEF TakeVersion
<1> QED
  BY <1>1, <1>2, <1>3, RegistryWriters

\* The registry never refuses what it wrote itself, and no version is given twice.
THEOREM RegistryAlwaysReadable == Spec => []RegistryReadable
<1>1. Init => RegistryReadable
  BY DEF Init, RegistryReadable
<1>2. TypeInv /\ RegistryReadable /\ [Next]_vars => TypeInv' /\ RegistryReadable'
  BY NextTypes, RegistryStep
<1> QED
  BY <1>1, <1>2, InitTypes, PTL DEF Spec

(***************************************************************************)
(* Every version in use, in the store, in a call, in a recovery and on     *)
(* disk, is the version the registry holds for that key.                   *)
(***************************************************************************)
HasVersion(k, v) == [key |-> k, version |-> v] \in registry.requests

StoreVersions ==
  \A k \in Keys : /\ executions[k].state = "none" => executions[k] = L!NoRequest
                  /\ executions[k].state # "none" => HasVersion(k, executions[k].version)
Versioned == {"probe", "reserve"} \cup Owning
CallVersions == \A w \in Workers : pc[w] \in Versioned => HasVersion(KeyOf(mem[w]), mem[w].version)
RecoveryVersions == \A c \in recovery : HasVersion(c.key, c.request.version)
FileVersions == \A a \in artifacts : HasVersion(a.key, a.version)

VersionInv == RegistryReadable /\ StoreVersions /\ CallVersions /\ RecoveryVersions /\ FileVersions

LEMMA OneVersion ==
  ASSUME RegistryReadable, NEW k, NEW u, NEW v, HasVersion(k, u), HasVersion(k, v)
  PROVE  u = v
BY DEF RegistryReadable, HasVersion

LEMMA OneKey ==
  ASSUME RegistryReadable, NEW j, NEW k, NEW v, HasVersion(j, v), HasVersion(k, v)
  PROVE  j = k
BY DEF RegistryReadable, HasVersion

\* A step that may reserve versions, moves files, ends recoveries and moves calls
\* which keep their key and version, but leaves the stored requests alone.
SameVersion(w) == KeyOf(mem'[w]) = KeyOf(mem[w]) /\ mem'[w].version = mem[w].version
KeepsVersion(w) == pc'[w] \in Versioned => pc[w] \in Versioned /\ SameVersion(w)
StoresVersion(k) == executions'[k] = executions[k]
                    \/ (executions'[k].state # "none" /\ HasVersion(k, executions'[k].version))
VersionsMove == \A a \in artifacts' : \E b \in artifacts : a.key = b.key /\ a.version = b.version

LEMMA VersionFrame ==
  ASSUME RegistryReadable', VersionInv, registry.requests \subseteq registry'.requests,
         recovery' \subseteq recovery, VersionsMove, \A w \in Workers : KeepsVersion(w),
         \A k \in Keys : StoresVersion(k)
  PROVE  VersionInv'
<1>1. StoreVersions'
  BY DEF VersionInv, StoreVersions, StoresVersion, HasVersion
<1>2. CallVersions'
  BY DEF VersionInv, CallVersions, KeepsVersion, SameVersion, HasVersion
<1>3. RecoveryVersions'
  BY DEF VersionInv, RecoveryVersions, HasVersion
<1>4. FileVersions'
  BY DEF VersionInv, FileVersions, VersionsMove, HasVersion
<1> QED
  BY <1>1, <1>2, <1>3, <1>4 DEF VersionInv

LEMMA QuarantineKeepsVersions ==
  ASSUME NEW v, NEW n, artifacts \subseteq Artifact, artifacts' = Quarantined(v, n)
  PROVE  VersionsMove
<1> SUFFICES ASSUME NEW a \in artifacts'
             PROVE  \E b \in artifacts : a.key = b.key /\ a.version = b.version
  BY DEF VersionsMove
<1>1. CASE a \in artifacts
  BY <1>1
<1>2. CASE a \notin artifacts
  <2>1. PICK b \in artifacts : a = [b EXCEPT !.place = "quarantine"]
    BY <1>2 DEF Quarantined, Dir
  <2> QED
    BY <2>1 DEF Artifact
<1> QED
  BY <1>1, <1>2

\* A call inside its key stores a request with the version it holds.
LEMMA PutKeepsVersions ==
  ASSUME TypeInv, VersionInv, NEW w \in Workers, pc[w] \in Versioned, NEW s \in L!States \ {"none"},
         Put(KeyOf(mem[w]), Held(w, s)), NEW k \in Keys
  PROVE  StoresVersion(k)
<1>1. CASE k = KeyOf(mem[w])
  <2>1. executions'[k] = Held(w, s)
    BY <1>1 DEF Put, TypeInv, TypeOK
  <2> QED
    BY <1>1, <2>1 DEF VersionInv, CallVersions, Held, StoresVersion
<1>2. CASE k # KeyOf(mem[w])
  BY <1>2 DEF Put, TypeInv, TypeOK, StoresVersion
<1> QED
  BY <1>1, <1>2

LEMMA AdvanceVersions ==
  ASSUME TypeInv, VersionInv, NEW w \in Workers, Advance(w),
         RegistryReadable', registry.requests \subseteq registry'.requests
  PROVE  VersionInv'
<1>1. CASE TakeVersion(w)
  <2> DEFINE k == KeyOf(mem[w])
  <2>0. k \in Keys /\ MayReserve(k) /\ ReserveVersion(k)
    BY <1>1, KeyOfType DEF TakeVersion
  <2>1. /\ UNCHANGED <<executions, artifacts, recovery>> /\ pc' = [pc EXCEPT ![w] = "probe"]
        /\ mem' = [mem EXCEPT ![w].version = VersionOf(k)]
        /\ [key |-> k, version |-> VersionOf(k)] \in registry'.requests
    BY <1>1, <2>0, ReservationStep DEF TakeVersion, Goto, VersionInv
  <2>2. KeyOf(mem'[w]) = k /\ mem'[w].version = VersionOf(k)
        /\ \A v \in Workers \ {w} : mem'[v] = mem[v] /\ pc'[v] = pc[v]
    BY <2>1, <2>0, VersionType DEF KeyOf, TypeInv, TypeOK, Work
  <2>3. CallVersions'
    BY <2>1, <2>2 DEF VersionInv, CallVersions, HasVersion
  <2> QED
    BY <2>1, <2>3 DEF VersionInv, StoreVersions, RecoveryVersions, FileVersions, HasVersion
<1>2. CASE Dispatch(w)
  <2>1. UNCHANGED <<executions, recovery, mem>> /\ (\A v \in Workers \ {w} : pc'[v] = pc[v])
        /\ pc[w] \in Versioned
    BY <1>2 DEF Dispatch, Goto, TypeInv, TypeOK, Versioned, Owning
  <2>2. CallVersions'
    BY <2>1 DEF VersionInv, CallVersions, HasVersion
  <2>3. Output(w).key = KeyOf(mem[w]) /\ Output(w).version = mem[w].version
    BY DEF Output
  <2>4. FileVersions'
    BY <1>2, <2>1, <2>3 DEF Dispatch, VersionInv, FileVersions, CallVersions, HasVersion
  <2> QED
    BY <2>1, <2>2, <2>4 DEF VersionInv, StoreVersions, RecoveryVersions, HasVersion
<1>3. CASE ~TakeVersion(w) /\ ~Dispatch(w)
  <2>1. UNCHANGED recovery
    BY <1>3 DEF Advance, ReadRecipe, Bind, Recheck, CheckInitial, Probe, Refuse,
         Reserve, PutApproved, PutExecuting, ClaimExecution, Withdrawn, Verify,
         PutFailed, QuarantineBlocked, PutSucceeded, Report
  <2>2. VersionsMove
    <3>1. CASE PutFailed(w)
      BY <3>1, QuarantineKeepsVersions DEF PutFailed, TypeInv, TypeOK
    <3>2. CASE UNCHANGED artifacts
      BY <3>2 DEF VersionsMove
    <3> QED
      BY <1>3, <3>1, <3>2 DEF Advance, ReadRecipe, Bind, Recheck, CheckInitial, Probe, Refuse,
         Reserve, PutApproved, PutExecuting, ClaimExecution, Withdrawn, Verify,
         QuarantineBlocked, PutSucceeded, Report, stores
  <2>3. ASSUME NEW k \in Keys
        PROVE  StoresVersion(k)
    <3>1. CASE UNCHANGED executions
      BY <3>1 DEF StoresVersion
    <3>2. CASE \E s \in L!States \ {"none"} : pc[w] \in Versioned /\ Put(KeyOf(mem[w]), Held(w, s))
      BY <3>2, PutKeepsVersions
    <3>3. CASE Reserve(w) \/ PutApproved(w) \/ PutExecuting(w)
      BY <3>2, <3>3 DEF Reserve, PutApproved, PutExecuting, Versioned, Owning, L!States
    <3>4. CASE Withdrawn(w) \/ PutFailed(w) \/ PutSucceeded(w)
      BY <3>2, <3>4 DEF Withdrawn, PutFailed, PutSucceeded, Versioned, Owning, L!States
    <3> QED
      BY <1>3, <3>1, <3>3, <3>4 DEF Advance, ReadRecipe, Bind, Recheck, CheckInitial, Probe, Refuse,
         ClaimExecution, Verify, QuarantineBlocked, Report, stores
  <2>4. ASSUME NEW v \in Workers
        PROVE  KeepsVersion(v)
    <3> USE DEF KeepsVersion, SameVersion, Versioned, Owning, Checking, Points, Goto, TypeInv,
                TypeOK, Work, KeyOf
    <3>1. CASE Refuse(w) \/ QuarantineBlocked(w) \/ Report(w)
      BY <3>1 DEF Refuse, QuarantineBlocked, Report, Leave
    <3>2. CASE ReadRecipe(w) \/ Bind(w) \/ Recheck(w) \/ CheckInitial(w)
      BY <3>2 DEF ReadRecipe, Bind, Recheck, CheckInitial
    <3>3. CASE Reserve(w) \/ PutApproved(w) \/ PutExecuting(w) \/ ClaimExecution(w)
      BY <3>3 DEF Reserve, PutApproved, PutExecuting, ClaimExecution
    <3>5. CASE Probe(w)
      BY <3>5 DEF Probe
    <3>4. CASE Withdrawn(w) \/ Verify(w) \/ PutFailed(w) \/ PutSucceeded(w)
      BY <3>4 DEF Withdrawn, Verify, PutFailed, PutSucceeded
    <3> QED
      BY <1>3, <3>1, <3>2, <3>3, <3>4, <3>5 DEF Advance
  <2> QED
    BY <2>1, <2>2, <2>3, <2>4, VersionFrame
<1> QED
  BY <1>1, <1>2, <1>3

LEMMA VersionStep ==
  ASSUME TypeInv, VersionInv, [Next]_vars
  PROVE  VersionInv'
<1>0. RegistryReadable' /\ registry.requests \subseteq registry'.requests
  BY RegistryStep DEF VersionInv
<1>1. CASE Revise \/ EditInput \/ (\E r \in Recipes : Activate(r)) \/ Decide
           \/ CrashRecovery \/ UNCHANGED vars
  <2>1. UNCHANGED <<executions, artifacts, pc, mem>> /\ recovery' \subseteq recovery
    BY <1>1 DEF Revise, EditInput, Activate, Decide, PrepareDecision, AppendDecision,
                CrashRecovery, vars, stores
  <2> QED
    BY <1>0, <2>1, VersionFrame DEF KeepsVersion, SameVersion, VersionsMove, StoresVersion
<1>2. ASSUME NEW w \in Workers,
             Crash(w) \/ \E r \in Recipes, b \in Rebuilds : Begin(w, r, b)
      PROVE  VersionInv'
  <2>1. UNCHANGED <<executions, artifacts, recovery>>
    BY <1>2 DEF Begin, Crash, stores
  <2>2. \A v \in Workers : KeepsVersion(v)
    BY <1>2 DEF Begin, Crash, Leave, Goto, KeepsVersion, SameVersion, Versioned, Owning, TypeInv, TypeOK
  <2> QED
    BY <1>0, <2>1, <2>2, VersionFrame DEF VersionsMove, StoresVersion
<1>3. ASSUME NEW w \in Workers, Advance(w)
      PROVE  VersionInv'
  BY <1>0, <1>3, AdvanceVersions
<1>4. ASSUME NEW k \in Keys, BeginRecovery(k)
      PROVE  VersionInv'
  <2>1. UNCHANGED <<executions, registry, pc, mem>>
        /\ recovery' = {[key |-> k, request |-> executions[k]]}
        /\ executions[k].state = "executing"
    BY <1>4 DEF BeginRecovery, Recoverable
  <2>2. VersionsMove
    BY <1>4, QuarantineKeepsVersions DEF BeginRecovery, TypeInv, TypeOK
  <2>3. RecoveryVersions'
    BY <2>1 DEF VersionInv, StoreVersions, RecoveryVersions, HasVersion
  <2>4. FileVersions'
    BY <2>1, <2>2 DEF VersionInv, FileVersions, VersionsMove, HasVersion
  <2> QED
    BY <1>0, <2>1, <2>3, <2>4 DEF VersionInv, StoreVersions, CallVersions, HasVersion
<1>5. ASSUME NEW c \in recovery, FinishRecovery(c)
      PROVE  VersionInv'
  <2>1. UNCHANGED <<artifacts, pc, mem>> /\ recovery' = {}
    BY <1>5 DEF FinishRecovery
  <2>2. c.key \in Keys /\ c.request \in Request /\ HasVersion(c.key, c.request.version)
    BY DEF TypeInv, TypeOK, VersionInv, RecoveryVersions
  <2>3. executions' = [executions EXCEPT ![c.key] = [c.request EXCEPT !.state = "failed"]]
    BY <1>5 DEF FinishRecovery, Put
  <2>4. \A k \in Keys \ {c.key} : executions'[k] = executions[k]
    BY <2>3 DEF TypeInv, TypeOK
  <2>5. executions'[c.key].state = "failed" /\ executions'[c.key].version = c.request.version
    BY <2>2, <2>3 DEF TypeInv, TypeOK, Request, L!Request
  <2> QED
    BY <1>0, <2>1, <2>2, <2>4, <2>5, VersionFrame DEF KeepsVersion, SameVersion, VersionsMove, StoresVersion
<1> QED
  BY <1>1, <1>2, <1>3, <1>4, <1>5 DEF Next, Recover

LEMMA VersionInit == Init => VersionInv
BY DEF Init, VersionInv, RegistryReadable, StoreVersions, CallVersions, RecoveryVersions,
       FileVersions, Versioned, Owning, L!NoRequest

\* Two keys never share a result directory, whatever the operator recovers.
THEOREM OneKeyPerDirectory == Spec => []DirectoryHasOneKey
<1>1. TypeInv /\ VersionInv /\ [Next]_vars => TypeInv' /\ VersionInv'
  BY NextTypes, VersionStep
<1>2. VersionInv => DirectoryHasOneKey
  BY OneKey DEF VersionInv, FileVersions, DirectoryHasOneKey
<1> QED
  BY <1>1, <1>2, InitTypes, VersionInit, PTL DEF Spec

(***************************************************************************)
(* The store implements ExecutionLifecycle: every write is one step of the *)
(* life cycle of its key.                                                  *)
(***************************************************************************)
AllInv == TypeInv /\ BindingInv /\ OwnerInv /\ VersionInv

LEMMA AllInit == Init => AllInv
BY InitTypes, BindingInit, VersionInit
   DEF AllInv, Init, OwnerInv, OwnersHold, InFlightNotRerun, RecoveryHolds, Owning

LEMMA AllStep ==
  ASSUME ~RecoverLive, AllInv, [Next]_vars
  PROVE  AllInv'
BY NextTypes, BindingStep, OwnerStep, VersionStep DEF AllInv

LEMMA KeyStep ==
  ASSUME executions \in [Keys -> Request], NEW k \in Keys, NEW r, Put(k, r), L!Step(executions[k], r)
  PROVE  L!Next
<1>1. executions'[k] = r /\ DOMAIN executions' = Keys
      /\ \A j \in Keys \ {k} : executions'[j] = executions[j]
  BY DEF Put
<1> QED
  BY <1>1 DEF L!Next

LEMMA ReserveImplements ==
  ASSUME AllInv, NEW w \in Workers, Reserve(w)
  PROVE  L!Next
<1> DEFINE k == KeyOf(mem[w])
           r == executions[k]
<1>1. k \in Keys /\ executions \in [Keys -> Request] /\ mem[w].version \in Nat
  BY KeyOfType DEF AllInv, TypeInv, TypeOK, Reserve, Work
<1>2. HasVersion(k, mem[w].version)
  BY DEF AllInv, VersionInv, CallVersions, Versioned, Reserve
<1>3. Held(w, "requested") = [state |-> "requested", attempt |-> mem[w].attempt,
                              version |-> mem[w].version, approval |-> 0]
  BY DEF Held
<1>4. CASE r.state = "none" /\ mem[w].attempt = 1
  <2>1. r = L!NoRequest
    BY <1>1, <1>4 DEF AllInv, VersionInv, StoreVersions
  <2>2. mem[w].version > 0
    BY <1>1, <1>2 DEF HasVersion, AllInv, VersionInv, RegistryReadable
  <2> QED
    BY <1>1, <1>3, <1>4, <2>1, <2>2, KeyStep DEF L!Step, L!FirstAttempt, Reserve
<1>5. CASE r.state = "failed" /\ mem[w].attempt = r.attempt + 1
  <2>1. HasVersion(k, r.version)
    BY <1>1, <1>5 DEF AllInv, VersionInv, StoreVersions
  <2>2. r.version = mem[w].version
    BY <1>2, <2>1, OneVersion DEF AllInv, VersionInv
  <2> QED
    BY <1>1, <1>3, <1>5, <2>2, KeyStep DEF L!Step, L!Retry, Reserve
<1> QED
  BY <1>4, <1>5 DEF Reserve, Reservable

LEMMA PutsImplement ==
  ASSUME AllInv, NEW w \in Workers, pc[w] \in Owning, NEW s \in {"approved", "executing", "succeeded", "failed"},
         Put(KeyOf(mem[w]), Held(w, s)),
         \/ StoredState(pc[w]) = "requested" /\ s = "approved"
         \/ StoredState(pc[w]) = "approved" /\ s = "executing"
         \/ StoredState(pc[w]) = "executing" /\ s \in {"succeeded", "failed"}
  PROVE  L!Next
<1> DEFINE k == KeyOf(mem[w])
           r == executions[k]
<1>1. k \in Keys /\ executions \in [Keys -> Request]
  BY KeyOfType DEF AllInv, TypeInv, TypeOK, Owning
<1>4. mem[w].approval > 0
  <2>1. mem[w].approval \in 1..Len(decisions)
    BY DEF AllInv, BindingInv, WorkBound, WorkerBound, Owning
  <2> QED
    BY <2>1
<1>2. r = Held(w, StoredState(pc[w]))
  BY DEF AllInv, OwnerInv, OwnersHold
<1>3. L!Step(r, Held(w, s))
  <2>1. r = [state |-> StoredState(pc[w]), attempt |-> mem[w].attempt, version |-> mem[w].version,
             approval |-> IF StoredState(pc[w]) = "requested" THEN 0 ELSE mem[w].approval]
    BY <1>2 DEF Held
  <2>2. Held(w, s) = [state |-> s, attempt |-> mem[w].attempt, version |-> mem[w].version,
                      approval |-> mem[w].approval]
    BY DEF Held
  <2> HIDE DEF r
  <2>3. CASE StoredState(pc[w]) = "requested" /\ s = "approved"
    BY <1>4, <2>1, <2>2, <2>3 DEF L!Step, L!Approve
  <2>4. CASE StoredState(pc[w]) = "approved" /\ s = "executing"
    BY <2>1, <2>2, <2>4 DEF L!Step, L!Start
  <2>5. CASE StoredState(pc[w]) = "executing" /\ s \in {"succeeded", "failed"}
    BY <2>1, <2>2, <2>5 DEF L!Step, L!Finish
  <2> QED
    BY <2>3, <2>4, <2>5
<1> QED
  BY <1>1, <1>3, KeyStep

LEMMA LifecycleStep ==
  ASSUME ~RecoverLive, AllInv, [Next]_vars
  PROVE  [L!Next]_executions
<1>1. CASE UNCHANGED executions
  BY <1>1
<1>2. ASSUME NEW w \in Workers, Reserve(w)
      PROVE  L!Next
  BY <1>2, ReserveImplements
<1>3. ASSUME NEW w \in Workers, PutApproved(w) \/ PutExecuting(w)
      PROVE  L!Next
  BY <1>3, PutsImplement DEF PutApproved, PutExecuting, StoredState, Owning
<1>4. ASSUME NEW w \in Workers, Withdrawn(w) \/ PutFailed(w) \/ PutSucceeded(w)
      PROVE  L!Next
  BY <1>4, PutsImplement DEF Withdrawn, PutFailed, PutSucceeded, StoredState, Owning
<1>5. ASSUME NEW c \in recovery, FinishRecovery(c)
      PROVE  L!Next
  <2>1. c.key \in Keys /\ executions[c.key] = c.request /\ c.request.state = "executing"
        /\ executions \in [Keys -> Request]
    BY DEF AllInv, TypeInv, TypeOK, OwnerInv, RecoveryHolds
  <2>2. L!Step(executions[c.key], [c.request EXCEPT !.state = "failed"])
    BY <2>1 DEF L!Step, L!Finish
  <2> QED
    BY <1>5, <2>1, <2>2, KeyStep DEF FinishRecovery
<1>6. \/ UNCHANGED executions
      \/ \E w \in Workers : Reserve(w) \/ PutApproved(w) \/ PutExecuting(w) \/ Withdrawn(w)
                            \/ PutFailed(w) \/ PutSucceeded(w)
      \/ \E c \in recovery : FinishRecovery(c)
  BY DEF Next, Advance, Decide, Recover, Revise, EditInput, Activate, PrepareDecision,
         AppendDecision, Begin, ReadRecipe, Bind, Recheck, CheckInitial, TakeVersion, Probe,
         Refuse, ClaimExecution, Dispatch, Verify, QuarantineBlocked, Report, Crash,
         BeginRecovery, CrashRecovery, vars, stores
<1> QED
  BY <1>1, <1>2, <1>3, <1>4, <1>5, <1>6

\* Refinement: whatever the calls, decisions, activations and crashes do, each
\* record of state/executions lives by the abstract life cycle.
THEOREM StoreImplementsLifecycle == ~RecoverLive => (Spec => Lifecycle)
<1> SUFFICES ASSUME ~RecoverLive
             PROVE  Spec => Lifecycle
  OBVIOUS
<1>1. Init => L!Init
  BY DEF Init, L!Init
<1>2. AllInv /\ [Next]_vars => AllInv' /\ [L!Next]_executions
  BY AllStep, LifecycleStep
<1> QED
  BY <1>1, <1>2, AllInit, PTL DEF Spec, Lifecycle, L!Spec

-----------------------------------------------------------------------------
(***************************************************************************)
(* Proofs about the files an execution leaves behind: what a succeeded key *)
(* points at is in place, a failing call finds room in the quarantine, and *)
(* no attempt is reported both as passed and as failed.                    *)
(*                                                                         *)
(* A file is never newer than the stored attempt of its key; a file of the *)
(* stored attempt exists only once that attempt is executing, carries its  *)
(* approval, and is in quarantine only if the attempt has failed or nobody *)
(* runs it any more.                                                       *)
(***************************************************************************)

Current(a) == a.attempt = executions[a.key].attempt

FileAge(a) ==
  /\ a.attempt <= executions[a.key].attempt
  /\ Current(a) => /\ executions[a.key].state \in {"executing", "succeeded", "failed"}
                   /\ a.approval = executions[a.key].approval
  /\ Current(a) /\ a.place = "quarantine" =>
       \/ executions[a.key].state = "failed"
       \/ executions[a.key].state = "executing" /\ \A w \in Workers : ~Owns(w, a.key)

FileAges == \A a \in artifacts : FileAge(a)

\* Before its dispatch a call has no file; once verified it has its file in place.
NoFileYet(w) == \A a \in artifacts : a.key = KeyOf(mem[w]) => a.attempt # mem[w].attempt
FileInPlace(w) == \E a \in artifacts :
  /\ a.key = KeyOf(mem[w]) /\ a.place = "result" /\ a.version = mem[w].version
  /\ a.attempt = mem[w].attempt /\ a.approval = mem[w].approval

CallFiles ==
  \A w \in Workers : /\ pc[w] \in {"executing", "claimed"} => NoFileYet(w)
                     /\ pc[w] = "passed" => FileInPlace(w)

FilesInv == FileAges /\ CallFiles /\ SucceededInPlace

LEMMA OwnerFacts ==
  ASSUME AllInv, NEW w \in Workers, pc[w] \in Owning
  PROVE  /\ KeyOf(mem[w]) \in Keys
         /\ executions[KeyOf(mem[w])] = Held(w, StoredState(pc[w]))
         /\ HasVersion(KeyOf(mem[w]), mem[w].version)
         /\ mem[w].attempt \in Nat /\ mem[w].version \in Nat
         /\ executions[KeyOf(mem[w])].attempt = mem[w].attempt
         /\ executions[KeyOf(mem[w])].state = StoredState(pc[w])
         /\ StoredState(pc[w]) # "requested" => executions[KeyOf(mem[w])].approval = mem[w].approval
<1>1. KeyOf(mem[w]) \in Keys
  BY KeyOfType DEF AllInv, Owning
<1>2. executions[KeyOf(mem[w])] = Held(w, StoredState(pc[w]))
  BY DEF AllInv, OwnerInv, OwnersHold
<1>3. HasVersion(KeyOf(mem[w]), mem[w].version)
  BY DEF AllInv, VersionInv, CallVersions, Versioned
<1>4. mem[w].attempt \in Nat /\ mem[w].version \in Nat
  BY DEF AllInv, TypeInv, TypeOK, Work
<1> QED
  BY <1>1, <1>2, <1>3, <1>4 DEF Held

\* The files a quarantine of version v, attempt n moves are those of one key.
LEMMA DirIsOfKey ==
  ASSUME AllInv, NEW k \in Keys, NEW v, NEW n, HasVersion(k, v), NEW p, NEW a \in Dir(v, n, p)
  PROVE  a \in artifacts /\ a.key = k /\ a.attempt = n /\ a.version = v /\ a.place = p
<1>1. a \in artifacts /\ a.version = v /\ a.attempt = n /\ a.place = p
  BY DEF Dir
<1>2. HasVersion(a.key, v)
  BY <1>1 DEF AllInv, VersionInv, FileVersions
<1>3. a.key = k
  BY <1>2, OneKey DEF AllInv, VersionInv
<1> QED
  BY <1>1, <1>3

LEMMA RoomForFailure ==
  ASSUME AllInv, FilesInv
  PROVE  QuarantineHasRoom
<1> SUFFICES ASSUME NEW w \in Workers, pc[w] = "failing",
                    NEW a \in Dir(mem[w].version, mem[w].attempt, "quarantine")
             PROVE  FALSE
  BY DEF QuarantineHasRoom, CanQuarantine
<1>1. pc[w] \in Owning
  BY DEF Owning
<1>2. a \in artifacts /\ a.key = KeyOf(mem[w]) /\ a.attempt = mem[w].attempt /\ a.place = "quarantine"
  BY <1>1, OwnerFacts, DirIsOfKey
<1>3. Current(a) /\ executions[a.key].state = "executing"
  BY <1>1, <1>2, OwnerFacts DEF Current, StoredState
<1>4. \A v \in Workers : ~Owns(v, a.key)
  BY <1>2, <1>3 DEF FilesInv, FileAges, FileAge
<1> QED
  BY <1>1, <1>2, <1>4 DEF Owns

\* Steps that neither write the store nor move a file.
KeepsFiles(w) ==
  /\ pc'[w] \in Owning => pc[w] \in Owning /\ SameHold(w)
  /\ pc'[w] \in {"executing", "claimed"} => pc[w] \in {"executing", "claimed"}
  /\ pc'[w] = "passed" => pc[w] = "passed"

LEMMA FilesFrame ==
  ASSUME FilesInv, UNCHANGED <<executions, artifacts>>, \A w \in Workers : KeepsFiles(w)
  PROVE  FilesInv'
<1>1. FileAges'
  BY DEF FilesInv, FileAges, FileAge, Current, KeepsFiles, Owns, SameHold
<1>2. CallFiles'
  <2>1. ASSUME NEW w \in Workers, pc'[w] \in {"executing", "claimed"}
        PROVE  NoFileYet(w)'
    BY <2>1 DEF FilesInv, CallFiles, NoFileYet, KeepsFiles, SameHold, Owning
  <2>2. ASSUME NEW w \in Workers, pc'[w] = "passed"
        PROVE  FileInPlace(w)'
    BY <2>2 DEF FilesInv, CallFiles, FileInPlace, KeepsFiles, SameHold, Owning
  <2> QED
    BY <2>1, <2>2 DEF CallFiles
<1>3. SucceededInPlace'
  BY DEF FilesInv, SucceededInPlace
<1> QED
  BY <1>1, <1>2, <1>3 DEF FilesInv

\* Steps of w that write the record of its key and move no file.
OnlyCall(w) == \A v \in Workers \ {w} : pc'[v] = pc[v] /\ mem'[v] = mem[v]
OnlyKey(k)  == \A j \in Keys \ {k} : executions'[j] = executions[j]
ResultOf(k) == \E a \in artifacts :
  /\ a.key = k /\ a.place = "result"
  /\ a.version = executions[k].version /\ a.attempt = executions[k].attempt
  /\ a.approval = executions[k].approval

LEMMA FilesPut ==
  ASSUME FilesInv, artifacts \subseteq Artifact, UNCHANGED artifacts,
         NEW w \in Workers, NEW k \in Keys, KeyOf(mem[w]) = k, SameHold(w), OnlyCall(w), OnlyKey(k),
         \A a \in artifacts : a.key = k => FileAge(a)',
         pc'[w] \in {"executing", "claimed"} => NoFileYet(w), pc'[w] # "passed",
         executions'[k].state = "succeeded" => ResultOf(k)'
  PROVE  FilesInv'
<1>1. FileAges'
  <2>1. ASSUME NEW a \in artifacts, a.key # k
        PROVE  FileAge(a)'
    <3>1. a.key \in Keys /\ executions'[a.key] = executions[a.key]
      BY <2>1 DEF Artifact, OnlyKey
    <3>2. \A v \in Workers : Owns(v, a.key)' => Owns(v, a.key)
      BY <2>1 DEF Owns, OnlyCall, SameHold
    <3> QED
      BY <3>1, <3>2 DEF FilesInv, FileAges, FileAge, Current
  <2> QED
    BY <2>1 DEF FileAges
<1>2. CallFiles'
  <2>1. ASSUME NEW v \in Workers, v # w
        PROVE  /\ pc'[v] \in {"executing", "claimed"} => NoFileYet(v)'
               /\ pc'[v] = "passed" => FileInPlace(v)'
    BY <2>1 DEF FilesInv, CallFiles, OnlyCall, NoFileYet, FileInPlace
  <2>2. pc'[w] \in {"executing", "claimed"} => NoFileYet(w)'
    BY DEF NoFileYet, SameHold
  <2> QED
    BY <2>1, <2>2 DEF CallFiles
<1>3. SucceededInPlace'
  BY DEF FilesInv, SucceededInPlace, OnlyKey, ResultOf
<1> QED
  BY <1>1, <1>2, <1>3 DEF FilesInv

\* Steps that move the files of version v, attempt n of key k to the quarantine.
LEMMA FilesQuarantined ==
  ASSUME AllInv, FilesInv, NEW k \in Keys, NEW v, NEW n, HasVersion(k, v),
         artifacts' = Quarantined(v, n), OnlyKey(k), executions[k].attempt = n,
         executions'[k].attempt = n, executions'[k].approval = executions[k].approval,
         \/ executions'[k].state = "failed"
         \/ /\ executions'[k].state = "executing"
            /\ \A w \in Workers : ~Owns(w, k)',
         \A w \in Workers : pc'[w] \in Owning => KeepsFiles(w) /\ KeyOf(mem[w]) # k
  PROVE  FilesInv'
<1>0. artifacts \subseteq Artifact
  BY DEF AllInv, TypeInv, TypeOK
<1>1. ASSUME NEW a \in artifacts'
      PROVE  \/ a \in artifacts
             \/ \E b \in artifacts : /\ SameOrigin(a, b) /\ a.attempt = b.attempt
                                     /\ a.version = b.version /\ b.key = k /\ b.attempt = n
  <2>1. CASE a \notin artifacts
    <3>1. PICK b \in Dir(v, n, "result") : a = [b EXCEPT !.place = "quarantine"]
      BY <2>1 DEF Quarantined
    <3>2. b \in artifacts /\ b.key = k /\ b.attempt = n
      BY DirIsOfKey
    <3> QED
      BY <1>0, <3>1, <3>2 DEF SameOrigin, Artifact
  <2> QED
    BY <2>1
<1>2. \A a \in artifacts : a.key # k => a \in artifacts'
  BY DirIsOfKey DEF Quarantined
<1>3. FileAges'
  <2>1. ASSUME NEW a \in artifacts', a.key # k
        PROVE  FileAge(a)'
    <3>1. a \in artifacts /\ a.key \in Keys /\ executions'[a.key] = executions[a.key]
      BY <1>0, <1>1, <2>1 DEF SameOrigin, OnlyKey, Artifact
    <3>2. \A w \in Workers : Owns(w, a.key)' => Owns(w, a.key)
      BY DEF Owns, KeepsFiles, SameHold
    <3> QED
      BY <3>1, <3>2 DEF FilesInv, FileAges, FileAge, Current
  <2>2. ASSUME NEW a \in artifacts', a.key = k
        PROVE  FileAge(a)'
    <3>1. PICK b \in artifacts : /\ b.key = k /\ a.attempt = b.attempt /\ a.approval = b.approval
      BY <1>1, <2>2 DEF SameOrigin
    <3>2. FileAge(b)
      BY DEF FilesInv, FileAges
    <3> QED
      BY <2>2, <3>1, <3>2 DEF FileAge, Current
  <2> QED
    BY <2>1, <2>2 DEF FileAges
<1>4. CallFiles'
  <2>1. ASSUME NEW w \in Workers, pc'[w] \in {"executing", "claimed"}
        PROVE  NoFileYet(w)'
    <3>1. pc[w] \in {"executing", "claimed"} /\ SameHold(w) /\ NoFileYet(w) /\ KeyOf(mem[w]) # k
      BY <2>1 DEF KeepsFiles, Owning, FilesInv, CallFiles
    <3> QED
      BY <1>1, <3>1 DEF NoFileYet, SameHold, SameOrigin
  <2>2. ASSUME NEW w \in Workers, pc'[w] = "passed"
        PROVE  FileInPlace(w)'
    <3>1. pc[w] = "passed" /\ SameHold(w) /\ FileInPlace(w) /\ KeyOf(mem[w]) # k
      BY <2>2 DEF KeepsFiles, Owning, FilesInv, CallFiles
    <3> QED
      BY <1>2, <3>1 DEF FileInPlace, SameHold
  <2> QED
    BY <2>1, <2>2 DEF CallFiles
<1>5. SucceededInPlace'
  BY <1>2 DEF FilesInv, SucceededInPlace, OnlyKey
<1> QED
  BY <1>3, <1>4, <1>5 DEF FilesInv

\* The owner of a key writes its record: what FilesPut asks of the rest.
LEMMA PutEffect ==
  ASSUME AllInv, NEW w \in Workers, NEW k \in Keys, NEW r, NEW p, KeyOf(mem[w]) = k,
         Put(k, r), pc' = [pc EXCEPT ![w] = p],
         mem' = mem \/ \E o : mem' = [mem EXCEPT ![w].outcome = o]
  PROVE  /\ executions'[k] = r /\ OnlyKey(k) /\ OnlyCall(w) /\ SameHold(w) /\ pc'[w] = p
         /\ artifacts \subseteq Artifact
BY DEF AllInv, TypeInv, TypeOK, Put, OnlyKey, OnlyCall, SameHold, KeyOf, Work

LEMMA ReserveFiles ==
  ASSUME AllInv, FilesInv, NEW w \in Workers, Reserve(w)
  PROVE  FilesInv'
<1> DEFINE k == KeyOf(mem[w])
<1>1. k \in Keys /\ executions[k].attempt \in Nat /\ mem[w].attempt \in Nat
  BY KeyOfType DEF AllInv, TypeInv, TypeOK, Reserve, Request, L!Request, Work
<1>2. /\ executions'[k] = Held(w, "requested") /\ OnlyKey(k) /\ OnlyCall(w) /\ SameHold(w)
      /\ pc'[w] = "requested" /\ artifacts \subseteq Artifact /\ UNCHANGED artifacts
  BY <1>1, PutEffect DEF Reserve, Goto
<1>3. executions'[k].attempt = mem[w].attempt /\ executions'[k].state = "requested"
  BY <1>2 DEF Held
<1>4. executions[k].attempt < mem[w].attempt
  <2>1. CASE executions[k].state = "none" /\ mem[w].attempt = 1
    BY <1>1, <2>1 DEF AllInv, VersionInv, StoreVersions, L!NoRequest
  <2>2. CASE mem[w].attempt = executions[k].attempt + 1
    BY <1>1, <2>2
  <2> QED
    BY <2>1, <2>2 DEF Reserve, Reservable
<1>5. ASSUME NEW a \in artifacts, a.key = k
      PROVE  FileAge(a)'
  <2>1. a.attempt <= executions[k].attempt /\ a.attempt \in Nat
    BY <1>2, <1>5 DEF FilesInv, FileAges, FileAge, Artifact
  <2>2. a.attempt < executions'[k].attempt
    BY <1>1, <1>3, <1>4, <2>1
  <2> QED
    BY <1>1, <1>3, <1>5, <2>1, <2>2 DEF FileAge, Current
<1> QED
  BY <1>1, <1>2, <1>3, <1>5, FilesPut

LEMMA StartFiles ==
  ASSUME AllInv, FilesInv, NEW w \in Workers, PutApproved(w) \/ PutExecuting(w)
  PROVE  FilesInv'
<1>1. pc[w] \in {"requested", "approved"} /\ pc[w] \in Owning /\ UNCHANGED artifacts
  BY DEF PutApproved, PutExecuting, Owning
<1>0. PICK k \in Keys : k = KeyOf(mem[w])
  BY <1>1, OwnerFacts
<1>2. executions[k].attempt = mem[w].attempt
      /\ executions[k].state \in {"requested", "approved"}
  BY <1>0, <1>1, OwnerFacts DEF StoredState
<1>3. PICK s \in {"approved", "executing"} : Put(k, Held(w, s)) /\ pc' = [pc EXCEPT ![w] = s] /\ mem' = mem
  BY <1>0 DEF PutApproved, PutExecuting, Goto
<1>4. /\ executions'[k] = Held(w, s) /\ OnlyKey(k) /\ OnlyCall(w) /\ SameHold(w)
      /\ pc'[w] = s /\ artifacts \subseteq Artifact
  BY <1>0, <1>3, PutEffect
<1>5. executions'[k].attempt = mem[w].attempt /\ executions'[k].state = s
  BY <1>4 DEF Held
<1>6. NoFileYet(w)
  BY <1>0, <1>2 DEF NoFileYet, FilesInv, FileAges, FileAge, Current
<1>7. ASSUME NEW a \in artifacts, a.key = k
      PROVE  FileAge(a)'
  BY <1>0, <1>2, <1>5, <1>6, <1>7 DEF NoFileYet, FilesInv, FileAges, FileAge, Current
<1> QED
  BY <1>0, <1>1, <1>2, <1>3, <1>4, <1>5, <1>6, <1>7, FilesPut

LEMMA WithdrawnFiles ==
  ASSUME AllInv, FilesInv, NEW w \in Workers, Withdrawn(w)
  PROVE  FilesInv'
<1> DEFINE k == KeyOf(mem[w])
<1>1. pc[w] = "executing" /\ pc[w] \in Owning /\ UNCHANGED artifacts
  BY DEF Withdrawn, Owning
<1>2. k \in Keys /\ executions[k].attempt = mem[w].attempt
  BY <1>1, OwnerFacts
<1>3. /\ executions'[k] = Held(w, "failed") /\ OnlyKey(k) /\ OnlyCall(w) /\ SameHold(w)
      /\ pc'[w] = "report" /\ artifacts \subseteq Artifact
  BY <1>2, PutEffect DEF Withdrawn, Goto
<1>4. executions'[k].attempt = mem[w].attempt /\ executions'[k].state = "failed"
  BY <1>3 DEF Held
<1>5. NoFileYet(w)
  BY <1>1 DEF FilesInv, CallFiles
<1>6. ASSUME NEW a \in artifacts, a.key = k
      PROVE  FileAge(a)'
  BY <1>2, <1>4, <1>5, <1>6 DEF NoFileYet, FilesInv, FileAges, FileAge, Current
<1> QED
  BY <1>1, <1>2, <1>3, <1>4, <1>6, FilesPut

LEMMA SucceededFiles ==
  ASSUME AllInv, FilesInv, NEW w \in Workers, PutSucceeded(w)
  PROVE  FilesInv'
<1>1. pc[w] = "passed" /\ pc[w] \in Owning /\ UNCHANGED artifacts
  BY DEF PutSucceeded, Owning
<1>0. PICK k \in Keys : k = KeyOf(mem[w])
  BY <1>1, OwnerFacts
<1>2. executions[k].attempt = mem[w].attempt
      /\ executions[k].state = "executing" /\ executions[k].approval = mem[w].approval
  BY <1>0, <1>1, OwnerFacts DEF StoredState
<1>3. /\ executions'[k] = Held(w, "succeeded") /\ OnlyKey(k) /\ OnlyCall(w) /\ SameHold(w)
      /\ pc'[w] = "report" /\ artifacts \subseteq Artifact
  <2>1. /\ Put(k, Held(w, "succeeded")) /\ pc' = [pc EXCEPT ![w] = "report"]
        /\ \E o : mem' = [mem EXCEPT ![w].outcome = o]
    BY <1>0 DEF PutSucceeded, Goto
  <2> QED
    BY <1>0, <2>1, PutEffect
<1>4. /\ executions'[k].attempt = mem[w].attempt /\ executions'[k].state = "succeeded"
      /\ executions'[k].approval = mem[w].approval /\ executions'[k].version = mem[w].version
  BY <1>3 DEF Held
<1>5. ResultOf(k)'
  <2>1. PICK a \in artifacts : /\ a.key = k /\ a.place = "result" /\ a.version = mem[w].version
                                /\ a.attempt = mem[w].attempt /\ a.approval = mem[w].approval
    BY <1>0, <1>1 DEF FilesInv, CallFiles, FileInPlace
  <2> QED
    BY <1>1, <1>4, <2>1 DEF ResultOf
<1>6. ASSUME NEW a \in artifacts, a.key = k
      PROVE  FileAge(a)'
  <2>1. FileAge(a) /\ Owns(w, k)
    BY <1>0, <1>1 DEF FilesInv, FileAges, Owns
  <2> QED
    BY <1>2, <1>4, <1>6, <2>1 DEF FileAge, Current
<1> QED
  BY <1>0, <1>1, <1>2, <1>3, <1>5, <1>6, FilesPut

LEMMA DispatchFiles ==
  ASSUME AllInv, FilesInv, NEW w \in Workers, Dispatch(w)
  PROVE  FilesInv'
<1>1. pc[w] = "claimed" /\ pc[w] \in Owning /\ UNCHANGED <<executions, mem>> /\ OnlyCall(w)
      /\ pc'[w] \in {"verify", "failing"}
  BY DEF Dispatch, Owning, Goto, OnlyCall, AllInv, TypeInv, TypeOK
<1>2. CASE UNCHANGED artifacts
  BY <1>1, <1>2, FilesFrame DEF KeepsFiles, SameHold, OnlyCall
<1>3. CASE artifacts' = artifacts \cup {Output(w)}
  <2>0. PICK k \in Keys : k = KeyOf(mem[w])
    BY <1>1, OwnerFacts
  <2>1. PICK o : /\ artifacts' = artifacts \cup {o}
                 /\ o.key = k /\ o.attempt = mem[w].attempt /\ o.place = "result"
                 /\ o.approval = mem[w].approval
    <3>1. /\ Output(w).key = k /\ Output(w).attempt = mem[w].attempt
          /\ Output(w).place = "result" /\ Output(w).approval = mem[w].approval
      BY <2>0 DEF Output
    <3> QED
      BY <1>3, <3>1
  <2>2. /\ executions[k].attempt = mem[w].attempt /\ executions[k].state = "executing"
        /\ executions[k].approval = mem[w].approval /\ mem[w].attempt \in Nat
    BY <1>1, <2>0, OwnerFacts DEF StoredState
  <2>3. ASSUME NEW a \in artifacts
        PROVE  FileAge(a)'
    <3>1. \A v \in Workers : Owns(v, a.key)' => Owns(v, a.key)
      BY <1>1 DEF Owns, OnlyCall
    <3> QED
      BY <1>1, <3>1 DEF FilesInv, FileAges, FileAge, Current
  <2>4. FileAge(o)'
    BY <1>1, <2>1, <2>2 DEF FileAge, Current
  <2>5. FileAges'
    BY <2>1, <2>3, <2>4 DEF FileAges
  <2>6. CallFiles'
    <3>1. ASSUME NEW v \in Workers, v # w, pc[v] \in Owning
          PROVE  KeyOf(mem[v]) # k
      BY <1>1, <2>0, <3>1 DEF AllInv, OwnerInv, InFlightNotRerun
    <3>2. ASSUME NEW v \in Workers, pc'[v] \in {"executing", "claimed"}
          PROVE  NoFileYet(v)'
      BY <1>1, <1>3, <2>1, <3>1, <3>2 DEF FilesInv, CallFiles, NoFileYet, OnlyCall, Owning
    <3>3. ASSUME NEW v \in Workers, pc'[v] = "passed"
          PROVE  FileInPlace(v)'
      BY <1>1, <1>3, <3>3 DEF FilesInv, CallFiles, FileInPlace, OnlyCall
    <3> QED
      BY <3>2, <3>3 DEF CallFiles
  <2>7. SucceededInPlace'
    BY <1>1, <1>3 DEF FilesInv, SucceededInPlace
  <2> QED
    BY <2>5, <2>6, <2>7 DEF FilesInv
<1> QED
  BY <1>2, <1>3 DEF Dispatch

LEMMA VerifyFiles ==
  ASSUME AllInv, FilesInv, NEW w \in Workers, Verify(w)
  PROVE  FilesInv'
<1>1. pc[w] = "verify" /\ pc[w] \in Owning /\ UNCHANGED <<executions, artifacts>> /\ OnlyCall(w)
  BY DEF Verify, Owning, Goto, OnlyCall, AllInv, TypeInv, TypeOK, stores
<1>2. CASE pc'[w] = "failing"
  <2>1. SameHold(w)
    BY DEF Verify, SameHold, KeyOf, AllInv, TypeInv, TypeOK, Work
  <2> QED
    BY <1>1, <1>2, <2>1, FilesFrame DEF KeepsFiles, SameHold, OnlyCall
<1>3. CASE Dir(mem[w].version, mem[w].attempt, "result") # {} /\ pc'[w] = "passed" /\ mem' = mem
  <2>1. PICK a : a \in Dir(mem[w].version, mem[w].attempt, "result")
    BY <1>3
  <2>2. /\ a \in artifacts /\ a.key = KeyOf(mem[w]) /\ a.attempt = mem[w].attempt
        /\ a.version = mem[w].version /\ a.place = "result"
    BY <1>1, <2>1, OwnerFacts, DirIsOfKey
  <2>3. a.approval = mem[w].approval
    BY <1>1, <2>2, OwnerFacts DEF FilesInv, FileAges, FileAge, Current, StoredState
  <2>4. CallFiles'
    BY <1>1, <1>3, <2>2, <2>3 DEF FilesInv, CallFiles, NoFileYet, FileInPlace, OnlyCall
  <2>5. FileAges'
    <3>1. \A v \in Workers, k \in Keys : Owns(v, k)' => Owns(v, k)
      BY <1>1, <1>3 DEF Owns, OnlyCall
    <3>2. artifacts \subseteq Artifact
      BY DEF AllInv, TypeInv, TypeOK
    <3> QED
      BY <1>1, <3>1, <3>2 DEF FilesInv, FileAges, FileAge, Current, Artifact
  <2> QED
    BY <1>1, <2>4, <2>5 DEF FilesInv, SucceededInPlace
<1> QED
  BY <1>1, <1>2, <1>3 DEF Verify, Goto, AllInv, TypeInv, TypeOK

LEMMA FailedFiles ==
  ASSUME AllInv, FilesInv, NEW w \in Workers, PutFailed(w)
  PROVE  FilesInv'
<1>1. pc[w] = "failing" /\ pc[w] \in Owning /\ artifacts' = Quarantined(mem[w].version, mem[w].attempt)
  BY DEF PutFailed, Owning
<1>0. PICK k \in Keys : k = KeyOf(mem[w])
  BY <1>1, OwnerFacts
<1>2. /\ executions[k].attempt = mem[w].attempt /\ HasVersion(k, mem[w].version)
      /\ executions[k].approval = mem[w].approval
  BY <1>0, <1>1, OwnerFacts DEF StoredState
<1>3. /\ executions'[k] = Held(w, "failed") /\ OnlyKey(k) /\ OnlyCall(w) /\ pc'[w] = "report"
  <2>1. /\ Put(k, Held(w, "failed")) /\ pc' = [pc EXCEPT ![w] = "report"]
        /\ \E o : mem' = [mem EXCEPT ![w].outcome = o]
    BY <1>0 DEF PutFailed, Goto
  <2> QED
    BY <1>0, <2>1, PutEffect
<1>4. /\ executions'[k].attempt = mem[w].attempt /\ executions'[k].state = "failed"
      /\ executions'[k].approval = mem[w].approval
  BY <1>3 DEF Held
<1>5. ASSUME NEW v \in Workers
      PROVE  \/ KeepsFiles(v) /\ (pc'[v] \in Owning => KeyOf(mem[v]) # k)
             \/ pc'[v] \notin Owning
  <2>1. CASE v = w
    BY <1>3, <2>1 DEF Owning
  <2>2. CASE v # w
    BY <1>0, <1>1, <1>3, <2>2
       DEF OnlyCall, KeepsFiles, SameHold, AllInv, OwnerInv, InFlightNotRerun
  <2> QED
    BY <2>1, <2>2
<1> QED
  BY <1>1, <1>2, <1>3, <1>4, <1>5, FilesQuarantined

LEMMA AdvanceFiles ==
  ASSUME AllInv, FilesInv, NEW w \in Workers, Advance(w)
  PROVE  FilesInv'
<1>1. CASE Reserve(w)
  BY <1>1, ReserveFiles
<1>2. CASE PutApproved(w) \/ PutExecuting(w)
  BY <1>2, StartFiles
<1>3. CASE Withdrawn(w)
  BY <1>3, WithdrawnFiles
<1>4. CASE Dispatch(w)
  BY <1>4, DispatchFiles
<1>5. CASE Verify(w)
  BY <1>5, VerifyFiles
<1>6. CASE PutFailed(w)
  BY <1>6, FailedFiles
<1>7. CASE PutSucceeded(w)
  BY <1>7, SucceededFiles
<1>8. CASE \/ ReadRecipe(w) \/ Bind(w) \/ Recheck(w) \/ CheckInitial(w) \/ TakeVersion(w)
           \/ Probe(w) \/ Refuse(w) \/ ClaimExecution(w) \/ QuarantineBlocked(w) \/ Report(w)
  <2>1. UNCHANGED <<executions, artifacts>>
    BY <1>8 DEF ReadRecipe, Bind, Recheck, CheckInitial, TakeVersion, Probe, Refuse,
                ClaimExecution, QuarantineBlocked, Report, stores
  <2>2. ASSUME NEW v \in Workers
        PROVE  KeepsFiles(v)
    <3> USE DEF KeepsFiles, SameHold, Owning, Goto, AllInv, TypeInv, TypeOK
    <3>1. CASE Refuse(w) \/ QuarantineBlocked(w) \/ Report(w)
      BY <3>1 DEF Refuse, QuarantineBlocked, Report, Leave
    <3>2. CASE ReadRecipe(w) \/ Bind(w) \/ Recheck(w) \/ CheckInitial(w) \/ TakeVersion(w) \/ Probe(w)
      BY <3>2 DEF ReadRecipe, Bind, Recheck, CheckInitial, TakeVersion, Probe
    <3>3. CASE ClaimExecution(w)
      BY <3>3 DEF ClaimExecution
    <3> QED
      BY <1>8, <3>1, <3>2, <3>3
  <2> QED
    BY <2>1, <2>2, FilesFrame
<1> QED
  BY <1>1, <1>2, <1>3, <1>4, <1>5, <1>6, <1>7, <1>8 DEF Advance

LEMMA FilesStep ==
  ASSUME ~RecoverLive, AllInv, FilesInv, [Next]_vars
  PROVE  FilesInv'
<1>1. CASE Revise \/ EditInput \/ (\E r \in Recipes : Activate(r)) \/ Decide
           \/ CrashRecovery \/ UNCHANGED vars
  <2>1. UNCHANGED <<executions, artifacts, pc, mem>>
    BY <1>1 DEF Revise, EditInput, Activate, Decide, PrepareDecision, AppendDecision,
                CrashRecovery, vars, stores
  <2> QED
    BY <2>1, FilesFrame DEF KeepsFiles, SameHold
<1>2. ASSUME NEW w \in Workers,
             Crash(w) \/ \E r \in Recipes, b \in Rebuilds : Begin(w, r, b)
      PROVE  FilesInv'
  <2>1. UNCHANGED <<executions, artifacts>>
    BY <1>2 DEF Begin, Crash, stores
  <2>2. \A v \in Workers : KeepsFiles(v)
    BY <1>2 DEF Begin, Crash, Leave, Goto, KeepsFiles, SameHold, Owning, AllInv, TypeInv, TypeOK
  <2> QED
    BY <2>1, <2>2, FilesFrame
<1>3. ASSUME NEW w \in Workers, Advance(w)
      PROVE  FilesInv'
  BY <1>3, AdvanceFiles
<1>4. ASSUME NEW k \in Keys, BeginRecovery(k)
      PROVE  FilesInv'
  <2>1. /\ UNCHANGED <<executions, pc, mem>> /\ executions[k].state = "executing"
        /\ artifacts' = Quarantined(executions[k].version, executions[k].attempt)
        /\ \A w \in Workers : ~Owns(w, k)
    BY <1>4 DEF BeginRecovery, Recoverable
  <2>2. HasVersion(k, executions[k].version)
    BY <2>1 DEF AllInv, VersionInv, StoreVersions
  <2>3. \A w \in Workers : KeepsFiles(w) /\ (pc'[w] \in Owning => KeyOf(mem[w]) # k)
    BY <2>1 DEF KeepsFiles, SameHold, Owns
  <2> QED
    BY <2>1, <2>2, <2>3, FilesQuarantined DEF OnlyKey, Owns
<1>5. ASSUME NEW c \in recovery, FinishRecovery(c)
      PROVE  FilesInv'
  <2>0. c.key \in Keys /\ c.request \in Request /\ executions[c.key] = c.request
        /\ artifacts \subseteq Artifact /\ executions \in [Keys -> Request]
        /\ c.request.state = "executing"
    BY DEF AllInv, TypeInv, TypeOK, OwnerInv, RecoveryHolds
  <2>1. UNCHANGED <<artifacts, pc, mem>> /\ OnlyKey(c.key)
        /\ executions'[c.key] = [c.request EXCEPT !.state = "failed"]
    BY <1>5, <2>0 DEF FinishRecovery, Put, OnlyKey
  <2>2. /\ executions'[c.key].attempt = executions[c.key].attempt
        /\ executions'[c.key].approval = executions[c.key].approval
        /\ executions'[c.key].state = "failed"
    BY <2>0, <2>1 DEF Request, L!Request
  <2>3. FileAges'
    <3>1. ASSUME NEW a \in artifacts, a.key = c.key
          PROVE  FileAge(a)'
      BY <2>2, <3>1 DEF FilesInv, FileAges, FileAge, Current
    <3>2. ASSUME NEW a \in artifacts, a.key # c.key
          PROVE  FileAge(a)'
      <4>1. executions'[a.key] = executions[a.key]
        BY <2>0, <2>1, <3>2 DEF OnlyKey, Artifact
      <4>2. \A w \in Workers : Owns(w, a.key)' = Owns(w, a.key)
        BY <2>1 DEF Owns
      <4> QED
        BY <4>1, <4>2 DEF FilesInv, FileAges, FileAge, Current
    <3> QED
      BY <2>1, <3>1, <3>2 DEF FileAges
  <2>4. CallFiles'
    BY <2>1 DEF FilesInv, CallFiles, NoFileYet, FileInPlace
  <2>5. SucceededInPlace'
    <3>1. \A k \in Keys : executions'[k].state = "succeeded" => executions'[k] = executions[k]
      BY <2>1, <2>2 DEF OnlyKey
    <3> QED
      BY <2>1, <3>1 DEF FilesInv, SucceededInPlace
  <2> QED
    BY <2>3, <2>4, <2>5 DEF FilesInv
<1> QED
  BY <1>1, <1>2, <1>3, <1>4, <1>5 DEF Next, Recover

LEMMA FilesInit == Init => FilesInv
BY DEF Init, FilesInv, FileAges, CallFiles, SucceededInPlace, L!NoRequest

\* A key that is stored as succeeded points at files that are in place, made by
\* that attempt under that approval, wherever calls and recoveries die.
THEOREM SucceededStaysInPlace == ~RecoverLive => (Spec => []SucceededInPlace)
<1> SUFFICES ASSUME ~RecoverLive
             PROVE  Spec => []SucceededInPlace
  OBVIOUS
<1>1. AllInv /\ FilesInv /\ [Next]_vars => AllInv' /\ FilesInv'
  BY AllStep, FilesStep
<1>2. FilesInv => SucceededInPlace
  BY DEF FilesInv
<1> QED
  BY <1>1, <1>2, AllInit, FilesInit, PTL DEF Spec

\* A failing call always gets to record its failure.
THEOREM QuarantineAlwaysHasRoom == ~RecoverLive => (Spec => []QuarantineHasRoom)
<1> SUFFICES ASSUME ~RecoverLive
             PROVE  Spec => []QuarantineHasRoom
  OBVIOUS
<1>1. AllInv /\ FilesInv /\ [Next]_vars => AllInv' /\ FilesInv'
  BY AllStep, FilesStep
<1>2. AllInv /\ FilesInv => QuarantineHasRoom
  BY RoomForFailure
<1> QED
  BY <1>1, <1>2, AllInit, FilesInit, PTL DEF Spec

(***************************************************************************)
(* What is reported about an attempt.  That it failed, or that it is the   *)
(* one that succeeded, is never undone by a step of the life cycle; and a  *)
(* call reports only what it has stored.                                   *)
(***************************************************************************)
FailedBy(k, n) == executions[k].attempt > n
                    \/ (executions[k].attempt = n /\ executions[k].state = "failed")
DoneBy(k, n)   == executions[k].attempt = n /\ executions[k].state = "succeeded"

Reported(w) == IF mem[w].outcome = "succeeded" THEN DoneBy(KeyOf(mem[w]), mem[w].attempt)
               ELSE FailedBy(KeyOf(mem[w]), mem[w].attempt)

ReportInv ==
  /\ \A e \in history : e.state = "failed" => FailedBy(e.key, e.attempt)
  /\ \A v \in verifications : v.passed => DoneBy(v.key, v.attempt)
  /\ \A w \in Workers : pc[w] = "report" => Reported(w)

LEMMA VerdictStays ==
  ASSUME ~RecoverLive, AllInv, [Next]_vars, NEW k \in Keys, NEW n \in Nat
  PROVE  (FailedBy(k, n) => FailedBy(k, n)') /\ (DoneBy(k, n) => DoneBy(k, n)')
<1>1. CASE executions'[k] = executions[k]
  BY <1>1 DEF FailedBy, DoneBy
<1>2. CASE L!Step(executions[k], executions'[k])
  <2> DEFINE r == executions[k]
             s == executions'[k]
  <2>1. r.attempt \in Nat
    BY DEF AllInv, TypeInv, TypeOK, Request, L!Request
  <2> HIDE DEF r, s
  <2>2. CASE L!FirstAttempt(r, s)
    BY <2>1, <2>2 DEF L!FirstAttempt, L!NoRequest, FailedBy, DoneBy, r, s
  <2>3. CASE L!Retry(r, s)
    BY <2>1, <2>3 DEF L!Retry, FailedBy, DoneBy, r, s
  <2>4. CASE L!Approve(r, s)
    BY <2>1, <2>4 DEF L!Approve, FailedBy, DoneBy, r, s
  <2>5. CASE L!Start(r, s) \/ L!Finish(r, s)
    <3>1. r \in Request
      BY DEF AllInv, TypeInv, TypeOK, r
    <3>2. s.attempt = r.attempt /\ r.state \in {"approved", "executing"}
      BY <2>5, <3>1 DEF L!Start, L!Finish, Request, L!Request
    <3> QED
      BY <2>1, <3>2 DEF FailedBy, DoneBy, r, s
  <2> QED
    BY <1>2, <2>2, <2>3, <2>4, <2>5 DEF L!Step, r, s
<1> QED
  BY <1>1, <1>2, LifecycleStep DEF L!Next

\* What a step must show: the events it adds and the calls it brings to their
\* report tell what is stored.
NewEventsTrue ==
  /\ \A e \in history' \ history : e.state = "failed" => FailedBy(e.key, e.attempt)'
  /\ \A v \in verifications' \ verifications : v.passed => DoneBy(v.key, v.attempt)'
StillReports(w) == pc[w] = "report" /\ mem'[w] = mem[w]

LEMMA ReportFrame ==
  ASSUME ~RecoverLive, AllInv, ReportInv, [Next]_vars, NewEventsTrue,
         \A w \in Workers : pc'[w] = "report" => StillReports(w) \/ Reported(w)'
  PROVE  ReportInv'
<1>1. \A e \in history : e.key \in Keys /\ e.attempt \in Nat
  BY DEF AllInv, TypeInv, TypeOK, Event
<1>2. \A v \in verifications : v.key \in Keys /\ v.attempt \in Nat
  BY DEF AllInv, TypeInv, TypeOK, Verification
<1>3. ASSUME NEW w \in Workers, pc[w] = "report", mem'[w] = mem[w]
      PROVE  Reported(w)'
  <2>1. KeyOf(mem[w]) \in Keys /\ mem[w].attempt \in Nat /\ Reported(w)
    BY <1>3, KeyOfType DEF AllInv, TypeInv, TypeOK, Work, ReportInv
  <2>2. PICK k \in Keys, n \in Nat : k = KeyOf(mem[w]) /\ n = mem[w].attempt
    BY <2>1
  <2> QED
    BY <1>3, <2>1, <2>2, VerdictStays DEF Reported
<1>4. \A e \in history' : e.state = "failed" => FailedBy(e.key, e.attempt)'
  BY <1>1, VerdictStays DEF ReportInv, NewEventsTrue
<1>5. \A v \in verifications' : v.passed => DoneBy(v.key, v.attempt)'
  BY <1>2, VerdictStays DEF ReportInv, NewEventsTrue
<1> QED
  BY <1>3, <1>4, <1>5 DEF ReportInv, StillReports

LEMMA AdvanceReports ==
  ASSUME ~RecoverLive, AllInv, ReportInv, NEW w \in Workers, Advance(w)
  PROVE  ReportInv'
<1>0. [Next]_vars
  BY DEF Next
<1>1. CASE \/ ReadRecipe(w) \/ Bind(w) \/ Recheck(w) \/ CheckInitial(w) \/ TakeVersion(w)
           \/ Probe(w) \/ Refuse(w) \/ PutApproved(w) \/ ClaimExecution(w) \/ Dispatch(w)
           \/ Verify(w) \/ QuarantineBlocked(w)
  <2>1. UNCHANGED <<history, verifications>>
    BY <1>1 DEF ReadRecipe, Bind, Recheck, CheckInitial, TakeVersion, Probe, Refuse, PutApproved,
                ClaimExecution, Dispatch, Verify, QuarantineBlocked, logs
  <2>2. \A v \in Workers : pc'[v] = "report" => StillReports(v)
    <3> USE DEF StillReports, Goto, AllInv, TypeInv, TypeOK
    <3>1. CASE Refuse(w) \/ QuarantineBlocked(w)
      BY <3>1 DEF Refuse, QuarantineBlocked, Leave
    <3>2. CASE ReadRecipe(w) \/ Bind(w) \/ Recheck(w) \/ CheckInitial(w) \/ TakeVersion(w) \/ Probe(w)
      BY <3>2 DEF ReadRecipe, Bind, Recheck, CheckInitial, TakeVersion, Probe
    <3>3. CASE PutApproved(w) \/ ClaimExecution(w)
      BY <3>3 DEF PutApproved, ClaimExecution
    <3>4. CASE Dispatch(w) \/ Verify(w)
      BY <3>4 DEF Dispatch, Verify
    <3> QED
      BY <1>1, <3>1, <3>2, <3>3, <3>4
  <2> QED
    BY <1>0, <2>1, <2>2, ReportFrame DEF NewEventsTrue
<1>2. ASSUME NEW s \in {"requested", "executing"}, NEW k, NEW n, history' = history \cup {EventOf(k, n, s)},
             UNCHANGED verifications, \A v \in Workers : pc'[v] = "report" => StillReports(v)
      PROVE  ReportInv'
  BY <1>0, <1>2, ReportFrame DEF NewEventsTrue, EventOf
<1>3. CASE Reserve(w)
  BY <1>2, <1>3 DEF Reserve, Goto, StillReports, AllInv, TypeInv, TypeOK
<1>4. CASE PutExecuting(w)
  BY <1>2, <1>4 DEF PutExecuting, Goto, StillReports, AllInv, TypeInv, TypeOK
<1>5. ASSUME NEW s \in {"failed", "succeeded"}, NEW o \in {"failed", "succeeded", "rejected"},
             (o = "succeeded") = (s = "succeeded"),
             pc[w] \in Owning, UNCHANGED <<history, verifications>>,
             Put(KeyOf(mem[w]), Held(w, s)), pc' = [pc EXCEPT ![w] = "report"],
             mem' = [mem EXCEPT ![w].outcome = o]
      PROVE  ReportInv'
  <2>1. PICK k \in Keys : k = KeyOf(mem[w])
    BY <1>5, OwnerFacts
  <2>2. executions'[k] = Held(w, s) /\ OnlyCall(w) /\ SameHold(w) /\ pc'[w] = "report"
    <3>1. /\ Put(k, Held(w, s)) /\ pc' = [pc EXCEPT ![w] = "report"]
          /\ \E x : mem' = [mem EXCEPT ![w].outcome = x]
      BY <1>5, <2>1
    <3> QED
      BY <2>1, <3>1, PutEffect
  <2>3. mem'[w].outcome = o
    BY <1>5 DEF AllInv, TypeInv, TypeOK, Work
  <2>4. executions'[KeyOf(mem'[w])].attempt = mem'[w].attempt /\ executions'[KeyOf(mem'[w])].state = s
    BY <2>1, <2>2 DEF SameHold, Held
  <2>5. Reported(w)'
    BY <1>5, <2>3, <2>4 DEF Reported, FailedBy, DoneBy
  <2> QED
    BY <1>0, <1>5, <2>2, <2>5, ReportFrame DEF NewEventsTrue, OnlyCall, StillReports
<1>6. CASE Withdrawn(w)
  BY <1>5, <1>6 DEF Withdrawn, Owning, Goto, logs
<1>7. CASE PutSucceeded(w)
  BY <1>5, <1>7 DEF PutSucceeded, Owning, Goto, logs
<1>8. CASE PutFailed(w)
  <2>1. PICK o \in {"failed", "rejected"} : mem' = [mem EXCEPT ![w].outcome = o]
    <3>1. mem' = [mem EXCEPT ![w].outcome = IF mem[w].outcome = "rejected" THEN "rejected" ELSE "failed"]
      BY <1>8 DEF PutFailed, AllInv, TypeInv, TypeOK, Work
    <3> QED
      BY <3>1
  <2> QED
    BY <1>5, <1>8, <2>1 DEF PutFailed, Owning, Goto, logs
<1>9. CASE Report(w)
  <2>1. pc[w] = "report" /\ KeyOf(mem[w]) \in Keys /\ mem[w].attempt \in Nat /\ Reported(w)
    BY <1>9, KeyOfType DEF Report, AllInv, TypeInv, TypeOK, Work, ReportInv
  <2>2. PICK k \in Keys, n \in Nat, s \in {"failed", "succeeded"} :
          /\ k = KeyOf(mem[w]) /\ n = mem[w].attempt
          /\ s = IF mem[w].outcome = "succeeded" THEN "succeeded" ELSE "failed"
    BY <2>1
  <2>3. IF s = "succeeded" THEN DoneBy(k, n)' ELSE FailedBy(k, n)'
    BY <1>0, <2>1, <2>2, VerdictStays DEF Reported
  <2>4. /\ history' = history \cup {EventOf(k, n, s)}
        /\ \A v \in verifications' \ verifications :
             v.key = k /\ v.attempt = n /\ v.passed = (s = "succeeded")
    BY <1>9, <2>2 DEF Report
  <2>5. NewEventsTrue
    <3>1. ASSUME NEW e \in history' \ history, e.state = "failed"
          PROVE  FailedBy(e.key, e.attempt)'
      <4>1. e.key = k /\ e.attempt = n /\ s = "failed"
        BY <2>4, <3>1 DEF EventOf
      <4> QED
        BY <2>3, <4>1 DEF FailedBy
    <3>2. ASSUME NEW v \in verifications' \ verifications, v.passed
          PROVE  DoneBy(v.key, v.attempt)'
      <4>1. v.key = k /\ v.attempt = n /\ s = "succeeded"
        BY <2>4, <3>2
      <4> QED
        BY <2>3, <4>1 DEF DoneBy
    <3> QED
      BY <3>1, <3>2 DEF NewEventsTrue
  <2>6. \A v \in Workers : pc'[v] = "report" => StillReports(v)
    BY <1>9 DEF Report, Leave, Goto, StillReports, AllInv, TypeInv, TypeOK
  <2> QED
    BY <1>0, <2>5, <2>6, ReportFrame
<1> QED
  BY <1>1, <1>3, <1>4, <1>6, <1>7, <1>8, <1>9 DEF Advance

LEMMA ReportStep ==
  ASSUME ~RecoverLive, AllInv, ReportInv, [Next]_vars
  PROVE  ReportInv'
<1>1. CASE \/ Revise \/ EditInput \/ (\E r \in Recipes : Activate(r)) \/ Decide
           \/ (\E k \in Keys : BeginRecovery(k)) \/ CrashRecovery \/ UNCHANGED vars
  <2>1. UNCHANGED <<history, verifications, pc, mem>>
    BY <1>1 DEF Revise, EditInput, Activate, Decide, PrepareDecision, AppendDecision,
                BeginRecovery, CrashRecovery, vars, logs
  <2> QED
    BY <2>1, ReportFrame DEF NewEventsTrue, StillReports
<1>2. ASSUME NEW w \in Workers,
             Crash(w) \/ \E r \in Recipes, b \in Rebuilds : Begin(w, r, b)
      PROVE  ReportInv'
  <2>1. UNCHANGED <<history, verifications>>
    BY <1>2 DEF Begin, Crash, logs
  <2>2. \A v \in Workers : pc'[v] = "report" => StillReports(v)
    BY <1>2 DEF Begin, Crash, Leave, Goto, StillReports, AllInv, TypeInv, TypeOK
  <2> QED
    BY <2>1, <2>2, ReportFrame DEF NewEventsTrue
<1>3. ASSUME NEW w \in Workers, Advance(w)
      PROVE  ReportInv'
  BY <1>3, AdvanceReports
<1>4. ASSUME NEW c \in recovery, FinishRecovery(c)
      PROVE  ReportInv'
  <2>1. c.key \in Keys /\ c.request \in Request /\ executions \in [Keys -> Request]
    BY DEF AllInv, TypeInv, TypeOK
  <2>2. executions'[c.key] = [c.request EXCEPT !.state = "failed"]
    BY <1>4, <2>1 DEF FinishRecovery, Put
  <2>3. FailedBy(c.key, c.request.attempt)'
    BY <2>1, <2>2 DEF FailedBy, Request, L!Request
  <2>4. /\ history' = history \cup {EventOf(c.key, c.request.attempt, "failed")}
        /\ UNCHANGED <<verifications, pc, mem>>
    BY <1>4 DEF FinishRecovery
  <2>5. NewEventsTrue
    <3>1. ASSUME NEW e \in history' \ history
          PROVE  FailedBy(e.key, e.attempt)'
      <4>1. e.key = c.key /\ e.attempt = c.request.attempt
        BY <2>4, <3>1 DEF EventOf
      <4> QED
        BY <2>3, <4>1 DEF FailedBy
    <3> QED
      BY <2>4, <3>1 DEF NewEventsTrue
  <2> QED
    BY <2>4, <2>5, ReportFrame DEF StillReports
<1> QED
  BY <1>1, <1>2, <1>3, <1>4 DEF Next, Recover

LEMMA ReportInit == Init => ReportInv
BY DEF Init, ReportInv

\* An attempt verified as passed is the stored, succeeded one and is recorded as
\* failed nowhere, although the record, the execution event and the
\* verification event are written in three steps and recoveries add events too.
THEOREM PassedAttemptNeverFailed == ~RecoverLive => (Spec => []PassedAttemptDidNotFail)
<1> SUFFICES ASSUME ~RecoverLive
             PROVE  Spec => []PassedAttemptDidNotFail
  OBVIOUS
<1>1. AllInv /\ ReportInv /\ [Next]_vars => AllInv' /\ ReportInv'
  BY AllStep, ReportStep
<1>2. AllInv /\ ReportInv => PassedAttemptDidNotFail
  <2> SUFFICES ASSUME AllInv, ReportInv, NEW v \in verifications, v.passed
               PROVE  /\ EventOf(v.key, v.attempt, "failed") \notin history
                      /\ DoneBy(v.key, v.attempt)
    BY DEF PassedAttemptDidNotFail, DoneBy
  <2>1. v.key \in Keys /\ v.attempt \in Nat /\ executions[v.key].attempt \in Nat
    BY DEF AllInv, TypeInv, TypeOK, Verification, Request, L!Request
  <2>2. DoneBy(v.key, v.attempt)
    BY DEF ReportInv
  <2>3. ~FailedBy(v.key, v.attempt)
    BY <2>1, <2>2 DEF FailedBy, DoneBy
  <2> QED
    BY <2>2, <2>3 DEF ReportInv, EventOf
<1> QED
  BY <1>1, <1>2, AllInit, ReportInit, PTL DEF Spec
=============================================================================
