----------------------------- MODULE LogProofs -----------------------------
(***************************************************************************)
(* Proofs about the two models of events.jsonl: ActualCompletion, for any  *)
(* number of callers and keys, and EventLog, for any number of writers of  *)
(* either kind.                                                            *)
(*                                                                         *)
(* Confirmations: a succeeded record never changes again and the log only  *)
(* grows, so what a confirmation has read of them is still true when it    *)
(* writes.  A confirmed verification is no evidence of its own: the passed *)
(* one of the attempt precedes it.                                         *)
(*                                                                         *)
(* Serialised writers: whoever is between its read and its write is the    *)
(* only holder of the lock, and no line of a serialised writer has the id  *)
(* it is about to write.  Acknowledgements: the log only grows, and a log  *)
(* that is readable was readable before its last line came.                *)
(***************************************************************************)
EXTENDS ActualCompletion, EventLog, TLAPS

LEMMA LineTypes ==
  ASSUME events \in Seq(EventLine), NEW id \in EventIds, NEW p \in BOOLEAN, AddLine(id, p)
  PROVE  events' \in Seq(EventLine)
BY DEF AddLine, EventLine

LEMMA IdTypes ==
  /\ \A k \in Keys, n \in Nat : Verified(k, n) \in EventIds /\ Confirmed(k, n) \in EventIds
  /\ \A v \in Nat, b \in Bases : Completed(v, b) \in EventIds
BY DEF Verified, Confirmed, Completed, EventIds

\* These points are reached only by a call that names an execution.
OnExecution == {"request", "verification", "confirming", "confirm"}
NamesKey == \A w \in Callers : at[w] \in OnExecution => mem[w].basis \in Keys
TypeInv  == CompletionTypeOK /\ NamesKey

LEMMA ExecutionTypes ==
  ASSUME TypeInv,
         \/ \E k \in Keys : EndAttempt(k) \/ Retry(k)
         \/ Revise
         \/ \E r \in unreported : ReportVerification(r) \/ CrashReport(r)
  PROVE  TypeInv'
<1> USE DEF TypeInv, CompletionTypeOK, NamesKey
<1>1. ASSUME NEW k \in Keys, EndAttempt(k)
      PROVE  TypeInv'
  <2>1. executions' \in [Keys -> [state : {"executing", "succeeded", "failed"}, attempt : Nat]]
    BY <1>1 DEF EndAttempt
  <2>2. executions[k].attempt \in Nat
    OBVIOUS
  <2>3. \A q \in BOOLEAN : [key |-> k, attempt |-> executions[k].attempt, passed |-> q] \in Report
    BY <2>2 DEF Report
  <2>4. \/ \E q \in BOOLEAN : unreported' = unreported \cup
             {[key |-> k, attempt |-> executions[k].attempt, passed |-> q]}
        \/ unreported' = unreported
    BY <1>1 DEF EndAttempt
  <2>5. unreported' \subseteq Report
    BY <2>3, <2>4
  <2> QED
    BY <1>1, <2>1, <2>5 DEF EndAttempt
<1>2. ASSUME NEW k \in Keys, Retry(k)
      PROVE  TypeInv'
  <2>1. [state |-> "executing", attempt |-> executions[k].attempt + 1]
          \in [state : {"executing", "succeeded", "failed"}, attempt : Nat]
    OBVIOUS
  <2>2. executions' = [executions EXCEPT ![k] = [state |-> "executing",
                                                 attempt |-> executions[k].attempt + 1]]
    BY <1>2 DEF Retry
  <2>3. executions' \in [Keys -> [state : {"executing", "succeeded", "failed"}, attempt : Nat]]
    BY <2>1, <2>2
  <2> QED
    BY <1>2, <2>3 DEF Retry
<1>3. CASE Revise
  BY <1>3 DEF Revise
<1>4. ASSUME NEW r \in unreported, ReportVerification(r)
      PROVE  TypeInv'
  <2>1. events' \in Seq(EventLine)
    BY <1>4, LineTypes, IdTypes DEF ReportVerification, Report
  <2> QED
    BY <1>4, <2>1 DEF ReportVerification
<1>5. ASSUME NEW r \in unreported, CrashReport(r)
      PROVE  TypeInv'
  BY <1>5 DEF CrashReport
<1> QED
  BY <1>1, <1>2, <1>3, <1>4, <1>5

LEMMA CallerTypes ==
  ASSUME TypeInv, NEW w \in Callers, Advance(w) \/ Die(w) \/ \E b \in Bases : Confirm(w, b)
  PROVE  TypeInv'
<1> USE DEF TypeInv, CompletionTypeOK, NamesKey, OnExecution, Go, Quit, Stages
<1>0. mem[w] \in Work
  OBVIOUS
<1>1. ASSUME NEW b \in Bases, Confirm(w, b)
      PROVE  TypeInv'
  BY <1>1 DEF Confirm, Work
<1>2. CASE ReadRequest(w)
  <2>1. mem' \in [Callers -> Work] /\ mem'[w].basis = mem[w].basis
    <3>1. CASE mem' = mem
      BY <3>1
    <3>2. CASE Confirmable(mem[w].basis)
      <4>1. executions[mem[w].basis].attempt \in Nat
        BY <1>2 DEF ReadRequest
      <4>2. mem' = [mem EXCEPT ![w].attempt = executions[mem[w].basis].attempt]
        BY <1>2, <3>2 DEF ReadRequest
      <4>3. [mem[w] EXCEPT !.attempt = executions[mem[w].basis].attempt] \in Work
        BY <1>0, <4>1 DEF Work
      <4> QED
        BY <4>2, <4>3 DEF Work
    <3> QED
      BY <1>2, <3>1, <3>2 DEF ReadRequest
  <2>2. NamesKey'
    BY <1>2, <2>1 DEF ReadRequest
  <2> QED
    BY <1>2, <2>1, <2>2 DEF ReadRequest
<1>3. CASE ReadVerification(w)
  BY <1>3 DEF ReadVerification
<1>4. CASE ReadPrevious(w)
  <2>1. Completed(mem[w].version, mem[w].basis) \in EventIds
    BY <1>0, IdTypes DEF Work
  <2>2. told' = told \/ told' = told \cup {Completed(mem[w].version, mem[w].basis)}
    BY <1>4 DEF ReadPrevious
  <2>3. told' \subseteq EventIds
    BY <2>1, <2>2
  <2> QED
    BY <1>4, <2>3 DEF ReadPrevious
<1>5. CASE CheckConfirmation(w)
  BY <1>5 DEF CheckConfirmation
<1>6. CASE AppendConfirmation(w)
  <2>1. Confirmed(mem[w].basis, mem[w].attempt) \in EventIds
    BY <1>0, <1>6, IdTypes DEF AppendConfirmation, Work
  <2>2. events' \in Seq(EventLine)
    BY <1>6, <2>1, LineTypes DEF AppendConfirmation
  <2> QED
    BY <1>6, <2>2 DEF AppendConfirmation
<1>7. CASE CheckCompletion(w)
  <2>1. Completed(mem[w].version, mem[w].basis) \in EventIds
    BY <1>0, IdTypes DEF Work
  <2>2. told' = told \/ told' = told \cup {Completed(mem[w].version, mem[w].basis)}
    BY <1>7 DEF CheckCompletion
  <2>3. told' \subseteq EventIds
    BY <2>1, <2>2
  <2> QED
    BY <1>7, <2>3 DEF CheckCompletion
<1>8. CASE AppendCompletion(w)
  <2>1. Completed(mem[w].version, mem[w].basis) \in EventIds
    BY <1>0, IdTypes DEF Work
  <2>2. events' \in Seq(EventLine)
    BY <1>8, <2>1, LineTypes DEF AppendCompletion
  <2> QED
    BY <1>8, <2>1, <2>2 DEF AppendCompletion
<1>9. CASE Die(w)
  BY <1>9 DEF Die
<1> QED
  BY <1>1, <1>2, <1>3, <1>4, <1>5, <1>6, <1>7, <1>8, <1>9 DEF Advance

LEMMA Types ==
  ASSUME TypeInv, [CompletionNext]_completionVars
  PROVE  TypeInv'
<1>1. CASE UNCHANGED completionVars
  BY <1>1 DEF completionVars, TypeInv, CompletionTypeOK, NamesKey
<1> QED
  BY <1>1, ExecutionTypes, CallerTypes DEF CompletionNext

LEMMA InitTypes == CompletionInit => TypeInv
BY DEF CompletionInit, TypeInv, CompletionTypeOK, NamesKey, OnExecution, Stages, Work, Bases

\* Records, events and local variables keep their types.
THEOREM TypeCorrect == CompletionSpec => []CompletionTypeOK
<1>1. TypeInv => CompletionTypeOK
  BY DEF TypeInv
<1> QED
  BY <1>1, Types, InitTypes, PTL DEF CompletionSpec

(***************************************************************************)
(* What a call has read stays true.                                        *)
(***************************************************************************)
\* Line p with id occurs in the log.
Logged(id, p) == \E i \in DOMAIN events : events[i].id = id /\ events[i].passed = p
Backed(k)     == executions[k].state = "succeeded" /\ Logged(Verified(k, executions[k].attempt), TRUE)

Past(w, points) == at[w] \in points /\ mem[w].basis \in Keys
HoldsRequest(w) == executions[mem[w].basis].state = "succeeded"
                   /\ executions[mem[w].basis].attempt = mem[w].attempt

AfterRequest      == {"verification", "previous", "confirming", "confirm", "completing", "complete"}
AfterVerification == AfterRequest \ {"verification"}

CallInv ==
  \A w \in Callers : /\ Past(w, AfterRequest) => HoldsRequest(w)
                     /\ Past(w, AfterVerification) => Backed(mem[w].basis)
ConfirmInv ==
  \A k \in Keys, n \in Nat : Logged(Confirmed(k, n), TRUE) => Logged(Verified(k, n), TRUE)
CompletionInv ==
  \A v \in Nat, k \in Keys, p \in BOOLEAN : Logged(Completed(v, k), p) => Backed(k)

EvidenceInv == CallInv /\ ConfirmInv /\ CompletionInv

\* The log changes by one line at most.
Adds(id, p) == \A j, q : Logged(j, q)' <=> Logged(j, q) \/ (j = id /\ q = p)
Keeps       == \A j, q : Logged(j, q)' <=> Logged(j, q)

LEMMA AddLineAdds ==
  ASSUME TypeInv, NEW id, NEW p, AddLine(id, p)
  PROVE  Adds(id, p)
<1>1. PICK n \in Nat : n = Len(events)
  BY DEF TypeInv, CompletionTypeOK
<1>2. /\ DOMAIN events = 1..n /\ DOMAIN events' = 1..(n + 1)
      /\ \A i \in 1..n : events'[i] = events[i]
      /\ events'[n + 1].id = id /\ events'[n + 1].passed = p
  BY <1>1 DEF AddLine, TypeInv, CompletionTypeOK
<1>3. \A i : i \in 1..(n + 1) <=> (i \in 1..n \/ i = n + 1)
  OBVIOUS
<1> QED
  BY <1>2, <1>3 DEF Adds, Logged

\* The parts of EvidenceInv under a log that is kept, or gets a line.
LEMMA EvidenceKept ==
  ASSUME EvidenceInv, Keeps \/ \E id, p : Adds(id, p)
  PROVE  \A k \in Keys : Backed(k) /\ executions'[k] = executions[k] => Backed(k)'
BY DEF Keeps, Adds, Backed

LEMMA CallsKept ==
  ASSUME TypeInv, EvidenceInv, Keeps \/ \E id, p : Adds(id, p),
         \A k \in Keys : executions[k].state = "succeeded" => executions'[k] = executions[k],
         NEW w \in Callers, mem'[w] = mem[w],
         at'[w] \in AfterRequest => at[w] \in AfterRequest,
         at'[w] \in AfterVerification => at[w] \in AfterVerification
  PROVE  /\ Past(w, AfterRequest)' => HoldsRequest(w)'
         /\ Past(w, AfterVerification)' => Backed(mem[w].basis)'
BY EvidenceKept DEF EvidenceInv, CallInv, Past, HoldsRequest, Backed

\* What every step does to the log and to the executions.
LEMMA StepEffect ==
  ASSUME TypeInv, [CompletionNext]_completionVars
  PROVE  /\ \A k \in Keys : executions[k].state = "succeeded" => executions'[k] = executions[k]
         /\ \/ Keeps
            \/ \E k \in Keys, n \in Nat, p \in BOOLEAN : Adds(Verified(k, n), p)
            \/ \E w \in Callers : AppendConfirmation(w) /\ Adds(Confirmed(mem[w].basis, mem[w].attempt), TRUE)
            \/ \E w \in Callers : AppendCompletion(w) /\ Adds(Completed(mem[w].version, mem[w].basis), FALSE)
<1>0. events' = events => Keeps
  BY DEF Keeps, Logged
<1>1. ASSUME NEW k \in Keys, EndAttempt(k) \/ Retry(k)
      PROVE  Keeps /\ \A j \in Keys : executions[j].state = "succeeded" => executions'[j] = executions[j]
  BY <1>0, <1>1 DEF EndAttempt, Retry, TypeInv, CompletionTypeOK
<1>2. ASSUME NEW r \in unreported, ReportVerification(r)
      PROVE  /\ executions' = executions
             /\ Keeps \/ \E k \in Keys, n \in Nat, p \in BOOLEAN : Adds(Verified(k, n), p)
  <2>1. r.key \in Keys /\ r.attempt \in Nat /\ r.passed \in BOOLEAN
    BY DEF TypeInv, CompletionTypeOK, Report
  <2> QED
    BY <1>0, <1>2, <2>1, AddLineAdds DEF ReportVerification
<1>3. ASSUME NEW w \in Callers, AppendConfirmation(w)
      PROVE  executions' = executions /\ Adds(Confirmed(mem[w].basis, mem[w].attempt), TRUE)
  BY <1>3, AddLineAdds DEF AppendConfirmation
<1>4. ASSUME NEW w \in Callers, AppendCompletion(w)
      PROVE  executions' = executions /\ Adds(Completed(mem[w].version, mem[w].basis), FALSE)
  BY <1>4, AddLineAdds DEF AppendCompletion
<1>5. ASSUME NEW w \in Callers,
             \/ ReadRequest(w) \/ ReadVerification(w) \/ ReadPrevious(w)
             \/ CheckConfirmation(w) \/ CheckCompletion(w) \/ Die(w) \/ \E b \in Bases : Confirm(w, b)
      PROVE  executions' = executions /\ Keeps
  BY <1>0, <1>5 DEF ReadRequest, ReadVerification, ReadPrevious, CheckConfirmation, CheckCompletion,
                    Die, Confirm, Quit
<1>6. CASE Revise \/ (\E r \in unreported : CrashReport(r)) \/ UNCHANGED completionVars
  BY <1>0, <1>6 DEF Revise, CrashReport, completionVars
<1> QED
  BY <1>1, <1>2, <1>3, <1>4, <1>5, <1>6 DEF CompletionNext, Advance

LEMMA OnlyAdded ==
  ASSUME NEW j, NEW q, Logged(j, q)', ~Logged(j, q), NEW id, NEW p, Adds(id, p)
  PROVE  j = id /\ q = p
BY DEF Adds

LEMMA LogMoves ==
  ASSUME TypeInv, [CompletionNext]_completionVars
  PROVE  Keeps \/ \E id, p : Adds(id, p)
BY StepEffect

LEMMA ConfirmStep ==
  ASSUME TypeInv, EvidenceInv, [CompletionNext]_completionVars
  PROVE  ConfirmInv'
<1> SUFFICES ASSUME NEW k \in Keys, NEW n \in Nat, Logged(Confirmed(k, n), TRUE)'
             PROVE  Logged(Verified(k, n), TRUE)'
  BY DEF ConfirmInv
<1>1. CASE Logged(Confirmed(k, n), TRUE)
  BY <1>1, LogMoves DEF EvidenceInv, ConfirmInv, Keeps, Adds
<1>2. CASE ~Logged(Confirmed(k, n), TRUE)
  <2>1. PICK w \in Callers : /\ AppendConfirmation(w)
                             /\ Confirmed(k, n) = Confirmed(mem[w].basis, mem[w].attempt)
    <3>1. \A j \in Keys, m \in Nat : Confirmed(k, n) # Verified(j, m)
      BY DEF Confirmed, Verified
    <3>2. \A v, b : Confirmed(k, n) # Completed(v, b)
      BY DEF Confirmed, Completed
    <3>3. ~Keeps
      BY <1>2 DEF Keeps
    <3>4. ~\E j \in Keys, m \in Nat, q \in BOOLEAN : Adds(Verified(j, m), q)
      BY <1>2, <3>1, OnlyAdded
    <3>5. ~\E u \in Callers : AppendCompletion(u) /\ Adds(Completed(mem[u].version, mem[u].basis), FALSE)
      BY <1>2, <3>2 DEF Adds
    <3>6. PICK u \in Callers : AppendConfirmation(u) /\ Adds(Confirmed(mem[u].basis, mem[u].attempt), TRUE)
      BY <3>3, <3>4, <3>5, StepEffect
    <3>7. Confirmed(k, n) = Confirmed(mem[u].basis, mem[u].attempt)
      BY <1>2, <3>6, OnlyAdded
    <3> QED
      BY <3>6, <3>7
  <2>2. k = mem[w].basis /\ n = mem[w].attempt
    BY <2>1 DEF Confirmed
  <2>3. HoldsRequest(w) /\ Backed(k)
    BY <2>1, <2>2
       DEF EvidenceInv, CallInv, Past, AfterRequest, AfterVerification, AppendConfirmation
  <2>4. Logged(Verified(k, n), TRUE)
    BY <2>2, <2>3 DEF HoldsRequest, Backed
  <2> QED
    BY <2>4, LogMoves DEF Keeps, Adds
<1> QED
  BY <1>1, <1>2

LEMMA CompletionStep ==
  ASSUME TypeInv, EvidenceInv, [CompletionNext]_completionVars
  PROVE  CompletionInv'
<1> SUFFICES ASSUME NEW v \in Nat, NEW k \in Keys, NEW p \in BOOLEAN, Logged(Completed(v, k), p)'
             PROVE  Backed(k)'
  BY DEF CompletionInv
<1>1. Backed(k) => Backed(k)'
  BY LogMoves, StepEffect, EvidenceKept DEF Backed
<1>2. CASE Logged(Completed(v, k), p)
  BY <1>1, <1>2 DEF EvidenceInv, CompletionInv
<1>3. CASE ~Logged(Completed(v, k), p)
  <2>1. PICK w \in Callers : /\ AppendCompletion(w)
                             /\ Completed(v, k) = Completed(mem[w].version, mem[w].basis)
    <3>1. \A j \in Keys, m \in Nat : Completed(v, k) # Verified(j, m) /\ Completed(v, k) # Confirmed(j, m)
      BY DEF Confirmed, Verified, Completed
    <3>2. \A w \in Callers : Completed(v, k) # Confirmed(mem[w].basis, mem[w].attempt)
      BY DEF Confirmed, Completed
    <3>3. ~Keeps
      BY <1>3 DEF Keeps
    <3>4. ~\E j \in Keys, m \in Nat, q \in BOOLEAN : Adds(Verified(j, m), q)
      BY <1>3, <3>1 DEF Adds
    <3>5. ~\E u \in Callers : AppendConfirmation(u) /\ Adds(Confirmed(mem[u].basis, mem[u].attempt), TRUE)
      BY <1>3, <3>2 DEF Adds
    <3>6. PICK u \in Callers : AppendCompletion(u) /\ Adds(Completed(mem[u].version, mem[u].basis), FALSE)
      BY <3>3, <3>4, <3>5, StepEffect
    <3> QED
      BY <1>3, <3>6 DEF Adds
  <2>2. k = mem[w].basis
    BY <2>1 DEF Completed
  <2>3. Backed(k)
    BY <2>1, <2>2 DEF EvidenceInv, CallInv, Past, AfterRequest, AfterVerification, AppendCompletion
  <2> QED
    BY <1>1, <2>3
<1> QED
  BY <1>2, <1>3

\* The call that moves learns from what it reads; the others keep what they know.
CallFacts(w) == /\ Past(w, AfterRequest) => HoldsRequest(w)
                /\ Past(w, AfterVerification) => Backed(mem[w].basis)

LEMMA AdvanceFacts ==
  ASSUME TypeInv, EvidenceInv, NEW w \in Callers, Advance(w)
  PROVE  CallFacts(w)'
<1>0. [CompletionNext]_completionVars
  BY DEF CompletionNext
<1> USE DEF AfterRequest, AfterVerification
<1>1. CASE ReadRequest(w)
  <2>1. CASE Confirmable(mem[w].basis)
    <3>1. /\ mem'[w].attempt = executions[mem[w].basis].attempt /\ mem'[w].basis = mem[w].basis
          /\ at'[w] = "verification" /\ executions' = executions
      BY <1>1, <2>1 DEF ReadRequest, Go, TypeInv, CompletionTypeOK, Work
    <3> QED
      BY <2>1, <3>1 DEF CallFacts, Past, HoldsRequest, Confirmable
  <2>2. CASE ~Confirmable(mem[w].basis)
    BY <1>1, <2>2 DEF ReadRequest, Quit, Go, CallFacts, Past, TypeInv, CompletionTypeOK
  <2> QED
    BY <2>1, <2>2
<1>2. CASE ReadVerification(w)
  <2>1. mem' = mem /\ executions' = executions /\ events' = events /\ mem[w].basis \in Keys
        /\ HoldsRequest(w) /\ mem[w].attempt \in Nat
    BY <1>2 DEF ReadVerification, Quit, TypeInv, CompletionTypeOK, NamesKey, OnExecution, Work,
                EvidenceInv, CallInv, Past
  <2>2. CASE LatestPassed(mem[w].basis, mem[w].attempt)
    <3>1. PICK k \in Keys, n \in Nat : k = mem[w].basis /\ n = mem[w].attempt
      BY <2>1
    <3>2. Logged(Verified(k, n), TRUE) \/ Logged(Confirmed(k, n), TRUE)
      <4>1. PICK i \in DOMAIN events : events[i].id \in {Verified(k, n), Confirmed(k, n)} /\ events[i].passed
        BY <2>2, <3>1 DEF LatestPassed, About
      <4>2. events[i].passed = TRUE
        BY <4>1 DEF TypeInv, CompletionTypeOK, EventLine
      <4> QED
        BY <4>1, <4>2 DEF Logged
    <3>3. Logged(Verified(k, n), TRUE)
      BY <3>2 DEF EvidenceInv, ConfirmInv
    <3> QED
      BY <2>1, <3>1, <3>3 DEF CallFacts, Past, HoldsRequest, Backed, Logged
  <2>3. CASE ~LatestPassed(mem[w].basis, mem[w].attempt)
    BY <1>2, <2>3 DEF ReadVerification, Quit, Go, CallFacts, Past, TypeInv, CompletionTypeOK
  <2> QED
    BY <2>2, <2>3
<1>3. CASE \/ ReadPrevious(w) \/ CheckConfirmation(w) \/ AppendConfirmation(w)
           \/ CheckCompletion(w) \/ AppendCompletion(w)
  <2>1. mem' = mem /\ at[w] \in AfterVerification
    BY <1>3
       DEF ReadPrevious, CheckConfirmation, AppendConfirmation, CheckCompletion, AppendCompletion
  <2> QED
    BY <1>0, <2>1, LogMoves, StepEffect, CallsKept DEF CallFacts
<1> QED
  BY <1>1, <1>2, <1>3 DEF Advance

LEMMA CallStep ==
  ASSUME TypeInv, EvidenceInv, [CompletionNext]_completionVars
  PROVE  CallInv'
<1> SUFFICES ASSUME NEW v \in Callers
             PROVE  CallFacts(v)'
  BY DEF CallInv, CallFacts
<1>1. ASSUME mem'[v] = mem[v], at'[v] = at[v]
      PROVE  CallFacts(v)'
  BY <1>1, LogMoves, StepEffect, CallsKept DEF CallFacts
<1>2. CASE Advance(v)
  BY <1>2, AdvanceFacts
<1>3. CASE Die(v) \/ \E b \in Bases : Confirm(v, b)
  <2>1. CASE Die(v)
    BY <2>1 DEF Die, Quit, Go, CallFacts, Past, AfterRequest, AfterVerification, TypeInv,
       CompletionTypeOK
  <2>2. ASSUME NEW b \in Bases, Confirm(v, b)
        PROVE  CallFacts(v)'
    <3>1. mem'[v].basis = b
      BY <2>2 DEF Confirm, TypeInv, CompletionTypeOK
    <3>2. at'[v] = IF b \in Keys THEN "request" ELSE "previous"
      BY <2>2 DEF Confirm, Go, TypeInv, CompletionTypeOK
    <3> QED
      BY <3>1, <3>2 DEF CallFacts, Past, AfterRequest, AfterVerification
  <2> QED
    BY <1>3, <2>1, <2>2
<1>4. ASSUME NEW w \in Callers, w # v, Advance(w) \/ Die(w) \/ \E b \in Bases : Confirm(w, b)
      PROVE  mem'[v] = mem[v] /\ at'[v] = at[v]
  BY <1>4 DEF Advance, ReadRequest, ReadVerification, ReadPrevious, CheckConfirmation,
              AppendConfirmation, CheckCompletion, AppendCompletion, Die, Confirm, Quit, Go,
              TypeInv, CompletionTypeOK
<1>5. CASE \/ \E k \in Keys : EndAttempt(k) \/ Retry(k)
           \/ Revise \/ UNCHANGED completionVars
           \/ \E r \in unreported : ReportVerification(r) \/ CrashReport(r)
  BY <1>1, <1>5 DEF EndAttempt, Retry, Revise, ReportVerification, CrashReport, completionVars
<1> QED
  BY <1>1, <1>2, <1>3, <1>4, <1>5 DEF CompletionNext

\* A completion rests on a succeeded execution and on a passed verification of
\* its last attempt, for any number of confirmations, retries and crashes.
THEOREM CompletionsAreBacked == CompletionSpec => []CompletionIsBacked
<1>1. CompletionInit => EvidenceInv
  BY DEF CompletionInit, EvidenceInv, CallInv, ConfirmInv, CompletionInv, Logged, Past,
     AfterRequest, AfterVerification
<1>2. TypeInv /\ EvidenceInv /\ [CompletionNext]_completionVars => TypeInv' /\ EvidenceInv'
  BY Types, CallStep, ConfirmStep, CompletionStep DEF EvidenceInv
<1>3. TypeInv /\ EvidenceInv => CompletionIsBacked
  <2> SUFFICES ASSUME TypeInv, EvidenceInv, NEW k \in Keys, NEW i \in DOMAIN events,
                      IsCompletion(i), events[i].id[3] = k
               PROVE  Backed(k)
    BY DEF CompletionIsBacked, CompletedOn, Completions, Backed, Logged
  <2>0. events[i] \in EventLine
    BY DEF TypeInv, CompletionTypeOK
  <2>1. events[i].id \in EventIds /\ events[i].passed \in BOOLEAN
    BY <2>0 DEF EventLine
  <2>2. PICK v \in Nat : events[i].id = Completed(v, k)
    BY <2>1 DEF IsCompletion, EventIds, Completed
  <2> QED
    BY <2>1, <2>2 DEF EvidenceInv, CompletionInv, Logged
<1> QED
  BY <1>1, <1>2, <1>3, InitTypes, PTL DEF CompletionSpec

-----------------------------------------------------------------------------
(***************************************************************************)
(* The lines of the log.                                                   *)
(***************************************************************************)
\* Only serialised writers wait for the lock.
WaitInv == \A w \in Writers : pc[w] \in {"waiting", "looking"} => w \in Serialised
LogTypeInv == TypeOK /\ WaitInv

LEMMA LogLineTypes ==
  ASSUME TypeOK, NEW w \in Writers, NEW t \in BOOLEAN, LogLine(w, t)
  PROVE  log' \in Seq(Line)
BY DEF TypeOK, LogLine, Line

LEMMA AckTypes ==
  ASSUME TypeOK, NEW w \in Writers, NEW b \in BOOLEAN,
         acked' = IF b THEN acked \cup {want[w]} ELSE acked
  PROVE  acked' \subseteq Ids
BY DEF TypeOK

LEMMA LogTypes ==
  ASSUME LogTypeInv, [Next]_vars
  PROVE  LogTypeInv'
<1> USE DEF LogTypeInv, TypeOK, WaitInv, Points, Goto, Return
<1>1. ASSUME NEW w \in Writers, NEW i \in Ids, Call(w, i)
      PROVE  LogTypeInv'
  BY <1>1 DEF Call
<1>2. ASSUME NEW w \in Writers, Acquire(w)
      PROVE  LogTypeInv'
  BY <1>2 DEF Acquire
<1>3. ASSUME NEW w \in Writers, Look(w)
      PROVE  LogTypeInv'
  <2>1. acked' \subseteq Ids
    BY <1>3 DEF Look
  <2>2. pc' \in [Writers -> Points] /\ holder' \subseteq Serialised /\ WaitInv'
    BY <1>3 DEF Look
  <2>3. log' = log /\ want' = want /\ seen' = seen /\ crashes' = crashes
    BY <1>3 DEF Look
  <2> QED
    BY <2>1, <2>2, <2>3
<1>4. ASSUME NEW w \in Writers, Read(w)
      PROVE  LogTypeInv'
  <2>1. acked' \subseteq Ids
    BY <1>4 DEF Read
  <2>2. pc' \in [Writers -> Points] /\ holder' \subseteq Serialised /\ WaitInv'
    BY <1>4 DEF Read
  <2>3. log' = log /\ want' = want /\ seen' \in [Writers -> Nat] /\ crashes' = crashes
    BY <1>4 DEF Read
  <2> QED
    BY <2>1, <2>2, <2>3
<1>5. ASSUME NEW w \in Writers, Write(w)
      PROVE  LogTypeInv'
  <2>1. log' \in Seq(Line)
    BY <1>5, LogLineTypes DEF Write
  <2> QED
    BY <1>5, <2>1 DEF Write
<1>6. ASSUME NEW w \in Writers, Crash(w)
      PROVE  LogTypeInv'
  <2>1. log' \in Seq(Line)
    BY <1>6, LogLineTypes DEF Crash
  <2> QED
    BY <1>6, <2>1 DEF Crash
<1>7. CASE UNCHANGED vars
  BY <1>7 DEF vars
<1> QED
  BY <1>1, <1>2, <1>3, <1>4, <1>5, <1>6, <1>7 DEF Next, Step

LEMMA InitLogTypes == Init => LogTypeInv
BY DEF Init, LogTypeInv, TypeOK, WaitInv, Points

\* Every variable of the log and of its writers keeps its type.
THEOREM LogTypeCorrect == Spec => []TypeOK
<1>1. LogTypeInv => TypeOK
  BY DEF LogTypeInv
<1> QED
  BY <1>1, LogTypes, InitLogTypes, PTL DEF Spec

(***************************************************************************)
(* The log only grows.                                                     *)
(***************************************************************************)
LEMMA LogGrows ==
  ASSUME LogTypeInv, [Next]_vars
  PROVE  \/ log' = log
         \/ \E w \in Writers, t \in BOOLEAN : pc[w] = "writing" /\ LogLine(w, t)
<1>1. ASSUME NEW w \in Writers, Write(w) \/ Crash(w)
      PROVE  log' = log \/ \E t \in BOOLEAN : pc[w] = "writing" /\ LogLine(w, t)
  BY <1>1 DEF Write, Crash
<1> QED
  BY <1>1 DEF Next, Step, Call, Acquire, Look, Read, vars

LEMMA ReadableBefore ==
  ASSUME NEW s \in Seq(Line), NEW e \in Line, Readable(Append(s, e))
  PROVE  Readable(s)
<1> DEFINE t == Append(s, e)
<1>1. DOMAIN s = 1..Len(s) /\ DOMAIN t = 1..(Len(s) + 1) /\ Len(s) \in Nat
  OBVIOUS
<1>2. \A i \in 1..Len(s) : t[i] = s[i]
  OBVIOUS
<1>3. ASSUME NEW i \in DOMAIN s, StopsAt(s, i)
      PROVE  i \in DOMAIN t /\ StopsAt(t, i) /\ t[i] = s[i]
  <2>1. i \in 1..Len(s) /\ \A j \in 1..(i - 1) : j \in 1..Len(s)
    BY <1>1
  <2>2. t[i] = s[i] /\ \A j \in 1..(i - 1) : t[j] = s[j]
    BY <1>2, <2>1
  <2> HIDE DEF t
  <2> QED
    BY <1>1, <1>3, <2>1, <2>2 DEF StopsAt
<1> HIDE DEF t
<1>4. RaisesCorrupt(s) => RaisesCorrupt(t)
  BY <1>3 DEF RaisesCorrupt
<1>5. RaisesDuplicate(s) => RaisesDuplicate(t)
  BY <1>3 DEF RaisesDuplicate
<1> QED
  BY <1>4, <1>5 DEF Readable, t

LEMMA IdsGrow ==
  ASSUME NEW s \in Seq(Line), NEW e \in Line
  PROVE  /\ LoggedIds(s) \subseteq LoggedIds(Append(s, e))
         /\ ~e.torn => e.id \in LoggedIds(Append(s, e))
<1> DEFINE t == Append(s, e)
<1>1. DOMAIN s = 1..Len(s) /\ DOMAIN t = 1..(Len(s) + 1) /\ Len(s) \in Nat
  OBVIOUS
<1>2. (\A i \in 1..Len(s) : t[i] = s[i]) /\ t[Len(s) + 1] = e
  OBVIOUS
<1> HIDE DEF t
<1>3. LoggedIds(s) \subseteq LoggedIds(t) /\ (~e.torn => e.id \in LoggedIds(t))
  BY <1>1, <1>2 DEF LoggedIds
<1> QED
  BY <1>3 DEF t

LEMMA AcksStep ==
  ASSUME LogTypeInv, ReadableKeepsAcks, [Next]_vars
  PROVE  ReadableKeepsAcks'
<1>1. ASSUME NEW w \in Writers, Write(w)
      PROVE  ReadableKeepsAcks'
  <2>1. PICK e \in Line : log' = Append(log, e) /\ ~e.torn /\ e.id = want[w]
    <3>1. [id |-> want[w], by |-> w, torn |-> FALSE] \in Line
      BY DEF Line, LogTypeInv, TypeOK
    <3> QED
      BY <1>1, <3>1 DEF Write, LogLine
  <2>2. acked' = acked \cup {want[w]} /\ log \in Seq(Line)
    BY <1>1 DEF Write, LogTypeInv, TypeOK
  <2> QED
    BY <2>1, <2>2, IdsGrow, ReadableBefore DEF ReadableKeepsAcks
<1>2. ASSUME NEW w \in Writers, Crash(w)
      PROVE  ReadableKeepsAcks'
  <2>1. acked' = acked
    BY <1>2 DEF Crash
  <2>2. CASE log' = log
    BY <2>1, <2>2 DEF ReadableKeepsAcks
  <2>3. CASE \E e \in Line : log' = Append(log, e)
    BY <2>1, <2>3, IdsGrow, ReadableBefore DEF ReadableKeepsAcks, LogTypeInv, TypeOK
  <2> QED
    BY <1>2, <2>2, <2>3 DEF Crash, LogLine, Line, LogTypeInv, TypeOK
<1>3. ASSUME NEW w \in Writers, Look(w) \/ Read(w)
      PROVE  ReadableKeepsAcks'
  <2>1. log' = log
    BY <1>3 DEF Look, Read
  <2>2. Readable(log) => (acked' = acked \/ (acked' = acked \cup {want[w]} /\ Present(w)))
    <3>1. CASE Look(w)
      BY <3>1 DEF Look
    <3>2. CASE Read(w)
      BY <3>2 DEF Read, Swallowed, Readable
    <3> QED
      BY <1>3, <3>1, <3>2
  <2> QED
    BY <2>1, <2>2 DEF ReadableKeepsAcks, Present
<1>4. CASE log' = log /\ acked' = acked
  BY <1>4 DEF ReadableKeepsAcks
<1> QED
  BY <1>1, <1>2, <1>3, <1>4 DEF Next, Step, Call, Acquire, vars

\* While the log can be read, no acknowledged event is missing from it, for any
\* number of writers with or without the lock, killed at any point.
THEOREM AcksAreKept == Spec => []ReadableKeepsAcks
<1>1. Init => ReadableKeepsAcks
  BY DEF Init, ReadableKeepsAcks
<1>2. LogTypeInv /\ ReadableKeepsAcks /\ [Next]_vars => LogTypeInv' /\ ReadableKeepsAcks'
  BY LogTypes, AcksStep
<1> QED
  BY <1>1, <1>2, InitLogTypes, PTL DEF Spec

(***************************************************************************)
(* Serialised writers exclude each other from read to write.               *)
(***************************************************************************)
LockInv == \A w \in Serialised : pc[w] \in Locked => holder = {w}

BySerialised(i) == log[i].by \in Serialised /\ ~log[i].torn
WriteInv ==
  \A w \in Serialised : pc[w] = "writing" =>
    \A i \in DOMAIN log : BySerialised(i) => log[i].id # want[w]

NoPair == \A i, j \in DOMAIN log :
            i # j /\ BySerialised(i) /\ BySerialised(j) => log[i].id # log[j].id

SerialInv == LockInv /\ WriteInv /\ NoPair

\* Either the lock is left as it is, or the writer w gives back what it holds.
LEMMA LockKept ==
  ASSUME LogTypeInv, LockInv, NEW w \in Writers,
         \A v \in Writers \ {w} : pc'[v] = pc[v],
         \/ holder' = holder /\ (pc'[w] \in Locked => pc[w] \in Locked \/ w \notin Serialised)
         \/ holder' = holder \ {w} /\ pc'[w] \notin Locked
  PROVE  LockInv'
<1> SUFFICES ASSUME NEW v \in Serialised, pc'[v] \in Locked
             PROVE  holder' = {v}
  BY DEF LockInv
<1>1. CASE v = w
  BY <1>1 DEF LockInv
<1>2. CASE v # w
  BY <1>2 DEF LockInv, Writers
<1> QED
  BY <1>1, <1>2

LEMMA LockStep ==
  ASSUME LogTypeInv, LockInv, [Next]_vars
  PROVE  LockInv'
<1> USE DEF Locked, Goto, Return, LogTypeInv, TypeOK
<1>1. ASSUME NEW w \in Writers, NEW i \in Ids, Call(w, i)
      PROVE  LockInv'
  BY <1>1, LockKept DEF Call
<1>2. ASSUME NEW w \in Writers, Acquire(w)
      PROVE  LockInv'
  BY <1>2 DEF Acquire, LockFree, LockInv
<1>3. ASSUME NEW w \in Writers, Look(w)
      PROVE  LockInv'
  BY <1>3, LockKept DEF Look
<1>4. ASSUME NEW w \in Writers, Read(w)
      PROVE  LockInv'
  BY <1>4, LockKept DEF Read
<1>5. ASSUME NEW w \in Writers, Write(w) \/ Crash(w)
      PROVE  LockInv'
  BY <1>5, LockKept DEF Write, Crash
<1>6. CASE UNCHANGED vars
  BY <1>6 DEF vars, LockInv
<1> QED
  BY <1>1, <1>2, <1>3, <1>4, <1>5, <1>6 DEF Next, Step

\* A line that a serialised writer adds has a new id among theirs; one of a
\* direct writer, or a torn one, does not count.
LEMMA LineAdded ==
  ASSUME LogTypeInv, SerialInv, NEW w \in Writers, NEW t \in BOOLEAN,
         pc[w] = "writing", LogLine(w, t), pc' = [pc EXCEPT ![w] = "idle"], want' = want
  PROVE  WriteInv' /\ NoPair'
<1>0. PICK n \in Nat : n = Len(log) + 1
  BY DEF LogTypeInv, TypeOK
<1>1. /\ DOMAIN log = 1..Len(log) /\ DOMAIN log' = 1..n /\ Len(log) \in Nat
      /\ \A i \in DOMAIN log : log'[i] = log[i]
      /\ log'[n] = [id |-> want[w], by |-> w, torn |-> t]
  BY <1>0 DEF LogLine, LogTypeInv, TypeOK
<1>2. \A i \in DOMAIN log' : i \in DOMAIN log \/ i = n
  BY <1>0, <1>1
<1>3. \A i \in DOMAIN log : BySerialised(i)' = BySerialised(i)
  BY <1>1 DEF BySerialised
<1>4. BySerialised(n)' => w \in Serialised
  BY <1>1 DEF BySerialised
<1>5. w \in Serialised => \A i \in DOMAIN log : BySerialised(i) => log[i].id # want[w]
  BY DEF SerialInv, WriteInv
<1>6. \A v \in Serialised : v # w /\ pc[v] = "writing" => w \notin Serialised
  BY DEF SerialInv, LockInv, Locked
<1>7. NoPair'
  BY <1>1, <1>2, <1>3, <1>4, <1>5 DEF SerialInv, NoPair
<1>8. ASSUME NEW v \in Serialised, pc'[v] = "writing"
      PROVE  \A i \in DOMAIN log' : BySerialised(i)' => log'[i].id # want'[v]
  <2>1. v # w /\ pc[v] = "writing"
    BY <1>8 DEF LogTypeInv, TypeOK
  <2> QED
    BY <1>1, <1>2, <1>3, <1>4, <1>6, <2>1 DEF SerialInv, WriteInv
<1> QED
  BY <1>7, <1>8 DEF WriteInv

LEMMA SerialStep ==
  ASSUME LogTypeInv, SerialInv, [Next]_vars
  PROVE  SerialInv'
<1>1. LockInv'
  BY LockStep DEF SerialInv
<1>2. ASSUME NEW w \in Writers, Write(w)
      PROVE  SerialInv'
  BY <1>1, <1>2, LineAdded DEF Write, Return, Goto, SerialInv
<1>3. ASSUME NEW w \in Writers, Crash(w), NEW t \in BOOLEAN, pc[w] = "writing", LogLine(w, t)
      PROVE  SerialInv'
  BY <1>1, <1>3, LineAdded DEF Crash, Return, Goto, SerialInv
<1>4. ASSUME log' = log, \A w \in Serialised : pc'[w] = "writing" => pc[w] = "writing" /\ want'[w] = want[w]
      PROVE  SerialInv'
  BY <1>1, <1>4 DEF SerialInv, WriteInv, NoPair, BySerialised
<1>5. ASSUME NEW w \in Writers, Crash(w), log' = log
      PROVE  SerialInv'
  BY <1>4, <1>5 DEF Crash, Return, Goto, LogTypeInv, TypeOK
<1>6. ASSUME NEW w \in Writers, Acquire(w) \/ Look(w)
      PROVE  SerialInv'
  BY <1>4, <1>6 DEF Acquire, Look, Return, Goto, LogTypeInv, TypeOK, Writers
<1>7. ASSUME NEW w \in Writers, NEW i \in Ids, Call(w, i)
      PROVE  SerialInv'
  BY <1>4, <1>7 DEF Call, Goto, LogTypeInv, TypeOK
<1>8. ASSUME NEW w \in Writers, Read(w)
      PROVE  SerialInv'
  <2>1. log' = log /\ want' = want
    BY <1>8 DEF Read
  <2>2. \A v \in Serialised : pc'[v] = "writing" => pc[v] = "writing" \/ ~Present(v)
    BY <1>8 DEF Read, Return, Goto, LogTypeInv, TypeOK, Writers
  <2>3. \A v \in Serialised : ~Present(v) => \A i \in DOMAIN log : BySerialised(i) => log[i].id # want[v]
    BY DEF Present, LoggedIds, BySerialised
  <2> QED
    BY <1>1, <2>1, <2>2, <2>3 DEF SerialInv, WriteInv, NoPair, BySerialised
<1>9. CASE UNCHANGED vars
  BY <1>4, <1>9 DEF vars
<1> QED
  BY <1>2, <1>3, <1>5, <1>6, <1>7, <1>8, <1>9 DEF Next, Step, Crash

\* Writers that hold the lock never repeat an id among themselves, whatever the
\* direct writers append meanwhile; without direct writers no id is repeated.
THEOREM SerialisedAreDistinct == Spec => []SerialisedNeverRepeat
<1>1. Init => SerialInv
  BY DEF Init, SerialInv, LockInv, WriteInv, NoPair, Locked, Writers
<1>2. LogTypeInv /\ SerialInv /\ [Next]_vars => LogTypeInv' /\ SerialInv'
  BY LogTypes, SerialStep
<1>3. LogTypeInv /\ SerialInv => SerialisedNeverRepeat
  <2> SUFFICES ASSUME LogTypeInv, SerialInv, NEW i \in DOMAIN log, NEW j \in DOMAIN log,
                      i # j, ~log[i].torn, ~log[j].torn, log[i].id = log[j].id
               PROVE  log[i].by \in Direct \/ log[j].by \in Direct
    BY DEF SerialisedNeverRepeat
  <2>1. log[i] \in Line /\ log[j] \in Line
    BY DEF LogTypeInv, TypeOK
  <2> QED
    BY <2>1 DEF SerialInv, NoPair, BySerialised, Line, Writers
<1> QED
  BY <1>1, <1>2, <1>3, InitLogTypes, PTL DEF Spec
=============================================================================
