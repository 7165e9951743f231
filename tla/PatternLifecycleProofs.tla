----------------------- MODULE PatternLifecycleProofs -----------------------
(***************************************************************************)
(* Proofs about PatternLifecycle, for any patterns, processes and bounds.  *)
(*                                                                         *)
(* The decision lock is exclusive, so what its holder has read of the      *)
(* pattern and of the decisions is still true when it writes.  A review is *)
(* outside the lock: only the activation of another promotion can change   *)
(* what it has seen, and raced holds the pairs where that has happened.    *)
(***************************************************************************)
EXTENDS PatternLifecycle, TLAPS

\* A call is about an existing pattern, and a decision has a voice.
Engaged == \A w \in Workers : pc[w] # "idle" => mem[w].pattern \in Patterns /\ Exists(mem[w].pattern)
Deciders == \A w \in Workers : pc[w] \in {"decide", "deciding"} => mem[w].voice \in Voices
TypeInv == TypeOK /\ Engaged /\ Deciders

LEMMA AddedTypes ==
  ASSUME revisions \in [Patterns -> Seq(Revision)],
         NEW p \in Patterns, NEW s \in States, NEW n \in Nat, AddRevision(p, s, n)
  PROVE  /\ revisions' \in [Patterns -> Seq(Revision)]
         /\ Number(p)' = Number(p) + 1 /\ State(p)' = s /\ Exists(p)'
         /\ \A q \in Patterns : q # p => revisions'[q] = revisions[q]
         /\ \A q \in Patterns : Exists(q) => Exists(q)'
<1> DEFINE r == [state |-> s, approval |-> n]
<1>1. r \in Revision
  BY DEF Revision
<1>2. revisions' = [revisions EXCEPT ![p] = Append(revisions[p], r)]
  BY DEF AddRevision
<1>3. revisions[p] \in Seq(Revision)
  OBVIOUS
<1> HIDE DEF r
<1>4. /\ Append(revisions[p], r) \in Seq(Revision)
      /\ Len(Append(revisions[p], r)) = Len(revisions[p]) + 1
      /\ Append(revisions[p], r)[Len(revisions[p]) + 1] = r
      /\ Append(revisions[p], r) # <<>>
      /\ Len(revisions[p]) \in Nat
  BY <1>1, <1>3
<1>5. revisions'[p] = Append(revisions[p], r)
  BY <1>2
<1>6. revisions' \in [Patterns -> Seq(Revision)]
  BY <1>2, <1>4
<1>7. Number(p)' = Number(p) + 1 /\ Exists(p)'
  BY <1>4, <1>5 DEF Number, Exists
<1>8. State(p)' = s
  BY <1>4, <1>5 DEF Number, State, r
<1> QED
  BY <1>2, <1>6, <1>7, <1>8 DEF Exists

LEMMA StateType ==
  ASSUME TypeOK, NEW p \in Patterns, Exists(p)
  PROVE  State(p) \in States /\ Number(p) \in Nat
<1>1. revisions[p] \in Seq(Revision)
  BY DEF TypeOK
<1>2. Number(p) \in DOMAIN revisions[p] /\ Number(p) \in Nat
  BY <1>1 DEF Exists, Number
<1>3. revisions[p][Number(p)] \in Revision
  BY <1>1, <1>2
<1> QED
  BY <1>2, <1>3 DEF State, Revision

LEMMA TypeStep ==
  ASSUME TypeInv, [Next]_vars
  PROVE  TypeInv'
<1> USE DEF TypeInv, TypeOK, Engaged, Deciders, Goto, Leave, Points, Hold, Release
<1>0. NoWork \in Work /\ \A w \in Workers : mem[w] \in Work
  BY DEF NoWork, Work, States, Actions
<1>1. ASSUME NEW p \in Patterns, Propose(p)
      PROVE  TypeInv'
  BY <1>1, AddedTypes DEF Propose, States
<1>2. ASSUME NEW w \in Workers, NEW p \in Patterns, NEW goal \in {"review", "promote"},
             Review(w, p, goal)
      PROVE  TypeInv'
  <2>1. [NoWork EXCEPT !.pattern = p, !.goal = goal, !.state = State(p)] \in Work
    BY <1>2, <1>0, StateType DEF Review, Work, NoWork
  <2>2. mem' \in [Workers -> Work] /\ mem'[w].pattern = p
    BY <1>2, <2>1 DEF Review, NoWork
  <2> QED
    BY <1>2, <2>2 DEF Review, Exists
<1>3. ASSUME NEW w \in Workers, NEW p \in Patterns, NEW a \in Actions, NEW v \in Voices,
             Decide(w, p, a, v)
      PROVE  TypeInv'
  <2>1. [NoWork EXCEPT !.pattern = p, !.action = a, !.voice = v] \in Work
    BY <1>0 DEF Work, NoWork
  <2>2. mem' \in [Workers -> Work] /\ mem'[w].pattern = p
    BY <1>3, <2>1 DEF Decide, NoWork
  <2> QED
    BY <1>3, <2>2 DEF Decide, Exists
<1>4. ASSUME NEW w \in Workers, Advance(w) \/ Crash(w)
      PROVE  TypeInv'
  <2> DEFINE p == mem[w].pattern
  <2>0. pc[w] # "idle" => p \in Patterns /\ Exists(p)
    OBVIOUS
  <2>1. CASE Shadow(w)
    <3>1. [mem[w] EXCEPT !.state = "shadow"] \in Work
      BY <1>0 DEF Work, States
    <3>2. CASE Legal(p, "shadow")
      <4>1. AddRevision(p, "shadow", 0)
        BY <2>1, <3>2 DEF Shadow
      <4>2. /\ revisions' \in [Patterns -> Seq(Revision)]
            /\ \A q \in Patterns : Exists(q) => Exists(q)'
        BY <2>0, <2>1, <4>1, AddedTypes DEF Shadow, States
      <4>3. /\ mem' = [mem EXCEPT ![w] = [mem[w] EXCEPT !.state = "shadow"]]
            /\ pc' = [pc EXCEPT ![w] = "replay"]
            /\ UNCHANGED <<decisions, holder, crashes, raced>>
        BY <2>1, <3>2 DEF Shadow
      <4>4. /\ mem' \in [Workers -> Work] /\ mem'[w].pattern = p
            /\ mem'[w].voice = mem[w].voice
        BY <1>0, <3>1, <4>3 DEF Work
      <4>5. Engaged'
        BY <2>0, <2>1, <4>2, <4>3, <4>4 DEF Shadow
      <4> QED
        BY <4>2, <4>3, <4>4, <4>5
    <3>3. CASE ~Legal(p, "shadow")
      <4>1. Leave(w) /\ UNCHANGED <<revisions, decisions, holder, crashes, raced>>
        BY <2>1, <3>3 DEF Shadow
      <4> QED
        BY <1>0, <4>1 DEF Exists
    <3> QED
      BY <3>2, <3>3
  <2>2. CASE Replay(w)
    BY <1>0, <2>2 DEF Replay, Exists
  <2>3. CASE Validate(w)
    <3>1. ASSUME NEW i \in DOMAIN decisions
          PROVE  [mem[w] EXCEPT !.approval = i] \in Work
      <4>1. decisions \in Seq(Decision)
        OBVIOUS
      <4>2. i \in Nat
        BY <4>1
      <4> QED
        BY <1>0, <4>2 DEF Work
    <3>2. CASE Goto(w, "activate") /\ \E i \in DOMAIN decisions : mem' = [mem EXCEPT ![w].approval = i]
      <4>1. mem' \in [Workers -> Work] /\ mem'[w].pattern = p
        BY <1>0, <3>1, <3>2
      <4> QED
        BY <2>0, <2>3, <3>2, <4>1 DEF Validate, Exists
    <3>3. CASE Leave(w)
      BY <1>0, <2>3, <3>3 DEF Validate, Exists
    <3> QED
      BY <2>3, <3>2, <3>3 DEF Validate
  <2>4. CASE CheckActivation(w)
    <3>0. p \in Patterns
      BY <2>0, <2>4 DEF CheckActivation
    <3>1. holder' \in [Patterns -> SUBSET Workers]
      <4>1. holder' = holder \/ holder' = [holder EXCEPT ![p] = holder[p] \cup {w}]
        BY <2>4 DEF CheckActivation
      <4>2. holder[p] \cup {w} \in SUBSET Workers
        BY <3>0
      <4> QED
        BY <4>1, <4>2
    <3>2. CASE Leave(w)
      BY <1>0, <2>4, <3>1, <3>2 DEF CheckActivation, Exists
    <3>3. CASE Goto(w, "activating") /\ UNCHANGED mem
      BY <2>0, <2>4, <3>1, <3>3 DEF CheckActivation, Exists
    <3> QED
      BY <2>4, <3>2, <3>3 DEF CheckActivation
  <2>5. CASE Activate(w)
    <3>1. mem[w].approval \in Nat /\ p \in Patterns
      BY <1>0, <2>5 DEF Activate, Work
    <3>2. raced' \subseteq SUBSET Patterns
      <4>1. \A v \in Overtakes(w) : mem[v].pattern \in Patterns
        BY DEF Overtakes, Promoting
      <4>2. \A s \in raced' : s \in raced \/ \E v \in Overtakes(w) : s = {p, mem[v].pattern}
        BY <2>5 DEF Activate
      <4> QED
        BY <3>1, <4>1, <4>2
    <3>3. /\ revisions' \in [Patterns -> Seq(Revision)]
          /\ \A q \in Patterns : Exists(q) => Exists(q)'
      BY <2>5, <3>1, AddedTypes DEF Activate, States
    <3>4. /\ pc' = [pc EXCEPT ![w] = "idle"] /\ mem' = [mem EXCEPT ![w] = NoWork]
          /\ holder' = [holder EXCEPT ![p] = holder[p] \ {w}]
          /\ UNCHANGED <<decisions, crashes>>
      BY <2>5 DEF Activate
    <3> QED
      BY <1>0, <3>1, <3>2, <3>3, <3>4
  <2>6. CASE ReadPattern(w)
    <3>1. State(p) \in States /\ Number(p) \in Nat
      BY <2>0, <2>6, StateType DEF ReadPattern
    <3>2. [mem[w] EXCEPT !.state = State(p), !.revision = Number(p)] \in Work
      BY <1>0, <3>1 DEF Work
    <3> QED
      BY <2>0, <2>6, <3>2 DEF ReadPattern, Exists
  <2>7. CASE AppendDecision(w)
    <3> DEFINE d == DecisionOf(w)
    <3>1. d \in Decision
      BY <1>0, <2>0, <2>7 DEF AppendDecision, DecisionOf, Decision, Work
    <3>2. decisions' = decisions \/ decisions' = Append(decisions, d)
      BY <2>7 DEF AppendDecision
    <3>3. decisions' \in Seq(Decision)
      <4> HIDE DEF d
      <4>1. decisions \in Seq(Decision)
        OBVIOUS
      <4>2. Append(decisions, d) \in Seq(Decision)
        BY <3>1, <4>1
      <4> QED
        BY <3>2, <4>1, <4>2
    <3> QED
      BY <1>0, <2>7, <3>3 DEF AppendDecision, Exists
  <2>8. CASE Suspend(w)
    <3>1. p \in Patterns
      BY <2>0, <2>8 DEF Suspend
    <3> QED
      BY <1>0, <2>8, <3>1, AddedTypes DEF Suspend, Exists, States
  <2>9. CASE Crash(w)
    BY <1>0, <2>9 DEF Crash, Exists
  <2> QED
    BY <1>4, <2>1, <2>2, <2>3, <2>4, <2>5, <2>6, <2>7, <2>8, <2>9 DEF Advance
<1>5. CASE UNCHANGED vars
  BY <1>5 DEF vars, Exists
<1> QED
  BY <1>1, <1>2, <1>3, <1>4, <1>5 DEF Next

\* Pattern p exists as before, or it was changed by one of these four.
Kept(p) == revisions'[p] = revisions[p]
Changed(p) ==
  \/ ~Exists(p) /\ State(p)' = "candidate"
  \/ Exists(p) /\ State(p) = "candidate" /\ State(p)' = "shadow"
  \/ Exists(p) /\ State(p) = "active" /\ State(p)' = "suspended"
  \/ \E w \in Workers : Activate(w) /\ mem[w].pattern = p /\ State(p)' = "active"

LEMMA Changes ==
  ASSUME TypeInv, [Next]_vars, NEW p \in Patterns
  PROVE  Kept(p) \/ Changed(p)
<1> USE DEF Kept, Changed, TypeInv
<1>0. revisions \in [Patterns -> Seq(Revision)]
  BY DEF TypeOK
<1>1. ASSUME NEW q \in Patterns, Propose(q)
      PROVE  Kept(p) \/ Changed(p)
  BY <1>0, <1>1, AddedTypes DEF Propose, States
<1>2. ASSUME NEW w \in Workers, NEW q \in Patterns,
             \/ \E goal \in {"review", "promote"} : Review(w, q, goal)
             \/ \E a \in Actions, v \in Voices : Decide(w, q, a, v)
      PROVE  Kept(p)
  BY <1>2 DEF Review, Decide
<1>3. ASSUME NEW w \in Workers, Advance(w) \/ Crash(w)
      PROVE  Kept(p) \/ Changed(p)
  <2> PICK q : q = mem[w].pattern
    OBVIOUS
  <2>0. pc[w] # "idle" => q \in Patterns /\ Exists(q)
    BY DEF Engaged
  <2>1. CASE Shadow(w)
    <3>1. q \in Patterns /\ Exists(q)
      BY <2>0, <2>1 DEF Shadow
    <3>2. CASE Legal(q, "shadow")
      <4>1. AddRevision(q, "shadow", 0) /\ State(q) = "candidate"
        BY <2>1, <3>2 DEF Shadow, Legal, Transitions
      <4> QED
        BY <1>0, <3>1, <4>1, AddedTypes DEF States
    <3> QED
      BY <2>1, <3>2 DEF Shadow
  <2>2. CASE Activate(w)
    <3>1. q \in Patterns /\ mem[w].approval \in Nat
      BY <2>0, <2>2 DEF Activate, TypeOK, Work
    <3>2. AddRevision(q, "active", mem[w].approval)
      BY <2>2 DEF Activate
    <3>3. State(q)' = "active" /\ \A r \in Patterns : r # q => Kept(r)
      BY <1>0, <3>1, <3>2, AddedTypes DEF States
    <3> QED
      BY <2>2, <3>3
  <2>3. CASE Suspend(w)
    <3>1. q \in Patterns /\ Exists(q)
      BY <2>0, <2>3 DEF Suspend
    <3>2. CASE Legal(q, "suspended")
      <4>1. AddRevision(q, "suspended", 0) /\ State(q) = "active"
        BY <2>3, <3>2 DEF Suspend, Legal, Transitions
      <4> QED
        BY <1>0, <3>1, <4>1, AddedTypes DEF States
    <3> QED
      BY <2>3, <3>2 DEF Suspend
  <2>4. CASE Replay(w) \/ Validate(w) \/ CheckActivation(w) \/ ReadPattern(w)
             \/ AppendDecision(w) \/ Crash(w)
    BY <2>4 DEF Replay, Validate, CheckActivation, ReadPattern, AppendDecision, Crash
  <2> QED
    BY <1>3, <2>1, <2>2, <2>3, <2>4 DEF Advance
<1>4. CASE UNCHANGED vars
  BY <1>4 DEF vars
<1> QED
  BY <1>1, <1>2, <1>3, <1>4 DEF Next

-----------------------------------------------------------------------------
\* The lock is exclusive, and what was read under it is current.
Exclusive == \A w \in Workers : pc[w] \in Locked => holder[mem[w].pattern] = {w}

ActivatingView ==
  \A w \in Workers : pc[w] = "activating" => Activatable(w)
DecidingView ==
  \A w \in Workers : pc[w] = "deciding" => mem[w].state = State(mem[w].pattern)
LockInv == TypeInv /\ Exclusive /\ ActivatingView /\ DecidingView

LEMMA LatestKept ==
  ASSUME decisions \in Seq(Decision), NEW d \in Decision,
         decisions' = decisions \/ decisions' = Append(decisions, d),
         NEW p \in Patterns, d.pattern # p, NEW i, LatestOf(p, i)
  PROVE  LatestOf(p, i)' /\ decisions'[i] = decisions[i]
<1>1. CASE decisions' = decisions
  BY <1>1 DEF LatestOf
<1>2. CASE decisions' = Append(decisions, d)
  <2>1. /\ Len(decisions') = Len(decisions) + 1 /\ Len(decisions) \in Nat
        /\ decisions'[Len(decisions) + 1] = d
        /\ \A j \in 1..Len(decisions) : decisions'[j] = decisions[j]
        /\ i \in 1..Len(decisions) /\ i \in DOMAIN decisions'
    BY <1>2 DEF LatestOf
  <2>2. ASSUME NEW j \in (i + 1)..Len(decisions')
        PROVE  decisions'[j].pattern # p
    BY <2>1 DEF LatestOf
  <2> QED
    BY <2>1, <2>2 DEF LatestOf
<1> QED
  BY <1>1, <1>2

\* Whoever holds a lock and goes on holding it finds nothing changed.
LEMMA Undisturbed ==
  ASSUME LockInv, [Next]_vars, NEW v \in Workers, pc[v] \in Locked, pc'[v] \in Locked
  PROVE  LET p == mem[v].pattern IN
         /\ pc'[v] = pc[v] /\ mem'[v] = mem[v]
         /\ Kept(p) /\ holder'[p] = holder[p]
         /\ \A i : LatestOf(p, i) => LatestOf(p, i)' /\ decisions'[i] = decisions[i]
<1> PICK p : p = mem[v].pattern
  OBVIOUS
<1> USE DEF Locked, Kept, Goto, Leave
<1>0. p \in Patterns /\ Exists(p) /\ holder[p] = {v} /\ pc \in [Workers -> Points]
      /\ holder \in [Patterns -> SUBSET Workers] /\ mem \in [Workers -> Work]
      /\ revisions \in [Patterns -> Seq(Revision)]
  BY DEF LockInv, TypeInv, TypeOK, Engaged, Exclusive
<1> DEFINE Goal == /\ pc'[v] = pc[v] /\ mem'[v] = mem[v]
                   /\ revisions'[p] = revisions[p] /\ holder'[p] = holder[p]
                   /\ \A i : LatestOf(p, i) => LatestOf(p, i)' /\ decisions'[i] = decisions[i]
<1>1. ASSUME NEW q \in Patterns, Propose(q)
      PROVE  Goal
  BY <1>0, <1>1, AddedTypes DEF Propose, LatestOf, States
<1>2. ASSUME NEW w \in Workers, NEW q \in Patterns,
             \/ \E goal \in {"review", "promote"} : Review(w, q, goal)
             \/ \E a \in Actions, x \in Voices : Decide(w, q, a, x)
      PROVE  Goal
  BY <1>0, <1>2 DEF Review, Decide, LatestOf
<1>3. ASSUME NEW w \in Workers, Advance(w) \/ Crash(w)
      PROVE  Goal
  <2> PICK q : q = mem[w].pattern
    OBVIOUS
  <2>0. pc[w] # "idle" => q \in Patterns
    BY DEF LockInv, TypeInv, Engaged
  <2>1. CASE Shadow(w)
    <3>1. w # v /\ q # p /\ q \in Patterns
      BY <1>0, <2>0, <2>1 DEF Shadow, LockFree
    <3>2. revisions'[p] = revisions[p]
      BY <1>0, <2>1, <3>1, AddedTypes DEF Shadow, States
    <3> QED
      BY <1>0, <2>1, <3>1, <3>2 DEF Shadow, LatestOf
  <2>2. CASE Replay(w) \/ Validate(w)
    BY <1>0, <2>2 DEF Replay, Validate, LatestOf
  <2>3. CASE CheckActivation(w)
    <3>1. w # v /\ q # p /\ q \in Patterns
      BY <1>0, <2>0, <2>3 DEF CheckActivation, LockFree
    <3> QED
      BY <1>0, <2>3, <3>1 DEF CheckActivation, LatestOf, Hold
  <2>4. CASE Activate(w)
    <3>1. w # v /\ q # p /\ q \in Patterns /\ mem[w].approval \in Nat
      BY <1>0, <2>0, <2>4 DEF Activate, LockInv, Exclusive, Work
    <3>2. revisions'[p] = revisions[p]
      BY <1>0, <2>4, <3>1, AddedTypes DEF Activate, States
    <3> QED
      BY <1>0, <2>4, <3>1, <3>2 DEF Activate, LatestOf, Release
  <2>5. CASE ReadPattern(w)
    <3>1. w # v /\ q # p /\ q \in Patterns
      BY <1>0, <2>0, <2>5 DEF ReadPattern, LockFree
    <3> QED
      BY <1>0, <2>5, <3>1 DEF ReadPattern, LatestOf, Hold
  <2>6. CASE AppendDecision(w)
    <3>1. w # v /\ q # p /\ q \in Patterns
      BY <1>0, <2>0, <2>6 DEF AppendDecision, LockInv, Exclusive
    <3> DEFINE d == DecisionOf(w)
    <3>2. d \in Decision /\ d.pattern # p /\ decisions \in Seq(Decision)
      BY <1>0, <2>6, <3>1 DEF AppendDecision, DecisionOf, Decision, Work, LockInv, TypeInv,
                              TypeOK, Deciders
    <3>3. decisions' = decisions \/ decisions' = Append(decisions, d)
      BY <2>6 DEF AppendDecision
    <3> HIDE DEF d
    <3>4. \A i : LatestOf(p, i) => LatestOf(p, i)' /\ decisions'[i] = decisions[i]
      BY <1>0, <3>2, <3>3, LatestKept
    <3> QED
      BY <1>0, <2>6, <3>1, <3>4 DEF AppendDecision, Release
  <2>7. CASE Suspend(w)
    <3>1. w # v /\ q # p /\ q \in Patterns
      BY <1>0, <2>0, <2>7 DEF Suspend, LockFree
    <3>2. revisions'[p] = revisions[p]
      BY <1>0, <2>7, <3>1, AddedTypes DEF Suspend, States
    <3> QED
      BY <1>0, <2>7, <3>1, <3>2 DEF Suspend, LatestOf
  <2>8. CASE Crash(w)
    BY <1>0, <2>8 DEF Crash, LatestOf
  <2> QED
    BY <1>3, <2>1, <2>2, <2>3, <2>4, <2>5, <2>6, <2>7, <2>8 DEF Advance
<1>4. CASE UNCHANGED vars
  BY <1>4 DEF vars, LatestOf
<1> QED
  BY <1>1, <1>2, <1>3, <1>4 DEF Next

\* Whoever takes a lock takes it alone and has just read what it needs.
LEMMA Entered ==
  ASSUME LockInv, [Next]_vars, NEW v \in Workers, pc[v] \notin Locked, pc'[v] \in Locked
  PROVE  /\ mem'[v].pattern \in Patterns /\ holder'[mem'[v].pattern] = {v}
         /\ pc'[v] = "activating" => Activatable(v)'
         /\ pc'[v] = "deciding" => (mem[v].state = State(mem[v].pattern))'
<1> USE DEF Locked, Goto, Leave
<1>0. /\ pc \in [Workers -> Points] /\ mem \in [Workers -> Work]
      /\ holder \in [Patterns -> SUBSET Workers]
      /\ pc[v] # "idle" => mem[v].pattern \in Patterns
  BY DEF LockInv, TypeInv, TypeOK, Engaged
<1>1. CheckActivation(v) \/ ReadPattern(v)
  <2>1. \A p \in Patterns : ~Propose(p)
    BY DEF Propose
  <2>2. ASSUME NEW w \in Workers, NEW q \in Patterns,
               \/ \E goal \in {"review", "promote"} : Review(w, q, goal)
               \/ \E a \in Actions, x \in Voices : Decide(w, q, a, x)
        PROVE  FALSE
    BY <1>0, <2>2 DEF Review, Decide
  <2>3. ASSUME NEW w \in Workers, Crash(w)
        PROVE  FALSE
    BY <1>0, <2>3 DEF Crash
  <2>4. ASSUME NEW w \in Workers, Shadow(w) \/ Replay(w) \/ Validate(w) \/ Activate(w)
                                  \/ AppendDecision(w) \/ Suspend(w)
        PROVE  FALSE
    BY <1>0, <2>4 DEF Shadow, Replay, Validate, Activate, AppendDecision, Suspend
  <2>5. ASSUME NEW w \in Workers, CheckActivation(w) \/ ReadPattern(w)
        PROVE  w = v
    BY <1>0, <2>5 DEF CheckActivation, ReadPattern
  <2>6. ~UNCHANGED vars
    BY DEF vars
  <2> QED
    BY <2>1, <2>2, <2>3, <2>4, <2>5, <2>6 DEF Next, Advance
<1>2. CASE CheckActivation(v)
  <2>1. Activatable(v) /\ UNCHANGED <<mem, decisions, revisions>> /\ Hold(v)
        /\ pc'[v] = "activating" /\ LockFree(mem[v].pattern) /\ mem[v].pattern \in Patterns
    BY <1>0, <1>2 DEF CheckActivation
  <2>2. Activatable(v)'
    BY <2>1 DEF Activatable, Legal, LatestOf, Allows, State, Number
  <2> QED
    BY <1>0, <2>1, <2>2 DEF Hold, LockFree
<1>3. CASE ReadPattern(v)
  <2> PICK p : p = mem[v].pattern
    OBVIOUS
  <2>1. /\ p \in Patterns /\ LockFree(p) /\ holder' = [holder EXCEPT ![p] = @ \cup {v}]
        /\ mem' = [mem EXCEPT ![v] = [mem[v] EXCEPT !.state = State(p), !.revision = Number(p)]]
        /\ UNCHANGED revisions /\ pc'[v] = "deciding"
    BY <1>0, <1>3 DEF ReadPattern, Hold
  <2>2. mem'[v].pattern = p /\ mem'[v].state = State(p)
    BY <1>0, <2>1 DEF Work
  <2>3. State(p)' = State(p)
    BY <2>1 DEF State, Number
  <2>4. (mem[v].state = State(mem[v].pattern))'
    BY <2>2, <2>3 DEF State, Number
  <2>5. holder'[p] = {v}
    BY <1>0, <2>1 DEF LockFree
  <2> QED
    BY <2>1, <2>2, <2>4, <2>5
<1> QED
  BY <1>1, <1>2, <1>3

LEMMA LockStep ==
  ASSUME LockInv, [Next]_vars
  PROVE  LockInv'
<1>1. TypeInv'
  BY TypeStep DEF LockInv
<1>2. ASSUME NEW v \in Workers, pc'[v] \in Locked
      PROVE  /\ holder'[mem'[v].pattern] = {v}
             /\ pc'[v] = "activating" => Activatable(v)'
             /\ pc'[v] = "deciding" => (mem[v].state = State(mem[v].pattern))'
  <2>1. CASE pc[v] \in Locked
    <3> PICK p : p = mem[v].pattern
      OBVIOUS
    <3>1. /\ pc'[v] = pc[v] /\ mem'[v] = mem[v]
          /\ revisions'[p] = revisions[p] /\ holder'[p] = holder[p]
          /\ \A i : LatestOf(p, i) => LatestOf(p, i)' /\ decisions'[i] = decisions[i]
      BY <1>2, <2>1, Undisturbed DEF Kept
    <3>2. holder[p] = {v}
      BY <2>1 DEF LockInv, Exclusive
    <3>3. State(p)' = State(p) /\ Number(p)' = Number(p)
      BY <3>1 DEF State, Number
    <3>4. ASSUME pc[v] = "activating"
          PROVE  Activatable(v)'
      <4>1. Activatable(v)
        BY <3>4 DEF LockInv, ActivatingView
      <4>2. /\ Legal(p, "active") /\ LatestOf(p, mem[v].approval)
            /\ decisions[mem[v].approval].action = "approve"
            /\ decisions[mem[v].approval].revision = Number(p)
        BY <4>1 DEF Activatable, Allows
      <4>3. /\ Legal(p, "active")' /\ LatestOf(p, mem[v].approval)'
            /\ decisions'[mem[v].approval].action = "approve"
            /\ decisions'[mem[v].approval].revision = Number(p)'
        BY <3>1, <3>3, <4>2 DEF Legal, LatestOf
      <4> QED
        BY <3>1, <4>3 DEF Activatable, Allows, Legal, LatestOf
    <3>5. pc[v] = "deciding" => (mem[v].state = State(mem[v].pattern))'
      <4>1. pc[v] = "deciding" => mem[v].state = State(p)
        BY DEF LockInv, DecidingView
      <4> QED
        BY <3>1, <3>3, <4>1 DEF State, Number
    <3>6. holder'[mem'[v].pattern] = {v}
      BY <3>1, <3>2
    <3> QED
      BY <3>1, <3>4, <3>5, <3>6
  <2>2. CASE pc[v] \notin Locked
    BY <1>2, <2>2, Entered
  <2> QED
    BY <2>1, <2>2
<1> QED
  BY <1>1, <1>2 DEF LockInv, Exclusive, ActivatingView, DecidingView, Locked

LEMMA LockInit ==
  ASSUME Init
  PROVE  LockInv
<1>1. NoWork \in Work /\ "withhold" \in Actions
  BY DEF NoWork, Work, States, Actions
<1>2. \A w \in Workers : pc[w] = "idle"
  BY DEF Init
<1>3. TypeOK
  BY <1>1 DEF Init, TypeOK, Points
<1> QED
  BY <1>2, <1>3 DEF LockInv, TypeInv, Engaged, Deciders, Exclusive, ActivatingView, DecidingView, Locked

THEOREM LockInvariant == Spec => []LockInv
<1>1. Init => LockInv
  BY LockInit
<1>2. LockInv /\ [Next]_vars => LockInv'
  BY LockStep
<1> QED
  BY <1>1, <1>2, PTL DEF Spec

(***************************************************************************)
(* The files, the log, the locks and every call keep their types.          *)
(***************************************************************************)
THEOREM TypeCorrect == Spec => []TypeOK
<1>1. LockInv => TypeOK
  BY DEF LockInv, TypeInv
<1> QED
  BY <1>1, LockInvariant, PTL

(***************************************************************************)
(* record_pattern_decision and the active branch of revise_pattern share   *)
(* the lock: nothing goes active against the decision that is the latest   *)
(* when its revision is written.                                           *)
(***************************************************************************)
THEOREM ActivationIsAuthorised == Spec => ActivationHonoursLatestDecision
<1> DEFINE Honoured == \A p \in Patterns : Activated(p) =>
             \E i \in DOMAIN decisions :
               /\ LatestOf(p, i)
               /\ decisions[i].action = "approve" /\ decisions[i].revision = Number(p)
<1>1. LockInv /\ [Next]_vars => [Honoured]_revisions
  <2> SUFFICES ASSUME LockInv, [Next]_vars, NEW p \in Patterns, Activated(p)
               PROVE  \E i \in DOMAIN decisions :
                        /\ LatestOf(p, i)
                        /\ decisions[i].action = "approve" /\ decisions[i].revision = Number(p)
    OBVIOUS
  <2>1. revisions \in [Patterns -> Seq(Revision)] /\ TypeInv
    BY DEF LockInv, TypeInv, TypeOK
  <2>2. ~Kept(p)
    <3>1. revisions[p] \in Seq(Revision)
      BY <2>1
    <3>2. Len(revisions[p]) \in Nat
      BY <3>1
    <3> QED
      BY <3>2 DEF Activated, Number, Kept
  <2>3. PICK w \in Workers : Activate(w) /\ mem[w].pattern = p
    BY <2>1, <2>2, Changes DEF Activated, Changed
  <2>4. Activatable(w)
    BY <2>3 DEF Activate, LockInv, ActivatingView
  <2> QED
    BY <2>3, <2>4 DEF Activatable, Allows, LatestOf
<1> QED
  BY <1>1, LockInvariant, PTL DEF Spec, ActivationHonoursLatestDecision

-----------------------------------------------------------------------------
\* A call that is about to suspend goes on being about to, unless it did or died.
LEMMA SuspendersStay ==
  ASSUME LockInv, [Next]_vars, NEW v \in Workers, pc[v] = "suspend"
  PROVE  \/ pc'[v] = "suspend" /\ mem'[v] = mem[v]
         \/ Suspend(v) \/ crashes' # 0
<1> USE DEF Goto, Leave
<1>0. /\ pc \in [Workers -> Points] /\ mem \in [Workers -> Work] /\ crashes \in Nat
  BY DEF LockInv, TypeInv, TypeOK
<1>1. ASSUME NEW w \in Workers, NEW q \in Patterns,
             \/ \E goal \in {"review", "promote"} : Review(w, q, goal)
             \/ \E a \in Actions, x \in Voices : Decide(w, q, a, x)
      PROVE  pc'[v] = "suspend" /\ mem'[v] = mem[v]
  BY <1>0, <1>1 DEF Review, Decide
<1>2. ASSUME NEW q \in Patterns, Propose(q)
      PROVE  pc'[v] = "suspend" /\ mem'[v] = mem[v]
  BY <1>2 DEF Propose
<1>3. ASSUME NEW w \in Workers, \/ Shadow(w) \/ Replay(w) \/ Validate(w) \/ CheckActivation(w)
                                \/ Activate(w) \/ ReadPattern(w) \/ AppendDecision(w)
      PROVE  pc'[v] = "suspend" /\ mem'[v] = mem[v]
  BY <1>0, <1>3 DEF Shadow, Replay, Validate, CheckActivation, Activate, ReadPattern, AppendDecision
<1>4. ASSUME NEW w \in Workers, Suspend(w)
      PROVE  Suspend(v) \/ (pc'[v] = "suspend" /\ mem'[v] = mem[v])
  BY <1>0, <1>4 DEF Suspend
<1>5. ASSUME NEW w \in Workers, Crash(w)
      PROVE  crashes' # 0
  BY <1>0, <1>5 DEF Crash
<1>6. CASE UNCHANGED vars
  BY <1>6 DEF vars
<1> QED
  BY <1>1, <1>2, <1>3, <1>4, <1>5, <1>6 DEF Next, Advance

\* The last decision about p in the next state is an old one, or one being logged.
LEMMA LatestComesFrom ==
  ASSUME LockInv, [Next]_vars, NEW p \in Patterns, NEW i \in DOMAIN decisions', LatestOf(p, i)'
  PROVE  \/ LatestOf(p, i) /\ i \in DOMAIN decisions /\ decisions'[i] = decisions[i]
         \/ \E w \in Workers : /\ AppendDecision(w) /\ mem[w].pattern = p
                               /\ mem[w].action = decisions'[i].action
<1>0. decisions \in Seq(Decision) /\ mem \in [Workers -> Work]
  BY DEF LockInv, TypeInv, TypeOK
<1>1. CASE decisions' = decisions
  BY <1>1 DEF LatestOf
<1>2. CASE \E w \in Workers : AppendDecision(w) /\ decisions' = Append(decisions, DecisionOf(w))
  <2>1. PICK w \in Workers : AppendDecision(w) /\ decisions' = Append(decisions, DecisionOf(w))
    BY <1>2
  <2>2. PICK d : d = DecisionOf(w)
    OBVIOUS
  <2>3. d.pattern = mem[w].pattern /\ d.action = mem[w].action
    BY <2>2 DEF DecisionOf
  <2>4. /\ Len(decisions') = Len(decisions) + 1 /\ Len(decisions) \in Nat
        /\ decisions'[Len(decisions) + 1] = d
        /\ \A j \in 1..Len(decisions) : decisions'[j] = decisions[j]
        /\ DOMAIN decisions' = 1..(Len(decisions) + 1) /\ DOMAIN decisions = 1..Len(decisions)
    BY <1>0, <2>1, <2>2
  <2>5. CASE i = Len(decisions) + 1
    BY <2>1, <2>3, <2>4, <2>5 DEF LatestOf
  <2>6. CASE i # Len(decisions) + 1
    <3>1. i \in DOMAIN decisions /\ decisions'[i] = decisions[i]
      BY <2>4, <2>6
    <3>2. ASSUME NEW j \in (i + 1)..Len(decisions)
          PROVE  decisions[j].pattern # p
      BY <2>4, <3>1 DEF LatestOf
    <3> QED
      BY <3>1, <3>2 DEF LatestOf
  <2> QED
    BY <2>5, <2>6
<1>3. \/ decisions' = decisions
      \/ \E w \in Workers : AppendDecision(w) /\ decisions' = Append(decisions, DecisionOf(w))
  <2>1. ASSUME NEW w \in Workers, AppendDecision(w)
        PROVE  decisions' = decisions \/ decisions' = Append(decisions, DecisionOf(w))
    BY <2>1 DEF AppendDecision
  <2> QED
    BY <2>1 DEF Next, Advance, Propose, Review, Decide, Shadow, Replay, Validate, CheckActivation,
                Activate, ReadPattern, Suspend, Crash, vars
<1> QED
  BY <1>1, <1>2, <1>3

LEMMA WithdrawnStep ==
  ASSUME LockInv, WithdrawnIsSuspended, [Next]_vars
  PROVE  WithdrawnIsSuspended'
<1> SUFFICES ASSUME crashes' = 0, NEW p \in Patterns, Exists(p)', State(p)' = "active",
                    NEW i \in DOMAIN decisions', LatestOf(p, i)', decisions'[i].action # "approve"
             PROVE  \E w \in Workers : pc'[w] = "suspend" /\ mem'[w].pattern = p
  BY DEF WithdrawnIsSuspended, Active
<1>0. /\ pc \in [Workers -> Points] /\ mem \in [Workers -> Work] /\ crashes \in Nat
      /\ decisions \in Seq(Decision) /\ TypeInv
  BY DEF LockInv, TypeInv, TypeOK
<1>1. crashes = 0
  <2>1. crashes' = crashes \/ crashes' = crashes + 1
    BY DEF Next, Advance, Propose, Review, Decide, Shadow, Replay, Validate, CheckActivation,
           Activate, ReadPattern, AppendDecision, Suspend, Crash, vars
  <2> QED
    BY <1>0, <2>1
<1>2. ASSUME NEW w \in Workers, Suspend(w), mem[w].pattern = p
      PROVE  FALSE
  <2>1. p \in Patterns /\ Exists(p) /\ revisions \in [Patterns -> Seq(Revision)]
    BY <1>0, <1>2 DEF Suspend, TypeInv, TypeOK, Engaged
  <2>2. CASE Legal(p, "suspended")
    <3>1. AddRevision(p, "suspended", 0)
      BY <1>2, <2>2 DEF Suspend
    <3>2. State(p)' = "suspended"
      BY <2>1, <3>1, AddedTypes DEF States
    <3> QED
      BY <3>2
  <2>3. CASE ~Legal(p, "suspended")
    <3>1. UNCHANGED revisions
      BY <1>2, <2>3 DEF Suspend
    <3> QED
      BY <2>3, <3>1 DEF Legal, Transitions, State, Number
  <2> QED
    BY <2>2, <2>3
<1>3. CASE \E w \in Workers : Activate(w) /\ mem[w].pattern = p
  <2>1. PICK w \in Workers : Activate(w) /\ mem[w].pattern = p
    BY <1>3
  <2>2. Activatable(w) /\ UNCHANGED decisions
    BY <2>1 DEF Activate, LockInv, ActivatingView
  <2>3. /\ LatestOf(p, i) /\ LatestOf(p, mem[w].approval)
        /\ decisions[mem[w].approval].action = "approve"
    BY <2>1, <2>2 DEF Activatable, Allows, LatestOf
  <2>4. i = mem[w].approval
    <3>1. i \in 1..Len(decisions) /\ mem[w].approval \in 1..Len(decisions) /\ Len(decisions) \in Nat
      BY <1>0, <2>3 DEF LatestOf
    <3>2. CASE i < mem[w].approval
      BY <2>3, <3>1, <3>2 DEF LatestOf
    <3>3. CASE mem[w].approval < i
      BY <2>3, <3>1, <3>3 DEF LatestOf
    <3> QED
      BY <3>1, <3>2, <3>3
  <2> QED
    BY <2>2, <2>3, <2>4
<1>4. CASE Kept(p)
  <2>1. Exists(p) /\ State(p) = "active"
    BY <1>4 DEF Kept, Exists, State, Number
  <2>2. CASE LatestOf(p, i) /\ i \in DOMAIN decisions /\ decisions'[i] = decisions[i]
    <3>1. PICK w \in Workers : pc[w] = "suspend" /\ mem[w].pattern = p
      BY <1>1, <2>1, <2>2 DEF WithdrawnIsSuspended, Active
    <3>2. ~Suspend(w)
      BY <1>2, <3>1
    <3> QED
      BY <3>1, <3>2, SuspendersStay
  <2>3. ASSUME NEW w \in Workers, AppendDecision(w), mem[w].pattern = p,
               mem[w].action = decisions'[i].action
        PROVE  pc'[w] = "suspend" /\ mem'[w].pattern = p
    <3>1. mem[w].state = "active"
      BY <2>1, <2>3 DEF AppendDecision, LockInv, DecidingView
    <3> QED
      BY <1>0, <2>3, <3>1 DEF AppendDecision, Withdrawn, Goto
  <2> QED
    BY <2>2, <2>3, LatestComesFrom
<1> QED
  BY <1>0, <1>3, <1>4, Changes DEF Changed

(***************************************************************************)
(* A rejection, modification or deferral of an active pattern suspends it: *)
(* record_pattern_decision decides so from what it read under the lock.    *)
(* Only a process that dies in between leaves a rejected pattern active.   *)
(***************************************************************************)
THEOREM WithdrawalsSuspend == Spec => []WithdrawnIsSuspended
<1>1. Init => WithdrawnIsSuspended
  BY DEF Init, WithdrawnIsSuspended, Active, Exists
<1>2. LockInv /\ WithdrawnIsSuspended /\ [Next]_vars => WithdrawnIsSuspended'
  BY WithdrawnStep
<1> QED
  BY <1>1, <1>2, LockInvariant, PTL DEF Spec

-----------------------------------------------------------------------------
\* What a review saw of the active rules and of its own pattern holds until the
\* activation, or the pair is among those that have raced.
Rivalled(p) == \E q \in Active : q # p /\ {p, q} \in Conflicts /\ {p, q} \notin raced

ReviewHolds  == \A w \in Workers : pc[w] \in Promoting =>
                  /\ mem[w].goal = "promote" /\ mem[w].state = "shadow"
                  /\ ~Rivalled(mem[w].pattern)
StillShadow  == \A w \in Workers :
                  (/\ pc[w] \in Promoting \cup {"replay"}
                   /\ mem[w].goal = "promote" /\ mem[w].state = "shadow") =>
                     State(mem[w].pattern) = "shadow" \/ {mem[w].pattern} \in raced
PromoterInv  == ReviewHolds /\ StillShadow /\ ActiveRulesAgree

\* An activation is entered for every promotion that it overtakes.
LEMMA Overtaking ==
  ASSUME LockInv, [Next]_vars
  PROVE  /\ raced \subseteq raced'
         /\ \A v, w \in Workers : Activate(v) /\ w # v =>
              /\ pc'[w] = pc[w] /\ mem'[w] = mem[w] /\ pc'[v] = "idle"
              /\ pc[w] \in Promoting => {mem[v].pattern, mem[w].pattern} \in raced'
              /\ pc[w] = "replay" /\ mem[w].goal = "promote" /\ mem[w].pattern = mem[v].pattern =>
                   {mem[v].pattern, mem[w].pattern} \in raced'
<1>0. pc \in [Workers -> Points] /\ mem \in [Workers -> Work]
  BY DEF LockInv, TypeInv, TypeOK
<1>1. ASSUME NEW v \in Workers, Activate(v)
      PROVE  /\ raced \subseteq raced'
             /\ \A w \in Workers : w # v =>
                  /\ pc'[w] = pc[w] /\ mem'[w] = mem[w] /\ pc'[v] = "idle"
                  /\ pc[w] \in Promoting => {mem[v].pattern, mem[w].pattern} \in raced'
                  /\ pc[w] = "replay" /\ mem[w].goal = "promote" /\ mem[w].pattern = mem[v].pattern =>
                       {mem[v].pattern, mem[w].pattern} \in raced'
  <2>1. raced' = raced \cup {{mem[v].pattern, mem[w].pattern} : w \in Overtakes(v)}
    BY <1>1 DEF Activate
  <2>2. ASSUME NEW w \in Workers, w # v
        PROVE  pc'[w] = pc[w] /\ mem'[w] = mem[w] /\ pc'[v] = "idle"
    BY <1>0, <1>1, <2>2 DEF Activate, Leave, Goto
  <2>3. ASSUME NEW w \in Workers, w # v,
               \/ pc[w] \in Promoting
               \/ pc[w] = "replay" /\ mem[w].goal = "promote" /\ mem[w].pattern = mem[v].pattern
        PROVE  {mem[v].pattern, mem[w].pattern} \in raced'
    <3>1. w \in Overtakes(v)
      BY <2>3 DEF Overtakes
    <3> QED
      BY <2>1, <3>1
  <2> QED
    BY <2>1, <2>2, <2>3
<1>2. raced \subseteq raced'
  <2>1. CASE \E v \in Workers : Activate(v)
    BY <1>1, <2>1
  <2>2. CASE ~\E v \in Workers : Activate(v)
    BY <2>2 DEF Next, Advance, vars, Propose, Review, Decide, Shadow, Replay, Validate,
                CheckActivation, ReadPattern, AppendDecision, Suspend, Crash
  <2> QED
    BY <2>1, <2>2
<1> QED
  BY <1>1, <1>2

LEMMA ActiveComesFrom ==
  ASSUME LockInv, [Next]_vars, NEW q \in Active'
  PROVE  \/ q \in Active
         \/ \E w \in Workers : Activate(w) /\ mem[w].pattern = q
<1>1. q \in Patterns /\ Exists(q)' /\ State(q)' = "active" /\ TypeInv
  BY DEF Active, LockInv
<1>2. CASE Kept(q)
  BY <1>1, <1>2 DEF Kept, Active, Exists, State, Number
<1>3. CASE Changed(q)
  BY <1>1, <1>3 DEF Changed
<1> QED
  BY <1>1, <1>2, <1>3, Changes

\* Where a call comes from when it is promoting, or about to replay.
LEMMA PromotingComesFrom ==
  ASSUME LockInv, [Next]_vars, NEW w \in Workers, pc'[w] \in Promoting \cup {"replay"}
  PROVE  /\ mem'[w].pattern \in Patterns
         /\ \/ pc'[w] = pc[w] /\ mem'[w] = mem[w]
            \/ pc'[w] = "replay" /\ mem'[w].state = State(mem'[w].pattern) /\ UNCHANGED revisions
            \/ pc'[w] = "replay" /\ State(mem[w].pattern)' = "shadow"
            \/ Replay(w) /\ Recommended(w) /\ mem[w].goal = "promote"
                 /\ pc[w] = "replay" /\ mem'[w] = mem[w]
            \/ /\ pc[w] \in Promoting /\ pc'[w] \in Promoting
               /\ mem'[w].pattern = mem[w].pattern /\ mem'[w].goal = mem[w].goal
               /\ mem'[w].state = mem[w].state
<1> USE DEF Promoting, Goto, Leave
<1>0. /\ pc \in [Workers -> Points] /\ mem \in [Workers -> Work]
      /\ revisions \in [Patterns -> Seq(Revision)]
      /\ \A v \in Workers : pc[v] # "idle" => mem[v].pattern \in Patterns
      /\ pc'[w] # "idle" => mem'[w].pattern \in Patterns
  BY TypeStep DEF LockInv, TypeInv, TypeOK, Engaged
<1>1. ASSUME NEW v \in Workers, NEW p \in Patterns, NEW goal \in {"review", "promote"},
             Review(v, p, goal)
      PROVE  \/ pc'[w] = pc[w] /\ mem'[w] = mem[w]
             \/ pc'[w] = "replay" /\ mem'[w].state = State(mem'[w].pattern) /\ UNCHANGED revisions
  BY <1>0, <1>1 DEF Review, NoWork
<1>2. ASSUME NEW v \in Workers, NEW p \in Patterns, NEW a \in Actions, NEW x \in Voices,
             Decide(v, p, a, x)
      PROVE  pc'[w] = pc[w] /\ mem'[w] = mem[w]
  BY <1>0, <1>2 DEF Decide
<1>3. ASSUME NEW v \in Workers, Shadow(v)
      PROVE  \/ pc'[w] = pc[w] /\ mem'[w] = mem[w]
             \/ pc'[w] = "replay" /\ State(mem[w].pattern)' = "shadow"
  <2>1. CASE w = v /\ Legal(mem[w].pattern, "shadow")
    <3> PICK p : p = mem[w].pattern
      OBVIOUS
    <3>1. AddRevision(p, "shadow", 0) /\ p \in Patterns /\ pc'[w] = "replay"
          /\ mem' = [mem EXCEPT ![w] = [mem[w] EXCEPT !.state = "shadow"]]
      BY <1>0, <1>3, <2>1 DEF Shadow
    <3>2. mem'[w].pattern = p
      BY <1>0, <3>1 DEF Work
    <3>3. State(p)' = "shadow"
      BY <1>0, <3>1, AddedTypes DEF States
    <3>4. State(mem[w].pattern)' = "shadow"
      BY <3>2, <3>3 DEF State, Number
    <3> QED
      BY <1>3, <2>1, <3>1, <3>2, <3>4
  <2>2. CASE w = v /\ ~Legal(mem[w].pattern, "shadow")
    BY <1>0, <1>3, <2>2 DEF Shadow
  <2>3. CASE w # v
    BY <1>0, <1>3, <2>3 DEF Shadow
  <2> QED
    BY <2>1, <2>2, <2>3
<1>4. ASSUME NEW v \in Workers, Replay(v)
      PROVE  \/ pc'[w] = pc[w] /\ mem'[w] = mem[w]
             \/ /\ Replay(w) /\ Recommended(w) /\ mem[w].goal = "promote"
                /\ pc[w] = "replay" /\ mem'[w] = mem[w]
  BY <1>0, <1>4 DEF Replay
<1>5. ASSUME NEW v \in Workers, Validate(v)
      PROVE  \/ pc'[w] = pc[w] /\ mem'[w] = mem[w]
             \/ /\ pc[w] = "validate" /\ pc'[w] \in Promoting
                /\ mem'[w].pattern = mem[w].pattern /\ mem'[w].goal = mem[w].goal
                /\ mem'[w].state = mem[w].state
  <2>1. CASE Leave(v)
    BY <1>0, <1>5, <2>1 DEF Validate
  <2>2. ASSUME NEW i, mem' = [mem EXCEPT ![v].approval = i], Goto(v, "activate")
        PROVE  \/ pc'[w] = pc[w] /\ mem'[w] = mem[w]
               \/ /\ pc[w] = "validate" /\ pc'[w] \in Promoting
                  /\ mem'[w].pattern = mem[w].pattern /\ mem'[w].goal = mem[w].goal
                  /\ mem'[w].state = mem[w].state
    BY <1>0, <1>5, <2>2 DEF Validate, Work
  <2> QED
    BY <1>5, <2>1, <2>2 DEF Validate
<1>6. ASSUME NEW v \in Workers, CheckActivation(v)
      PROVE  \/ pc'[w] = pc[w] /\ mem'[w] = mem[w]
             \/ pc[w] = "activate" /\ pc'[w] \in Promoting /\ mem'[w] = mem[w]
  BY <1>0, <1>6 DEF CheckActivation
<1>7. ASSUME NEW v \in Workers, \/ Activate(v) \/ ReadPattern(v) \/ AppendDecision(v)
                                \/ Suspend(v) \/ Crash(v)
      PROVE  pc'[w] = pc[w] /\ mem'[w] = mem[w]
  BY <1>0, <1>7 DEF Activate, ReadPattern, AppendDecision, Suspend, Crash
<1>8. ASSUME (\E p \in Patterns : Propose(p)) \/ UNCHANGED vars
      PROVE  pc'[w] = pc[w] /\ mem'[w] = mem[w]
  BY <1>8 DEF Propose, vars
<1> QED
  BY <1>0, <1>1, <1>2, <1>3, <1>4, <1>5, <1>6, <1>7, <1>8 DEF Next, Advance

\* A rule that is active now was active, or is being activated.
LEMMA RivalsRaced ==
  ASSUME LockInv, [Next]_vars, NEW w \in Workers, NEW p, ~Rivalled(p),
         pc[w] \in Promoting => mem[w].pattern = p,
         pc[w] \notin Promoting => \A v \in Workers : ~Activate(v),
         pc'[w] # "idle"
  PROVE  ~Rivalled(p)'
<1> SUFFICES ASSUME NEW q \in Active', q # p, {p, q} \in Conflicts
             PROVE  {p, q} \in raced'
  BY DEF Rivalled
<1>1. CASE q \in Active
  BY <1>1, Overtaking DEF Rivalled
<1>2. ASSUME NEW v \in Workers, Activate(v), mem[v].pattern = q
      PROVE  {p, q} \in raced'
  <2>1. v # w
    <3>1. mem \in [Workers -> Work] /\ pc \in [Workers -> Points]
      BY DEF LockInv, TypeInv, TypeOK
    <3>2. pc'[v] = "idle"
      BY <1>2, <3>1 DEF Activate, Leave, Goto
    <3> QED
      BY <3>2
  <2>2. {q, p} \in raced'
    BY <1>2, <2>1, Overtaking
  <2>3. {q, p} = {p, q}
    OBVIOUS
  <2> QED
    BY <2>2, <2>3
<1> QED
  BY <1>1, <1>2, ActiveComesFrom

LEMMA PromoterStep ==
  ASSUME LockInv, PromoterInv, [Next]_vars
  PROVE  PromoterInv'
<1> USE DEF PromoterInv
<1>0. pc \in [Workers -> Points] /\ mem \in [Workers -> Work]
  BY DEF LockInv, TypeInv, TypeOK
<1>1. ASSUME NEW w \in Workers, pc'[w] \in Promoting
      PROVE  /\ mem'[w].goal = "promote" /\ mem'[w].state = "shadow"
             /\ ~Rivalled(mem[w].pattern)'
  <2> PICK p : p = mem'[w].pattern
    OBVIOUS
  <2>1. CASE Replay(w) /\ Recommended(w) /\ mem[w].goal = "promote"
               /\ pc[w] = "replay" /\ mem'[w] = mem[w]
    <3>1. /\ mem'[w].goal = "promote" /\ mem'[w].state = "shadow" /\ ~Rivalled(p)
          /\ pc[w] \notin Promoting
      BY <2>1 DEF Recommended, Disagrees, Rivalled, Promoting
    <3>2. \A v \in Workers : ~Activate(v)
      <4>1. SUFFICES ASSUME NEW v \in Workers, Activate(v) PROVE FALSE
        OBVIOUS
      <4>2. v # w /\ pc'[w] = pc[w]
        BY <2>1, <4>1, Overtaking DEF Activate
      <4> QED
        BY <1>1, <3>1, <4>2
    <3>3. ~Rivalled(p)'
      BY <1>1, <3>1, <3>2, RivalsRaced DEF Promoting
    <3> QED
      BY <3>1, <3>3 DEF Rivalled
  <2>2. CASE /\ pc[w] \in Promoting
             /\ mem'[w].pattern = mem[w].pattern /\ mem'[w].goal = mem[w].goal
             /\ mem'[w].state = mem[w].state
    <3>1. mem'[w].goal = "promote" /\ mem'[w].state = "shadow" /\ ~Rivalled(p)
      BY <2>2 DEF ReviewHolds
    <3>2. ~Rivalled(p)'
      BY <1>1, <2>2, <3>1, RivalsRaced DEF Promoting
    <3> QED
      BY <3>1, <3>2 DEF Rivalled
  <2> QED
    BY <1>1, <2>1, <2>2, PromotingComesFrom DEF Promoting
<1>2. ASSUME NEW w \in Workers, pc'[w] \in Promoting \cup {"replay"},
             mem'[w].goal = "promote", mem'[w].state = "shadow"
      PROVE  (State(mem[w].pattern) = "shadow" \/ {mem[w].pattern} \in raced)'
  <2> PICK p : p = mem'[w].pattern
    OBVIOUS
  <2>0. p \in Patterns
    BY <1>2, PromotingComesFrom
  <2>1. CASE /\ pc[w] \in Promoting \cup {"replay"}
             /\ mem'[w].pattern = mem[w].pattern /\ mem'[w].state = mem[w].state
             /\ mem'[w].goal = mem[w].goal
    <3>1. State(p) = "shadow" \/ {p} \in raced
      BY <1>2, <2>1 DEF StillShadow
    <3>2. CASE {p} \in raced
      BY <3>2, Overtaking
    <3>3. ASSUME State(p) = "shadow", NEW v \in Workers, Activate(v), mem[v].pattern = p
          PROVE  {p} \in raced'
      <4>1. v # w
        <5>1. pc'[v] = "idle"
          BY <1>0, <3>3 DEF Activate, Leave, Goto
        <5> QED
          BY <1>2, <5>1 DEF Promoting
      <4>2. {p, p} \in raced'
        BY <2>1, <3>3, <4>1, <1>2, Overtaking
      <4>3. {p, p} = {p}
        OBVIOUS
      <4> QED
        BY <4>2, <4>3
    <3>4. CASE State(p) = "shadow" /\ Kept(p)
      BY <3>4 DEF Kept, State, Number
    <3>5. Exists(p)
      BY <2>1 DEF LockInv, TypeInv, Engaged, Promoting
    <3>6. CASE State(p) = "shadow" /\ Changed(p)
      BY <3>3, <3>5, <3>6 DEF Changed
    <3> QED
      BY <2>0, <3>1, <3>2, <3>4, <3>6, Changes DEF LockInv, State, Number
  <2>2. CASE pc'[w] = "replay" /\ mem'[w].state = State(mem'[w].pattern) /\ UNCHANGED revisions
    BY <1>2, <2>2 DEF State, Number
  <2>3. CASE pc'[w] = "replay" /\ State(mem[w].pattern)' = "shadow"
    BY <2>3
  <2> QED
    BY <1>2, <2>0, <2>1, <2>2, <2>3, PromotingComesFrom DEF Promoting
<1>3. ASSUME NEW p \in Active', NEW q \in Active', p # q, {p, q} \in Conflicts
      PROVE  {p, q} \in raced'
  <2>1. CASE p \in Active /\ q \in Active
    BY <1>3, <2>1, Overtaking DEF ActiveRulesAgree
  <2>2. ASSUME NEW r \in Active', NEW t \in Active', r # t, {r, t} \in Conflicts,
               NEW v \in Workers, Activate(v), mem[v].pattern = r
        PROVE  {r, t} \in raced'
    <3>1. ~Rivalled(r)
      BY <2>2 DEF ReviewHolds, Activate, Promoting
    <3>2. t \in Active
      <4>1. SUFFICES ASSUME NEW u \in Workers, Activate(u), mem[u].pattern = t
                     PROVE  FALSE
        BY ActiveComesFrom
      <4>2. u # v
        BY <2>2, <4>1
      <4>3. pc'[u] = pc[u] /\ pc'[u] = "idle" /\ pc[u] = "activating"
        BY <2>2, <4>1, <4>2, Overtaking DEF Activate
      <4> QED
        BY <4>3
    <3> QED
      BY <2>2, <3>1, <3>2, Overtaking DEF Rivalled
  <2>3. {p, q} = {q, p}
    OBVIOUS
  <2> QED
    BY <1>3, <2>1, <2>2, <2>3, ActiveComesFrom
<1>4. ReviewHolds'
  BY <1>1 DEF ReviewHolds
<1>5. StillShadow'
  BY <1>2 DEF StillShadow
<1> QED
  BY <1>3, <1>4, <1>5 DEF ActiveRulesAgree

LEMMA PromoterInit ==
  ASSUME Init
  PROVE  PromoterInv
<1>1. \A w \in Workers : pc[w] = "idle"
  BY DEF Init
<1>2. Active = {}
  BY DEF Init, Active, Exists
<1> QED
  BY <1>1, <1>2 DEF PromoterInv, ReviewHolds, StillShadow, ActiveRulesAgree, Promoting

LEMMA PromoterInvariant == Spec => [](LockInv /\ PromoterInv)
<1>1. LockInv /\ PromoterInv /\ [Next]_vars => PromoterInv'
  BY PromoterStep
<1>2. Init => PromoterInv
  BY PromoterInit
<1> QED
  BY <1>1, <1>2, LockInvariant, PTL DEF Spec

(***************************************************************************)
(* However many people promote: rules that contradict each other on a task *)
(* classify together only where the promotion of one was overtaken by the  *)
(* activation of the other after its replay.                               *)
(***************************************************************************)
THEOREM RulesAgree == Spec => []ActiveRulesAgree
<1>1. PromoterInv => ActiveRulesAgree
  BY DEF PromoterInv
<1> QED
  BY <1>1, PromoterInvariant, PTL

(***************************************************************************)
(* A pattern goes active from shadow only, although promotion looks at the *)
(* state it read before the lock: a suspended pattern is revived by an old *)
(* review only where another promotion of it was activated since.          *)
(***************************************************************************)
THEOREM ShadowsOnly == Spec => OnlyShadowIsActivated
<1>1. LockInv /\ PromoterInv /\ [Next]_vars =>
        [\A p \in Patterns : Activated(p) => State(p) = "shadow" \/ {p} \in raced]_revisions
  <2> SUFFICES ASSUME LockInv, PromoterInv, [Next]_vars, NEW p \in Patterns, Activated(p)
               PROVE  State(p) = "shadow" \/ {p} \in raced
    OBVIOUS
  <2>1. ~Kept(p)
    <3>1. Len(revisions[p]) \in Nat
      BY DEF LockInv, TypeInv, TypeOK
    <3> QED
      BY <3>1 DEF Activated, Number, Kept
  <2>2. PICK w \in Workers : Activate(w) /\ mem[w].pattern = p
    BY <2>1, Changes DEF Activated, Changed, LockInv
  <2>3. mem[w].state = "shadow" /\ mem[w].goal = "promote" /\ pc[w] = "activating"
    BY <2>2 DEF Activate, PromoterInv, ReviewHolds, Promoting
  <2> QED
    BY <2>2, <2>3 DEF PromoterInv, StillShadow, Promoting
<1> QED
  BY <1>1, PromoterInvariant, PTL DEF Spec, OnlyShadowIsActivated
=============================================================================
