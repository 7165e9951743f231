-------------------------- MODULE PatternLifecycle --------------------------
(***************************************************************************)
(* Learned patterns of one scope, from candidate to active and suspended:  *)
(* automation/candidates over automation/pattern_store and the pattern     *)
(* decisions in events.jsonl.                                              *)
(*                                                                         *)
(* Calls are commands of people (taskctl pattern ...), each a process.     *)
(* Revisions are immutable files; a change of state and the record of a    *)
(* decision hold the .decision.lock of the pattern, while a review, the    *)
(* baseline of its replay and the first look at the decisions do not.      *)
(*                                                                         *)
(* The definition of a pattern never changes, so its digest is left out.   *)
(* The tasks that are replayed are fixed: Conflicts says which rules give  *)
(* different verdicts on one of them (that the configured rules leave      *)
(* open), Thin which patterns are never recommended: they see too few      *)
(* tasks, or contradict the configured rules.                              *)
(***************************************************************************)
EXTENDS Naturals, Sequences, FiniteSets

CONSTANTS
  Patterns,       \* patterns of the scope
  Workers,        \* processes; any of them may review, promote and decide
  Voices,         \* actor and reason of a decision
  None,           \* no pattern, no voice
  Conflicts,      \* pairs of patterns whose rules disagree on a task
  Thin,           \* patterns whose replay fails whatever is active
  MaxDecisions, MaxCrashes   \* bounds

ASSUME PatternsAssumption ==
  /\ None \notin Patterns \cup Voices
  /\ Conflicts \subseteq SUBSET Patterns
  /\ {MaxDecisions, MaxCrashes} \subseteq Nat

VARIABLES
  revisions,      \* the immutable revisions of every pattern
  decisions,      \* pattern_decision events, in log order
  holder,         \* who holds the .decision.lock of a pattern
  pc, mem,        \* control point and local variables of every process
  crashes,
  raced           \* patterns whose promotions have overlapped, in pairs

vars == <<revisions, decisions, holder, pc, mem, crashes, raced>>

States   == {"candidate", "shadow", "active", "suspended"}
Actions  == {"approve", "withhold"}   \* reject, modify and defer have one effect
Revision == [state : States, approval : Nat]
Decision == [pattern : Patterns, revision : Nat, action : Actions, voice : Voices]

Points == {"idle", "review", "shadow", "replay", "validate", "activate", "activating",
           "decide", "deciding", "suspend"}
Locked == {"activating", "deciding"}
Promoting == {"validate", "activate", "activating"}   \* from the replay to the activation
Work   == [pattern : Patterns \cup {None}, goal : {"review", "promote"}, action : Actions,
           voice : Voices \cup {None}, state : States, revision : Nat, approval : Nat]
NoWork == [pattern |-> None, goal |-> "review", action |-> "approve", voice |-> None,
           state |-> "candidate", revision |-> 0, approval |-> 0]

TypeOK ==
  /\ revisions \in [Patterns -> Seq(Revision)]
  /\ decisions \in Seq(Decision)
  /\ holder \in [Patterns -> SUBSET Workers]
  /\ pc \in [Workers -> Points]
  /\ mem \in [Workers -> Work]
  /\ crashes \in Nat
  /\ raced \subseteq SUBSET Patterns

Init ==
  /\ revisions = [p \in Patterns |-> <<>>]
  /\ decisions = <<>>
  /\ holder = [p \in Patterns |-> {}]
  /\ pc = [w \in Workers |-> "idle"]
  /\ mem = [w \in Workers |-> NoWork]
  /\ crashes = 0
  /\ raced = {}

(***************************************************************************)
(* The store.                                                              *)
(***************************************************************************)
Exists(p)  == revisions[p] # <<>>
Number(p)  == Len(revisions[p])
State(p)   == revisions[p][Number(p)].state
Active     == {p \in Patterns : Exists(p) /\ State(p) = "active"}

AddRevision(p, s, approval) ==
  revisions' = [revisions EXCEPT ![p] = Append(@, [state |-> s, approval |-> approval])]

\* Pattern.transition, for the target states the service asks for.
Transitions == {<<"candidate", "shadow">>, <<"shadow", "active">>,
                <<"active", "suspended">>, <<"suspended", "active">>}
Legal(p, s) == <<State(p), s>> \in Transitions

\* Decision i is the last one about p, and allows revision n of it to go active.
LatestOf(p, i) == /\ i \in DOMAIN decisions /\ decisions[i].pattern = p
                  /\ \A j \in (i + 1)..Len(decisions) : decisions[j].pattern # p
AllowsAny(i, n) == decisions[i].action = "approve"   \* mutant: the revision is not compared
Allows(i, n) == decisions[i].action = "approve" /\ decisions[i].revision = n

LockFree(p) == holder[p] = {}
Release(w)  == holder' = [holder EXCEPT ![mem[w].pattern] = @ \ {w}]
Hold(w)     == holder' = [holder EXCEPT ![mem[w].pattern] = @ \cup {w}]

Goto(w, s) == pc' = [pc EXCEPT ![w] = s]
Leave(w)   == Goto(w, "idle") /\ mem' = [mem EXCEPT ![w] = NoWork]

(***************************************************************************)
(* propose: the first revision; a second proposal changes nothing.         *)
(***************************************************************************)
Propose(p) ==
  /\ ~Exists(p)
  /\ AddRevision(p, "candidate", 0)
  /\ UNCHANGED <<decisions, holder, pc, mem, crashes, raced>>

(***************************************************************************)
(* review, alone or as the first part of promote.                          *)
(***************************************************************************)
Review(w, p, goal) ==
  /\ pc[w] = "idle"
  /\ Exists(p)
  /\ mem' = [mem EXCEPT ![w] = [NoWork EXCEPT !.pattern = p, !.goal = goal, !.state = State(p)]]
  /\ Goto(w, IF State(p) = "candidate" THEN "shadow" ELSE "replay")
  /\ UNCHANGED <<revisions, decisions, holder, crashes, raced>>

\* revise_pattern(shadow): under the lock, unless another call was faster.
Shadow(w) ==
  LET p == mem[w].pattern IN
  /\ pc[w] = "shadow"
  /\ LockFree(p)
  /\ IF Legal(p, "shadow")
     THEN /\ AddRevision(p, "shadow", 0)
          /\ mem' = [mem EXCEPT ![w].state = "shadow"]
          /\ Goto(w, "replay")
     ELSE Leave(w) /\ UNCHANGED revisions
  /\ UNCHANGED <<decisions, holder, crashes, raced>>

\* The replay against the rules that are active now, and the recommendation.
Disagrees(p) == \E q \in Active : {p, q} \in Conflicts
NoReplay(w)  == mem[w].state = "shadow"              \* mutant: the replay is not consulted
Recommended(w) ==
  /\ mem[w].state = "shadow"
  /\ mem[w].pattern \notin Thin
  /\ ~Disagrees(mem[w].pattern)

Replay(w) ==
  /\ pc[w] = "replay"
  /\ IF mem[w].goal = "promote" /\ Recommended(w)
     THEN Goto(w, "validate") /\ UNCHANGED mem
     ELSE Leave(w)
  /\ UNCHANGED <<revisions, decisions, holder, crashes, raced>>

(***************************************************************************)
(* promote: the pattern and its latest decision are read without the lock, *)
(* and both again by revise_pattern(active) under it.                      *)
(***************************************************************************)
Validate(w) ==
  LET p == mem[w].pattern IN
  /\ pc[w] = "validate"
  /\ \/ \E i \in DOMAIN decisions :
          /\ LatestOf(p, i) /\ Allows(i, Number(p))
          /\ mem' = [mem EXCEPT ![w].approval = i]
          /\ Goto(w, "activate")
     \/ /\ ~\E i \in DOMAIN decisions : LatestOf(p, i) /\ Allows(i, Number(p))
        /\ Leave(w)
  /\ UNCHANGED <<revisions, decisions, holder, crashes, raced>>

\* The lock is taken, and the current revision and the log are read.
Activatable(w) ==
  LET p == mem[w].pattern IN
  /\ Legal(p, "active")
  /\ LatestOf(p, mem[w].approval)
  /\ Allows(mem[w].approval, Number(p))

CheckActivation(w) ==
  /\ pc[w] = "activate"
  /\ LockFree(mem[w].pattern)
  /\ IF Activatable(w) THEN Hold(w) /\ Goto(w, "activating") /\ UNCHANGED mem
                       ELSE Leave(w) /\ UNCHANGED holder
  /\ UNCHANGED <<revisions, decisions, crashes, raced>>

\* Other promotions that have replayed already, and those of the same pattern that
\* have read its state: what they have seen is changed behind their back.
Overtakes(w) ==
  {v \in Workers \ {w} :
     \/ pc[v] \in Promoting
     \/ pc[v] = "replay" /\ mem[v].goal = "promote" /\ mem[v].pattern = mem[w].pattern}

Activate(w) ==
  /\ pc[w] = "activating"
  /\ raced' = raced \cup {{mem[w].pattern, mem[v].pattern} : v \in Overtakes(w)}
  /\ AddRevision(mem[w].pattern, "active", mem[w].approval)
  /\ Release(w)
  /\ Leave(w)
  /\ UNCHANGED <<decisions, crashes>>

(***************************************************************************)
(* record_pattern_decision.                                                *)
(***************************************************************************)
Decide(w, p, a, v) ==
  /\ pc[w] = "idle"
  /\ Exists(p)
  /\ Len(decisions) < MaxDecisions
  /\ mem' = [mem EXCEPT ![w] = [NoWork EXCEPT !.pattern = p, !.action = a, !.voice = v]]
  /\ Goto(w, "decide")
  /\ UNCHANGED <<revisions, decisions, holder, crashes, raced>>

\* The lock is taken and the pattern is read.
ReadPattern(w) ==
  LET p == mem[w].pattern IN
  /\ pc[w] = "decide"
  /\ LockFree(p)
  /\ mem' = [mem EXCEPT ![w].state = State(p), ![w].revision = Number(p)]
  /\ Hold(w)
  /\ Goto(w, "deciding")
  /\ UNCHANGED <<revisions, decisions, crashes, raced>>

\* The event id is a digest of everything but the time, so a decision that was
\* made before in the same words is taken for a repetition and not logged.
DecisionOf(w) == [pattern |-> mem[w].pattern, revision |-> mem[w].revision,
                  action |-> mem[w].action, voice |-> mem[w].voice]
NothingWithdrawn(w) == FALSE                         \* mutant: nothing is suspended
Withdrawn(w) == mem[w].action # "approve" /\ mem[w].state = "active"

AppendDecision(w) ==
  LET d == DecisionOf(w) IN
  /\ pc[w] = "deciding"
  /\ decisions' = IF \E i \in DOMAIN decisions : decisions[i] = d
                  THEN decisions ELSE Append(decisions, d)
  /\ Release(w)
  /\ IF Withdrawn(w) THEN Goto(w, "suspend") /\ UNCHANGED mem ELSE Leave(w)
  /\ UNCHANGED <<revisions, crashes, raced>>

\* revise_pattern(suspended), under the lock once more.
Suspend(w) ==
  LET p == mem[w].pattern IN
  /\ pc[w] = "suspend"
  /\ LockFree(p)
  /\ IF Legal(p, "suspended") THEN AddRevision(p, "suspended", 0) ELSE UNCHANGED revisions
  /\ Leave(w)
  /\ UNCHANGED <<decisions, holder, crashes, raced>>

Crash(w) ==
  /\ pc[w] # "idle"
  /\ crashes < MaxCrashes
  /\ crashes' = crashes + 1
  /\ holder' = [p \in Patterns |-> holder[p] \ {w}]
  /\ Leave(w)
  /\ UNCHANGED <<revisions, decisions, raced>>

-----------------------------------------------------------------------------
Advance(w) ==
  \/ Shadow(w) \/ Replay(w) \/ Validate(w) \/ CheckActivation(w) \/ Activate(w)
  \/ ReadPattern(w) \/ AppendDecision(w) \/ Suspend(w)

Next ==
  \/ \E p \in Patterns : Propose(p)
  \/ \E w \in Workers, p \in Patterns :
       \/ \E goal \in {"review", "promote"} : Review(w, p, goal)
       \/ \E a \in Actions, v \in Voices : Decide(w, p, a, v)
  \/ \E w \in Workers : Advance(w) \/ Crash(w)

Spec == Init /\ [][Next]_vars

\* A call that has begun goes on until it returns or dies.
FairSpec == Spec /\ \A w \in Workers : WF_vars(Advance(w))

-----------------------------------------------------------------------------
Activated(p) == Number(p)' > Number(p) /\ State(p)' = "active"

\* A pattern goes active only while the last decision about it is an approval of
\* the very revision it is at: a decision that arrives after the approval was
\* validated, and before the revision is written, is never overtaken.
ActivationHonoursLatestDecision ==
  [][\A p \in Patterns : Activated(p) =>
       \E i \in DOMAIN decisions :
         /\ LatestOf(p, i)
         /\ decisions[i].action = "approve" /\ decisions[i].revision = Number(p)]_revisions

\* A pattern whose last decision is not an approval is not active, except for
\* the moment until the call that decided so suspends it, or unless it died.
WithdrawnIsSuspended ==
  crashes = 0 =>
    \A p \in Active, i \in DOMAIN decisions :
      LatestOf(p, i) /\ decisions[i].action # "approve" =>
        \E w \in Workers : pc[w] = "suspend" /\ mem[w].pattern = p

\* Rules that disagree are active together only where two promotions have raced: the
\* rule of one was activated while the other stood between its replay and its own
\* activation.  Otherwise the replay of the second one finds the first among the
\* active rules (test_a_candidate_that_contradicts_an_active_rule_is_not_recommended).
ActiveRulesAgree ==
  \A p, q \in Active : p # q /\ {p, q} \in Conflicts => {p, q} \in raced

\* Only a pattern in shadow goes active, although its state is read at the review
\* (promotion.py, "only a pattern in the shadow state is eligible"), or one of which
\* another promotion was activated since that review.
OnlyShadowIsActivated ==
  [][\A p \in Patterns : Activated(p) => State(p) = "shadow" \/ {p} \in raced]_revisions
=============================================================================
