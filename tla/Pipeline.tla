------------------------------ MODULE Pipeline ------------------------------
(***************************************************************************)
(* From a capture to a verdict: run_pipeline, automation/task_store,       *)
(* automation/rules, automation/evaluator, automation/router,              *)
(* automation/approval and the two Hermes modules.                         *)
(*                                                                         *)
(* The model has one task; tasks share the rules, the recipes and the log, *)
(* nothing else.  A run of the pipeline takes one capture of the task,     *)
(* stores it, and asks the rules, or Hermes where they abstain, what it is *)
(* and, where that was requested, whether it can be automated.  Everything *)
(* a run finds out goes to the event log under an id that carries the      *)
(* digest of the content stored at that moment; an id is logged once.  The *)
(* events that nothing reads back (discovered, stored, files_processed,    *)
(* recognized, input_checked) are left out.                                *)
(* Runs may overlap, die between any two steps, and be repeated; rules are *)
(* promoted and recipes withdrawn at any time.  Files are replaced whole.  *)
(***************************************************************************)
EXTENDS Naturals, Sequences, FiniteSets

CONSTANTS
  Runs,           \* processes that run the pipeline
  Captures,       \* records: raw, content, whole (with every attachment), closed, asked
  Contents,       \* meaningful payloads
  Features,       \* content -> what the conditions of rules look at
  Rules,          \* config/rules.json
  Patterns,       \* promoted patterns that may be or become active
  Evaluations,    \* rules of config/evaluation.json
  AutoRisks,      \* risks that config/approval.json lets pass
  Recipes,        \* recipes that may be active
  Applicable,     \* <<content, recipe>>: applicable, with a satisfied input
  Replies,        \* what Hermes may answer: [op -> set of replies]
  SureClass,      \* min_classification_confidence
  SureRoute,      \* confidence_floor
  None,
  MaxRuns, MaxFaults, MaxChanges  \* bounds: runs, failures, promotions and withdrawals

ASSUME PipelineAssumption ==
  /\ \A c \in Captures : c.content \in Contents /\ {c.whole, c.closed, c.asked} \subseteq BOOLEAN
  /\ None \notin Contents \cup {"execute_recipe", "development_draft"}
  /\ {MaxRuns, MaxFaults, MaxChanges} \subseteq Nat

VARIABLES
  contract,       \* contract_version of the captures
  raw,            \* the capture that has the canonical raw name
  task,           \* state/tasks/<task_id>.json
  revisions,      \* contents under revisions/, by their digest
  patterns,       \* active patterns
  recipes,        \* active recipes
  package,        \* the work package, with the route its run returned
  log,            \* the event log
  pc, mem,        \* control point and local variables of every run
  started, faults, changes,
  overlap,        \* history: two runs have been under way at the same time
  vouched,        \* history: contents of which a run was given a complete capture
  named           \* history: <<revision, content>> of every task that was stored

store   == <<raw, task, revisions>>
policy  == <<patterns, recipes>>
counts  == <<started, faults, changes>>
history == <<overlap, vouched, named>>
vars    == <<contract, store, policy, package, log, pc, mem, counts, history>>

NoTask ==
  [content |-> None, raw |-> None, whole |-> FALSE, closed |-> FALSE, asked |-> FALSE, rev |-> 0]
NoAdvice ==
  [says |-> None, risk |-> None, sure |-> 0, recipe |-> None, by |-> None, about |-> None]
NoRule   == [when |-> {}, then |-> NoAdvice, sure |-> 0]
NoPackage == [of |-> None, about |-> None, status |-> None, route |-> None, by |-> None]
NoWork ==
  [item |-> NoTask, was |-> NoTask, write |-> NoTask, again |-> FALSE,
   class |-> NoAdvice, assess |-> NoAdvice]

Init ==
  /\ contract \in {1, 2}
  /\ raw = None /\ task = NoTask /\ revisions = {}
  /\ patterns = {} /\ recipes = Recipes
  /\ package = NoPackage
  /\ log = <<>>
  /\ pc = [r \in Runs |-> "idle"]
  /\ mem = [r \in Runs |-> NoWork]
  /\ started = 0 /\ faults = 0 /\ changes = 0
  /\ overlap = FALSE /\ vouched = {} /\ named = {}

Goto(r, p) == pc' = [pc EXCEPT ![r] = p]
Leave(r)   == Goto(r, "idle") /\ mem' = [mem EXCEPT ![r] = NoWork]
Item(r)    == mem[r].item

-----------------------------------------------------------------------------
(***************************************************************************)
(* The event log.                                                          *)
(***************************************************************************)
\* mutant: ids without the digest of the content
IdOfKind(e) == <<e.kind, e.op, e.key>>

Id(e) == <<e.kind, e.op, e.key, e.digest>>

\* What is stored now names the event, whatever the run was about.
Event(r, kind, op, key, says) ==
  [kind |-> kind, op |-> op, key |-> key, says |-> says, of |-> Item(r).content,
   digest |-> IF contract = 2 THEN task.content ELSE None]

Recorded(l, e) == IF \E n \in DOMAIN l : Id(l[n]) = Id(e) THEN l ELSE Append(l, e)

Records(r, kind)           == log' = Recorded(log, Event(r, kind, "none", None, NoAdvice))
RecordsAdvice(r, kind, a)  == log' = Recorded(log, Event(r, kind, "none", None, a))
RecordsHermes(r, kind, op, a) == log' = Recorded(log, Event(r, kind, op, None, a))

-----------------------------------------------------------------------------
(***************************************************************************)
(* Input and storage.                                                      *)
(***************************************************************************)
\* A capture of contract 1 has no completeness, no observed completion, no provenance.
AsTask(c) ==
  [content |-> c.content, raw |-> c.raw, rev |-> 1, whole |-> contract = 1 \/ c.whole,
   closed |-> contract = 2 /\ c.closed, asked |-> contract = 2 /\ c.asked]

Discover(r, c) ==
  /\ pc[r] = "idle" /\ started < MaxRuns
  /\ started' = started + 1
  /\ overlap' = (overlap \/ \E q \in Runs : pc[q] # "idle")
  /\ vouched' = IF AsTask(c).whole THEN vouched \cup {c.content} ELSE vouched
  /\ mem' = [mem EXCEPT ![r].item = AsTask(c)]
  /\ Goto(r, "raw")
  /\ UNCHANGED <<contract, store, policy, package, log, faults, changes, named>>

\* Other bytes under the canonical name make this a recapture; they are kept under a
\* name of their own.  A first capture is written after the look.
LookRaw(r) ==
  /\ pc[r] = "raw"
  /\ mem' = [mem EXCEPT ![r].again = raw \notin {None, Item(r).raw}]
  /\ Goto(r, IF raw = None THEN "rawwrite" ELSE "look")
  /\ UNCHANGED <<contract, store, policy, package, log, counts, history>>

WriteRaw(r) ==
  /\ pc[r] = "rawwrite"
  /\ raw' = Item(r).raw
  /\ Goto(r, "look")
  /\ UNCHANGED <<contract, task, revisions, policy, package, log, mem, counts, history>>

\* A changed recapture of a v1 task is a duplicate and ends the run.
LookTask(r) ==
  /\ pc[r] = "look"
  /\ mem' = [mem EXCEPT ![r].was = task]
  /\ Goto(r, IF ~(mem[r].again /\ task # NoTask) THEN "put2"
             ELSE IF contract = 1 THEN "duplicate" ELSE "put")
  /\ UNCHANGED <<contract, store, policy, package, log, counts, history>>

Duplicate(r) ==
  /\ pc[r] = "duplicate"
  /\ log' = Recorded(log, Event(r, "duplicate", "none", Item(r).raw, NoAdvice))
  /\ Leave(r)
  /\ UNCHANGED <<contract, store, policy, package, counts, history>>

\* put_task.  The same content keeps its revision, its completeness and an observed
\* completion; other content gets the next revision.
\* (mutant: completeness is carried over to other content)
Merged(old, new) ==
  [new EXCEPT !.rev = old.rev, !.closed = @ \/ old.closed, !.whole = @ \/ old.whole]

\* mutant: the revision of the capture is taken as it comes
RevisedAsIs(old, new) == [new EXCEPT !.rev = IF new.rev > old.rev THEN new.rev ELSE old.rev]

Revised(old, new) == [new EXCEPT !.rev = IF new.rev > old.rev + 1 THEN new.rev ELSE old.rev + 1]

\* mutant: an earlier complete capture vouches for every later one
StoredAsWhole(old, new) ==
  IF old = NoTask THEN new
  ELSE [(IF old.content = new.content THEN Merged(old, new) ELSE Revised(old, new))
          EXCEPT !.whole = @ \/ old.whole]

Stored(old, new) ==
  IF old = NoTask THEN new
  ELSE IF old.content = new.content THEN Merged(old, new) ELSE Revised(old, new)

\* What is replaced and what replaces it are kept before the task is written.
ReadAndRetain(r) ==
  /\ pc[r] \in {"put", "put2"}
  /\ contract = 2 \/ task \in {NoTask, Item(r)}
  /\ IF task = Item(r)
     THEN UNCHANGED <<mem, revisions>> /\ Goto(r, IF pc[r] = "put" THEN "revised" ELSE "observe")
     ELSE /\ mem' = [mem EXCEPT ![r].write = Stored(task, Item(r))]
          /\ revisions' = IF contract = 1 THEN revisions
                          ELSE revisions \cup ({task.content, Item(r).content} \ {None})
          /\ Goto(r, IF pc[r] = "put" THEN "write" ELSE "write2")
  /\ UNCHANGED <<contract, raw, task, policy, package, log, counts, history>>

\* A v1 task that another run has stored meanwhile is not replaced.
Conflict(r) ==
  /\ pc[r] \in {"put", "put2"}
  /\ contract = 1 /\ task \notin {NoTask, Item(r)}
  /\ Records(r, "storage_failed") /\ Leave(r)
  /\ UNCHANGED <<contract, store, policy, package, counts, history>>

WriteTask(r) ==
  /\ pc[r] \in {"write", "write2"}
  /\ task' = mem[r].write
  /\ named' = named \cup {<<task'.rev, task'.content>>}
  /\ Goto(r, IF pc[r] = "write" THEN "revised" ELSE "observe")
  /\ UNCHANGED <<contract, raw, revisions, policy, package, log, mem, counts, overlap, vouched>>

\* The item is read back before the second put, too.
Announce(r) ==
  /\ pc[r] = "revised"
  /\ log' = IF Item(r).content = mem[r].was.content THEN log
            ELSE Recorded(log, Event(r, "revised", "none", Item(r).raw, NoAdvice))
  /\ mem' = [mem EXCEPT ![r].item = task]
  /\ Goto(r, "put2")
  /\ UNCHANGED <<contract, store, policy, package, counts, history>>

\* The last read of the task.
Observe(r) ==
  /\ pc[r] = "observe"
  /\ log' = IF task.closed /\ ~mem[r].was.closed
            THEN Recorded(log, Event(r, "source_completion", "none", Item(r).raw, NoAdvice)) ELSE log
  /\ mem' = [mem EXCEPT ![r].item = task]
  /\ Goto(r, "intake")
  /\ UNCHANGED <<contract, store, policy, package, counts, history>>

Intake(r) ==
  /\ pc[r] = "intake"
  /\ IF Item(r).whole
     THEN Goto(r, "classify") /\ UNCHANGED <<log, mem>>
     ELSE Records(r, "intake_blocked") /\ Leave(r)
  /\ UNCHANGED <<contract, store, policy, package, counts, history>>

-----------------------------------------------------------------------------
(***************************************************************************)
(* Deterministic verdicts.                                                 *)
(***************************************************************************)
\* Every condition must find one of its alternatives.
Matches(when, features) == \A alternatives \in when : alternatives \cap features # {}

\* No match, or matches that disagree, abstain; the surest match speaks.
Verdict(rules, features) ==
  LET matched == {rule \in rules : Matches(rule.when, features)}
      agreed  == Cardinality({<<rule.then.says, rule.then.risk>> : rule \in matched}) = 1 IN
  IF ~agreed THEN NoRule
  ELSE CHOOSE rule \in matched : \A other \in matched : other.sure <= rule.sure

FromRule(rule, content) ==
  IF rule = NoRule THEN NoAdvice
  ELSE [says |-> rule.then.says, risk |-> rule.then.risk, sure |-> rule.sure,
        recipe |-> rule.then.recipe, by |-> "rules", about |-> content]

ClassifyWithRules(item) ==
  FromRule(Verdict(Rules \cup patterns, Features[item.content]), item.content)

EvaluateWithRules(item, class) ==
  IF class.sure < SureClass THEN NoAdvice
  ELSE FromRule(Verdict(Evaluations, Features[item.content] \cup {class.says}), item.content)

AfterClass(r) == IF Item(r).asked THEN "evaluate" ELSE "route"

Classify(r) ==
  /\ pc[r] = "classify"
  /\ LET a == ClassifyWithRules(Item(r)) IN
     /\ mem' = [mem EXCEPT ![r].class = a]
     /\ IF a = NoAdvice THEN Goto(r, "askclass") /\ UNCHANGED log
        ELSE Goto(r, AfterClass(r)) /\ RecordsAdvice(r, "classified", a)
  /\ UNCHANGED <<contract, store, policy, package, counts, history>>

Evaluate(r) ==
  /\ pc[r] = "evaluate"
  /\ LET a == EvaluateWithRules(Item(r), mem[r].class) IN
     /\ mem' = [mem EXCEPT ![r].assess = a]
     /\ IF a = NoAdvice THEN Goto(r, "askassess") /\ UNCHANGED log
        ELSE Goto(r, "check") /\ RecordsAdvice(r, "assessed", a)
  /\ UNCHANGED <<contract, store, policy, package, counts, history>>

-----------------------------------------------------------------------------
(***************************************************************************)
(* Hermes.  Its latest advice or refusal on the same content and operation *)
(* is used again; a call that failed is not held against the content.      *)
(***************************************************************************)
Op(r)      == IF pc[r] = "askclass" THEN "classification" ELSE "assessment"
About(e)   == IF contract = 2 THEN e.digest ELSE e.of
Settled    == {"ai_disabled", "refused", "advised"}

\* mutant: advice on earlier content of the task is used again
PriorOfTask(op, content) ==
  {n \in DOMAIN log : log[n].op = op /\ log[n].kind \in Settled
                      /\ (log[n].kind = "advised" \/ About(log[n]) = content)}

Prior(op, content) ==
  {n \in DOMAIN log : log[n].op = op /\ log[n].kind \in Settled /\ About(log[n]) = content}

Latest(ns) == CHOOSE n \in ns : \A k \in ns : k <= n

Take(r, a) ==
  /\ mem' = IF Op(r) = "classification" THEN [mem EXCEPT ![r].class = a]
            ELSE [mem EXCEPT ![r].assess = a]
  /\ Goto(r, IF Op(r) = "classification" THEN AfterClass(r) ELSE "check")

Asking(r) == pc[r] \in {"askclass", "askassess"}

ReuseAdvice(r) ==
  /\ Asking(r)
  /\ LET prior == Prior(Op(r), Item(r).content) IN
     /\ prior # {}
     /\ IF log[Latest(prior)].kind = "advised" THEN Take(r, log[Latest(prior)].says) ELSE Leave(r)
  /\ UNCHANGED <<contract, store, policy, package, log, counts, history>>

MayAsk(r) == Asking(r) /\ Prior(Op(r), Item(r).content) = {}

\* The run has no client, or the reply does not pass validation: blocked.
WithoutHermes(r) ==
  /\ MayAsk(r)
  /\ RecordsHermes(r, "ai_disabled", Op(r), NoAdvice) /\ Leave(r)
  /\ UNCHANGED <<contract, store, policy, package, counts, history>>

\* The CLI is missing, times out, fails or says nothing.
HermesFails(r) ==
  /\ MayAsk(r)
  /\ RecordsHermes(r, "unanswered", Op(r), NoAdvice) /\ Leave(r)
  /\ UNCHANGED <<contract, store, policy, package, counts, history>>

\* A well-formed reply that names no recipe, or one that is active now.
Valid(reply) == reply.sound /\ reply.recipe \in recipes \cup {None}

HermesReplies(r, reply) ==
  /\ MayAsk(r)
  /\ LET a == [says |-> reply.says, risk |-> reply.risk, sure |-> reply.sure,
               recipe |-> reply.recipe, by |-> "hermes", about |-> Item(r).content] IN
     IF Valid(reply)
     THEN RecordsHermes(r, "advised", Op(r), a) /\ Take(r, a)
     ELSE RecordsHermes(r, "refused", Op(r), NoAdvice) /\ Leave(r)
  /\ UNCHANGED <<contract, store, policy, package, counts, history>>

Hermes(r) ==
  \/ ReuseAdvice(r) \/ WithoutHermes(r) \/ HermesFails(r)
  \/ \E reply \in Replies[Op(r)] : HermesReplies(r, reply)

ClassifyByHermes(r) == pc[r] = "askclass" /\ Hermes(r)
AssessByHermes(r)   == pc[r] = "askassess" /\ Hermes(r)

-----------------------------------------------------------------------------
(***************************************************************************)
(* The recipe, the route and the work package.                             *)
(***************************************************************************)
\* The proposed recipe must be the only one that is active and applicable.
Selected(r) ==
  {recipe \in recipes : <<Item(r).content, recipe>> \in Applicable} = {mem[r].assess.recipe}

CheckRecipe(r) ==
  /\ pc[r] = "check"
  /\ IF mem[r].assess.recipe = None THEN Goto(r, "route") /\ UNCHANGED <<log, mem>>
     ELSE IF Selected(r) THEN Goto(r, "route") /\ UNCHANGED <<log, mem>>
     ELSE Records(r, "recipe_blocked") /\ Leave(r)
  /\ UNCHANGED <<contract, store, policy, package, counts, history>>

\* The input is validated a second time, and an attachment has gone meanwhile.
InputGone(r) ==
  /\ pc[r] = "check" /\ mem[r].assess.recipe # None /\ Selected(r)
  /\ faults < MaxFaults /\ faults' = faults + 1
  /\ Records(r, "input_missing") /\ Leave(r)
  /\ UNCHANGED <<contract, store, policy, package, started, changes, history>>

RouteByLevel == [manual |-> "manual_handoff", assisted |-> "prepare_assistance",
                 developable |-> "development_draft", ready |-> "execute_recipe"]

\* A well-formed assessment has one of the four levels (Assessment.from_dict).
ASSUME LevelAssumption ==
  \A reply \in Replies["assessment"] : reply.sound => reply.says \in DOMAIN RouteByLevel

Route(a) ==
  IF a = NoAdvice THEN "classification_only"
  ELSE IF a.sure < SureRoute \/ (a.by = "hermes" /\ a.says \in {"ready", "developable"})
       THEN "needs_hermes" ELSE RouteByLevel[a.says]

\* mutant: a model may find that nothing needs an approval
CompletesIfHarmless(a) == a # NoAdvice /\ a.risk \in AutoRisks

AutoComplete(a) == a # NoAdvice /\ a.by = "rules" /\ a.risk \in AutoRisks

FinalState(r) == IF AutoComplete(mem[r].assess) THEN "completed" ELSE "review_required"

Render(r) ==
  /\ pc[r] = "route"
  /\ package' = [of |-> Item(r).content, about |-> mem[r].class.about, status |-> FinalState(r),
                 route |-> Route(mem[r].assess), by |-> mem[r].assess.by]
  /\ Goto(r, "final")
  /\ UNCHANGED <<contract, store, policy, log, mem, counts, history>>

Finish(r) ==
  /\ pc[r] = "final"
  /\ RecordsAdvice(r, FinalState(r), mem[r].assess)
  /\ Leave(r)
  /\ UNCHANGED <<contract, store, policy, package, counts, history>>

-----------------------------------------------------------------------------
\* What a run records when a step of it raises.
Failure(p) ==
  CASE p \in {"raw", "rawwrite", "look", "duplicate", "put", "write", "revised", "put2", "write2",
              "observe"} -> "storage_failed"
    [] p = "classify" -> "classification_failed"
    [] p = "evaluate" -> "evaluation_failed"
    [] p = "route"    -> "render_failed"
    [] OTHER          -> "none"

Fail(r) ==
  /\ Failure(pc[r]) # "none"
  /\ faults < MaxFaults /\ faults' = faults + 1
  /\ Records(r, Failure(pc[r])) /\ Leave(r)
  /\ UNCHANGED <<contract, store, policy, package, started, changes, history>>

\* The capture cannot be read or normalized: no task is touched.
Unreadable(r) ==
  /\ pc[r] = "raw"
  /\ faults < MaxFaults /\ faults' = faults + 1
  /\ log' = Recorded(log, [Event(r, "normalize_failed", "none", Item(r).raw, NoAdvice)
                             EXCEPT !.digest = None])
  /\ Leave(r)
  /\ UNCHANGED <<contract, store, policy, package, started, changes, history>>

Crash(r) ==
  /\ pc[r] # "idle"
  /\ faults < MaxFaults /\ faults' = faults + 1
  /\ Leave(r)
  /\ UNCHANGED <<contract, store, policy, package, log, started, changes, history>>

\* A pattern is activated or suspended; a recipe is activated or cannot be loaded.
ChangePolicy ==
  /\ changes < MaxChanges /\ changes' = changes + 1
  /\ \/ \E p \in Patterns : patterns' = (patterns \ {p}) \cup ({p} \ patterns) /\ UNCHANGED recipes
     \/ \E p \in Recipes  : recipes' = (recipes \ {p}) \cup ({p} \ recipes) /\ UNCHANGED patterns
  /\ UNCHANGED <<contract, store, package, log, pc, mem, started, faults, history>>

Step(r) ==
  \/ LookRaw(r) \/ WriteRaw(r) \/ LookTask(r) \/ Duplicate(r) \/ ReadAndRetain(r) \/ Conflict(r)
  \/ WriteTask(r) \/ Announce(r) \/ Observe(r) \/ Intake(r) \/ Classify(r) \/ Evaluate(r)
  \/ ClassifyByHermes(r) \/ AssessByHermes(r) \/ CheckRecipe(r) \/ Render(r) \/ Finish(r)

Next ==
  \/ \E r \in Runs :
       \/ \E c \in Captures : Discover(r, c)
       \/ Step(r) \/ InputGone(r) \/ Fail(r) \/ Unreadable(r) \/ Crash(r)
  \/ ChangePolicy

Spec == Init /\ [][Next]_vars

-----------------------------------------------------------------------------
\* Unless runs overlap, a verdict is logged, and the package written, with the content
\* it is about: advice of Hermes on one revision is never taken for advice on the next
\* ("Recover one content-bound advisory result", run_pipeline.py:382).
VerdictsAreBound ==
  overlap \/ (/\ \A n \in DOMAIN log : log[n].says.about \in {None, About(log[n])}
              /\ package.about = package.of)

\* An assessment of a model neither closes a task nor routes it to something that acts,
\* whatever risk and level the model claims and whoever classified the item.
ModelNeverActs ==
  /\ \A n \in DOMAIN log : log[n].kind = "completed" => log[n].says.by = "rules"
  /\ package.by = "hermes" => package.route \notin {"execute_recipe", "development_draft"}

\* No verdict is ever reached on content that no complete capture has vouched for, even
\* if runs overlap and a partial recapture replaces a complete one.
PartialIsNeverJudged ==
  \A n \in DOMAIN log :
    log[n].kind \in {"classified", "advised", "assessed", "completed", "review_required"}
      => log[n].of \in vouched

\* Unless runs overlap, a revision number names one content for ever: decisions, claims
\* and executions are bound to it.
RevisionNamesOneContent ==
  overlap \/ \A a, b \in named : a[1] = b[1] => a[2] = b[2]

\* When every run has ended and none failed or overlapped, the log has an outcome for the
\* content that is stored, and the completion observed with it, whatever was logged for
\* earlier contents and whatever is not logged again.
Outcomes == {"intake_blocked", "ai_disabled", "unanswered", "refused", "recipe_blocked",
             "completed", "review_required"}

QuietIsJudged ==
  ~overlap /\ (\A r \in Runs : pc[r] = "idle") /\ faults = 0 /\ task # NoTask =>
    /\ \E n \in DOMAIN log : log[n].kind \in Outcomes /\ About(log[n]) = task.content
    /\ task.closed => \E n \in DOMAIN log : log[n].kind = "source_completion"
=============================================================================
