--------------------------- MODULE PipelineProofs ---------------------------
(***************************************************************************)
(* Proofs about Pipeline, for any number of runs, captures, rules, recipes *)
(* and replies of Hermes.                                                  *)
(*                                                                         *)
(* A run owns its control point and its local variables, and the task and  *)
(* the log are shared.  So every argument has the same three parts: what   *)
(* an action does to the run that takes it (Effects), what it can add to   *)
(* the log (Entries), and an invariant that relates what a run holds to    *)
(* what is stored.  What is claimed only while runs do not overlap rests   *)
(* on Alone: the run that takes a step is then the only one under way.     *)
(***************************************************************************)
EXTENDS Pipeline, SequenceTheorems, WellFoundedInduction, TLAPS

\* The points of run_pipeline.
Points == {"idle", "raw", "rawwrite", "look", "duplicate", "put", "write", "revised", "put2",
           "write2", "observe", "intake", "classify", "askclass", "evaluate", "askassess",
           "check", "route", "final"}

-----------------------------------------------------------------------------
(***************************************************************************)
(* Types.                                                                  *)
(***************************************************************************)
Raws == {c.raw : c \in Captures} \cup {None}
Task == [content : Contents \cup {None}, raw : Raws, whole : BOOLEAN, closed : BOOLEAN,
         asked : BOOLEAN, rev : Nat]

\* The local variables of a run; what a verdict says is left open.
IsWork(w) ==
  /\ w = [item |-> w.item, was |-> w.was, write |-> w.write, again |-> w.again,
          class |-> w.class, assess |-> w.assess]
  /\ {w.item, w.was, w.write} \subseteq Task

IsMem(m) == DOMAIN m = Runs /\ m = [r \in Runs |-> m[r]] /\ \A r \in Runs : IsWork(m[r])

IsLog(l) == l \in Seq({l[n] : n \in DOMAIN l})

TypeOK ==
  /\ contract \in {1, 2}
  /\ task \in Task
  /\ IsLog(log)
  /\ pc \in [Runs -> Points]
  /\ IsMem(mem)
  /\ faults \in Nat /\ overlap \in BOOLEAN
  /\ vouched \subseteq Contents /\ named \subseteq Nat \X Contents

-----------------------------------------------------------------------------
(***************************************************************************)
(* Lemmas about the operators of the model.                                *)
(***************************************************************************)
\* The log only grows, by at most the event, and has one of its name afterwards.
LEMMA RecordedFacts ==
  ASSUME NEW l, IsLog(l), NEW e
  PROVE  /\ IsLog(Recorded(l, e))
         /\ \A n \in DOMAIN Recorded(l, e) :
              Recorded(l, e)[n] = e \/ \E k \in DOMAIN l : Recorded(l, e)[n] = l[k]
         /\ \A k \in DOMAIN l : k \in DOMAIN Recorded(l, e) /\ Recorded(l, e)[k] = l[k]
         /\ \E n \in DOMAIN Recorded(l, e) : Id(Recorded(l, e)[n]) = Id(e)
<1> DEFINE R == {l[n] : n \in DOMAIN l} \cup {e}
           m == Append(l, e)
<1>1. CASE \E n \in DOMAIN l : Id(l[n]) = Id(e)
  BY <1>1 DEF Recorded
<1>2. CASE ~\E n \in DOMAIN l : Id(l[n]) = Id(e)
  <2>1. l \in Seq(R)
    BY DEF IsLog
  <2>2. /\ m \in Seq(R) /\ Len(m) = Len(l) + 1 /\ DOMAIN m = 1 .. Len(m) /\ DOMAIN l = 1 .. Len(l)
        /\ m[Len(m)] = e /\ \A k \in 1 .. Len(l) : m[k] = l[k]
        /\ Len(l) \in Nat
    BY <2>1
  <2>3. m \in Seq({m[n] : n \in DOMAIN m})
    <3>1. \A n \in 1 .. Len(m) : m[n] \in {m[k] : k \in DOMAIN m}
      BY <2>2
    <3> QED BY <2>2, <3>1
  <2>4. Recorded(l, e) = m
    BY <1>2 DEF Recorded
  <2> HIDE DEF m
  <2>5. \A n \in DOMAIN m : m[n] = e \/ \E k \in DOMAIN l : m[n] = l[k]
    BY <2>2
  <2>6. \E n \in DOMAIN m : Id(m[n]) = Id(e)
    BY <2>2
  <2> QED BY <2>2, <2>3, <2>4, <2>5, <2>6 DEF IsLog
<1> QED BY <1>1, <1>2

LEMMA SetItem ==
  ASSUME TypeOK, NEW r \in Runs, NEW a \in Task, mem' = [mem EXCEPT ![r].item = a]
  PROVE  /\ IsMem(mem') /\ \A q \in Runs \ {r} : mem'[q] = mem[q]
         /\ mem'[r].item = a
         /\ mem'[r].was = mem[r].was
         /\ mem'[r].write = mem[r].write
         /\ mem'[r].class = mem[r].class
         /\ mem'[r].assess = mem[r].assess
BY DEF TypeOK, IsMem, IsWork

LEMMA SetWas ==
  ASSUME TypeOK, NEW r \in Runs, NEW a \in Task, mem' = [mem EXCEPT ![r].was = a]
  PROVE  /\ IsMem(mem') /\ \A q \in Runs \ {r} : mem'[q] = mem[q]
         /\ mem'[r].was = a
         /\ mem'[r].item = mem[r].item
         /\ mem'[r].write = mem[r].write
         /\ mem'[r].class = mem[r].class
         /\ mem'[r].assess = mem[r].assess
BY DEF TypeOK, IsMem, IsWork

LEMMA SetWrite ==
  ASSUME TypeOK, NEW r \in Runs, NEW a \in Task, mem' = [mem EXCEPT ![r].write = a]
  PROVE  /\ IsMem(mem') /\ \A q \in Runs \ {r} : mem'[q] = mem[q]
         /\ mem'[r].write = a
         /\ mem'[r].item = mem[r].item
         /\ mem'[r].was = mem[r].was
         /\ mem'[r].class = mem[r].class
         /\ mem'[r].assess = mem[r].assess
BY DEF TypeOK, IsMem, IsWork

LEMMA SetAgain ==
  ASSUME TypeOK, NEW r \in Runs, NEW a, mem' = [mem EXCEPT ![r].again = a]
  PROVE  /\ IsMem(mem') /\ \A q \in Runs \ {r} : mem'[q] = mem[q]
         /\ mem'[r].again = a
         /\ mem'[r].item = mem[r].item
         /\ mem'[r].was = mem[r].was
         /\ mem'[r].write = mem[r].write
         /\ mem'[r].class = mem[r].class
         /\ mem'[r].assess = mem[r].assess
BY DEF TypeOK, IsMem, IsWork

LEMMA SetClass ==
  ASSUME TypeOK, NEW r \in Runs, NEW a, mem' = [mem EXCEPT ![r].class = a]
  PROVE  /\ IsMem(mem') /\ \A q \in Runs \ {r} : mem'[q] = mem[q]
         /\ mem'[r].class = a
         /\ mem'[r].item = mem[r].item
         /\ mem'[r].was = mem[r].was
         /\ mem'[r].write = mem[r].write
         /\ mem'[r].assess = mem[r].assess
BY DEF TypeOK, IsMem, IsWork

LEMMA SetAssess ==
  ASSUME TypeOK, NEW r \in Runs, NEW a, mem' = [mem EXCEPT ![r].assess = a]
  PROVE  /\ IsMem(mem') /\ \A q \in Runs \ {r} : mem'[q] = mem[q]
         /\ mem'[r].assess = a
         /\ mem'[r].item = mem[r].item
         /\ mem'[r].was = mem[r].was
         /\ mem'[r].write = mem[r].write
         /\ mem'[r].class = mem[r].class
BY DEF TypeOK, IsMem, IsWork

LEMMA SetNoWork ==
  ASSUME TypeOK, NEW r \in Runs, mem' = [mem EXCEPT ![r] = NoWork]
  PROVE  /\ IsMem(mem') /\ \A q \in Runs \ {r} : mem'[q] = mem[q]
         /\ mem'[r].item = NoTask /\ mem'[r].was = NoTask /\ mem'[r].write = NoTask
         /\ mem'[r].class = NoAdvice /\ mem'[r].assess = NoAdvice
<1>1. NoTask \in Task
  BY DEF NoTask, Task, Raws
<1>2. /\ NoWork.item = NoTask /\ NoWork.was = NoTask /\ NoWork.write = NoTask
      /\ NoWork.class = NoAdvice /\ NoWork.assess = NoAdvice /\ IsWork(NoWork)
  BY <1>1 DEF NoWork, IsWork
<1> QED BY <1>2 DEF TypeOK, IsMem

LEMMA SetPc ==
  ASSUME TypeOK, NEW r \in Runs, NEW p \in Points, Goto(r, p)
  PROVE  pc' \in [Runs -> Points] /\ pc'[r] = p /\ \A q \in Runs \ {r} : pc'[q] = pc[q]
BY DEF TypeOK, Goto

\* put_task: the content is the new one; its revision is kept or grows.
LEMMA StoredFacts ==
  ASSUME NEW old \in Task, NEW new \in Task
  PROVE  /\ Stored(old, new) \in Task
         /\ Stored(old, new).content = new.content
         /\ Stored(old, new).whole =>
              new.whole \/ (old.whole /\ old.content = new.content)
         /\ old = NoTask => Stored(old, new) = new
         /\ old # NoTask /\ old.content = new.content => Stored(old, new).rev = old.rev
         /\ old # NoTask /\ old.content # new.content => Stored(old, new).rev > old.rev
<1>1. /\ Merged(old, new) \in Task
      /\ Merged(old, new).content = new.content /\ Merged(old, new).rev = old.rev
      /\ Merged(old, new).whole => new.whole \/ old.whole
  <2> DEFINE w == new.whole \/ old.whole
             c == new.closed \/ old.closed
             m == [new EXCEPT !.rev = old.rev, !.closed = c, !.whole = w]
  <2>1. w \in BOOLEAN /\ c \in BOOLEAN
    OBVIOUS
  <2>2. Merged(old, new) = m
    BY DEF Merged
  <2>3. w => new.whole \/ old.whole
    OBVIOUS
  <2> HIDE DEF w, c
  <2>4. m \in Task /\ m.content = new.content /\ m.rev = old.rev /\ m.whole = w
    BY <2>1 DEF Task
  <2> QED BY <2>2, <2>3, <2>4
<1>2. /\ Revised(old, new) \in Task
      /\ Revised(old, new).content = new.content /\ Revised(old, new).whole = new.whole
      /\ Revised(old, new).rev > old.rev
  <2> DEFINE n == IF new.rev > old.rev + 1 THEN new.rev ELSE old.rev + 1
             m == [content |-> new.content, raw |-> new.raw, whole |-> new.whole,
                   closed |-> new.closed, asked |-> new.asked, rev |-> n]
  <2>1. n \in Nat /\ n > old.rev
    BY DEF Task
  <2>2. Revised(old, new) = m
    BY DEF Revised, Task
  <2> HIDE DEF n
  <2>3. m \in Task /\ m.content = new.content /\ m.rev = n /\ m.whole = new.whole
    BY <2>1 DEF Task
  <2> QED BY <2>1, <2>2, <2>3
<1> QED BY <1>1, <1>2 DEF Stored

LEMMA AsTaskFacts ==
  ASSUME PipelineAssumption, NEW c \in Captures
  PROVE  AsTask(c) \in Task /\ AsTask(c).content = c.content /\ c.content \in Contents
BY DEF AsTask, Task, Raws, PipelineAssumption

-----------------------------------------------------------------------------
(***************************************************************************)
(* What the actions of a run do to its control point and local variables.  *)
(***************************************************************************)
Becomes(r, p, item, was, write, class, assess) ==
  /\ pc' \in [Runs -> Points] /\ IsMem(mem')
  /\ \A q \in Runs \ {r} : pc'[q] = pc[q] /\ mem'[q] = mem[q]
  /\ pc'[r] = p
  /\ mem'[r].item = item /\ mem'[r].was = was /\ mem'[r].write = write
  /\ mem'[r].class = class /\ mem'[r].assess = assess

Leaves(r) == Becomes(r, "idle", NoTask, NoTask, NoTask, NoAdvice, NoAdvice)

Moves(r, p) ==
  Becomes(r, p, mem[r].item, mem[r].was, mem[r].write, mem[r].class, mem[r].assess)

LEMMA Leaving ==
  ASSUME TypeOK, NEW r \in Runs, Leave(r)
  PROVE  Leaves(r)
BY SetPc, SetNoWork DEF Leave, Leaves, Becomes, Points

LEMMA Moving ==
  ASSUME TypeOK, NEW r \in Runs, NEW p \in Points, Goto(r, p), UNCHANGED mem
  PROVE  Moves(r, p)
BY SetPc DEF Moves, Becomes, TypeOK

LEMMA TakingItem ==
  ASSUME TypeOK, NEW r \in Runs, NEW p \in Points, Goto(r, p), NEW a \in Task,
         mem' = [mem EXCEPT ![r].item = a]
  PROVE  Becomes(r, p, a, mem[r].was, mem[r].write, mem[r].class, mem[r].assess)
BY SetPc, SetItem DEF Becomes

LEMMA TakingWas ==
  ASSUME TypeOK, NEW r \in Runs, NEW p \in Points, Goto(r, p), NEW a \in Task,
         mem' = [mem EXCEPT ![r].was = a]
  PROVE  Becomes(r, p, mem[r].item, a, mem[r].write, mem[r].class, mem[r].assess)
BY SetPc, SetWas DEF Becomes

LEMMA TakingWrite ==
  ASSUME TypeOK, NEW r \in Runs, NEW p \in Points, Goto(r, p), NEW a \in Task,
         mem' = [mem EXCEPT ![r].write = a]
  PROVE  Becomes(r, p, mem[r].item, mem[r].was, a, mem[r].class, mem[r].assess)
BY SetPc, SetWrite DEF Becomes

LEMMA TakingAgain ==
  ASSUME TypeOK, NEW r \in Runs, NEW p \in Points, Goto(r, p), NEW a,
         mem' = [mem EXCEPT ![r].again = a]
  PROVE  Moves(r, p)
BY SetPc, SetAgain DEF Moves, Becomes

LEMMA TakingClass ==
  ASSUME TypeOK, NEW r \in Runs, NEW p \in Points, Goto(r, p), NEW a,
         mem' = [mem EXCEPT ![r].class = a]
  PROVE  Becomes(r, p, mem[r].item, mem[r].was, mem[r].write, a, mem[r].assess)
BY SetPc, SetClass DEF Becomes

LEMMA TakingAssess ==
  ASSUME TypeOK, NEW r \in Runs, NEW p \in Points, Goto(r, p), NEW a,
         mem' = [mem EXCEPT ![r].assess = a]
  PROVE  Becomes(r, p, mem[r].item, mem[r].was, mem[r].write, mem[r].class, a)
BY SetPc, SetAssess DEF Becomes

-----------------------------------------------------------------------------
(***************************************************************************)
(* Hermes: four ways a request ends.                                       *)
(***************************************************************************)
Less == {p \in Nat \X Nat : p[1] < p[2]}

LEMMA Smallest ==
  ASSUME NEW T \in SUBSET Nat, T # {}
  PROVE  \E n \in T : \A k \in T : n <= k
<1>1. IsWellFoundedOn(Less, Nat)
  BY NatLessThanWellFounded DEF OpToRel, Less
<1>2. PICK n \in T : \A k \in T : ~(<<k, n>> \in Less)
  BY <1>1, WFMin
<1>3. ASSUME NEW k \in T PROVE n <= k
  <2>1. k \in Nat /\ n \in Nat /\ ~(<<k, n>> \in Less)
    BY <1>2
  <2>2. ~(k < n)
    BY <2>1 DEF Less
  <2> QED BY <2>1, <2>2
<1> QED BY <1>3

LEMMA Greatest ==
  ASSUME NEW N \in Nat, NEW S \in SUBSET (1 .. N), S # {}
  PROVE  \E n \in S : \A k \in S : k <= n
<1> DEFINE T == {k \in Nat : N - k \in S}
<1>1. T \in SUBSET Nat /\ T # {}
  <2>1. PICK n \in S : TRUE
    OBVIOUS
  <2>2. N - n \in T
    BY <2>1
  <2> QED BY <2>2
<1>2. \A n \in S : N - n \in T
  OBVIOUS
<1> HIDE DEF T
<1>3. PICK k \in T : \A j \in T : k <= j
  BY <1>1, Smallest
<1> USE DEF T
<1>4. N - k \in S /\ \A n \in S : n <= N - k
  BY <1>2, <1>3
<1> QED BY <1>4

LEMMA LatestFacts ==
  ASSUME TypeOK, NEW S \in SUBSET DOMAIN log, S # {}
  PROVE  Latest(S) \in S
<1>1. DOMAIN log = 1 .. Len(log) /\ Len(log) \in Nat
  BY DEF TypeOK, IsLog
<1>2. \E n \in S : \A k \in S : k <= n
  BY <1>1, Greatest
<1> QED BY <1>2 DEF Latest

Advice(r, reply) ==
  [says |-> reply.says, risk |-> reply.risk, sure |-> reply.sure, recipe |-> reply.recipe,
   by |-> "hermes", about |-> mem[r].item.content]

Takes(r, a) ==
  \/ /\ pc[r] = "askclass"
     /\ Becomes(r, AfterClass(r), mem[r].item, mem[r].was, mem[r].write, a, mem[r].assess)
  \/ /\ pc[r] = "askassess"
     /\ Becomes(r, "check", mem[r].item, mem[r].was, mem[r].write, mem[r].class, a)

LEMMA Taking ==
  ASSUME TypeOK, NEW r \in Runs, Asking(r), NEW a, Take(r, a)
  PROVE  Takes(r, a)
<1>1. AfterClass(r) \in Points /\ "check" \in Points
  BY DEF AfterClass, Points
<1>2. CASE pc[r] = "askclass"
  BY <1>1, <1>2, TakingClass DEF Take, Op, Takes
<1>3. CASE pc[r] = "askassess"
  BY <1>1, <1>3, TakingAssess DEF Take, Op, Takes
<1> QED BY <1>2, <1>3 DEF Asking

Reuses(r) ==
  /\ log' = log
  /\ \E n \in DOMAIN log :
       /\ log[n].op = Op(r) /\ log[n].kind \in Settled /\ About(log[n]) = mem[r].item.content
       /\ IF log[n].kind = "advised" THEN Takes(r, log[n].says) ELSE Leaves(r)

Refuses(r) ==
  /\ Leaves(r)
  /\ \E kind \in {"ai_disabled", "unanswered", "refused"} :
       log' = Recorded(log, Event(r, kind, Op(r), None, NoAdvice))

Advises(r) ==
  \E reply \in Replies[Op(r)] :
    /\ reply.sound
    /\ log' = Recorded(log, Event(r, "advised", Op(r), None, Advice(r, reply)))
    /\ Takes(r, Advice(r, reply))

LEMMA HermesEnds ==
  ASSUME TypeOK, NEW r \in Runs, Asking(r), Hermes(r)
  PROVE  /\ Reuses(r) \/ Refuses(r) \/ Advises(r)
         /\ UNCHANGED <<contract, store, policy, package, counts, history>>
<1>1. CASE ReuseAdvice(r)
  <2> DEFINE prior == Prior(Op(r), Item(r).content)
             n == Latest(prior)
  <2>1. n \in prior
    BY <1>1, LatestFacts DEF ReuseAdvice, Prior
  <2>2. /\ n \in DOMAIN log /\ log[n].op = Op(r) /\ log[n].kind \in Settled
        /\ About(log[n]) = mem[r].item.content
    BY <2>1 DEF Prior, Item
  <2>3. IF log[n].kind = "advised" THEN Takes(r, log[n].says) ELSE Leaves(r)
    BY <1>1, Taking, Leaving DEF ReuseAdvice
  <2>4. Reuses(r)
    BY <1>1, <2>2, <2>3 DEF Reuses, ReuseAdvice
  <2> QED BY <1>1, <2>4 DEF ReuseAdvice
<1>2. CASE WithoutHermes(r)
  BY <1>2, Leaving DEF WithoutHermes, RecordsHermes, Refuses
<1>3. CASE HermesFails(r)
  BY <1>3, Leaving DEF HermesFails, RecordsHermes, Refuses
<1>4. ASSUME NEW reply \in Replies[Op(r)], HermesReplies(r, reply)
      PROVE  /\ Refuses(r) \/ Advises(r)
             /\ UNCHANGED <<contract, store, policy, package, counts, history>>
  <2>1. CASE Valid(reply)
    <3>1. /\ log' = Recorded(log, Event(r, "advised", Op(r), None, Advice(r, reply)))
          /\ Take(r, Advice(r, reply))
      BY <1>4, <2>1 DEF HermesReplies, RecordsHermes, Advice, Item
    <3>2. Advises(r)
      BY <2>1, <3>1, Taking DEF Advises, Valid
    <3> QED BY <1>4, <3>2 DEF HermesReplies
  <2>2. CASE ~Valid(reply)
    BY <1>4, <2>2, Leaving DEF HermesReplies, RecordsHermes, Refuses
  <2> QED BY <2>1, <2>2
<1> QED BY <1>1, <1>2, <1>3, <1>4 DEF Hermes

-----------------------------------------------------------------------------
(***************************************************************************)
(* The other actions.                                                      *)
(***************************************************************************)
Discovers(r, c) ==
  Becomes(r, "raw", AsTask(c), mem[r].was, mem[r].write, mem[r].class, mem[r].assess)

LooksAtTask(r) ==
  \E p \in {"put2", "duplicate", "put"} :
    /\ p = "duplicate" => contract = 1 /\ task # NoTask
    /\ p = "put" => contract # 1
    /\ Becomes(r, p, mem[r].item, task, mem[r].write, mem[r].class, mem[r].assess)

Reads(r) ==
  \/ /\ task = mem[r].item
     /\ \/ pc[r] = "put" /\ Moves(r, "revised")
        \/ pc[r] = "put2" /\ Moves(r, "observe")
  \/ /\ task # mem[r].item
     /\ \E p \in {"write", "write2"} :
          /\ p = "write" <=> pc[r] = "put"
          /\ Becomes(r, p, mem[r].item, mem[r].was, Stored(task, mem[r].item),
                     mem[r].class, mem[r].assess)

ReadsBack(r, p) ==
  Becomes(r, p, task, mem[r].was, mem[r].write, mem[r].class, mem[r].assess)

Classifies(r) ==
  LET a == ClassifyWithRules(mem[r].item) IN
  Becomes(r, IF a = NoAdvice THEN "askclass" ELSE AfterClass(r),
          mem[r].item, mem[r].was, mem[r].write, a, mem[r].assess)

Evaluates(r) ==
  LET a == EvaluateWithRules(mem[r].item, mem[r].class) IN
  Becomes(r, IF a = NoAdvice THEN "askassess" ELSE "check",
          mem[r].item, mem[r].was, mem[r].write, mem[r].class, a)

LEMMA Effects ==
  ASSUME PipelineAssumption, TypeOK, NEW r \in Runs
  PROVE  /\ \A c \in Captures : Discover(r, c) => Discovers(r, c)
         /\ LookRaw(r) => Moves(r, "rawwrite") \/ Moves(r, "look")
         /\ WriteRaw(r) => Moves(r, "look")
         /\ LookTask(r) => LooksAtTask(r)
         /\ ReadAndRetain(r) => Reads(r)
         /\ WriteTask(r) => \/ pc[r] = "write" /\ Moves(r, "revised")
                            \/ pc[r] = "write2" /\ Moves(r, "observe")
         /\ Announce(r) => ReadsBack(r, "put2")
         /\ Observe(r) => ReadsBack(r, "intake")
         /\ Intake(r) => \/ mem[r].item.whole /\ Moves(r, "classify")
                         \/ ~mem[r].item.whole /\ Leaves(r)
         /\ Classify(r) => Classifies(r)
         /\ Evaluate(r) => Evaluates(r)
         /\ CheckRecipe(r) => (Moves(r, "route") /\ log' = log) \/ Leaves(r)
         /\ Render(r) => Moves(r, "final")
         /\ (Duplicate(r) \/ Conflict(r) \/ Finish(r) \/ InputGone(r) \/ Fail(r)
              \/ Unreadable(r) \/ Crash(r)) => Leaves(r)
<1>1. {"raw", "rawwrite", "look", "put2", "duplicate", "put", "write", "write2", "revised",
       "observe", "intake", "classify", "askclass", "askassess", "check", "route", "final",
       AfterClass(r)} \subseteq Points
  BY DEF Points, AfterClass
<1>2. mem[r].item \in Task /\ task \in Task /\ Stored(task, mem[r].item) \in Task
  BY StoredFacts DEF TypeOK, IsMem, IsWork
<1>3. ASSUME NEW c \in Captures, Discover(r, c) PROVE Discovers(r, c)
  BY <1>1, <1>3, AsTaskFacts, TakingItem DEF Discover, Discovers
<1>4. LookRaw(r) => Moves(r, "rawwrite") \/ Moves(r, "look")
  BY <1>1, TakingAgain DEF LookRaw
<1>5. WriteRaw(r) => Moves(r, "look")
  BY <1>1, Moving DEF WriteRaw
<1>6. ASSUME LookTask(r) PROVE LooksAtTask(r)
  <2> DEFINE p == IF ~(mem[r].again /\ task # NoTask) THEN "put2"
                  ELSE IF contract = 1 THEN "duplicate" ELSE "put"
  <2>1. Goto(r, p) /\ mem' = [mem EXCEPT ![r].was = task]
    BY <1>6 DEF LookTask
  <2>2. /\ p \in {"put2", "duplicate", "put"}
        /\ p = "duplicate" => contract = 1 /\ task # NoTask
        /\ p = "put" => contract # 1
    OBVIOUS
  <2> HIDE DEF p
  <2>3. p \in Points
    BY <1>1, <2>2
  <2>4. Becomes(r, p, mem[r].item, task, mem[r].write, mem[r].class, mem[r].assess)
    BY <1>2, <2>1, <2>3, TakingWas
  <2> QED BY <2>2, <2>4 DEF LooksAtTask
<1>7. ASSUME ReadAndRetain(r) PROVE Reads(r)
  <2>1. CASE task = mem[r].item
    BY <1>1, <1>7, <2>1, Moving DEF ReadAndRetain, Reads, Item
  <2>2. CASE task # mem[r].item
    <3>1. mem' = [mem EXCEPT ![r].write = Stored(task, mem[r].item)]
      BY <1>7, <2>2 DEF ReadAndRetain, Item
    <3>2. \/ pc[r] = "put" /\ Goto(r, "write")
          \/ pc[r] = "put2" /\ Goto(r, "write2")
      BY <1>7, <2>2 DEF ReadAndRetain, Item
    <3> QED BY <1>1, <1>2, <2>2, <3>1, <3>2, TakingWrite DEF Reads
  <2> QED BY <2>1, <2>2
<1>8. WriteTask(r) => \/ pc[r] = "write" /\ Moves(r, "revised")
                      \/ pc[r] = "write2" /\ Moves(r, "observe")
  <2>1. ASSUME pc[r] = "write", WriteTask(r) PROVE Moves(r, "revised")
    BY <1>1, <2>1, Moving DEF WriteTask
  <2>2. ASSUME pc[r] = "write2", WriteTask(r) PROVE Moves(r, "observe")
    BY <1>1, <2>2, Moving DEF WriteTask
  <2> QED BY <2>1, <2>2 DEF WriteTask
<1>9. Announce(r) => ReadsBack(r, "put2")
  BY <1>1, <1>2, TakingItem DEF Announce, ReadsBack
<1>10. Observe(r) => ReadsBack(r, "intake")
  BY <1>1, <1>2, TakingItem DEF Observe, ReadsBack
<1>11. Intake(r) => \/ mem[r].item.whole /\ Moves(r, "classify")
                    \/ ~mem[r].item.whole /\ Leaves(r)
  <2>1. ASSUME mem[r].item.whole, Intake(r) PROVE Moves(r, "classify")
    BY <1>1, <2>1, Moving DEF Intake, Item
  <2>2. ASSUME ~mem[r].item.whole, Intake(r) PROVE Leaves(r)
    BY <2>2, Leaving DEF Intake, Item
  <2> QED BY <2>1, <2>2
<1>12. ASSUME Classify(r) PROVE Classifies(r)
  <2> DEFINE a == ClassifyWithRules(mem[r].item)
             p == IF a = NoAdvice THEN "askclass" ELSE AfterClass(r)
  <2>1. Goto(r, p) /\ mem' = [mem EXCEPT ![r].class = a]
    BY <1>12 DEF Classify, Item
  <2>2. p \in Points
    BY <1>1
  <2>3. Classifies(r) <=> Becomes(r, p, mem[r].item, mem[r].was, mem[r].write, a, mem[r].assess)
    BY DEF Classifies
  <2> HIDE DEF p, a
  <2> QED BY <2>1, <2>2, <2>3, TakingClass
<1>13. ASSUME Evaluate(r) PROVE Evaluates(r)
  <2> DEFINE a == EvaluateWithRules(mem[r].item, mem[r].class)
             p == IF a = NoAdvice THEN "askassess" ELSE "check"
  <2>1. Goto(r, p) /\ mem' = [mem EXCEPT ![r].assess = a]
    BY <1>13 DEF Evaluate, Item
  <2>2. p \in Points
    BY <1>1
  <2>3. Evaluates(r) <=> Becomes(r, p, mem[r].item, mem[r].was, mem[r].write, mem[r].class, a)
    BY DEF Evaluates
  <2> HIDE DEF p, a
  <2> QED BY <2>1, <2>2, <2>3, TakingAssess
<1>14. CheckRecipe(r) => (Moves(r, "route") /\ log' = log) \/ Leaves(r)
  BY <1>1, Moving, Leaving DEF CheckRecipe
<1>15. Render(r) => Moves(r, "final")
  BY <1>1, Moving DEF Render
<1>16. (Duplicate(r) \/ Conflict(r) \/ Finish(r) \/ InputGone(r) \/ Fail(r)
        \/ Unreadable(r) \/ Crash(r)) => Leaves(r)
  BY Leaving DEF Duplicate, Conflict, Finish, InputGone, Fail, Unreadable, Crash
<1> QED
  BY <1>3, <1>4, <1>5, <1>6, <1>7, <1>8, <1>9, <1>10, <1>11, <1>12, <1>13, <1>14, <1>15, <1>16

-----------------------------------------------------------------------------
(***************************************************************************)
(* Types, and what a run holds at each of its points.                      *)
(***************************************************************************)
\* Where a run works on the task it has read back.
Judging == {"classify", "askclass", "evaluate", "askassess", "check", "route", "final"}
Reading == Judging \cup {"intake"}

There ==
  \A r \in Runs :
    /\ pc[r] # "idle" => mem[r].item.content \in Contents
    /\ pc[r] \in {"write", "write2"} => mem[r].write.content \in Contents
    /\ pc[r] \in Reading \cup {"revised", "observe"} => task.content \in Contents

LEMMA LogGrows ==
  ASSUME Next
  PROVE  log' = log \/ \E e : log' = Recorded(log, e)
<1>1. CASE ChangePolicy
  BY <1>1 DEF ChangePolicy
<1>2. ASSUME NEW r \in Runs,
             Step(r) \/ (\E c \in Captures : Discover(r, c)) \/ InputGone(r) \/ Fail(r)
             \/ Unreadable(r) \/ Crash(r)
      PROVE  log' = log \/ \E e : log' = Recorded(log, e)
  <2>1. CASE \E c \in Captures : Discover(r, c)
    BY <2>1 DEF Discover
  <2>2. CASE LookRaw(r) \/ WriteRaw(r) \/ LookTask(r) \/ Duplicate(r) \/ ReadAndRetain(r)
             \/ Conflict(r) \/ WriteTask(r)
    BY <2>2 DEF LookRaw, WriteRaw, LookTask, Duplicate, ReadAndRetain, Conflict, WriteTask, Records
  <2>3. CASE Announce(r) \/ Observe(r) \/ Intake(r) \/ Classify(r) \/ Evaluate(r)
    BY <2>3 DEF Announce, Observe, Intake, Classify, Evaluate, Records, RecordsAdvice
  <2>4. CASE ClassifyByHermes(r) \/ AssessByHermes(r)
    BY <2>4 DEF ClassifyByHermes, AssessByHermes, Hermes, ReuseAdvice, WithoutHermes, HermesFails,
                HermesReplies, RecordsHermes
  <2>5. CASE CheckRecipe(r) \/ Render(r) \/ Finish(r)
    BY <2>5 DEF CheckRecipe, Render, Finish, Records, RecordsAdvice
  <2>6. CASE InputGone(r) \/ Fail(r) \/ Unreadable(r) \/ Crash(r)
    BY <2>6 DEF InputGone, Fail, Unreadable, Crash, Records
  <2> QED BY <1>2, <2>1, <2>2, <2>3, <2>4, <2>5, <2>6 DEF Step
<1> QED BY <1>1, <1>2 DEF Next

LEMMA TypesInit ==
  ASSUME PipelineAssumption, Init
  PROVE  TypeOK /\ There
<1>1. NoTask \in Task
  BY DEF NoTask, Task, Raws
<1>2. /\ NoWork.item = NoTask /\ NoWork.was = NoTask /\ NoWork.write = NoTask /\ IsWork(NoWork)
  BY <1>1 DEF NoWork, IsWork
<1>3. IsMem(mem)
  BY <1>2 DEF Init, IsMem
<1>4. IsLog(log)
  BY DEF Init, IsLog
<1>5. TypeOK
  BY <1>1, <1>3, <1>4 DEF Init, TypeOK, Points
<1>6. There
  BY DEF Init, There, Reading, Judging
<1> QED BY <1>5, <1>6

Ends(r) ==
  \/ Duplicate(r) \/ Conflict(r) \/ Finish(r) \/ InputGone(r) \/ Fail(r) \/ Unreadable(r)
  \/ Crash(r)

\* The steps of a run, sorted by what they do.
LEMMA ByAction ==
  ASSUME Next, NEW P,
         ChangePolicy => P,
         \A r \in Runs, c \in Captures : Discover(r, c) => P,
         \A r \in Runs : LookRaw(r) \/ WriteRaw(r) => P,
         \A r \in Runs : LookTask(r) => P,
         \A r \in Runs : ReadAndRetain(r) => P,
         \A r \in Runs : WriteTask(r) => P,
         \A r \in Runs : Announce(r) => P,
         \A r \in Runs : Observe(r) => P,
         \A r \in Runs : Intake(r) => P,
         \A r \in Runs : Classify(r) => P,
         \A r \in Runs : Evaluate(r) => P,
         \A r \in Runs : ClassifyByHermes(r) \/ AssessByHermes(r) => P,
         \A r \in Runs : CheckRecipe(r) => P,
         \A r \in Runs : Render(r) => P,
         \A r \in Runs : Ends(r) => P
  PROVE  P
BY DEF Next, Step, Ends

LEMMA TypesStep ==
  ASSUME PipelineAssumption, TypeOK, There, Next
  PROVE  (TypeOK /\ There)'
<1> DEFINE T == /\ contract' \in {1, 2} /\ task' \in Task
                /\ pc' \in [Runs -> Points] /\ IsMem(mem')
                /\ faults' \in Nat /\ overlap' \in BOOLEAN
                /\ vouched' \subseteq Contents /\ named' \subseteq Nat \X Contents
                /\ \A r \in Runs :
                    /\ pc'[r] # "idle" => mem'[r].item.content \in Contents
                    /\ pc'[r] \in {"write", "write2"} => mem'[r].write.content \in Contents
                    /\ pc'[r] \in Reading \cup {"revised", "observe"} => task'.content \in Contents
<1>1. IsLog(log')
  BY LogGrows, RecordedFacts DEF TypeOK
<1> USE DEF TypeOK, There, Reading, Judging, Becomes, Moves
<1>2. ChangePolicy => T
  BY DEF ChangePolicy, history, store
<1>3. ASSUME NEW r \in Runs, NEW c \in Captures, Discover(r, c) PROVE T
  <2>1. Discovers(r, c)
    BY <1>3, Effects
  <2>2. /\ UNCHANGED <<contract, task, faults, named>> /\ overlap' \in BOOLEAN
        /\ vouched' \subseteq vouched \cup {c.content}
    BY <1>3 DEF Discover, store
  <2> QED BY <2>1, <2>2, AsTaskFacts DEF Discovers
<1>4. ASSUME NEW r \in Runs, LookRaw(r) \/ WriteRaw(r) PROVE T
  BY <1>4, Effects DEF LookRaw, WriteRaw, store, counts, history
<1>5. ASSUME NEW r \in Runs, LookTask(r) PROVE T
  <2>1. LooksAtTask(r) /\ pc[r] = "look"
    BY <1>5, Effects DEF LookTask
  <2>2. UNCHANGED <<contract, task, faults, overlap, vouched, named>>
    BY <1>5 DEF LookTask, store, counts, history
  <2> QED BY <2>1, <2>2 DEF LooksAtTask
<1>6. ASSUME NEW r \in Runs, ReadAndRetain(r) PROVE T
  BY <1>6, Effects, StoredFacts DEF ReadAndRetain, Reads, IsMem, IsWork, counts, history
<1>7. ASSUME NEW r \in Runs, WriteTask(r) PROVE T
  BY <1>7, Effects DEF WriteTask, IsMem, IsWork, counts, Task
<1>8. ASSUME NEW r \in Runs, Announce(r) PROVE T
  <2>1. ReadsBack(r, "put2") /\ pc[r] = "revised"
    BY <1>8, Effects DEF Announce
  <2>2. UNCHANGED <<contract, task, faults, overlap, vouched, named>>
    BY <1>8 DEF Announce, store, counts, history
  <2> QED BY <2>1, <2>2 DEF ReadsBack
<1>9. ASSUME NEW r \in Runs, Observe(r) PROVE T
  <2>1. ReadsBack(r, "intake") /\ pc[r] = "observe"
    BY <1>9, Effects DEF Observe
  <2>2. UNCHANGED <<contract, task, faults, overlap, vouched, named>>
    BY <1>9 DEF Observe, store, counts, history
  <2> QED BY <2>1, <2>2 DEF ReadsBack
<1>10. ASSUME NEW r \in Runs, Intake(r) PROVE T
  BY <1>10, Effects DEF Intake, Leaves, store, counts, history
<1>11. ASSUME NEW r \in Runs, Classify(r) PROVE T
  <2>1. Classifies(r) /\ pc[r] = "classify"
    BY <1>11, Effects DEF Classify
  <2>2. UNCHANGED <<contract, task, faults, overlap, vouched, named>>
    BY <1>11 DEF Classify, store, counts, history
  <2> QED BY <2>1, <2>2 DEF Classifies, AfterClass
<1>12. ASSUME NEW r \in Runs, Evaluate(r) PROVE T
  <2>1. Evaluates(r) /\ pc[r] = "evaluate"
    BY <1>12, Effects DEF Evaluate
  <2>2. UNCHANGED <<contract, task, faults, overlap, vouched, named>>
    BY <1>12 DEF Evaluate, store, counts, history
  <2> QED BY <2>1, <2>2 DEF Evaluates
<1>13. ASSUME NEW r \in Runs, ClassifyByHermes(r) \/ AssessByHermes(r) PROVE T
  BY <1>13, HermesEnds DEF ClassifyByHermes, AssessByHermes, Asking, Reuses, Refuses, Advises,
     Takes, Leaves, AfterClass, store, counts, history
<1>14. ASSUME NEW r \in Runs, CheckRecipe(r) PROVE T
  BY <1>14, Effects DEF CheckRecipe, Leaves, store, counts, history
<1>15. ASSUME NEW r \in Runs, Render(r) PROVE T
  BY <1>15, Effects DEF Render, store, counts, history
<1>16. ASSUME NEW r \in Runs, Ends(r) PROVE T
  <2>1. UNCHANGED <<contract, store, history>>
    BY <1>16 DEF Ends, Duplicate, Conflict, Finish, InputGone, Fail, Unreadable, Crash
  <2>2. faults' \in Nat
    BY <1>16 DEF Ends, Duplicate, Conflict, Finish, InputGone, Fail, Unreadable, Crash, counts
  <2> QED BY <1>16, <2>1, <2>2, Effects DEF Ends, Leaves, store, history
<1>17. T
  BY <1>2, <1>3, <1>4, <1>5, <1>6, <1>7, <1>8, <1>9, <1>10, <1>11, <1>12, <1>13, <1>14, <1>15,
     <1>16, ByAction
<1> QED BY <1>1, <1>17

-----------------------------------------------------------------------------
(***************************************************************************)
(* What a step adds to the log.                                            *)
(***************************************************************************)
Level(a) == a # NoAdvice /\ a.by = "hermes" => a.says \in DOMAIN RouteByLevel

Entry(r, e) ==
  /\ e.of = mem[r].item.content
  /\ e.kind # "normalize_failed" => e.digest = IF contract = 2 THEN task.content ELSE None
  /\ e.kind \in Outcomes => pc[r] \in Reading
  /\ e.kind \in {"classified", "advised", "assessed", "completed", "review_required"}
       => pc[r] \in Judging
  /\ \/ e.says = NoAdvice
     \/ pc[r] \in Judging /\ e.says.about = mem[r].item.content
     \/ pc[r] \in Judging /\ e.says = mem[r].assess
  /\ e.kind = "normalize_failed" => e.says = NoAdvice
  /\ e.kind = "completed" => e.says.by = "rules"
  /\ e.kind = "advised" => /\ e.says.about = mem[r].item.content
                           /\ e.op = "assessment" => Level(e.says)

LEMMA ByRules ==
  /\ \A item : \/ ClassifyWithRules(item) = NoAdvice
               \/ /\ ClassifyWithRules(item).about = item.content
                  /\ ClassifyWithRules(item).by = "rules"
  /\ \A item, class : \/ EvaluateWithRules(item, class) = NoAdvice
                      \/ /\ EvaluateWithRules(item, class).about = item.content
                         /\ EvaluateWithRules(item, class).by = "rules"
<1>1. ASSUME NEW rule, NEW content
      PROVE  \/ FromRule(rule, content) = NoAdvice
             \/ FromRule(rule, content).about = content /\ FromRule(rule, content).by = "rules"
  BY DEF FromRule
<1>2. ASSUME NEW item
      PROVE  \/ ClassifyWithRules(item) = NoAdvice
             \/ /\ ClassifyWithRules(item).about = item.content
                /\ ClassifyWithRules(item).by = "rules"
  BY <1>1 DEF ClassifyWithRules
<1>3. ASSUME NEW item, NEW class
      PROVE  \/ EvaluateWithRules(item, class) = NoAdvice
             \/ /\ EvaluateWithRules(item, class).about = item.content
                /\ EvaluateWithRules(item, class).by = "rules"
  BY <1>1 DEF EvaluateWithRules
<1> QED BY <1>2, <1>3

LEMMA EventFields ==
  ASSUME NEW r, NEW kind, NEW op, NEW key, NEW says
  PROVE  /\ Event(r, kind, op, key, says).kind = kind
         /\ Event(r, kind, op, key, says).op = op
         /\ Event(r, kind, op, key, says).says = says
         /\ Event(r, kind, op, key, says).of = mem[r].item.content
         /\ Event(r, kind, op, key, says).digest = IF contract = 2 THEN task.content ELSE None
BY DEF Event, Item

LEMMA Entries ==
  ASSUME LevelAssumption, TypeOK, Next
  PROVE  log' = log \/ \E r \in Runs : \E e : log' = Recorded(log, e) /\ Entry(r, e)
<1> DEFINE L == log' = log \/ \E r \in Runs : \E e : log' = Recorded(log, e) /\ Entry(r, e)
<1>1. ChangePolicy => L
  BY DEF ChangePolicy
<1>2. ASSUME NEW r \in Runs, NEW kind, NEW op, NEW key, NEW a,
             log' = log \/ log' = Recorded(log, Event(r, kind, op, key, a)),
             Entry(r, Event(r, kind, op, key, a))
      PROVE  L
  BY <1>2
<1>3. ASSUME NEW r \in Runs,
             NEW kind \in {"duplicate", "storage_failed", "revised", "source_completion",
                           "classification_failed", "evaluation_failed", "render_failed",
                           "input_missing"},
             NEW op, NEW key
      PROVE  Entry(r, Event(r, kind, op, key, NoAdvice))
  BY <1>3, EventFields DEF Entry, Outcomes
<1>4. ASSUME NEW r \in Runs, pc[r] \in Reading,
             NEW kind \in {"intake_blocked", "ai_disabled", "unanswered", "refused",
                           "recipe_blocked"},
             NEW op, NEW key
      PROVE  Entry(r, Event(r, kind, op, key, NoAdvice))
  BY <1>4, EventFields DEF Entry
<1>5. \A r \in Runs, c \in Captures : Discover(r, c) => L
  BY DEF Discover
<1>6. \A r \in Runs : LookRaw(r) \/ WriteRaw(r) \/ LookTask(r) \/ ReadAndRetain(r) \/ WriteTask(r)
                     \/ Render(r) => L
  BY DEF LookRaw, WriteRaw, LookTask, ReadAndRetain, WriteTask, Render
<1>7. ASSUME NEW r \in Runs, Announce(r) PROVE L
  BY <1>7, <1>2, <1>3 DEF Announce
<1>8. ASSUME NEW r \in Runs, Observe(r) PROVE L
  BY <1>8, <1>2, <1>3 DEF Observe
<1>9. ASSUME NEW r \in Runs, Intake(r) PROVE L
  BY <1>9, <1>2, <1>4 DEF Intake, Records, Reading
<1>10. ASSUME NEW r \in Runs, Classify(r) PROVE L
  <2> DEFINE a == ClassifyWithRules(mem[r].item)
  <2>1. pc[r] \in Judging /\ (a = NoAdvice \/ a.about = mem[r].item.content)
    BY <1>10, ByRules DEF Classify, Judging
  <2>2. log' = log \/ log' = Recorded(log, Event(r, "classified", "none", None, a))
    BY <1>10 DEF Classify, RecordsAdvice, Item
  <2> HIDE DEF a
  <2>3. Entry(r, Event(r, "classified", "none", None, a))
    BY <2>1, EventFields DEF Entry, Outcomes
  <2> QED BY <1>2, <2>2, <2>3
<1>11. ASSUME NEW r \in Runs, Evaluate(r) PROVE L
  <2> DEFINE a == EvaluateWithRules(mem[r].item, mem[r].class)
  <2>1. pc[r] \in Judging /\ (a = NoAdvice \/ a.about = mem[r].item.content)
    BY <1>11, ByRules DEF Evaluate, Judging
  <2>2. log' = log \/ log' = Recorded(log, Event(r, "assessed", "none", None, a))
    BY <1>11 DEF Evaluate, RecordsAdvice, Item
  <2> HIDE DEF a
  <2>3. Entry(r, Event(r, "assessed", "none", None, a))
    BY <2>1, EventFields DEF Entry, Outcomes
  <2> QED BY <1>2, <2>2, <2>3
<1>12. ASSUME NEW r \in Runs, ClassifyByHermes(r) \/ AssessByHermes(r) PROVE L
  <2>1. Asking(r) /\ pc[r] \in Judging /\ pc[r] \in Reading
    BY <1>12 DEF ClassifyByHermes, AssessByHermes, Asking, Judging, Reading
  <2>2. Reuses(r) \/ Refuses(r) \/ Advises(r)
    BY <1>12, <2>1, HermesEnds DEF ClassifyByHermes, AssessByHermes
  <2>3. Reuses(r) => L
    BY DEF Reuses
  <2>4. Refuses(r) => L
    BY <1>2, <1>4, <2>1 DEF Refuses
  <2>5. ASSUME Advises(r) PROVE L
    <3>1. PICK reply \in Replies[Op(r)] :
            /\ reply.sound
            /\ log' = Recorded(log, Event(r, "advised", Op(r), None, Advice(r, reply)))
      BY <2>5 DEF Advises
    <3>2. Advice(r, reply).about = mem[r].item.content /\ Advice(r, reply).says = reply.says
      BY DEF Advice
    <3>3. Op(r) = "assessment" => Level(Advice(r, reply))
      BY <3>1, <3>2, LevelAssumption DEF Level
    <3>4. Entry(r, Event(r, "advised", Op(r), None, Advice(r, reply)))
      BY <2>1, <3>2, <3>3, EventFields DEF Entry, Outcomes
    <3> QED BY <1>2, <3>1, <3>4
  <2> QED BY <2>2, <2>3, <2>4, <2>5
<1>13. ASSUME NEW r \in Runs, CheckRecipe(r) PROVE L
  BY <1>13, <1>2, <1>4 DEF CheckRecipe, Records, Reading, Judging
<1>14. ASSUME NEW r \in Runs, Finish(r) PROVE L
  <2>1. pc[r] \in Judging /\ pc[r] \in Reading
    BY <1>14 DEF Finish, Judging, Reading
  <2>2. FinalState(r) = "completed" => mem[r].assess.by = "rules"
    BY DEF FinalState, AutoComplete
  <2>3. FinalState(r) \in {"completed", "review_required"}
    BY DEF FinalState
  <2>4. Entry(r, Event(r, FinalState(r), "none", None, mem[r].assess))
    BY <2>1, <2>2, <2>3, EventFields DEF Entry
  <2> QED BY <1>2, <1>14, <2>4 DEF Finish, RecordsAdvice
<1>15. ASSUME NEW r \in Runs, Duplicate(r) \/ Conflict(r) \/ InputGone(r) \/ Crash(r) PROVE L
  BY <1>15, <1>2, <1>3 DEF Duplicate, Conflict, InputGone, Crash, Records
<1>16. ASSUME NEW r \in Runs, Fail(r) PROVE L
  <2>1. Failure(pc[r]) \in {"storage_failed", "classification_failed", "evaluation_failed",
                            "render_failed"}
    BY <1>16 DEF Fail, Failure
  <2> QED BY <1>16, <1>2, <1>3, <2>1 DEF Fail, Records
<1>17. ASSUME NEW r \in Runs, Unreadable(r) PROVE L
  <2> DEFINE e == [Event(r, "normalize_failed", "none", Item(r).raw, NoAdvice)
                     EXCEPT !.digest = None]
  <2>1. /\ e.kind = "normalize_failed" /\ e.of = mem[r].item.content /\ e.says = NoAdvice
    BY DEF Event, Item
  <2>2. log' = Recorded(log, e)
    BY <1>17 DEF Unreadable
  <2> HIDE DEF e
  <2>3. Entry(r, e)
    BY <2>1 DEF Entry, Outcomes
  <2> QED BY <2>2, <2>3
<1> QED
  BY <1>1, <1>5, <1>6, <1>7, <1>8, <1>9, <1>10, <1>11, <1>12, <1>13, <1>14, <1>15, <1>16, <1>17,
     ByAction DEF Ends

-----------------------------------------------------------------------------
(***************************************************************************)
(* A complete item is vouched for, and only such an item is judged.        *)
(***************************************************************************)
Types == TypeOK /\ There

Vouched ==
  /\ task.whole => task.content \in vouched
  /\ \A r \in Runs : /\ mem[r].item.whole => mem[r].item.content \in vouched
                     /\ mem[r].write.whole => mem[r].write.content \in vouched
                     /\ pc[r] \in Judging => mem[r].item.content \in vouched

VouchedInv == Types /\ Vouched /\ PartialIsNeverJudged

LEMMA VouchedStep ==
  ASSUME PipelineAssumption, Types, Vouched, Next
  PROVE  Vouched' /\ vouched \subseteq vouched'
<1> DEFINE V == /\ vouched \subseteq vouched'
                /\ task'.whole => task'.content \in vouched'
                /\ \A r \in Runs : /\ mem'[r].item.whole => mem'[r].item.content \in vouched'
                                   /\ mem'[r].write.whole => mem'[r].write.content \in vouched'
                                   /\ pc'[r] \in Judging => mem'[r].item.content \in vouched'
<1>1. TypeOK /\ There
  BY DEF Types
<1>2. \A r \in Runs : mem[r].item \in Task /\ mem[r].write \in Task
  BY <1>1 DEF TypeOK, IsMem, IsWork
<1>3. task \in Task /\ ~NoTask.whole
  BY <1>1 DEF TypeOK, NoTask
<1> USE DEF Vouched, Judging, Becomes, Moves
<1>4. ChangePolicy => V
  BY DEF ChangePolicy, history, store
<1>5. ASSUME NEW r \in Runs, NEW c \in Captures, Discover(r, c) PROVE V
  <2>1. Discovers(r, c)
    BY <1>1, <1>5, Effects
  <2>2. /\ task' = task
        /\ vouched' = IF AsTask(c).whole THEN vouched \cup {c.content} ELSE vouched
    BY <1>5 DEF Discover, store
  <2>3. AsTask(c).content = c.content
    BY AsTaskFacts
  <2>4. \A q \in Runs : /\ mem'[q].item = mem[q].item \/ mem'[q].item = AsTask(c)
                        /\ mem'[q].write = mem[q].write
                        /\ pc'[q] \in Judging => pc[q] \in Judging /\ mem'[q].item = mem[q].item
    BY <2>1 DEF Discovers
  <2>5. vouched \subseteq vouched' /\ (AsTask(c).whole => AsTask(c).content \in vouched')
    BY <2>2, <2>3
  <2>6. task' = task
    BY <2>2
  <2>7. ASSUME NEW q \in Runs
        PROVE  /\ mem'[q].item.whole => mem'[q].item.content \in vouched'
               /\ mem'[q].write.whole => mem'[q].write.content \in vouched'
               /\ pc'[q] \in Judging => mem'[q].item.content \in vouched'
    <3>1. /\ mem[q].item.whole => mem[q].item.content \in vouched'
          /\ mem[q].write.whole => mem[q].write.content \in vouched'
          /\ pc[q] \in Judging => mem[q].item.content \in vouched'
      BY <2>5
    <3>2. mem'[q].write.whole => mem'[q].write.content \in vouched'
      BY <2>4, <3>1
    <3>3. mem'[q].item.whole => mem'[q].item.content \in vouched'
      BY <2>4, <2>5, <3>1
    <3>4. pc'[q] \in Judging => mem'[q].item.content \in vouched'
      BY <2>4, <3>1
    <3> QED BY <3>2, <3>3, <3>4
  <2> QED BY <2>5, <2>6, <2>7
<1>6. ASSUME NEW r \in Runs, LookRaw(r) \/ WriteRaw(r) PROVE V
  BY <1>1, <1>6, Effects DEF LookRaw, WriteRaw, store, history
<1>7. ASSUME NEW r \in Runs, LookTask(r) PROVE V
  <2>1. LooksAtTask(r) /\ UNCHANGED <<task, vouched>>
    BY <1>1, <1>7, Effects DEF LookTask, store, history
  <2> QED BY <2>1 DEF LooksAtTask
<1>8. ASSUME NEW r \in Runs, ReadAndRetain(r) PROVE V
  <2>1. Reads(r) /\ UNCHANGED <<task, vouched>>
    BY <1>1, <1>8, Effects DEF ReadAndRetain, history
  <2> QED BY <1>2, <1>3, <2>1, StoredFacts DEF Reads
<1>9. ASSUME NEW r \in Runs, WriteTask(r) PROVE V
  <2>1. /\ Moves(r, "revised") \/ Moves(r, "observe")
        /\ vouched' = vouched /\ task' = mem[r].write
    BY <1>1, <1>9, Effects DEF WriteTask
  <2> QED BY <2>1
<1>10. ASSUME NEW r \in Runs, Announce(r) \/ Observe(r) PROVE V
  <2>1. /\ ReadsBack(r, "put2") \/ ReadsBack(r, "intake")
        /\ UNCHANGED <<task, vouched>>
    BY <1>1, <1>10, Effects DEF Announce, Observe, store, history
  <2> QED BY <2>1 DEF ReadsBack
<1>11. ASSUME NEW r \in Runs, Intake(r) PROVE V
  <2>1. /\ (mem[r].item.whole /\ Moves(r, "classify")) \/ Leaves(r)
        /\ UNCHANGED <<task, vouched>>
    BY <1>1, <1>11, Effects DEF Intake, store, history
  <2> QED BY <1>3, <2>1 DEF Leaves
<1>12. ASSUME NEW r \in Runs, Classify(r) \/ Evaluate(r) PROVE V
  <2>1. /\ Classifies(r) \/ Evaluates(r)
        /\ pc[r] \in Judging /\ UNCHANGED <<task, vouched>>
    BY <1>1, <1>12, Effects DEF Classify, Evaluate, store, history
  <2> QED BY <2>1 DEF Classifies, Evaluates, AfterClass
<1>13. ASSUME NEW r \in Runs, ClassifyByHermes(r) \/ AssessByHermes(r) PROVE V
  <2>1. Asking(r) /\ pc[r] \in Judging
    BY <1>13 DEF ClassifyByHermes, AssessByHermes, Asking
  <2>2. /\ Leaves(r) \/ (\E a : Takes(r, a))
        /\ UNCHANGED <<task, vouched>>
    BY <1>1, <1>13, <2>1, HermesEnds DEF ClassifyByHermes, AssessByHermes, Reuses, Refuses, Advises,
       store, history
  <2> QED BY <1>3, <2>1, <2>2 DEF Leaves, Takes, AfterClass
<1>14. ASSUME NEW r \in Runs, CheckRecipe(r) \/ Render(r) PROVE V
  <2>1. /\ Leaves(r) \/ Moves(r, "route") \/ Moves(r, "final")
        /\ pc[r] \in Judging /\ UNCHANGED <<task, vouched>>
    BY <1>1, <1>14, Effects DEF CheckRecipe, Render, store, history
  <2> QED BY <1>3, <2>1 DEF Leaves
<1>15. ASSUME NEW r \in Runs, Ends(r) PROVE V
  <2>1. UNCHANGED <<task, vouched>>
    BY <1>15
    DEF Ends, Duplicate, Conflict, Finish, InputGone, Fail, Unreadable, Crash, store, history
  <2>2. Leaves(r)
    BY <1>1, <1>15, Effects DEF Ends
  <2> QED BY <1>3, <2>1, <2>2 DEF Leaves
<1>16. V
  BY <1>4, <1>5, <1>6, <1>7, <1>8, <1>9, <1>10, <1>11, <1>12, <1>13, <1>14, <1>15, ByAction
<1> QED BY <1>16

LEMMA PartialStep ==
  ASSUME PipelineAssumption, LevelAssumption, VouchedInv, Next
  PROVE  PartialIsNeverJudged'
<1>1. TypeOK /\ Vouched /\ PartialIsNeverJudged /\ vouched \subseteq vouched'
  BY VouchedStep DEF VouchedInv, Types
<1>2. CASE log' = log
  BY <1>1, <1>2 DEF PartialIsNeverJudged
<1>3. ASSUME NEW r \in Runs, NEW e, log' = Recorded(log, e), Entry(r, e)
      PROVE  PartialIsNeverJudged'
  <2>1. e.kind \in {"classified", "advised", "assessed", "completed", "review_required"}
          => e.of \in vouched
    BY <1>1, <1>3 DEF Entry, Vouched
  <2>2. \A n \in DOMAIN log' : log'[n] = e \/ \E k \in DOMAIN log : log'[n] = log[k]
    BY <1>1, <1>3, RecordedFacts DEF TypeOK
  <2> QED BY <1>1, <2>1, <2>2 DEF PartialIsNeverJudged
<1> QED BY <1>1, <1>2, <1>3, Entries

-----------------------------------------------------------------------------
(***************************************************************************)
(* One run at a time: what it holds against what is stored.                *)
(***************************************************************************)
Alone == ~overlap => \A p, q \in Runs : pc[p] # "idle" /\ pc[q] # "idle" => p = q

InHand ==
  ~overlap => \A r \in Runs :
    /\ pc[r] \in {"write", "write2"} => mem[r].write = Stored(task, mem[r].item)
    /\ pc[r] \in Reading => mem[r].item = task

Named ==
  ~overlap =>
    /\ task = NoTask => named = {}
    /\ \A a \in named : a[1] <= task.rev /\ (a[1] = task.rev => a[2] = task.content)

RevisionInv == Types /\ Alone /\ InHand /\ Named /\ RevisionNamesOneContent

\* A step other than a first one belongs to the only run that is under way.
LEMMA AloneStep ==
  ASSUME PipelineAssumption, Types, Alone, Next
  PROVE  Alone'
<1> DEFINE A == ~overlap' => \A p, q \in Runs : pc'[p] # "idle" /\ pc'[q] # "idle" => p = q
<1>1. TypeOK
  BY DEF Types
<1>2. ChangePolicy => A
  BY DEF ChangePolicy, history, Alone
<1>3. ASSUME NEW r \in Runs, NEW c \in Captures, Discover(r, c) PROVE A
  <2>1. /\ \A q \in Runs \ {r} : pc'[q] = pc[q]
        /\ pc[r] = "idle" /\ overlap' = (overlap \/ \E q \in Runs : pc[q] # "idle")
    BY <1>1, <1>3, Effects DEF Discover, Discovers, Becomes
  <2> QED BY <2>1
<1>4. ASSUME NEW r \in Runs, pc[r] # "idle" \/ pc'[r] = "idle", overlap' = overlap,
             \A q \in Runs \ {r} : pc'[q] = pc[q]
      PROVE  A
  BY <1>4 DEF Alone
<1>5. ASSUME NEW r \in Runs, LookRaw(r) \/ WriteRaw(r) PROVE A
  BY <1>1, <1>4, <1>5, Effects DEF LookRaw, WriteRaw, history, Moves, Becomes
<1>6. ASSUME NEW r \in Runs, LookTask(r) PROVE A
  <2>1. LooksAtTask(r) /\ pc[r] = "look" /\ overlap' = overlap
    BY <1>1, <1>6, Effects DEF LookTask, history
  <2>2. \A q \in Runs \ {r} : pc'[q] = pc[q]
    BY <2>1 DEF LooksAtTask, Becomes
  <2> QED BY <1>4, <2>1, <2>2
<1>7. ASSUME NEW r \in Runs, ReadAndRetain(r) PROVE A
  BY <1>1, <1>4, <1>7, Effects DEF ReadAndRetain, history, Reads, Moves, Becomes
<1>8. ASSUME NEW r \in Runs, WriteTask(r) PROVE A
  BY <1>1, <1>4, <1>8, Effects DEF WriteTask, Moves, Becomes
<1>9. ASSUME NEW r \in Runs, Announce(r) PROVE A
  BY <1>1, <1>4, <1>9, Effects DEF Announce, history, ReadsBack, Becomes
<1>10. ASSUME NEW r \in Runs, Observe(r) PROVE A
  BY <1>1, <1>4, <1>10, Effects DEF Observe, history, ReadsBack, Becomes
<1>11. ASSUME NEW r \in Runs, Intake(r) PROVE A
  BY <1>1, <1>4, <1>11, Effects DEF Intake, history, Moves, Leaves, Becomes
<1>12. ASSUME NEW r \in Runs, Classify(r) PROVE A
  BY <1>1, <1>4, <1>12, Effects DEF Classify, history, Classifies, Becomes
<1>13. ASSUME NEW r \in Runs, Evaluate(r) PROVE A
  BY <1>1, <1>4, <1>13, Effects DEF Evaluate, history, Evaluates, Becomes
<1>14. ASSUME NEW r \in Runs, ClassifyByHermes(r) \/ AssessByHermes(r) PROVE A
  <2>1. Asking(r)
    BY <1>14 DEF ClassifyByHermes, AssessByHermes, Asking
  <2>2. Leaves(r) \/ (\E a : Takes(r, a))
    BY <1>1, <1>14, <2>1, HermesEnds
    DEF ClassifyByHermes, AssessByHermes, Reuses, Refuses, Advises
  <2>3. overlap' = overlap
    BY <1>1, <1>14, <2>1, HermesEnds DEF ClassifyByHermes, AssessByHermes, history
  <2> QED BY <1>4, <2>1, <2>2, <2>3 DEF Asking, Leaves, Takes, Becomes
<1>15. ASSUME NEW r \in Runs, CheckRecipe(r) PROVE A
  BY <1>1, <1>4, <1>15, Effects DEF CheckRecipe, history, Moves, Leaves, Becomes
<1>16. ASSUME NEW r \in Runs, Render(r) PROVE A
  BY <1>1, <1>4, <1>16, Effects DEF Render, history, Moves, Becomes
<1>17. ASSUME NEW r \in Runs, Ends(r) PROVE A
  <2>1. Leaves(r)
    BY <1>1, <1>17, Effects DEF Ends
  <2>2. overlap' = overlap
    BY <1>17 DEF Ends, Duplicate, Conflict, Finish, InputGone, Fail, Unreadable, Crash, history
  <2> QED BY <1>4, <2>1, <2>2 DEF Leaves, Becomes
<1>18. A
  BY <1>2, <1>3, <1>5, <1>6, <1>7, <1>8, <1>9, <1>10, <1>11, <1>12, <1>13, <1>14, <1>15, <1>16,
     <1>17, ByAction
<1> QED BY <1>18 DEF Alone

\* Only these actions change the stored task and the history.
LEMMA Keeps ==
  ASSUME NEW r \in Runs
  PROVE  /\ \/ LookRaw(r) \/ WriteRaw(r) \/ LookTask(r) \/ ReadAndRetain(r) \/ Announce(r)
            \/ Observe(r) \/ Intake(r) \/ Classify(r) \/ Evaluate(r) \/ CheckRecipe(r)
            \/ Render(r)
            => UNCHANGED <<contract, task, faults, overlap, vouched, named>>
         /\ Asking(r) /\ (Reuses(r) \/ Refuses(r) \/ Advises(r))
              /\ UNCHANGED <<contract, store, policy, package, counts, history>>
            => UNCHANGED <<contract, task, package, faults, overlap, vouched, named>>
         /\ Ends(r) => UNCHANGED <<contract, task, package, overlap, vouched, named>>
<1>1. LookRaw(r) \/ WriteRaw(r) \/ LookTask(r) \/ ReadAndRetain(r) \/ Announce(r) \/ Observe(r)
        => UNCHANGED <<contract, task, faults, overlap, vouched, named>>
  BY DEF LookRaw, WriteRaw, LookTask, ReadAndRetain, Announce, Observe, store, counts, history
<1>2. Intake(r) \/ Classify(r) \/ Evaluate(r) \/ CheckRecipe(r) \/ Render(r)
        => UNCHANGED <<contract, task, faults, overlap, vouched, named>>
  BY DEF Intake, Classify, Evaluate, CheckRecipe, Render, store, counts, history
<1>3. UNCHANGED <<contract, store, policy, package, counts, history>>
        => UNCHANGED <<contract, task, package, faults, overlap, vouched, named>>
  BY DEF store, counts, history
<1>4. Ends(r) => UNCHANGED <<contract, task, package, overlap, vouched, named>>
  BY DEF Ends, Duplicate, Conflict, Finish, InputGone, Fail, Unreadable, Crash, store, history
<1> QED BY <1>1, <1>2, <1>3, <1>4

\* How a run that asks Hermes goes on, whichever way.
LEMMA AskedOn ==
  ASSUME TypeOK, NEW r \in Runs, ClassifyByHermes(r) \/ AssessByHermes(r)
  PROVE  /\ Asking(r) /\ (Reuses(r) \/ Refuses(r) \/ Advises(r))
         /\ Leaves(r) \/ \E a : Takes(r, a)
         /\ UNCHANGED <<contract, task, package, faults, overlap, vouched, named>>
<1>1. Asking(r) /\ Hermes(r)
  BY DEF ClassifyByHermes, AssessByHermes, Asking
<1>2. /\ Reuses(r) \/ Refuses(r) \/ Advises(r)
      /\ UNCHANGED <<contract, store, policy, package, counts, history>>
  BY <1>1, HermesEnds
<1>3. Leaves(r) \/ \E a : Takes(r, a)
  BY <1>2 DEF Reuses, Refuses, Advises
<1> QED BY <1>1, <1>2, <1>3, Keeps

LEMMA InHandStep ==
  ASSUME PipelineAssumption, Types, Alone, InHand, Next
  PROVE  InHand'
<1> DEFINE I == ~overlap' => \A r \in Runs :
                  /\ pc'[r] \in {"write", "write2"} => mem'[r].write = Stored(task', mem'[r].item)
                  /\ pc'[r] \in Reading => mem'[r].item = task'
<1>1. TypeOK
  BY DEF Types
<1> USE DEF Becomes, Moves, InHand, Reading, Judging
<1>2. ChangePolicy => I
  BY DEF ChangePolicy, history, store
<1>3. ASSUME NEW r \in Runs, NEW c \in Captures, Discover(r, c) PROVE I
  <2>1. Discovers(r, c)
    BY <1>1, <1>3, Effects
  <2>2. task' = task /\ (~overlap' => ~overlap)
    BY <1>3 DEF Discover, store
  <2> QED BY <2>1, <2>2 DEF Discovers
<1>4. ASSUME NEW r \in Runs, LookRaw(r) \/ WriteRaw(r) PROVE I
  BY <1>1, <1>4, Effects, Keeps
<1>5. ASSUME NEW r \in Runs, LookTask(r) PROVE I
  BY <1>1, <1>5, Effects, Keeps DEF LooksAtTask
<1>6. ASSUME NEW r \in Runs, ReadAndRetain(r) PROVE I
  BY <1>1, <1>6, Effects, Keeps DEF Reads
<1>7. ASSUME NEW r \in Runs, WriteTask(r) PROVE I
  <2>1. /\ pc[r] \in {"write", "write2"} /\ overlap' = overlap
        /\ Moves(r, "revised") \/ Moves(r, "observe")
    BY <1>1, <1>7, Effects DEF WriteTask
  <2>2. ~overlap => \A q \in Runs \ {r} : pc[q] = "idle"
    BY <2>1 DEF Alone
  <2>3. ~overlap => \A q \in Runs \ {r} : pc'[q] = "idle"
    BY <2>1, <2>2
  <2> QED BY <2>1, <2>3
<1>8. ASSUME NEW r \in Runs, Announce(r) \/ Observe(r) PROVE I
  <2>1. ReadsBack(r, "put2") \/ ReadsBack(r, "intake")
    BY <1>1, <1>8, Effects
  <2> QED BY <1>8, <2>1, Keeps DEF ReadsBack
<1>9. ASSUME NEW r \in Runs, Intake(r) PROVE I
  <2>1. pc[r] = "intake" /\ (Leaves(r) \/ Moves(r, "classify"))
    BY <1>1, <1>9, Effects DEF Intake
  <2> QED BY <1>9, <2>1, Keeps DEF Leaves
<1>10. ASSUME NEW r \in Runs, Classify(r) \/ Evaluate(r) PROVE I
  <2>1. pc[r] \in Reading /\ (Classifies(r) \/ Evaluates(r))
    BY <1>1, <1>10, Effects DEF Classify, Evaluate
  <2> QED BY <1>10, <2>1, Keeps DEF Classifies, Evaluates, AfterClass
<1>11. ASSUME NEW r \in Runs, ClassifyByHermes(r) \/ AssessByHermes(r) PROVE I
  BY <1>1, <1>11, AskedOn DEF Leaves, Takes, AfterClass
<1>12. ASSUME NEW r \in Runs, CheckRecipe(r) \/ Render(r) PROVE I
  <2>1. pc[r] \in Reading /\ (Leaves(r) \/ Moves(r, "route") \/ Moves(r, "final"))
    BY <1>1, <1>12, Effects DEF CheckRecipe, Render
  <2> QED BY <1>12, <2>1, Keeps DEF Leaves
<1>13. ASSUME NEW r \in Runs, Ends(r) PROVE I
  <2>1. Leaves(r)
    BY <1>1, <1>13, Effects DEF Ends
  <2> QED BY <1>13, <2>1, Keeps DEF Leaves
<1>14. I
  BY <1>2, <1>3, <1>4, <1>5, <1>6, <1>7, <1>8, <1>9, <1>10, <1>11, <1>12, <1>13, ByAction
<1> QED BY <1>14

\* Every task that is stored has a revision of its own, or that of the same content.
LEMMA NamedStep ==
  ASSUME PipelineAssumption, Types, InHand, Named, RevisionNamesOneContent, Next
  PROVE  Named' /\ RevisionNamesOneContent'
<1>1. CASE UNCHANGED <<task, named>> /\ (~overlap' => ~overlap)
  BY <1>1 DEF Named, RevisionNamesOneContent
<1>2. ASSUME NEW r \in Runs, WriteTask(r), ~overlap'
      PROVE  /\ task' # NoTask
             /\ \A a \in named' : a[1] <= task'.rev /\ (a[1] = task'.rev => a[2] = task'.content)
             /\ \A a, b \in named' : a[1] = b[1] => a[2] = b[2]
  <2> DEFINE item == mem[r].item
  <2>1. /\ task' = Stored(task, item) /\ ~overlap
        /\ named' = named \cup {<<task'.rev, task'.content>>}
    BY <1>2 DEF WriteTask, InHand
  <2>2. /\ task \in Task /\ item \in Task /\ item.content \in Contents
        /\ named \subseteq Nat \X Contents
    BY <1>2 DEF Types, TypeOK, There, IsMem, IsWork, WriteTask
  <2>3. task' \in Task /\ task'.content \in Contents
    BY <2>1, <2>2, StoredFacts
  <2>4. \A a \in named : /\ a[1] \in Nat /\ a[1] <= task.rev
                         /\ a[1] = task.rev => a[2] = task.content
                         /\ task # NoTask
    BY <2>1, <2>2 DEF Named
  <2>5. /\ \A a, b \in named : a[1] = b[1] => a[2] = b[2]
    BY <2>1 DEF RevisionNamesOneContent
  <2>6. /\ task # NoTask /\ task.content = item.content =>
             task'.rev = task.rev /\ task'.content = task.content
        /\ task # NoTask /\ task.content # item.content => task'.rev > task.rev
    BY <2>1, <2>2, StoredFacts
  <2>7. task'.rev \in Nat /\ task.rev \in Nat
    BY <2>2, <2>3 DEF Task
  <2>8. \A a \in named : a[1] <= task'.rev /\ (a[1] = task'.rev => a[2] = task'.content)
    BY <2>4, <2>6, <2>7
  <2>9. \A a \in named' : a[1] <= task'.rev /\ (a[1] = task'.rev => a[2] = task'.content)
    BY <2>1, <2>7, <2>8
  <2>10. \A a, b \in named' : a[1] = b[1] => a[2] = b[2]
    BY <2>1, <2>5, <2>8, <2>9
  <2>11. task' # NoTask
    BY <2>3 DEF NoTask, PipelineAssumption
  <2> QED BY <2>9, <2>10, <2>11
<1>3. ASSUME NEW r \in Runs, WriteTask(r) PROVE Named' /\ RevisionNamesOneContent'
  BY <1>2, <1>3 DEF Named, RevisionNamesOneContent
<1>4. ASSUME NEW r \in Runs
      PROVE  ClassifyByHermes(r) \/ AssessByHermes(r) => Named' /\ RevisionNamesOneContent'
  BY <1>1, AskedOn DEF Types
<1>5. \A r \in Runs, c \in Captures : Discover(r, c) => Named' /\ RevisionNamesOneContent'
  BY <1>1 DEF Discover, store
<1>6. ChangePolicy => Named' /\ RevisionNamesOneContent'
  BY <1>1 DEF ChangePolicy, store, history
<1> DEFINE P == Named' /\ RevisionNamesOneContent'
<1>7. ASSUME NEW r \in Runs,
             \/ LookRaw(r) \/ WriteRaw(r) \/ LookTask(r) \/ ReadAndRetain(r) \/ Announce(r)
             \/ Observe(r) \/ Intake(r) \/ Classify(r) \/ Evaluate(r) \/ CheckRecipe(r)
             \/ Render(r) \/ Ends(r)
      PROVE  P
  BY <1>1, <1>7, Keeps
<1> HIDE DEF P
<1>8. P
  BY <1>3, <1>4, <1>5, <1>6, <1>7, ByAction DEF P
<1> QED BY <1>8 DEF P

-----------------------------------------------------------------------------
(***************************************************************************)
(* Verdicts: what they are about, and who may give which.                  *)
(***************************************************************************)
Judged == Judging \ {"classify", "askclass"}

Fresh ==
  \A r \in Runs : pc[r] \notin Judging => mem[r].class = NoAdvice /\ mem[r].assess = NoAdvice

Bound ==
  ~overlap =>
    /\ \A r \in Runs : pc[r] \in Judging =>
         /\ mem[r].assess.about \in {None, mem[r].item.content}
         /\ pc[r] \in Judged => mem[r].class.about = mem[r].item.content
    /\ \A n \in DOMAIN log : log[n].kind = "advised" => log[n].says.about = About(log[n])

Levelled ==
  /\ \A r \in Runs : Level(mem[r].assess)
  /\ \A n \in DOMAIN log :
       log[n].kind = "advised" /\ log[n].op = "assessment" => Level(log[n].says)

VerdictInv ==
  Types /\ Alone /\ InHand /\ Fresh /\ Bound /\ Levelled /\ VerdictsAreBound /\ ModelNeverActs

LEMMA NoAdviceFacts == NoAdvice.about = None /\ Level(NoAdvice)
BY DEF NoAdvice, Level

\* What asking Hermes may leave a run with.
LEMMA AskedFor ==
  ASSUME PipelineAssumption, LevelAssumption, TypeOK, Levelled, Bound, NEW r \in Runs,
         ClassifyByHermes(r) \/ AssessByHermes(r)
  PROVE  \/ Leaves(r)
         \/ \E a : /\ Takes(r, a)
                   /\ ~overlap => a.about = mem[r].item.content
                   /\ pc[r] = "askassess" => Level(a)
<1>1. Asking(r) /\ (Reuses(r) \/ Refuses(r) \/ Advises(r))
  BY AskedOn
<1>2. pc[r] = "askassess" => Op(r) = "assessment"
  BY DEF Op
<1>3. CASE Reuses(r)
  <2>1. PICK n \in DOMAIN log :
          /\ log[n].op = Op(r) /\ About(log[n]) = mem[r].item.content
          /\ IF log[n].kind = "advised" THEN Takes(r, log[n].says) ELSE Leaves(r)
    BY <1>3 DEF Reuses
  <2>2. log[n].kind = "advised" =>
          /\ ~overlap => log[n].says.about = mem[r].item.content
          /\ pc[r] = "askassess" => Level(log[n].says)
    BY <1>2, <2>1 DEF Levelled, Bound
  <2> QED BY <2>1, <2>2
<1>4. CASE Advises(r)
  <2>1. PICK reply \in Replies[Op(r)] : reply.sound /\ Takes(r, Advice(r, reply))
    BY <1>4 DEF Advises
  <2>2. Advice(r, reply).about = mem[r].item.content /\ Advice(r, reply).says = reply.says
    BY DEF Advice
  <2>3. pc[r] = "askassess" => Level(Advice(r, reply))
    BY <1>2, <2>1, <2>2, LevelAssumption DEF Level
  <2> QED BY <2>1, <2>2, <2>3
<1> QED BY <1>1, <1>3, <1>4 DEF Refuses

LEMMA VerdictsInHand ==
  ASSUME PipelineAssumption, LevelAssumption, Types, Fresh, Bound, Levelled, Next
  PROVE  /\ \A r \in Runs :
              pc'[r] \notin Judging => mem'[r].class = NoAdvice /\ mem'[r].assess = NoAdvice
         /\ \A r \in Runs : Level(mem'[r].assess)
         /\ ~overlap' => \A r \in Runs : pc'[r] \in Judging =>
              /\ mem'[r].assess.about \in {None, mem'[r].item.content}
              /\ pc'[r] \in Judged => mem'[r].class.about = mem'[r].item.content
<1> DEFINE One(r) ==
             /\ pc'[r] \notin Judging => mem'[r].class = NoAdvice /\ mem'[r].assess = NoAdvice
             /\ Level(mem'[r].assess)
             /\ ~overlap' /\ pc'[r] \in Judging =>
                  /\ mem'[r].assess.about \in {None, mem'[r].item.content}
                  /\ pc'[r] \in Judged => mem'[r].class.about = mem'[r].item.content
           V == \A r \in Runs : One(r)
<1>1. TypeOK /\ Level(NoAdvice) /\ NoAdvice.about = None
  BY NoAdviceFacts DEF Types
<1>2. ASSUME NEW r \in Runs, ~overlap' => ~overlap,
             pc'[r] = pc[r] /\ mem'[r] = mem[r]
      PROVE  One(r)
  BY <1>2 DEF Fresh, Bound, Levelled
<1>3. ASSUME NEW r \in Runs, ~overlap' => ~overlap, One(r),
             \A q \in Runs \ {r} : pc'[q] = pc[q] /\ mem'[q] = mem[q]
      PROVE  V
  BY <1>2, <1>3
<1>4. ASSUME NEW r \in Runs, overlap' = overlap, Leaves(r) PROVE V
  <2>1. One(r)
    BY <1>1, <1>4 DEF Leaves, Becomes, Judging
  <2> QED BY <1>3, <1>4, <2>1 DEF Leaves, Becomes
<1>5. ASSUME NEW r \in Runs, overlap' = overlap, NEW p, Moves(r, p),
             \/ pc[r] \notin Judging /\ p \notin Judged
             \/ pc[r] \in Judged /\ p \in Judged
      PROVE  V
  <2>1. One(r)
    BY <1>1, <1>5 DEF Moves, Becomes, Judging, Judged, Fresh, Bound, Levelled
  <2> QED BY <1>3, <1>5, <2>1 DEF Moves, Becomes
<1>6. ASSUME NEW r \in Runs, ~overlap' => ~overlap, NEW p, NEW item, NEW was, NEW write,
             pc[r] \notin Judging, p \notin Judging,
             Becomes(r, p, item, was, write, mem[r].class, mem[r].assess)
      PROVE  V
  <2>1. One(r)
    BY <1>1, <1>6 DEF Becomes, Fresh
  <2> QED BY <1>3, <1>6, <2>1 DEF Becomes
<1>7. ASSUME NEW r \in Runs, overlap' = overlap, pc[r] \in {"classify", "askclass"}, NEW p, NEW a,
             p \in {"askclass", AfterClass(r)},
             p # "askclass" /\ ~overlap => a.about = mem[r].item.content,
             Becomes(r, p, mem[r].item, mem[r].was, mem[r].write, a, mem[r].assess)
      PROVE  V
  <2>1. One(r)
    BY <1>1, <1>7 DEF Becomes, Judging, Judged, AfterClass, Bound, Levelled
  <2> QED BY <1>3, <1>7, <2>1 DEF Becomes
<1>8. ASSUME NEW r \in Runs, overlap' = overlap, pc[r] \in {"evaluate", "askassess"}, NEW a,
             NEW p \in {"askassess", "check"}, Level(a),
             ~overlap => a.about \in {None, mem[r].item.content},
             Becomes(r, p, mem[r].item, mem[r].was, mem[r].write, mem[r].class, a)
      PROVE  V
  <2>1. One(r)
    BY <1>1, <1>8 DEF Becomes, Judging, Judged, Bound
  <2> QED BY <1>3, <1>8, <2>1 DEF Becomes
<1>10. ChangePolicy => V
  BY <1>2 DEF ChangePolicy, history
<1> HIDE DEF V, One
<1>11. ASSUME NEW r \in Runs, NEW c \in Captures, Discover(r, c) PROVE V
  <2>1. Discovers(r, c) /\ pc[r] = "idle" /\ (~overlap' => ~overlap)
    BY <1>1, <1>11, Effects DEF Discover
  <2>2. "raw" \notin Judging /\ "idle" \notin Judging
    BY DEF Judging
  <2>3. Becomes(r, "raw", AsTask(c), mem[r].was, mem[r].write, mem[r].class, mem[r].assess)
    BY <2>1 DEF Discovers
  <2> QED BY <1>6, <2>1, <2>2, <2>3
<1>12. ASSUME NEW r \in Runs, LookRaw(r) \/ WriteRaw(r) PROVE V
  <2>1. /\ pc[r] \in {"raw", "rawwrite"} /\ overlap' = overlap
        /\ Moves(r, "rawwrite") \/ Moves(r, "look")
    BY <1>1, <1>12, Effects, Keeps DEF LookRaw, WriteRaw
  <2> QED BY <1>5, <2>1 DEF Judging, Judged
<1>13. ASSUME NEW r \in Runs, LookTask(r) PROVE V
  <2>1. LooksAtTask(r) /\ pc[r] = "look" /\ overlap' = overlap
    BY <1>1, <1>13, Effects, Keeps DEF LookTask
  <2> QED BY <1>6, <2>1 DEF LooksAtTask, Judging
<1>14. ASSUME NEW r \in Runs, ReadAndRetain(r) PROVE V
  <2>1. Reads(r) /\ pc[r] \in {"put", "put2"} /\ overlap' = overlap
    BY <1>1, <1>14, Effects, Keeps DEF ReadAndRetain
  <2> QED BY <1>5, <1>6, <2>1 DEF Reads, Judging, Judged
<1>15. ASSUME NEW r \in Runs, WriteTask(r) PROVE V
  <2>1. /\ pc[r] \in {"write", "write2"} /\ overlap' = overlap
        /\ Moves(r, "revised") \/ Moves(r, "observe")
    BY <1>1, <1>15, Effects DEF WriteTask
  <2> QED BY <1>5, <2>1 DEF Judging, Judged
<1>16. ASSUME NEW r \in Runs, Announce(r) \/ Observe(r) PROVE V
  <2>1. /\ ReadsBack(r, "put2") \/ ReadsBack(r, "intake")
        /\ pc[r] \in {"revised", "observe"} /\ overlap' = overlap
    BY <1>1, <1>16, Effects, Keeps DEF Announce, Observe
  <2>2. {"put2", "intake", "revised", "observe"} \cap Judging = {}
    BY DEF Judging
  <2>3. \E p \in {"put2", "intake"} :
          Becomes(r, p, task, mem[r].was, mem[r].write, mem[r].class, mem[r].assess)
    BY <2>1 DEF ReadsBack
  <2> QED BY <1>6, <2>1, <2>2, <2>3
<1>17. ASSUME NEW r \in Runs, Intake(r) PROVE V
  <2>1. /\ pc[r] = "intake" /\ overlap' = overlap
        /\ Leaves(r) \/ Moves(r, "classify")
    BY <1>1, <1>17, Effects, Keeps DEF Intake
  <2> QED BY <1>4, <1>5, <2>1 DEF Judging, Judged
<1>18. ASSUME NEW r \in Runs, Classify(r) PROVE V
  <2>1. Classifies(r) /\ pc[r] = "classify" /\ overlap' = overlap
    BY <1>1, <1>18, Effects, Keeps DEF Classify
  <2> DEFINE a == ClassifyWithRules(mem[r].item)
             p == IF a = NoAdvice THEN "askclass" ELSE AfterClass(r)
  <2>2. Becomes(r, p, mem[r].item, mem[r].was, mem[r].write, a, mem[r].assess)
    BY <2>1 DEF Classifies
  <2>3. p \in {"askclass", AfterClass(r)} /\ (p # "askclass" => a.about = mem[r].item.content)
    BY ByRules
  <2> HIDE DEF p, a
  <2>4. pc[r] \in {"classify", "askclass"} /\ overlap' = overlap
    BY <2>1
  <2>5. CASE p = AfterClass(r) /\ p # "askclass"
    <3>1. Becomes(r, AfterClass(r), mem[r].item, mem[r].was, mem[r].write, a, mem[r].assess)
      BY <2>2, <2>5
    <3>2. a.about = mem[r].item.content
      BY <2>3, <2>5
    <3> QED BY <1>7, <2>4, <3>1, <3>2
  <2>6. CASE p = "askclass"
    <3>1. Becomes(r, "askclass", mem[r].item, mem[r].was, mem[r].write, a, mem[r].assess)
      BY <2>2, <2>6
    <3> QED BY <1>7, <2>4, <3>1
  <2> QED BY <2>3, <2>5, <2>6
<1>19. ASSUME NEW r \in Runs, Evaluate(r) PROVE V
  <2> DEFINE a == EvaluateWithRules(mem[r].item, mem[r].class)
  <2>1. Evaluates(r) /\ pc[r] = "evaluate" /\ overlap' = overlap
    BY <1>1, <1>19, Effects, Keeps DEF Evaluate
  <2>2. Level(a) /\ a.about \in {None, mem[r].item.content}
    BY <1>1, ByRules DEF Level
  <2> QED BY <1>8, <2>1, <2>2 DEF Evaluates
<1>20. ASSUME NEW r \in Runs, ClassifyByHermes(r) \/ AssessByHermes(r) PROVE V
  <2>1. overlap' = overlap /\ Asking(r)
    BY <1>1, <1>20, AskedOn
  <2>2. CASE Leaves(r)
    BY <1>4, <2>1, <2>2
  <2>3. ASSUME NEW a,
               /\ Takes(r, a)
               /\ ~overlap => a.about = mem[r].item.content
               /\ pc[r] = "askassess" => Level(a)
        PROVE  V
    <3>1. CASE pc[r] = "askclass"
      <4>1. Becomes(r, AfterClass(r), mem[r].item, mem[r].was, mem[r].write, a, mem[r].assess)
        BY <2>3, <3>1 DEF Takes
      <4>2. pc[r] \in {"classify", "askclass"} /\ overlap' = overlap
        BY <2>1, <3>1
      <4> QED BY <1>7, <2>3, <4>1, <4>2
    <3>2. CASE pc[r] = "askassess"
      <4>1. Becomes(r, "check", mem[r].item, mem[r].was, mem[r].write, mem[r].class, a)
        BY <2>3, <3>2 DEF Takes
      <4>2. Level(a) /\ (~overlap => a.about \in {None, mem[r].item.content})
        BY <2>3, <3>2
      <4> QED BY <1>8, <2>1, <3>2, <4>1, <4>2
    <3> QED BY <2>1, <3>1, <3>2 DEF Asking
  <2>4. \/ Leaves(r)
        \/ \E a : /\ Takes(r, a)
                  /\ ~overlap => a.about = mem[r].item.content
                  /\ pc[r] = "askassess" => Level(a)
    BY <1>1, <1>20, AskedFor
  <2>5. CASE \E a : /\ Takes(r, a)
                    /\ ~overlap => a.about = mem[r].item.content
                    /\ pc[r] = "askassess" => Level(a)
    BY <2>3, <2>5
  <2> QED BY <2>2, <2>4, <2>5
<1>21. ASSUME NEW r \in Runs, CheckRecipe(r) \/ Render(r) PROVE V
  <2>1. /\ pc[r] \in {"check", "route"} /\ overlap' = overlap
        /\ Leaves(r) \/ Moves(r, "route") \/ Moves(r, "final")
    BY <1>1, <1>21, Effects, Keeps DEF CheckRecipe, Render
  <2> QED BY <1>4, <1>5, <2>1 DEF Judging, Judged
<1>22. ASSUME NEW r \in Runs, Ends(r) PROVE V
  <2>1. Leaves(r) /\ overlap' = overlap
    BY <1>1, <1>22, Effects, Keeps DEF Ends
  <2> QED BY <1>4, <2>1
<1>23. V
  BY <1>10, <1>11, <1>12, <1>13, <1>14, <1>15, <1>16, <1>17, <1>18, <1>19, <1>20, <1>21, <1>22,
     ByAction
<1> QED BY <1>23 DEF V, One

LEMMA Lasting ==
  ASSUME TypeOK, Next
  PROVE  /\ contract' = contract /\ (~overlap' => ~overlap)
         /\ package' = package \/ \E r \in Runs : Render(r)
<1> DEFINE P == /\ contract' = contract /\ (~overlap' => ~overlap)
                /\ package' = package \/ \E r \in Runs : Render(r)
<1>1. \A r \in Runs, c \in Captures : Discover(r, c) => P
  BY DEF Discover
<1>2. ChangePolicy => P
  BY DEF ChangePolicy, history
<1>3. ASSUME NEW r \in Runs,
             LookRaw(r) \/ WriteRaw(r) \/ LookTask(r) \/ ReadAndRetain(r) \/ WriteTask(r)
             \/ Announce(r) \/ Observe(r)
      PROVE  P
  BY <1>3 DEF LookRaw, WriteRaw, LookTask, ReadAndRetain, WriteTask, Announce, Observe, history
<1>4. ASSUME NEW r \in Runs,
             Intake(r) \/ Classify(r) \/ Evaluate(r) \/ CheckRecipe(r) \/ Render(r)
      PROVE  P
  BY <1>4 DEF Intake, Classify, Evaluate, CheckRecipe, Render, history
<1>5. ASSUME NEW r \in Runs, ClassifyByHermes(r) \/ AssessByHermes(r) PROVE P
  BY <1>5, AskedOn
<1>6. ASSUME NEW r \in Runs, Ends(r) PROVE P
  BY <1>6, Keeps
<1> HIDE DEF P
<1>7. P
  BY <1>1, <1>2, <1>3, <1>4, <1>5, <1>6, ByAction
<1> QED BY <1>7 DEF P

LEMMA VerdictsLogged ==
  ASSUME PipelineAssumption, LevelAssumption, VerdictInv, Next
  PROVE  /\ \A n \in DOMAIN log' :
              /\ ~overlap' =>
                   log'[n].says.about
                     \in {None, IF contract' = 2 THEN log'[n].digest ELSE log'[n].of}
              /\ ~overlap' /\ log'[n].kind = "advised" =>
                   log'[n].says.about = IF contract' = 2 THEN log'[n].digest ELSE log'[n].of
              /\ log'[n].kind = "advised" /\ log'[n].op = "assessment" => Level(log'[n].says)
              /\ log'[n].kind = "completed" => log'[n].says.by = "rules"
<1> DEFINE Good(e) ==
             /\ ~overlap' => e.says.about \in {None, IF contract' = 2 THEN e.digest ELSE e.of}
             /\ ~overlap' /\ e.kind = "advised" =>
                  e.says.about = IF contract' = 2 THEN e.digest ELSE e.of
             /\ e.kind = "advised" /\ e.op = "assessment" => Level(e.says)
             /\ e.kind = "completed" => e.says.by = "rules"
<1>1. TypeOK /\ contract' = contract /\ (~overlap' => ~overlap) /\ NoAdvice.about = None
  BY Lasting, NoAdviceFacts DEF VerdictInv, Types
<1>2. \A n \in DOMAIN log : Good(log[n])
  BY <1>1 DEF VerdictInv, Bound, Levelled, VerdictsAreBound, ModelNeverActs, About
<1>3. ASSUME NEW r \in Runs, NEW e, Entry(r, e) PROVE Good(e)
  <2>1. ~overlap /\ pc[r] \in Judging => mem[r].item = task
    BY DEF VerdictInv, InHand, Reading
  <2>2. ~overlap /\ pc[r] \in Judging => mem[r].assess.about \in {None, mem[r].item.content}
    BY DEF VerdictInv, Bound
  <2>3. e.says.about = None \/ (pc[r] \in Judging /\ e.kind # "normalize_failed")
    BY <1>1, <1>3 DEF Entry
  <2>4. ~overlap => e.says.about \in {None, mem[r].item.content}
    BY <1>1, <1>3, <2>2 DEF Entry
  <2>5. e.kind = "advised" => /\ e.says.about = mem[r].item.content /\ pc[r] \in Judging
                              /\ e.op = "assessment" => Level(e.says)
    BY <1>3 DEF Entry
  <2>6. ~overlap /\ pc[r] \in Judging /\ e.kind # "normalize_failed" =>
          (IF contract' = 2 THEN e.digest ELSE e.of) = mem[r].item.content
    BY <1>1, <1>3, <2>1 DEF Entry
  <2>7. e.kind = "completed" => e.says.by = "rules"
    BY <1>3 DEF Entry
  <2> DEFINE x == IF contract' = 2 THEN e.digest ELSE e.of
  <2> HIDE DEF x
  <2>8. ~overlap /\ pc[r] \in Judging /\ e.kind # "normalize_failed" => x = mem[r].item.content
    BY <2>6 DEF x
  <2>9. ~overlap' => e.says.about \in {None, x}
    BY <1>1, <2>3, <2>4, <2>8
  <2>10. ~overlap' /\ e.kind = "advised" => e.says.about = x
    BY <1>1, <2>5, <2>8
  <2>11. e.kind = "advised" /\ e.op = "assessment" => Level(e.says)
    BY <2>5
  <2> QED BY <2>7, <2>9, <2>10, <2>11 DEF x
<1> HIDE DEF Good
<1>4. ASSUME NEW r \in Runs, NEW e, log' = Recorded(log, e), Entry(r, e)
      PROVE  \A n \in DOMAIN log' : Good(log'[n])
  <2>1. \A n \in DOMAIN log' : log'[n] = e \/ \E k \in DOMAIN log : log'[n] = log[k]
    BY <1>1, <1>4, RecordedFacts DEF TypeOK
  <2> QED BY <1>2, <1>3, <1>4, <2>1
<1>5. \A n \in DOMAIN log' : Good(log'[n])
  BY <1>1, <1>2, <1>4, Entries
<1> QED BY <1>5 DEF Good

LEMMA VerdictStep ==
  ASSUME PipelineAssumption, LevelAssumption, VerdictInv, Next
  PROVE  (Fresh /\ Bound /\ Levelled /\ VerdictsAreBound /\ ModelNeverActs)'
<1>1. Types /\ TypeOK /\ Fresh /\ Bound /\ Levelled
  BY DEF VerdictInv, Types
<1>2. (Fresh /\ Bound /\ Levelled)'
  BY <1>1, VerdictsInHand, VerdictsLogged DEF Fresh, Bound, Levelled, About
<1>3. ASSUME package' = package PROVE (VerdictsAreBound /\ ModelNeverActs)'
  <2>1. ~overlap' => package'.about = package'.of
    BY <1>1, <1>3, Lasting DEF VerdictInv, VerdictsAreBound
  <2>2. package'.by = "hermes" => package'.route \notin {"execute_recipe", "development_draft"}
    BY <1>3 DEF VerdictInv, ModelNeverActs
  <2>3. (VerdictsAreBound /\ ModelNeverActs)'
    BY <2>1, <2>2, VerdictsLogged DEF VerdictsAreBound, ModelNeverActs, About
  <2> QED BY <2>3
<1>4. ASSUME NEW r \in Runs, Render(r) PROVE (VerdictsAreBound /\ ModelNeverActs)'
  <2>1. /\ package'.of = mem[r].item.content /\ package'.about = mem[r].class.about
        /\ package'.by = mem[r].assess.by /\ package'.route = Route(mem[r].assess)
        /\ pc[r] = "route" /\ overlap' = overlap
    BY <1>4, Keeps DEF Render, Item
  <2>2. ~overlap' => package'.about = package'.of
    BY <1>1, <2>1 DEF Bound, Judging, Judged
  <2>3. mem[r].assess.by = "hermes" =>
          Route(mem[r].assess) \notin {"execute_recipe", "development_draft"}
    <3>1. Level(mem[r].assess)
      BY <1>1 DEF Levelled
    <3>2. \A level \in DOMAIN RouteByLevel \ {"ready", "developable"} :
            RouteByLevel[level] \notin {"execute_recipe", "development_draft"}
      BY DEF RouteByLevel
    <3> QED BY <3>1, <3>2 DEF Level, Route
  <2> QED BY <2>1, <2>2, <2>3, VerdictsLogged DEF VerdictsAreBound, ModelNeverActs, About
<1> QED BY <1>1, <1>2, <1>3, <1>4, Lasting

-----------------------------------------------------------------------------
(***************************************************************************)
(* What the log still owes the stored task, while nothing has failed.      *)
(***************************************************************************)
Quiet == {"idle", "raw", "rawwrite", "look"}
Mid   == {"put", "write", "revised", "put2", "write2", "observe"}

HasOutcome    == \E n \in DOMAIN log : log[n].kind \in Outcomes /\ About(log[n]) = task.content
HasCompletion == \E n \in DOMAIN log : log[n].kind = "source_completion"

\* The run has not come past its look at the task, or may still turn away from it.
Untouched(r) == pc[r] \in Quiet \/ (contract = 1 /\ pc[r] \in {"duplicate", "put2"})

Owed ==
  ~overlap /\ faults = 0 =>
    /\ task # NoTask /\ (\A r \in Runs : Untouched(r)) =>
         HasOutcome /\ (task.closed => HasCompletion)
    /\ \A r \in Runs :
         /\ pc[r] \in Mid => (mem[r].was.closed => HasCompletion)
         /\ pc[r] \in Reading => (task.closed => HasCompletion)

\* Contract 1 never replaces a task, so that what is logged is about the only one.
Single ==
  /\ \A r \in Runs :
       /\ pc[r] = "duplicate" => contract = 1
       /\ contract = 1 => pc[r] \notin {"put", "write", "revised"}
       /\ contract = 1 /\ ~overlap /\ pc[r] = "write2" => task = NoTask
  /\ ~overlap /\ contract = 1 =>
       \A n \in DOMAIN log : log[n].kind \in Outcomes => log[n].of = task.content /\ task # NoTask

OwedInv == Types /\ Alone /\ InHand /\ Single /\ Owed

\* The other runs rest.
LEMMA OthersRest ==
  ASSUME Alone, ~overlap, NEW r \in Runs, pc[r] # "idle", NEW q \in Runs \ {r}
  PROVE  pc[q] = "idle"
BY DEF Alone

LEMMA SingleRuns ==
  ASSUME PipelineAssumption, Types, Alone, Single, Next
  PROVE  \A r \in Runs :
           /\ pc'[r] = "duplicate" => contract' = 1
           /\ contract' = 1 => pc'[r] \notin {"put", "write", "revised"}
           /\ contract' = 1 /\ ~overlap' /\ pc'[r] = "write2" => task' = NoTask
<1> DEFINE One(r) ==
             /\ pc'[r] = "duplicate" => contract = 1
             /\ contract = 1 => pc'[r] \notin {"put", "write", "revised"}
             /\ contract = 1 /\ ~overlap' /\ pc'[r] = "write2" => task' = NoTask
           S == \A r \in Runs : One(r)
<1>1. TypeOK
  BY DEF Types
<1>2. ASSUME NEW r \in Runs, pc'[r] \notin {"duplicate", "put", "write", "revised", "write2"}
      PROVE  One(r)
  BY <1>2
<1>3. ASSUME NEW r \in Runs, pc'[r] = pc[r], task' = task, ~overlap' => ~overlap
      PROVE  One(r)
  BY <1>3 DEF Single
<1>4. ASSUME NEW r \in Runs, task' = task, ~overlap' => ~overlap, One(r),
             \A q \in Runs \ {r} : pc'[q] = pc[q]
      PROVE  S
  BY <1>3, <1>4
<1> HIDE DEF One
<1>5. ChangePolicy => S
  BY <1>3 DEF ChangePolicy, history, store
<1>6. ASSUME NEW r \in Runs, NEW c \in Captures, Discover(r, c) PROVE S
  <2>1. Discovers(r, c) /\ task' = task /\ (~overlap' => ~overlap)
    BY <1>1, <1>6, Effects DEF Discover, store
  <2> QED BY <1>2, <1>4, <2>1 DEF Discovers, Becomes
<1>7. ASSUME NEW r \in Runs, LookRaw(r) \/ WriteRaw(r) PROVE S
  <2>1. Moves(r, "rawwrite") \/ Moves(r, "look")
    BY <1>1, <1>7, Effects
  <2> QED BY <1>2, <1>4, <1>7, <2>1, Keeps DEF Moves, Becomes
<1>8. ASSUME NEW r \in Runs, LookTask(r) PROVE S
  <2>1. LooksAtTask(r) /\ task' = task /\ overlap' = overlap
    BY <1>1, <1>8, Effects, Keeps
  <2>2. /\ \A q \in Runs \ {r} : pc'[q] = pc[q]
        /\ pc'[r] \in {"put2", "duplicate", "put"}
        /\ pc'[r] = "duplicate" => contract = 1
        /\ pc'[r] = "put" => contract # 1
    BY <2>1 DEF LooksAtTask, Becomes
  <2>3. One(r)
    BY <2>2 DEF One
  <2> QED BY <1>4, <2>1, <2>2, <2>3
<1>9. ASSUME NEW r \in Runs, ReadAndRetain(r) PROVE S
  <2>1. Reads(r) /\ task' = task /\ overlap' = overlap
    BY <1>1, <1>9, Effects, Keeps
  <2>2. pc[r] \in {"put", "put2"} /\ (contract = 2 \/ task \in {NoTask, mem[r].item})
    BY <1>9 DEF ReadAndRetain, Item
  <2>3. /\ \A q \in Runs \ {r} : pc'[q] = pc[q]
        /\ pc'[r] \in {"revised", "observe", "write", "write2"}
        /\ pc'[r] \in {"revised", "write"} => pc[r] = "put"
        /\ pc'[r] = "write2" => task # mem[r].item
    BY <2>1 DEF Reads, Moves, Becomes
  <2>4. contract = 1 => pc[r] # "put"
    BY DEF Single
  <2>5. One(r)
    BY <2>1, <2>2, <2>3, <2>4 DEF One
  <2> QED BY <1>4, <2>1, <2>3, <2>5
<1>10. ASSUME NEW r \in Runs, WriteTask(r) PROVE S
  <2>1. /\ \A q \in Runs \ {r} : pc'[q] = pc[q]
        /\ \/ pc[r] = "write" /\ pc'[r] = "revised"
           \/ pc[r] = "write2" /\ pc'[r] = "observe"
        /\ overlap' = overlap
    <3>1. \/ pc[r] = "write" /\ Moves(r, "revised")
          \/ pc[r] = "write2" /\ Moves(r, "observe")
      BY <1>1, <1>10, Effects
    <3>2. overlap' = overlap
      BY <1>10 DEF WriteTask
    <3> QED BY <3>1, <3>2 DEF Moves, Becomes
  <2>2. One(r)
    BY <2>1 DEF One, Single
  <2>3. ASSUME NEW q \in Runs \ {r} PROVE One(q)
    <3>1. ~overlap => pc[q] = "idle"
      BY <2>1, OthersRest
    <3> QED BY <2>1, <3>1 DEF One, Single
  <2> QED BY <2>2, <2>3
<1>11. ASSUME NEW r \in Runs, Announce(r) \/ Observe(r) PROVE S
  <2>1. ReadsBack(r, "put2") \/ ReadsBack(r, "intake")
    BY <1>1, <1>11, Effects
  <2> QED BY <1>2, <1>4, <1>11, <2>1, Keeps DEF ReadsBack, Becomes
<1>12. ASSUME NEW r \in Runs, Intake(r) \/ CheckRecipe(r) \/ Render(r) PROVE S
  <2>1. Leaves(r) \/ Moves(r, "classify") \/ Moves(r, "route") \/ Moves(r, "final")
    BY <1>1, <1>12, Effects
  <2> QED BY <1>2, <1>4, <1>12, <2>1, Keeps DEF Leaves, Moves, Becomes
<1>13. ASSUME NEW r \in Runs, Classify(r) \/ Evaluate(r) PROVE S
  <2>1. Classifies(r) \/ Evaluates(r)
    BY <1>1, <1>13, Effects
  <2>2. /\ \A q \in Runs \ {r} : pc'[q] = pc[q]
        /\ pc'[r] \in {"askclass", "evaluate", "route", "askassess", "check"}
    BY <2>1 DEF Classifies, Evaluates, AfterClass, Becomes
  <2> QED BY <1>2, <1>4, <1>13, <2>2, Keeps
<1>14. ASSUME NEW r \in Runs, ClassifyByHermes(r) \/ AssessByHermes(r) PROVE S
  <2>1. /\ Leaves(r) \/ \E a : Takes(r, a)
        /\ task' = task /\ overlap' = overlap
    BY <1>1, <1>14, AskedOn
  <2>2. /\ \A q \in Runs \ {r} : pc'[q] = pc[q]
        /\ pc'[r] \in {"idle", "evaluate", "route", "check"}
    BY <2>1 DEF Leaves, Takes, AfterClass, Becomes
  <2> QED BY <1>2, <1>4, <2>1, <2>2
<1>15. ASSUME NEW r \in Runs, Ends(r) PROVE S
  <2>1. Leaves(r)
    BY <1>1, <1>15, Effects DEF Ends
  <2> QED BY <1>2, <1>4, <1>15, <2>1, Keeps DEF Leaves, Becomes
<1> HIDE DEF S
<1>16. S
  BY <1>5, <1>6, <1>7, <1>8, <1>9, <1>10, <1>11, <1>12, <1>13, <1>14, <1>15, ByAction
<1> QED BY <1>1, <1>16, Lasting DEF S, One

LEMMA SingleLog ==
  ASSUME PipelineAssumption, LevelAssumption, OwedInv, Next
  PROVE  ~overlap' /\ contract' = 1 =>
           \A n \in DOMAIN log' :
             log'[n].kind \in Outcomes => log'[n].of = task'.content /\ task' # NoTask
<1> SUFFICES ASSUME ~overlap', contract' = 1
             PROVE  \A n \in DOMAIN log' :
                      log'[n].kind \in Outcomes => log'[n].of = task'.content /\ task' # NoTask
  OBVIOUS
<1>1. TypeOK /\ There /\ ~overlap /\ contract = 1
  BY Lasting DEF OwedInv, Types
<1>2. \A n \in DOMAIN log : log[n].kind \in Outcomes => log[n].of = task.content /\ task # NoTask
  BY <1>1 DEF OwedInv, Single
<1>3. ASSUME NEW r \in Runs, WriteTask(r)
      PROVE  log' = log /\ \A n \in DOMAIN log : log[n].kind \notin Outcomes
  <2>1. task = NoTask
    BY <1>1, <1>3 DEF WriteTask, OwedInv, Single
  <2> QED BY <1>2, <1>3, <2>1 DEF WriteTask
<1>4. ASSUME NEW r \in Runs, NEW e, log' = Recorded(log, e), Entry(r, e), task' = task
      PROVE  \A n \in DOMAIN log' :
               log'[n].kind \in Outcomes => log'[n].of = task'.content /\ task' # NoTask
  <2>1. ASSUME e.kind \in Outcomes PROVE e.of = task.content /\ task # NoTask
    <3>1. pc[r] \in Reading /\ e.of = mem[r].item.content
      BY <1>4, <2>1 DEF Entry
    <3>2. mem[r].item = task /\ task.content \in Contents
      BY <1>1, <3>1 DEF OwedInv, InHand, There
    <3> QED BY <3>1, <3>2 DEF PipelineAssumption, NoTask
  <2>2. \A n \in DOMAIN log' : log'[n] = e \/ \E k \in DOMAIN log : log'[n] = log[k]
    BY <1>1, <1>4, RecordedFacts DEF TypeOK
  <2> QED BY <1>2, <1>4, <2>1, <2>2
<1>5. task' = task \/ \E r \in Runs : WriteTask(r)
  <2> DEFINE P == task' = task \/ \E r \in Runs : WriteTask(r)
  <2>1. ASSUME NEW r \in Runs, ClassifyByHermes(r) \/ AssessByHermes(r) PROVE P
    BY <1>1, <2>1, AskedOn
  <2>2. \A r \in Runs, c \in Captures : Discover(r, c) => P
    BY DEF Discover, store
  <2>3. ChangePolicy => P
    BY DEF ChangePolicy, store
  <2>4. ASSUME NEW r \in Runs,
               \/ LookRaw(r) \/ WriteRaw(r) \/ LookTask(r) \/ ReadAndRetain(r) \/ Announce(r)
               \/ Observe(r) \/ Intake(r) \/ Classify(r) \/ Evaluate(r) \/ CheckRecipe(r)
               \/ Render(r) \/ Ends(r)
        PROVE  P
    BY <2>4, Keeps
  <2>5. \A r \in Runs : WriteTask(r) => P
    OBVIOUS
  <2> HIDE DEF P
  <2>6. P
    BY <2>1, <2>2, <2>3, <2>4, <2>5, ByAction
  <2> QED BY <2>6 DEF P
<1>6. CASE log' = log
  BY <1>2, <1>3, <1>5, <1>6
<1>7. CASE task' = task /\ \E r \in Runs : \E e : log' = Recorded(log, e) /\ Entry(r, e)
  BY <1>4, <1>7
<1>8. CASE \E r \in Runs : WriteTask(r)
  BY <1>3, <1>8
<1> QED BY <1>1, <1>5, <1>6, <1>7, <1>8, Entries

\* What is logged stays, and an outcome of a run that has read the task back is one for it.
LEMMA Logged ==
  ASSUME PipelineAssumption, LevelAssumption, OwedInv, Next, ~overlap', task' = task
  PROVE  /\ HasCompletion => HasCompletion'
         /\ HasOutcome => HasOutcome'
         /\ \A r \in Runs, kind \in Outcomes : \A op, key, a :
              pc[r] \in Reading /\ log' = Recorded(log, Event(r, kind, op, key, a)) => HasOutcome'
         /\ \A r \in Runs : \A op, key, a :
              log' = Recorded(log, Event(r, "source_completion", op, key, a)) => HasCompletion'
<1>1. TypeOK /\ There /\ ~overlap /\ contract' = contract /\ contract \in {1, 2}
  BY Lasting DEF OwedInv, Types, TypeOK
<1>2. \A k \in DOMAIN log : k \in DOMAIN log' /\ log'[k] = log[k]
  BY <1>1, LogGrows, RecordedFacts DEF TypeOK
<1>3. HasCompletion => HasCompletion'
  BY <1>2 DEF HasCompletion
<1>4. HasOutcome => HasOutcome'
  BY <1>1, <1>2 DEF HasOutcome, About
<1>5. ASSUME NEW r \in Runs, NEW kind, NEW op, NEW key, NEW a,
             log' = Recorded(log, Event(r, kind, op, key, a))
      PROVE  \E n \in DOMAIN log' :
               log'[n].kind = kind /\ log'[n].digest = IF contract = 2 THEN task.content ELSE None
  <2> DEFINE e == Event(r, kind, op, key, a)
  <2>1. PICK n \in DOMAIN log' : Id(log'[n]) = Id(e)
    BY <1>1, <1>5, RecordedFacts DEF TypeOK
  <2>2. log'[n].kind = e.kind /\ log'[n].digest = e.digest
    BY <2>1 DEF Id
  <2> QED BY <2>2, EventFields
<1>6. ASSUME NEW r \in Runs, NEW kind \in Outcomes, NEW op, NEW key, NEW a, pc[r] \in Reading,
             log' = Recorded(log, Event(r, kind, op, key, a))
      PROVE  HasOutcome'
  <2>1. PICK n \in DOMAIN log' :
          log'[n].kind = kind /\ log'[n].digest = IF contract = 2 THEN task.content ELSE None
    BY <1>5, <1>6
  <2>2. CASE contract = 2
    BY <1>1, <1>6, <2>1, <2>2 DEF HasOutcome, About
  <2>3. CASE contract = 1
    <3>1. log'[n].of = task'.content
      BY <1>1, <1>6, <2>1, <2>3, SingleLog
    <3> QED BY <1>1, <1>6, <2>1, <2>3, <3>1 DEF HasOutcome, About
  <2> QED BY <1>1, <2>2, <2>3
<1>7. ASSUME NEW r \in Runs, NEW op, NEW key, NEW a,
             log' = Recorded(log, Event(r, "source_completion", op, key, a))
      PROVE  HasCompletion'
  BY <1>5, <1>7 DEF HasCompletion
<1> QED BY <1>3, <1>4, <1>6, <1>7

LEMMA OwedStep ==
  ASSUME PipelineAssumption, LevelAssumption, OwedInv, Next
  PROVE  Owed'
<1> DEFINE Seen(r) ==
             /\ pc'[r] \in Mid => (mem'[r].was.closed => HasCompletion')
             /\ pc'[r] \in Reading => (task'.closed => HasCompletion')
           Free(r) == pc'[r] \in Quiet \/ (contract = 1 /\ pc'[r] \in {"duplicate", "put2"})
           Paid == task' # NoTask => HasOutcome' /\ (task'.closed => HasCompletion')
           O == /\ (\A r \in Runs : Free(r)) => Paid
                /\ \A r \in Runs : Seen(r)
<1> SUFFICES ASSUME ~overlap', faults' = 0
             PROVE  O
  BY Lasting DEF OwedInv, Types, Owed, Untouched
<1>1. TypeOK /\ There /\ Alone /\ ~overlap /\ contract' = contract
  BY Lasting DEF OwedInv, Types
<1>2. ASSUME NEW r \in Runs, pc'[r] = "idle" \/ pc'[r] \in {"raw", "rawwrite", "look", "duplicate"}
      PROVE  Seen(r)
  BY <1>2 DEF Mid, Reading, Judging
<1>3. ASSUME NEW r \in Runs, pc[r] # "idle", \A q \in Runs \ {r} : pc'[q] = pc[q], Seen(r),
             Free(r) => Paid
      PROVE  O
  <2>1. \A q \in Runs \ {r} : Seen(q)
    BY <1>1, <1>2, <1>3, OthersRest
  <2> QED BY <1>3, <2>1
\* The run leaves, or goes on to a point where it owes nothing.
<1>4. ASSUME NEW r \in Runs, pc[r] # "idle", Leaves(r), Paid PROVE O
  <2>1. pc'[r] = "idle" /\ \A q \in Runs \ {r} : pc'[q] = pc[q]
    BY <1>4 DEF Leaves, Becomes
  <2> QED BY <1>2, <1>3, <1>4, <2>1
<1>5. ASSUME NEW r \in Runs, pc[r] \in Reading, pc'[r] \in Reading,
             \A q \in Runs \ {r} : pc'[q] = pc[q], faults' = faults, task' = task
      PROVE  O
  <2>1. task.closed => HasCompletion'
    BY <1>1, <1>5, Logged DEF OwedInv, Owed
  <2>2. Seen(r) /\ ~Free(r) /\ pc[r] # "idle"
    BY <1>5, <2>1 DEF Quiet, Mid, Reading, Judging
  <2> QED BY <1>3, <1>5, <2>2
<1>6. ASSUME NEW r \in Runs, pc[r] \in Reading, NEW kind \in Outcomes, NEW op, NEW key, NEW a,
             log' = Recorded(log, Event(r, kind, op, key, a)), faults' = faults, task' = task,
             Leaves(r)
      PROVE  O
  <2>1. HasOutcome' /\ (task.closed => HasCompletion')
    BY <1>1, <1>6, Logged DEF OwedInv, Owed
  <2>2. pc[r] # "idle"
    BY <1>6 DEF Reading, Judging
  <2> QED BY <1>4, <1>6, <2>1, <2>2
<1>7. ASSUME NEW r \in Runs, \A q \in Runs \ {r} : pc[q] = "idle", Untouched(r),
             faults' = faults, task' = task
      PROVE  Paid
  <2>1. \A q \in Runs : Untouched(q)
    BY <1>7 DEF Untouched, Quiet
  <2> QED BY <1>1, <1>7, <2>1, Logged DEF OwedInv, Owed
<1> HIDE DEF Seen, Free, Paid
<1>10. ChangePolicy => O
  <2> SUFFICES ASSUME ChangePolicy PROVE O
    OBVIOUS
  <2>1. UNCHANGED <<contract, task, pc, mem, log, faults>>
    BY DEF ChangePolicy, store
  <2>2. (HasOutcome => HasOutcome') /\ (HasCompletion => HasCompletion')
    BY <1>1, <2>1, Logged
  <2>3. \A r \in Runs : Seen(r) /\ (Free(r) => Untouched(r))
    BY <1>1, <2>1, <2>2 DEF OwedInv, Owed, Seen, Free, Untouched
  <2>4. (\A r \in Runs : Free(r)) => Paid
    BY <1>1, <2>1, <2>2, <2>3 DEF OwedInv, Owed, Paid
  <2> QED BY <2>3, <2>4
<1>11. ASSUME NEW r \in Runs, NEW c \in Captures, Discover(r, c) PROVE O
  <2>1. /\ task' = task /\ faults' = faults /\ pc[r] = "idle"
        /\ \A q \in Runs : pc[q] = "idle"
    BY <1>11 DEF Discover, store
  <2>2. \A q \in Runs : pc'[q] \in {"idle", "raw"}
    BY <1>1, <1>11, <2>1, Effects DEF Discovers, Becomes
  <2>3. Paid
    BY <1>7, <2>1 DEF Untouched, Quiet
  <2> QED BY <1>2, <2>2, <2>3
<1>12. ASSUME NEW r \in Runs, LookRaw(r) \/ WriteRaw(r) PROVE O
  <2>1. /\ pc[r] \in {"raw", "rawwrite"} /\ task' = task /\ faults' = faults
        /\ Moves(r, "rawwrite") \/ Moves(r, "look")
    BY <1>1, <1>12, Effects, Keeps DEF LookRaw, WriteRaw
  <2>2. pc'[r] \in {"rawwrite", "look"} /\ \A q \in Runs \ {r} : pc'[q] = pc[q]
    BY <2>1 DEF Moves, Becomes
  <2>3. Paid
    BY <1>1, <1>7, <2>1, OthersRest DEF Untouched, Quiet
  <2>4. Seen(r) /\ pc[r] # "idle"
    BY <1>2, <2>1, <2>2
  <2> QED BY <1>3, <2>2, <2>3, <2>4
<1>13. ASSUME NEW r \in Runs, LookTask(r) PROVE O
  <2>1. LooksAtTask(r) /\ pc[r] = "look" /\ task' = task /\ faults' = faults
    BY <1>1, <1>13, Effects, Keeps DEF LookTask
  <2>2. Paid
    BY <1>1, <1>7, <2>1, OthersRest DEF Untouched, Quiet
  <2>3. task'.closed => HasCompletion'
    BY <2>1, <2>2 DEF Paid, NoTask
  <2>4. /\ pc'[r] \in {"put2", "duplicate", "put"} /\ mem'[r].was = task
        /\ \A q \in Runs \ {r} : pc'[q] = pc[q]
    BY <2>1 DEF LooksAtTask, Becomes
  <2>5. Seen(r)
    BY <2>1, <2>3, <2>4 DEF Seen, Reading, Judging
  <2> QED BY <1>3, <2>1, <2>2, <2>4, <2>5
<1>14. ASSUME NEW r \in Runs, Duplicate(r) \/ Conflict(r) PROVE O
  <2>1. /\ contract = 1 /\ pc[r] \in {"duplicate", "put", "put2"}
        /\ task' = task /\ faults' = faults
    BY <1>14 DEF Duplicate, Conflict, OwedInv, Single, store, counts
  <2>2. Untouched(r)
    BY <2>1 DEF Untouched, OwedInv, Single
  <2>3. Paid /\ Leaves(r) /\ pc[r] # "idle"
    BY <1>1, <1>7, <1>14, <2>1, <2>2, OthersRest, Effects
  <2> QED BY <1>4, <2>3
<1>15. ASSUME NEW r \in Runs, pc[r] \in Mid, pc'[r] \in Mid, mem'[r].was = mem[r].was, ~Free(r),
             \A q \in Runs \ {r} : pc'[q] = pc[q], faults' = faults,
             HasCompletion => HasCompletion'
      PROVE  O
  <2>1. Seen(r) /\ pc[r] # "idle"
    BY <1>1, <1>15 DEF Seen, Mid, Reading, Judging, OwedInv, Owed
  <2> QED BY <1>3, <1>15, <2>1
<1>16. ASSUME NEW r \in Runs, ReadAndRetain(r) PROVE O
  <2>1. Reads(r) /\ pc[r] \in {"put", "put2"} /\ task' = task /\ faults' = faults
    BY <1>1, <1>16, Effects, Keeps DEF ReadAndRetain
  <2>2. /\ pc'[r] \in {"revised", "observe", "write", "write2"} /\ mem'[r].was = mem[r].was
        /\ \A q \in Runs \ {r} : pc'[q] = pc[q]
    BY <2>1 DEF Reads, Moves, Becomes
  <2>3. ~Free(r) /\ pc[r] \in Mid /\ pc'[r] \in Mid
    BY <2>1, <2>2 DEF Free, Quiet, Mid
  <2> QED BY <1>1, <1>15, <2>1, <2>2, <2>3, Logged
<1>17. ASSUME NEW r \in Runs, WriteTask(r) PROVE O
  <2>1. /\ pc[r] \in {"write", "write2"} /\ faults' = faults /\ log' = log
        /\ Moves(r, "revised") \/ Moves(r, "observe")
    BY <1>1, <1>17, Effects DEF WriteTask, counts
  <2>2. /\ pc'[r] \in {"revised", "observe"} /\ mem'[r].was = mem[r].was
        /\ \A q \in Runs \ {r} : pc'[q] = pc[q]
    BY <2>1 DEF Moves, Becomes
  <2>3. ~Free(r) /\ pc[r] \in Mid /\ pc'[r] \in Mid
    BY <2>1, <2>2 DEF Free, Quiet, Mid
  <2>4. HasCompletion => HasCompletion'
    BY <2>1 DEF HasCompletion
  <2> QED BY <1>15, <2>1, <2>2, <2>3, <2>4
<1>18. ASSUME NEW r \in Runs, Announce(r) PROVE O
  <2>1. ReadsBack(r, "put2") /\ pc[r] = "revised" /\ task' = task /\ faults' = faults
    BY <1>1, <1>18, Effects, Keeps DEF Announce
  <2>2. /\ pc'[r] = "put2" /\ mem'[r].was = mem[r].was
        /\ \A q \in Runs \ {r} : pc'[q] = pc[q]
    BY <2>1 DEF ReadsBack, Becomes
  <2>3. contract # 1
    BY <2>1 DEF OwedInv, Single
  <2>4. ~Free(r) /\ pc[r] \in Mid /\ pc'[r] \in Mid
    BY <2>1, <2>2, <2>3 DEF Free, Quiet, Mid
  <2> QED BY <1>1, <1>15, <2>1, <2>2, <2>4, Logged
<1>19. ASSUME NEW r \in Runs, Observe(r) PROVE O
  <2>1. ReadsBack(r, "intake") /\ pc[r] = "observe" /\ task' = task /\ faults' = faults
    BY <1>1, <1>19, Effects, Keeps DEF Observe
  <2>2. pc'[r] = "intake" /\ \A q \in Runs \ {r} : pc'[q] = pc[q]
    BY <2>1 DEF ReadsBack, Becomes
  <2>3. task'.closed => HasCompletion'
    <3>1. CASE ~task.closed
      BY <2>1, <3>1
    <3>2. mem[r].was.closed => HasCompletion'
      BY <1>1, <2>1, Logged DEF OwedInv, Owed, Mid
    <3>3. task.closed /\ ~mem[r].was.closed => HasCompletion'
      BY <1>1, <1>19, <2>1, Logged DEF Observe
    <3> QED BY <3>1, <3>2, <3>3
  <2>4. Seen(r) /\ ~Free(r)
    BY <2>2, <2>3 DEF Seen, Free, Quiet, Mid
  <2> QED BY <1>3, <2>1, <2>2, <2>4
<1>20. ASSUME NEW r \in Runs, Intake(r) \/ CheckRecipe(r) PROVE O
  <2>1. /\ pc[r] \in Reading /\ task' = task /\ faults' = faults
        /\ Leaves(r) \/ Moves(r, "classify") \/ Moves(r, "route")
    BY <1>1, <1>20, Effects, Keeps DEF Intake, CheckRecipe, Reading, Judging
  <2>2. \/ Moves(r, "classify") \/ Moves(r, "route")
        \/ /\ Leaves(r)
           /\ \E kind \in Outcomes : log' = Recorded(log, Event(r, kind, "none", None, NoAdvice))
    <3>1. CASE Goto(r, "classify") \/ Goto(r, "route")
      <4>1. pc'[r] # "idle"
        BY <1>1, <3>1 DEF Goto, TypeOK
      <4> QED BY <2>1, <4>1 DEF Leaves, Becomes
    <3>2. CASE ~(Goto(r, "classify") \/ Goto(r, "route"))
      <4>1. \E kind \in Outcomes : log' = Recorded(log, Event(r, kind, "none", None, NoAdvice))
        BY <1>20, <3>2 DEF Intake, CheckRecipe, Records, Outcomes
      <4> QED BY <2>1, <4>1
    <3> QED BY <3>1, <3>2
  <2>3. CASE Moves(r, "classify") \/ Moves(r, "route")
    BY <1>5, <2>1, <2>3 DEF Moves, Becomes, Reading, Judging
  <2> QED BY <1>6, <2>1, <2>2, <2>3
<1>21. ASSUME NEW r \in Runs, Classify(r) \/ Evaluate(r) PROVE O
  <2>1. /\ pc[r] \in Reading /\ task' = task /\ faults' = faults
        /\ Classifies(r) \/ Evaluates(r)
    BY <1>1, <1>21, Effects, Keeps DEF Classify, Evaluate, Reading, Judging
  <2>2. pc'[r] \in Reading /\ \A q \in Runs \ {r} : pc'[q] = pc[q]
    BY <2>1 DEF Classifies, Evaluates, AfterClass, Becomes, Reading, Judging
  <2> QED BY <1>5, <2>1, <2>2
<1>22. ASSUME NEW r \in Runs, ClassifyByHermes(r) \/ AssessByHermes(r) PROVE O
  <2>1. /\ Asking(r) /\ (Reuses(r) \/ Refuses(r) \/ Advises(r))
        /\ UNCHANGED <<task, faults>>
    BY <1>1, <1>22, AskedOn
  <2>2. pc[r] \in Reading /\ pc[r] # "idle" /\ mem[r].item = task
    BY <1>1, <2>1 DEF Asking, OwedInv, InHand, Reading, Judging
  <2>3. ASSUME NEW a, Takes(r, a) PROVE O
    BY <1>5, <2>1, <2>2, <2>3 DEF Takes, Becomes, AfterClass, Reading, Judging
  <2>4. CASE Refuses(r)
    BY <1>6, <2>1, <2>2, <2>4 DEF Refuses, Outcomes
  <2>5. CASE Reuses(r)
    <3>1. PICK n \in DOMAIN log :
            /\ log[n].kind \in Settled /\ About(log[n]) = mem[r].item.content
            /\ IF log[n].kind = "advised" THEN Takes(r, log[n].says) ELSE Leaves(r)
      BY <2>5 DEF Reuses
    <3>2. CASE log[n].kind = "advised"
      BY <2>3, <3>1, <3>2
    <3>3. CASE log[n].kind # "advised"
      <4>1. HasOutcome
        BY <2>2, <3>1, <3>3 DEF HasOutcome, Settled, Outcomes
      <4>2. HasOutcome' /\ (task.closed => HasCompletion')
        BY <1>1, <2>1, <2>2, <4>1, Logged DEF OwedInv, Owed
      <4>3. Paid
        BY <2>1, <4>2 DEF Paid
      <4> QED BY <1>4, <2>2, <3>1, <3>3, <4>3
    <3> QED BY <3>2, <3>3
  <2>6. CASE Advises(r)
    BY <2>3, <2>6 DEF Advises
  <2> QED BY <2>1, <2>4, <2>5, <2>6
<1>23. ASSUME NEW r \in Runs, Render(r) PROVE O
  <2>1. pc[r] \in Reading /\ task' = task /\ faults' = faults /\ Moves(r, "final")
    BY <1>1, <1>23, Effects, Keeps DEF Render, Reading, Judging
  <2> QED BY <1>5, <2>1 DEF Moves, Becomes, Reading, Judging
<1>24. ASSUME NEW r \in Runs, Finish(r) PROVE O
  <2>1. /\ pc[r] \in Reading /\ task' = task /\ faults' = faults /\ Leaves(r)
        /\ log' = Recorded(log, Event(r, FinalState(r), "none", None, mem[r].assess))
    BY <1>1, <1>24, Effects DEF Finish, RecordsAdvice, store, counts, Reading, Judging
  <2>2. FinalState(r) \in Outcomes
    BY DEF FinalState, Outcomes
  <2> QED BY <1>6, <2>1, <2>2
<1>25. ASSUME NEW r \in Runs, InputGone(r) \/ Fail(r) \/ Unreadable(r) \/ Crash(r) PROVE O
  <2>1. faults' = faults + 1 /\ faults \in Nat
    BY <1>1, <1>25 DEF InputGone, Fail, Unreadable, Crash, TypeOK
  <2> QED BY <2>1
<1> HIDE DEF O
<1>26. O
  BY <1>10, <1>11, <1>12, <1>13, <1>14, <1>16, <1>17, <1>18, <1>19, <1>20, <1>21, <1>22, <1>23,
     <1>24, <1>25, ByAction DEF Ends
<1> QED BY <1>26

-----------------------------------------------------------------------------
(***************************************************************************)
(* The theorems.                                                           *)
(***************************************************************************)
LEMMA Stutters ==
  ASSUME UNCHANGED vars
  PROVE  UNCHANGED <<contract, task, package, log, pc, mem, faults, overlap, vouched, named>>
BY DEF vars, store, counts, history

LEMMA InitWork ==
  ASSUME Init
  PROVE  /\ \A r \in Runs : /\ pc[r] = "idle" /\ mem[r].item = NoTask /\ mem[r].was = NoTask
                            /\ mem[r].write = NoTask /\ mem[r].class = NoAdvice
                            /\ mem[r].assess = NoAdvice
         /\ DOMAIN log = {} /\ task = NoTask /\ named = {} /\ package = NoPackage
BY DEF Init, NoWork

\* The state of the pipeline has the types it is declared with: tasks are tasks, every run
\* is at a point of run_pipeline, what was vouched for and named are contents.
THEOREM TypesHold == Spec => []TypeOK
<1>1. Init => Types
  BY TypesInit, PipelineAssumption DEF Types
<1>2. Types /\ [Next]_vars => Types'
  <2> SUFFICES ASSUME Types, [Next]_vars PROVE Types'
    OBVIOUS
  <2>1. CASE Next
    BY <2>1, TypesStep, PipelineAssumption DEF Types
  <2>2. CASE UNCHANGED vars
    BY <2>2, Stutters DEF Types, TypeOK, There
  <2> QED BY <2>1, <2>2
<1>3. Types => TypeOK
  BY DEF Types
<1> QED BY <1>1, <1>2, <1>3, PTL DEF Spec

\* No verdict is ever reached on content that no complete capture has vouched for, even if
\* runs overlap and a partial recapture replaces a complete one (input_validation.py).
THEOREM PartialTasksAreNotJudged == Spec => []PartialIsNeverJudged
<1>1. Init => VouchedInv
  <2> SUFFICES ASSUME Init PROVE VouchedInv
    OBVIOUS
  <2>1. Types
    BY TypesInit, PipelineAssumption DEF Types
  <2>2. Vouched /\ PartialIsNeverJudged
    BY InitWork DEF Vouched, PartialIsNeverJudged, NoTask, Judging
  <2> QED BY <2>1, <2>2 DEF VouchedInv
<1>2. VouchedInv /\ [Next]_vars => VouchedInv'
  <2> SUFFICES ASSUME VouchedInv, [Next]_vars PROVE VouchedInv'
    OBVIOUS
  <2>1. CASE Next
    BY <2>1, TypesStep, VouchedStep, PartialStep, PipelineAssumption, LevelAssumption
    DEF VouchedInv, Types
  <2>2. CASE UNCHANGED vars
    BY <2>2, Stutters DEF VouchedInv, Types, TypeOK, There, Vouched, PartialIsNeverJudged
  <2> QED BY <2>1, <2>2
<1>3. VouchedInv => PartialIsNeverJudged
  BY DEF VouchedInv
<1> QED BY <1>1, <1>2, <1>3, PTL DEF Spec

\* Unless runs overlap, put_task gives other content another revision: a number names one
\* content for ever, which is what decisions, claims and executions bind themselves to.
THEOREM RevisionsNameContents == Spec => []RevisionNamesOneContent
<1>1. Init => RevisionInv
  <2> SUFFICES ASSUME Init PROVE RevisionInv
    OBVIOUS
  <2>1. Types
    BY TypesInit, PipelineAssumption DEF Types
  <2>2. Alone /\ InHand /\ Named /\ RevisionNamesOneContent
    BY InitWork DEF Alone, InHand, Named, RevisionNamesOneContent, Reading, Judging
  <2> QED BY <2>1, <2>2 DEF RevisionInv
<1>2. RevisionInv /\ [Next]_vars => RevisionInv'
  <2> SUFFICES ASSUME RevisionInv, [Next]_vars PROVE RevisionInv'
    OBVIOUS
  <2>1. CASE Next
    BY <2>1, TypesStep, AloneStep, InHandStep, NamedStep, PipelineAssumption DEF RevisionInv, Types
  <2>2. CASE UNCHANGED vars
    BY <2>2, Stutters
    DEF RevisionInv, Types, TypeOK, There, Alone, InHand, Named, RevisionNamesOneContent
  <2> QED BY <2>1, <2>2
<1>3. RevisionInv => RevisionNamesOneContent
  BY DEF RevisionInv
<1> QED BY <1>1, <1>2, <1>3, PTL DEF Spec

LEMMA VerdictInvariant == Spec => []VerdictInv
<1>1. Init => VerdictInv
  <2> SUFFICES ASSUME Init PROVE VerdictInv
    OBVIOUS
  <2>1. Types
    BY TypesInit, PipelineAssumption DEF Types
  <2>2. Alone /\ InHand /\ Fresh /\ Bound /\ Levelled
    BY InitWork, NoAdviceFacts DEF Alone, InHand, Fresh, Bound, Levelled, Reading, Judging
  <2>3. VerdictsAreBound /\ ModelNeverActs
    BY InitWork, PipelineAssumption
    DEF VerdictsAreBound, ModelNeverActs, NoPackage, PipelineAssumption
  <2> QED BY <2>1, <2>2, <2>3 DEF VerdictInv
<1>2. VerdictInv /\ [Next]_vars => VerdictInv'
  <2> SUFFICES ASSUME VerdictInv, [Next]_vars PROVE VerdictInv'
    OBVIOUS
  <2>1. CASE Next
    BY <2>1, TypesStep, AloneStep, InHandStep, VerdictStep, PipelineAssumption, LevelAssumption
    DEF VerdictInv, Types
  <2>2. CASE UNCHANGED vars
    <3>1. (Types /\ Alone /\ InHand)'
      BY <2>2, Stutters DEF VerdictInv, Types, TypeOK, There, Alone, InHand
    <3>2. (Fresh /\ Bound /\ Levelled)'
      BY <2>2, Stutters DEF VerdictInv, Fresh, Bound, Levelled, About
    <3>3. (VerdictsAreBound /\ ModelNeverActs)'
      BY <2>2, Stutters DEF VerdictInv, VerdictsAreBound, ModelNeverActs, About
    <3> QED BY <3>1, <3>2, <3>3 DEF VerdictInv
  <2> QED BY <2>1, <2>2
<1> QED BY <1>1, <1>2, PTL DEF Spec

\* Unless runs overlap, every verdict in the log and the work package are about the content
\* they are filed under: advice on one revision is not taken for advice on the next.
THEOREM VerdictsStayBound == Spec => []VerdictsAreBound
<1>1. VerdictInv => VerdictsAreBound
  BY DEF VerdictInv
<1> QED BY <1>1, VerdictInvariant, PTL

\* Whatever a model answers, and whenever its answer is used again, it neither closes a task
\* nor routes it to something that acts.
THEOREM ModelsNeverAct == Spec => []ModelNeverActs
<1>1. VerdictInv => ModelNeverActs
  BY DEF VerdictInv
<1> QED BY <1>1, VerdictInvariant, PTL

\* When every run has ended and none failed or overlapped, the log has an outcome for the
\* content that is stored, and the completion that was observed with it.
THEOREM QuietTasksAreJudged == Spec => []QuietIsJudged
<1>1. Init => OwedInv
  <2> SUFFICES ASSUME Init PROVE OwedInv
    OBVIOUS
  <2>1. Types
    BY TypesInit, PipelineAssumption DEF Types
  <2>2. Alone /\ InHand /\ Single /\ Owed
    BY InitWork DEF Alone, InHand, Single, Owed, Mid, Reading, Judging
  <2> QED BY <2>1, <2>2 DEF OwedInv
<1>2. OwedInv /\ [Next]_vars => OwedInv'
  <2> SUFFICES ASSUME OwedInv, [Next]_vars PROVE OwedInv'
    OBVIOUS
  <2>1. CASE Next
    <3>1. Types' /\ Alone' /\ InHand' /\ Owed'
      BY <2>1, TypesStep, AloneStep, InHandStep, OwedStep, PipelineAssumption, LevelAssumption
      DEF OwedInv, Types
    <3>2. Single'
      BY <2>1, SingleRuns, SingleLog, PipelineAssumption, LevelAssumption DEF OwedInv, Single
    <3> QED BY <3>1, <3>2 DEF OwedInv
  <2>2. CASE UNCHANGED vars
    <3>1. (Types /\ Alone /\ InHand)'
      BY <2>2, Stutters DEF OwedInv, Types, TypeOK, There, Alone, InHand
    <3>2. (Single /\ Owed)'
      BY <2>2, Stutters DEF OwedInv, Single, Owed, Untouched, HasOutcome, HasCompletion, About
    <3> QED BY <3>1, <3>2 DEF OwedInv
  <2> QED BY <2>1, <2>2
<1>3. OwedInv => QuietIsJudged
  BY DEF OwedInv, Owed, Untouched, Quiet, HasOutcome, HasCompletion, QuietIsJudged
<1> QED BY <1>1, <1>2, <1>3, PTL DEF Spec
=============================================================================
