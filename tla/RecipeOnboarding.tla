-------------------------- MODULE RecipeOnboarding --------------------------
(***************************************************************************)
(* One recipe of one scope from a declaration to an active version:        *)
(* automation/recipe_onboarding.                                           *)
(*                                                                         *)
(* The draft is one file that every command reads whole and, perhaps much  *)
(* later, replaces whole; no lock joins the two.  An activation writes the *)
(* immutable file of the version, the pointer of the active one and the    *)
(* draft, in this order, and a process may die anywhere.                   *)
(*                                                                         *)
(* A declaration is a member of Contents; with its version it stands for   *)
(* the definition digest.  capability is the digest of the code that is    *)
(* installed to run a recipe: it changes when the program is upgraded,     *)
(* perhaps while a test runs what it has loaded before.  Of a test that    *)
(* failed only the status it leaves is kept.                               *)
(***************************************************************************)
EXTENDS Naturals, FiniteSets

CONSTANTS
  Workers,        \* processes: taskctl recipe commands, dashboard buttons
  Contents,       \* declarations a draft may have
  Tasks,          \* tasks, as they are, a draft may be tested on
  None,           \* no draft, no test, no pointer
  MaxVersion, MaxCapability, MaxSessions     \* bounds

ASSUME OnboardingAssumption ==
  {MaxVersion, MaxCapability, MaxSessions} \subseteq Nat

VARIABLES
  draft,          \* recipe-drafts/<scope>/<id>.json
  files,          \* recipes/<scope>/<id>/<version>.json, perhaps incomplete
  pointer,        \* recipes/<scope>/<id>/active.json
  tested,         \* sessions that passed: their evidence, and the code that ran
  reviews,        \* what reviewers were given to review
  capability,     \* digest of the installed code
  pc, mem         \* control point and the draft every process has read

vars == <<draft, files, pointer, tested, reviews, capability, pc, mem>>

Test     == [version : Nat, content : Contents, task : Tasks, capability : Nat]
Statuses == {"draft", "tested", "test_failed", "reviewed", "active"}
Draft    == [version : Nat, content : Contents, status : Statuses, test : Test \cup {None}]
File     == [version : Nat, content : Contents, whole : BOOLEAN]
Pointer  == [version : Nat, content : Contents, capability : Nat]
Session  == [version : Nat, content : Contents, capability : Nat, ran : Nat, upgraded : BOOLEAN]
Work     == [draft : Draft \cup {None}, task : Tasks \cup {None}, capability : Nat,
             ran : Nat, upgraded : BOOLEAN]
Points   == {"idle", "write", "test", "create", "complete", "point"}

ASSUME NoneAssumption == None \notin Test

TypeOK ==
  /\ draft \in Draft \cup {None}
  /\ files \subseteq File
  /\ pointer \in Pointer \cup {None}
  /\ tested \subseteq Session
  /\ reviews \subseteq [version : Nat, content : Contents]
  /\ capability \in Nat
  /\ pc \in [Workers -> Points]
  /\ mem \in [Workers -> Work]

NoWork == [draft |-> None, task |-> None, capability |-> 0, ran |-> 0, upgraded |-> FALSE]

Init ==
  /\ draft = None /\ files = {} /\ pointer = None
  /\ tested = {} /\ reviews = {}
  /\ capability = 1
  /\ pc = [w \in Workers |-> "idle"]
  /\ mem = [w \in Workers |-> NoWork]

Goto(w, s) == pc' = [pc EXCEPT ![w] = s]
Leave(w)   == Goto(w, "idle") /\ mem' = [mem EXCEPT ![w] = NoWork]
\* The process goes on with draft d, which it is going to write at the end.
Carry(w, d, s) == Goto(w, s) /\ mem' = [mem EXCEPT ![w] = [NoWork EXCEPT !.draft = d]]

Declared(n, c) == [version |-> n, content |-> c, status |-> "draft", test |-> None]

\* What a test or a pointer says of a recipe: its definition and the code to run it.
Identity(r) == [version |-> r.version, content |-> r.content, capability |-> r.capability]

(***************************************************************************)
(* Commands read the draft, and write it back as they changed it.          *)
(***************************************************************************)
CreateDraft(w, c) ==
  /\ pc[w] = "idle"
  /\ draft = None
  /\ Carry(w, Declared(1, c), "write")
  /\ UNCHANGED <<draft, files, pointer, tested, reviews, capability>>

\* A changed declaration is a new version without evidence.
ChangedInPlace(c) == [draft EXCEPT !.content = c]        \* mutant: evidence is kept
Changed(c)        == Declared(draft.version + 1, c)

UpdateDraft(w, c) ==
  /\ pc[w] = "idle"
  /\ draft # None
  /\ c # draft.content /\ draft.version < MaxVersion
  /\ Carry(w, Changed(c), "write")
  /\ UNCHANGED <<draft, files, pointer, tested, reviews, capability>>

WriteDraft(w) ==
  /\ pc[w] = "write"
  /\ draft' = mem[w].draft
  /\ Leave(w)
  /\ UNCHANGED <<files, pointer, tested, reviews, capability>>

(***************************************************************************)
(* test_draft: the same test that passed, or failed and is not retried, is *)
(* only read again; otherwise the code of the recipe is loaded, and it     *)
(* runs while others go on.                                                *)
(***************************************************************************)
Repeats(d, t) ==
  /\ d.test # None
  /\ d.test.task = t /\ d.test.version = d.version /\ d.test.content = d.content
  /\ d.test.capability = capability

TestDraft(w, t) ==
  /\ pc[w] = "idle"
  /\ draft # None
  /\ ~Repeats(draft, t)
  /\ mem' = [mem EXCEPT ![w] = [NoWork EXCEPT !.draft = draft, !.task = t, !.ran = capability]]
  /\ Goto(w, "test")
  /\ UNCHANGED <<draft, files, pointer, tested, reviews, capability>>

\* The evidence names the code that is installed when the recipe has run.
Evidence(w) ==
  [version |-> mem[w].draft.version, content |-> mem[w].draft.content, task |-> mem[w].task,
   capability |-> capability]
SessionOf(w) ==
  [version |-> mem[w].draft.version, content |-> mem[w].draft.content,
   capability |-> capability, ran |-> mem[w].ran, upgraded |-> mem[w].upgraded]

Passed(d, r) == [d EXCEPT !.status = "tested", !.test = r]
Failed(d)    == [d EXCEPT !.status = "test_failed", !.test = None]

FinishTest(w) ==
  /\ pc[w] = "test"
  /\ \/ /\ Cardinality(tested \cup {SessionOf(w)}) <= MaxSessions
        /\ tested' = tested \cup {SessionOf(w)}
        /\ Carry(w, Passed(mem[w].draft, Evidence(w)), "write")
     \/ /\ Carry(w, Failed(mem[w].draft), "write")
        /\ UNCHANGED tested
  /\ UNCHANGED <<draft, files, pointer, reviews, capability>>

Reviewable == draft.status = "tested" /\ draft.test # None

ReviewDraft(w) ==
  /\ pc[w] = "idle"
  /\ draft # None
  /\ Reviewable
  /\ reviews' = reviews \cup {[version |-> draft.version, content |-> draft.content]}
  /\ Carry(w, [draft EXCEPT !.status = "reviewed"], "write")
  /\ UNCHANGED <<draft, files, pointer, tested, capability>>

(***************************************************************************)
(* activate_draft.                                                         *)
(***************************************************************************)
TestExists(d) == d.test # None                             \* mutant: no digest is compared
\* The test was of this definition and of the code that is installed.
TestIsCurrent(d) ==
  /\ d.test # None
  /\ d.test.version = d.version /\ d.test.content = d.content
  /\ d.test.capability = capability

Activate(w) ==
  /\ pc[w] = "idle"
  /\ draft # None
  /\ draft.status = "reviewed"
  /\ TestIsCurrent(draft)
  /\ mem' = [mem EXCEPT ![w] = [NoWork EXCEPT !.draft = draft, !.capability = capability]]
  /\ Goto(w, "create")
  /\ UNCHANGED <<draft, files, pointer, tested, reviews, capability>>

\* open("x") refuses a version that exists, even an incomplete one.
FreeAlways(n) == TRUE                                      \* mutant: open("w")
Free(n)       == ~\E f \in files : f.version = n
FileOf(w, whole) == [version |-> mem[w].draft.version, content |-> mem[w].draft.content,
                     whole |-> whole]

CreateFile(w) ==
  LET n == mem[w].draft.version IN
  /\ pc[w] = "create"
  /\ IF Free(n)
     THEN /\ files' = {f \in files : f.version # n} \cup {FileOf(w, FALSE)}
          /\ Goto(w, "complete")
          /\ UNCHANGED mem
     ELSE Leave(w) /\ UNCHANGED files
  /\ UNCHANGED <<draft, pointer, tested, reviews, capability>>

CompleteFile(w) ==
  /\ pc[w] = "complete"
  /\ files' = (files \ {FileOf(w, FALSE)}) \cup {FileOf(w, TRUE)}
  /\ Goto(w, "point")
  /\ UNCHANGED <<draft, pointer, tested, reviews, capability, mem>>

WritePointer(w) ==
  LET d == mem[w].draft IN
  /\ pc[w] = "point"
  /\ pointer' = [version |-> d.version, content |-> d.content, capability |-> mem[w].capability]
  /\ Carry(w, [d EXCEPT !.status = "active"], "write")
  /\ UNCHANGED <<draft, files, tested, reviews, capability>>

\* The program is upgraded, perhaps while recipes run; a process dies.
Overtaken(w) == [mem[w] EXCEPT !.upgraded = @ \/ pc[w] = "test"]
Upgrade ==
  /\ capability < MaxCapability
  /\ capability' = capability + 1
  /\ mem' = [w \in Workers |-> Overtaken(w)]
  /\ UNCHANGED <<draft, files, pointer, tested, reviews, pc>>

Crash(w) ==
  /\ pc[w] # "idle"
  /\ Leave(w)
  /\ UNCHANGED <<draft, files, pointer, tested, reviews, capability>>

-----------------------------------------------------------------------------
Begin(w) ==
  \/ \E c \in Contents : CreateDraft(w, c) \/ UpdateDraft(w, c)
  \/ \E t \in Tasks : TestDraft(w, t)
  \/ ReviewDraft(w) \/ Activate(w)

Advance(w) ==
  \/ WriteDraft(w) \/ FinishTest(w)
  \/ CreateFile(w) \/ CompleteFile(w) \/ WritePointer(w)

Next ==
  \/ \E w \in Workers : Begin(w) \/ Advance(w) \/ Crash(w)
  \/ Upgrade

Spec == Init /\ [][Next]_vars

-----------------------------------------------------------------------------
\* Whatever runs at the same time and wherever an activation dies, the active
\* pointer can be followed: the file of its version is complete, has the digest
\* the pointer names, and no other content ever had that version.  One pointer
\* that cannot makes load_recipes raise for the whole scope.
PointerIsReadable ==
  pointer # None =>
    /\ [version |-> pointer.version, content |-> pointer.content, whole |-> TRUE] \in files
    /\ \A f \in files : f.version = pointer.version => f.content = pointer.content /\ f.whole

\* The code that a session has run is the code its evidence names, except where the
\* program was upgraded while the recipe ran: the digest is taken afterwards
\* (recipe_onboarding.py:508) and names the new code then.
RanWhatItNames(t) == t.ran = t.capability \/ t.upgraded

\* What is active was tested and reviewed as it is, although drafts are edited all the
\* time.  Its test passed with the code the pointer names, and with no other unless an
\* upgrade came while that test ran.
ActiveWasTestedAndReviewed ==
  pointer # None =>
    /\ \E t \in tested : Identity(t) = Identity(pointer) /\ RanWhatItNames(t)
    /\ [version |-> pointer.version, content |-> pointer.content] \in reviews

\* The evidence a draft carries is about the declaration it carries ("a changed
\* declaration invalidates all evidence from the prior version").
EvidenceIsForDeclaration ==
  draft # None =>
    /\ draft.test # None =>
         draft.test.version = draft.version /\ draft.test.content = draft.content
    /\ draft.status \in {"tested", "reviewed"} => draft.test # None

\* An update that was saved stays: no later write brings back an older version,
\* and with it evidence that the update has invalidated.
UpdateIsNotLost ==
  [][draft # None => draft' # None /\ draft'.version >= draft.version]_draft
=============================================================================
