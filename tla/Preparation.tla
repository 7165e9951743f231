------------------------------ MODULE Preparation ------------------------------
(***************************************************************************)
(* The processes that prepare work: an execution that runs a spreadsheet    *)
(* recipe and verifies its output (dispatch.py, executors/excel.py), an     *)
(* execution or a `taskctl prepare` that analyses a registered project      *)
(* (executors/code_analysis.py, preparation_plan.py) and may export a       *)
(* report, and `taskctl project register` (project_profile.py).  They share *)
(* the attachment, the project's files and databases, which people edit at  *)
(* any moment, the registered profile, and the directory of reports; every  *)
(* attempt of an execution has a directory of its own.                      *)
(*                                                                         *)
(* A step is one access to what is shared.  A process may die between any   *)
(* two steps, or fail in a write: what it has written stays.                *)
(***************************************************************************)
EXTENDS TablePlan, CodePlan

CONSTANTS
  Runs,        \* the processes
  MayDo,       \* what each of them may be started for (bound)
  Recipes,     \* spreadsheet recipes
  Sheets,      \* contents of the attachment: [readable, rows]
  Profiles,    \* declarations of the project
  Queries,     \* what is asked of it: sets of terms
  Found,       \* what may be found at a path
  Worlds,      \* how things may stand at first: [sheet, found, bases]
  Quoting,     \* the <<profile, query, candidates>> whose name, text or paths hold the line by which
               \* a Markdown report says that its plan is ready, and which the report repeats
  MaxVersion,  \* reports of one project and format in one directory: 9999
  MaxEdits,    \* edits by people (bound)
  Absent

Jobs == {"table", "analysis", "prepare", "register"}
BaseStates == {"readable", "unreadable", "locked", "missing"}
Formats == {"txt", "md"}

ASSUME PreparationAssumption ==
  /\ MayDo \in [Runs -> SUBSET Jobs]
  /\ MaxVersion \in Nat \ {0} /\ MaxEdits \in Nat
  /\ Worlds \subseteq [sheet : Sheets, found : [ToSet(Paths) -> Found],
                        bases : [Databases -> BaseStates]]
  /\ \A s \in Sheets : s.rows \in Seq(Seq(Cells))
  /\ \A recipe \in Recipes :
       /\ Len(recipe.steps) \in Nat /\ DOMAIN recipe.steps = 1..Len(recipe.steps)
       /\ \A k \in DOMAIN recipe.steps :
            recipe.steps[k].operation = "map_columns" =>
              /\ recipe.steps[k].columns \in Seq(Cells)
              /\ recipe.steps[k].rename \in [DOMAIN recipe.steps[k].rename -> Cells]
  /\ \A terms \in Queries : IsFiniteSet(terms) /\ terms \subseteq Seq(Letters) \ {<<>>}
  /\ \A f \in Found : f.body \in Seq(Letters)
  /\ Absent \notin Runs \cup {"passed"}
  /\ Absent \notin [profile : Profiles, whole : BOOLEAN]
  /\ Absent \notin (Runs \cup Formats) \X (1..MaxVersion)

VARIABLES
  sheet,       \* the attachment
  found,       \* what is at each path of the project
  bases,       \* whether each database is readable, no database, not to be opened, or missing
  registered,  \* the stored profile, Absent or [profile, whole]
  temporary,   \* its .json.tmp, Absent or [profile, whole]
  outputs,     \* the file at each <<series, version>>: [value, state], none, partial or whole
  work,        \* the work of each process
  edits        \* how often people have edited

world == <<sheet, found, bases>>
registry == <<registered, temporary>>
preparationVars == <<world, registry, outputs, work, edits>>

Ended == {"done", "failed", "dead"}
States == {"new", "rows", "create", "fill", "verify", "digest", "discover", "search", "detail",
           "conclude", "replace"} \cup Ended

\* The directory of an attempt is its own; the reports of taskctl share the project's, where each
\* format has versions of its own.
Places == (Runs \cup Formats) \X (1..MaxVersion)
Series(r) == IF work[r].job = "prepare" THEN work[r].report ELSE r

NoFile == [value |-> Absent, state |-> "none"]
Idle == [job |-> "none", pc |-> "new", recipe |-> Absent, profile |-> Absent, terms |-> {},
         report |-> "none", todo |-> <<>>, hits |-> <<>>, candidates |-> {},
         result |-> Absent, place |-> Absent, verdict |-> Absent, edited |-> FALSE]

PreparationInit ==
  /\ \E w \in Worlds : sheet = w.sheet /\ found = w.found /\ bases = w.bases
  /\ registered \in {Absent} \cup {[profile |-> p, whole |-> TRUE] :
                                   p \in {p \in Profiles : WellFormed(p)}}
  /\ temporary = Absent
  /\ outputs = [p \in Places |-> NoFile]
  /\ work = [r \in Runs |-> Idle]
  /\ edits = 0

Stands(r, pc) == work[r].pc = pc
Fail(r) == work' = [work EXCEPT ![r] = [Idle EXCEPT !.job = work[r].job, !.pc = "failed"]]
Unstarted(r) == work[r].job = "none"

\* Whatever a process has read, or returned, may be out of date once something was edited.
Disturbed(self) == [r \in Runs |-> IF r # self /\ ~Unstarted(r)
                                   THEN [work[r] EXCEPT !.edited = TRUE] ELSE work[r]]

-----------------------------------------------------------------------------
(* A spreadsheet recipe. *)

\* dispatch_recipe validates the plan; the executor hashes the attachment, which must be there.
BeginTable(r, recipe) ==
  /\ Unstarted(r)
  /\ work' = [work EXCEPT ![r].job = "table", ![r].recipe = recipe,
                ![r].pc = IF ValidTablePlan(recipe) THEN "rows" ELSE "failed"]
  /\ UNCHANGED <<world, registry, outputs, edits>>

ReadRows(r) ==
  /\ Stands(r, "rows")
  /\ LET rows == Applied(work[r].recipe, sheet) IN
     work' = [work EXCEPT ![r].pc = IF rows.ok THEN "create" ELSE "failed",
                          ![r].result = IF rows.ok THEN rows.rows ELSE Absent]
  /\ UNCHANGED <<world, registry, outputs, edits>>

-----------------------------------------------------------------------------
(* The analysis of a project. *)

Loadable == /\ registered # Absent
            /\ registered.whole
            /\ WellFormed(registered.profile)

\* load_project: what is stored is checked like a declaration.  A blank query is refused.
BeginCode(r, job, terms, report) ==
  /\ Unstarted(r)
  /\ job = "analysis" \/ job = "prepare"
  /\ work' = [work EXCEPT ![r] =
       IF Loadable /\ terms # {}
       THEN [Idle EXCEPT !.job = job, !.terms = terms, !.report = report,
                         !.profile = registered.profile,
                         !.pc = IF job = "analysis" THEN "digest" ELSE "discover"]
       ELSE [Idle EXCEPT !.job = job, !.pc = "failed"]]
  /\ UNCHANGED <<world, registry, outputs, edits>>

\* source_digest loads the profile a second time and reads every file it selects.
Digest(r) ==
  /\ Stands(r, "digest")
  /\ IF Loadable /\ Digestible(registered.profile, found, bases)
     THEN work' = [work EXCEPT ![r].pc = "discover"]
     ELSE Fail(r)
  /\ UNCHANGED <<world, registry, outputs, edits>>

Discover(r) ==
  /\ Stands(r, "discover")
  /\ LET paths == Discovered(work[r].profile, found) IN
     IF Len(paths) <= FileLimit
     THEN work' = [work EXCEPT ![r].pc = "search", ![r].todo = paths]
     ELSE Fail(r)
  /\ UNCHANGED <<world, registry, outputs, edits>>

Scored(hits, p, score) == [q \in DOMAIN hits \cup {p} |-> IF q = p THEN score ELSE hits[q]]

Search(r) ==
  /\ Stands(r, "search") /\ work[r].todo # <<>>
  /\ LET p == Head(work[r].todo)
         score == SearchScore(work[r].terms, p, found[p])
     IN  work' = [work EXCEPT
           ![r].todo = Tail(@),
           ![r].hits = IF score > 0 THEN Scored(@, p, score) ELSE @]
  /\ UNCHANGED <<world, registry, outputs, edits>>

Rank(r) ==
  /\ Stands(r, "search") /\ work[r].todo = <<>>
  /\ work' = [work EXCEPT ![r].pc = "detail", ![r].todo = Best(work[r].hits), ![r].hits = <<>>]
  /\ UNCHANGED <<world, registry, outputs, edits>>

\* A hit is dropped if it can no longer be read, not if it no longer matches.
Detail(r) ==
  /\ Stands(r, "detail") /\ work[r].todo # <<>>
  /\ LET p == Head(work[r].todo) IN
     work' = [work EXCEPT
       ![r].todo = Tail(@),
       ![r].candidates = IF found[p].kind \in {"text", "large"} THEN @ \cup {p} ELSE @]
  /\ UNCHANGED <<world, registry, outputs, edits>>

Conclude(r) ==
  /\ Stands(r, "detail") /\ work[r].todo = <<>>
  /\ work' = [work EXCEPT
       ![r].result = Plan(work[r].profile, work[r].terms, work[r].candidates, bases),
       ![r].candidates = {},
       ![r].pc = IF work[r].report \in Formats THEN "create"
                 ELSE IF work[r].job = "analysis" THEN "verify" ELSE "done"]
  /\ UNCHANGED <<world, registry, outputs, edits>>

-----------------------------------------------------------------------------
(* Files that are written: an artifact, or a report in the first version that is free. *)

Free(d) == {v \in 1..MaxVersion : outputs[<<d, v>>].state = "none"}

\* A report must be of a known format.
CreateOutput(r) ==
  /\ Stands(r, "create") /\ work[r].job # "register"
  /\ LET d == Series(r) IN
     IF d \in Runs \cup Formats /\ Free(d) # {}
     THEN LET place == <<d, Min(Free(d))>> IN
          /\ outputs' = [outputs EXCEPT ![place] = [value |-> Absent, state |-> "partial"]]
          /\ work' = [work EXCEPT ![r].pc = "fill", ![r].place = place]
     ELSE Fail(r) /\ UNCHANGED outputs
  /\ UNCHANGED <<world, registry, edits>>

FillOutput(r) ==
  /\ Stands(r, "fill") /\ work[r].job # "register"
  /\ outputs' = [outputs EXCEPT ![work[r].place] = [value |-> work[r].result, state |-> "whole"]]
  /\ work' = [work EXCEPT ![r].pc = IF work[r].job = "prepare" THEN "done" ELSE "verify"]
  /\ UNCHANGED <<world, registry, edits>>

\* _verify_code_analysis_report, or verify_code_analysis_result if there is no report: a Markdown
\* report is only searched for the line that says "ready".
PlanPasses(w, held) ==
  \/ held.state = "ready"
  \/ w.report = "md" /\ <<w.profile, w.terms, held.candidates>> \in Quoting

\* verify_recipe_output and the verification of a plan.
Verify(r) ==
  /\ Stands(r, "verify")
  /\ LET w == work[r]
         held == IF w.place = Absent THEN w.result ELSE outputs[w.place].value
         passed == IF w.job = "table" THEN Verified(w.recipe, held, sheet)
                   ELSE PlanPasses(w, held)
     IN  work' = [work EXCEPT ![r].pc = "done",
                              ![r].verdict = IF passed THEN "passed" ELSE "failed"]
  /\ UNCHANGED <<world, registry, outputs, edits>>

-----------------------------------------------------------------------------
(* The registration of a project: a temporary file of a fixed name, opened exclusively. *)

\* mutant: the exclusive mode is dropped, and a temporary file somebody is still writing is taken
CreateTemporaryOver(r, profile) ==
  /\ Unstarted(r)
  /\ IF WellFormed(profile)
     THEN /\ temporary' = [profile |-> profile, whole |-> FALSE]
          /\ work' = [work EXCEPT ![r].job = "register", ![r].profile = profile, ![r].pc = "fill"]
     ELSE /\ work' = [work EXCEPT ![r].job = "register", ![r].pc = "failed"]
          /\ UNCHANGED temporary
  /\ UNCHANGED <<world, registered, outputs, edits>>

CreateTemporary(r, profile) ==
  /\ Unstarted(r)
  /\ IF WellFormed(profile) /\ temporary = Absent
     THEN /\ temporary' = [profile |-> profile, whole |-> FALSE]
          /\ work' = [work EXCEPT ![r].job = "register", ![r].profile = profile, ![r].pc = "fill"]
     ELSE /\ work' = [work EXCEPT ![r].job = "register", ![r].pc = "failed"]
          /\ UNCHANGED temporary
  /\ UNCHANGED <<world, registered, outputs, edits>>

FillTemporary(r) ==
  /\ Stands(r, "fill") /\ work[r].job = "register"
  /\ temporary' = [profile |-> work[r].profile, whole |-> TRUE]
  /\ work' = [work EXCEPT ![r].pc = "replace"]
  /\ UNCHANGED <<world, registered, outputs, edits>>

ReplaceRegistered(r) ==
  /\ Stands(r, "replace")
  /\ registered' = temporary
  /\ temporary' = Absent
  /\ work' = [Disturbed(r) EXCEPT ![r].pc = "done"]
  /\ UNCHANGED <<world, outputs, edits>>

-----------------------------------------------------------------------------
(* Surroundings. *)

Edit ==
  /\ edits < MaxEdits
  /\ edits' = edits + 1
  /\ work' = Disturbed(Absent)
  /\ UNCHANGED <<registry, outputs>>

EditSheet == /\ Edit
             /\ \E s \in Sheets \ {sheet} : sheet' = s
             /\ UNCHANGED <<found, bases>>

EditPath == /\ Edit
            /\ \E p \in ToSet(Paths), f \in Found : f # found[p] /\ found' = [found EXCEPT ![p] = f]
            /\ UNCHANGED <<sheet, bases>>

EditDatabase == /\ Edit
                /\ \E d \in Databases, b \in BaseStates :
                     b # bases[d] /\ bases' = [bases EXCEPT ![d] = b]
                /\ UNCHANGED <<sheet, found>>

\* The process dies, or a write fails: nothing it wrote is taken back.
Stop(r) ==
  /\ ~Unstarted(r) /\ work[r].pc \notin Ended
  /\ work' = [work EXCEPT ![r] = [Idle EXCEPT !.job = work[r].job, !.pc = "dead"]]
  /\ UNCHANGED <<world, registry, outputs, edits>>

PreparationNext ==
  \/ \E r \in Runs :
       \/ \E recipe \in Recipes : "table" \in MayDo[r] /\ BeginTable(r, recipe)
       \/ \E job \in MayDo[r], terms \in Queries, report \in {"none"} \cup Formats :
            BeginCode(r, job, terms, report)
       \/ \E profile \in Profiles : "register" \in MayDo[r] /\ CreateTemporary(r, profile)
       \/ ReadRows(r) \/ Digest(r) \/ Discover(r) \/ Search(r) \/ Rank(r) \/ Detail(r)
       \/ Conclude(r) \/ CreateOutput(r) \/ FillOutput(r) \/ Verify(r)
       \/ FillTemporary(r) \/ ReplaceRegistered(r) \/ Stop(r)
  \/ EditSheet \/ EditPath \/ EditDatabase

PreparationSpec == PreparationInit /\ [][PreparationNext]_preparationVars

-----------------------------------------------------------------------------
(* Properties. *)

\* What survives being written and read.  Sheets make rows equally long, have limits, and a sheet of
\* xlwt ends with the last row that has something in it; the texts of a .xlsx must be such as XML
\* gives back, those of a .csv no longer than its reader takes.
Survives(type, rows) ==
  /\ type \in {"xlsx", "xls"} =>
       /\ \A i \in DOMAIN rows : Len(rows[i]) = Len(rows[1])
       /\ SheetFits(rows) /\ <<type, rows>> \notin Heavy
  /\ type = "xlsx" => \A i \in DOMAIN rows : \A c \in ToSet(rows[i]) :
                        c \in DOMAIN XmlText /\ XmlText[c] = c
  /\ type = "xls" => ToSet(Last(rows)) # {Blank}
  /\ type = "csv" => \A i \in DOMAIN rows : ToSet(rows[i]) \cap LongTexts = {}

\* A verification that nothing was edited under passes an execution's output exactly if the rows
\* survive the output type and the declared checks hold of them: a result is refused only for what
\* its type cannot hold or its checks rule out, and a wrong one is never passed, through the writers
\* and readers of four file types (excel.py:422, 143, 213).
VerdictIsRight ==
  \A r \in Runs :
    LET w == work[r] IN
    w.job = "table" /\ w.pc = "done" /\ ~w.edited =>
      (w.verdict = "passed" <=>
         /\ w.result = Applied(w.recipe, sheet).rows
         /\ Survives(w.recipe.output, w.result)
         /\ \A k \in DOMAIN w.recipe.checks : RuleHolds(w.recipe.checks[k], w.result, w.result))

Occurs(term, text) ==
  \E i \in DOMAIN text : i + Len(term) - 1 <= Len(text) /\ SubSeq(text, i, i + Len(term) - 1) = term

\* The files a profile may read that really have one of the terms, in their name or in their text.
Matching(profile, terms) ==
  {p \in Managed \ Excluded :
     /\ profile.full \/ p \in Selected
     /\ found[p].kind = "text"
     /\ \E term \in terms : Occurs(term, PathText[p]) \/ Occurs(term, found[p].body)}

\* A plan nothing was edited under is ready exactly if one readable file of the managed directories
\* matches and every schema it needs was read: the search in chunks, its ranking and the second
\* reading neither miss the match nor hide another one (preparation_plan.py:135, 204, 245).  Only a
\* ready one is verified, but for a Markdown report of a query, name or path that says "ready"
\* itself (verification.py:181).
ReadyHasTheOnlyMatch ==
  \A r \in Runs :
    LET w == work[r] IN
    w.job \in {"analysis", "prepare"} /\ w.result # Absent /\ ~w.edited =>
      /\ w.result.state = "ready" <=>
           /\ Cardinality(Matching(w.profile, w.terms)) = 1
           /\ \A d \in w.profile.databases : bases[d] = "readable"
           /\ w.terms \cap DatabaseTerms # {} => w.profile.databases # {}
      /\ w.verdict = "passed" =>
           \/ w.result.state = "ready"
           \/ w.report = "md" /\ <<w.profile, w.terms, w.result.candidates>> \in Quoting

\* The stored profile is always a whole one, and a file that a process has returned keeps what it
\* returned, whatever other registrations and exports do, fail in or die of (project_profile.py:365,
\* preparation_plan.py:426).
FiledIsKept ==
  /\ registered # Absent => registered.whole
  /\ \A r \in Runs :
       work[r].place # Absent /\ work[r].pc \in {"verify", "done"} =>
         outputs[work[r].place] = [value |-> work[r].result, state |-> "whole"]
=============================================================================
