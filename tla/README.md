# Verification of the work automation core

This directory specifies the parts of the automation core and its browser extension (`src/automation`,
`src/*.py`, `src/extension`) whose correctness depends on order: several processes over the same files, people who decide
while programs run, and processes that die between two writes. TLC checks small instances of the
specifications and TLAPS proves what matters most for every instance.

To repeat a check: `tlc -workers 2 -config <run>.cfg <module>.tla`; a proof: `tlapm <module>.tla`.

## 1. The system

The program collects posts of maintenance boards as tasks (`WorkItem`), classifies them by rules or by an AI
assessment, and, if a person approves, prepares the work with an allow-listed recipe, verifies the result, and lets
a person confirm that the work is completed. There is no server: all state is files under `<root>/state`, and every
button of the dashboard, every `taskctl` command and every collection run is a process of its own.

| component | state | operations | interacts with |
|---|---|---|---|
| Approved execution (`execution_service`, `execution_store`, `execution`, `decisions`) | decision, claim, execution and verification events in `events.jsonl`; `executions/`, `result_versions/`, artifact directories | `record_decision`, `execute_task`, `recover_execution`, `confirm_task` | task store (reads), recipe store (reads), event log |
| Event log (`events`, `feedback`, `run_pipeline._record_event`) | `events.jsonl`, append only, unique ids | `read`, `append`, with or without a lock around it | everything |
| Pattern learning (`candidates`, `pattern_store`, `promotion`, `approval`, `replay`) | `patterns/<scope>/<id>/NNN.json`, immutable revisions; pattern decisions | `propose`, `review`, `promote`, `record_pattern_decision` | event log, classification rules |
| Recipe onboarding (`recipe_onboarding`, `recipes`) | `recipe-drafts/`, `recipes/` with immutable versions and an active pointer | create, update, test, review and activate a draft; select a recipe | approved execution |
| Inbox (`inbox`, `inbox_runner`) | bundles in Downloads, accepted bundles, claim files | accept (validate, claim, copy, publish, remove the source), ingest an observation | browser extension, pipeline, event log |
| Collection pipeline (`run_pipeline`, `task_store`, `store`) | raw captures, tasks and their revisions, work packages | one run over one post | Hermes, event log, notifications |
| Notifications (`notifications`, `notification_store`) | profiles, a delivery log | notify at once or as a digest; flush; retry | external transports |
| Preparation recipes and verification (`dispatch`, `executors/`, `verification`, `project_profile`, `preparation_plan`) | registered project profiles, exported reports; artifacts in the directory of an attempt | validate a plan, run it, verify the files; register a project, analyse it, export a report | approved execution, command line, attachments and project files that people edit |
| Launcher (`start.py`) | a pid file, a report nobody reads | start the dashboard and the runner unless they run | runner and dashboard |
| Browser extension (`extension/*.js`) | open posts, delivery ledger, source health and settings in `chrome.storage`; bundles in Downloads | scan a board, publish open posts and observations, the buttons of the popup | inbox |
| Dashboard (`dashboard.py`, `dashboard_read`), command line (`taskctl`) | the session of a page | render a task; decide, execute, rebuild, recover, confirm | event log, execution records, Core |
| Adapters, file handlers, converters | none | parsing and transformation | pipeline |

What is hard about it, and the property each component owes:

- *Approved execution.* An approval is bound to a task revision, a recipe definition and the hash of an
  attachment, and is validated long before the executor starts. Nothing may run against the latest decision, or with
  another definition or input than the approved one; one execution key runs once at a time; a result that is
  recorded as succeeded is really there; a call that dies leaves something an operator can repair.
- *Event log.* Read, check and write are three steps. Ids must stay unique, since a repeated id makes every later
  read raise, and what a caller was told is recorded must be found.
- *Completion.* It must rest on a succeeded and verified attempt and be recorded once.
- *Pattern learning.* No promotion without the approval of exactly that revision as the latest decision; a withdrawn
  pattern is suspended; active rules do not contradict each other.
- *Recipe onboarding.* An active version is one that was tested and reviewed as it is, and it can always be read; nothing else is.
- *Inbox.* A bundle is removed from Downloads only if exactly its content has been accepted; an accepted bundle never
  changes; a bundle stays only if it conflicts.
- *Pipeline.* A verdict belongs to the content it is about, though it is reused, overtaken or logged late; a model does
  not act or close a task; partial content is not judged; a revision number names one content.
- *Notifications.* What was delivered is not sent again, and tries are bounded, with several processes over one file that a crash may tear.
- *Browser extension.* A marker comes last; the ledger follows what was published; open posts and recoveries survive
  deliveries that fail, in a worker that is stopped at any await.
- *Preparation.* What is verified is right, and what is right is not refused, through four types of file; a plan is ready only if
  its file is the only match; what was stored or returned stays whole, whatever other processes write or die of.
- *Dashboard.* What is shown is the newest result with its own verdict, though the page is read in pieces and events
  come late; a button pressed again does nothing twice.

## 2. Modules

| module | models | state, and what it stands for |
|---|---|---|
| `ExecutionLifecycle` | abstract: one execution key | `executions`: requested, approved, executing, then failed (and a next attempt) or succeeded for good |
| `Acceptance` | abstract: what the inbox promises for bundles | bundles absent, whole or taken; accepted contents; what was handed over. No runners, claims, copies, crashes or removals that fail |
| `ExecutionService` | `record_decision`, `execute_task`, `recover_execution` | every file they share (`decisions`, `claims`, `history`, `verifications`, `executions`, `registry`, `artifacts`), the surroundings (`revision`, `input`, `definition`), the keys whose attachment was `edited` after its hash, and `pc`/`mem` of every process |
| `ActualCompletion` | `confirm_task` | execution records, reports that are still to come, the log with its ids, the callers |
| `EventFile` | `EventLog.read` | operators on a sequence of lines: what a reader sees and which error it meets |
| `EventLog` | `EventLog.append` and its callers | lines, who has the lock, what each writer has seen and was told |
| `PatternLifecycle` | `propose`, `review`, `promote`, `record_pattern_decision` | revisions per pattern, decisions, the holder of each lock, `pc`/`mem`, and the pairs of patterns whose promotions have `raced` |
| `RecipeOnboarding` | `create_draft`, `update_draft`, `test_draft`, `review_draft`, `activate_draft` | the draft file, version files (perhaps incomplete), the active pointer, the digest of the installed code, what was reviewed, the test sessions that passed (`tested`: what their evidence names, and the code that ran), and the draft each process has in memory |
| `Inbox` | `accept_completed_download`, `accept_source_observation`, `process_inbox` | bundles in Downloads, accepted content by id, the file each claim's name leads to, stored tasks, recorded observations, `pc`/`mem` of every runner |
| `Pipeline` | `run_pipeline`, `put_task`, `put_task_revision`, `store_raw`, rule and pattern matching, `route`, the two Hermes calls | the task, its retained revisions, its raw capture and package, the log, active patterns and recipes, `pc`/`mem` of every run |
| `BoardMonitor` | `scanAllBoards`, `scanBoard`, `archivePosts`, `publishObservation`, the handlers of the popup | the board, what `chrome.storage` holds (settings, open posts, hidden lists, ledger, health), bundles in Downloads, downloads that may still arrive, the worker's `pc`/`mem`; what was published `last` of each post, and whether the ledger never learned of it (`unrecorded`) |
| `Notifications` | `save_profile`, `notify_pipeline_event`, `deliver_with_profile`, `flush_batched` | profiles, delivery records (the young end of them, and whether the file is torn), the lock, `pc`/`mem` |
| `Dashboard` | `load_read_model`, `_latest_metadata`, `_execution_rows`, `_render_task` and its `submit_*` buttons | the task, execution records, events still to be appended, the fold of the log, the page as far as it is read, the session |
| `TablePlan` | plans of spreadsheet recipes: `dispatch` validation, `executors/excel.py` | none: operators on tables, for the readers and writers of each file type with their limits and what they make of texts, the steps of a plan and the checks of an output |
| `CodePlan` | `project_profile` discovery and the search of `preparation_plan` | none: operators for the files a profile may read, the search in chunks, the ranking and the plan |
| `Orders` | Python's `sorted` | none: one operator, for the plans of tables and of projects |
| `Preparation` | the processes that run a spreadsheet recipe, analyse a project, export a report or register a project | the attachment, the project's files and databases, the registered profile and its temporary file, written outputs and reports, the `work` of each process |
| `MC*` | instances | sets defined for the configurations, symmetry |
| `*Proofs` | theorems | see section 4 |

`ExecutionService` implements `ExecutionLifecycle` (`L == INSTANCE ExecutionLifecycle WITH Keys <- Keys, executions <-
executions`, `Lifecycle == L!Spec`: the stored records are the abstract ones), and `Inbox` implements `Acceptance` (`A == INSTANCE Acceptance WITH source <- Seen`,
`AcceptedAtOnce == A!Spec`: a bundle whose removal has begun counts as taken, and claims, copies and runners are not seen); `ActualCompletion` and `EventLog` take the reader of the log from `EventFile`
(their state and actions have different names, so that `LogProofs` can extend both, as `ReportingProofs` does `Notifications` and `Dashboard`, and `FilingProofs` `Inbox` and `Preparation`), and `Preparation` composes
`TablePlan` and `CodePlan`.

How the code becomes actions:

- A step is one access to shared state, with the conditions and early returns around it. Two accesses are one step only
  where a process of the model cannot tell: `get_task` and `_approved` in `Begin`; the reads of `record_decision` (a
  binding torn between two versions is refused later, as versions only grow); the read of the existing record and
  `next_attempt` in `Probe`; a step under a lock that contains one read and one write.
- A lock is an exclusion where something happens inside it (`PatternLifecycle.holder`, `EventLog`), and one step where
  the body is one check and one write (`AppendDecision` and `ClaimExecution` of `ExecutionService`).
- A process may die between any two steps. Its files stay, its file locks are released.
- `reject`, `modify` and `defer` have one effect on execution and promotion and are one action, `withhold`.
- Digests and hashes are the values they distinguish: an input is its hash, a definition its version number.

`ExecutionService` has one task, since each file belongs to one task or one of its keys. The log is there the sequence
of decisions, with each claim carrying the number of decisions before it; no reader depends on more of the order. A log
spoiled by a repeated id is the subject of `EventLog`, and a torn line too: `ActualCompletion` has repeated
ids but no torn lines. The executor of code analysis produces no file, so the properties of artifacts do not speak of
it. The AI policy check between the `executing` record and the claim cannot fail for an activated recipe and is left
out.

`RecipeOnboarding` has one recipe of one scope, since nothing but the loading of a scope's active recipes joins two of them. A declaration and its
version stand for the definition digest; a task stands for its id and revision; of a failed test only the status it leaves is kept, which is
all that later steps look at. A test runs the code that was installed when it began (`ran`), and its evidence names the code that is installed when it ends, as the digest
is taken then (`recipe_onboarding.py:508`). Selecting and loading active recipes changes nothing: `PointerIsReadable` says that it
never meets a pointer it would raise on.

In `Inbox` the content of a bundle is its declared files and `IdOf` is its capture or observation id, so two bundles with one id and two contents are posts
whose page is the same and whose attachments differ. Validation and comparison are atomic: they end well only if the bundle was whole
at their start. A removal may fail at its first file or at any later one (`FailRemove`), which nobody is told of: the bundle is handed over all the same. The pipeline is one step that stores the task or fails; an observation is recorded at most once by its id.

`PatternLifecycle` fixes the tasks that are replayed: `Conflicts` tells which rules contradict each other on one of
them, `Thin` which patterns are never recommended. While active rules agree, contradicting one of them is the same as
disagreeing with the verdict of the whole baseline. The definition of a pattern never changes, so its digest is left
out. `retire_pattern` has no caller.

`Pipeline` has one task. A content is a meaningful payload and stands for its digest; rules and patterns look at the features of a content and may depend on its classification.
Two captures differ in their bytes, their content, whether they have every attachment, and in what was observed or requested with them. The events that nothing reads back
are left out; what remains carries the content stored when it was logged, which need not be the content of the run that logs it. Hermes may give
any answer of `Replies`, none, or be switched off.

`BoardMonitor` has one board, whose posts are numbered, and whose list and pages change at any moment; the steps are the awaits of the service worker, of which a scan
is one at a time (`singleflight.js`). A download may leave its file although it is reported as failed, or although the worker is stopped, at once or later (`late`). `Collect` is the inbox runner,
which takes bundles with a marker. The selectors and the parser are the list itself.

In `Notifications` the task and the state version are fixed, so a key is an event class and a channel. A round of sending is all chunks of a message; if it fails some
of them may have been told. A crash may tear the record it writes in three ways (half a line, all but its end, half a character), of which the last makes the file read as
empty. `Age` drops records of more than 90 days.

`Dashboard` keeps the log as the fold `_latest_metadata` makes of it (`shown`), with every appended event folded in at once, and events that are not yet appended per attempt (`unlogged`). The start of an execution (requested, approved, executing) is one step
and the calls that decide nothing else are one step; each version of a result belongs to one key, as the input does not change. `ExecuteByHand` is `taskctl`.

In `Preparation` a cell is one of a few texts, of which `Number` and `TextRank` say what `float()` and Python's order make of them, and a text, a path or a term is a sequence of letters. A profile
is reduced to what its loading checks. `XmlText` says what an XML parser gives back of a text (a carriage return comes back as a line feed, a control character breaks the document), `Spaces` what `strip()`
leaves nothing of, `LongTexts` what `csv.reader` refuses; the limits of a workbook are constants, of which `Heavy` stands for the size of its file. A Markdown report is searched for one line: `Quoting`
are the declarations, queries and candidates whose own text holds that line. Each attempt has a directory of its own, as `ExecutionService` proves; the reports of `taskctl` share the project's, with versions per format. `NaN`, and the
limits of `xlwt` itself (whose failure is a run that ends without a result), are left out. The syntax of XML, SQLite and source code, the
plan of a code analysis recipe (which has no parameters) and the executor that drives Excel over COM are left out.

## 3. Runs

`Spec` is safety; `CHECK_DEADLOCK FALSE` everywhere, as calls are bounded and people may stop.

| run | instance | shows |
|---|---|---|
| `ExecApproval` | 1 call at a time, 2 inputs that change at any moment, 2 revisions, 2 definitions, 2 decisions, 2 attempts, recovery of what is still running | no claim overtakes a decision; the approved definition runs; a result is filed under the approved input, and made of it unless it was edited after its hash |
| `ExecConcurrency` | 2 calls, the initial execution and a rebuild, 2 attempts, 2 crashes (of a call, and of the recovery after it), 1 decision, fairness | one call per key, succeeded results in place, room in quarantine, no passed attempt recorded as failed, one key per directory, the abstract life cycle, and a started execution is settled, or left where a recovery accepts it |
| `LogMixed` | 2 writers with and 2 without the lock, 2 ids, 3 lines, 1 crash | repeats come from unlocked writers only; a readable log has everything acknowledged |
| `CompletionSingle` | 1 confirmation at a time, 2 keys, 2 revisions, 2 attempts, 1 crash | a completion rests on a verified success |
| `PatternPromotion` | 2 contradicting patterns, 2 processes that review, promote and decide, 3 decisions, 1 crash | activation follows the latest decision, withdrawal suspends, active rules agree unless their promotions raced |
| `OnboardingActive` | 2 commands at a time, 2 declarations, 2 versions, 1 task, 3 sessions that pass, 1 upgrade at any moment, any number of crashes | the active pointer is readable; what is active was tested and reviewed as it is, with the code it names unless an upgrade came into the test; a draft's evidence is about itself |
| `InboxAccepts` | 2 runners, 2 conflicting downloads of one post, 1 observation of its completion, 1 crash, failed copy or failed removal, fairness | nothing is lost and each bundle is accepted as if in one step, although claims do not exclude each other; only a conflict keeps a bundle in Downloads |
| `PipelineJudges` | 2 runs that may overlap, 3 captures in 2 contents (one of them partial), a rule, a pattern, Hermes with sound, unsure and bad answers, 1 failure or crash, 1 change of policy | verdicts stay with their content, models do not act, partial content is not judged, a revision names one content, a pipeline at rest has an outcome |
| `BoardScans` | 2 posts, 3 lists, 2 views of one page, a ledger of 1, 1 failure or stop, 1 change of the board, 1 click | the marker is last, the ledger follows publication, open posts and recoveries are not lost, pages are published again only after an eviction or if the ledger never learned of the last time |
| `NotificationsOnce` | 2 workers, 3 calls, a failure and a digest event, 2 channels, 1 saved profile, 1 crash, 1 refused message | no second delivery, counted attempts |
| `DashboardShows` | 3 starts over up to 3 result versions with 2 attempts, 2 revisions, 1 crash | the newest result with its own verdict, true rows, one version per rebuild |
| `PreparationFiles` | 1 process that does anything and 1 that reports or registers beside it, 9 recipes, 5 attachments (short and blank rows, unreadable, white space, texts that a type does not give back), 2 managed files, 1 outside and 1 excluded, 3 profiles, 2 versions, 1 edit, any number of deaths | a verdict is right, a ready plan has the only match, what is stored or returned stays whole |

*Bounds.* A race needs two processes and one object: two calls, two writers of each kind, two patterns. Two attempts
are a failure and its retry; three decisions on a pattern are approve, withdraw, approve again (or reject,
approve, reject). Two definitions, revisions and inputs are "the approved one" and "another one". One failed copy is what lets two runners hold claims of one id at the same time. `ExecApproval` has no crash: a call that is recovered while it runs leaves more behind than one that dies. Stamps tell equal decisions apart; with one stamp a repeated decision is a duplicate. A ledger of one entry evicts as soon as the second post is published. Three starts are a first execution, a retry or rebuild, and a
rebuild asked for again. `DashboardShows` has one outcome of the pipeline, one decision and one bad verdict of each kind, since what is shown treats the others alike.
In `PreparationFiles` the term that is searched is cut by the boundary
of two chunks, and one edit is what can come between any two accesses. Four rows, two columns and seven cells let results be on both sides of each limit, and one result is `Heavy`.
Three sessions are one that an upgrade comes into, one before and one after it.
The proofs of section 4 have none of these bounds.

*Assumptions.* `RecoverLive = FALSE` is an operator who recovers only executions nobody runs; the
command is documented so ("mark an interrupted executing request as failed", `taskctl.py:185`), but neither it nor the
button of the dashboard checks it. `ExecApproval` has it `TRUE`; every result that needs it says so. Nothing else is assumed of people: attachments and projects are edited, patterns promoted
and the program upgraded at any moment. Where the code lets that through, the formula itself names the case (`edited`, `raced`, `upgraded`, `overlap`), and section 5 lists it.

*Fairness* (`ExecConcurrency` and `InboxAccepts`). In `ExecConcurrency` a call that has begun goes on until it returns or dies (weak fairness of each
`Advance(w)`: a process the system schedules, whose locks are released when their holder dies), and so does a recovery that has begun (weak fairness of `FinishRecovery`). Nobody has to decide, start or edit anything, and no operator has to look after dead
executions: `taskctl recover` is run by people, so `ExecutingSettles` ends, for an execution whose process has died, in a state that it would accept (`LeftForOperator`), and not in its being settled.
In `InboxAccepts` a runner goes on (weak fairness of its steps), and its passes are repeated (`--interval`, or somebody who starts it again)
and turn to every complete bundle (strong fairness of `Pick(r, b)`; a bundle stays complete until somebody takes it).
A copy and a removal succeed in the end (`MaxFaults` bounds how often they fail): a file that is held open for ever stays, and its bundle is handed over with each pass. Two runners may keep each other from a bundle for ever
if a conflicting one lies beside it, so `WholeIsTaken` leaves that case out.
`PatternLifecycle.FairSpec` is stated for later use.

## 4. Proofs

All theorems are about the specification of their module, with arbitrary sets and bounds.

| theorem | states | assumes |
|---|---|---|
| `ExecutionServiceProofs!TypeCorrect` | `TypeOK` | |
| `...!ClaimsHonourDecisions` | `ClaimHonoursLatestDecision` | |
| `...!ApprovedDefinitionAlwaysRuns` | `ApprovedDefinitionRuns` | |
| `...!ApprovedInputIsFiled` | `ApprovedInputRuns` | |
| `...!OneCallPerKey` | `InFlightNotRerun` | no live recovery |
| `...!RegistryAlwaysReadable`, `...!OneKeyPerDirectory` | `RegistryReadable`, `DirectoryHasOneKey` | |
| `...!StoreImplementsLifecycle` | `Lifecycle` (refinement) | no live recovery |
| `...!SucceededStaysInPlace`, `!QuarantineAlwaysHasRoom`, `!PassedAttemptNeverFailed` | `SucceededInPlace`, `QuarantineHasRoom`, `PassedAttemptDidNotFail` | no live recovery |
| `LogProofs!TypeCorrect`, `!CompletionsAreBacked` | `CompletionTypeOK`, `CompletionIsBacked` of `ActualCompletion` | |
| `...!LogTypeCorrect`, `!AcksAreKept`, `!SerialisedAreDistinct` | `TypeOK`, `ReadableKeepsAcks`, `SerialisedNeverRepeat` of `EventLog` | |
| `PatternLifecycleProofs!TypeCorrect`, `!ActivationIsAuthorised`, `!WithdrawalsSuspend` | `TypeOK`, `ActivationHonoursLatestDecision`, `WithdrawnIsSuspended` | |
| `...!RulesAgree`, `!ShadowsOnly` | `ActiveRulesAgree`, `OnlyShadowIsActivated` (which exempt promotions that raced) | |
| `RecipeOnboardingProofs!TypeCorrect`, `!PointerAlwaysReadable`, `!ActiveIsTestedAndReviewed`, `!EvidenceAlwaysForDeclaration` | `TypeOK`, `PointerIsReadable`, `ActiveWasTestedAndReviewed`, `EvidenceIsForDeclaration` | |
| `FilingProofs!TypeCorrect`, `!NothingEverLost`, `!HandsOverTheBundle`, `!AcceptedStays`, `!ImplementsAcceptance` | `TypeOK`, `NothingIsLost`, `HandedOverIsTheBundle`, `AcceptedNeverChanges`, `AcceptedAtOnce` (refinement) of `Inbox` | |
| `...!PreparationTypesHold`, `!FiledFilesAreKept` | `PreparationTypeOK`, `FiledIsKept` of `Preparation` | |
| `...!VerdictsAreRight`, `!OnlyMatchIsReady` | `VerdictIsRight`, `ReadyHasTheOnlyMatch` of `Preparation` | |
| `...!ReadSurvives`, `!StreamFinds`, `!BestIsEnough` | what the file types, the search in chunks and the ranking keep: the facts the last two rest on | |
| `PipelineProofs!TypesHold`, `!PartialTasksAreNotJudged`, `!ModelsNeverAct`, `!QuietTasksAreJudged` | `TypeOK`, `PartialIsNeverJudged`, `ModelNeverActs`, `QuietIsJudged` | |
| `...!RevisionsNameContents`, `!VerdictsStayBound` | `RevisionNamesOneContent`, `VerdictsAreBound` | (runs that do not overlap, which the formulas themselves say) |
| `BoardMonitorProofs!TypesHold`, `!MarkersStandOnWholeBundles`, `!NothingUnsentIsSkipped`, `!OpenPostsAreRemembered` | `TypeOK`, `ReadyIsComplete`, `LedgerIsPublished`, `PendingIsNotForgotten` | |
| `...!RecoveriesAreTold`, `!PagesAreDeliveredOnce` | `RecoveryIsTold`, `DeliveredOnce` (action properties) | |
| `ReportingProofs!TypesHold`, `!StoryHolds` | `TypeInv`; `StoryInv`, the inductive invariant of the next one | |
| `...!DeliveriesAreFinal`, `!RoundsAreCounted` | `DeliveredIsNotResent` (action property), `AttemptsAreCounted` of `Notifications` | |
| `...!DashboardTypesHold` | `DashboardTypeOK` | |
| `...!NewestIsShown`, `!PassedRowsSucceeded`, `!RetriesMakeOneVersion` | `ShownIsNewestResult`, `PassedRowSucceeded`, `RetriedRebuildIsOneVersion` of `Dashboard` | |

The arguments, none of whose invariants is inductive without the strengthening named here:

- *Approval.* What a call holds as approved was the latest decision when it looked, and log positions never
  change. Definition versions only grow: the call reads the definition first, the version it compares with the approval later,
  so equality of the later one with the approved one, which is not newer than the first, leaves no room between them. The input a call files its result under is the one it has hashed and compared; as long as
  its key is not `edited`, that is the attachment.
- *Ownership.* Between the reservation of a key and its last put, the stored record of the key is the one the call
  holds, and nobody else holds it: a reservation needs a free or failed record, and only the owner (or a
  recovery after its death) writes it in between. The refinement follows: every put is a step of one key.
- *Registry.* Every reserved version is below `next`, identities are distinct, and a call's version is the one reserved for
  its key; hence a directory is never shared.
- *Files.* The artifacts in a directory are of attempts not later than the stored one, those in quarantine of
  attempts that failed; a file of the current attempt is in place until its own call moves it. So quarantine has room, and a succeeded
  record has its file.
- *Log.* A writer that holds the lock has seen every line of other lock holders, since none was written after it looked. A
  write appends, so an acknowledged line stays; a torn line makes the log unreadable, never shorter.
- *Completion.* A succeeded record is final and the log only grows, so what a call has read is still true when it writes.
- *Patterns.* The lock is exclusive, so what its holder has read of the pattern and of the decisions is still
  current when it writes. A call that is about to suspend stays so until it did or died. Whatever promotion has replayed
  agrees with every active rule, or with one of which an activation has overtaken it (`raced`); and the pattern of such a promotion is in shadow, as it was at its review, or was activated by another promotion of it meanwhile.
- *Onboarding.* Without a lock a write may bring back an old draft, so nothing can be said about which draft is in the file; but every draft that anybody has
  read or holds is sound (its evidence names its own version and content, and is among the passed tests and the reviews), and evidence is never
  withdrawn. A test that is under way has loaded the code that is installed, unless an upgrade came since; so a session that passes has run what it names, or was `upgraded`. The exclusive create leaves one creator per version, who finds and leaves the only file of it; a complete file never changes, so the
  pointer stays readable.
- *Inbox.* Nothing is assumed of claims. Only a rename onto a free name changes the inbox, so whatever a runner found or published there stays; a runner that
  removes a source or hands over has found or published exactly its bundle, which is the strengthening (`SettledInv`). For the
  refinement, a runner is busy with a bundle that has appeared (`SourceInv`), and what it hands over is accepted, whether or not its source could be removed; so the source is still whole when its copy gets a
  free name, although it was compared some time before.

- *Pipeline.* Whole contents are remembered (`vouched`), and whatever a run or the store holds as whole is one of them (`VouchedInv`). While runs do not overlap there is
  one under way (`Alone`), and what it has read is what is stored (`InHand`), so a new content gets a number above all that were given (`Named`; together `RevisionInv`). A
  run that has not yet judged holds no verdict (`Fresh`), one that has judged holds a verdict about its own content, as every logged one is (`Bound`), and an assessment of the model names a
  level with a route, of which the two that act are sent to a review instead (`Levelled`; together `VerdictInv`). `OwedInv` says what a run that is under way still owes to the log, so that nothing is owed when all are done.
- *Browser extension.* While a bundle is written, what it lacks is what is left to download (`MarkerInv`), and the marker is the last of that. Stored or in the hands of a
  scan, a ledger is covered by what was published (`LedgerInv`). What is owed of a post is in the stored list, in the answers of the scan, or in the restoration that a failure has ordered
  (`OwedInv`). The error of a board is cleared only by a scan that told of the recovery (`HealthInv`). For `DeliveredOnce` the ledger that counts has the last delivery of each
  post unless that one is `unrecorded` or the stored ledger is crowded (`OnceInv`); the lemma `TopmostAreEnough` counts what the cut of the ledger keeps.
- *Notifications.* The lines of one key have growing attempts and none follows a delivery (`OneStory`), so the latest delivery, which is the record of the highest attempt, is the last
  line of its key, and a look at a key that was delivered settles it. Until a worker has written its line it holds the lock, so what it saw still holds then (`LookInv`): the store
  accepts its line. Hence a round under way becomes exactly one kept or one lost line (`CountInv`), also where a torn end takes two lines at once, which differ because no attempt is
  counted twice. The attempts of the kept rounds are distinct numbers up to one more than the most patient profile allows, as only a flush goes beyond the limit, and it
  takes up a queued record, which was queued within it (`QueuedInTime`).
- *Dashboard.* The order of attempts is total, and the fold is at an attempt than which no logged one is newer; a verdict is only logged of an attempt, which is in the log then
  (`ShownInv`), so an event of a newer attempt finds no verdict on it, and one of the same attempt brings its own (`FoldedFacts`, `LogsKeepShown`). An attempt that is run is the one its record
  says is executing, and an event that says passed is appended after the record says succeeded (`CoreInv`), which is never taken back (`Final`); so what is
  read as passed is still so when the records are read (`PassedInv`). The requests of a session have different counters, up to the one it asks with, which counts the
  answers it was given (`SessionInv`).
- *Preparation.* A place is taken only where nothing was written yet, and what was created there stays; so no two processes have one place, and only the owner fills
  it, before it returns (`OwnFile`). The exclusive name of the temporary file leaves one registration under way, and what that puts in place is the file it has filled
  itself. A process that dies keeps its name blocked, which is why nobody else can take over what it left half written.
- *What a preparation concludes* (`VerdictInv`, which TLC has found to hold in the instance of `PreparationFiles`). As long as nothing was edited under a process, what it has is what its recipe makes of the
  attachment (`TableRight`), its hits are the matches among the files it has been through (`Searching`), and its candidates with those still to be read are all matches or more
  than one (`Detailing`, `Enough`); an edit ends these claims, not those about its stage. With that, the two properties are facts about the operators. What an accepted plan makes
  of an attachment is a table with a header of distinct names that are not blank (`AppliedHeaded`), so no type of file can lose a column, and what a type does to the rest is what `Survives` names: rows that are padded or cut, texts that XML changes or refuses, and what
  exceeds a limit, of which nothing is read (`XlsxSurvives`, `XlsSurvives`, `ReadSurvives`). `Padded` after `XmlText` gives the rows back only if each of the two does (`PlainSame`). An order as the sorts need it exists, and has every element once (`OrderExists`, `ArrangedOnce`). The count of a term is positive exactly if the
  term occurs (`CountFinds`: the first occurrence overlaps nothing counted before it). A chunk with the end of what came before it has at least the matches of that end, since a count does
  not fall when text is appended (`CountGrows`), so no score is negative; it has more of them if a term ends in the chunk and none did before, and the end is one letter shorter than the longest term, so that no match is cut (`AdvancedSearched`).
- *Recursion in it.* What a fold or a recursive function computes at each stage is shown by its first counterexample (`LeastNumber`, from the well-foundedness of
  the numbers), and that the function of a `LET` exists at all by the first stage without one (`ChainExists`, `SumExists`): until then the definition, a `CHOOSE`, says nothing.

The assumptions on constants say what the code fixes: an answer of the model that passes its validation names a level with a route (`LevelAssumption`); `None` is no content, route,
title, page or code; the attachments of a page are finitely many and none is called `_READY`; a title begins with itself (`BoardAssumption`, `CodesAssumption`); a profile
names at least one channel and none twice, and 1 to 10 attempts (`NotificationsAssumption`, `notification_store.py:53` to `:83`); `Absent` is no verdict and no content (`DashboardAssumption`), nor a declaration, a place of a file or the word "passed"; cells and texts are sequences of what is declared,
a query is finitely many terms and none is empty (the words of a text, `preparation_plan.py:249`), and a renaming gives texts to names (`PreparationAssumption`, `CellAssumption`, `PathAssumption`). More than one of the best hits is read in detail
(`LimitAssumption`: with a limit of one, a plan would call the best of several matches the only one; the code has 50).

Proved only, and in no run, as the runs would show less: the `TypeOK`s, `RegistryReadable`, `OnlyShadowIsActivated`, `AcceptedNeverChanges` and `HandedOverIsTheBundle` (which `AcceptedAtOnce` implies).

Only model-checked: `ExecutingSettles` and `WholeIsTaken`, since liveness is beyond the prover.

The proofs changed three definitions. The operations of a plan had overlapping arms in a `CASE` (a failure, and each operation), so that what a failed step is followed by
was left to a choice; now a failure stays one before anything else is asked (`ApplyStep`). The sorts are stated by their order (`Orders`) and not by the library's `SortSeq`, and the folds
over steps, chunks and letters are recursive functions, because neither an operator given to a library fold nor a function built with `:>` and `@@` can be reasoned about.

## 5. Where code and text disagree

What follows is in the models or was seen while modelling, and is not among the runs. Where a formula and an instance are named, adding the formula to that
configuration shows it.

*Approved execution, completion and the log*

- A process that dies between the reservation of a key and the `executing` record leaves a key that neither a
  retry nor a recovery accepts (`NoKeyIsStranded` in `ExecConcurrency`).
- Once an id is repeated, every append raises `DuplicateEventError` in its own read, which direct callers
  take for "already recorded" (`AckedIsLogged` in `LogMixed`).
- A recovery of a live execution lets the same key run twice, and the first call then writes `succeeded` over the `failed` record (set `RecoverLive = TRUE`
  in `ExecConcurrency`).
- The attachment is hashed before the approval check and opened again by the executor, so an edit in between reaches it under the old approval (`ApprovedInputRuns` without `edited`;
  `tests/test_execute_command.py:318`, `test_approval_bound_to_old_input_never_reaches_executor`).
- An execution whose process dies stays `executing` until somebody runs `taskctl recover`: nothing in the program looks for it.
- The identity "initial" stays bound to the first key, so a replaced attachment is refused after a failure in spite of a new approval, which the
  advice to the operator promises (`MayReserve`).
- A claim looks only at decisions, not at a revision stored meanwhile.
- Two direct writers of one event both append it. Two confirmations with different bases are both recorded, and two of one execution spoil the log, so
  that neither completion is (`OneCompletion` and `ConfirmedIsCompleted`, with two `Callers` in `CompletionSingle`).
- A success whose process dies before its verification event can neither be confirmed nor recovered.

*Patterns, onboarding and the inbox*

- A decision repeated in the same words is dropped as a duplicate, also after a different one, as the id of its event leaves out the time (`candidates.py:187`). So reject, approve, reject
  leaves the approval as the latest and the pattern goes active (`tests/test_candidates.py:290`, `test_a_rejected_decision_does_not_authorize_promotion`).
- `test_draft` writes back the whole draft it has read before the test, so an update made while the test ran is undone and the evidence
  it has invalidated is back (`UpdateIsNotLost` in `OnboardingActive`). What becomes active is still consistent, but it is not what was declared last.
- The digest of the code in the evidence of a test is taken after the recipe has run (`recipe_onboarding.py:508`). If the program is upgraded meanwhile, the evidence names code that was never tested,
  and the version goes active with it (`ActiveWasTestedAndReviewed` without `upgraded`).
- An activation that dies in its version file makes that version impossible to activate; one that is delayed before its pointer can set the pointer back to an
  older version.
- A claim of the inbox does not exclude others: its name is removed after its lock was given back. What keeps the inbox consistent is that a rename does not replace a directory
  that is not empty.
- An accepted bundle whose runner dies, or whose pipeline fails, is never handed over again, and a completion observed before its task is collected is dropped; both
  sources are gone by then, although the reports say "retry".
- A second capture of an unchanged page with other attachments has the same id and stays in Downloads for ever, without a report.
- Two promotions at the same time can activate contradicting rules, or revive a pattern suspended in between (`ActiveRulesAgree` and `OnlyShadowIsActivated` without `raced`).
- A removal that fails is not reported (`_remove_tree`), so a bundle with a file that is held open is handed over again with each pass.

*Pipeline*

- Two runs of one task record what they found on one content under the digest of the other, as events carry the digest of what is stored when they are
  appended; `put_task` excludes threads, not processes, so that one revision number may name two contents (`VerdictsAreBound` and `RevisionNamesOneContent` without `overlap`).
- "AI is disabled" is logged as a block of the content; switched on again, the content stays blocked, as the block is found again (`_prior_hermes_result`).
- A crash between the write of the task and its `source_completion` event loses the event: the next run finds the capture stored already.
- An item that Hermes calls unclear may be closed by a rule of the evaluation if an assessment was requested, although the comment above `auto_complete`
  (`run_pipeline.py:917`) wants no task closed on a model's judgment: only the second of its two answers is looked at.
- A revision that returns to an earlier content (A, B, A) finds its events logged already.

*Browser extension*

- A post that is hidden in the popup while a scan publishes is shown again if the scan found an answered one among the hidden: it writes back the list it read before (`extension/HISTORY.md:26` promises that the mute stays).
- With Telegram switched on, `sendTelegram`, which no module defines any more (`background.js:77`), ends the scan of the board after its state was saved.
- An answer to "report" completes "report two" as well, since titles are compared by their beginning; the last row of a list is not looked at.
- The ledger is cut by order of keys, and JavaScript keeps numeric keys in ascending order: what is kept are the highest numbers, not the latest deliveries.
- A page whose marker arrives after its download was given up, or whose worker is stopped before the ledger is saved, is published, and published again by the next scan
  (`DeliveredOnce` without `unrecorded`).
- A failed delivery takes back the whole state of the scan, also the posts it saw for the first time, which it has published.
- The page of a login form can be archived as a post without content; two attachments with the same safe name overwrite each other.

*Notifications*

- A record torn in the middle of a character makes the delivery file unreadable; it is then read as empty, so that everything is sent again and nothing more is recorded
  ("a stable delivery key deduplicates a successful attempt", `notifications.py:304`). A record torn just before its newline is lost with the next one. A message with a
  line separator other than the newline splits its record.
- A flush that failed for good is not queued again; an event delivered at once may still be retried.

*Preparation*

- Rows of unequal length do not survive `.xlsx` and `.xls`, which pad them, nor do blank rows at the end of an `.xls`: the honest output of such a recipe is refused by its verification (`Survives`).
- `escape()` leaves carriage returns and control characters in an `.xlsx` as they are (`excel.py:178`): the first come back as line feeds, the others make it unreadable. Neither is the reader's limits on rows, columns, cells and bytes
  asked for when a workbook is written (`excel.py:52` to `:57`, `:115`, `:136`), nor the length `csv.reader` takes: such results are refused too.
- A Markdown report passes if the line for "ready" occurs anywhere in it (`verification.py:181`), also in the query or a path that it repeats (`preparation_plan.py:436`): `ReadyHasTheOnlyMatch` without `Quoting`.
- A profile for the full codebase lifts the patterns and not the directories (`project_profile.py:302` to `:321`): a second match outside of them does not make a plan ambiguous.
- A database that is there and cannot be opened fails a whole analysis in its digest (`project_profile.py:348`), where the search would only call its schema missing.
- The attachment or the project may be edited between the run and its verification; the profile is loaded twice by an execution, and the digest it returns is of the project before the search.
- A registration that dies leaves its temporary file, which blocks every later one of that project (`open("x")`, `project_profile.py:365`). A report whose process dies stays, half written, under its version.

*Dashboard*

- After A, B, A the version that is shown stays that of B, so every decision is refused as made on an old version.
- A page that is read between the steps of the pipeline shows the new version with the old classification; title, body and version are read at different moments.
- The recovery button names the key and not the attempt, so a page that is old can fail a newer attempt. A failed execution offers no retry.
- A `verification_unverifiable` of a superseded attempt that is logged late changes the state that is shown, though the docstring of `_latest_metadata` selects the newest attempt; artifacts are taken over from any attempt.
- A rebuild or an execution that ends after the completion shows its own state instead of "completed". A revised task that has a decision of its old version is in no queue.

## 6. Not modelled, and why

- *The executor `restarea`* drives Excel over COM. In `ExecutionService` an executor and a verifier are one step each, whose outcome `Preparation` looks into.
- *What corrections make a candidate* (`candidates.py`, evidence counting) and rule text matching: data, given to `PatternLifecycle` and `Pipeline` as constants.
- *Launcher* (`start.py`): it ends after it has started the others, and a second runner started by mistake is one of the runners of `Inbox`.
- *Forms of the dashboard* for feedback, recipes and preparation plans, previews of documents: they write through the functions of the modelled components, or nothing.
- *Extension*: detection of selectors and parsing of pages, the look of the popup and its log.
- *Adapters, file handlers, sanitizing of texts, stand-alone converters*: parsing and transformation of one input, without state.

Worth doing next: the composition of `BoardMonitor`, `Inbox` and `Pipeline` over one bundle; feedback and confirmations as steps of
`PatternLifecycle`.
