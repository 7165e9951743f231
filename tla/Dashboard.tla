------------------------------ MODULE Dashboard ------------------------------
(***************************************************************************)
(* dashboard.py and automation/dashboard_read.py: what a person is shown   *)
(* of one task, and what the buttons under it do.                          *)
(*                                                                         *)
(* A page is put together from files that others write meanwhile: the      *)
(* event log, read twice, and then the execution records.  The log is      *)
(* folded into the state of the task (_latest_metadata); here it is kept   *)
(* as that fold, and every appended event is folded at once.  An execution *)
(* puts its record first and appends its events later, so that events of a *)
(* superseded attempt may come after those of its successor.               *)
(*                                                                         *)
(* A button acts on what the page showed when it was rendered.  What Core  *)
(* makes of it is in ExecutionService, ActualCompletion and Pipeline; here *)
(* a call of Core is one step, but for an execution, which takes its time. *)
(* Attempts are known by their rank, <<result version, attempt>>.          *)
(***************************************************************************)
EXTENDS Naturals, Sequences, FiniteSets, Functions

CONSTANTS
  Contents,       \* meaningful payloads of the task
  Outcomes,       \* what the pipeline makes of them: review_required, completed, blocked
  Actions,        \* decisions: approve, reject, modify, defer
  Moved,          \* whether a failed attempt had artifacts to be moved into quarantine
  Rejections,     \* what verification finds in a bad result: failed, unverifiable
  Absent,
  MaxVersion, MaxAttempt, MaxStarts, MaxRevision, MaxDeaths   \* bounds

ASSUME DashboardAssumption ==
  /\ Absent \notin Contents /\ Absent \notin {"passed", "failed", "unverifiable"}
  /\ Outcomes \subseteq {"review_required", "completed", "blocked"}
  /\ Actions \subseteq {"approve", "reject", "modify", "defer"}
  /\ Moved \subseteq BOOLEAN
  /\ Rejections \subseteq {"failed", "unverifiable"}
  /\ {MaxVersion, MaxAttempt, MaxStarts, MaxRevision, MaxDeaths} \subseteq Nat \ {0}

Versions == 1..MaxVersion
Ranks    == Versions \X (1..MaxAttempt)
NoRank   == <<0, 0>>

VARIABLES
  revision, content,  \* the stored task
  run,            \* where the pipeline run that is under way has got to, or Absent
  ids,            \* ids of the pipeline events that are logged
  executions,     \* execution records, by result version
  requests,       \* ids of the rebuild requests that have a version, 2, 3, ...
  live,           \* attempts that somebody is running
  unlogged,       \* events of every attempt that are still to be appended
  view,           \* the fold of the log
  verdicts,       \* verification_by_key: the last verdict logged of every attempt
  page,           \* the page of the session: what it has read, and shows
  session,        \* session_state: its nonce, the rebuild counter, the attempt it waits for
  deaths,         \* processes that died, log lines that were refused
  logged, made    \* history: attempts with an event in the log; rebuilds a session was told of

task  == <<revision, content, run, ids>>
core  == <<executions, requests, live, unlogged>>
shown == <<view, verdicts, logged>>
dashboardVars == <<task, core, shown, page, session, deaths, made>>

NoRecord == [state |-> "none", attempt |-> 0]
NoPage ==
  [at |-> "closed", verdicts |-> [r \in Ranks |-> Absent], version |-> 0, decision |-> Absent,
   verdict |-> Absent, completed |-> FALSE, rows |-> [v \in Versions |-> NoRecord]]
NoView ==
  [state |-> Absent, version |-> 0, rank |-> NoRank, execution |-> Absent, quarantine |-> NoRank,
   verdict |-> Absent, decision |-> [action |-> Absent, version |-> 0], completion |-> FALSE]
NoEvent ==
  [type |-> Absent, state |-> Absent, version |-> 0, rank |-> NoRank, execution |-> Absent,
   quarantined |-> FALSE, verdict |-> Absent, decision |-> NoView.decision, completion |-> FALSE]

DashboardInit ==
  /\ revision = 1 /\ content \in Contents /\ run = "stored" /\ ids = {}
  /\ executions = [v \in Versions |-> NoRecord] /\ requests = <<>>
  /\ live = {} /\ unlogged = [r \in Ranks |-> <<>>]
  /\ view = NoView /\ verdicts = [r \in Ranks |-> Absent] /\ logged = {}
  /\ page = NoPage /\ session = [nonce |-> 1, counter |-> 1, waits |-> NoRank]
  /\ deaths = 0 /\ made = 0

-----------------------------------------------------------------------------
(***************************************************************************)
(* _latest_metadata: one event is folded into what is shown.               *)
(***************************************************************************)
Older(r, s) == r[1] < s[1] \/ (r[1] = s[1] /\ r[2] < s[2])

Technical == {"stored", "verification_recorded"}
Settling  == {"review_required", "completed", "blocked", "requested", "approved", "executing",
              "succeeded"}

\* A late failure of some stage does not hide what came of the task.
StateShown(m, e) ==
  CASE e.state \in Technical \cup {Absent}                            -> m.state
    [] e.state = "verification_failed" /\ m.state \in Settling        -> m.state
    [] OTHER                                                          -> e.state

VersionShown(m, e) == IF e.version # 0 THEN e.version ELSE m.version

\* mutant: a newer attempt inherits the verdict of the one before it
RankedWithVerdict(m, e) ==
  IF e.rank = NoRank \/ Older(e.rank, m.rank) THEN m
  ELSE [m EXCEPT !.rank = e.rank, !.execution = e.execution,
                 !.quarantine = IF e.execution # "failed" THEN NoRank ELSE @]

\* An attempt that is at least as new as the one that is shown replaces it, and a newer one
\* takes nothing over from it.
Ranked(m, e) ==
  IF e.rank = NoRank \/ Older(e.rank, m.rank) THEN m
  ELSE LET newer == Older(m.rank, e.rank) /\ m.rank # NoRank
       IN [m EXCEPT !.rank = e.rank, !.execution = e.execution,
                    !.verdict = IF newer THEN Absent ELSE @,
                    !.quarantine = IF newer \/ e.execution # "failed" THEN NoRank ELSE @]

\* The state of the task is not taken from an execution event of a superseded attempt.
Restored(m, old, e) ==
  IF e.type = "execution" /\ Older(e.rank, m.rank) THEN [m EXCEPT !.state = old.state] ELSE m

Quarantined(m, e) ==
  IF e.quarantined /\ e.rank = m.rank /\ e.execution = "failed"
  THEN [m EXCEPT !.quarantine = e.rank] ELSE m

Verified(m, e) ==
  IF e.verdict = Absent \/ (e.rank # NoRank /\ e.rank # m.rank) THEN m
  ELSE [m EXCEPT !.verdict = e.verdict,
                 !.state = CASE e.verdict = "failed"       -> "verification_failed"
                             [] e.verdict = "unverifiable" -> "verification_unverifiable"
                             [] OTHER                      -> @]

Decided(m, e) ==
  [m EXCEPT !.decision = IF e.decision.action # Absent THEN e.decision ELSE @,
            !.completion = @ \/ e.completion]

Folded(m, e) ==
  LET told   == [m EXCEPT !.state = StateShown(m, e), !.version = VersionShown(m, e)]
      ranked == Restored(Ranked(told, e), m, e)
  IN Decided(Verified(Quarantined(ranked, e), e), e)

Logs(e) ==
  /\ view' = Folded(view, e)
  /\ logged' = IF e.rank = NoRank THEN logged ELSE logged \cup {e.rank}
  /\ verdicts' = IF e.verdict # Absent THEN [verdicts EXCEPT ![e.rank] = e.verdict] ELSE verdicts

-----------------------------------------------------------------------------
(***************************************************************************)
(* What the pipeline does to the task: it is stored, and what became of it *)
(* is logged, once for every content.  A run that dies is in Pipeline.     *)
(***************************************************************************)
\* A run over the content that is stored changes nothing, and is left out.
Capture(c) ==
  /\ run = Absent
  /\ c # content /\ revision < MaxRevision
  /\ content' = c /\ revision' = revision + 1
  /\ run' = "stored"
  /\ UNCHANGED <<ids, core, shown, page, session, deaths, made>>

LogOnce(kind, state) ==
  IF <<kind, content>> \in ids THEN UNCHANGED <<ids, shown>>
  ELSE /\ ids' = ids \cup {<<kind, content>>}
       /\ Logs([NoEvent EXCEPT !.state = state, !.version = revision])

Store ==
  /\ run = "stored" /\ run' = "judged"
  /\ LogOnce("stored", "stored")
  /\ UNCHANGED <<revision, content, core, page, session, deaths, made>>

Judge(state) ==
  /\ run = "judged" /\ run' = Absent
  /\ LogOnce(state, state)
  /\ UNCHANGED <<revision, content, core, page, session, deaths, made>>

-----------------------------------------------------------------------------
(***************************************************************************)
(* Executions.                                                             *)
(***************************************************************************)
Event(r, state) ==
  [NoEvent EXCEPT !.type = "execution", !.state = state, !.rank = r, !.execution = state]
Quarantine(r, moved) == [Event(r, "failed") EXCEPT !.quarantined = moved]
Verification(r, state, verdict) ==
  [NoEvent EXCEPT !.type = "verification", !.rank = r, !.execution = state, !.verdict = verdict,
     !.state = CASE verdict = "failed"       -> "verification_failed"
                 [] verdict = "unverifiable" -> "verification_unverifiable"
                 [] OTHER                    -> "verification_recorded"]

MayExecute(v) ==
  /\ view.decision = [action |-> "approve", version |-> revision]
  /\ executions[v].state \in {"none", "failed"} /\ executions[v].attempt < MaxAttempt
  /\ SumFunction([u \in Versions |-> executions[u].attempt]) < MaxStarts
  /\ v > 1 => executions[1].state = "succeeded"

Attempt(v) == <<v, executions[v].attempt + 1>>

\* A request, which is approved and started before anything is run.
Starts(v) ==
  /\ MayExecute(v)
  /\ executions' = [executions EXCEPT ![v] = [state |-> "executing", attempt |-> @.attempt + 1]]
  /\ live' = live \cup {Attempt(v)}
  /\ unlogged' = [unlogged EXCEPT ![Attempt(v)] =
                    <<Event(Attempt(v), "requested"), Event(Attempt(v), "executing")>>]

VersionOf(id) == CHOOSE v \in 2..(Len(requests) + 1) : requests[v - 1] = id
IsReserved(id) == \E n \in DOMAIN requests : requests[n] = id

\* A rebuild gets the next version, and keeps it when it is asked for again.
StartsRebuild(id) ==
  IF IsReserved(id) THEN Starts(VersionOf(id)) /\ UNCHANGED requests
  ELSE /\ Len(requests) + 1 < MaxVersion
       /\ Starts(Len(requests) + 2) /\ requests' = Append(requests, id)

\* From the command line.
ExecuteByHand ==
  /\ \/ Starts(1) /\ UNCHANGED requests
     \/ StartsRebuild(<<0, 1>>)
  /\ UNCHANGED <<task, shown, page, session, deaths, made>>

AppendEvent(r) ==
  /\ unlogged[r] # <<>> /\ Logs(Head(unlogged[r]))
  /\ unlogged' = [unlogged EXCEPT ![r] = Tail(@)]
  /\ UNCHANGED <<task, executions, requests, live, page, session, deaths, made>>

\* The record of the attempt is put, and then its events are appended.
Finish(r, state, events) ==
  /\ r \in live /\ unlogged[r] = <<>>
  /\ live' = live \ {r}
  /\ executions' = [executions EXCEPT ![r[1]] = [state |-> state, attempt |-> r[2]]]
  /\ unlogged' = [unlogged EXCEPT ![r] = events]
  /\ UNCHANGED <<task, requests, shown, page, session, deaths, made>>

Succeed(r) ==
  Finish(r, "succeeded", <<Event(r, "succeeded"), Verification(r, "succeeded", "passed")>>)

\* It was withdrawn or raised, or what it made did not pass.
Fail(r, moved) == Finish(r, "failed", <<Quarantine(r, moved)>>)
Reject(r, verdict) ==
  Finish(r, "failed", <<Quarantine(r, TRUE), Verification(r, "failed", verdict)>>)

\* The process dies; a dashboard that dies with it forgets its session.
Crash(r) ==
  /\ r \in live \/ unlogged[r] # <<>>
  /\ deaths < MaxDeaths /\ deaths' = deaths + 1
  /\ live' = live \ {r} /\ unlogged' = [unlogged EXCEPT ![r] = <<>>]
  /\ IF session.waits = r
     THEN /\ session' = [nonce |-> session.nonce + 1, counter |-> 1, waits |-> NoRank]
          /\ page' = NoPage /\ made' = 0
     ELSE UNCHANGED <<session, page, made>>
  /\ UNCHANGED <<task, executions, requests, shown>>

\* The log takes no event of a finished attempt: the call fails, the record stays as it is.
AppendRefused(r) ==
  /\ r \notin live /\ unlogged[r] # <<>>
  /\ deaths < MaxDeaths /\ deaths' = deaths + 1
  /\ unlogged' = [unlogged EXCEPT ![r] = <<>>]
  /\ UNCHANGED <<task, executions, requests, live, shown, page, session, made>>

-----------------------------------------------------------------------------
(***************************************************************************)
(* load_pipeline_model.                                                    *)
(***************************************************************************)
Waiting == session.waits # NoRank

ReadEvents ==
  /\ ~Waiting /\ page.at \in {"closed", "shown"}
  /\ page' = [NoPage EXCEPT !.at = "events", !.verdicts = verdicts]
  /\ UNCHANGED <<task, core, shown, session, deaths, made>>

ReadModel ==
  /\ page.at = "events"
  /\ page' = [page EXCEPT !.at = "model",
                !.version = IF view.version # 0 THEN view.version ELSE revision,
                !.decision = view.decision.action, !.verdict = view.verdict,
                !.completed = view.completion]
  /\ UNCHANGED <<task, core, shown, session, deaths, made>>

\* mutant: the verdict of the task, which was read before the records
RowVerdictOfTask(v, n) == page.verdict

\* The verdict of a row, if the last one of its key is about the attempt that is recorded.
RowVerdict(v, n) ==
  LET known == {a \in 1..MaxAttempt : page.verdicts[<<v, a>>] # Absent}
  IN IF n \in known /\ \A a \in known : a <= n THEN page.verdicts[<<v, n>>] ELSE Absent

ReadRows ==
  /\ page.at = "model"
  /\ page' = [page EXCEPT !.at = "shown", !.rows = executions,
                !.verdicts = [r \in Ranks |-> IF executions[r[1]].attempt = r[2]
                                              THEN RowVerdict(r[1], r[2]) ELSE Absent]]
  /\ UNCHANGED <<task, core, shown, session, deaths, made>>

-----------------------------------------------------------------------------
(***************************************************************************)
(* The buttons.                                                            *)
(***************************************************************************)
Click == page.at = "shown" /\ ~Waiting /\ page' = NoPage

\* _execution_for_task
Rows   == {v \in Versions : page.rows[v].state # "none"}
Newest == CHOOSE v \in Rows : \A u \in Rows : u <= v
NewestIs(state) == Rows # {} /\ page.rows[Newest].state = state

\* Core takes a decision about the revision that is stored, and no other.
Decide(action) ==
  /\ Click
  /\ IF page.version = revision
     THEN Logs([NoEvent EXCEPT !.type = "decision",
                               !.decision = [action |-> action, version |-> page.version]])
     ELSE UNCHANGED shown
  /\ UNCHANGED <<task, core, session, deaths, made>>

Waits(r) == session' = [session EXCEPT !.waits = r]

\* Nothing of the session depends on how a first execution ends: it is not waited for.
Execute ==
  /\ Click /\ page.decision = "approve" /\ Rows = {}
  /\ IF MayExecute(1) THEN Starts(1) /\ UNCHANGED requests ELSE UNCHANGED core
  /\ UNCHANGED <<task, shown, session, deaths, made>>

RequestId == <<session.nonce, session.counter>>

\* mutant: every click is a request of its own
AnsweredAlways(ok) == [session EXCEPT !.counter = @ + 1, !.waits = NoRank]

\* A request that has been answered makes room for the next one.
Answered(ok) == [session EXCEPT !.counter = IF ok THEN @ + 1 ELSE @, !.waits = NoRank]

\* A request that is already under way, or done, is answered without a new attempt.
Rebuild ==
  /\ Click /\ page.decision = "approve" /\ NewestIs("succeeded")
  /\ \/ /\ IsReserved(RequestId)
        /\ executions[VersionOf(RequestId)].state \notin {"none", "failed"}
        /\ session' = Answered(TRUE) /\ made' = made + 1
        /\ UNCHANGED core
     \/ /\ StartsRebuild(RequestId) /\ UNCHANGED made
        /\ \E r \in live' \ live : Waits(r)
  /\ UNCHANGED <<task, shown, deaths>>

\* The call has gone well when it came to its last event.
CallReturns ==
  LET r == session.waits
      ok == r # NoRank /\ verdicts[r] = "passed"
  IN /\ Waiting /\ r \notin live /\ unlogged[r] = <<>>
     /\ session' = Answered(ok) /\ made' = IF ok THEN made + 1 ELSE made
     /\ UNCHANGED <<task, core, shown, page, deaths>>

\* The person has made sure that nobody runs it.  What Core fails is the attempt it finds now.
Recover ==
  LET r == <<Newest, executions[Newest].attempt>>
  IN /\ Click /\ page.decision = "approve" /\ NewestIs("executing") /\ r \notin live
     /\ IF executions[Newest].state = "executing"
        THEN /\ executions' = [executions EXCEPT ![Newest].state = "failed"]
             /\ \E moved \in Moved : unlogged' = [unlogged EXCEPT ![r] = <<Quarantine(r, moved)>>]
        ELSE UNCHANGED <<executions, unlogged>>
     /\ UNCHANGED <<task, requests, live, shown, session, deaths, made>>

OffersExecutor == NewestIs("succeeded") /\ page.verdict = "passed"

\* confirm_task: the revision is current, the execution succeeded and was verified, and the
\* task is not completed yet.  (The verdict is logged once more, which changes nothing.)
Confirmable(b) ==
  /\ page.version = revision /\ ~view.completion
  /\ b = Absent \/ (/\ executions[b].state = "succeeded"
                    /\ verdicts[<<b, executions[b].attempt>>] = "passed")

Confirm(b) ==
  /\ Click /\ ~page.completed /\ (b = Absent \/ (OffersExecutor /\ b = Newest))
  /\ IF Confirmable(b)
     THEN Logs([NoEvent EXCEPT !.type = "actual_completion", !.state = "actual_completed",
                  !.version = revision, !.completion = TRUE])
     ELSE UNCHANGED shown
  /\ UNCHANGED <<task, core, session, deaths, made>>

DashboardNext ==
  \/ \E c \in Contents : Capture(c)
  \/ Store
  \/ \E state \in Outcomes : Judge(state)
  \/ ExecuteByHand
  \/ \E r \in Ranks :
       \/ AppendEvent(r) \/ AppendRefused(r) \/ Crash(r)
       \/ Succeed(r)
       \/ \E moved \in Moved : Fail(r, moved)
       \/ \E verdict \in Rejections : Reject(r, verdict)
  \/ ReadEvents \/ ReadModel \/ ReadRows
  \/ \E action \in Actions : Decide(action)
  \/ Execute \/ Rebuild \/ CallReturns \/ Recover
  \/ \E b \in Versions \cup {Absent} : Confirm(b)

DashboardSpec == DashboardInit /\ [][DashboardNext]_dashboardVars

-----------------------------------------------------------------------------
(***************************************************************************)
(* Properties.                                                             *)
(***************************************************************************)
\* In whatever order the events of attempts came into the log, what is shown is the newest
\* result version and attempt of them all, with its own verdict, and an artifact in quarantine
\* only if it is that attempt's (_latest_metadata).
ShownIsNewestResult ==
  /\ \A r \in logged : ~Older(view.rank, r)
  /\ view.rank \in logged \cup {NoRank}
  /\ view.rank # NoRank => view.verdict = verdicts[view.rank]
  /\ view.quarantine \in {NoRank, view.rank}

\* A row that says its result passed is a row of an execution that succeeded, although the
\* verdicts and the records of a page are read at different moments (_execution_rows).
PassedRowSucceeded ==
  page.at = "shown" =>
    \A r \in Ranks : page.verdicts[r] = "passed" =>
                         page.rows[r[1]] = [state |-> "succeeded", attempt |-> r[2]]

\* A rebuild that is asked for again because its call failed makes no second result version: a
\* session has at most one version that it was not told of (_render_task, submit_rebuild).
RetriedRebuildIsOneVersion ==
  Cardinality({n \in DOMAIN requests : requests[n][1] = session.nonce}) <= made + 1
=============================================================================
