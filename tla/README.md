# A formal model of Talent Finder

Talent Finder ranks candidates for job descriptions. A recruiter starts a
scoring run; a Celery worker acquires candidates (from the local database or, if
they are too few, from a sourcing service that scrapes a resume site), has
language models pre-score and score them, and stores a shortlist; the recruiter
shares it with a hiring manager, who reviews the candidates, schedules
interviews and closes the campaign. This directory holds TLA+ models of the
parts whose correctness depends on interleavings, failures and order, TLC
configurations that check them on small instances, and TLAPS proofs for every
instance.

Three facts of the code shape everything:

- every database engine of the *server* runs with `isolation_level="AUTOCOMMIT"`
  (`server/src/data/clients/postgres.py:15-17, 42-44`): each statement commits
  by itself, `commit()` and `rollback()` do nothing to what is written, and a
  request is a sequence of separate steps;
- a SQLAlchemy session keeps the rows it has read, and a flush writes only the
  attributes that differ from that copy, by primary key: what a request checked
  may be false when it writes. In either service a failed flush leaves the
  session unusable until a rollback;
- the *sourcing service* has real transactions (`sourcing/src/data/clients/postgres.py:10`)
  and commits once per stored resume.

## 1. Inventory

| Component | State | Operations | Interacts with | Hard behaviour | What makes it correct |
|---|---|---|---|---|---|
| Scoring-task life cycle (`scoring_task_service/repository.py`, `tasks.py`, `scoring_route.py`) | table `scoring_tasks` | enqueue, recover stale, start, stage, success, failure, list, status, result | broker, workers, page | recovery races slow workers; lost messages and processes | one execution, final outcomes, complete results, somebody settles every task |
| Celery broker and workers (`celery_app.py`, `celery_worker_runner.py`) | queue, processes | publish, receive (early ack), redeliver | task rows | death, visibility time-out | as above |
| Recruiter task page (`useRecruiterTasks.ts`) | list of tasks, interval | mount, poll, unmount | task routes | overlapping polls, late answers | polling ends |
| Shortlist and campaign (`scoring_service.py`, `scoring_repository.py`, `job_description_service.py`) | `job_descriptions.status_id`, `pipeline`, `candidate_job_scores` | share, edit, notes, review, schedule, end, reopen, upsert, prune | e-mail, scoring runs | concurrent users on the same rows, check-then-act, crashes between statements | shares not lost, invitation before its record, listed candidates have scores, closed campaigns frozen |
| Scoring pipeline run (`scoring_service.py`, `pipeline_candidate_state.py`, acquisition and synchronization services) | `PipelineExecutionContext`, profiles, session | acquire, pre-score, select, synchronize, deep-score, persist, report, respond | sourcing service, language models, tables | partial failure per candidate, malformed answers, broken session | counts add up; response, outcomes, tables, warning and report agree; only fresh profiles scored |
| Scoring agents (`scoring_agent.py`, `candidate_relevance_agent.py`) | none | calls to language models, score formulas | pipeline run | arbitrary answers | formulas bounded (planned) |
| Groq key rotation (`groq_client.py`, server and sourcing) | class-wide key index and cooldowns | construct, invoke, rotate, cool down | all agents | shared by concurrent calls | no live key blamed, resting keys spared, giving up justified |
| Sourcing loop (`postjobfree_sourcing_service.py`, optimizer, strategies, search service) | attempts, target, counters of one request | plan, search attempts, scrape, store, final search | scraper, agents, database | time limit, duplicate queries, two requests with the same resume | ends; stops for a true reason; counts what is stored and findable |
| Sourcing candidate database (`candidate_repository.py`) | table `candidates`, unique `resume_hash` | search, look up, insert, commit | sourcing loop | unique violation, waiting for an uncommitted row | waits are short, counted rows are committed |
| Job descriptions (`job_description_service.py`) | `job_descriptions`, skills | create, update, close | campaign, tasks | edit lock is check-then-act | edits do not race runs (partly in Campaign) |
| Authentication, one-time codes (`auth_service.py`, `otp_service.py`) | users, Redis codes, cookies | log in, refresh, request/verify code, reset | e-mail | get and delete in two calls | a code works once (planned) |
| Notifications (`notification_service.py`) | `notifications` | notify, list, mark read | all | best effort, order relative to writes | order (in ScoringTask, Campaign) |
| API gateway (`gateway_service.py`) | none | forward | all services | one time-out of 300 s | stateless |
| Client dashboard, hiring-manager pages, HTTP layer | page state, token refresh | fetch, poll, submit, refresh | API | concurrent 401s | planned |
| Resume parsers, extraction agents, lookups, migrations, seeding | – | stateless or run once | – | – | not modelled |

Components call one another through HTTP (client → gateway → server → sourcing),
through the broker (server → worker) and, above all, through shared rows.

`PROJECT.json` lists the hazards of this code line by line with the properties
that cover each, or the reason why none does yet.

## 2. Modules

| Module | Models | Checked by |
|---|---|---|
| `TaskStatus` | the abstract promise about a task's status | `ScoringTask!StatusPromise` |
| `ScoringTask` | rows of `scoring_tasks`, broker, workers, requests, task page | `MC_ScoringTask*.cfg`, `ScoringTask_proofs` |
| `Campaign` | one job description and its rows in `pipeline` and `candidate_job_scores` under concurrent users and runs | `MC_Campaign*.cfg`, `Campaign_proofs` |
| `PipelineRun` | successive executions of `pipeline_prescore_and_score`, candidate by candidate | `MC_PipelineRun*.cfg`, `PipelineRun_proofs`, `PipelineReport_proofs` |
| `SourcingLoop` | concurrent search requests of the sourcing service and its table | `MC_Sourcing*.cfg`, `SourcingLoop_proofs`, `SourcingProgress_proofs` |
| `GroqRotation` | concurrent calls of the language-model client over shared keys | `MC_GroqRotation.cfg`, `GroqRotation_proofs` |
| `MC_*` | instances for TLC, symmetry sets, values of the constants | – |

The first three concrete modules look at the same pipeline at three
magnifications: `ScoringTask` sees a run as a sequence of stages, `Campaign` as
the statements it writes between those of other sessions, `PipelineRun` as the
fate of each candidate. Where one module takes something from another it says
so: `Campaign!PresumeLost` is `ScoringTask!RecoverTask` seen from the edit lock,
`PipelineRun!Activate` is `Campaign!Activate`. `SourcingLoop` is what answers
`PipelineRun!Acquire`, which allows any set of sourced candidates, none
included (a request of the loop that is `failed` or `lost`). `GroqRotation` is
below every call to a language model; to its callers it is an answer or an
exception, and both are possible in `PipelineRun` and `SourcingLoop`.

### ScoringTask and TaskStatus

| State | Code |
|---|---|
| `status`, `stage`, `created`, `started`, `unavailable`, `payload` | columns `status`, `current_stage`, `created_at`, `started_at`, `error_code = WORKER_UNAVAILABLE`, `final_response_payload` |
| `announced` | a "Scoring Completed" notification exists |
| `queue`, `redelivered` | messages of the broker; tasks handed out twice |
| `wpc`, `wtask` | where a worker process is in `async_run_scoring_pipeline`, and for which task |
| `rq` | requests in flight: their position, their copy of the stale rows (`todo`, `stageFailed`) and the answer under way |
| `page`, `server`, `faults` | the browser's task page, the API process, the fault budget |

Every task route first runs `recover_stale_tasks`: `Begin` is its SELECT
(`Stale` is the predicate of `find_stale_tasks`), `RecoverTask` one flush,
`NotifyRecovered` the notification after it. Then come the bodies: `ListTasks`
and `Respond`, `AnswerStatus`, or `CreateTask` and `Publish`. A worker goes
through `Receive`, `Start`, `Report`*, `Succeed` or `Raise` and `RecordFailure`,
and `NotifyOutcome`; `WorkerLost` may interrupt it anywhere. A time stamp is only
ever compared with the cutoff "now - 15 minutes", so it is "fresh" or "old";
`CreatedAges` and `StartedAges` move it, `started` never before `created`.
`ListTasks` reads the rows anew: the session refers weakly to the rows that
recovery loaded, and nothing else holds them by then. The write of
`celery_task_id` is left out: nothing reads it.

`TaskStatus` is what a user may rely on: PENDING, RUNNING, one outcome, and the
outcome is final, except for a task under suspicion. Only an unsettled task
comes under suspicion. `Promise == INSTANCE TaskStatus WITH suspected <- Suspected`
maps it: suspected are tasks that a recovery has read or marked, or that the
broker handed out twice. Every step of `ScoringTask` is a step of it or a
stutter (`StatusPromise`, checked and proved).

### Campaign

`jd` is the status code of the job description, `listed` and `entry` the rows of
`pipeline` with their review attributes, `manual` the rows inserted by hand,
`scored` the rows of `candidate_job_scores`, `invited` the e-mails sent, `locked`
the runs whose task is active, `sess` the sessions with the row each holds
(`row`, `cand`, `read`). `Flush` is the partial UPDATE of SQLAlchemy; a row
deleted under a session is `gone`, and its UPDATE raises, which leaves `Ends` as
the only step. `Ends` also stands for every rejection, exception and death: what
was written stays. `schedule_interview` is the only operation that does not look
at the status of the job description (`Admits`).

### PipelineRun

`state[c]` is the `PipelineCandidateState` of candidate `c` (the acquisition
stage is SUCCESS for all and left out), `acquired` the keys of
`context.candidates`, `answer` the sorted pre-scores, `sync` the
`SyncBatchResult`, `graded` the ids in the deep scores, `scores` and `entries`
the two tables, `profile` the local candidate profiles (missing, stale, fresh,
or torn by a partly failed upsert), `session` whether the one database session
is still usable. `response` is the list of the response: each item is the place
in `answer` it was made from, so that a candidate named twice is returned twice.

The pre-scoring model may leave out, repeat or invent ids (`Answers`), and an id
it invents may be that of a candidate who is in the database but not in this
run. Such a candidate has no `PipelineCandidateState`: the check of the
synchronization before deep scoring passes it over (`Scorable`), so that it is
scored, stored and returned without a mark. A deep score may be about one
candidate and name another id (`DeepScore`): anybody's, or one without a profile,
on which the foreign keys of both tables fail, so that `UpsertScore` and
`UpsertEntry` are not possible and `PersistFails` remains. `Warning` is the warning of the
response and `ReportPassed` the consistency line of
`_generate_pipeline_report`. `NextRun` starts another run after any end.

### SourcingLoop

| State | Code |
|---|---|
| `stored` | resumes with a committed row in `candidates` (`resume_hash` is unique) |
| `rq[r].existing`, `processed`, `seen`, `history`, `attempt`, `best`, `stale` | `existing_ids`, `processed_resume_urls`, `seen_queries`, `attempts_history`, the number of the attempt, `best_resumes_found`, `no_improvement_count` |
| `rq[r].held`, `broken` | rows inserted in the session but not committed; a flush of it has failed |
| `rq[r].todo`, `found`, `new`, `resume` | the results of the search in hand, its counts, the resume being stored |
| `rq[r].late`, `reason`, `response` | the time limit has passed, `stop_reason`, the answer |

`Receive` is the first local search, `Plan` the planner's answer and the load of
the existing candidates, `Search` one call of the site, `SkipDuplicate` a query
made before, `LookUp`/`Reject`/`Insert`/`InsertFails`/`Commit` one resume,
`EndAttempt` the bookkeeping after an attempt, `EndLoop` the loop's condition and
`Answer` the search after it. `Query` composes the four strategies, chosen by the
length of the history, with the location rule of the request builder: queries
are compared by what enters their normal form (title, words, location).
`Insert` has the semantics of a unique key: it waits while another session holds
an uncommitted row of the same hash and fails if that one is committed. The
failed session is never rolled back by the loop, so that later look-ups raise
(and reject) and the final search fails. `TimePasses` may happen in the middle
of an attempt; the code looks at the limit between two attempts and two resumes.

### GroqRotation

`current` and `cooldown` are the class attributes `_current_key_idx` and
`_key_cooldowns`, `client[c]` the key in the credentials of a call's own client,
`active[c]` its `active_idx`, `attempts[c]` its rate-limited requests. `tired[c]`
is a history variable: the keys that failed in the call or were seen resting by
it. `Construct` is `__init__`, `Invoke` the start of `_generate`/`_agenerate`,
`RateLimited` the except clause up to the next attempt; between two awaits
nothing else runs, so that each is one step at one instant of `now`. `Select` is
the search around the ring in `__init__` and in the except clauses, with its
fallback to the key that rests the shortest.

## 3. Runs

All runs finish within two minutes with two workers of TLC.

| Run | Question | Answer |
|---|---|---|
| `scoring_task` | can a task be executed twice, at once or ever, a PENDING row be dirty, a SUCCESS be lost or incomplete? do the rows keep the abstract promise? | only as the properties allow: `OneExecution`, `AtMostOnce`, `PendingIsUnstarted`, `SuccessIsComplete`, `SuccessFinal`, `OwnFailureFinal`, `StatusPromise` hold |
| `scoring_task_live` | does a polling page ever stop? | yes, even if all workers hang: `PollStops` |
| `campaign` | invitations before records, scores for listed rows, frozen closed campaigns | `InvitationFirst`, `ListedIsScored`, `ClosedFrozen` hold |
| `campaign_share` | is a share exactly the selection, in spite of concurrent reviews? | yes: `SharedAsSelected`, with `InvitationFirst` for two candidates |
| `campaign_reopened` | is a closed campaign reopened by the manager only? | no: `ReopenedByManager` is violated |
| `campaign_decided` | are all shared candidates of a closed campaign decided? | no: `ClosedIsDecided` is violated |
| `pipeline_run` | do counts, outcomes, response, warning, report and tables agree, whatever fails? | yes: `SelectedAccounted`, `ReturnedAreCompleted`, `ShortlistIsStored`, `ScoredAreSynchronized`, `WarningIsTrue`, `ReportIsExplained`, `BrokenRunIsSilent` |
| `pipeline_run_isolated` | does a failed synchronization stay isolated? | no: `SyncFailureIsolated` is violated |
| `sourcing_loop` | does the loop end, give up only in vain, and count what the search after it finds? | yes: `EveryRequestEnds`, `GivesUpInVain`, `CountedAreReturned` |
| `sourcing_race` | two requests, the same resumes, a restart or a failing insert: is what was counted stored, can they block one another, is their work bounded? | `CountedAreStored`, `WaitsAreShort`, `WorkIsBounded` hold |
| `sourced_returned` | are sourced candidates returned once the loop has ended? | no: `SourcedAreReturned` is violated |
| `groq_rotation` | concurrent calls over shared keys: fair blame, spared keys, justified exhaustion, an end? | `BlameIsFair`, `RestingKeysRest`, `GivesUpExhausted`, `EveryCallEnds` hold |

The four violations are disagreements between the code and its documents,
messages or tests; `PROJECT.json` quotes them under `findings`.

Three further disagreements are visible in the models without a run of their
own: the server's start settles no task although `APPLICATION_WORKFLOW.md:100`
speaks of a recovery at start-up (`ServerStart` changes no row); an announced SUCCESS may be
overwritten by a recovery that had read the task before (`SuccessFinal` names
exactly that exception); and a failed persistence is not rolled back in
AUTOCOMMIT (`PersistFails` leaves `scores` and `entries` as written).

### What the holding properties leave open

- `SuccessFinal` and `StatusPromise` except a recovery that had read the task
  before it succeeded, and a second hand-out.
- `ListedIsScored` is claimed for one run at a time per job description and for
  rows that scoring inserted; two runs that prune each other's rows, or a row
  created by adding a note, break it.
- `ClosedFrozen` speaks of the time after the last writer admitted before the
  closing is gone; it allows the interviews that `schedule_interview` still
  accepts.
- `SharedAsSelected` is claimed without a concurrent scoring run, which may
  delete the selected rows.
- `ReturnedAreCompleted` and `ScoredAreSynchronized` speak of the candidates of
  the run. A candidate from outside it whom the pre-scores name is scored on the
  profile there is, fresh or not, and returned without an outcome. (That the
  response may list a candidate twice or hold an outsider is stated by
  `ReportIsExplained` and `ShortlistIsStored`.)
- `ReturnedAreCompleted`, `WarningIsTrue` and `ReportIsExplained` are claimed for
  runs whose deep scores name, of the candidates of the run, those they are
  about (`RightlyNamed`): a score that names another candidate hides the one and
  lists the other. `ShortlistIsStored` and `SelectedAccounted` hold without it.
- `WarningIsTrue` is claimed for answers whose top k names each candidate once
  and nobody from outside the run (`Proper`): a repeated id shortens the list
  without either reason of the warning being true.
- `ReportIsExplained` says exactly when the report declares a discrepancy: a
  candidate left out of the pre-scores, a failed refresh of a local profile, a
  candidate returned twice, or one from outside the run.
- `BrokenRunIsSilent` is about the run that tears a profile. The next run finds
  its timestamp fresh and scores it, which `ScoredAreSynchronized` allows.
- `CountedAreReturned` is about requests that are answered: `sourced_returned`
  shows one that is not.
- `GivesUpExhausted` says that each key was resting at some time of the call,
  not that all rest at its end.

### Bounds, and why they are enough

- `ScoringTask`: one task, two workers and two overlapping requests are what a
  race for a row needs, through all stages with and without confirmation. Tasks
  meet only in the loop of one recovery over its stale rows, which writes each
  by its own key; the proofs cover any number. `MaxFaults = 1` bounds crashes of
  the server and failed requests (deaths of workers are not bounded). One
  redelivery per task (`redelivered`) bounds duplicate hand-outs. The liveness
  run has one request slot and the short pipeline (`Confirms = {FALSE}`).
- `Campaign`: one session of each role, each making any number of requests in
  turn, and one candidate, or two of whom one has no e-mail address. Rows of
  different candidates meet only in share, prune and the closing check.
- `PipelineRun`: two candidates, k in {1, 2}, pre-scores 0 and 1 with threshold
  1, answers of up to three entries (one more than the candidates, so that
  repeated, made-up and missing ids occur together), two runs. With two
  candidates of whom one is acquired the other is the outsider; deep scores may
  name any of the three ids.
- `SourcingLoop`: one request with every place, plan and exclusion, with skills
  of its own and without, two resumes,
  target two, four attempts (so that each strategy takes its turn) and
  `MaxStale = 2`; the race has two requests and two attempts each, which is
  enough to meet the same resumes in opposite orders, with one fault.
- `GroqRotation`: three keys (with two, "next" and "other" are the same), two
  calls, each made again and again, cooldowns 0 and 2 and three instants, so
  that a key rests, is free again, and rests longer than another.

TLC checks deadlock in `Campaign`, whose sessions always have a next request;
the other systems may stop (all tasks used, all runs or requests made, the clock
at its bound), so it is switched off there.

### Fairness

- `scoring_task_live`: the server is restarted, a request under way is served,
  time passes, and an open page keeps polling (`setInterval`,
  `useRecruiterTasks.ts:39`). Nothing is assumed of the workers or the broker,
  since they may hang or be down for ever and the code's answer to that is
  stale-task recovery. `Poll` is strongly fair only because the finitely many
  request slots of the model may be taken by other requests in turn; the browser
  has no such limit.
- `sourcing_loop`: `WF_vars(RequestStep(r))`. The event loop serves every
  request, and every call to the site and the planner has a time-out, so that
  some step of the request follows. Nothing is assumed of time or of new
  requests.
- `groq_rotation`: `WF` of a call's next step, for the same reason. Nothing
  forces the clock or a new call.

## 4. Proofs

Each `*_proofs` module proves, for all values of the constants and from the
module's `ConstantsOK` alone:

| Module | Theorem | States |
|---|---|---|
| `ScoringTask_proofs` | `TypeCorrect`, `Invariance` | `TypeOK`, and whoever is at work holds a task; `IInv` |
| | `OneExecutionHolds`, `RowsConsistent`, `ResultsComplete` | `OneExecution`, `PendingIsUnstarted`, `SuccessIsComplete` |
| | `ExecutedAtMostOnce` | `AtMostOnce` |
| | `SuccessFinalHolds`, `OwnFailureFinalHolds` | `SuccessFinal`, `OwnFailureFinal` |
| | `StatusPromiseKept` | the refinement of `TaskStatus` |
| `Campaign_proofs` | `SessionsFit`, `TypeCorrect` | `IInv`, `TypeOK` |
| | `InvitedFirst`, `RowsHaveScores` | `InvitationFirst`, `ListedIsScored` |
| | `ShareIsExact`, `ClosedIsFrozen` | `SharedAsSelected`, `ClosedFrozen` |
| `PipelineRun_proofs` | `RunsKeepTrack`, `TypeCorrect` | `IInv`, `TypeOK` |
| | `NobodyStaleIsScored`, `BrokenRunsAreSilent` | `ScoredAreSynchronized`, `BrokenRunIsSilent` |
| | `CompletedAreReturned`, `ShortlistStored`, `SelectionAddsUp` | `ReturnedAreCompleted`, `ShortlistIsStored`, `SelectedAccounted` |
| `PipelineReport_proofs` | `CandidatesAreTracked` | `DInv`, what the marks of every candidate can be |
| | `WarningsAreTrue`, `ReportsAreExplained` | `WarningIsTrue`, `ReportIsExplained` |
| `SourcingLoop_proofs` | `BookkeepingHolds`, `TypeCorrect` | `IInv`, `TypeOK` |
| | `CountedStayStored`, `InsertsWaitShortly`, `AnswersAgree` | `CountedAreStored`, `WaitsAreShort`, `CountedAreReturned` |
| | `CountersAgree` | `LogInv`, the counters read off the history |
| | `GivingUpIsInVain` | `GivesUpInVain` |
| `SourcingProgress_proofs` | `WorkStaysBounded` | `WorkIsBounded` |
| `GroqRotation_proofs` | `TypeCorrect`, `BlameStaysFair` | `TypeOK`, `BlameIsFair` |
| | `RestingKeysAreSpared`, `GivingUpIsJustified` | `RestingKeysRest`, `GivesUpExhausted` |

**ScoringTask.** `OneExecution` is not inductive: it must be known that a row not
yet inserted has neither message, nor worker, nor request that knows it
(`Uncreated`), and that a row about to be published has neither message nor
worker and no second publisher (`OnePublication`). The finality of outcomes needs
that when a row says SUCCESS (or FAILED by its worker), the only execution it
ever had is past its last write (`SuccessQuiet`, `FailureQuiet`). `IInv` is their
conjunction with the invariants themselves. The action properties follow from
`IInv` before the step, because the actions that write a status contradict it.
`OneExecution` is about one state; `AtMostOnce` about the whole life of a task: it
is served from one row, one publication and one message, none of which any step
gives back (`RequestsServe`, `OthersServe`, `WorkersServe`), and by the invariant
none is left once a worker holds the task.
For the refinement, `ExecutedRow` says in which statuses a worker finds the row
of a trusted task; each of its writes is then a step of `TaskStatus`, and writes
to suspected tasks are `Revise`.

**Campaign.** `Fit` relates what each session holds to the rows that exist: the
row in hand is listed, interview details are written only after the e-mail, and
only runs are where scores and rows are written; `Rows` says that nothing is
left of a row that is gone, and `Plain` is the type of the remaining variables.
For `ListedIsScored` with one scorer, the invariant follows the run through its
statements: the scores come first and go last. `SharedAsSelected` needs to know
how far the marking loop is and that nobody else writes the attribute `shared`,
which is what the partial flush is for.

**PipelineRun.** `Chosen` is the heart: the answer is sorted, so the eligible
entries precede the others and the first k of them rank within k; hence the
selection is the acquired part of the top k, whatever ids occur in the answer.
`Marks` says what the stages of a selected candidate are at each statement,
`Stored` how far the tables are, `Known` that they hold only ids with a profile,
`Quiet` that nothing is written before deep scoring. Nothing is assumed of the
ids that deep scores name: that the response is the stored part of the top k
(`ReturnedIdsAre`) holds for every answer, and who of it has an outcome follows
from `Marks` for the candidates of the run (`Checked`), which are told apart from
outsiders throughout.

**PipelineRun, what it tells.** Warning and report count candidates in seven
ways over the marks of the run, so that the proof needs what every mark can be
(`DInv`): who was not selected keeps the mark of the selection (`Unchosen`),
whoever was refreshed has a result (`Refreshing`), and a selected candidate is
scored and stored, unscorable, or not refreshed (`Staged`), to the last stage.
The warning then follows from the order of the answer: its eligible entries are
the first m places, of which the first k hold min(m, k); if each of them names a
different acquired candidate, the selection has min(m, k) members (and the run
failed for one of them), or m is below k. For the report, scored, unscorable,
unrefreshed and left-out candidates are disjoint parts of `acquired`; its sums
agree exactly when the parts that it counts twice or not at all are empty and
the response has one item for each scored candidate and no other (`OnceEach`,
`ResponseItems`).

**SourcingLoop.** `Kept` is the bookkeeping of one request: one entry of history
per attempt, an uncommitted row exactly between insert and commit, nothing
excluded in what is counted. Since `held` is empty elsewhere, an insert waits
only for a commit; since what is counted is in `stored` and not excluded, the
final search finds it.

That giving up is justified is an argument about histories of any length. The
invariant `LogInv` reads the counters off the history: `best` is the largest
number listed so far, and the last `stale` searches were in vain. Only three
actions write the history (`SkipDuplicateLog`, `EndLoopLog`, `EndAttemptLog`); an
appended search moves into the window of the last ones or empties it, a skipped
one leaves the set of searches as it is. `GivesUpInVain` is stated over the places
of the searches in the history, and needs no induction over it.

`WorkIsBounded` is the half of `EveryRequestEnds` that does not depend on the
scheduler. `StepsLeft` counts a round of steps per attempt left and three per
listed resume (look-up, insert, commit); each step of a request lowers it
(`RequestStepLowers`), and restarts, failing inserts, the time limit and the other
requests never raise it. So a request takes at most
`MaxAttempts * (3 * |Resumes| + 3) + 3` steps after its arrival, whatever the site
lists and however queries and resumes repeat.

**GroqRotation.** That a call gives up only when every key was tired is an
argument about the ring: from one failure to the next the index moves forward,
every key passed over was resting, and after as many failures as there are keys
it has gone round (`Turning`), even though other calls move the shared index in
between. `Select` is a CHOOSE; that it chooses is shown by the well-foundedness
of the natural numbers.

Every type invariant, safety invariant and action property of the passing runs
has its theorem. Only model-checked: the liveness properties `PollStops`,
`EveryRequestEnds` and `EveryCallEnds`, since liveness under fairness is out of the
prover's reach, as is `ENABLED`. For the loop `WorkIsBounded` bounds the steps, and
for the calls the type invariant bounds the attempts by the number of keys; what
TLC adds is that somebody can always take the next step. The
modules avoid RECURSIVE operators, with which the SMT backend is lost.

## 5. Not modelled, and why

- Score formulas: arithmetic without state; a comparison with the documented
  maxima is planned.
- Resume parsing, scraping, extraction agents, resume import: text processing
  without state of its own; the loop and the run see any result and any failure.
- The ranking inside the candidate search, and the loading of details.
- Durations: a time limit may pass at any moment; the parsing of a cooldown out
  of an error message is any value of a small set.
- API gateway: stateless; a caller that gives up changes nothing behind it.
- Authentication, one-time codes, token refresh of the client: planned below.
- Dashboard and hiring-manager pages: forms and lists over requests that
  `Campaign` and `ScoringTask` model.
- Deletion of rows by administrators, edits of users and master data, wording of
  notifications, e-mail layout, prompts, logging, migrations.
- Celery and Redis beyond hand-out, acknowledgement and one redelivery.

## 6. Plan

Done: `ScoringTask` with `TaskStatus` and its refinement, `Campaign`,
`PipelineRun` with warning and report, `SourcingLoop`, `GroqRotation`, and the
proofs above. Left, in this order:

1. `OneTimeCode`: codes, their expiry and the reset token, two verifications at
   the same time.
2. Composition: two tasks of one job description with its edit lock
   (`ScoringTask` with `Campaign`).
3. `ScoreFormula` (skills, experience, recency, final score) against the
   documented maxima over bounded inputs.
4. `TokenRefresh`: concurrent refreshes of the client.
