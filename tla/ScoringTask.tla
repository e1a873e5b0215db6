---------------------------- MODULE ScoringTask ----------------------------
(***************************************************************************)
(* The life of a row of the table scoring_tasks: API requests that enqueue *)
(* tasks and recover stale ones, the Celery broker, the worker processes   *)
(* that execute async_run_scoring_pipeline, and the recruiter's task page  *)
(* that polls the task list.                                               *)
(*                                                                         *)
(* Every engine of the server runs with isolation_level="AUTOCOMMIT"       *)
(* (data/clients/postgres.py), so each SQL statement is a step of its own: *)
(* what a request has read may be out of date when it writes.              *)
(*                                                                         *)
(* A timestamp is abstracted to its side of the cutoff now - 15 minutes    *)
(* that find_stale_tasks compares it with: "fresh", then "old".            *)
(***************************************************************************)
EXTENDS Naturals, FiniteSets

CONSTANTS
  Tasks,      \* ids of the rows that may be created
  Workers,    \* pool processes of the Celery worker (--concurrency=2)
  Requests,   \* API requests in flight at the same time
  NoTask,     \* the null task
  Confirms,   \* the values of PipelineExecutionRequest.confirm sent
  Slow,       \* tasks whose message may outwait the visibility timeout
  MaxFaults   \* bound on server crashes, failed requests, lost writes

ASSUME ConstantsOK ==
  /\ NoTask \notin Tasks
  /\ Confirms \subseteq BOOLEAN
  /\ Slow \subseteq Tasks
  /\ MaxFaults \in Nat

VARIABLES
  status,      \* scoring_tasks.status, "NONE" before the INSERT
  stage,       \* scoring_tasks.current_stage
  created,     \* age of created_at
  started,     \* age of started_at, "none" while it is NULL
  unavailable, \* tasks whose error_code is WORKER_UNAVAILABLE
  payload,     \* tasks whose final_response_payload is stored
  announced,   \* tasks with a "Scoring Completed" notification
  queue,       \* messages the broker may still hand out
  redelivered, \* tasks whose message has been handed out twice
  wpc, wtask,  \* where each worker process is, and with which task
  rq,          \* the requests in flight
  page,        \* the recruiter's task page
  server,      \* the API process
  faults       \* faults so far

rowVars    == <<status, stage, created, started, unavailable, payload>>
brokerVars == <<queue, redelivered>>
workerVars == <<wpc, wtask>>
serverVars == <<rq, server, faults>>
vars == <<rowVars, announced, brokerVars, workerVars, serverVars, page>>

Stages == {"QUEUED", "ACQUIRING", "SOURCING", "PRE_SCORING", "SYNCHRONIZING",
           "DEEP_SCORING", "COMPLETED", "FAILED"}
Statuses == {"NONE", "PENDING", "RUNNING", "SUCCESS", "FAILED"}
Ages     == {"none", "fresh", "old"}

\* The stages of pipeline_prescore_and_score, in which a worker executes it.
Pipeline == {"started", "ACQUIRING", "SOURCING", "PRE_SCORING",
             "SYNCHRONIZING", "DEEP_SCORING"}
WorkerPCs == {"idle", "received", "succeeded", "failing", "failed"} \cup Pipeline
RequestPCs == {"idle", "recover", "notify", "body", "publish", "respond"}
Kinds == {"list", "status", "enqueue"}

Request == [pc : RequestPCs, kind : Kinds, task : Tasks \cup {NoTask},
            todo : SUBSET Tasks,        \* stale tasks read and not yet written
            stageFailed : SUBSET Tasks, \* those read with stage FAILED
            answer : {"open", "polling"}] \* what the page does on the answer

IdleRequest == [pc |-> "idle", kind |-> "status", task |-> NoTask, todo |-> {},
                stageFailed |-> {}, answer |-> "open"]

TypeOK ==
  /\ status \in [Tasks -> Statuses]
  /\ stage \in [Tasks -> Stages]
  /\ created \in [Tasks -> Ages]
  /\ started \in [Tasks -> Ages]
  /\ unavailable \subseteq Tasks
  /\ payload \subseteq Tasks
  /\ announced \subseteq Tasks
  /\ queue \subseteq Tasks
  /\ redelivered \subseteq Tasks
  /\ wpc \in [Workers -> WorkerPCs]
  /\ wtask \in [Workers -> Tasks \cup {NoTask}]
  /\ rq \in [Requests -> Request]
  /\ page \in {"closed", "open", "polling"}
  /\ server \in {"up", "down"}
  /\ faults \in 0..MaxFaults

Init ==
  /\ status = [t \in Tasks |-> "NONE"]
  /\ stage = [t \in Tasks |-> "QUEUED"]
  /\ created = [t \in Tasks |-> "none"]
  /\ started = [t \in Tasks |-> "none"]
  /\ unavailable = {}
  /\ payload = {}
  /\ announced = {}
  /\ queue = {}
  /\ redelivered = {}
  /\ wpc = [w \in Workers |-> "idle"]
  /\ wtask = [w \in Workers |-> NoTask]
  /\ rq = [r \in Requests |-> IdleRequest]
  /\ page = "closed"
  /\ server = "up"
  /\ faults = 0

-----------------------------------------------------------------------------
(* Requests.  Each task route first awaits recover_stale_tasks.            *)

\* Mutants of Stale: every row with an old timestamp; only RUNNING rows.
StaleAnyStatus(t) == created[t] = "old" \/ started[t] = "old"
StaleRunningOnly(t) == status[t] = "RUNNING" /\ started[t] = "old"

\* The predicate of find_stale_tasks.
Stale(t) ==
  \/ status[t] = "PENDING" /\ created[t] = "old"
  \/ /\ status[t] = "RUNNING"
     /\ started[t] = "old" \/ (started[t] = "none" /\ created[t] = "old")

StaleTasks == {t \in Tasks : Stale(t)}

\* A request arrives and recover_stale_tasks reads the stale tasks.
Begin(r, kind) ==
  /\ server = "up"
  /\ rq[r].pc = "idle"
  /\ rq' = [rq EXCEPT ![r] =
              [IdleRequest EXCEPT
                 !.pc = IF StaleTasks = {} THEN "body" ELSE "recover",
                 !.kind = kind,
                 !.todo = StaleTasks,
                 !.stageFailed = {t \in StaleTasks : stage[t] = "FAILED"}]]
  /\ UNCHANGED <<rowVars, announced, brokerVars, workerVars, server, faults>>

\* The flush for one of the tasks read: an UPDATE of the attributes that
\* differ from what was read, with no condition but the primary key.
RecoverTask(r, t) ==
  /\ rq[r].pc = "recover"
  /\ t \in rq[r].todo
  /\ status' = [status EXCEPT ![t] = "FAILED"]
  /\ stage' = [stage EXCEPT ![t] = IF t \in rq[r].stageFailed THEN @ ELSE "FAILED"]
  /\ unavailable' = unavailable \cup {t}
  /\ rq' = [rq EXCEPT ![r].pc = "notify", ![r].task = t,
                      ![r].todo = @ \ {t}, ![r].stageFailed = @ \ {t}]
  /\ UNCHANGED <<created, started, payload, announced, brokerVars, workerVars,
                 server, faults, page>>

\* The best-effort "Scoring Failed" notification about the task just
\* recovered: nothing reads it, what matters is the time it takes.
NotifyRecovered(r) ==
  /\ rq[r].pc = "notify"
  /\ rq' = [rq EXCEPT ![r].pc = IF rq[r].todo = {} THEN "body" ELSE "recover"]
  /\ UNCHANGED <<rowVars, announced, brokerVars, workerVars, server, faults, page>>

\* GET /tasks: the rows as they are by now.  The copies of the recovery are
\* gone: the identity map refers to them weakly, and nothing else does.
ListTasks(r) ==
  /\ rq[r].pc = "body"
  /\ rq[r].kind = "list"
  /\ rq' = [rq EXCEPT ![r].pc = "respond",
                      ![r].answer = IF \E t \in Tasks : status[t] \in {"PENDING", "RUNNING"}
                                    THEN "polling" ELSE "open"]
  /\ UNCHANGED <<rowVars, announced, brokerVars, workerVars, server, faults, page>>

\* setTasks in the page: it polls while the list holds an active task.
Respond(r) ==
  /\ rq[r].pc = "respond"
  /\ page' = rq[r].answer
  /\ rq' = [rq EXCEPT ![r] = IdleRequest]
  /\ UNCHANGED <<rowVars, announced, brokerVars, workerVars, server, faults>>

\* GET /tasks/{id} and /tasks/{id}/result only read once recovery is over.
AnswerStatus(r) ==
  /\ rq[r].pc = "body"
  /\ rq[r].kind = "status"
  /\ rq' = [rq EXCEPT ![r] = IdleRequest]
  /\ UNCHANGED <<rowVars, announced, brokerVars, workerVars, server, faults, page>>

\* POST /{jd}/pipeline: the job description is authorised, the row inserted.
CreateTask(r, t) ==
  /\ rq[r].pc = "body"
  /\ rq[r].kind = "enqueue"
  /\ status[t] = "NONE"
  /\ status' = [status EXCEPT ![t] = "PENDING"]
  /\ stage' = [stage EXCEPT ![t] = "QUEUED"]
  /\ created' = [created EXCEPT ![t] = "fresh"]
  /\ rq' = [rq EXCEPT ![r].pc = "publish", ![r].task = t]
  /\ UNCHANGED <<started, unavailable, payload, announced, brokerVars, workerVars,
                 server, faults, page>>

\* The recruiter may not use this job description, or it is CLOSED.
RejectEnqueue(r) ==
  /\ rq[r].pc = "body"
  /\ rq[r].kind = "enqueue"
  /\ rq' = [rq EXCEPT ![r] = IdleRequest]
  /\ UNCHANGED <<rowVars, announced, brokerVars, workerVars, server, faults, page>>

\* run_scoring_pipeline_task.delay, then update_celery_task_id: nothing reads
\* celery_task_id, so it is not modelled.
Publish(r) ==
  /\ rq[r].pc = "publish"
  /\ queue' = queue \cup {rq[r].task}
  /\ rq' = [rq EXCEPT ![r] = IdleRequest]
  /\ UNCHANGED <<rowVars, announced, redelivered, workerVars, server, faults, page>>

RequestStep(r) ==
  \/ \E t \in Tasks : RecoverTask(r, t) \/ CreateTask(r, t)
  \/ NotifyRecovered(r) \/ ListTasks(r) \/ Respond(r) \/ AnswerStatus(r)
  \/ RejectEnqueue(r) \/ Publish(r)

\* A statement or the broker raises: the request ends in a 500, and nothing
\* it has written is undone (get_db's rollback finds no transaction).
RequestFails(r) ==
  /\ rq[r].pc # "idle"
  /\ faults < MaxFaults
  /\ faults' = faults + 1
  /\ rq' = [rq EXCEPT ![r] = IdleRequest]
  /\ UNCHANGED <<rowVars, announced, brokerVars, workerVars, server, page>>

ServerCrash ==
  /\ server = "up"
  /\ faults < MaxFaults
  /\ faults' = faults + 1
  /\ server' = "down"
  /\ rq' = [r \in Requests |-> IdleRequest]
  /\ UNCHANGED <<rowVars, announced, brokerVars, workerVars, page>>

\* The lifespan hook seeds master data and users and touches no task.
ServerStart ==
  /\ server = "down"
  /\ server' = "up"
  /\ UNCHANGED <<rowVars, announced, brokerVars, workerVars, rq, faults, page>>

-----------------------------------------------------------------------------
(* The recruiter's browser.                                                *)

\* Mounting the page fetches the list once.
OpenPage(r) ==
  /\ page = "closed"
  /\ page' = "open"
  /\ Begin(r, "list")

\* setInterval: another fetch, whether or not the previous one is answered.
Poll(r) ==
  /\ page = "polling"
  /\ page' = page
  /\ Begin(r, "list")

\* A status request that finds nothing stale changes nothing.
AskStatus(r) == StaleTasks # {} /\ Begin(r, "status") /\ page' = page

AskEnqueue(r) == Begin(r, "enqueue") /\ page' = page

\* Unmounting clears the interval; answers still on their way go nowhere.
ClosePage ==
  /\ page # "closed"
  /\ page' = "closed"
  /\ rq' = [r \in Requests |-> IF rq[r].kind # "list" THEN rq[r]
                               ELSE IF rq[r].pc = "respond" THEN IdleRequest
                               ELSE [rq[r] EXCEPT !.kind = "status"]]
  /\ UNCHANGED <<rowVars, announced, brokerVars, workerVars, server, faults>>

-----------------------------------------------------------------------------
(* Workers.                                                                *)

\* Mutant of Receive: the message is acknowledged late, so it stays.
ReceiveUnacknowledged(w, t) ==
  /\ wpc[w] = "idle"
  /\ t \in queue
  /\ wpc' = [wpc EXCEPT ![w] = "received"]
  /\ wtask' = [wtask EXCEPT ![w] = t]
  /\ UNCHANGED <<rowVars, announced, brokerVars, serverVars, page>>

\* The broker hands out a message; early acknowledgement removes it.
Receive(w, t) ==
  /\ wpc[w] = "idle"
  /\ t \in queue
  /\ queue' = queue \ {t}
  /\ wpc' = [wpc EXCEPT ![w] = "received"]
  /\ wtask' = [wtask EXCEPT ![w] = t]
  /\ UNCHANGED <<rowVars, announced, redelivered, serverVars, page>>

\* A message that waits behind busy processes longer than the broker's
\* visibility timeout (an hour) is handed out again, once per task here.
Redeliver(w, t) ==
  /\ wpc[w] = "idle"
  /\ t \in (queue \cap Slow) \ redelivered
  /\ created[t] = "old"
  /\ redelivered' = redelivered \cup {t}
  /\ wpc' = [wpc EXCEPT ![w] = "received"]
  /\ wtask' = [wtask EXCEPT ![w] = t]
  /\ UNCHANGED <<rowVars, announced, queue, serverVars, page>>

\* Mutant of Start: started_at is written, the status forgotten.
StartWithoutStatus(w) ==
  /\ wpc[w] = "received"
  /\ started' = [started EXCEPT ![wtask[w]] = "fresh"]
  /\ wpc' = [wpc EXCEPT ![w] = "started"]
  /\ UNCHANGED <<status, stage, created, unavailable, payload, announced,
                 brokerVars, wtask, serverVars, page>>

\* update_task_started: whatever the status is.
Start(w) ==
  /\ wpc[w] = "received"
  /\ status' = [status EXCEPT ![wtask[w]] = "RUNNING"]
  /\ started' = [started EXCEPT ![wtask[w]] = "fresh"]
  /\ wpc' = [wpc EXCEPT ![w] = "started"]
  /\ UNCHANGED <<stage, created, unavailable, payload, announced, brokerVars,
                 wtask, serverVars, page>>

\* The stages pipeline_prescore_and_score may report after the one it is in;
\* SOURCING is skipped when the local pool is large enough, and a preview
\* (confirm = False) ends with acquisition.
NextStages(s) ==
  LET scoring(stages) == IF TRUE \in Confirms THEN stages ELSE {}
  IN CASE s = "started"       -> {"ACQUIRING"}
       [] s = "ACQUIRING"     -> {"SOURCING"} \cup scoring({"PRE_SCORING"})
       [] s = "SOURCING"      -> scoring({"PRE_SCORING"})
       [] s = "PRE_SCORING"   -> {"SYNCHRONIZING"}
       [] s = "SYNCHRONIZING" -> {"DEEP_SCORING"}
       [] OTHER               -> {}

\* Mutant of Report: the stage is written into the status column.
ReportIntoStatus(w, s) ==
  /\ s \in NextStages(wpc[w])
  /\ status' = [status EXCEPT ![wtask[w]] = s]
  /\ wpc' = [wpc EXCEPT ![w] = s]
  /\ UNCHANGED <<stage, created, started, unavailable, payload, announced,
                 brokerVars, wtask, serverVars, page>>

\* DatabaseProgressReporter.update_stage: no condition on the status.
Report(w, s) ==
  /\ s \in NextStages(wpc[w])
  /\ stage' = [stage EXCEPT ![wtask[w]] = s]
  /\ wpc' = [wpc EXCEPT ![w] = s]
  /\ UNCHANGED <<status, created, started, unavailable, payload, announced,
                 brokerVars, wtask, serverVars, page>>

\* The pipeline returns a preview or an empty pool (after acquisition), an
\* empty selection (after pre-scoring) or the ranking; update_task_success.
Returning == {"ACQUIRING", "SOURCING", "PRE_SCORING", "DEEP_SCORING"}

\* Mutant of Succeed: the stage is not moved to COMPLETED.
SucceedKeepsStage(w) ==
  /\ wpc[w] \in Returning
  /\ status' = [status EXCEPT ![wtask[w]] = "SUCCESS"]
  /\ payload' = payload \cup {wtask[w]}
  /\ wpc' = [wpc EXCEPT ![w] = "succeeded"]
  /\ UNCHANGED <<stage, created, started, unavailable, announced, brokerVars,
                 wtask, serverVars, page>>

Succeed(w) ==
  /\ wpc[w] \in Returning
  /\ status' = [status EXCEPT ![wtask[w]] = "SUCCESS"]
  /\ stage' = [stage EXCEPT ![wtask[w]] = "COMPLETED"]
  /\ payload' = payload \cup {wtask[w]}
  /\ wpc' = [wpc EXCEPT ![w] = "succeeded"]
  /\ UNCHANGED <<created, started, unavailable, announced, brokerVars, wtask,
                 serverVars, page>>

\* Any exception before the result is stored.
Raise(w) ==
  /\ wpc[w] \in Pipeline \cup {"received"}
  /\ wpc' = [wpc EXCEPT ![w] = "failing"]
  /\ UNCHANGED <<rowVars, announced, brokerVars, wtask, serverVars, page>>

\* update_task_failure in a session of its own.
RecordFailure(w) ==
  /\ wpc[w] = "failing"
  /\ status' = [status EXCEPT ![wtask[w]] = "FAILED"]
  /\ stage' = [stage EXCEPT ![wtask[w]] = "FAILED"]
  /\ wpc' = [wpc EXCEPT ![w] = "failed"]
  /\ UNCHANGED <<created, started, unavailable, payload, announced, brokerVars,
                 wtask, serverVars, page>>

\* The best-effort notification of the outcome ends the execution.
NotifyOutcome(w) ==
  /\ wpc[w] \in {"succeeded", "failed"}
  /\ \/ wpc[w] = "succeeded" /\ announced' = announced \cup {wtask[w]}
     \/ announced' = announced
  /\ wpc' = [wpc EXCEPT ![w] = "idle"]
  /\ wtask' = [wtask EXCEPT ![w] = NoTask]
  /\ UNCHANGED <<rowVars, brokerVars, serverVars, page>>

\* Mutant of WorkerLost: the broker requeues what a dead worker held.
WorkerLostRequeues(w) ==
  /\ wpc[w] # "idle"
  /\ queue' = queue \cup {wtask[w]}
  /\ wpc' = [wpc EXCEPT ![w] = "idle"]
  /\ wtask' = [wtask EXCEPT ![w] = NoTask]
  /\ UNCHANGED <<rowVars, announced, redelivered, serverVars, page>>

\* The process dies, or its failure could not be stored (only logged): the
\* message is acknowledged already, so the task is lost where it stands.
WorkerLost(w) ==
  /\ wpc[w] # "idle"
  /\ wpc' = [wpc EXCEPT ![w] = "idle"]
  /\ wtask' = [wtask EXCEPT ![w] = NoTask]
  /\ UNCHANGED <<rowVars, announced, brokerVars, serverVars, page>>

-----------------------------------------------------------------------------
(* Time.                                                                   *)

CreatedAges(t) ==
  /\ created[t] = "fresh"
  /\ created' = [created EXCEPT ![t] = "old"]
  /\ UNCHANGED <<status, stage, started, unavailable, payload, announced,
                 brokerVars, workerVars, serverVars, page>>

\* A task is created before it is started.
StartedAges(t) ==
  /\ started[t] = "fresh"
  /\ created[t] = "old"
  /\ started' = [started EXCEPT ![t] = "old"]
  /\ UNCHANGED <<status, stage, created, unavailable, payload, announced,
                 brokerVars, workerVars, serverVars, page>>

-----------------------------------------------------------------------------

Browser(r) == OpenPage(r) \/ Poll(r) \/ AskStatus(r) \/ AskEnqueue(r)

WorkerStep(w) ==
  \/ \E t \in Tasks : Receive(w, t) \/ Redeliver(w, t)
  \/ \E s \in Stages : Report(w, s)
  \/ Start(w) \/ Succeed(w) \/ Raise(w) \/ RecordFailure(w)
  \/ NotifyOutcome(w) \/ WorkerLost(w)

Next ==
  \/ \E r \in Requests : Browser(r) \/ RequestStep(r) \/ RequestFails(r)
  \/ \E w \in Workers : WorkerStep(w)
  \/ \E t \in Tasks : CreatedAges(t) \/ StartedAges(t)
  \/ ServerCrash \/ ServerStart \/ ClosePage

Spec == Init /\ [][Next]_vars

\* Time passes, requests under way are served, the server is restarted, and
\* an open page keeps polling.  Nothing is assumed of the workers: they may
\* hang or stay down for ever.  Polling is strongly fair because the slots of
\* Requests, which other requests may occupy in turn, bound the model only.
Fairness ==
  /\ WF_vars(ServerStart)
  /\ SF_vars(\E r \in Requests : Poll(r))
  /\ \A r \in Requests : WF_vars(RequestStep(r))
  /\ \A t \in Tasks : WF_vars(CreatedAges(t)) /\ WF_vars(StartedAges(t))

FairSpec == Spec /\ Fairness
-----------------------------------------------------------------------------
(* What the code promises.                                                 *)

\* Does worker w execute task t?
Executes(w, t) == wpc[w] # "idle" /\ wtask[w] = t

\* Early acknowledgement and one delay() per row: unless the broker hands a
\* message out twice, a task has at most one execution, and none while its
\* message waits (tasks.py, scoring_route.py).
OneExecution ==
  \A t \in Tasks \ redelivered : \A w \in Workers :
     Executes(w, t) => t \notin queue /\ \A v \in Workers \ {w} : ~Executes(v, t)

\* Can task t still be handed out for the first time?
Unserved(t) ==
  \/ status[t] = "NONE"
  \/ \E r \in Requests : rq[r].pc = "publish" /\ rq[r].task = t
  \/ t \in queue

Underway(t) == \E w \in Workers : Executes(w, t)

\* A task is executed at most once in its whole life, unless the broker hands
\* its message out twice: neither recovery nor a restart of the server nor the
\* death of its worker makes it run again, and no request publishes it again.
RunsOnce ==
  \A t \in Tasks : t \notin redelivered' =>
     /\ Unserved(t)' => Unserved(t)
     /\ Underway(t)' => Underway(t) \/ (Unserved(t) /\ ~Unserved(t)')
AtMostOnce == [][RunsOnce]_vars

\* The page of a PENDING task never shows progress, and the progress of a
\* started task is never reset to PENDING: the first write of a worker is
\* update_task_started, before any stage.
PendingIsUnstarted ==
  \A t \in Tasks : status[t] = "PENDING" =>
     /\ stage[t] = "QUEUED" /\ started[t] = "none" /\ t \notin payload
     /\ \A w \in Workers : Executes(w, t) => wpc[w] \in {"received", "failing"}

\* A SUCCESS row that was handed out once has stage COMPLETED and a result
\* to fetch, whatever recovery wrote into the row before.
SuccessIsComplete ==
  \A t \in Tasks : status[t] = "SUCCESS" =>
     /\ t \in payload
     /\ t \notin redelivered => stage[t] = "COMPLETED"

\* A stored SUCCESS stays, unless a recovery had read the task before it
\* succeeded or the broker handed the message out twice; and no recovery
\* that begins after the success picks the task up.
SuccessStays ==
  \A t \in Tasks : status[t] = "SUCCESS" =>
     /\ \A r \in Requests : t \in rq'[r].todo => t \in rq[r].todo
     /\ (t \notin redelivered /\ \A r \in Requests : t \notin rq[r].todo)
          => status'[t] = "SUCCESS"
SuccessFinal == [][SuccessStays]_vars

\* A failure that the worker itself recorded is final: only a task that
\* recovery declared lost can come back to life.
OwnFailureStays ==
  \A t \in Tasks \ (redelivered \cup unavailable) :
     status[t] = "FAILED" => status'[t] = "FAILED"
OwnFailureFinal == [][OwnFailureStays]_vars

\* A page that polls stops polling: every task it waits for is settled by its
\* worker or, when the worker is gone or hangs, by stale-task recovery.
PollStops == page = "polling" ~> page # "polling"

\* Suspected are the tasks that some request has read as stale, that were
\* recovered, or that were handed out twice.
Suspected ==
  redelivered \cup unavailable \cup UNION {rq[r].todo : r \in Requests}

Promise == INSTANCE TaskStatus WITH suspected <- Suspected

\* The rows keep the promise of TaskStatus: no step of any worker, request or
\* browser moves the status of a trusted task but forward, and no settled
\* task comes under suspicion.
StatusPromise == Promise!Spec
=============================================================================
