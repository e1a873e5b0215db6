------------------------- MODULE ScoringTask_proofs -------------------------
(***************************************************************************)
(* Theorems about ScoringTask for any sets of tasks, workers and requests. *)
(***************************************************************************)
EXTENDS ScoringTask, TLAPS

\* Who is at work holds a task.
Assigned ==
  /\ \A w \in Workers : wpc[w] # "idle" => wtask[w] \in Tasks
  /\ \A r \in Requests : rq[r].pc = "publish" => rq[r].task \in Tasks

Holding(q) == q.pc = "publish" => q.task \in Tasks

\* Replacing one request by another keeps the requests well typed.
LEMMA ReplaceRequest ==
  ASSUME TypeOK, Assigned, NEW r \in Requests, NEW q \in Request, Holding(q),
         rq' = [rq EXCEPT ![r] = q]
  PROVE  /\ rq' \in [Requests -> Request]
         /\ \A p \in Requests : rq'[p].pc = "publish" => rq'[p].task \in Tasks
BY DEF TypeOK, Assigned, Holding

LEMMA IdleType == IdleRequest \in Request /\ Holding(IdleRequest)
BY DEF IdleRequest, Request, RequestPCs, Kinds, Holding

\* The two updates of a request in the body of its handler.
LEMMA ToPublish ==
  ASSUME NEW q \in Request, NEW t \in Tasks
  PROVE  LET p == [q EXCEPT !.pc = "publish", !.task = t]
         IN  p \in Request /\ Holding(p)
BY DEF Request, RequestPCs, Holding

LEMMA ToRespond ==
  ASSUME NEW q \in Request, NEW a \in {"open", "polling"}
  PROVE  LET p == [q EXCEPT !.pc = "respond", !.answer = a]
         IN  p \in Request /\ Holding(p)
BY DEF Request, RequestPCs, Holding

\* A request that recover_stale_tasks begins is a request.
LEMMA BeginType ==
  ASSUME TypeOK, Assigned, NEW r \in Requests, NEW kind \in Kinds, Begin(r, kind)
  PROVE  /\ rq' \in [Requests -> Request]
         /\ \A p \in Requests : rq'[p].pc = "publish" => rq'[p].task \in Tasks
<1> DEFINE b == [IdleRequest EXCEPT
                   !.pc = IF StaleTasks = {} THEN "body" ELSE "recover",
                   !.kind = kind,
                   !.todo = StaleTasks,
                   !.stageFailed = {t \in StaleTasks : stage[t] = "FAILED"}]
<1>1. b \in Request /\ Holding(b)
  BY DEF StaleTasks, IdleRequest, Request, RequestPCs, Kinds, Holding
<1>2. rq' = [rq EXCEPT ![r] = b]
  BY DEF Begin
<1>3. QED
  BY <1>1, <1>2, ReplaceRequest

\* The type invariant, with what holds of the tasks in hand: every write
\* puts a value of its column's type into a row that exists in Tasks.
THEOREM TypeCorrect == Spec => [](TypeOK /\ Assigned)
<1> USE ConstantsOK DEF TypeOK, Assigned
<1>1. Init => TypeOK /\ Assigned
  BY DEF Init, Stages, Statuses, Ages, WorkerPCs, RequestPCs, Kinds, Request,
         IdleRequest
<1>2. TypeOK /\ Assigned /\ [Next]_vars => (TypeOK /\ Assigned)'
  <2> SUFFICES ASSUME TypeOK, Assigned, [Next]_vars
               PROVE  (TypeOK /\ Assigned)'
    OBVIOUS
  <2> USE DEF rowVars, brokerVars, workerVars, serverVars
  <2>1. ASSUME NEW r \in Requests, NEW kind \in Kinds, Begin(r, kind),
               page' \in {"closed", "open", "polling"}
        PROVE  (TypeOK /\ Assigned)'
    <3>1. /\ rq' \in [Requests -> Request]
          /\ \A p \in Requests : rq'[p].pc = "publish" => rq'[p].task \in Tasks
      BY <2>1, BeginType
    <3>2. QED
      BY <2>1, <3>1 DEF Begin
  <2>2. ASSUME NEW r \in Requests, Browser(r)
        PROVE  (TypeOK /\ Assigned)'
    <3>1. page' \in {"closed", "open", "polling"}
      BY <2>2 DEF Browser, OpenPage, Poll, AskStatus, AskEnqueue
    <3>2. \E kind \in Kinds : Begin(r, kind)
      BY <2>2 DEF Browser, OpenPage, Poll, AskStatus, AskEnqueue, Kinds
    <3>3. QED
      BY <2>1, <3>1, <3>2
  <2> USE DEF Stages, Statuses, Ages, Pipeline, WorkerPCs, RequestPCs, Kinds,
              Request, IdleRequest
  <2>3. ASSUME NEW r \in Requests, NEW t \in Tasks, RecoverTask(r, t)
        PROVE  (TypeOK /\ Assigned)'
    BY <2>3 DEF RecoverTask
  <2>4. ASSUME NEW r \in Requests, NEW t \in Tasks, CreateTask(r, t)
        PROVE  (TypeOK /\ Assigned)'
    <3> DEFINE q == [rq[r] EXCEPT !.pc = "publish", !.task = t]
    <3> HIDE DEF Request
    <3>1. q \in Request /\ Holding(q)
      BY ToPublish
    <3>2. rq' = [rq EXCEPT ![r] = q]
      BY <2>4 DEF CreateTask
    <3> HIDE DEF q
    <3>3. QED
      BY <2>4, <3>1, <3>2, ReplaceRequest DEF CreateTask
  <2>5. ASSUME NEW r \in Requests, NotifyRecovered(r)
        PROVE  (TypeOK /\ Assigned)'
    BY <2>5 DEF NotifyRecovered
  <2>6. ASSUME NEW r \in Requests, ListTasks(r)
        PROVE  (TypeOK /\ Assigned)'
    <3>1. PICK a \in {"open", "polling"} :
             rq' = [rq EXCEPT ![r].pc = "respond", ![r].answer = a]
      BY <2>6 DEF ListTasks
    <3> DEFINE q == [rq[r] EXCEPT !.pc = "respond", !.answer = a]
    <3> HIDE DEF Request
    <3>2. q \in Request /\ Holding(q)
      BY ToRespond
    <3>3. rq' = [rq EXCEPT ![r] = q]
      BY <3>1
    <3> HIDE DEF q
    <3>4. QED
      BY <2>6, <3>2, <3>3, ReplaceRequest DEF ListTasks
  <2>7. ASSUME NEW r \in Requests, Respond(r)
        PROVE  (TypeOK /\ Assigned)'
    BY <2>7 DEF Respond
  <2>8. ASSUME NEW r \in Requests, AnswerStatus(r) \/ RejectEnqueue(r)
        PROVE  (TypeOK /\ Assigned)'
    <3>1. rq' = [rq EXCEPT ![r] = IdleRequest]
      BY <2>8 DEF AnswerStatus, RejectEnqueue
    <3> HIDE DEF Request, IdleRequest
    <3>2. QED
      BY <2>8, <3>1, IdleType, ReplaceRequest DEF AnswerStatus, RejectEnqueue
  <2>9. ASSUME NEW r \in Requests, Publish(r)
        PROVE  (TypeOK /\ Assigned)'
    BY <2>9 DEF Publish
  <2>10. ASSUME NEW r \in Requests, RequestFails(r)
         PROVE  (TypeOK /\ Assigned)'
    BY <2>10 DEF RequestFails
  <2>11. CASE ServerCrash \/ ServerStart
    BY <2>11 DEF ServerCrash, ServerStart
  <2>12. CASE ClosePage
    BY <2>12 DEF ClosePage
  <2>13. ASSUME NEW w \in Workers, NEW t \in Tasks, Receive(w, t) \/ Redeliver(w, t)
         PROVE  (TypeOK /\ Assigned)'
    BY <2>13 DEF Receive, Redeliver
  <2>14. ASSUME NEW w \in Workers, Start(w)
         PROVE  (TypeOK /\ Assigned)'
    BY <2>14 DEF Start
  <2>15. ASSUME NEW w \in Workers, NEW s \in Stages, Report(w, s)
         PROVE  (TypeOK /\ Assigned)'
    BY <2>15 DEF Report, NextStages
  <2>16. ASSUME NEW w \in Workers, Succeed(w)
         PROVE  (TypeOK /\ Assigned)'
    BY <2>16 DEF Succeed, Returning
  <2>17. ASSUME NEW w \in Workers, Raise(w) \/ WorkerLost(w)
         PROVE  (TypeOK /\ Assigned)'
    BY <2>17 DEF Raise, WorkerLost
  <2>18. ASSUME NEW w \in Workers, RecordFailure(w)
         PROVE  (TypeOK /\ Assigned)'
    BY <2>18 DEF RecordFailure
  <2>19. ASSUME NEW w \in Workers, NotifyOutcome(w)
         PROVE  (TypeOK /\ Assigned)'
    BY <2>19 DEF NotifyOutcome
  <2>20. ASSUME NEW t \in Tasks, CreatedAges(t) \/ StartedAges(t)
         PROVE  (TypeOK /\ Assigned)'
    BY <2>20 DEF CreatedAges, StartedAges
  <2>21. CASE UNCHANGED vars
    BY <2>21 DEF vars
  <2>22. QED
    BY <2>2, <2>3, <2>4, <2>5, <2>6, <2>7, <2>8, <2>9, <2>10, <2>11, <2>12,
       <2>13, <2>14, <2>15, <2>16, <2>17, <2>18, <2>19, <2>20, <2>21
       DEF Next, RequestStep, WorkerStep
<1>3. QED
  BY <1>1, <1>2, PTL DEF Spec

-----------------------------------------------------------------------------
(***************************************************************************)
(* The inductive invariant.  OneExecution is not inductive: it needs that  *)
(* a row still to be published has neither message nor worker, and the     *)
(* finality of outcomes needs that nobody is left who would write again.   *)
(***************************************************************************)
Publishing(r, t) == rq[r].pc = "publish" /\ rq[r].task = t

\* Nobody knows a row that is not inserted yet.
Uncreated ==
  \A t \in Tasks : status[t] = "NONE" =>
     /\ t \notin queue /\ t \notin payload /\ started[t] = "none"
     /\ \A w \in Workers : ~Executes(w, t)
     /\ \A r \in Requests : ~Publishing(r, t) /\ t \notin rq[r].todo

\* A row is published once, and before any execution.
OnePublication ==
  \A t \in Tasks \ redelivered : \A r \in Requests : Publishing(r, t) =>
     /\ t \notin queue
     /\ \A w \in Workers : ~Executes(w, t)
     /\ \A q \in Requests \ {r} : ~Publishing(q, t)

\* No message is left for t, and its worker, if any, is at pc.
OnlyAt(t, pc) ==
  /\ t \notin queue
  /\ \A r \in Requests : ~Publishing(r, t)
  /\ \A w \in Workers : Executes(w, t) => wpc[w] = pc

SuccessQuiet ==
  \A t \in Tasks \ redelivered : status[t] = "SUCCESS" => OnlyAt(t, "succeeded")

FailureQuiet ==
  \A t \in Tasks \ (redelivered \cup unavailable) :
     status[t] = "FAILED" => OnlyAt(t, "failed")

IInv == /\ Uncreated /\ OneExecution /\ OnePublication /\ PendingIsUnstarted
        /\ SuccessIsComplete /\ SuccessQuiet /\ FailureQuiet

\* Each kind of step preserves it: first the requests, which touch rows only
\* by inserting them and by recovering the ones they have read.
LEMMA BeginStep ==
  ASSUME TypeOK, Assigned, IInv, NEW r \in Requests, NEW kind \in Kinds, Begin(r, kind)
  PROVE  IInv'
BY DEF TypeOK, Assigned, IInv, Begin, IdleRequest, StaleTasks, Stale, rowVars,
       brokerVars, workerVars, Publishing, Uncreated, OneExecution, OnePublication,
       OnlyAt, SuccessQuiet, FailureQuiet, PendingIsUnstarted, SuccessIsComplete,
       Executes, Request

LEMMA RecoverStep ==
  ASSUME TypeOK, Assigned, IInv, NEW r \in Requests, NEW t \in Tasks, RecoverTask(r, t)
  PROVE  IInv'
BY DEF TypeOK, Assigned, IInv, RecoverTask,
       brokerVars, workerVars, Publishing, Uncreated, OneExecution, OnePublication,
       OnlyAt, SuccessQuiet, FailureQuiet, PendingIsUnstarted, SuccessIsComplete,
       Executes, Request

LEMMA CreateStep ==
  ASSUME TypeOK, Assigned, IInv, NEW r \in Requests, NEW t \in Tasks, CreateTask(r, t)
  PROVE  IInv'
BY DEF TypeOK, Assigned, IInv, CreateTask,
       brokerVars, workerVars, Publishing, Uncreated, OneExecution, OnePublication,
       OnlyAt, SuccessQuiet, FailureQuiet, PendingIsUnstarted, SuccessIsComplete,
       Executes, Request

LEMMA PublishStep ==
  ASSUME TypeOK, Assigned, IInv, NEW r \in Requests, Publish(r)
  PROVE  IInv'
BY DEF TypeOK, Assigned, IInv, Publish, IdleRequest, rowVars, workerVars, Request,
       Publishing, Uncreated, OneExecution, OnePublication,
       OnlyAt, SuccessQuiet, FailureQuiet, PendingIsUnstarted, SuccessIsComplete,
       Executes

\* Steps that change no row, message or worker and take no new work.
LEMMA QuietStep ==
  ASSUME TypeOK, Assigned, IInv, UNCHANGED <<rowVars, brokerVars, workerVars>>,
         \A r \in Requests : /\ rq'[r].todo \subseteq rq[r].todo
                             /\ rq'[r].pc = "publish" =>
                                  rq[r].pc = "publish" /\ rq'[r].task = rq[r].task
  PROVE  IInv'
BY DEF TypeOK, Assigned, IInv, rowVars, brokerVars, workerVars,
       Publishing, Uncreated, OneExecution, OnePublication,
       OnlyAt, SuccessQuiet, FailureQuiet, PendingIsUnstarted, SuccessIsComplete,
       Executes

\* The workers, which write the row of the task they hold.
LEMMA StartStep ==
  ASSUME TypeOK, Assigned, IInv, NEW w \in Workers, Start(w)
  PROVE  IInv'
BY DEF TypeOK, Assigned, IInv, Start, brokerVars, serverVars, Pipeline,
       Publishing, Uncreated, OneExecution, OnePublication,
       OnlyAt, SuccessQuiet, FailureQuiet, PendingIsUnstarted, SuccessIsComplete,
       Executes

LEMMA ReceiveStep ==
  ASSUME TypeOK, Assigned, IInv, NEW w \in Workers, NEW t \in Tasks,
         Receive(w, t) \/ Redeliver(w, t)
  PROVE  IInv'
BY DEF TypeOK, Assigned, IInv, Receive, Redeliver, rowVars, serverVars,
       Publishing, Uncreated, OneExecution, OnePublication,
       OnlyAt, SuccessQuiet, FailureQuiet, PendingIsUnstarted, SuccessIsComplete,
       Executes

LEMMA ReportStep ==
  ASSUME TypeOK, Assigned, IInv, NEW w \in Workers, NEW s \in Stages, Report(w, s)
  PROVE  IInv'
<1>1. wpc[w] \in Pipeline /\ s \in Pipeline
  BY DEF Report, NextStages, Pipeline
<1>2. QED
  BY <1>1 DEF TypeOK, Assigned, IInv, Report, Pipeline, brokerVars, serverVars,
     Publishing, Uncreated, OneExecution, OnePublication,
     OnlyAt, SuccessQuiet, FailureQuiet, PendingIsUnstarted, SuccessIsComplete,
     Executes

LEMMA SucceedStep ==
  ASSUME TypeOK, Assigned, IInv, NEW w \in Workers, Succeed(w)
  PROVE  IInv'
BY DEF TypeOK, Assigned, IInv, Succeed, Returning, brokerVars, serverVars,
       Publishing, Uncreated, OneExecution, OnePublication,
       OnlyAt, SuccessQuiet, FailureQuiet, PendingIsUnstarted, SuccessIsComplete,
       Executes

LEMMA RaiseStep ==
  ASSUME TypeOK, Assigned, IInv, NEW w \in Workers, Raise(w)
  PROVE  IInv'
BY DEF TypeOK, Assigned, IInv, Raise, Pipeline, rowVars, brokerVars, serverVars,
       Publishing, Uncreated, OneExecution, OnePublication,
       OnlyAt, SuccessQuiet, FailureQuiet, PendingIsUnstarted, SuccessIsComplete,
       Executes

LEMMA FailureStep ==
  ASSUME TypeOK, Assigned, IInv, NEW w \in Workers, RecordFailure(w)
  PROVE  IInv'
BY DEF TypeOK, Assigned, IInv, RecordFailure, brokerVars, serverVars,
       Publishing, Uncreated, OneExecution, OnePublication,
       OnlyAt, SuccessQuiet, FailureQuiet, PendingIsUnstarted, SuccessIsComplete,
       Executes

LEMMA ReleaseStep ==
  ASSUME TypeOK, Assigned, IInv, NEW w \in Workers, NotifyOutcome(w) \/ WorkerLost(w)
  PROVE  IInv'
BY DEF TypeOK, Assigned, IInv, NotifyOutcome, WorkerLost, rowVars, brokerVars, serverVars,
       Publishing, Uncreated, OneExecution, OnePublication,
       OnlyAt, SuccessQuiet, FailureQuiet, PendingIsUnstarted, SuccessIsComplete,
       Executes

LEMMA AgeStep ==
  ASSUME TypeOK, Assigned, IInv, NEW t \in Tasks, CreatedAges(t) \/ StartedAges(t)
  PROVE  IInv'
BY DEF TypeOK, Assigned, IInv, CreatedAges, StartedAges, brokerVars, workerVars,
       serverVars,
       Publishing, Uncreated, OneExecution, OnePublication,
       OnlyAt, SuccessQuiet, FailureQuiet, PendingIsUnstarted, SuccessIsComplete,
       Executes

-----------------------------------------------------------------------------

\* In every reachable state the invariant holds.
THEOREM Invariance == Spec => []IInv
<1>1. Init => IInv
  BY ConstantsOK DEF Init, IInv, IdleRequest, Publishing, Uncreated, OneExecution,
     OnePublication, OnlyAt, SuccessQuiet, FailureQuiet, PendingIsUnstarted,
     SuccessIsComplete, Executes
<1>2. TypeOK /\ Assigned /\ IInv /\ [Next]_vars => IInv'
  <2> SUFFICES ASSUME TypeOK, Assigned, IInv, [Next]_vars
               PROVE  IInv'
    OBVIOUS
  <2>1. ASSUME NEW r \in Requests, Browser(r)
        PROVE  IInv'
    BY <2>1, BeginStep DEF Browser, OpenPage, Poll, AskStatus, AskEnqueue, Kinds
  <2>2. ASSUME NEW r \in Requests,
               \/ NotifyRecovered(r) \/ ListTasks(r) \/ Respond(r) \/ AnswerStatus(r)
               \/ RejectEnqueue(r) \/ RequestFails(r)
        PROVE  IInv'
    <3>1. \A q \in Requests : /\ rq'[q].todo \subseteq rq[q].todo
                              /\ rq'[q].pc = "publish" =>
                                   rq[q].pc = "publish" /\ rq'[q].task = rq[q].task
      BY <2>2 DEF TypeOK, Request, IdleRequest, NotifyRecovered, ListTasks, Respond,
         AnswerStatus, RejectEnqueue, RequestFails
    <3>2. UNCHANGED <<rowVars, brokerVars, workerVars>>
      BY <2>2 DEF NotifyRecovered, ListTasks, Respond, AnswerStatus, RejectEnqueue,
         RequestFails
    <3>3. QED
      BY <3>1, <3>2, QuietStep
  <2>3. CASE ServerCrash \/ ServerStart \/ ClosePage
    <3>1. \A q \in Requests : /\ rq'[q].todo \subseteq rq[q].todo
                              /\ rq'[q].pc = "publish" =>
                                   rq[q].pc = "publish" /\ rq'[q].task = rq[q].task
      <4>1. CASE ServerCrash
        BY <4>1 DEF IdleRequest, ServerCrash
      <4>2. CASE ServerStart
        BY <4>2 DEF ServerStart
      <4>3. CASE ClosePage
        <5> SUFFICES ASSUME NEW q \in Requests
                     PROVE  /\ rq'[q].todo \subseteq rq[q].todo
                            /\ rq'[q].pc = "publish" =>
                                 rq[q].pc = "publish" /\ rq'[q].task = rq[q].task
          OBVIOUS
        <5>1. rq[q] \in Request
          BY DEF TypeOK
        <5>2. QED
          BY <4>3, <5>1 DEF ClosePage, IdleRequest, Request
      <4>4. QED
        BY <2>3, <4>1, <4>2, <4>3
    <3>2. UNCHANGED <<rowVars, brokerVars, workerVars>>
      BY <2>3 DEF ServerCrash, ServerStart, ClosePage
    <3>3. QED
      BY <3>1, <3>2, QuietStep
  <2>4. ASSUME NEW r \in Requests, RequestStep(r)
        PROVE  IInv'
    BY <2>2, <2>4, RecoverStep, CreateStep, PublishStep DEF RequestStep
  <2>5. ASSUME NEW w \in Workers, WorkerStep(w)
        PROVE  IInv'
    BY <2>5, StartStep, ReceiveStep, ReportStep, SucceedStep, RaiseStep, FailureStep,
       ReleaseStep DEF WorkerStep
  <2>6. ASSUME NEW t \in Tasks, CreatedAges(t) \/ StartedAges(t)
        PROVE  IInv'
    BY <2>6, AgeStep
  <2>7. CASE UNCHANGED vars
    BY <2>7, QuietStep DEF vars, serverVars
  <2>8. QED
    BY <2>1, <2>2, <2>3, <2>4, <2>5, <2>6, <2>7 DEF Next
<1>3. QED
  BY <1>1, <1>2, TypeCorrect, PTL DEF Spec

\* A task whose message is handed out once is executed by one worker at a
\* time, and by none while its message still waits.
THEOREM OneExecutionHolds == Spec => []OneExecution
<1>1. IInv => OneExecution
  BY DEF IInv
<1>2. QED
  BY <1>1, Invariance, PTL

\* A PENDING row is one that no worker has touched, whatever recoveries and
\* redeliveries have happened.
THEOREM RowsConsistent == Spec => []PendingIsUnstarted
<1>1. IInv => PendingIsUnstarted
  BY DEF IInv
<1>2. QED
  BY <1>1, Invariance, PTL

\* A client that reads SUCCESS finds a result, and stage COMPLETED unless the
\* message was handed out twice.
THEOREM ResultsComplete == Spec => []SuccessIsComplete
<1>1. IInv => SuccessIsComplete
  BY DEF IInv
<1>2. QED
  BY <1>1, Invariance, PTL
-----------------------------------------------------------------------------
(***************************************************************************)
(* What the steps may never do.  Both properties follow from the quiet     *)
(* parts of the invariant: once an outcome is stored, no worker and no     *)
(* message is left that would write the row again.                         *)
(***************************************************************************)

\* A stored SUCCESS is overwritten by nobody but a recovery that had read
\* the row before, and no later recovery reads it.
THEOREM SuccessFinalHolds == Spec => SuccessFinal
<1>1. TypeOK /\ Assigned /\ IInv /\ [Next]_vars => [SuccessStays]_vars
  <2> SUFFICES ASSUME TypeOK, Assigned, IInv, [Next]_vars,
                      NEW t \in Tasks, status[t] = "SUCCESS"
               PROVE  /\ \A r \in Requests : t \in rq'[r].todo => t \in rq[r].todo
                      /\ (t \notin redelivered /\ \A r \in Requests : t \notin rq[r].todo)
                           => status'[t] = "SUCCESS"
    BY DEF SuccessStays
  <2> DEFINE Kept == /\ \A r \in Requests : t \in rq'[r].todo => t \in rq[r].todo
                     /\ (t \notin redelivered /\ \A r \in Requests : t \notin rq[r].todo)
                          => status'[t] = "SUCCESS"
  <2>1. t \notin redelivered => OnlyAt(t, "succeeded")
    BY DEF IInv, SuccessQuiet
  <2>2. ASSUME NEW r \in Requests, NEW kind \in Kinds, Begin(r, kind)
        PROVE  Kept
    BY <2>2 DEF Begin, TypeOK, Request, IdleRequest, StaleTasks, Stale, rowVars
  <2>3. ASSUME NEW r \in Requests, Browser(r)
        PROVE  Kept
    BY <2>2, <2>3 DEF Browser, OpenPage, Poll, AskStatus, AskEnqueue, Kinds
  <2>4. ASSUME NEW r \in Requests, RequestStep(r) \/ RequestFails(r)
        PROVE  Kept
    <3>1. CASE \E u \in Tasks : RecoverTask(r, u)
      BY <3>1 DEF RecoverTask, TypeOK, Request
    <3>2. CASE \E u \in Tasks : CreateTask(r, u)
      BY <3>2 DEF CreateTask, TypeOK, Request
    <3>3. CASE NotifyRecovered(r) \/ ListTasks(r)
      <4>1. CASE NotifyRecovered(r)
        BY <4>1 DEF NotifyRecovered, TypeOK, Request, rowVars
      <4>2. CASE ListTasks(r)
        <5>1. PICK a : rq' = [rq EXCEPT ![r].pc = "respond", ![r].answer = a]
          BY <4>2 DEF ListTasks
        <5>2. status' = status
          BY <4>2 DEF ListTasks, rowVars
        <5>3. QED
          BY <5>1, <5>2 DEF TypeOK, Request
      <4>3. QED
        BY <3>3, <4>1, <4>2
    <3>4. CASE \/ Respond(r) \/ AnswerStatus(r) \/ RejectEnqueue(r)
               \/ Publish(r) \/ RequestFails(r)
      BY <3>4 DEF Respond, AnswerStatus, RejectEnqueue, Publish, RequestFails,
         TypeOK, IdleRequest, rowVars
    <3>5. QED
      BY <2>4, <3>1, <3>2, <3>3, <3>4 DEF RequestStep
  <2>5. CASE ServerCrash \/ ServerStart \/ ClosePage
    BY <2>5 DEF ServerCrash, ServerStart, ClosePage, TypeOK, Request, IdleRequest,
       rowVars
  <2>6. ASSUME NEW w \in Workers, WorkerStep(w)
        PROVE  Kept
    <3>1. rq' = rq
      BY <2>6 DEF WorkerStep, Receive, Redeliver, Report, Start, Succeed, Raise,
         RecordFailure, NotifyOutcome, WorkerLost, serverVars
    <3>2. ASSUME t \notin redelivered
          PROVE  status'[t] = "SUCCESS"
      <4>1. Executes(w, t) => wpc[w] = "succeeded"
        BY <2>1, <3>2 DEF OnlyAt
      <4>2. CASE \E s \in Stages : Report(w, s)
        BY <4>2 DEF Report
      <4>3. CASE Start(w) \/ RecordFailure(w)
        BY <4>1, <4>3 DEF Start, RecordFailure, Executes, TypeOK
      <4>4. CASE Succeed(w)
        BY <4>4 DEF Succeed, TypeOK
      <4>5. CASE \/ \E u \in Tasks : Receive(w, u) \/ Redeliver(w, u)
                 \/ Raise(w) \/ NotifyOutcome(w) \/ WorkerLost(w)
        BY <4>5 DEF Receive, Redeliver, Raise, NotifyOutcome, WorkerLost, rowVars
      <4>6. QED
        BY <2>6, <4>2, <4>3, <4>4, <4>5 DEF WorkerStep
    <3>3. QED
      BY <3>1, <3>2
  <2>7. ASSUME NEW u \in Tasks, CreatedAges(u) \/ StartedAges(u)
        PROVE  Kept
    BY <2>7 DEF CreatedAges, StartedAges, serverVars
  <2>8. CASE UNCHANGED vars
    BY <2>8 DEF vars, rowVars, serverVars
  <2>9. QED
    BY <2>3, <2>4, <2>5, <2>6, <2>7, <2>8 DEF Next
<1>2. QED
  BY <1>1, TypeCorrect, Invariance, PTL DEF Spec, SuccessFinal

\* A failure that the worker itself stored is final.
THEOREM OwnFailureFinalHolds == Spec => OwnFailureFinal
<1>1. TypeOK /\ Assigned /\ IInv /\ [Next]_vars => [OwnFailureStays]_vars
  <2> SUFFICES ASSUME TypeOK, Assigned, IInv, [Next]_vars,
                      NEW t \in Tasks \ (redelivered \cup unavailable),
                      status[t] = "FAILED"
               PROVE  status'[t] = "FAILED"
    BY DEF OwnFailureStays
  <2>1. OnlyAt(t, "failed")
    BY DEF IInv, FailureQuiet
  <2>2. ASSUME NEW r \in Requests, Browser(r)
        PROVE  status' = status
    BY <2>2 DEF Browser, OpenPage, Poll, AskStatus, AskEnqueue, Begin, rowVars
  <2>3. ASSUME NEW r \in Requests, RequestStep(r) \/ RequestFails(r)
        PROVE  status'[t] = "FAILED"
    BY <2>3 DEF RequestStep, RequestFails, RecoverTask, CreateTask, NotifyRecovered,
       ListTasks, Respond, AnswerStatus, RejectEnqueue, Publish, TypeOK, rowVars
  <2>4. CASE ServerCrash \/ ServerStart \/ ClosePage
    BY <2>4 DEF ServerCrash, ServerStart, ClosePage, rowVars
  <2>5. ASSUME NEW w \in Workers, WorkerStep(w)
        PROVE  status'[t] = "FAILED"
    <3>1. Executes(w, t) => wpc[w] = "failed"
      BY <2>1 DEF OnlyAt
    <3>2. CASE \E s \in Stages : Report(w, s)
      BY <3>2 DEF Report
    <3>3. CASE Start(w) \/ Succeed(w)
      BY <3>1, <3>3 DEF Start, Succeed, Returning, Executes, TypeOK
    <3>4. CASE RecordFailure(w)
      BY <3>4 DEF RecordFailure, TypeOK
    <3>5. CASE \/ \E u \in Tasks : Receive(w, u) \/ Redeliver(w, u)
               \/ Raise(w) \/ NotifyOutcome(w) \/ WorkerLost(w)
      BY <3>5 DEF Receive, Redeliver, Raise, NotifyOutcome, WorkerLost, rowVars
    <3>6. QED
      BY <2>5, <3>2, <3>3, <3>4, <3>5 DEF WorkerStep
  <2>6. ASSUME NEW u \in Tasks, CreatedAges(u) \/ StartedAges(u)
        PROVE  status' = status
    BY <2>6 DEF CreatedAges, StartedAges
  <2>7. CASE UNCHANGED vars
    BY <2>7 DEF vars, rowVars
  <2>8. QED
    BY <2>2, <2>3, <2>4, <2>5, <2>6, <2>7 DEF Next
<1>2. QED
  BY <1>1, TypeCorrect, Invariance, PTL DEF Spec, OwnFailureFinal
-----------------------------------------------------------------------------
(* One execution in a whole life.                                          *)

\* Nobody creates or announces a row again: a request that is about to
\* publish t has just inserted it, or was about to before.
LEMMA RequestsServe ==
  ASSUME TypeOK, NEW t \in Tasks, NEW r \in Requests,
         Browser(r) \/ RequestStep(r) \/ RequestFails(r)
  PROVE  Unserved(t)' => Unserved(t)
<1> USE DEF Unserved
<1>1. rq \in [Requests -> Request] /\ status \in [Tasks -> Statuses]
  BY DEF TypeOK
<1>2. ASSUME NEW kind \in Kinds, Begin(r, kind)
      PROVE  Unserved(t)' => Unserved(t)
  BY <1>1, <1>2 DEF Begin, IdleRequest, rowVars, brokerVars
<1>3. CASE Browser(r)
  BY <1>2, <1>3 DEF Browser, OpenPage, Poll, AskStatus, AskEnqueue, Kinds
<1>4. ASSUME NEW u \in Tasks, RecoverTask(r, u)
      PROVE  Unserved(t)' => Unserved(t)
  BY <1>1, <1>4 DEF RecoverTask, brokerVars, Request
<1>5. ASSUME NEW u \in Tasks, CreateTask(r, u)
      PROVE  Unserved(t)' => Unserved(t)
  BY <1>1, <1>5 DEF CreateTask, brokerVars, Request
<1>6. CASE Publish(r)
  BY <1>1, <1>6 DEF Publish, IdleRequest, rowVars
<1>7. CASE \/ NotifyRecovered(r) \/ ListTasks(r) \/ Respond(r) \/ AnswerStatus(r)
           \/ RejectEnqueue(r) \/ RequestFails(r)
  <2>1. \A q \in Requests : rq'[q].pc = "publish" =>
           rq[q].pc = "publish" /\ rq'[q].task = rq[q].task
    BY <1>1, <1>7 DEF Request, IdleRequest, NotifyRecovered, ListTasks, Respond,
       AnswerStatus, RejectEnqueue, RequestFails
  <2>2. status' = status /\ queue' = queue
    BY <1>7 DEF NotifyRecovered, ListTasks, Respond, AnswerStatus, RejectEnqueue,
       RequestFails, rowVars, brokerVars
  <2>3. QED
    BY <2>1, <2>2
<1>8. QED
  BY <1>3, <1>4, <1>5, <1>6, <1>7 DEF RequestStep

LEMMA OthersServe ==
  ASSUME TypeOK, NEW t \in Tasks,
         \/ ServerCrash \/ ServerStart \/ ClosePage
         \/ \E u \in Tasks : CreatedAges(u) \/ StartedAges(u)
  PROVE  Unserved(t)' => Unserved(t)
<1>1. rq \in [Requests -> Request]
  BY DEF TypeOK
<1>2. status' = status /\ queue' = queue
  BY DEF ServerCrash, ServerStart, ClosePage, CreatedAges, StartedAges, rowVars,
     brokerVars
<1>3. ASSUME NEW q \in Requests, rq'[q].pc = "publish"
      PROVE  rq[q].pc = "publish" /\ rq'[q].task = rq[q].task
  <2>1. CASE ServerCrash
    BY <1>3, <2>1 DEF ServerCrash, IdleRequest
  <2>2. CASE ClosePage
    <3>1. rq'[q] = IF rq[q].kind # "list" THEN rq[q]
                   ELSE IF rq[q].pc = "respond" THEN IdleRequest
                   ELSE [rq[q] EXCEPT !.kind = "status"]
      BY <2>2 DEF ClosePage
    <3>2. QED
      BY <1>1, <1>3, <3>1 DEF IdleRequest, Request
  <2>3. CASE ServerStart \/ \E u \in Tasks : CreatedAges(u) \/ StartedAges(u)
    BY <1>3, <2>3 DEF ServerStart, CreatedAges, StartedAges, serverVars
  <2>4. QED
    BY <2>1, <2>2, <2>3
<1>4. QED
  BY <1>2, <1>3 DEF Unserved

\* A worker gets a task from the broker only, and never gives it back.
LEMMA WorkersServe ==
  ASSUME TypeOK, Assigned, NEW t \in Tasks, NEW w \in Workers, WorkerStep(w)
  PROVE  /\ Unserved(t)' => Unserved(t)
         /\ Underway(t)' => Underway(t) \/ t \in queue
<1>1. rq' = rq
  BY DEF WorkerStep, Receive, Redeliver, Report, Start, Succeed, Raise, RecordFailure,
     NotifyOutcome, WorkerLost, serverVars
<1>2. queue' \subseteq queue
  BY DEF WorkerStep, Receive, Redeliver, Report, Start, Succeed, Raise, RecordFailure,
     NotifyOutcome, WorkerLost, brokerVars
<1>3. status'[t] = "NONE" => status[t] = "NONE"
  BY DEF TypeOK, WorkerStep, Receive, Redeliver, Report, Start, Succeed, Raise,
     RecordFailure, NotifyOutcome, WorkerLost, rowVars
<1>4. ASSUME NEW v \in Workers, wpc'[v] # "idle", wtask'[v] = t
      PROVE  (wpc[v] # "idle" /\ wtask[v] = t) \/ t \in queue
  <2>1. CASE \E u \in Tasks : Receive(w, u) \/ Redeliver(w, u)
    BY <1>4, <2>1 DEF TypeOK, Receive, Redeliver
  <2>2. CASE \E s \in Stages : Report(w, s)
    BY <1>4, <2>2 DEF TypeOK, Report, NextStages
  <2>3. CASE Start(w) \/ Succeed(w) \/ Raise(w) \/ RecordFailure(w)
    BY <1>4, <2>3 DEF TypeOK, Start, Succeed, Raise, RecordFailure, Returning, Pipeline
  <2>4. CASE NotifyOutcome(w) \/ WorkerLost(w)
    BY <1>4, <2>4 DEF TypeOK, NotifyOutcome, WorkerLost
  <2>5. QED
    BY <2>1, <2>2, <2>3, <2>4 DEF WorkerStep
<1>5. QED
  BY <1>1, <1>2, <1>3, <1>4 DEF Unserved, Underway, Executes

\* Unless its message is handed out twice, a task is executed at most once in
\* its whole life, whatever recoveries, restarts and dying workers do.
THEOREM ExecutedAtMostOnce == Spec => AtMostOnce
<1>1. TypeOK /\ Assigned /\ IInv' /\ [Next]_vars => [RunsOnce]_vars
  <2> SUFFICES ASSUME TypeOK, Assigned, IInv', Next, NEW t \in Tasks, t \notin redelivered'
               PROVE  /\ Unserved(t)' => Unserved(t)
                      /\ Underway(t)' => Underway(t) \/ (Unserved(t) /\ ~Unserved(t)')
    BY DEF RunsOnce
  <2>1. Underway(t)' => ~Unserved(t)'
    BY DEF IInv, Uncreated, OneExecution, OnePublication, Publishing, Unserved, Underway,
       Executes
  <2>2. ASSUME NEW w \in Workers, WorkerStep(w)
        PROVE  /\ Unserved(t)' => Unserved(t)
               /\ Underway(t)' => Underway(t) \/ t \in queue
    BY <2>2, WorkersServe
  <2>3. ASSUME NEW r \in Requests, Browser(r) \/ RequestStep(r) \/ RequestFails(r)
        PROVE  (Unserved(t)' => Unserved(t)) /\ UNCHANGED workerVars
    <3>1. UNCHANGED workerVars
      BY <2>3 DEF Browser, OpenPage, Poll, AskStatus, AskEnqueue, Begin, RequestStep,
         RecoverTask, CreateTask, NotifyRecovered, ListTasks, Respond, AnswerStatus,
         RejectEnqueue, Publish, RequestFails
    <3>2. QED
      BY <2>3, <3>1, RequestsServe
  <2>4. CASE \/ ServerCrash \/ ServerStart \/ ClosePage
             \/ \E u \in Tasks : CreatedAges(u) \/ StartedAges(u)
    <3>1. UNCHANGED workerVars
      BY <2>4 DEF ServerCrash, ServerStart, ClosePage, CreatedAges, StartedAges
    <3>2. QED
      BY <2>1, <2>4, <3>1, OthersServe DEF workerVars, Underway, Executes
  <2>5. CASE \E r \in Requests : Browser(r) \/ RequestStep(r) \/ RequestFails(r)
    BY <2>3, <2>5 DEF workerVars, Underway, Executes
  <2>6. CASE \E w \in Workers : WorkerStep(w)
    BY <2>1, <2>2, <2>6 DEF Unserved
  <2>7. QED
    BY <2>4, <2>5, <2>6 DEF Next
<1>2. QED
  BY <1>1, TypeCorrect, Invariance, PTL DEF Spec, AtMostOnce

-----------------------------------------------------------------------------
(***************************************************************************)
(* The refinement of TaskStatus.  A step of a request is suspicion, its    *)
(* end or a revision; a worker's write moves a trusted row forward because *)
(* the invariant tells what the row can hold while it is executed.         *)
(***************************************************************************)

LEMMA SuspectedType == TypeOK => Suspected \subseteq Tasks
<1>1. TypeOK => \A r \in Requests : rq[r].todo \subseteq Tasks
  BY DEF TypeOK, Request
<1>2. QED
  BY <1>1 DEF Suspected, TypeOK

\* A request that reads the stale tasks suspects unsettled tasks only.
LEMMA BeginSuspects ==
  ASSUME TypeOK, Assigned, NEW r \in Requests, NEW kind \in Kinds, Begin(r, kind)
  PROVE  Promise!Suspect
<1>1. /\ rq'[r].todo = StaleTasks
      /\ \A q \in Requests \ {r} : rq'[q] = rq[q]
  BY DEF Begin, TypeOK, IdleRequest
<1>2. \A t \in StaleTasks : t \in Tasks /\ status[t] \in {"PENDING", "RUNNING"}
  BY DEF StaleTasks, Stale
<1>3. UNCHANGED <<status, unavailable, redelivered>>
  BY DEF Begin, rowVars, brokerVars
<1>4. \A t \in Suspected' : t \in Suspected \/ t \in StaleTasks
  BY <1>1, <1>3 DEF Suspected
<1>5. QED
  BY <1>2, <1>3, <1>4, SuspectedType DEF Promise!Suspect

\* What a worker may write into a row it executes, if nobody suspects it.
LEMMA ExecutedRow ==
  ASSUME TypeOK, Assigned, IInv, NEW w \in Workers, wpc[w] # "idle",
         wtask[w] \notin redelivered \cup unavailable
  PROVE  /\ status[wtask[w]] # "NONE"
         /\ wpc[w] # "succeeded" => status[wtask[w]] # "SUCCESS"
         /\ wpc[w] # "failed" => status[wtask[w]] # "FAILED"
         /\ wpc[w] \notin {"received", "failing"} => status[wtask[w]] # "PENDING"
BY DEF TypeOK, Assigned, IInv, Uncreated, SuccessQuiet, FailureQuiet, OnlyAt,
   PendingIsUnstarted, Executes

\* The detailed specification implements the abstract one.
THEOREM StatusPromiseKept == Spec => StatusPromise
<1>1. Init => Promise!Init
  BY DEF Init, Promise!Init, Suspected, IdleRequest
<1>2. TypeOK /\ Assigned /\ IInv /\ [Next]_vars => [Promise!Next]_(Promise!vars)
  <2> SUFFICES ASSUME TypeOK, Assigned, IInv, [Next]_vars
               PROVE  Promise!Next \/ UNCHANGED Promise!vars
    OBVIOUS
  <2>1. ASSUME NEW r \in Requests, Browser(r)
        PROVE  Promise!Suspect
    BY <2>1, BeginSuspects DEF Browser, OpenPage, Poll, AskStatus, AskEnqueue, Kinds
  <2>2. ASSUME NEW r \in Requests, NEW t \in Tasks, RecoverTask(r, t)
        PROVE  Promise!Revise(t)
    <3>1. t \in Suspected
      BY <2>2 DEF RecoverTask, Suspected
    <3>2. Suspected' = Suspected
      <4>1. /\ rq'[r].todo = rq[r].todo \ {t}
            /\ \A q \in Requests \ {r} : rq'[q] = rq[q]
        BY <2>2 DEF RecoverTask, TypeOK, Request
      <4>2. /\ unavailable' = unavailable \cup {t}
            /\ redelivered' = redelivered
        BY <2>2 DEF RecoverTask, brokerVars
      <4>3. \A q \in Requests : rq'[q].todo \subseteq rq[q].todo
        BY <4>1
      <4>4. \A q \in Requests : rq[q].todo \subseteq rq'[q].todo \cup {t}
        BY <4>1
      <4>5. t \in rq[r].todo
        BY <2>2 DEF RecoverTask
      <4>6. QED
        BY <4>2, <4>3, <4>4, <4>5 DEF Suspected
    <3>3. QED
      BY <2>2, <3>1, <3>2 DEF RecoverTask, Promise!Revise, Promise!Becomes
  <2>3. ASSUME NEW r \in Requests, NEW t \in Tasks, CreateTask(r, t)
        PROVE  Promise!Enqueue(t)
    <3>1. \A q \in Requests : rq'[q].todo = rq[q].todo
      BY <2>3 DEF CreateTask, TypeOK, Request
    <3>2. QED
      BY <2>3, <3>1 DEF CreateTask, Promise!Enqueue, Promise!Becomes, Suspected, brokerVars
  <2>4. ASSUME UNCHANGED <<status, unavailable, redelivered>>,
               \A q \in Requests : rq'[q].todo \subseteq rq[q].todo
        PROVE  Promise!Suspect
    <3>1. Suspected' \subseteq Suspected
      BY <2>4 DEF Suspected
    <3>2. QED
      BY <2>4, <3>1, SuspectedType DEF Promise!Suspect
  <2>5. ASSUME NEW r \in Requests,
               \/ NotifyRecovered(r) \/ ListTasks(r) \/ Respond(r) \/ AnswerStatus(r)
               \/ RejectEnqueue(r) \/ Publish(r) \/ RequestFails(r)
        PROVE  Promise!Suspect
    <3>1. UNCHANGED <<status, unavailable, redelivered>>
      BY <2>5 DEF NotifyRecovered, ListTasks, Respond, AnswerStatus, RejectEnqueue,
         Publish, RequestFails, rowVars, brokerVars
    <3>2. \A q \in Requests : rq'[q].todo \subseteq rq[q].todo
      BY <2>5 DEF TypeOK, Request, IdleRequest, NotifyRecovered, ListTasks, Respond,
         AnswerStatus, RejectEnqueue, Publish, RequestFails
    <3>3. QED
      BY <3>1, <3>2, <2>4
  <2>6. CASE ServerCrash \/ ServerStart \/ ClosePage
    <3>1. UNCHANGED <<status, unavailable, redelivered>>
      BY <2>6 DEF ServerCrash, ServerStart, ClosePage, rowVars, brokerVars
    <3>2. \A q \in Requests : rq'[q].todo \subseteq rq[q].todo
      <4>1. CASE ServerCrash \/ ServerStart
        BY <4>1 DEF ServerCrash, ServerStart, IdleRequest
      <4>2. CASE ClosePage
        <5> SUFFICES ASSUME NEW q \in Requests
                     PROVE  rq'[q].todo \subseteq rq[q].todo
          OBVIOUS
        <5>1. rq[q] \in Request
          BY DEF TypeOK
        <5>2. QED
          BY <4>2, <5>1 DEF ClosePage, IdleRequest, Request
      <4>3. QED
        BY <2>6, <4>1, <4>2
    <3>3. QED
      BY <3>1, <3>2, <2>4 DEF Promise!Next
  <2>7. ASSUME NEW w \in Workers, WorkerStep(w)
        PROVE  Promise!Next \/ UNCHANGED Promise!vars
    <3>1. CASE Start(w) \/ Succeed(w) \/ RecordFailure(w)
      <4> DEFINE t == wtask[w]
      <4>1. UNCHANGED Suspected
        BY <3>1 DEF Start, Succeed, RecordFailure, Suspected, brokerVars, serverVars
      <4>2. wpc[w] # "idle" /\ t \in Tasks
        BY <3>1 DEF Start, Succeed, RecordFailure, Returning, Assigned
      <4>3. PICK s \in {"RUNNING", "SUCCESS", "FAILED"} :
               status' = [status EXCEPT ![t] = s]
        BY <3>1 DEF Start, Succeed, RecordFailure
      <4>4. CASE t \in Suspected
        <5>1. Promise!Revise(t)
          BY <4>1, <4>3, <4>4 DEF Promise!Revise, Promise!Becomes
        <5>2. QED
          BY <4>2, <5>1 DEF Promise!Next
      <4>5. CASE t \notin Suspected
        <5>1. t \notin redelivered \cup unavailable
          BY <4>5 DEF Suspected
        <5>2. status[t] \in {"PENDING", "RUNNING"}
          BY <3>1, <4>2, <5>1, ExecutedRow
             DEF Start, Succeed, RecordFailure, Returning, TypeOK, Statuses
        <5>3. CASE Start(w)
          <6>1. CASE status[t] = "PENDING"
            BY <4>1, <4>2, <5>3, <6>1
               DEF Start, Promise!Next, Promise!Start, Promise!Becomes
          <6>2. CASE status[t] = "RUNNING"
            BY <4>1, <5>3, <6>2 DEF Start, Promise!vars, TypeOK
          <6>3. QED
            BY <5>2, <6>1, <6>2
        <5>4. CASE Succeed(w)
          <6>1. status[t] = "RUNNING"
            BY <4>2, <5>1, <5>2, <5>4, ExecutedRow DEF Succeed, Returning
          <6>2. QED
            BY <4>1, <4>2, <5>4, <6>1
               DEF Succeed, Promise!Next, Promise!Succeed, Promise!Becomes
        <5>5. CASE RecordFailure(w)
          BY <4>1, <4>2, <5>2, <5>5
             DEF RecordFailure, Promise!Next, Promise!Fail, Promise!Becomes
        <5>6. QED
          BY <3>1, <5>3, <5>4, <5>5
      <4>6. QED
        BY <4>4, <4>5
    <3>2. ASSUME NEW t \in Tasks, Redeliver(w, t)
          PROVE  Promise!Suspect
      <4>1. t \in Suspected \/ status[t] \in {"PENDING", "RUNNING"}
        BY <3>2 DEF Redeliver, IInv, Uncreated, SuccessQuiet, FailureQuiet, OnlyAt,
           Suspected, TypeOK, Statuses
      <4>2. Suspected' = Suspected \cup {t}
        BY <3>2 DEF Redeliver, Suspected, rowVars, serverVars
      <4>3. QED
        BY <3>2, <4>1, <4>2, SuspectedType DEF Redeliver, Promise!Suspect, rowVars
    <3>3. CASE \/ \E t \in Tasks : Receive(w, t)
               \/ \E s \in Stages : Report(w, s)
               \/ Raise(w) \/ NotifyOutcome(w) \/ WorkerLost(w)
      BY <3>3 DEF Receive, Report, Raise, NotifyOutcome, WorkerLost, rowVars,
         brokerVars, serverVars, Promise!vars, Suspected
    <3>4. QED
      BY <2>7, <3>1, <3>2, <3>3 DEF WorkerStep, Promise!Next
  <2>8. ASSUME NEW t \in Tasks, CreatedAges(t) \/ StartedAges(t)
        PROVE  UNCHANGED Promise!vars
    BY <2>8 DEF CreatedAges, StartedAges, Promise!vars, Suspected, brokerVars, serverVars
  <2>9. CASE UNCHANGED vars
    BY <2>9 DEF vars, Promise!vars, Suspected, rowVars, brokerVars, serverVars
  <2>10. QED
    BY <2>1, <2>2, <2>3, <2>5, <2>6, <2>7, <2>8, <2>9
       DEF Next, RequestStep, Promise!Next
<1>3. QED
  BY <1>1, <1>2, TypeCorrect, Invariance, PTL DEF Spec, StatusPromise, Promise!Spec
=============================================================================
