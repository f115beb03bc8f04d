------------------------------- MODULE JobRuns -------------------------------
(* Running automations: the composition of JobsService (the job documents and
   their handlers), the run status AutomationsService keeps on workflow
   documents, the BullMQ queue with its single worker, and n8n, which executes
   the workflow and reports back over HTTP.

   Node runs one handler at a time but every `await` lets another one in.  A
   handler is therefore a frame: a program counter naming the operation the
   handler will do next (one operation on MongoDB, Redis or n8n, with the local
   code around it), and the documents it has loaded and may save, stale or not,
   later.  Frames of all HTTP requests and of the worker interleave freely. *)
EXTENDS WorkflowRunStatus, AutomationQueue, FiniteSets

CONSTANTS
    Workflows,            \* workflow ids
    NoWorkflow,           \* no workflow
    Requests,             \* slots for HTTP requests handled at the same time
    Worker,               \* the slot of the queue's worker (concurrency 1)
    QueueEnabled,         \* QUEUE_ENABLED: runs go through BullMQ
    UserStatuses,         \* the statuses users give workflows
    Editable, Removable,  \* the workflows users may edit, and those they may remove
    Errors,               \* error texts
    CredentialsVanish,    \* a credential a job needs may be deleted meanwhile
    Answers,              \* how n8n's webhook call can end, see Post
    ReportForms,          \* what a report names: its job, or only its workflow
    ReportsPerExecution,  \* how often n8n may report one execution
    MaxJobs,              \* bound: jobs ever created
    MaxDrafts,            \* bound: drafts among them
    MaxDirect,            \* bound: direct triggers per workflow
    MaxFaults             \* bound: process crashes and failing queue.add calls

Handlers == Requests \cup {Worker}
JobIds == 1..MaxJobs      \* numbered in the order of createdAt
NoJob == 0
JobStatuses == {"draft", "queued", "processing", "completed", "failed"}
ActiveStatuses == {"queued", "processing"}
TerminalStatuses == {"completed", "failed"}
Outcomes == {"completed", "failed"}

ASSUME BoundsAssumption ==
    /\ MaxJobs \in Nat /\ MaxDrafts \in Nat /\ MaxDirect \in Nat /\ MaxFaults \in Nat
    /\ ReportsPerExecution \in Nat
ASSUME SlotsAssumption == Worker \notin Requests /\ NoWorkflow \notin Workflows
ASSUME SwitchesAssumption == QueueEnabled \in BOOLEAN /\ CredentialsVanish \in BOOLEAN
ASSUME InputsAssumption ==
    /\ UserStatuses \subseteq WorkflowStatuses /\ Editable \cup Removable \subseteq Workflows
    /\ Null \notin Errors
    /\ Answers \subseteq {"ok", "refused", "lost"}
    /\ ReportForms \subseteq {"job", "workflow"}

VARIABLES
    workflows,   \* the workflows collection
    live,        \* the workflows that have not been removed
    jobs,        \* the automation_jobs collection
    created,     \* how many jobs exist
    queue,       \* the BullMQ entry of each job
    frames,      \* the handler running in each slot
    posts,       \* per job: webhook calls n8n accepted
    reports,     \* per job: reports n8n sent about it
    succeeded,   \* the jobs some report called successful
    direct,      \* per workflow: direct triggers n8n accepted
    directReports, \* per workflow: reports about direct triggers
    interrupted, \* workflows whose run was cut off half way by a crash
    abandoned,   \* jobs whose handler gave up or died, and nothing retries them
    faults

store == <<workflows, live, jobs, created, queue>>
n8n == <<posts, reports, succeeded, direct, directReports>>
ghosts == <<interrupted, abandoned, faults>>
vars == <<store, frames, n8n, ghosts>>

(* The fields of a job document that its handlers branch on or race for;
   "none" marks an id not in use yet. *)
JobDoc == [workflowId : Workflows \cup {NoWorkflow},
           status : JobStatuses \cup {"none"},
           errorMessage : Errors \cup {Null}]

NoJobDoc == [workflowId |-> NoWorkflow, status |-> "none", errorMessage |-> Null]

NewJob(w, status) == [workflowId |-> w, status |-> status, errorMessage |-> Null]

NullWorkflowDoc == [status |-> "Draft", statusBeforeRun |-> Null, triggers |-> 0]

(* job.save(), see Documents. *)
SaveJob(doc, loaded, stored) ==
    [workflowId |-> stored.workflowId,
     status |-> Written(doc.status, loaded.status, stored.status),
     errorMessage |-> Written(doc.errorMessage, loaded.errorMessage, stored.errorMessage)]

------------------------------------------------------------------------------
(* Frames *)

Steps == {"idle",
          "run.mark", "run.reread", "run.create", "run.enqueue", "run.reload",
          "dispatch.load", "dispatch.start", "dispatch.post", "dispatch.await",
          "dispatch.fail", "worker.ack", "worker.nack",
          "report.latest", "report.save", "report.count",
          "finish.load", "finish.save", "finish.reread",
          "status.save", "trigger.await"}

(* `nested` tells a markRunFinished called by dispatch from one called by the
   request handler itself. *)
Frame == [step : Steps, workflow : Workflows \cup {NoWorkflow}, job : 0..MaxJobs,
          jobDoc : JobDoc, workflowDoc : WorkflowDoc,
          outcome : Outcomes, nested : BOOLEAN]

Idle == [step |-> "idle", workflow |-> NoWorkflow, job |-> NoJob, jobDoc |-> NoJobDoc,
         workflowDoc |-> NullWorkflowDoc, outcome |-> "failed", nested |-> FALSE]

Free(p) == frames[p] = Idle
At(p, step) == frames[p].step = step
Become(p, frame) == frames' = [frames EXCEPT ![p] = frame]
Goto(p, step) == Become(p, [frames[p] EXCEPT !.step = step])

(* The frame after markRunFinished(workflow, outcome) has been called. *)
Finishing(frame, outcome, nested) ==
    [Idle EXCEPT !.step = "finish.load", !.workflow = frame.workflow, !.job = frame.job,
                 !.outcome = outcome, !.nested = nested]

(* An exception leaves the handler: a request answers with an error status, the
   worker rejects the queue entry. *)
Throw(p) ==
    IF p = Worker
    THEN Become(p, [Idle EXCEPT !.step = "worker.nack", !.job = frames[p].job,
                                !.workflow = frames[p].workflow])
    ELSE Become(p, Idle)

(* dispatch returns: to the processor, or to JobsService.run. *)
DispatchReturns(p) ==
    Become(p, [Idle EXCEPT !.step = IF p = Worker THEN "worker.ack" ELSE "run.reload",
                           !.job = frames[p].job, !.workflow = frames[p].workflow])

(* Every operation that loads or saves a workflow document throws when the
   workflow has been removed: NotFoundException from findEntity,
   DocumentNotFoundError from save. *)
NeedsWorkflow == {"run.mark", "run.reread", "dispatch.load", "finish.load", "finish.save",
                  "finish.reread", "status.save"}

WorkflowGone(p) ==
    /\ frames[p].step \in NeedsWorkflow
    /\ frames[p].workflow \notin live
    /\ Throw(p)
    /\ UNCHANGED <<store, n8n, ghosts>>

------------------------------------------------------------------------------
(* JobsService.create and JobsService.run *)

(* Ids still to be given out, counting the runs that have not created their job. *)
JobsAhead == created + Cardinality({p \in Requests :
                            frames[p].step \in {"run.mark", "run.reread", "run.create"}})

InsertJob(w, status) ==
    /\ created < MaxJobs
    /\ created' = created + 1
    /\ jobs' = [jobs EXCEPT ![created + 1] = NewJob(w, status)]

CreateDraft(w) ==
    /\ w \in live
    /\ JobsAhead < MaxJobs
    /\ Cardinality({j \in JobIds : jobs[j].status = "draft"}) < MaxDrafts
    /\ InsertJob(w, "draft")
    /\ UNCHANGED <<workflows, live, queue, frames, n8n, ghosts>>

(* The reads before markAsRunning change nothing and refuse the request when the
   workflow, its topic or a credential is missing, so a request starts with
   the load of markAsRunning. *)
Run(p, w) ==
    /\ Free(p)
    /\ w \in live
    /\ JobsAhead < MaxJobs
    /\ Become(p, [Idle EXCEPT !.step = "run.mark", !.workflow = w,
                              !.workflowDoc = workflows[w]])
    /\ UNCHANGED <<store, n8n, ghosts>>

SaveDoc(w, doc, loaded) ==
    workflows' = [workflows EXCEPT ![w] = SaveWorkflow(doc, loaded, @)]

RunMark(p) ==
    LET w == frames[p].workflow
        loaded == frames[p].workflowDoc
    IN  /\ At(p, "run.mark")
        /\ w \in live
        /\ SaveDoc(w, MarkAsRunning(loaded), loaded)
        /\ Become(p, [Idle EXCEPT !.step = "run.reread", !.workflow = w])
        /\ UNCHANGED <<live, jobs, created, queue, n8n, ghosts>>

(* The findOne at the end of markAsRunning. *)
RunReread(p) ==
    /\ At(p, "run.reread")
    /\ frames[p].workflow \in live
    /\ Goto(p, "run.create")
    /\ UNCHANGED <<store, n8n, ghosts>>

RunCreate(p) ==
    LET w == frames[p].workflow
    IN  /\ At(p, "run.create")
        /\ InsertJob(w, "queued")
        /\ Become(p, [Idle EXCEPT
                        !.step = IF QueueEnabled THEN "run.enqueue" ELSE "dispatch.load",
                        !.workflow = w, !.job = created + 1])
        /\ UNCHANGED <<workflows, live, queue, n8n, ghosts>>

RunEnqueue(p) ==
    /\ At(p, "run.enqueue")
    /\ queue' = [queue EXCEPT ![frames[p].job] = Added]
    /\ Become(p, Idle)
    /\ UNCHANGED <<workflows, live, jobs, created, n8n, ghosts>>

(* queue.add throws (Redis is down): run throws after the job was created. *)
RunEnqueueFails(p) ==
    /\ At(p, "run.enqueue")
    /\ faults < MaxFaults
    /\ faults' = faults + 1
    /\ abandoned' = abandoned \cup {frames[p].job}
    /\ Become(p, Idle)
    /\ UNCHANGED <<store, n8n, interrupted>>

(* Without a queue, run reads the dispatched job again and finishes a failed
   run a second time. *)
RunReload(p) ==
    /\ At(p, "run.reload")
    /\ Become(p, IF jobs[frames[p].job].status = "failed"
                 THEN Finishing(frames[p], "failed", FALSE) ELSE Idle)
    /\ UNCHANGED <<store, n8n, ghosts>>

------------------------------------------------------------------------------
(* JobsProcessor and JobsService.dispatch *)

(* Mutant: the processor does not await dispatch. *)
WorkerTakeNoAwait(j) ==
    /\ Free(Worker)
    /\ queue[j].state = "waiting"
    /\ queue' = [queue EXCEPT ![j] = Completed(@)]
    /\ Become(Worker, [Idle EXCEPT !.step = "dispatch.load", !.job = j,
                                   !.workflow = jobs[j].workflowId])
    /\ UNCHANGED <<workflows, live, jobs, created, n8n, ghosts>>

WorkerTake(j) ==
    /\ Free(Worker)
    /\ queue[j].state = "waiting"
    /\ queue' = [queue EXCEPT ![j] = Taken(@)]
    /\ Become(Worker, [Idle EXCEPT !.step = "dispatch.load", !.job = j,
                                   !.workflow = jobs[j].workflowId])
    /\ UNCHANGED <<workflows, live, jobs, created, n8n, ghosts>>

WorkerAck ==
    /\ At(Worker, "worker.ack")
    /\ queue' = [queue EXCEPT ![frames[Worker].job] = Completed(@)]
    /\ Become(Worker, Idle)
    /\ UNCHANGED <<workflows, live, jobs, created, n8n, ghosts>>

WorkerNack ==
    /\ At(Worker, "worker.nack")
    /\ queue' = [queue EXCEPT ![frames[Worker].job] = Rejected(@)]
    /\ Become(Worker, Idle)
    /\ UNCHANGED <<workflows, live, jobs, created, n8n, ghosts>>

(* Loads the job, then resolves the workflow and the credentials.  The status
   of the job that was loaded is not looked at. *)
DispatchLoad(p) ==
    /\ At(p, "dispatch.load")
    /\ frames[p].workflow \in live
    /\ Become(p, [frames[p] EXCEPT !.step = "dispatch.start", !.jobDoc = jobs[frames[p].job]])
    /\ UNCHANGED <<store, n8n, ghosts>>

(* dispatch throws.  The queue tries the job again; without it the exception
   leaves run as well, and the job stays queued. *)
CredentialMissing(p) ==
    /\ At(p, "dispatch.load")
    /\ CredentialsVanish
    /\ Throw(p)
    /\ abandoned' = IF p = Worker THEN abandoned ELSE abandoned \cup {frames[p].job}
    /\ UNCHANGED <<store, n8n, interrupted, faults>>

DispatchStart(p) ==
    LET j == frames[p].job
        loaded == frames[p].jobDoc
        doc == [loaded EXCEPT !.status = "processing"]
    IN  /\ At(p, "dispatch.start")
        /\ jobs' = [jobs EXCEPT ![j] = SaveJob(doc, loaded, @)]
        /\ Become(p, [frames[p] EXCEPT !.step = "dispatch.post", !.jobDoc = doc])
        /\ UNCHANGED <<workflows, live, created, queue, n8n, ghosts>>

(* The webhook call: n8n starts an execution of the job ... *)
PostAccepted(p) ==
    /\ At(p, "dispatch.post")
    /\ posts' = [posts EXCEPT ![frames[p].job] = @ + 1]
    /\ Goto(p, "dispatch.await")
    /\ UNCHANGED <<store, reports, succeeded, direct, directReports, ghosts>>

(* ... or cannot be reached or refuses the call; postToWebhook never throws. *)
PostRefused(p) ==
    /\ At(p, "dispatch.post")
    /\ "refused" \in Answers
    /\ Goto(p, "dispatch.fail")
    /\ UNCHANGED <<store, n8n, ghosts>>

(* Mutant: dispatch counts the trigger as well. *)
AnswerOkCounts(p) ==
    /\ At(p, "dispatch.await")
    /\ "ok" \in Answers
    /\ workflows' = [workflows EXCEPT ![frames[p].workflow] = IncrementTriggers(@)]
    /\ DispatchReturns(p)
    /\ UNCHANGED <<live, jobs, created, queue, n8n, ghosts>>

(* The answer to an accepted call is a success: the save writes n8nResponse only. *)
AnswerOk(p) ==
    /\ At(p, "dispatch.await")
    /\ "ok" \in Answers
    /\ DispatchReturns(p)
    /\ UNCHANGED <<store, n8n, ghosts>>

(* It is an error status, or a timeout: the execution goes on all the same. *)
AnswerLost(p) ==
    /\ At(p, "dispatch.await")
    /\ "lost" \in Answers
    /\ Goto(p, "dispatch.fail")
    /\ UNCHANGED <<store, n8n, ghosts>>

(* Mutant: the workflow is left as it is. *)
DispatchFailOnlyJob(p) ==
    /\ At(p, "dispatch.fail")
    /\ \E text \in Errors :
          jobs' = [jobs EXCEPT ![frames[p].job] = [@ EXCEPT !.status = "failed",
                                                           !.errorMessage = text]]
    /\ DispatchReturns(p)
    /\ UNCHANGED <<workflows, live, created, queue, n8n, ghosts>>

DispatchFail(p) ==
    LET j == frames[p].job
        loaded == frames[p].jobDoc
    IN  /\ At(p, "dispatch.fail")
        /\ \E text \in Errors :
              jobs' = [jobs EXCEPT ![j] =
                          SaveJob([loaded EXCEPT !.status = "failed", !.errorMessage = text],
                                  loaded, @)]
        /\ Become(p, Finishing(frames[p], "failed", TRUE))
        /\ UNCHANGED <<workflows, live, created, queue, n8n, ghosts>>

------------------------------------------------------------------------------
(* The reports of n8n: handleSuccess, handleError and handleCallback *)

(* The handler has found the job its report is about.  A success report about a
   completed job is answered without a change. *)
Found(j, outcome) ==
    IF outcome = "completed" /\ jobs[j].status = "completed"
    THEN Idle
    ELSE [Idle EXCEPT !.step = "report.save", !.workflow = jobs[j].workflowId, !.job = j,
                      !.jobDoc = jobs[j], !.outcome = outcome]

Newest(j, ids) == j \in ids /\ \A k \in ids : k <= j
ActiveJobs(w) == {j \in JobIds : jobs[j].workflowId = w /\ jobs[j].status \in ActiveStatuses}
JobsOf(w) == {j \in JobIds : jobs[j].workflowId = w}

(* A report that names no job is about the newest active job of its workflow, *)
FindActive(p, w, outcome) ==
    \/ \E j \in ActiveJobs(w) : Newest(j, ActiveJobs(w)) /\ Become(p, Found(j, outcome))
    \/ /\ ActiveJobs(w) = {}
       /\ Become(p, [Idle EXCEPT !.step = "report.latest", !.workflow = w,
                                 !.outcome = outcome])

(* or else about its newest job, or else about the workflow alone. *)
ReportLatest(p) ==
    LET w == frames[p].workflow
        outcome == frames[p].outcome
    IN  /\ At(p, "report.latest")
        /\ \/ \E j \in JobsOf(w) : Newest(j, JobsOf(w)) /\ Become(p, Found(j, outcome))
           \/ /\ JobsOf(w) = {}
              /\ Become(p, IF w \notin live THEN Idle
                           ELSE IF outcome = "completed"
                           THEN [frames[p] EXCEPT !.step = "report.count"]
                           ELSE Finishing(frames[p], "failed", FALSE))
        /\ UNCHANGED <<store, n8n, ghosts>>

(* n8n reports on an execution of job j, at any time after it accepted it. *)
Report(p, j, outcome) ==
    /\ Free(p)
    /\ reports[j] < posts[j] * ReportsPerExecution
    /\ reports' = [reports EXCEPT ![j] = @ + 1]
    /\ succeeded' = IF outcome = "completed" THEN succeeded \cup {j} ELSE succeeded
    /\ \/ "job" \in ReportForms /\ Become(p, Found(j, outcome))
       \/ "workflow" \in ReportForms /\ FindActive(p, jobs[j].workflowId, outcome)
    /\ UNCHANGED <<store, posts, direct, directReports, ghosts>>

(* n8n reports on an execution that was triggered directly and has no job. *)
ReportDirect(p, w, outcome) ==
    /\ Free(p)
    /\ directReports[w] < direct[w] * ReportsPerExecution
    /\ directReports' = [directReports EXCEPT ![w] = @ + 1]
    /\ FindActive(p, w, outcome)
    /\ UNCHANGED <<store, posts, reports, succeeded, direct, ghosts>>

(* Mutants: an error report without its text; a report that leaves the
   workflow as it is. *)
ReportSaveNoText(p) ==
    /\ At(p, "report.save")
    /\ jobs' = [jobs EXCEPT ![frames[p].job].status = frames[p].outcome]
    /\ Become(p, [Finishing(frames[p], frames[p].outcome, FALSE) EXCEPT
                     !.step = IF frames[p].outcome = "completed" THEN "report.count" ELSE @])
    /\ UNCHANGED <<workflows, live, created, queue, n8n, ghosts>>

ReportSaveOnlyJob(p) ==
    /\ At(p, "report.save")
    /\ jobs' = [jobs EXCEPT ![frames[p].job].status = frames[p].outcome]
    /\ Become(p, Idle)
    /\ UNCHANGED <<workflows, live, created, queue, n8n, ghosts>>

ReportSave(p) ==
    LET j == frames[p].job
        loaded == frames[p].jobDoc
        outcome == frames[p].outcome
    IN  /\ At(p, "report.save")
        /\ \E text \in IF outcome = "completed" THEN {Null} ELSE Errors :
              jobs' = [jobs EXCEPT ![j] =
                          SaveJob([loaded EXCEPT !.status = outcome, !.errorMessage = text],
                                  loaded, @)]
        /\ Become(p, IF outcome = "completed"
                     THEN [Idle EXCEPT !.step = "report.count", !.job = j,
                                       !.workflow = frames[p].workflow, !.outcome = outcome]
                     ELSE Finishing(frames[p], outcome, FALSE))
        /\ UNCHANGED <<workflows, live, created, queue, n8n, ghosts>>

Increment(w) ==
    workflows' = IF w \in live THEN [workflows EXCEPT ![w] = IncrementTriggers(@)]
                 ELSE workflows

ReportCount(p) ==
    /\ At(p, "report.count")
    /\ Increment(frames[p].workflow)
    /\ Become(p, Finishing(frames[p], "completed", FALSE))
    /\ UNCHANGED <<live, jobs, created, queue, n8n, ghosts>>

------------------------------------------------------------------------------
(* AutomationsService.markRunFinished *)

FinishLoad(p) ==
    LET w == frames[p].workflow
    IN  /\ At(p, "finish.load")
        /\ w \in live
        /\ Become(p, [frames[p] EXCEPT !.step = "finish.save", !.workflowDoc = workflows[w]])
        /\ UNCHANGED <<store, n8n, ghosts>>

FinishSave(p) ==
    LET w == frames[p].workflow
        loaded == frames[p].workflowDoc
    IN  /\ At(p, "finish.save")
        /\ w \in live
        /\ SaveDoc(w, MarkRunFinished(loaded, frames[p].outcome), loaded)
        /\ Become(p, IF frames[p].nested
                     THEN [frames[p] EXCEPT !.step = "finish.reread",
                                            !.workflowDoc = NullWorkflowDoc]
                     ELSE Idle)
        /\ UNCHANGED <<live, jobs, created, queue, n8n, ghosts>>

(* Mutant: dispatch throws the failure on, as JobsService.run does. *)
FinishRereadThrows(p) ==
    /\ At(p, "finish.reread")
    /\ frames[p].workflow \in live
    /\ Throw(p)
    /\ UNCHANGED <<store, n8n, ghosts>>

(* The findOne at the end of markRunFinished decides how dispatch ends; at the
   end of a request it only makes the answer. *)
FinishReread(p) ==
    /\ At(p, "finish.reread")
    /\ frames[p].workflow \in live
    /\ DispatchReturns(p)
    /\ UNCHANGED <<store, n8n, ghosts>>

------------------------------------------------------------------------------
(* The other requests that touch a workflow's run status *)

SetStatus(p, w) ==
    /\ Free(p)
    /\ w \in live \cap Editable
    /\ Become(p, [Idle EXCEPT !.step = "status.save", !.workflow = w,
                              !.workflowDoc = workflows[w]])
    /\ UNCHANGED <<store, n8n, ghosts>>

StatusSave(p) ==
    LET w == frames[p].workflow
        loaded == frames[p].workflowDoc
    IN  /\ At(p, "status.save")
        /\ w \in live
        /\ \E status \in UserStatuses : SaveDoc(w, [loaded EXCEPT !.status = status], loaded)
        /\ Become(p, Idle)
        /\ UNCHANGED <<live, jobs, created, queue, n8n, ghosts>>

Remove(w) ==
    /\ w \in live \cap Removable
    /\ live' = live \ {w}
    /\ UNCHANGED <<workflows, jobs, created, queue, frames, n8n, ghosts>>

(* POST automations/trigger, automations/:id/trigger and n8n/webhook: the
   workflow is executed without a job; n8n accepts the call ... *)
Trigger(p, w) ==
    /\ Free(p)
    /\ w \in live
    /\ direct[w] < MaxDirect
    /\ direct' = [direct EXCEPT ![w] = @ + 1]
    /\ Become(p, [Idle EXCEPT !.step = "trigger.await", !.workflow = w])
    /\ UNCHANGED <<store, posts, reports, succeeded, directReports, ghosts>>

(* ... and its answer is counted when it is a success. *)
TriggerAnswered(p) ==
    /\ At(p, "trigger.await")
    /\ \/ "ok" \in Answers /\ Increment(frames[p].workflow)
       \/ "lost" \in Answers /\ UNCHANGED workflows
    /\ Become(p, Idle)
    /\ UNCHANGED <<live, jobs, created, queue, n8n, ghosts>>

------------------------------------------------------------------------------
(* The process dies: every frame is lost and what was between two writes of one
   handler stays half done.  MongoDB, Redis and n8n go on. *)

HalfDone == {"run.reread", "run.create", "report.count", "finish.load", "finish.save"}

(* The steps at which a handler has still to take its job further. *)
InHand == {"run.enqueue", "dispatch.load", "dispatch.start", "dispatch.post", "dispatch.fail",
           "report.save", "worker.nack"}

Crash ==
    /\ faults < MaxFaults
    /\ \E p \in Handlers : ~Free(p)
    /\ faults' = faults + 1
    /\ frames' = [p \in Handlers |-> Idle]
    /\ queue' = [j \in JobIds |->
                    IF queue[j].state = "active" THEN Stalled(queue[j]) ELSE queue[j]]
    /\ interrupted' = interrupted \cup
          {frames[p].workflow : p \in {q \in Handlers : frames[q].step \in HalfDone}}
    /\ abandoned' = abandoned \cup
          {frames[p].job : p \in {q \in Requests : frames[q].step \in InHand}}
    /\ UNCHANGED <<workflows, live, jobs, created, n8n>>

------------------------------------------------------------------------------
(* The specification *)

Init ==
    /\ workflows \in [Workflows -> {[status |-> s, statusBeforeRun |-> Null, triggers |-> 0] :
                                    s \in UserStatuses}]
    /\ live = Workflows
    /\ jobs = [j \in JobIds |-> NoJobDoc]
    /\ created = 0
    /\ queue = [j \in JobIds |-> NoEntry]
    /\ frames = [p \in Handlers |-> Idle]
    /\ posts = [j \in JobIds |-> 0]
    /\ reports = [j \in JobIds |-> 0]
    /\ succeeded = {}
    /\ direct = [w \in Workflows |-> 0]
    /\ directReports = [w \in Workflows |-> 0]
    /\ interrupted = {}
    /\ abandoned = {}
    /\ faults = 0

(* The steps dispatch takes in either kind of slot ... *)
DispatchStep(p) ==
    \/ DispatchLoad(p) \/ CredentialMissing(p) \/ DispatchStart(p)
    \/ PostAccepted(p) \/ PostRefused(p) \/ AnswerOk(p) \/ AnswerLost(p) \/ DispatchFail(p)
    \/ FinishLoad(p) \/ FinishSave(p) \/ FinishReread(p) \/ WorkflowGone(p)

WorkerStep == DispatchStep(Worker) \/ WorkerAck \/ WorkerNack

(* ... and those of a request on its way. *)
RequestStep(p) ==
    \/ DispatchStep(p)
    \/ RunMark(p) \/ RunReread(p) \/ RunCreate(p) \/ RunEnqueue(p) \/ RunReload(p)
    \/ ReportLatest(p) \/ ReportSave(p) \/ ReportCount(p)
    \/ StatusSave(p) \/ TriggerAnswered(p)

(* What users and n8n may ask for at any time. *)
Arrival(p) ==
    \/ \E w \in Workflows : Run(p, w) \/ SetStatus(p, w) \/ Trigger(p, w)
    \/ \E j \in JobIds, outcome \in Outcomes : Report(p, j, outcome)
    \/ \E w \in Workflows, outcome \in Outcomes : ReportDirect(p, w, outcome)

Next ==
    \/ \E p \in Requests : Arrival(p) \/ RequestStep(p) \/ RunEnqueueFails(p)
    \/ \E j \in JobIds : WorkerTake(j)
    \/ WorkerStep
    \/ \E w \in Workflows : CreateDraft(w) \/ Remove(w)
    \/ Crash

Spec == Init /\ [][Next]_vars

(* Node's event loop resumes every pending handler, the worker polls its queue,
   and a webhook call ends by an answer or by the client's timeout. *)
Fairness ==
    /\ \A p \in Requests : WF_vars(RequestStep(p))
    /\ WF_vars(WorkerStep)
    /\ \A j \in JobIds : WF_vars(WorkerTake(j))

FairSpec == Spec /\ Fairness

(* Moreover n8n delivers a report on every execution.  Strong fairness: the
   slots bound the handlers in flight, the server itself never turns a request
   away for long. *)
ReportingSpec ==
    /\ FairSpec
    /\ \A j \in JobIds :
          SF_vars(\E p \in Requests, outcome \in Outcomes : Report(p, j, outcome))
=============================================================================
